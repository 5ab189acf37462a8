---------------------------- MODULE MCGtpSwitches ----------------------------
(* A model checking instance of GtpSwitches: the second of two switches     *)
(* joins the first, which then switches to the fast path.                   *)
EXTENDS GtpSwitches

CONSTANTS s1, s2, q1, x1

MCSwitches == {s1, s2}
MCSessions == {x1}
MCRequests == {q1}
MCSeqNum == [q \in MCRequests |-> 5]
MCEras == {1, 2}

Parameters(id, total, fastpath) ==
  [p \in Params |-> CASE p = "ovs_id" -> id
                      [] p = "ovs_total" -> total
                      [] p = "ovs_phy_port" -> 1
                      [] p = "pgw_fastpath" -> fastpath]

MCConfig ==
  << [s \in MCSwitches |-> IF s = s1 THEN Parameters(0, 1, 0)
                                     ELSE Parameters(1, 1, 0)],
     [s \in MCSwitches |-> IF s = s1 THEN Parameters(0, 2, 1)
                                     ELSE Parameters(1, 2, 0)] >>
==============================================================================
