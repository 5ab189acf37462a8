----------------------------- MODULE MCGtpTunnel -----------------------------
(* Keys for model checking GtpTunnel. *)
EXTENDS GtpTunnel

\* Every key of every session differs.
DistinctKeys == [s \in Sessions |-> [r \in Roles |-> <<r, s>>]]

\* The key of role r of session s2 is the one of role q of session s1.
SharedKey(q, r) == [DistinctKeys EXCEPT !["s2"][r] = DistinctKeys["s1"][q]]

OnlyDistinct == {DistinctKeys}

\* Two TEIDs of session s1 coincide.
InsideKey == [DistinctKeys EXCEPT !["s1"]["t4"] = DistinctKeys["s1"]["t2"]]

\* The gateway chooses t2 and t5, the serving gateway t4: any two of them may
\* coincide; and the address of a user may have been given to another one.
AnyKeys ==
  {DistinctKeys, SharedKey("t2", "t2"), SharedKey("t2", "t4"), SharedKey("t4", "t5"),
   SharedKey("ueip", "ueip"), InsideKey}
==============================================================================
