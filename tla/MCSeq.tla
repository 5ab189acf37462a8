-------------------------------- MODULE MCSeq --------------------------------
(* Model checking instance of Seq: the constants are in the config. *)
EXTENDS Seq
==============================================================================
