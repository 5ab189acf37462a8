------------------------------ MODULE MCOvsRcu ------------------------------
(* Model checking instances of OvsRcu: the constants are all in the configs. *)
EXTENDS OvsRcu
=============================================================================
