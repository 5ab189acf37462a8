------------------------------ MODULE MCGtpPgw ------------------------------
(* Model checking instances of GtpPgw: the constants are all in the configs. *)
EXTENDS GtpPgw
=============================================================================
