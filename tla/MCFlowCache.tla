---------------------------- MODULE MCFlowCache ----------------------------
(* Model checking instance of FlowCache. *)
EXTENDS FlowCache

CONSTANTS f, g

\* One flow of the tables, next to one of the GTP manager that every datapath may
\* cache.  A flow that handle_upcalls() keeps out of the cache ("gtp") behaves as one
\* that is declined every time.
MCKinds == {[x \in {f, g} |-> IF x = f THEN "plain" ELSE "sgi"]}
=============================================================================
