------------------------------- MODULE MCCmap -------------------------------
(* Hashes, hash functions and set-ups for model checking Cmap. *)
EXTENDS Cmap

CONSTANTS na, nb, nc, nd, ne, nf

\* na and nf share the hash that an unused slot holds.
MCHashOf == na :> 0 @@ nf :> 0 @@ nb :> 1 @@ nc :> 2 @@ nd :> 3 @@ ne :> 4

\* A hash whose buckets, of four, are b1 and b2.
In(b1, b2) == b1 + 4 * b2

\* Under the first basis the chain of na is moved back to its first bucket when ne
\* comes after the second set-up.  Under the second, nc and na make room for ne on
\* a path of two hops.
MCHashFinish ==
  <<0 :> In(0, 1) @@ 1 :> In(0, 2) @@ 2 :> In(0, 2) @@ 3 :> In(1, 1) @@ 4 :> In(1, 1),
    0 :> In(1, 2) @@ 1 :> In(0, 0) @@ 2 :> In(0, 1) @@ 3 :> In(1, 1) @@ 4 :> In(0, 0)>>

Inserts(s) == [i \in DOMAIN s |-> <<Null, s[i]>>]
MCSetups ==
  {<<>>, Inserts(<<nb, nc, na, nd>>) \o <<<<nb, Null>>>>,
   Inserts(<<nb, nc, na, nd>>)}
=============================================================================
