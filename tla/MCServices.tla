----------------------------- MODULE MCServices -----------------------------
(* Small instances of the services.  Two of four nodes have the same key. *)
EXTENDS Services

CONSTANTS na, nb, nc, nd

Keys == [n \in Node |-> CASE n = na -> 1 [] n = nd -> 3 [] OTHER -> 2]
=============================================================================
