--------------------------- MODULE MCFulfilment ---------------------------
(* Small instances of Fulfilment for TLC.                                  *)
EXTENDS Fulfilment, TLC

CONSTANTS p1, p2, w1, w2

Line1(p) == [product |-> p, quantity |-> 1]

\* Two products in either order: handlers can wait for each other in a cycle.
CrossedCarts == {<<Line1(p1), Line1(p2)>>, <<Line1(p2), Line1(p1)>>}

\* One product on two lines, which share an idempotency key.
RepeatedCarts == {<<Line1(p1), Line1(p1)>>}

OneLineCarts == {<<Line1(p1)>>}

Symmetry == Permutations(Workers) \union Permutations(Products)

=============================================================================
