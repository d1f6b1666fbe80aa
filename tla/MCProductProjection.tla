------------------------ MODULE MCProductProjection ------------------------
(* Small instances of ProductProjection for TLC.                           *)
EXTENDS ProductProjection

CONSTANTS w1, w2

\* Every order is for the first product.
ForFirst == [o \in Orders |-> CHOOSE p \in Products : \A q \in Products : p <= q]

=============================================================================
