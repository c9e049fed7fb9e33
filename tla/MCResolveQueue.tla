--------------------------- MODULE MCResolveQueue ---------------------------
(* Model values for ResolveQueue: a ring of Capacity slots is filled, wraps *)
(* and is cancelled within the number of Items.                            *)
EXTENDS ResolveQueue, TLC

CONSTANTS p1, p2, c1, c2, j1, j2, j3, j4

MCProducers == {p1, p2}
TwoConsumers == {c1, c2}
MCItems == {j1, j2, j3, j4}
MCCancelCapacities == {Capacity}
=============================================================================
