------------------------- MODULE MCOrderProjection -------------------------
(* A small instance of OrderProjection.                                    *)
EXTENDS OrderProjection, TLC

CONSTANTS o1, i1, i2, c1, c2

MCUnitPrice == [i \in ItemIds |-> IF i = i1 THEN 3 ELSE 4]
MCQuantity  == [i \in ItemIds |-> 1]

MCLog == <<NewOrderCreated(o1), NewOrderItemAdded(o1, i1), NewOrderItemAdded(o1, i2),
           NewOrderConfirmed(o1, TotalAmount({i1, i2}))>>

Symmetry == Permutations(Consumers)
=============================================================================
