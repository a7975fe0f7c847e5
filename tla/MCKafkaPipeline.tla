-------------------------- MODULE MCKafkaPipeline --------------------------
(* Small instances of KafkaPipeline.                                       *)
EXTENDS KafkaPipeline

CONSTANTS o1, i1, w, k

MCUnitPrice == [i \in ItemIds |-> 3]
MCQuantity  == [i \in ItemIds |-> 1]

\* The shortest life of an order.
LogOfLife == <<NewOrderCreated(o1), NewOrderItemAdded(o1, i1),
               NewOrderConfirmed(o1, TotalAmount({i1}))>>

\* Its beginning.
LogOfBirth == <<NewOrderCreated(o1), NewOrderItemAdded(o1, i1)>>
=============================================================================
