------------------------- MODULE MCInMemoryPipeline -------------------------
(* Small instances of InMemoryPipeline.                                    *)
EXTENDS InMemoryPipeline

CONSTANTS o1, i1, i2, w1

MCUnitPrice == [i \in ItemIds |-> IF i = i1 THEN 3 ELSE 4]
MCQuantity  == [i \in ItemIds |-> 1]

\* An order that gets two items and is confirmed.  The second item is added by a
\* command that overlaps both the first AddItem and the confirmation.
OverlappedLog  == <<NewOrderCreated(o1), NewOrderItemAdded(o1, i1), NewOrderItemAdded(o1, i2),
                    NewOrderConfirmed(o1, TotalAmount({i1}))>>
OverlappedSeen == <<{}, {1}, {1}, {1, 2}>>

\* The shortest life of an order, one command after the other.
LogOfLife  == <<NewOrderCreated(o1), NewOrderItemAdded(o1, i1),
                NewOrderConfirmed(o1, TotalAmount({i1}))>>
SeenOfLife == <<{}, {1}, {1, 2}>>

\* Every statement that reports its failure.
Reported == {"check", "findView", "writeView", "findItem", "writeItem", "getOrder",
             "getItems", "update", "findMark", "writeMark"}

\* No total of the instances wraps around.
ASSUME LogAssumption == P!TotalsFit
=============================================================================
