--------------------------- MODULE MCOrderQueries ---------------------------
(* A small instance of OrderQueries: the pipeline of three orders and a client. *)
EXTENDS OrderQueries

CONSTANTS o1, o2, o3, i1, w1

MCUnitPrice == [i \in ItemIds |-> 3]
MCQuantity  == [i \in ItemIds |-> 1]

\* Three orders, of which one gets an item and is confirmed.  The other two are
\* created in the same microsecond.
LogOfThree  == <<NewOrderCreated(o1), NewOrderItemAdded(o1, i1), NewOrderCreated(o2),
                 NewOrderCreated(o3), NewOrderConfirmed(o1, TotalAmount({i1}))>>
SeenOfThree == <<{}, {1}, {}, {}, {1, 2}>>
Times       == <<1, 2, 3, 3, 4>>

Listing(status, sort, dir, size) ==
    [status |-> status, sort |-> sort, dir |-> dir, size |-> size]

\* All orders by created_at, page by page, and the confirmed ones by the total
\* with a page size that is out of range.
MCListings == {Listing("", "created_at", "asc", 2),
               Listing("CONFIRMED", "total_amount", "desc", 3)}

\* The commands of either order did not overlap, and no total wraps around.
ASSUME LogAssumption == P!SerialLog /\ P!ConfirmedTotals /\ P!TotalsFit
=============================================================================
