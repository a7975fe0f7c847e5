------------------------ MODULE TransactionalOutbox ------------------------
(***************************************************************************)
(* What the write side promises, without handlers, transactions or tables: *)
(* an order and the log of domain events change together, by one operation *)
(* and one event at a time.                                                *)
(*                                                                         *)
(* An operation works on a snapshot of its order, "base".  Two strengths   *)
(* of the promise differ in which snapshots they admit:                    *)
(*   - Next: any items that were ever announced, as concurrent handlers    *)
(*     may overwrite one another;                                          *)
(*   - SerialNext: the order as it is, as if handlers ran one at a time.   *)
(*                                                                         *)
(* What the events look like, and how a total is computed, is of no        *)
(* importance here: those are parameters, by the names of OrderDomain.     *)
(***************************************************************************)
EXTENDS Sequences

CONSTANTS
    OrderIds, ItemIds,
    NewOrderCreated(_), NewOrderItemAdded(_, _), NewOrderConfirmed(_, _),
    TotalAmount(_), IsModifiable(_)

VARIABLES
    status,     \* status[o]: "ABSENT" or a status
    items,      \* items[o]: the items of order o
    log         \* the events published so far

vars == <<status, items, log>>

Published(e) == \E n \in DOMAIN log : log[n] = e
Announced(o) == {i \in ItemIds : Published(NewOrderItemAdded(o, i))}

Init ==
    /\ status = [o \in OrderIds |-> "ABSENT"]
    /\ items  = [o \in OrderIds |-> {}]
    /\ log    = <<>>

CreateOp(o) ==
    /\ status[o] = "ABSENT"
    /\ status' = [status EXCEPT ![o] = "DRAFT"]
    /\ log' = Append(log, NewOrderCreated(o))
    /\ UNCHANGED items

AddItemOp(o, i, base) ==
    /\ status[o] # "ABSENT"
    /\ \A p \in OrderIds : i \notin Announced(p)
    /\ status' = [status EXCEPT ![o] = "DRAFT"]
    /\ items'  = [items EXCEPT ![o] = base \cup {i}]
    /\ log' = Append(log, NewOrderItemAdded(o, i))

ConfirmOp(o, base) ==
    /\ status[o] # "ABSENT"
    /\ base # {}
    /\ status' = [status EXCEPT ![o] = "CONFIRMED"]
    /\ items'  = [items EXCEPT ![o] = base]
    /\ log' = Append(log, NewOrderConfirmed(o, TotalAmount(base)))

Next == \E o \in OrderIds :
    \/ CreateOp(o)
    \/ \E base \in SUBSET Announced(o) :
          ConfirmOp(o, base) \/ \E i \in ItemIds : AddItemOp(o, i, base)

SerialNext == \E o \in OrderIds :
    \/ CreateOp(o)
    \/ /\ IsModifiable(status[o])
       /\ ConfirmOp(o, items[o]) \/ \E i \in ItemIds : AddItemOp(o, i, items[o])

Spec == Init /\ [][Next]_vars
=============================================================================
