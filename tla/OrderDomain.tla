---------------------------- MODULE OrderDomain ----------------------------
(***************************************************************************)
(* The Order aggregate of internal/domain/order: a status, a set of line   *)
(* items, and the domain events its methods raise.  Everything here is a   *)
(* pure operator; the modules that run the aggregate inside transactions   *)
(* (OrderCommands) and that replay its events (OrderProjection) share it.  *)
(*                                                                         *)
(* An item is represented by its UUID: NewOrderItem draws a fresh one, so  *)
(* the id determines the product, the quantity and the unit price, which   *)
(* are constant functions of it.  The slice of items is a set of ids: no   *)
(* item is ever appended twice and nothing depends on their order.         *)
(***************************************************************************)
EXTENDS Integers, Sequences, FiniteSetsExt

CONSTANTS
    OrderIds,      \* order UUIDs
    ItemIds,       \* order item UUIDs
    Quantity,      \* Quantity[i]: the quantity of item i (Go int)
    UnitPrice,     \* UnitPrice[i]: its unit price in cents (Go int64)
    IntWidth       \* bits of the integer that holds an amount (64 in the code)

ASSUME ItemAssumption ==
    /\ Quantity \in [ItemIds -> Int]
    /\ UnitPrice \in [ItemIds -> Int]
    /\ IntWidth \in Nat \ {0}

-----------------------------------------------------------------------------
(* Money: cents in a signed integer of IntWidth bits that wraps around.    *)
(* Addition and multiplication wrap at every step in the code; modulo      *)
(* 2^IntWidth that is the same as wrapping the exact sum once.             *)
Wrap(n) == ((n + 2^(IntWidth - 1)) % 2^IntWidth) - 2^(IntWidth - 1)

TotalPrice(i) == UnitPrice[i] * Quantity[i]

TotalAmount(items) == Wrap(MapThenSumSet(TotalPrice, items))

\* The amounts that can be stored at all: the totals of the sets of items.
Amounts == {TotalAmount(items) : items \in SUBSET ItemIds}

-----------------------------------------------------------------------------
(* The status.  CANCELLED is declared by the code but no operation ever    *)
(* sets it.                                                                *)
Statuses == {"DRAFT", "CONFIRMED", "CANCELLED"}

IsModifiable(status) == status = "DRAFT"

-----------------------------------------------------------------------------
(* Domain events.                                                          *)
NewOrderCreated(o)      == [type |-> "OrderCreated", order |-> o]
NewOrderItemAdded(o, i) == [type |-> "OrderItemAdded", order |-> o, item |-> i]
NewOrderConfirmed(o, t) == [type |-> "OrderConfirmed", order |-> o, total |-> t]

Events ==
         [type : {"OrderCreated"}, order : OrderIds]
    \cup [type : {"OrderItemAdded"}, order : OrderIds, item : ItemIds]
    \cup [type : {"OrderConfirmed"}, order : OrderIds, total : Amounts]

-----------------------------------------------------------------------------
(* The aggregate in memory.  "raised" is what o.Events() hands over: every *)
(* method raises at most one event.  Timestamps and the customer id are    *)
(* left out: no operation reads them.                                      *)
Aggregates ==
    [status : Statuses, items : SUBSET ItemIds, version : Nat, raised : Seq(Events)]

NewOrder(o) ==
    [status |-> "DRAFT", items |-> {}, version |-> 1, raised |-> <<NewOrderCreated(o)>>]

ReconstructOrder(status, version, items) ==
    [status |-> status, items |-> items, version |-> version, raised |-> <<>>]

(* AddItem: its errors in the order the code tests them, then its effect.  *)
AddItemError(agg, i) ==
    IF ~IsModifiable(agg.status) THEN "ErrOrderNotModifiable"
    ELSE IF Quantity[i] <= 0     THEN "ErrInvalidQuantity"
    ELSE IF UnitPrice[i] <= 0    THEN "ErrInvalidPrice"
    ELSE "nil"

AddItem(agg, o, i) ==
    [agg EXCEPT !.items = @ \cup {i}, !.raised = <<NewOrderItemAdded(o, i)>>]

\* Mutants of ConfirmError: one check forgotten.
ConfirmErrorAllowEmpty(agg) ==
    IF ~IsModifiable(agg.status) THEN "ErrOrderNotModifiable" ELSE "nil"
ConfirmErrorAllowRepeat(agg) ==
    IF agg.items = {} THEN "ErrNoItems" ELSE "nil"

(* Confirm: likewise.  The event carries the total of the items in memory. *)
ConfirmError(agg) ==
    IF ~IsModifiable(agg.status) THEN "ErrOrderNotModifiable"
    ELSE IF agg.items = {}       THEN "ErrNoItems"
    ELSE "nil"

Confirm(agg, o) ==
    [agg EXCEPT !.status = "CONFIRMED",
                !.raised = <<NewOrderConfirmed(o, TotalAmount(agg.items))>>]
=============================================================================
