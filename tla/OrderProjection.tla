--------------------------- MODULE OrderProjection ---------------------------
(***************************************************************************)
(* The projection handler and the read model it writes: order_views,       *)
(* order_item_views and processed_events.  Handle runs a sequence of SQL   *)
(* statements, each a transaction of its own, so a failure or a crash can  *)
(* come after any of them and two consumers can be in the middle of the    *)
(* same event.                                                             *)
(*                                                                         *)
(* The event log is a constant: Log[e] is the payload of event e.  The     *)
(* specification at the end delivers any event to any consumer at any      *)
(* time, and again; the pipelines replace it by what a bus really does.    *)
(***************************************************************************)
EXTENDS OrderDomain, FiniteSets

CONSTANTS
    Consumers,     \* goroutines that call Handle
    Log,           \* the events, in the order the write side raised them
    MayFail,       \* the statements that may fail, of Statements
    MaxFailures    \* bound: statements that fail

LogIds == DOMAIN Log

\* The statements of Handle, by their place in it.
Statements == {"check", "findView", "writeView", "findItem", "writeItem", "getOrder",
               "getItems", "count", "update", "findMark", "writeMark"}

ASSUME ProjectionAssumption ==
    /\ Log \in Seq(Events)
    /\ MaxFailures \in Nat
    /\ MayFail \subseteq Statements

VARIABLES
    views,         \* views[o]: the row of order_views, or NoView
    itemViews,     \* itemViews[o]: the rows of order_item_views with order_id o
    processed,     \* the events in processed_events
    at,            \* at[c]: the statement consumer c runs next in Handle
    event,         \* event[c]: the event it handles, 0 when none
    memory,        \* memory[c]: what it has read and still uses
    failures       \* failed statements so far

readModel == <<views, itemViews, processed>>
vars      == <<readModel, at, event, memory, failures>>

-----------------------------------------------------------------------------
NoView == [status |-> "ABSENT", total |-> 0, count |-> 0]
Views  == [status : Statuses, total : Amounts \cup {0}, count : Nat]

\* found: what the SELECT of a FirstOrCreate has returned;
\* total, count: what UpdateOrderStatus is going to write.
NoMemory == [found |-> FALSE, total |-> 0, count |-> 0]
Memory   == [found : BOOLEAN, total : Amounts \cup {0}, count : Nat]

Places == Statements \cup {"idle", "ok", "error"}

OrderOf(c) == Log[event[c]].order
TypeOf(c)  == Log[event[c]].type

Goto(c, place) == at' = [at EXCEPT ![c] = place]

\* Handle returns an error; it has written what it has written.
ReturnError(c) ==
    /\ Goto(c, "error")
    /\ memory' = [memory EXCEPT ![c] = NoMemory]
    /\ UNCHANGED <<readModel, event, failures>>

-----------------------------------------------------------------------------
Init ==
    /\ views     = [o \in OrderIds |-> NoView]
    /\ itemViews = [o \in OrderIds |-> {}]
    /\ processed = {}
    /\ at        = [c \in Consumers |-> "idle"]
    /\ event     = [c \in Consumers |-> 0]
    /\ memory    = [c \in Consumers |-> NoMemory]
    /\ failures  = 0

\* The bus calls Handle.
Handle(c, e) ==
    /\ at[c] = "idle"
    /\ Goto(c, "check")
    /\ event' = [event EXCEPT ![c] = e]
    /\ UNCHANGED <<readModel, memory, failures>>

\* Mutant of FirstStatement: a case is forgotten.
FirstStatementNoConfirm(type) ==
    CASE type = "OrderCreated"   -> "findView"
      [] type = "OrderItemAdded" -> "findItem"
      [] OTHER                   -> "findMark"

\* The switch over the type of the event.
FirstStatement(type) ==
    CASE type = "OrderCreated"   -> "findView"
      [] type = "OrderItemAdded" -> "findItem"
      [] type = "OrderConfirmed" -> "count"

\* IsProcessed: nothing is done for an event that is.
CheckProcessed(c) ==
    /\ at[c] = "check"
    /\ Goto(c, IF event[c] \in processed THEN "ok" ELSE FirstStatement(TypeOf(c)))
    /\ memory' = [memory EXCEPT ![c].total =
                     IF TypeOf(c) = "OrderConfirmed" THEN Log[event[c]].total ELSE 0]
    /\ UNCHANGED <<readModel, event, failures>>

-----------------------------------------------------------------------------
(* OrderCreated: UpsertOrderView.                                          *)

\* FirstOrCreate, as GORM runs it: SELECT, then INSERT if nothing was found
\* (an error if the row is there by now), else UPDATE of the assigned fields
\* that are not zero.  Of the view of OrderCreated that is the status, as
\* its total and its count are zero.
FindView(c) ==
    /\ at[c] = "findView"
    /\ memory' = [memory EXCEPT ![c].found = views[OrderOf(c)] # NoView]
    /\ Goto(c, "writeView")
    /\ UNCHANGED <<readModel, event, failures>>

WriteView(c) ==
    /\ at[c] = "writeView"
    /\ LET o == OrderOf(c) IN
       \/ /\ ~memory[c].found /\ views[o] # NoView
          /\ ReturnError(c)
       \/ /\ memory[c].found \/ views[o] = NoView
          /\ views' = [views EXCEPT ![o].status = "DRAFT"]
          /\ Goto(c, "findMark")
          /\ UNCHANGED <<itemViews, processed, event, memory, failures>>

-----------------------------------------------------------------------------
(* OrderItemAdded: UpsertOrderItemView, then the totals of the order.      *)

\* The SELECT of its FirstOrCreate.
FindItem(c) ==
    /\ at[c] = "findItem"
    /\ memory' = [memory EXCEPT ![c].found = Log[event[c]].item \in itemViews[OrderOf(c)]]
    /\ Goto(c, "writeItem")
    /\ UNCHANGED <<readModel, event, failures>>

\* Mutant of WriteItem: the totals are not recalculated.
WriteItemOnly(c) ==
    /\ at[c] = "writeItem"
    /\ itemViews' = [itemViews EXCEPT ![OrderOf(c)] = @ \cup {Log[event[c]].item}]
    /\ Goto(c, "findMark")
    /\ UNCHANGED <<views, processed, event, memory, failures>>

\* The INSERT or UPDATE of the item.
WriteItem(c) ==
    /\ at[c] = "writeItem"
    /\ LET o == OrderOf(c)
           i == Log[event[c]].item IN
       \/ /\ ~memory[c].found /\ i \in itemViews[o]
          /\ ReturnError(c)
       \/ /\ memory[c].found \/ i \notin itemViews[o]
          /\ itemViews' = [itemViews EXCEPT ![o] = @ \cup {i}]
          /\ Goto(c, "getOrder")
          /\ UNCHANGED <<views, processed, event, memory, failures>>

\* Mutant of GetOrder: that there is no view is no error.
GetOrderMissingIsFine(c) ==
    /\ at[c] = "getOrder"
    /\ Goto(c, "getItems")
    /\ UNCHANGED <<readModel, event, memory, failures>>

\* GetOrderByID, first SELECT: ErrOrderNotFound when there is no view.
GetOrder(c) ==
    /\ at[c] = "getOrder"
    /\ \/ views[OrderOf(c)] = NoView /\ ReturnError(c)
       \/ /\ views[OrderOf(c)] # NoView
          /\ Goto(c, "getItems")
          /\ UNCHANGED <<readModel, event, memory, failures>>

\* GetOrderByID, second SELECT, and the sum of the prices.
GetItems(c) ==
    /\ at[c] = "getItems"
    /\ memory' = [memory EXCEPT ![c].total = TotalAmount(itemViews[OrderOf(c)])]
    /\ Goto(c, "count")
    /\ UNCHANGED <<readModel, event, failures>>

-----------------------------------------------------------------------------
(* OrderItemAdded and OrderConfirmed: UpdateOrderStatus.                   *)

\* The count of the items.  Its error is not looked at: the count is then 0.
CountItems(c) ==
    /\ at[c] = "count"
    /\ memory' = [memory EXCEPT ![c].count = Cardinality(itemViews[OrderOf(c)])]
    /\ Goto(c, "update")
    /\ UNCHANGED <<readModel, event, failures>>

CountFails(c) ==
    /\ at[c] = "count"
    /\ "count" \in MayFail /\ failures < MaxFailures
    /\ failures' = failures + 1
    /\ memory' = [memory EXCEPT ![c].count = 0]
    /\ Goto(c, "update")
    /\ UNCHANGED <<readModel, event>>

\* Mutants of UpdateOrderStatus: one too few, or added to what is there.
UpdateOrderStatusOffByOne(view, type, total, count) ==
    [status |-> IF type = "OrderConfirmed" THEN "CONFIRMED" ELSE view.status,
     total  |-> IF total > 0 THEN total ELSE view.total,
     count  |-> count - 1]
UpdateOrderStatusIncrement(view, type, total, count) ==
    [status |-> IF type = "OrderConfirmed" THEN "CONFIRMED" ELSE view.status,
     total  |-> IF total > 0 THEN total ELSE view.total,
     count  |-> view.count + count]

\* UPDATE order_views: the status of a confirmation, a total above zero, the
\* count.  It touches no row, and succeeds, when there is no view.
UpdateOrderStatus(view, type, total, count) ==
    [status |-> IF type = "OrderConfirmed" THEN "CONFIRMED" ELSE view.status,
     total  |-> IF total > 0 THEN total ELSE view.total,
     count  |-> count]

UpdateView(c) ==
    /\ at[c] = "update"
    /\ LET o == OrderOf(c) IN
       views' = IF views[o] = NoView THEN views
                ELSE [views EXCEPT ![o] = UpdateOrderStatus(@, TypeOf(c), memory[c].total,
                                                            memory[c].count)]
    /\ Goto(c, "findMark")
    /\ UNCHANGED <<itemViews, processed, event, memory, failures>>

-----------------------------------------------------------------------------
(* MarkProcessed: FirstOrCreate again, without anything to update.         *)

FindMark(c) ==
    /\ at[c] = "findMark"
    /\ memory' = [memory EXCEPT ![c].found = event[c] \in processed]
    /\ Goto(c, "writeMark")
    /\ UNCHANGED <<readModel, event, failures>>

WriteMark(c) ==
    /\ at[c] = "writeMark"
    /\ \/ /\ ~memory[c].found /\ event[c] \in processed
          /\ ReturnError(c)
       \/ /\ memory[c].found \/ event[c] \notin processed
          /\ processed' = processed \cup {event[c]}
          /\ Goto(c, "ok")
          /\ memory' = [memory EXCEPT ![c] = NoMemory]
          /\ UNCHANGED <<views, itemViews, event, failures>>

\* Any other statement fails: Handle returns its error.
StatementFails(c) ==
    /\ at[c] \in MayFail \ {"count"}
    /\ failures < MaxFailures
    /\ failures' = failures + 1
    /\ Goto(c, "error")
    /\ memory' = [memory EXCEPT ![c] = NoMemory]
    /\ UNCHANGED <<readModel, event>>

\* Handle has returned, or its process has died.
Leave(c) ==
    /\ Goto(c, "idle")
    /\ event'  = [event EXCEPT ![c] = 0]
    /\ memory' = [memory EXCEPT ![c] = NoMemory]
    /\ UNCHANGED <<readModel, failures>>

Return(c) == at[c] \in {"ok", "error"} /\ Leave(c)
Abort(c)  == at[c] # "idle" /\ Leave(c)

-----------------------------------------------------------------------------
\* The statements of Handle.
Statement(c) ==
    \/ CheckProcessed(c)
    \/ FindView(c) \/ WriteView(c)
    \/ FindItem(c) \/ WriteItem(c) \/ GetOrder(c) \/ GetItems(c)
    \/ CountItems(c) \/ UpdateView(c)
    \/ FindMark(c) \/ WriteMark(c)

Failure(c) == CountFails(c) \/ StatementFails(c)

Next == \E c \in Consumers :
    \/ \E e \in LogIds : Handle(c, e)
    \/ Statement(c) \/ Failure(c)
    \/ Return(c) \/ Abort(c)

Spec == Init /\ [][Next]_vars

-----------------------------------------------------------------------------
(* What the read model should say: the order as its events tell it.        *)
EventsOf(o) == {e \in LogIds : Log[e].order = o}

ItemsIn(S) == {Log[e].item : e \in {d \in S : Log[d].type = "OrderItemAdded"}}

\* The view of an order that has seen the set S of its events.
ViewOf(S) ==
    IF S = {} THEN NoView
    ELSE [status |-> IF \E e \in S : Log[e].type = "OrderConfirmed"
                     THEN "CONFIRMED" ELSE "DRAFT",
          total  |-> TotalAmount(ItemsIn(S)),
          count  |-> Cardinality(ItemsIn(S))]

\* The log is that of commands that did not overlap: an order is created before
\* all else, nothing follows its confirmation, and that has the total of all of
\* its items.
SerialLog ==
    \A e \in LogIds :
        /\ \E c \in LogIds : c <= e /\ Log[c] = NewOrderCreated(Log[e].order)
        /\ \A d \in EventsOf(Log[e].order) : d < e =>
              Log[d].type # "OrderConfirmed" /\ Log[e].type # "OrderCreated"

ConfirmedTotals ==
    \A e \in LogIds : Log[e].type = "OrderConfirmed" =>
        Log[e].total = TotalAmount(ItemsIn(EventsOf(Log[e].order)))

\* No sum wraps around, and only that of no items is zero.
TotalsFit ==
    \A S \in SUBSET ItemIds : IsFiniteSet(S) =>
        TotalAmount(S) \in Nat /\ (TotalAmount(S) = 0 <=> S = {})

-----------------------------------------------------------------------------
(* Properties.                                                             *)

\* Every variable has its type; a consumer has an event while in Handle.
TypeOK ==
    /\ views \in [OrderIds -> Views \cup {NoView}]
    /\ itemViews \in [OrderIds -> SUBSET ItemIds]
    /\ processed \subseteq LogIds
    /\ at \in [Consumers -> Places]
    /\ event \in [Consumers -> LogIds \cup {0}]
    /\ memory \in [Consumers -> Memory]
    /\ failures \in 0..MaxFailures
    /\ \A c \in Consumers : at[c] = "idle" <=> event[c] = 0

\* An event in processed_events, which is never looked at again, has left its
\* rows behind: the view of the order of OrderCreated; the item and the view
\* of OrderItemAdded.  Whatever was delivered twice, by two consumers at once,
\* out of order, or cut off in the middle.  (OrderConfirmed may have found no
\* row at all.)
ProcessedIsReflected ==
    \A e \in processed :
        /\ Log[e].type \in {"OrderCreated", "OrderItemAdded"} => views[Log[e].order] # NoView
        /\ Log[e].type = "OrderItemAdded" => Log[e].item \in itemViews[Log[e].order]

\* item_count, which every update computes from a SELECT made before, never
\* promises more items than order_item_views has.
CountNeverAhead ==
    \A o \in OrderIds : views[o].count <= Cardinality(itemViews[o])

\* Once every item event of an order was processed, the count of its view is that
\* of all items, and the total is theirs or what a confirmation said: it carries
\* the total of the items its own command saw, and is written last or not.
\* (With one consumer: see InMemoryPipeline.)
TotalsAgree ==
    \A o \in OrderIds :
        (/\ views[o] # NoView
         /\ \A e \in EventsOf(o) : Log[e].type = "OrderItemAdded" => e \in processed)
            => /\ views[o].count = Cardinality(ItemsIn(EventsOf(o)))
               /\ \/ views[o].total = TotalAmount(ItemsIn(EventsOf(o)))
                  \/ \E e \in EventsOf(o) : /\ Log[e].type = "OrderConfirmed"
                                            /\ Log[e].total = views[o].total
=============================================================================
