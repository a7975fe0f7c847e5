----------------------- MODULE OrderProjection_proofs -----------------------
(***************************************************************************)
(* Proofs about OrderProjection for any event log, any delivery of it to   *)
(* any number of consumers, and any statements that fail.                  *)
(*                                                                         *)
(* Handle holds no lock, so what a consumer has found may be changed by    *)
(* another before it goes on.  It may nevertheless mark its event: rows    *)
(* are never deleted, so what was written, or found, at an earlier         *)
(* statement is still there.  The inductive invariant says how far that    *)
(* has come, statement by statement.                                       *)
(***************************************************************************)
EXTENDS OrderProjection, FiniteSetTheorems, TLAPS

\* The statements of Handle after the INSERT of the item, and those after
\* the view of the order was found.
ItemWritten == {"getOrder", "getItems", "count", "update", "findMark", "writeMark"}
ViewFound   == {"getItems", "count", "update", "findMark", "writeMark"}
Marking     == {"findMark", "writeMark"}

\* A consumer runs the statements of the type of its event; what they wrote
\* before is there; and what it counted is there.
InPlace(c) ==
    /\ at[c] \in {"findView", "writeView"} => TypeOf(c) = "OrderCreated"
    /\ at[c] \in {"findItem", "writeItem", "getOrder", "getItems"} => TypeOf(c) = "OrderItemAdded"
    /\ at[c] \in {"count", "update"} => TypeOf(c) # "OrderCreated"
    /\ at[c] \in Marking /\ TypeOf(c) = "OrderCreated" => views[OrderOf(c)] # NoView
    /\ at[c] \in ViewFound /\ TypeOf(c) = "OrderItemAdded" => views[OrderOf(c)] # NoView
    /\ at[c] \in ItemWritten /\ TypeOf(c) = "OrderItemAdded" =>
           Log[event[c]].item \in itemViews[OrderOf(c)]
    /\ at[c] = "update" => memory[c].count <= Cardinality(itemViews[OrderOf(c)])

\* What ProcessedIsReflected says of one event.
Reflected(e) ==
    /\ Log[e].type \in {"OrderCreated", "OrderItemAdded"} => views[Log[e].order] # NoView
    /\ Log[e].type = "OrderItemAdded" => Log[e].item \in itemViews[Log[e].order]

\* Only finitely many items have been written, whatever ItemIds is.
ItemsFinite == \A o \in OrderIds : IsFiniteSet(itemViews[o])

IInv ==
    /\ TypeOK
    /\ ItemsFinite
    /\ \A c \in Consumers : InPlace(c)
    /\ ProcessedIsReflected
    /\ CountNeverAhead

-----------------------------------------------------------------------------
(* Lemmas about events and rows.                                           *)

\* What a logged event carries.
LEMMA LogTypes ==
  ASSUME NEW e \in LogIds
  PROVE  /\ Log[e].type \in {"OrderCreated", "OrderItemAdded", "OrderConfirmed"}
         /\ Log[e].order \in OrderIds
         /\ Log[e].type = "OrderItemAdded" => Log[e].item \in ItemIds
         /\ Log[e].type = "OrderConfirmed" => Log[e].total \in Amounts
         /\ e # 0
<1>1. Log[e] \in Events /\ e # 0
  BY ProjectionAssumption DEF LogIds
<1>2. QED
  BY <1>1 DEF Events

\* A consumer inside Handle has an event of the log.
LEMMA EventOf ==
  ASSUME TypeOK, NEW c \in Consumers, at[c] # "idle"
  PROVE  event[c] \in LogIds /\ event[c] # 0
  BY DEF TypeOK

\* A row of order_views is not the absence of one.
LEMMA ViewIsThere == NoView \notin Views
  BY DEF NoView, Views, Statuses

\* What UpsertOrderView and UpdateOrderStatus write is a row of order_views.
LEMMA UpsertedView ==
  ASSUME NEW v \in Views \cup {NoView}
  PROVE  /\ [v EXCEPT !.status = "DRAFT"] \in Views
         /\ [v EXCEPT !.status = "DRAFT"].count = v.count
  BY DEF Views, NoView, Statuses

LEMMA UpdatedView ==
  ASSUME NEW v \in Views, NEW type, NEW t \in Amounts \cup {0}, NEW n \in Nat
  PROVE  /\ UpdateOrderStatus(v, type, t, n) \in Views
         /\ UpdateOrderStatus(v, type, t, n).count = n
<1>1. /\ v.status \in Statuses /\ "CONFIRMED" \in Statuses
      /\ v.total \in Amounts \cup {0}
  BY DEF Views, Statuses
<1>2. QED
  BY <1>1 DEF UpdateOrderStatus, Views

\* The totals of the rows of an order are amounts.
LEMMA TotalIsAmount ==
  ASSUME NEW S \in SUBSET ItemIds
  PROVE  TotalAmount(S) \in Amounts
  BY DEF Amounts

\* Memory, field by field.
LEMMA MemoryTypes ==
  /\ NoMemory \in Memory
  /\ \A m \in Memory, f \in BOOLEAN : [m EXCEPT !.found = f] \in Memory
  /\ \A m \in Memory, t \in Amounts \cup {0} : [m EXCEPT !.total = t] \in Memory
  /\ \A m \in Memory, n \in Nat :
        [m EXCEPT !.count = n] \in Memory /\ [m EXCEPT !.count = n].count = n
<1>1. NoMemory \in Memory
  BY DEF NoMemory, Memory
<1>2. \A m \in Memory, f \in BOOLEAN : [m EXCEPT !.found = f] \in Memory
  BY Zenon DEF Memory
<1>3. \A m \in Memory, t \in Amounts \cup {0} : [m EXCEPT !.total = t] \in Memory
  BY Zenon DEF Memory
<1>4. \A m \in Memory, n \in Nat :
         [m EXCEPT !.count = n] \in Memory /\ [m EXCEPT !.count = n].count = n
  BY Zenon DEF Memory
<1>5. QED
  BY <1>1, <1>2, <1>3, <1>4

-----------------------------------------------------------------------------
(* The inductive invariant.                                                *)

\* It holds of an empty read model.
LEMMA InitIInv == Init => IInv
<1> SUFFICES ASSUME Init PROVE IInv
  OBVIOUS
<1>1. TypeOK
  BY MemoryTypes, ProjectionAssumption DEF Init, TypeOK, Places
<1>2. ItemsFinite
  BY FS_EmptySet DEF Init, ItemsFinite
<1>3. \A c \in Consumers : InPlace(c)
  BY DEF Init, InPlace, Marking, ViewFound, ItemWritten
<1>4. ProcessedIsReflected
  BY DEF Init, ProcessedIsReflected
<1>5. CountNeverAhead
  BY FS_EmptySet DEF Init, CountNeverAhead, NoView
<1>6. QED
  BY <1>1, <1>2, <1>3, <1>4, <1>5 DEF IInv

\* What every statement has to establish: the rows that were there still are,
\* and its own consumer is where it may be.
LEMMA StepIInv ==
  ASSUME IInv, NEW c \in Consumers,
         NEW p \in Places, at' = [at EXCEPT ![c] = p],
         NEW e \in LogIds \cup {0}, event' = [event EXCEPT ![c] = e],
         NEW m \in Memory, memory' = [memory EXCEPT ![c] = m],
         p = "idle" <=> e = 0,
         failures' \in 0..MaxFailures,
         views' \in [OrderIds -> Views \cup {NoView}],
         itemViews' \in [OrderIds -> SUBSET ItemIds],
         processed' \subseteq LogIds,
         ItemsFinite',
         \A o \in OrderIds : views[o] # NoView => views'[o] # NoView,
         \A o \in OrderIds : itemViews[o] \subseteq itemViews'[o],
         \A d \in processed' \ processed : Reflected(d)',
         InPlace(c)',
         CountNeverAhead'
  PROVE  IInv'
<1> USE DEF IInv
<1>1. TypeOK'
  BY DEF TypeOK
<1>2. ASSUME NEW o \in OrderIds
      PROVE  /\ Cardinality(itemViews[o]) \in Nat /\ Cardinality(itemViews'[o]) \in Nat
             /\ Cardinality(itemViews[o]) <= Cardinality(itemViews'[o])
  BY FS_CardinalityType, FS_Subset DEF ItemsFinite
<1>3. ASSUME NEW d \in Consumers
      PROVE  InPlace(d)'
  <2>1. CASE d = c
    BY <2>1
  <2>2. CASE d # c
    <3>1. at'[d] = at[d] /\ event'[d] = event[d] /\ memory'[d] = memory[d]
      BY <2>2 DEF TypeOK
    <3>2. CASE at[d] = "idle"
      BY <3>1, <3>2 DEF InPlace, Marking, ViewFound, ItemWritten
    <3>3. CASE at[d] # "idle"
      <4>1. OrderOf(d) \in OrderIds /\ OrderOf(d)' = OrderOf(d) /\ TypeOf(d)' = TypeOf(d)
        BY <3>1, <3>3, EventOf, LogTypes DEF OrderOf, TypeOf
      <4>2. memory[d].count \in Nat
        BY DEF TypeOK, Memory
      <4>3. at[d] = "update" => memory[d].count <= Cardinality(itemViews'[OrderOf(d)])
        BY <1>2, <4>1, <4>2 DEF InPlace
      <4>4. QED
        BY <3>1, <4>1, <4>3 DEF InPlace
    <3>4. QED
      BY <3>2, <3>3
  <2>3. QED
    BY <2>1, <2>2
<1>4. ProcessedIsReflected'
  <2>1. ASSUME NEW d \in processed
        PROVE  Reflected(d)'
    <3>1. d \in LogIds /\ Log[d].order \in OrderIds
      BY LogTypes DEF TypeOK
    <3>2. QED
      BY <3>1 DEF ProcessedIsReflected, Reflected
  <2>2. QED
    BY <2>1 DEF ProcessedIsReflected, Reflected
<1>5. QED
  BY <1>1, <1>3, <1>4

\* A statement that only reads.
LEMMA ReadIInv ==
  ASSUME IInv, NEW c \in Consumers,
         NEW p \in Places, at' = [at EXCEPT ![c] = p],
         NEW e \in LogIds \cup {0}, event' = [event EXCEPT ![c] = e],
         NEW m \in Memory, memory' = [memory EXCEPT ![c] = m],
         p = "idle" <=> e = 0,
         failures' \in 0..MaxFailures,
         UNCHANGED readModel,
         InPlace(c)'
  PROVE  IInv'
<1>1. /\ views' = views /\ itemViews' = itemViews /\ processed' = processed
      /\ views \in [OrderIds -> Views \cup {NoView}]
      /\ itemViews \in [OrderIds -> SUBSET ItemIds]
      /\ processed \subseteq LogIds
  BY DEF readModel, IInv, TypeOK
<1>2. ItemsFinite' /\ CountNeverAhead'
  BY <1>1 DEF IInv, ItemsFinite, CountNeverAhead
<1>3. QED
  BY <1>1, <1>2, StepIInv

\* Nothing of the state changes.
LEMMA StutterIInv == IInv /\ UNCHANGED vars => IInv'
  BY DEF IInv, vars, readModel, TypeOK, ItemsFinite, InPlace, OrderOf, TypeOf,
         ProcessedIsReflected, CountNeverAhead

\* The consumer leaves Handle, or is about to with an error.
LEMMA LeaveIInv ==
  ASSUME IInv, NEW c \in Consumers, NEW p \in {"idle", "error"}, at' = [at EXCEPT ![c] = p],
         \/ p = "idle" /\ event' = [event EXCEPT ![c] = 0]
         \/ p = "error" /\ at[c] # "idle" /\ event' = event,
         memory' = [memory EXCEPT ![c] = NoMemory],
         failures' \in 0..MaxFailures,
         UNCHANGED readModel
  PROVE  IInv'
<1>1. at'[c] = p /\ p \in Places
  BY DEF IInv, TypeOK, Places
<1>2. InPlace(c)'
  BY <1>1 DEF InPlace, Marking, ViewFound, ItemWritten
<1>3. PICK e \in LogIds \cup {0} : event' = [event EXCEPT ![c] = e] /\ (p = "idle" <=> e = 0)
  BY EventOf DEF IInv, TypeOK
<1>4. QED
  BY <1>1, <1>2, <1>3, MemoryTypes, ReadIInv

\* A statement that reads into the memory of its consumer, by the place it
\* goes to next.
LEMMA SelectIInv ==
  ASSUME IInv, NEW c \in Consumers, at[c] # "idle",
         NEW p \in Places \ {"idle"}, Goto(c, p),
         NEW m \in Memory, memory' = [memory EXCEPT ![c] = m],
         failures' \in 0..MaxFailures,
         UNCHANGED <<readModel, event>>,
         at'[c] = p /\ memory'[c] = m => InPlace(c)'
  PROVE  IInv'
<1>1. event[c] \in LogIds \cup {0} /\ event' = [event EXCEPT ![c] = event[c]] /\ event[c] # 0
  BY EventOf DEF IInv, TypeOK
<1>2. at'[c] = p /\ memory'[c] = m
  BY DEF IInv, TypeOK, Goto
<1>3. QED
  BY <1>1, <1>2, ReadIInv DEF Goto

\* Handle is called, and the check for duplicates.
LEMMA HandleIInv ==
  ASSUME IInv, NEW c \in Consumers, NEW e \in LogIds, Handle(c, e)
  PROVE  IInv'
<1>1. at'[c] = "check" /\ "check" \in Places /\ e # 0
  BY LogTypes DEF IInv, TypeOK, Handle, Goto, Places, Statements
<1>2. InPlace(c)'
  BY <1>1 DEF InPlace, Marking, ViewFound, ItemWritten
<1>3. memory[c] \in Memory /\ memory' = [memory EXCEPT ![c] = memory[c]]
      /\ failures' \in 0..MaxFailures
  BY DEF IInv, TypeOK, Handle
<1>4. QED
  BY <1>1, <1>2, <1>3, ReadIInv DEF Handle, Goto

LEMMA CheckProcessedIInv ==
  ASSUME IInv, NEW c \in Consumers, CheckProcessed(c)
  PROVE  IInv'
<1> DEFINE p == IF event[c] \in processed THEN "ok" ELSE FirstStatement(TypeOf(c))
           t == IF TypeOf(c) = "OrderConfirmed" THEN Log[event[c]].total ELSE 0
           m == [memory[c] EXCEPT !.total = t]
<1>1. event[c] \in LogIds /\ at[c] # "idle"
  BY EventOf DEF CheckProcessed, IInv
<1>2. t \in Amounts \cup {0} /\ memory[c] \in Memory
  BY <1>1, LogTypes DEF TypeOf, IInv, TypeOK
<1>3. m \in Memory
  BY <1>2, MemoryTypes
<1>4. /\ p \in {"ok", "findView", "findItem", "count"}
      /\ p = "findView" => TypeOf(c) = "OrderCreated"
      /\ p = "findItem" => TypeOf(c) = "OrderItemAdded"
      /\ p = "count" => TypeOf(c) = "OrderConfirmed"
  BY <1>1, LogTypes DEF TypeOf, FirstStatement
<1>5. /\ Goto(c, p) /\ memory' = [memory EXCEPT ![c] = m]
      /\ UNCHANGED <<readModel, event, failures>> /\ failures' \in 0..MaxFailures
  BY DEF CheckProcessed, IInv, TypeOK
<1>6. ASSUME at'[c] = p
      PROVE  InPlace(c)'
  BY <1>4, <1>5, <1>6 DEF InPlace, Marking, ViewFound, ItemWritten, TypeOf
<1>7. p \in Places \ {"idle"}
  BY <1>4 DEF Places, Statements
<1> HIDE DEF p, m
<1>8. QED
  BY <1>1, <1>3, <1>5, <1>6, <1>7, SelectIInv

\* The SELECTs of FirstOrCreate: they change only what the consumer has found.
LEMMA FindIInv ==
  ASSUME IInv, NEW c \in Consumers, FindView(c) \/ FindItem(c) \/ FindMark(c)
  PROVE  IInv'
<1>1. /\ at[c] # "idle" /\ memory[c] \in Memory /\ failures' \in 0..MaxFailures
      /\ UNCHANGED <<readModel, event>>
  BY DEF FindView, FindItem, FindMark, IInv, TypeOK
<1>2. PICK m \in Memory : memory' = [memory EXCEPT ![c] = m]
  <2>1. ASSUME NEW f \in BOOLEAN, memory' = [memory EXCEPT ![c].found = f]
        PROVE  \E m \in Memory : memory' = [memory EXCEPT ![c] = m]
    BY <1>1, <2>1, MemoryTypes
  <2>2. CASE FindView(c)
    BY <2>1, <2>2, Zenon DEF FindView
  <2>3. CASE FindItem(c)
    <3> DEFINE f == Log[event[c]].item \in itemViews[OrderOf(c)]
    <3>1. f \in BOOLEAN
      OBVIOUS
    <3>2. memory' = [memory EXCEPT ![c].found = f]
      BY <2>3, Zenon DEF FindItem
    <3> HIDE DEF f
    <3>3. QED
      BY <2>1, <3>1, <3>2, Zenon
  <2>4. CASE FindMark(c)
    <3> DEFINE f == event[c] \in processed
    <3>1. f \in BOOLEAN
      OBVIOUS
    <3>2. memory' = [memory EXCEPT ![c].found = f]
      BY <2>4, Zenon DEF FindMark
    <3> HIDE DEF f
    <3>3. QED
      BY <2>1, <3>1, <3>2, Zenon
  <2>5. QED
    BY <2>2, <2>3, <2>4
<1>3. PICK p \in {"writeView", "writeItem", "writeMark"} :
         /\ Goto(c, p)
         /\ p = "writeView" => at[c] = "findView"
         /\ p = "writeItem" => at[c] = "findItem"
         /\ p = "writeMark" => at[c] = "findMark"
  BY DEF FindView, FindItem, FindMark
<1>4. ASSUME at'[c] = p
      PROVE  InPlace(c)'
  BY <1>1, <1>3, <1>4 DEF IInv, InPlace, Marking, ViewFound, ItemWritten, TypeOf, OrderOf, readModel
<1>5. p \in Places \ {"idle"}
  BY DEF Places, Statements
<1>6. QED
  BY <1>1, <1>2, <1>3, <1>4, <1>5, SelectIInv

\* The SELECTs of GetOrderByID.
LEMMA GetOrderIInv ==
  ASSUME IInv, NEW c \in Consumers, GetOrder(c) \/ GetItems(c)
  PROVE  IInv'
<1>1. at[c] # "idle" /\ memory[c] \in Memory /\ failures \in 0..MaxFailures
  BY DEF GetOrder, GetItems, IInv, TypeOK
<1>2. OrderOf(c) \in OrderIds /\ event[c] \in LogIds
  BY <1>1, EventOf, LogTypes DEF IInv, OrderOf
<1>3. CASE GetOrder(c) /\ ReturnError(c)
  BY <1>1, <1>3, LeaveIInv DEF ReturnError, Goto
<1>4. CASE GetOrder(c) /\ ~ReturnError(c)
  <2>1. /\ at[c] = "getOrder" /\ Goto(c, "getItems") /\ views[OrderOf(c)] # NoView
        /\ UNCHANGED <<readModel, event, memory, failures>>
    BY <1>4 DEF GetOrder
  <2>2. ASSUME at'[c] = "getItems"
        PROVE  InPlace(c)'
    BY <2>1, <2>2 DEF IInv, InPlace, Marking, ViewFound, ItemWritten, TypeOf, OrderOf, readModel
  <2>3. memory' = [memory EXCEPT ![c] = memory[c]]
    BY <2>1 DEF IInv, TypeOK
  <2>4. QED
    BY <1>1, <2>1, <2>2, <2>3, SelectIInv DEF Places, Statements
<1>5. CASE GetItems(c)
  <2> DEFINE m == [memory[c] EXCEPT !.total = TotalAmount(itemViews[OrderOf(c)])]
  <2>1. m \in Memory
    BY <1>1, <1>2, TotalIsAmount, MemoryTypes DEF IInv, TypeOK
  <2>2. /\ at[c] = "getItems" /\ Goto(c, "count") /\ memory' = [memory EXCEPT ![c] = m]
        /\ UNCHANGED <<readModel, event, failures>>
    BY <1>5 DEF GetItems
  <2>3. ASSUME at'[c] = "count"
        PROVE  InPlace(c)'
    BY <2>2, <2>3 DEF IInv, InPlace, Marking, ViewFound, ItemWritten, TypeOf, OrderOf, readModel
  <2> HIDE DEF m
  <2>4. QED
    BY <1>1, <2>1, <2>2, <2>3, SelectIInv DEF Places, Statements
<1>6. QED
  BY <1>3, <1>4, <1>5

\* The SELECT of the count, or the zero that replaces it.
LEMMA CountIInv ==
  ASSUME IInv, NEW c \in Consumers, CountItems(c) \/ CountFails(c)
  PROVE  IInv'
<1>1. at[c] = "count" /\ memory[c] \in Memory /\ failures' \in 0..MaxFailures
  BY ProjectionAssumption DEF CountItems, CountFails, IInv, TypeOK
<1>2. OrderOf(c) \in OrderIds
  BY <1>1, EventOf, LogTypes DEF IInv, OrderOf
<1>3. Cardinality(itemViews[OrderOf(c)]) \in Nat
  BY <1>2, FS_CardinalityType DEF IInv, ItemsFinite
<1>4. PICK n \in {0, Cardinality(itemViews[OrderOf(c)])} :
         memory' = [memory EXCEPT ![c] = [memory[c] EXCEPT !.count = n]]
  BY DEF CountItems, CountFails
<1> DEFINE m == [memory[c] EXCEPT !.count = n]
<1>5. m \in Memory /\ m.count <= Cardinality(itemViews[OrderOf(c)])
  BY <1>1, <1>3, MemoryTypes
<1>6. Goto(c, "update") /\ UNCHANGED <<readModel, event>>
  BY DEF CountItems, CountFails
<1>7. ASSUME at'[c] = "update", memory'[c] = m
      PROVE  InPlace(c)'
  BY <1>1, <1>5, <1>6, <1>7
  DEF IInv, InPlace, Marking, ViewFound, ItemWritten, TypeOf, OrderOf, readModel
<1> HIDE DEF m
<1>8. QED
  BY <1>1, <1>4, <1>5, <1>6, <1>7, SelectIInv DEF Places, Statements, m

\* A statement that writes one of the tables.
LEMMA WriteIInv ==
  ASSUME IInv, NEW c \in Consumers, at[c] # "idle",
         NEW p \in Places \ {"idle"}, Goto(c, p),
         memory' = memory \/ memory' = [memory EXCEPT ![c] = NoMemory],
         UNCHANGED <<event, failures>>,
         views' \in [OrderIds -> Views \cup {NoView}],
         itemViews' \in [OrderIds -> SUBSET ItemIds],
         processed' \subseteq LogIds,
         ItemsFinite',
         \A o \in OrderIds : views[o] # NoView => views'[o] # NoView,
         \A o \in OrderIds : itemViews[o] \subseteq itemViews'[o],
         \A d \in processed' \ processed : Reflected(d)',
         InPlace(c)',
         CountNeverAhead'
  PROVE  IInv'
<1>1. PICK e \in LogIds \cup {0} : e # 0 /\ event' = [event EXCEPT ![c] = e]
  BY EventOf DEF IInv, TypeOK
<1>2. PICK m \in Memory : memory' = [memory EXCEPT ![c] = m]
  BY MemoryTypes DEF IInv, TypeOK
<1>3. failures' \in 0..MaxFailures
  BY DEF IInv, TypeOK
<1>4. at' = [at EXCEPT ![c] = p] /\ p # "idle"
  BY DEF Goto
<1>5. QED
  BY <1>1, <1>2, <1>3, <1>4, StepIInv

\* The INSERT or UPDATE of the view: from here on there is one.
LEMMA WriteViewIInv ==
  ASSUME IInv, NEW c \in Consumers, WriteView(c)
  PROVE  IInv'
<1> DEFINE o == OrderOf(c)
<1>1. at[c] = "writeView" /\ memory[c] \in Memory /\ failures \in 0..MaxFailures
  BY DEF WriteView, IInv, TypeOK
<1>2. o \in OrderIds /\ event[c] \in LogIds /\ event[c] # 0
  BY <1>1, EventOf, LogTypes DEF IInv, OrderOf
<1>3. CASE ReturnError(c)
  BY <1>1, <1>3, LeaveIInv DEF ReturnError, Goto
<1>4. CASE ~ReturnError(c)
  <2>1. /\ views' = [views EXCEPT ![o] = [views[o] EXCEPT !.status = "DRAFT"]]
        /\ Goto(c, "findMark")
        /\ UNCHANGED <<itemViews, processed, event, memory, failures>>
    BY <1>4 DEF WriteView
  <2>2. /\ views \in [OrderIds -> Views \cup {NoView}]
        /\ \A i \in OrderIds : views[i].count <= Cardinality(itemViews[i])
    BY DEF IInv, TypeOK, CountNeverAhead
  <2>3. views'[o] \in Views /\ views'[o].count = views[o].count
    BY <1>2, <2>1, <2>2, UpsertedView
  <2>4. \A i \in OrderIds \ {o} : views'[i] = views[i]
    BY <2>1, <2>2
  <2>5. views' \in [OrderIds -> Views \cup {NoView}]
    BY <2>1, <2>2, <1>2, UpsertedView
  <2>6. \A i \in OrderIds : views[i] # NoView => views'[i] # NoView
    BY <2>3, <2>4, ViewIsThere
  <2>7. CountNeverAhead'
    BY <2>1, <2>2, <2>3, <2>4 DEF CountNeverAhead
  <2>8. ItemsFinite'
    BY <2>1 DEF IInv, ItemsFinite
  <2>9. at'[c] = "findMark" /\ TypeOf(c)' = "OrderCreated" /\ OrderOf(c)' = o
    BY <1>1, <2>1 DEF IInv, TypeOK, InPlace, Goto, TypeOf, OrderOf
  <2>10. InPlace(c)'
    BY <2>3, <2>9, ViewIsThere DEF InPlace
  <2>11. "findMark" \in Places \ {"idle"} /\ at[c] # "idle"
    BY <1>1 DEF Places, Statements
  <2>12. /\ itemViews' \in [OrderIds -> SUBSET ItemIds] /\ processed' \subseteq LogIds
         /\ \A i \in OrderIds : itemViews[i] \subseteq itemViews'[i]
         /\ processed' \ processed = {}
    BY <2>1 DEF IInv, TypeOK
  <2> HIDE DEF o
  <2>13. QED
    BY <2>1, <2>5, <2>6, <2>7, <2>8, <2>10, <2>11, <2>12, WriteIInv
<1>5. QED
  BY <1>3, <1>4

\* The INSERT or UPDATE of the item: from here on it is there.
LEMMA WriteItemIInv ==
  ASSUME IInv, NEW c \in Consumers, WriteItem(c)
  PROVE  IInv'
<1> DEFINE o == OrderOf(c)
           i == Log[event[c]].item
<1>1. at[c] = "writeItem" /\ memory[c] \in Memory /\ failures \in 0..MaxFailures
  BY DEF WriteItem, IInv, TypeOK
<1>2. /\ o \in OrderIds /\ event[c] \in LogIds /\ event[c] # 0
      /\ TypeOf(c) = "OrderItemAdded" /\ i \in ItemIds
  BY <1>1, EventOf, LogTypes DEF IInv, InPlace, OrderOf, TypeOf
<1>3. CASE ReturnError(c)
  BY <1>1, <1>3, LeaveIInv DEF ReturnError, Goto
<1>4. CASE ~ReturnError(c)
  <2>1. /\ itemViews' = [itemViews EXCEPT ![o] = itemViews[o] \cup {i}]
        /\ Goto(c, "getOrder")
        /\ UNCHANGED <<views, processed, event, memory, failures>>
    BY <1>4 DEF WriteItem
  <2>2. /\ itemViews \in [OrderIds -> SUBSET ItemIds]
        /\ views \in [OrderIds -> Views \cup {NoView}]
        /\ \A a \in OrderIds : IsFiniteSet(itemViews[a])
        /\ \A a \in OrderIds : views[a].count <= Cardinality(itemViews[a])
    BY DEF IInv, TypeOK, ItemsFinite, CountNeverAhead
  <2>3. \A a \in OrderIds : views[a].count \in Nat
    BY <2>2 DEF Views, NoView
  <2>4. /\ itemViews'[o] = itemViews[o] \cup {i}
        /\ \A a \in OrderIds \ {o} : itemViews'[a] = itemViews[a]
        /\ itemViews' \in [OrderIds -> SUBSET ItemIds]
    BY <1>2, <2>1, <2>2
  <2>5. /\ IsFiniteSet(itemViews'[o])
        /\ Cardinality(itemViews[o]) \in Nat
        /\ Cardinality(itemViews'[o]) \in {Cardinality(itemViews[o]), Cardinality(itemViews[o]) + 1}
    <3>1. IsFiniteSet(itemViews[o])
      BY <1>2, <2>2
    <3>2. /\ Cardinality(itemViews[o]) \in Nat
          /\ IsFiniteSet(itemViews[o] \cup {i})
          /\ Cardinality(itemViews[o] \cup {i}) =
                IF i \in itemViews[o] THEN Cardinality(itemViews[o])
                ELSE Cardinality(itemViews[o]) + 1
      BY <3>1, FS_AddElement, FS_CardinalityType
    <3>3. QED
      BY <2>4, <3>2
  <2>6. ItemsFinite'
    BY <2>2, <2>4, <2>5 DEF ItemsFinite
  <2>7. CountNeverAhead'
    <3>1. views[o].count <= Cardinality(itemViews'[o])
      BY <1>2, <2>2, <2>3, <2>5
    <3>2. QED
      BY <2>1, <2>2, <2>4, <3>1 DEF CountNeverAhead
  <2>8. at'[c] = "getOrder" /\ TypeOf(c)' = "OrderItemAdded" /\ OrderOf(c)' = o
        /\ Log[event'[c]].item = i
    BY <1>2, <2>1 DEF IInv, TypeOK, Goto, TypeOf, OrderOf
  <2>9. InPlace(c)'
    BY <2>4, <2>8 DEF InPlace, Marking, ViewFound
  <2>10. "getOrder" \in Places \ {"idle"} /\ at[c] # "idle"
    BY <1>1 DEF Places, Statements
  <2>11. /\ views' \in [OrderIds -> Views \cup {NoView}] /\ processed' \subseteq LogIds
         /\ \A a \in OrderIds : views[a] # NoView => views'[a] # NoView
         /\ \A a \in OrderIds : itemViews[a] \subseteq itemViews'[a]
         /\ processed' \ processed = {}
    BY <2>1, <2>4 DEF IInv, TypeOK
  <2> HIDE DEF o, i
  <2>12. QED
    BY <2>1, <2>4, <2>6, <2>7, <2>9, <2>10, <2>11, WriteIInv
<1>5. QED
  BY <1>3, <1>4

\* The UPDATE of the view, with a count that is not ahead of the items.
LEMMA UpdateViewIInv ==
  ASSUME IInv, NEW c \in Consumers, UpdateView(c)
  PROVE  IInv'
<1> DEFINE o == OrderOf(c)
           v == UpdateOrderStatus(views[o], TypeOf(c), memory[c].total, memory[c].count)
<1>1. at[c] = "update" /\ memory[c] \in Memory /\ failures \in 0..MaxFailures
  BY DEF UpdateView, IInv, TypeOK
<1>2. o \in OrderIds /\ event[c] \in LogIds /\ event[c] # 0
  BY <1>1, EventOf, LogTypes DEF IInv, OrderOf
<1>3. /\ Goto(c, "findMark")
      /\ UNCHANGED <<itemViews, processed, event, memory, failures>>
      /\ views' = IF views[o] = NoView THEN views ELSE [views EXCEPT ![o] = v]
  BY DEF UpdateView
<1>4. /\ views \in [OrderIds -> Views \cup {NoView}]
      /\ \A a \in OrderIds : views[a].count <= Cardinality(itemViews[a])
  BY DEF IInv, TypeOK, CountNeverAhead
<1>5. memory[c].count \in Nat /\ memory[c].total \in Amounts \cup {0}
  BY <1>1 DEF Memory
<1>6. memory[c].count <= Cardinality(itemViews[o])
  BY <1>1 DEF IInv, InPlace
<1>7. views[o] # NoView => v \in Views /\ v.count <= Cardinality(itemViews[o])
  BY <1>2, <1>4, <1>5, <1>6, UpdatedView
<1> HIDE DEF v
<1>8. /\ views' \in [OrderIds -> Views \cup {NoView}]
      /\ \A a \in OrderIds : views[a] # NoView => views'[a] # NoView
  BY <1>2, <1>3, <1>4, <1>7, ViewIsThere
<1>9. CountNeverAhead'
  BY <1>2, <1>3, <1>4, <1>7 DEF CountNeverAhead
<1>10. ItemsFinite'
  BY <1>3 DEF IInv, ItemsFinite
<1>11. InPlace(c)'
  <2>1. at'[c] = "findMark" /\ TypeOf(c)' = TypeOf(c) /\ OrderOf(c)' = OrderOf(c)
    BY <1>3 DEF IInv, TypeOK, Goto, TypeOf, OrderOf
  <2>2. /\ TypeOf(c) # "OrderCreated"
        /\ TypeOf(c) = "OrderItemAdded" =>
              views[o] # NoView /\ Log[event[c]].item \in itemViews[o]
    BY <1>1 DEF IInv, InPlace, ViewFound, ItemWritten
  <2>3. QED
    BY <1>2, <1>3, <1>8, <2>1, <2>2 DEF InPlace
<1>12. "findMark" \in Places \ {"idle"} /\ at[c] # "idle"
  BY <1>1 DEF Places, Statements
<1>13. /\ itemViews' \in [OrderIds -> SUBSET ItemIds] /\ processed' \subseteq LogIds
       /\ \A a \in OrderIds : itemViews[a] \subseteq itemViews'[a]
       /\ processed' \ processed = {}
  BY <1>3 DEF IInv, TypeOK
<1> HIDE DEF o
<1>14. QED
  BY <1>3, <1>8, <1>9, <1>10, <1>11, <1>12, <1>13, WriteIInv

\* The INSERT of the mark: the rows of its event are there.
LEMMA WriteMarkIInv ==
  ASSUME IInv, NEW c \in Consumers, WriteMark(c)
  PROVE  IInv'
<1>1. at[c] = "writeMark" /\ failures \in 0..MaxFailures
  BY DEF WriteMark, IInv, TypeOK
<1>2. event[c] \in LogIds /\ event[c] # 0
  BY <1>1, EventOf DEF IInv
<1>3. CASE ReturnError(c)
  BY <1>1, <1>3, LeaveIInv DEF ReturnError, Goto
<1>4. CASE ~ReturnError(c)
  <2>1. /\ processed' = processed \cup {event[c]}
        /\ Goto(c, "ok") /\ memory' = [memory EXCEPT ![c] = NoMemory]
        /\ UNCHANGED <<views, itemViews, event, failures>>
    BY <1>4 DEF WriteMark
  <2>2. Reflected(event[c])'
    BY <1>1, <2>1 DEF IInv, InPlace, Marking, ViewFound, ItemWritten, Reflected, TypeOf, OrderOf
  <2>3. InPlace(c)'
    <3>1. at'[c] = "ok"
      BY <2>1 DEF IInv, TypeOK, Goto
    <3>2. QED
      BY <3>1 DEF InPlace, Marking, ViewFound, ItemWritten
  <2>4. ItemsFinite' /\ CountNeverAhead'
    BY <2>1 DEF IInv, ItemsFinite, CountNeverAhead
  <2>5. /\ views' \in [OrderIds -> Views \cup {NoView}]
        /\ itemViews' \in [OrderIds -> SUBSET ItemIds]
        /\ processed' \subseteq LogIds
    BY <1>2, <2>1 DEF IInv, TypeOK
  <2>6. \A d \in processed' \ processed : Reflected(d)'
    BY <2>1, <2>2
  <2>7. "ok" \in Places \ {"idle"} /\ at[c] # "idle"
    BY <1>1 DEF Places
  <2>8. QED
    BY <2>1, <2>3, <2>4, <2>5, <2>6, <2>7, WriteIInv
<1>5. QED
  BY <1>3, <1>4

\* Every step preserves the invariant.
LEMMA NextIInv == IInv /\ [Next]_vars => IInv'
<1> SUFFICES ASSUME IInv, [Next]_vars
             PROVE  IInv'
  OBVIOUS
<1>1. CASE UNCHANGED vars
  BY <1>1, StutterIInv
<1>2. ASSUME NEW c \in Consumers, NEW e \in LogIds, Handle(c, e)
      PROVE  IInv'
  BY <1>2, HandleIInv
<1>3. ASSUME NEW c \in Consumers, Statement(c)
      PROVE  IInv'
  BY <1>3, CheckProcessedIInv, FindIInv, WriteViewIInv, WriteItemIInv, GetOrderIInv, CountIInv,
     UpdateViewIInv, WriteMarkIInv
  DEF Statement
<1>4. ASSUME NEW c \in Consumers, StatementFails(c)
      PROVE  IInv'
  <2>1. at[c] # "idle" /\ failures' \in 0..MaxFailures
    BY <1>4, ProjectionAssumption DEF StatementFails, Statements, IInv, TypeOK
  <2>2. QED
    BY <1>4, <2>1, LeaveIInv DEF StatementFails, Goto
<1>5. ASSUME NEW c \in Consumers, Return(c) \/ Abort(c)
      PROVE  IInv'
  <2>1. failures' \in 0..MaxFailures
    BY <1>5 DEF Return, Abort, Leave, IInv, TypeOK
  <2>2. QED
    BY <1>5, <2>1, LeaveIInv DEF Return, Abort, Leave, Goto
<1>6. QED
  BY <1>1, <1>2, <1>3, <1>4, <1>5, CountIInv DEF Next, Failure

LEMMA InductiveInvariant == Spec => []IInv
<1>1. QED
  BY InitIInv, NextIInv, PTL DEF Spec

-----------------------------------------------------------------------------
(* The theorems.                                                           *)

\* Type correctness, for any log, consumers and failures: a total in the read
\* model is always the total of some set of items.
THEOREM TypeCorrect == Spec => []TypeOK
<1>1. IInv => TypeOK
  BY DEF IInv
<1>2. QED
  BY InductiveInvariant, <1>1, PTL

\* Whatever the bus delivers, in whatever order and how often, to however many
\* consumers at once, an event is marked processed only when its rows are
\* there.
THEOREM ProcessedAlwaysReflected == Spec => []ProcessedIsReflected
<1>1. IInv => ProcessedIsReflected
  BY DEF IInv
<1>2. QED
  BY InductiveInvariant, <1>1, PTL

\* A count that was read before others inserted items is too low, never too
\* high, for any number of items and consumers.
THEOREM CountIsNeverAhead == Spec => []CountNeverAhead
<1>1. IInv => CountNeverAhead
  BY DEF IInv
<1>2. QED
  BY InductiveInvariant, <1>1, PTL

-----------------------------------------------------------------------------
(* A consumer that is alone, and the totals.                               *)

\* One consumer, whose counts do not fail, and items whose totals can be told.
Exact ==
    /\ \A c, d \in Consumers : c = d
    /\ "count" \notin MayFail
    /\ TotalsFit

\* The total is one the order was confirmed with.
Confirmed(o, total) ==
    \E e \in EventsOf(o) : Log[e].type = "OrderConfirmed" /\ Log[e].total = total

\* The view of an order counts its items, as far as they are there, and has their
\* total or that of a confirmation.
Fresh(o) ==
    /\ views[o].count = Cardinality(itemViews[o])
    /\ views[o].total = TotalAmount(itemViews[o]) \/ Confirmed(o, views[o].total)

\* An item event of the order will be handled again.
ItemPending(o) ==
    \E e \in EventsOf(o) : Log[e].type = "OrderItemAdded" /\ e \notin processed

\* Nobody else marks the event, writes an item or a view meanwhile: what was
\* read is still so when it is written, and the totals just written are fresh.
Undisturbed(c) ==
    /\ at[c] \notin {"idle", "check", "ok", "error"} => event[c] \notin processed
    /\ at[c] \in {"count", "update"} /\ TypeOf(c) = "OrderConfirmed" =>
           memory[c].total = Log[event[c]].total
    /\ at[c] \in {"count", "update"} /\ TypeOf(c) = "OrderItemAdded" =>
           memory[c].total = TotalAmount(itemViews[OrderOf(c)])
    /\ at[c] = "update" => memory[c].count = Cardinality(itemViews[OrderOf(c)])
    /\ at[c] \in Marking /\ TypeOf(c) = "OrderItemAdded" => Fresh(OrderOf(c))

\* The totals of a view are stale only as long as an item event is pending.
StaleIsPending ==
    \A o \in OrderIds : views[o] # NoView => Fresh(o) \/ ItemPending(o)

\* Only items of the order's events are written.
ItemsAreLogged ==
    \A o \in OrderIds : itemViews[o] \subseteq ItemsIn(EventsOf(o))

TotalsInv ==
    /\ IInv
    /\ StaleIsPending /\ ItemsAreLogged
    /\ \A c \in Consumers : Undisturbed(c)

\* An item of the order that is not there, or one that is but has no view, is
\* that of a pending event.
LEMMA MissingItemIsPending ==
  ASSUME IInv, NEW o \in OrderIds, NEW i \in ItemsIn(EventsOf(o)),
         i \notin itemViews[o] \/ views[o] = NoView
  PROVE  ItemPending(o)
<1>1. PICK e \in EventsOf(o) : Log[e].type = "OrderItemAdded" /\ i = Log[e].item
  BY DEF ItemsIn
<1>2. e \in LogIds /\ Log[e].order = o
  BY DEF EventsOf
<1>3. e \notin processed
  BY <1>1, <1>2 DEF IInv, ProcessedIsReflected
<1>4. QED
  BY <1>1, <1>3 DEF ItemPending

\* The events, and so the items, of an order are finitely many.
LEMMA LoggedItemsAreItems ==
  ASSUME NEW o \in OrderIds
  PROVE  ItemsIn(EventsOf(o)) \subseteq ItemIds
  BY LogTypes DEF ItemsIn, EventsOf

\* Steps that write no table.
LEMMA ReadTotalsInv ==
  ASSUME TotalsInv, IInv', UNCHANGED readModel, \A c \in Consumers : Undisturbed(c)'
  PROVE  TotalsInv'
<1>1. views' = views /\ itemViews' = itemViews /\ processed' = processed
  BY DEF readModel
<1>2. QED
  BY <1>1 DEF TotalsInv, StaleIsPending, ItemsAreLogged, Fresh, Confirmed, ItemPending, EventsOf, ItemsIn, LogIds

\* A consumer outside of the statements has nothing to be disturbed in.
LEMMA OutsideUndisturbed ==
  ASSUME NEW c \in Consumers, at'[c] \in {"idle", "check", "ok", "error"}
  PROVE  Undisturbed(c)'
  BY DEF Undisturbed, Marking

\* A table is written by the consumer that is alone.
LEMMA WriteTotalsInv ==
  ASSUME TotalsInv, IInv', Exact, NEW c \in Consumers,
         StaleIsPending', ItemsAreLogged', Undisturbed(c)'
  PROVE  TotalsInv'
<1>1. \A d \in Consumers : d = c
  BY DEF Exact
<1>2. QED
  BY <1>1 DEF TotalsInv

LEMMA WriteViewTotalsInv ==
  ASSUME TotalsInv, IInv', Exact, NEW c \in Consumers, WriteView(c), ~ReturnError(c)
  PROVE  TotalsInv'
<1> DEFINE o == OrderOf(c)
<1>1. /\ at[c] = "writeView" /\ TypeOf(c) = "OrderCreated"
      /\ views' = [views EXCEPT ![o] = [views[o] EXCEPT !.status = "DRAFT"]]
      /\ at' = [at EXCEPT ![c] = "findMark"]
      /\ UNCHANGED <<itemViews, processed, event>>
  BY DEF WriteView, TotalsInv, IInv, InPlace, Goto
<1>2. o \in OrderIds
  BY <1>1, EventOf, LogTypes DEF TotalsInv, IInv, OrderOf
<1>3. /\ views \in [OrderIds -> Views \cup {NoView}]
      /\ views'[o] = [views[o] EXCEPT !.status = "DRAFT"]
      /\ \A p \in OrderIds \ {o} : views'[p] = views[p]
  BY <1>1, <1>2 DEF TotalsInv, IInv, TypeOK
<1>4. views'[o].count = views[o].count /\ views'[o].total = views[o].total
  <2>1. views[o] \in Views \cup {NoView}
    BY <1>2, <1>3
  <2>2. QED
    BY <1>3, <2>1 DEF Views, NoView
<1>5. views[o] = NoView => (Fresh(o) \/ ItemPending(o))
  <2>1. CASE itemViews[o] = {}
    <3>1. Cardinality(itemViews[o]) = 0 /\ TotalAmount(itemViews[o]) = 0
      BY <2>1, FS_EmptySet DEF Exact, TotalsFit
    <3>2. QED
      BY <3>1 DEF NoView, Fresh
  <2>2. CASE itemViews[o] # {}
    BY <1>2, <2>2, MissingItemIsPending DEF TotalsInv, ItemsAreLogged
  <2>3. QED
    BY <2>1, <2>2
<1>6. \A p \in OrderIds : (Fresh(p)' <=> Fresh(p)) /\ (ItemPending(p)' <=> ItemPending(p))
  BY <1>1, <1>3, <1>4 DEF Fresh, Confirmed, ItemPending, EventsOf, LogIds
<1>7. StaleIsPending'
  BY <1>3, <1>5, <1>6 DEF TotalsInv, StaleIsPending
<1>8. ItemsAreLogged'
  BY <1>1 DEF TotalsInv, ItemsAreLogged, ItemsIn, EventsOf, LogIds
<1>9. Undisturbed(c)'
  <2>1. /\ at'[c] = "findMark" /\ event'[c] = event[c] /\ TypeOf(c)' = "OrderCreated"
        /\ event[c] \notin processed
    BY <1>1 DEF TotalsInv, IInv, TypeOK, TypeOf, Undisturbed
  <2>2. QED
    BY <1>1, <2>1 DEF Undisturbed
<1>10. QED
  BY <1>7, <1>8, <1>9, WriteTotalsInv

LEMMA WriteItemTotalsInv ==
  ASSUME TotalsInv, IInv', Exact, NEW c \in Consumers, WriteItem(c), ~ReturnError(c)
  PROVE  TotalsInv'
<1>o. PICK o \in OrderIds : o = OrderOf(c)
  BY EventOf, LogTypes DEF WriteItem, TotalsInv, IInv, OrderOf
<1>e. PICK i : i = Log[event[c]].item
  OBVIOUS
<1>1. /\ at[c] = "writeItem" /\ TypeOf(c) = "OrderItemAdded"
      /\ itemViews' = [itemViews EXCEPT ![o] = itemViews[o] \cup {i}]
      /\ at' = [at EXCEPT ![c] = "getOrder"]
      /\ UNCHANGED <<views, processed, event>>
  BY <1>o, <1>e DEF WriteItem, TotalsInv, IInv, InPlace, Goto
<1>2. o \in OrderIds /\ event[c] \in LogIds /\ event[c] \in EventsOf(o)
  BY <1>1, <1>o, EventOf DEF TotalsInv, IInv, OrderOf, EventsOf
<1>3. /\ itemViews'[o] = itemViews[o] \cup {i}
      /\ \A p \in OrderIds \ {o} : itemViews'[p] = itemViews[p]
  BY <1>1, <1>2 DEF TotalsInv, IInv, TypeOK
<1>4. event[c] \notin processed
  BY <1>1 DEF TotalsInv, Undisturbed
<1>5. ItemPending(o)'
  BY <1>1, <1>2, <1>4 DEF ItemPending, TypeOf, EventsOf, LogIds
<1>6. \A p \in OrderIds \ {o} : (Fresh(p)' <=> Fresh(p)) /\ (ItemPending(p)' <=> ItemPending(p))
  BY <1>1, <1>3 DEF Fresh, Confirmed, ItemPending, EventsOf, LogIds
<1>7. StaleIsPending'
  BY <1>1, <1>5, <1>6 DEF TotalsInv, StaleIsPending
<1>8. i \in ItemsIn(EventsOf(o))
  BY <1>1, <1>2, <1>e DEF ItemsIn, TypeOf
<1>9. ItemsAreLogged'
  BY <1>3, <1>8 DEF TotalsInv, ItemsAreLogged, ItemsIn, EventsOf, LogIds
<1>10. Undisturbed(c)'
  <2>1. at'[c] = "getOrder" /\ event'[c] = event[c]
    BY <1>1 DEF TotalsInv, IInv, TypeOK
  <2>2. QED
    BY <1>1, <1>4, <2>1 DEF Undisturbed, Marking
<1>11. QED
  BY <1>7, <1>9, <1>10, WriteTotalsInv

LEMMA UpdateViewTotalsInv ==
  ASSUME TotalsInv, IInv', Exact, NEW c \in Consumers, UpdateView(c)
  PROVE  TotalsInv'
<1>o. PICK o \in OrderIds : o = OrderOf(c)
  BY EventOf, LogTypes DEF UpdateView, TotalsInv, IInv, OrderOf
<1>e. PICK t, n : t = memory[c].total /\ n = memory[c].count
  OBVIOUS
<1> DEFINE v == UpdateOrderStatus(views[o], TypeOf(c), t, n)
<1>1. /\ at[c] = "update" /\ at' = [at EXCEPT ![c] = "findMark"]
      /\ views' = IF views[o] = NoView THEN views ELSE [views EXCEPT ![o] = v]
      /\ UNCHANGED <<itemViews, processed, event>>
  BY <1>o, <1>e DEF UpdateView, Goto
<1>2. /\ o \in OrderIds /\ event[c] \in LogIds /\ event[c] \in EventsOf(o)
      /\ TypeOf(c) \in {"OrderItemAdded", "OrderConfirmed"}
  BY <1>1, <1>o, EventOf, LogTypes DEF TotalsInv, IInv, InPlace, OrderOf, TypeOf, EventsOf
<1>3. /\ event[c] \notin processed /\ n = Cardinality(itemViews[o])
      /\ TypeOf(c) = "OrderItemAdded" => t = TotalAmount(itemViews[o])
      /\ TypeOf(c) = "OrderConfirmed" => t = Log[event[c]].total
  BY <1>1, <1>2, <1>o, <1>e DEF TotalsInv, Undisturbed
<1>4. /\ views \in [OrderIds -> Views \cup {NoView}]
      /\ IsFiniteSet(itemViews[o]) /\ itemViews[o] \in SUBSET ItemIds
  BY <1>2 DEF TotalsInv, IInv, TypeOK, ItemsFinite
<1>5. TotalAmount(itemViews[o]) \in Nat /\ (TotalAmount(itemViews[o]) = 0 <=> itemViews[o] = {})
  BY <1>4 DEF Exact, TotalsFit
<1>6. \A p \in OrderIds : ItemPending(p)' <=> ItemPending(p)
  BY <1>1 DEF ItemPending, EventsOf, LogIds
<1>7. \A p \in OrderIds \ {o} : Fresh(p)' <=> Fresh(p)
  BY <1>1, <1>4 DEF Fresh, Confirmed, EventsOf, LogIds
<1>8. views[o] = NoView => views' = views
  BY <1>1
<1>9. views[o] # NoView => /\ views'[o].count = Cardinality(itemViews'[o])
                           /\ views'[o].total = IF t > 0 THEN t ELSE views[o].total
  BY <1>1, <1>2, <1>3, <1>4 DEF UpdateOrderStatus
<1>10. ASSUME views[o] # NoView, TypeOf(c) = "OrderItemAdded"
       PROVE  Fresh(o)'
  <2>1. itemViews[o] # {}
    BY <1>1, <1>o, <1>10 DEF TotalsInv, IInv, InPlace, ItemWritten
  <2>2. t > 0 /\ t = TotalAmount(itemViews'[o])
    BY <1>1, <1>3, <1>5, <1>10, <2>1
  <2>3. QED
    BY <1>9, <1>10, <2>2 DEF Fresh
<1>11. ASSUME views[o] # NoView, TypeOf(c) = "OrderConfirmed"
       PROVE  Fresh(o)' \/ ItemPending(o)
  <2>1. CASE views'[o].total = t
    <3>1. Confirmed(o, t)'
      BY <1>2, <1>3, <1>11 DEF Confirmed, TypeOf, EventsOf, LogIds
    <3>2. QED
      BY <1>9, <1>11, <2>1, <3>1 DEF Fresh, Confirmed
  <2>2. CASE views'[o].total = views[o].total
    <3>1. Fresh(o) => Fresh(o)'
      BY <1>1, <1>9, <1>11, <2>2 DEF Fresh, Confirmed, EventsOf, LogIds
    <3>2. QED
      BY <1>2, <1>11, <3>1 DEF TotalsInv, StaleIsPending
  <2>3. QED
    BY <1>9, <1>11, <2>1, <2>2
<1>12. StaleIsPending'
  <2>1. ASSUME NEW p \in OrderIds, views'[p] # NoView
        PROVE  Fresh(p)' \/ ItemPending(p)'
    <3>1. CASE p = o
      BY <1>2, <1>6, <1>8, <1>10, <1>11, <2>1, <3>1
    <3>2. CASE p # o
      <4>1. views'[p] = views[p]
        BY <1>1, <1>4, <3>2
      <4>2. QED
        BY <1>6, <1>7, <2>1, <3>2, <4>1 DEF TotalsInv, StaleIsPending
    <3>3. QED
      BY <3>1, <3>2
  <2>2. QED
    BY <2>1 DEF StaleIsPending
<1>13. ItemsAreLogged'
  BY <1>1 DEF TotalsInv, ItemsAreLogged, ItemsIn, EventsOf, LogIds
<1>14. Undisturbed(c)'
  <2>1. /\ at'[c] = "findMark" /\ event'[c] = event[c] /\ TypeOf(c)' = TypeOf(c)
        /\ OrderOf(c)' = OrderOf(c) /\ processed' = processed
    BY <1>1 DEF TotalsInv, IInv, TypeOK, TypeOf, OrderOf
  <2>2. TypeOf(c) = "OrderItemAdded" => views[o] # NoView
    BY <1>1, <1>o DEF TotalsInv, IInv, InPlace, ViewFound
  <2>3. TypeOf(c) = "OrderItemAdded" => Fresh(OrderOf(c))'
    <3>1. TypeOf(c) = "OrderItemAdded" => Fresh(o)'
      BY <1>10, <2>2
    <3>2. QED
      BY <1>o, <2>1, <3>1
  <2>4. QED
    BY <1>3, <2>1, <2>3 DEF Undisturbed
<1>15. QED
  BY <1>12, <1>13, <1>14, WriteTotalsInv

LEMMA WriteMarkTotalsInv ==
  ASSUME TotalsInv, IInv', Exact, NEW c \in Consumers, WriteMark(c), ~ReturnError(c)
  PROVE  TotalsInv'
<1>1. /\ at[c] = "writeMark" /\ at' = [at EXCEPT ![c] = "ok"]
      /\ processed' = processed \cup {event[c]}
      /\ UNCHANGED <<views, itemViews>>
  BY DEF WriteMark, Goto
<1>2. /\ at'[c] = "ok" /\ event[c] \in LogIds
      /\ TypeOf(c) = "OrderItemAdded" => Fresh(OrderOf(c))
  BY <1>1, EventOf DEF TotalsInv, IInv, TypeOK, Undisturbed, Marking
<1>3. ASSUME NEW o \in OrderIds, views'[o] # NoView
      PROVE  Fresh(o)' \/ ItemPending(o)'
  <2>1. Fresh(o)' <=> Fresh(o)
    BY <1>1 DEF Fresh, Confirmed, EventsOf, LogIds
  <2>2. CASE Fresh(o)
    BY <2>1, <2>2
  <2>3. CASE ~Fresh(o)
    <3>1. ItemPending(o)
      BY <1>1, <1>3, <2>3 DEF TotalsInv, StaleIsPending
    <3>2. PICK e \in EventsOf(o) : Log[e].type = "OrderItemAdded" /\ e \notin processed
      BY <3>1 DEF ItemPending
    <3>3. e # event[c]
      BY <1>2, <2>3, <3>2 DEF EventsOf, TypeOf, OrderOf
    <3>4. QED
      BY <1>1, <3>2, <3>3 DEF ItemPending, EventsOf, LogIds
  <2>4. QED
    BY <2>2, <2>3
<1>4. StaleIsPending'
  BY <1>3 DEF StaleIsPending
<1>5. ItemsAreLogged'
  BY <1>1 DEF TotalsInv, ItemsAreLogged, ItemsIn, EventsOf, LogIds
<1>6. QED
  BY <1>2, <1>4, <1>5, OutsideUndisturbed, WriteTotalsInv

\* The places of a consumer after a statement that writes no table, and what it
\* then remembers.
LEMMA ReadUndisturbed ==
  ASSUME TotalsInv, Exact, NEW c \in Consumers,
         \/ Statement(c) \/ Failure(c) \/ Return(c) \/ Abort(c)
         \/ \E e \in LogIds : Handle(c, e),
         UNCHANGED readModel
  PROVE  Undisturbed(c)'
<1>1. /\ at \in [Consumers -> Places] /\ memory \in [Consumers -> Memory]
      /\ event \in [Consumers -> LogIds \cup {0}]
      /\ UNCHANGED <<views, itemViews, processed>>
  BY DEF TotalsInv, IInv, TypeOK, readModel
<1>2. CASE at'[c] \in {"idle", "check", "ok", "error"}
  BY <1>2, OutsideUndisturbed
<1>3. CASE at'[c] \notin {"idle", "check", "ok", "error"}
  <2>1. ~ReturnError(c) /\ ~Return(c) /\ ~Abort(c) /\ ~(\E e \in LogIds : Handle(c, e))
    BY <1>1, <1>3 DEF ReturnError, Return, Abort, Leave, Handle, Goto
  <2>2. ~WriteMark(c) /\ ~StatementFails(c) /\ ~CountFails(c)
    BY <1>1, <1>3, <2>1 DEF WriteMark, StatementFails, CountFails, Goto, Exact
  <2>3. CASE CheckProcessed(c)
    <3>1. /\ event' = event /\ event[c] \in LogIds
          /\ at' = [at EXCEPT ![c] = IF event[c] \in processed THEN "ok" ELSE FirstStatement(TypeOf(c))]
          /\ memory' = [memory EXCEPT ![c].total =
                          IF TypeOf(c) = "OrderConfirmed" THEN Log[event[c]].total ELSE 0]
      BY <2>3, EventOf DEF CheckProcessed, Goto, TotalsInv, IInv
    <3>2. event[c] \notin processed /\ at'[c] = FirstStatement(TypeOf(c))
      BY <1>1, <1>3, <3>1
    <3>3. TypeOf(c) \in {"OrderCreated", "OrderItemAdded", "OrderConfirmed"}
      BY <3>1, LogTypes DEF TypeOf
    <3>4. /\ at'[c] \in {"findView", "findItem", "count"}
          /\ at'[c] = "count" => TypeOf(c) = "OrderConfirmed"
      BY <3>2, <3>3 DEF FirstStatement
    <3>5. TypeOf(c) = "OrderConfirmed" => memory'[c].total = Log[event[c]].total
      BY <1>1, <3>1 DEF Memory
    <3>6. TypeOf(c)' = TypeOf(c)
      BY <3>1 DEF TypeOf
    <3>7. QED
      BY <1>1, <3>1, <3>2, <3>4, <3>5, <3>6 DEF Undisturbed, Marking
  <2>4. CASE ~CheckProcessed(c)
    <3>1. \/ FindView(c) \/ WriteView(c) \/ FindItem(c) \/ WriteItem(c) \/ GetOrder(c)
          \/ GetItems(c) \/ CountItems(c) \/ UpdateView(c) \/ FindMark(c)
      BY <2>1, <2>2, <2>4 DEF Statement, Failure
    <3>2. event' = event /\ at[c] \notin {"idle", "check", "ok", "error"}
      BY <2>1, <3>1 DEF FindView, WriteView, FindItem, WriteItem, GetOrder, GetItems, CountItems,
                        UpdateView, FindMark
    <3>3. event[c] \notin processed
      BY <3>2 DEF TotalsInv, Undisturbed
    <3>4. TypeOf(c)' = TypeOf(c) /\ OrderOf(c)' = OrderOf(c)
      BY <3>2 DEF TypeOf, OrderOf
    <3>5. Fresh(OrderOf(c))' <=> Fresh(OrderOf(c))
      BY <1>1, <3>4 DEF Fresh, Confirmed, EventsOf, LogIds
    <3>6. CASE FindView(c) \/ FindItem(c) \/ WriteItem(c) \/ GetOrder(c)
      <4>1. at'[c] \in {"writeView", "writeItem", "getOrder", "getItems"}
        BY <1>1, <2>1, <3>6 DEF FindView, FindItem, WriteItem, GetOrder, Goto
      <4>2. QED
        BY <1>1, <3>2, <3>3, <4>1 DEF Undisturbed, Marking
    <3>7. CASE WriteView(c)
      <4>1. at'[c] = "findMark" /\ TypeOf(c) = "OrderCreated"
        BY <1>1, <2>1, <3>7 DEF WriteView, Goto, TotalsInv, IInv, InPlace
      <4>2. QED
        BY <1>1, <3>2, <3>3, <3>4, <4>1 DEF Undisturbed
    <3>8. CASE GetItems(c)
      <4>1. at'[c] = "count" /\ TypeOf(c) = "OrderItemAdded"
        BY <1>1, <3>8 DEF GetItems, Goto, TotalsInv, IInv, InPlace
      <4>2. memory'[c].total = TotalAmount(itemViews[OrderOf(c)])
        BY <1>1, <3>8 DEF GetItems, Memory
      <4>3. QED
        BY <1>1, <3>2, <3>3, <3>4, <4>1, <4>2 DEF Undisturbed, Marking
    <3>9. CASE CountItems(c)
      <4>1. at[c] = "count" /\ at'[c] = "update"
        BY <1>1, <3>9 DEF CountItems, Goto
      <4>2. /\ memory'[c].total = memory[c].total
            /\ memory'[c].count = Cardinality(itemViews[OrderOf(c)])
        BY <1>1, <3>9 DEF CountItems, Memory
      <4>3. QED
        BY <1>1, <3>2, <3>3, <3>4, <4>1, <4>2 DEF Undisturbed, Marking, TotalsInv
    <3>10. CASE UpdateView(c)
      <4>1. at[c] = "update" /\ at'[c] = "findMark"
        BY <1>1, <3>10 DEF UpdateView, Goto
      <4>2. TypeOf(c) = "OrderItemAdded" => Fresh(OrderOf(c))
        <5>1. TotalsInv'
          <6>1. IInv'
            BY <3>10, UpdateViewIInv DEF TotalsInv
          <6>2. QED
            BY <3>10, <6>1, UpdateViewTotalsInv
        <5>2. QED
          BY <3>4, <3>5, <4>1, <5>1 DEF TotalsInv, Undisturbed, Marking
      <4>3. QED
        BY <1>1, <3>2, <3>3, <3>4, <3>5, <4>1, <4>2 DEF Undisturbed
    <3>11. CASE FindMark(c)
      <4>1. at[c] = "findMark" /\ at'[c] = "writeMark"
        BY <1>1, <3>11 DEF FindMark, Goto
      <4>2. QED
        BY <1>1, <3>2, <3>3, <3>4, <3>5, <4>1 DEF Undisturbed, Marking, TotalsInv
    <3>12. QED
      BY <3>1, <3>6, <3>7, <3>8, <3>9, <3>10, <3>11
  <2>5. QED
    BY <2>3, <2>4
<1>4. QED
  BY <1>2, <1>3

LEMMA InitTotalsInv == Exact /\ Init => TotalsInv
<1> SUFFICES ASSUME Exact, Init PROVE TotalsInv
  OBVIOUS
<1>1. IInv
  BY InitIInv
<1>2. StaleIsPending /\ ItemsAreLogged
  BY DEF Init, StaleIsPending, ItemsAreLogged
<1>3. \A c \in Consumers : Undisturbed(c)
  BY DEF Init, Undisturbed, Marking
<1>4. QED
  BY <1>1, <1>2, <1>3 DEF TotalsInv

LEMMA NextTotalsInv == Exact /\ TotalsInv /\ [Next]_vars => TotalsInv'
<1> SUFFICES ASSUME Exact, TotalsInv, [Next]_vars PROVE TotalsInv'
  OBVIOUS
<1>i. IInv'
  BY NextIInv DEF TotalsInv
<1>1. CASE UNCHANGED vars
  <2>1. UNCHANGED readModel /\ UNCHANGED <<views, itemViews, processed, at, event, memory>>
    BY <1>1 DEF vars, readModel
  <2>2. \A c \in Consumers : Undisturbed(c)'
    BY <2>1 DEF TotalsInv, Undisturbed, Fresh, Confirmed, EventsOf, LogIds, TypeOf, OrderOf
  <2>3. QED
    BY <1>i, <2>1, <2>2, ReadTotalsInv
<1>2. CASE Next
  <2>1. PICK c \in Consumers : \/ \E e \in LogIds : Handle(c, e)
                               \/ Statement(c) \/ Failure(c) \/ Return(c) \/ Abort(c)
    BY <1>2 DEF Next
  <2>2. \A d \in Consumers : d = c
    BY DEF Exact
  <2>3. CASE UNCHANGED readModel
    <3>1. Undisturbed(c)'
      BY <2>1, <2>3, ReadUndisturbed
    <3>2. QED
      BY <1>i, <2>2, <2>3, <3>1, ReadTotalsInv
  <2>4. CASE ~UNCHANGED readModel
    <3>1. ~ReturnError(c)
      BY <2>4 DEF ReturnError
    <3>2. WriteView(c) \/ WriteItem(c) \/ UpdateView(c) \/ WriteMark(c)
      BY <2>1, <2>4, <3>1 DEF Handle, Statement, CheckProcessed, FindView, FindItem, GetOrder, GetItems,
                              CountItems, FindMark, Failure, CountFails, StatementFails, Return, Abort,
                              Leave
    <3>3. QED
      BY <1>i, <3>1, <3>2, WriteViewTotalsInv, WriteItemTotalsInv, UpdateViewTotalsInv,
         WriteMarkTotalsInv
  <2>5. QED
    BY <2>3, <2>4
<1>3. QED
  BY <1>1, <1>2

LEMMA TotalsInvAgrees == TotalsInv => TotalsAgree
<1> SUFFICES ASSUME TotalsInv, NEW o \in OrderIds, views[o] # NoView,
                    \A e \in EventsOf(o) : Log[e].type = "OrderItemAdded" => e \in processed
             PROVE  /\ views[o].count = Cardinality(ItemsIn(EventsOf(o)))
                    /\ \/ views[o].total = TotalAmount(ItemsIn(EventsOf(o)))
                       \/ Confirmed(o, views[o].total)
  BY DEF TotalsAgree, Confirmed
<1>1. ~ItemPending(o)
  BY DEF ItemPending
<1>2. Fresh(o)
  BY <1>1 DEF TotalsInv, StaleIsPending
<1>3. itemViews[o] = ItemsIn(EventsOf(o))
  BY <1>1, MissingItemIsPending DEF TotalsInv, ItemsAreLogged
<1>4. QED
  BY <1>2, <1>3 DEF Fresh

\* A consumer that is alone leaves no total behind: for any log, also one of
\* commands that overlapped, in whatever order its events are handled and whatever
\* fails but the count, once the item events of an order are processed the count
\* is that of all of its items, and the total is theirs or what a confirmation of
\* the order said.
THEOREM AloneTotalsAgree == Exact => (Spec => []TotalsAgree)
<1> SUFFICES ASSUME Exact PROVE Spec => []TotalsAgree
  OBVIOUS
<1>1. Init => TotalsInv
  BY InitTotalsInv
<1>2. TotalsInv /\ [Next]_vars => TotalsInv'
  BY NextTotalsInv
<1>3. TotalsInv => TotalsAgree
  BY TotalsInvAgrees
<1>4. QED
  BY <1>1, <1>2, <1>3, PTL DEF Spec

-----------------------------------------------------------------------------
(* A consumer that is alone and is given the events of each order in their *)
(* order, none of whose statements fails: the read model goes through the  *)
(* states of the orders.                                                   *)

\* What this depends on, apart from the order of the deliveries.
Orderly == Exact /\ SerialLog /\ ConfirmedTotals /\ MayFail = {}

\* All events of the order before e are processed.
Prior(e) == \A d \in EventsOf(Log[e].order) : d < e => d \in processed

\* The event of its order that is handled next.
IsNext(e) == e \notin processed /\ Prior(e)

Done(o) == processed \cap EventsOf(o)

\* What of an order may be in the read model: the events that are processed, and
\* the next, of which an earlier attempt may have been cut off.
Reached(o) == {Done(o)} \cup {Done(o) \cup {e} : e \in {d \in EventsOf(o) : IsNext(d)}}

\* The view is one or the other; and the items are not behind it.
Shown(o) ==
    \E S, T \in Reached(o) :
        S \subseteq T /\ views[o] = ViewOf(S) /\ itemViews[o] = ItemsIn(T)

\* The events of the order with the one that consumer c handles.
After(c) == Done(OrderOf(c)) \cup {event[c]}

\* What a consumer has found is still so; and what it has written is the order
\* after its event.
Consistent(c) ==
    /\ at[c] # "error"
    /\ at[c] # "idle" => Prior(event[c])
    /\ at[c] = "writeView" => memory[c].found = (views[OrderOf(c)] # NoView)
    /\ at[c] = "writeItem" => memory[c].found = (Log[event[c]].item \in itemViews[OrderOf(c)])
    /\ at[c] \in ItemWritten /\ TypeOf(c) = "OrderItemAdded" =>
           itemViews[OrderOf(c)] = ItemsIn(After(c))
    /\ at[c] \in Marking =>
           views[OrderOf(c)] = ViewOf(After(c)) /\ itemViews[OrderOf(c)] = ItemsIn(After(c))

HistoryInv ==
    /\ TotalsInv
    /\ \A e \in processed : Prior(e)
    /\ \A o \in OrderIds : Shown(o)
    /\ \A c \in Consumers : Consistent(c)

\* The items of an order after one more event.
LEMMA ItemsAfter ==
  ASSUME NEW S \in SUBSET LogIds, NEW e \in LogIds
  PROVE  ItemsIn(S \cup {e}) = IF Log[e].type = "OrderItemAdded"
                               THEN ItemsIn(S) \cup {Log[e].item} ELSE ItemsIn(S)
  BY DEF ItemsIn

\* Its view.
LEMMA ViewAfterEvent ==
  ASSUME NEW S \in SUBSET LogIds, S # {}
  PROVE  /\ ViewOf(S).total = TotalAmount(ItemsIn(S))
         /\ ViewOf(S).count = Cardinality(ItemsIn(S))
         /\ ViewOf(S).status = IF \E e \in S : Log[e].type = "OrderConfirmed"
                               THEN "CONFIRMED" ELSE "DRAFT"
         /\ ViewOf(S) # NoView
<1>1. ViewOf(S).status \in {"CONFIRMED", "DRAFT"}
  BY DEF ViewOf
<1>2. ViewOf(S) # NoView
  BY <1>1 DEF NoView
<1>3. QED
  BY <1>2 DEF ViewOf

\* Two events of one order are not both next.
LEMMA OneIsNext ==
  ASSUME NEW o \in OrderIds, NEW e \in EventsOf(o), IsNext(e)
  PROVE  Reached(o) = {Done(o), Done(o) \cup {e}}
<1>1. ASSUME NEW d \in EventsOf(o), IsNext(d)
      PROVE  d = e
  <2>1. /\ d \in LogIds /\ e \in LogIds /\ Log[d].order = o /\ Log[e].order = o
    BY DEF EventsOf
  <2>2. d \in Nat /\ e \in Nat
    BY <2>1, ProjectionAssumption DEF LogIds
  <2>3. ~(d < e) /\ ~(e < d)
    BY <1>1, <2>1 DEF IsNext, Prior
  <2>4. QED
    BY <2>2, <2>3
<1>2. QED
  BY <1>1 DEF Reached

\* A consumer that is at work has the next event of the order.
LEMMA WorkingOnNext ==
  ASSUME HistoryInv, NEW c \in Consumers, at[c] \notin {"idle", "check", "ok", "error"}
  PROVE  /\ event[c] \in LogIds /\ OrderOf(c) \in OrderIds /\ event[c] \in EventsOf(OrderOf(c))
         /\ IsNext(event[c])
         /\ Reached(OrderOf(c)) = {Done(OrderOf(c)), After(c)}
         /\ Done(OrderOf(c)) \in SUBSET LogIds /\ After(c) \in SUBSET LogIds /\ After(c) # {}
         /\ \A d \in Done(OrderOf(c)) : d < event[c]
<1>1. /\ event[c] \in LogIds /\ OrderOf(c) \in OrderIds /\ event[c] \in EventsOf(OrderOf(c))
  BY EventOf, LogTypes DEF HistoryInv, TotalsInv, IInv, OrderOf, EventsOf
<1>2. IsNext(event[c])
  BY DEF HistoryInv, TotalsInv, Undisturbed, Consistent, IsNext
<1>3. /\ Reached(OrderOf(c)) = {Done(OrderOf(c)), After(c)}
  BY <1>1, <1>2, OneIsNext DEF After
<1>4. Done(OrderOf(c)) \in SUBSET LogIds /\ After(c) \in SUBSET LogIds /\ After(c) # {}
  BY <1>1 DEF Done, After, EventsOf
<1>5. ASSUME NEW d \in Done(OrderOf(c))
      PROVE  d < event[c]
  <2>1. d \in processed /\ d \in LogIds /\ Log[d].order = OrderOf(c) /\ d # event[c]
    BY <1>2 DEF Done, EventsOf, IsNext
  <2>2. ~(event[c] < d)
    BY <1>1, <1>2, <2>1 DEF HistoryInv, Prior, IsNext
  <2>3. QED
    BY <1>1, <2>1, <2>2, ProjectionAssumption DEF LogIds
<1>6. QED
  BY <1>1, <1>2, <1>3, <1>4, <1>5

\* What it finds, by the type of its event.
LEMMA WorkingByType ==
  ASSUME Orderly, HistoryInv, NEW c \in Consumers, at[c] \notin {"idle", "check", "ok", "error"}
  PROVE  /\ TypeOf(c) = "OrderCreated" => Done(OrderOf(c)) = {}
         /\ TypeOf(c) # "OrderCreated" =>
               /\ views[OrderOf(c)] # NoView
               /\ \A d \in Done(OrderOf(c)) : Log[d].type # "OrderConfirmed"
         /\ TypeOf(c) = "OrderConfirmed" => After(c) = EventsOf(OrderOf(c))
<1>1. PICK e \in LogIds, o \in OrderIds :
         /\ e = event[c] /\ o = OrderOf(c) /\ Log[e].order = o /\ e \in EventsOf(o) /\ IsNext(e)
         /\ \A d \in Done(o) : d < e
  BY WorkingOnNext DEF OrderOf
<1>2. \A d \in EventsOf(o) : d < e => Log[d].type # "OrderConfirmed" /\ Log[e].type # "OrderCreated"
  BY <1>1 DEF Orderly, SerialLog
<1>3. \A d \in Done(o) : d \in EventsOf(o)
  BY DEF Done
<1>4. ASSUME TypeOf(c) # "OrderCreated"
      PROVE  views[o] # NoView
  <2>1. PICK k \in LogIds : k <= e /\ Log[k] = NewOrderCreated(o)
    BY <1>1 DEF Orderly, SerialLog
  <2>2. Log[k].type = "OrderCreated" /\ Log[k].order = o
    BY <2>1 DEF NewOrderCreated
  <2>3. k # e /\ k < e
    BY <1>1, <1>4, <2>1, <2>2, ProjectionAssumption DEF LogIds, TypeOf
  <2>4. k \in processed
    BY <1>1, <2>2, <2>3 DEF IsNext, Prior, EventsOf
  <2>5. QED
    BY <2>2, <2>4 DEF HistoryInv, TotalsInv, IInv, ProcessedIsReflected
<1>5. ASSUME TypeOf(c) = "OrderConfirmed"
      PROVE  After(c) = EventsOf(o)
  <2>1. ASSUME NEW d \in EventsOf(o)
        PROVE  d \in After(c)
    <3>1. d \in LogIds /\ Log[d].order = o
      BY DEF EventsOf
    <3>2. ~(e < d)
      BY <1>1, <1>5, <3>1 DEF Orderly, SerialLog, TypeOf
    <3>3. d = e \/ d < e
      BY <3>1, <3>2, ProjectionAssumption DEF LogIds
    <3>4. QED
      BY <1>1, <3>3 DEF IsNext, Prior, After, Done
  <2>2. QED
    BY <1>1, <2>1 DEF After, Done
<1>6. QED
  BY <1>1, <1>2, <1>3, <1>4, <1>5 DEF TypeOf

\* A step that writes no table leaves what is shown as it is.
LEMMA ReadHistoryInv ==
  ASSUME HistoryInv, TotalsInv', UNCHANGED readModel, \A c \in Consumers : Consistent(c)'
  PROVE  HistoryInv'
<1>1. views' = views /\ itemViews' = itemViews /\ processed' = processed
  BY DEF readModel
<1>2. \A o \in OrderIds : Reached(o)' = Reached(o)
  BY <1>1 DEF Reached, Done, IsNext, Prior, EventsOf, LogIds
<1>3. ASSUME NEW o \in OrderIds
      PROVE  Shown(o)'
  <2>1. \A S \in Reached(o) : ViewOf(S)' = ViewOf(S) /\ ItemsIn(S)' = ItemsIn(S)
    BY DEF ViewOf, ItemsIn
  <2>2. QED
    BY <1>1, <1>2, <2>1 DEF HistoryInv, Shown
<1>4. \A e \in processed' : Prior(e)'
  BY <1>1 DEF HistoryInv, Prior, EventsOf, LogIds
<1>5. QED
  BY <1>3, <1>4 DEF HistoryInv

\* Nor does it disturb what the consumer knows, if it was given its event in
\* its turn.
LEMMA ReadConsistent ==
  ASSUME Orderly, HistoryInv, NEW c \in Consumers,
         \/ CheckProcessed(c) \/ FindView(c) \/ FindItem(c) \/ GetOrder(c) \/ GetItems(c)
         \/ CountItems(c) \/ FindMark(c) \/ Return(c) \/ Abort(c)
         \/ \E e \in LogIds : Handle(c, e) /\ Prior(e)
  PROVE  Consistent(c)'
<1>1. /\ at \in [Consumers -> Places] /\ memory \in [Consumers -> Memory]
      /\ event \in [Consumers -> LogIds \cup {0}]
      /\ UNCHANGED <<views, itemViews, processed>>
  BY DEF HistoryInv, TotalsInv, IInv, TypeOK, readModel, CheckProcessed, FindView, FindItem, GetOrder,
         GetItems, CountItems, FindMark, Return, Abort, Leave, Handle, ReturnError
<1>2. \A e : Prior(e)' <=> Prior(e)
  BY <1>1 DEF Prior, EventsOf, LogIds
<1>3. CASE Return(c) \/ Abort(c)
  <2>1. at'[c] = "idle"
    BY <1>1, <1>3 DEF Return, Abort, Leave, Goto
  <2>2. QED
    BY <2>1 DEF Consistent, ItemWritten, Marking
<1>4. ASSUME NEW e \in LogIds, Handle(c, e), Prior(e)
      PROVE  Consistent(c)'
  <2>1. at'[c] = "check" /\ event'[c] = e
    BY <1>1, <1>4 DEF Handle, Goto
  <2>2. QED
    BY <1>2, <1>4, <2>1 DEF Consistent, ItemWritten, Marking
<1>5. CASE CheckProcessed(c)
  <2>1. event' = event /\ at[c] = "check" /\ event[c] \in LogIds
    BY <1>5, EventOf DEF CheckProcessed, HistoryInv, TotalsInv, IInv
  <2>2. /\ FirstStatement(TypeOf(c)) \in {"findView", "findItem", "count"}
        /\ FirstStatement(TypeOf(c)) = "count" => TypeOf(c) # "OrderItemAdded"
    BY <2>1, LogTypes DEF FirstStatement, TypeOf
  <2>3. /\ at'[c] \in {"ok", "findView", "findItem", "count"}
        /\ at'[c] = "count" => TypeOf(c)' # "OrderItemAdded"
    BY <1>1, <1>5, <2>1, <2>2 DEF CheckProcessed, Goto, TypeOf
  <2>4. Prior(event[c]) /\ event'[c] = event[c]
    BY <2>1 DEF HistoryInv, Consistent
  <2>5. Prior(event[c])'
    BY <1>1, <2>4 DEF Prior, EventsOf, LogIds
  <2>6. QED
    BY <2>3, <2>5 DEF Consistent, ItemWritten, Marking
<1>6. CASE FindView(c) \/ FindItem(c) \/ GetOrder(c) \/ GetItems(c) \/ CountItems(c) \/ FindMark(c)
  <2>1. at[c] \notin {"idle", "check", "ok", "error"} /\ event' = event
    BY <1>6 DEF FindView, FindItem, GetOrder, GetItems, CountItems, FindMark, ReturnError
  <2>2. TypeOf(c)' = TypeOf(c) /\ OrderOf(c)' = OrderOf(c) /\ event'[c] = event[c]
    BY <2>1 DEF TypeOf, OrderOf
  <2>3. After(c)' = After(c)
    BY <1>1, <2>1, <2>2 DEF After, Done, EventsOf, LogIds
  <2>4. Prior(event[c]) /\ event[c] \notin processed
    BY <2>1, WorkingOnNext DEF IsNext
  <2>5. ViewOf(After(c))' = ViewOf(After(c)) /\ ItemsIn(After(c))' = ItemsIn(After(c))
    BY <2>3 DEF ViewOf, ItemsIn
  <2>6. Consistent(c)
    BY DEF HistoryInv
  <2>7. CASE FindView(c) \/ FindItem(c)
    BY <1>1, <1>2, <2>2, <2>4, <2>7 DEF FindView, FindItem, Goto, Memory, Consistent, ItemWritten, Marking
  <2>8. CASE GetOrder(c)
    <3>1. TypeOf(c) # "OrderCreated"
      BY <2>8 DEF GetOrder, HistoryInv, TotalsInv, IInv, InPlace
    <3>2. views[OrderOf(c)] # NoView
      BY <2>1, <3>1, WorkingByType
    <3>3. at[c] = "getOrder" /\ at'[c] = "getItems"
      BY <1>1, <2>8, <3>2 DEF GetOrder, Goto
    <3>4. QED
      BY <1>1, <1>2, <2>2, <2>4, <2>5, <2>6, <3>3 DEF Consistent, ItemWritten, Marking
  <2>9. CASE GetItems(c) \/ CountItems(c)
    <3>1. \/ at[c] = "getItems" /\ at'[c] = "count"
          \/ at[c] = "count" /\ at'[c] = "update"
      BY <1>1, <2>9 DEF GetItems, CountItems, Goto
    <3>2. at[c] = "getItems" => TypeOf(c) = "OrderItemAdded"
      BY DEF HistoryInv, TotalsInv, IInv, InPlace
    <3>3. QED
      BY <1>1, <1>2, <2>2, <2>4, <2>5, <2>6, <3>1, <3>2 DEF Consistent, ItemWritten, Marking
  <2>10. CASE FindMark(c)
    <3>1. at[c] = "findMark" /\ at'[c] = "writeMark"
      BY <1>1, <2>10 DEF FindMark, Goto
    <3>2. QED
      BY <1>1, <1>2, <2>2, <2>4, <2>5, <2>6, <3>1 DEF Consistent, ItemWritten, Marking
  <2>11. QED
    BY <1>6, <2>7, <2>8, <2>9, <2>10
<1>7. QED
  BY <1>3, <1>4, <1>5, <1>6

\* What a consumer that is alone writes.
LEMMA WriteHistoryInv ==
  ASSUME Orderly, HistoryInv, TotalsInv', NEW c \in Consumers,
         processed' = processed, Consistent(c)',
         NEW o \in OrderIds, Shown(o)',
         \A p \in OrderIds \ {o} : views'[p] = views[p] /\ itemViews'[p] = itemViews[p]
  PROVE  HistoryInv'
<1>1. \A p \in OrderIds : Reached(p)' = Reached(p)
  BY DEF Reached, Done, IsNext, Prior, EventsOf, LogIds
<1>2. ASSUME NEW p \in OrderIds \ {o}
      PROVE  Shown(p)'
  <2>1. \A S \in Reached(p) : ViewOf(S)' = ViewOf(S) /\ ItemsIn(S)' = ItemsIn(S)
    BY DEF ViewOf, ItemsIn
  <2>2. QED
    BY <1>1, <2>1 DEF HistoryInv, Shown
<1>3. \A e \in processed' : Prior(e)'
  BY DEF HistoryInv, Prior, EventsOf, LogIds
<1>4. \A d \in Consumers : Consistent(d)'
  BY DEF Orderly, Exact
<1>5. QED
  BY <1>2, <1>3, <1>4 DEF HistoryInv

\* What a statement leaves alone.
LEMMA WorkGoesOn ==
  ASSUME HistoryInv, NEW c \in Consumers, at[c] \notin {"idle", "check", "ok", "error"},
         event' = event, processed' = processed
  PROVE  /\ event'[c] = event[c] /\ TypeOf(c)' = TypeOf(c) /\ OrderOf(c)' = OrderOf(c)
         /\ Prior(event[c])'
         /\ After(c)' = After(c)
         /\ \A S : ViewOf(S)' = ViewOf(S) /\ ItemsIn(S)' = ItemsIn(S)
         /\ Reached(OrderOf(c))' = Reached(OrderOf(c))
<1>1. event'[c] = event[c] /\ TypeOf(c)' = TypeOf(c) /\ OrderOf(c)' = OrderOf(c)
  BY DEF TypeOf, OrderOf
<1>2. Prior(event[c])'
  BY <1>1, WorkingOnNext DEF IsNext, Prior, EventsOf, LogIds
<1>3. After(c)' = After(c)
  BY <1>1 DEF After, Done, EventsOf, LogIds
<1>4. \A S : ViewOf(S)' = ViewOf(S) /\ ItemsIn(S)' = ItemsIn(S)
  BY DEF ViewOf, ItemsIn
<1>5. Reached(OrderOf(c))' = Reached(OrderOf(c))
  BY <1>1 DEF Reached, Done, IsNext, Prior, EventsOf, LogIds
<1>6. QED
  BY <1>1, <1>2, <1>3, <1>4, <1>5

LEMMA WriteViewHistoryInv ==
  ASSUME Orderly, HistoryInv, TotalsInv', NEW c \in Consumers, WriteView(c)
  PROVE  HistoryInv'
<1>1. /\ at[c] = "writeView" /\ TypeOf(c) = "OrderCreated"
      /\ memory[c].found = (views[OrderOf(c)] # NoView)
  BY DEF WriteView, HistoryInv, TotalsInv, IInv, InPlace, Consistent
<1>2. /\ views' = [views EXCEPT ![OrderOf(c)].status = "DRAFT"]
      /\ at' = [at EXCEPT ![c] = "findMark"]
      /\ UNCHANGED <<itemViews, processed, event>>
  BY <1>1 DEF WriteView, Goto
<1>3. PICK o \in OrderIds, e \in LogIds : o = OrderOf(c) /\ e = event[c]
  BY <1>1, WorkingOnNext
<1>4. /\ Reached(o) = {Done(o), After(c)} /\ Done(o) = {} /\ After(c) = {e}
      /\ Log[e].type = "OrderCreated"
  BY <1>1, <1>3, WorkingOnNext, WorkingByType DEF After, TypeOf
<1>5. ItemsIn({e}) = {} /\ ItemsIn({}) = {}
  BY <1>4 DEF ItemsIn
<1>6. ViewOf({e}) = [status |-> "DRAFT", total |-> 0, count |-> 0] /\ ViewOf({}) = NoView
  <2>1. TotalAmount({}) = 0 /\ Cardinality({}) = 0
    BY FS_EmptySet DEF Orderly, Exact, TotalsFit
  <2>2. QED
    BY <1>4, <1>5, <2>1 DEF ViewOf
<1>7. views[o] \in {ViewOf({}), ViewOf({e})} /\ itemViews[o] = {}
  BY <1>4, <1>5 DEF HistoryInv, Shown
<1>8. [views[o] EXCEPT !.status = "DRAFT"] = ViewOf({e})
  BY <1>6, <1>7 DEF NoView
<1>9. /\ views'[o] = ViewOf({e}) /\ itemViews'[o] = {}
      /\ \A p \in OrderIds \ {o} : views'[p] = views[p] /\ itemViews'[p] = itemViews[p]
  BY <1>2, <1>3, <1>7, <1>8 DEF HistoryInv, TotalsInv, IInv, TypeOK
<1>10. /\ at'[c] = "findMark" /\ event'[c] = event[c] /\ TypeOf(c)' = TypeOf(c) /\ OrderOf(c)' = OrderOf(c)
       /\ Prior(event[c])' /\ After(c)' = After(c) /\ Reached(o)' = Reached(o)
       /\ \A S : ViewOf(S)' = ViewOf(S) /\ ItemsIn(S)' = ItemsIn(S)
  BY <1>1, <1>2, <1>3, WorkGoesOn DEF HistoryInv, TotalsInv, IInv, TypeOK
<1>11. Shown(o)'
  BY <1>4, <1>5, <1>9, <1>10 DEF Shown
<1>12. Consistent(c)'
  BY <1>1, <1>3, <1>4, <1>5, <1>9, <1>10 DEF Consistent
<1>13. QED
  BY <1>2, <1>9, <1>11, <1>12, WriteHistoryInv

LEMMA WriteItemHistoryInv ==
  ASSUME Orderly, HistoryInv, TotalsInv', NEW c \in Consumers, WriteItem(c)
  PROVE  HistoryInv'
<1>1. /\ at[c] = "writeItem" /\ TypeOf(c) = "OrderItemAdded"
      /\ memory[c].found = (Log[event[c]].item \in itemViews[OrderOf(c)])
  BY DEF WriteItem, HistoryInv, TotalsInv, IInv, InPlace, Consistent
<1>2. /\ itemViews' = [itemViews EXCEPT ![OrderOf(c)] = @ \cup {Log[event[c]].item}]
      /\ at' = [at EXCEPT ![c] = "getOrder"]
      /\ UNCHANGED <<views, processed, event>>
  BY <1>1 DEF WriteItem, Goto
<1>3. PICK o \in OrderIds, e \in LogIds : o = OrderOf(c) /\ e = event[c]
  BY <1>1, WorkingOnNext
<1>4. PICK i : i = Log[e].item
  OBVIOUS
<1>5. /\ Reached(o) = {Done(o), After(c)} /\ Done(o) \in SUBSET LogIds
      /\ After(c) = Done(o) \cup {e} /\ Log[e].type = "OrderItemAdded"
  BY <1>1, <1>3, WorkingOnNext DEF After, TypeOf
<1>6. ItemsIn(After(c)) = ItemsIn(Done(o)) \cup {i}
  BY <1>4, <1>5, ItemsAfter
<1>7. views[o] \in {ViewOf(Done(o)), ViewOf(After(c))}
      /\ itemViews[o] \in {ItemsIn(Done(o)), ItemsIn(After(c))}
  BY <1>5 DEF HistoryInv, Shown
<1>8. /\ views'[o] = views[o] /\ itemViews'[o] = ItemsIn(After(c))
      /\ \A p \in OrderIds \ {o} : views'[p] = views[p] /\ itemViews'[p] = itemViews[p]
  BY <1>2, <1>3, <1>4, <1>6, <1>7 DEF HistoryInv, TotalsInv, IInv, TypeOK
<1>9. /\ at'[c] = "getOrder" /\ event'[c] = event[c] /\ TypeOf(c)' = TypeOf(c) /\ OrderOf(c)' = OrderOf(c)
      /\ Prior(event[c])' /\ After(c)' = After(c) /\ Reached(o)' = Reached(o)
      /\ \A S : ViewOf(S)' = ViewOf(S) /\ ItemsIn(S)' = ItemsIn(S)
  BY <1>1, <1>2, <1>3, WorkGoesOn DEF HistoryInv, TotalsInv, IInv, TypeOK
<1>10. Shown(o)'
  <2>1. PICK S \in {Done(o), After(c)} : views[o] = ViewOf(S)
    BY <1>7
  <2>2. S \subseteq After(c) /\ S \in Reached(o)' /\ After(c) \in Reached(o)'
    BY <1>5, <1>9
  <2>3. views'[o] = ViewOf(S)' /\ itemViews'[o] = ItemsIn(After(c))'
    BY <1>8, <1>9, <2>1
  <2>4. QED
    BY <1>9, <2>2, <2>3 DEF Shown
<1>11. Consistent(c)'
  BY <1>3, <1>8, <1>9 DEF Consistent, Marking
<1>12. QED
  BY <1>2, <1>8, <1>10, <1>11, WriteHistoryInv

LEMMA UpdateViewHistoryInv ==
  ASSUME Orderly, HistoryInv, TotalsInv', NEW c \in Consumers, UpdateView(c)
  PROVE  HistoryInv'
<1>1. at[c] = "update" /\ TypeOf(c) \in {"OrderItemAdded", "OrderConfirmed"}
  <2>1. at[c] = "update" /\ TypeOf(c) # "OrderCreated" /\ event[c] \in LogIds
    BY WorkingOnNext DEF UpdateView, HistoryInv, TotalsInv, IInv, InPlace
  <2>2. QED
    BY <2>1, LogTypes DEF TypeOf
<1>2. PICK o \in OrderIds, e \in LogIds : o = OrderOf(c) /\ e = event[c] /\ TypeOf(c) = Log[e].type
  BY <1>1, WorkingOnNext DEF TypeOf
<1>3. PICK D \in SUBSET LogIds, A \in SUBSET LogIds : D = Done(o) /\ A = After(c)
  BY <1>1, <1>2, WorkingOnNext
<1>4. /\ Reached(o) = {D, A} /\ A = D \cup {e} /\ views[o] # NoView
      /\ \A d \in D : Log[d].type # "OrderConfirmed"
      /\ TypeOf(c) = "OrderConfirmed" => A = EventsOf(o)
  BY <1>1, <1>2, <1>3, WorkingOnNext, WorkingByType DEF After
<1>5. /\ itemViews[o] = ItemsIn(A)
      /\ TypeOf(c) = "OrderConfirmed" => ItemsIn(D) = ItemsIn(A)
  <2>1. itemViews[o] \in {ItemsIn(D), ItemsIn(A)}
    BY <1>4 DEF HistoryInv, Shown
  <2>2. TypeOf(c) = "OrderConfirmed" => ItemsIn(D) = ItemsIn(A)
    BY <1>2, <1>4, ItemsAfter
  <2>3. TypeOf(c) = "OrderItemAdded" => itemViews[o] = ItemsIn(A)
    BY <1>1, <1>2, <1>3 DEF HistoryInv, Consistent, ItemWritten
  <2>4. QED
    BY <1>1, <2>1, <2>2, <2>3
<1>6. PICK S \in {D, A} : views[o] = ViewOf(S)
  BY <1>4 DEF HistoryInv, Shown
<1>7. S # {}
  BY <1>4, <1>6 DEF ViewOf
<1>8. PICK t, n : t = memory[c].total /\ n = memory[c].count
  OBVIOUS
<1>9. n = Cardinality(ItemsIn(A)) /\ t = TotalAmount(ItemsIn(A))
  <2>1. Undisturbed(c)
    BY DEF HistoryInv, TotalsInv
  <2>2. n = Cardinality(itemViews[o])
    BY <1>1, <1>2, <1>8, <2>1 DEF Undisturbed
  <2>3. CASE TypeOf(c) = "OrderItemAdded"
    BY <1>1, <1>2, <1>5, <1>8, <2>1, <2>2, <2>3 DEF Undisturbed
  <2>4. CASE TypeOf(c) = "OrderConfirmed"
    <3>1. Log[e].order = o /\ Log[e].type = "OrderConfirmed"
      BY <1>2, <2>4 DEF OrderOf
    <3>2. Log[e].total = TotalAmount(ItemsIn(A))
      BY <1>4, <2>4, <3>1 DEF Orderly, ConfirmedTotals
    <3>3. QED
      BY <1>1, <1>2, <1>5, <1>8, <2>1, <2>2, <2>4, <3>2 DEF Undisturbed
  <2>5. QED
    BY <1>1, <2>3, <2>4
<1>10. t \in Nat /\ (t = 0 <=> ItemsIn(A) = {})
  <2>1. IsFiniteSet(ItemsIn(A)) /\ ItemsIn(A) \in SUBSET ItemIds
    BY <1>2, <1>5 DEF HistoryInv, TotalsInv, IInv, ItemsFinite, TypeOK
  <2>2. QED
    BY <1>9, <2>1 DEF Orderly, Exact, TotalsFit
<1>11. UpdateOrderStatus(views[o], TypeOf(c), t, n) = ViewOf(A)
  <2>1. ViewOf(A) = [status |-> IF TypeOf(c) = "OrderConfirmed" THEN "CONFIRMED" ELSE "DRAFT",
                     total |-> t, count |-> n]
    BY <1>1, <1>2, <1>4, <1>9 DEF ViewOf
  <2>2. TypeOf(c) # "OrderConfirmed" => views[o].status = "DRAFT"
    BY <1>2, <1>4, <1>6, <1>7, ViewAfterEvent
  <2>3. t = 0 => views[o].total = 0
    <3>1. t = 0 => ItemsIn(S) = ItemsIn(A)
      <4>1. ItemsIn(D) \subseteq ItemsIn(A)
        BY <1>4 DEF ItemsIn
      <4>2. QED
        BY <1>6, <1>10, <4>1
    <3>2. views[o].total = TotalAmount(ItemsIn(S))
      BY <1>6, <1>7, ViewAfterEvent
    <3>3. QED
      BY <1>9, <3>1, <3>2
  <2>4. QED
    BY <1>10, <2>1, <2>2, <2>3 DEF UpdateOrderStatus
<1>12. /\ views' = [views EXCEPT ![o] = ViewOf(A)]
       /\ at' = [at EXCEPT ![c] = "findMark"]
       /\ UNCHANGED <<itemViews, processed, event>>
  BY <1>2, <1>4, <1>8, <1>11 DEF UpdateView, Goto
<1>13. /\ views'[o] = ViewOf(A) /\ itemViews'[o] = ItemsIn(A)
       /\ \A p \in OrderIds \ {o} : views'[p] = views[p] /\ itemViews'[p] = itemViews[p]
  BY <1>5, <1>12 DEF HistoryInv, TotalsInv, IInv, TypeOK
<1>14. /\ at'[c] = "findMark" /\ event'[c] = event[c] /\ TypeOf(c)' = TypeOf(c) /\ OrderOf(c)' = OrderOf(c)
       /\ Prior(event[c])' /\ After(c)' = After(c) /\ Reached(o)' = Reached(o)
       /\ \A T : ViewOf(T)' = ViewOf(T) /\ ItemsIn(T)' = ItemsIn(T)
  BY <1>1, <1>2, <1>12, WorkGoesOn DEF HistoryInv, TotalsInv, IInv, TypeOK
<1>15. Shown(o)'
  <2>1. A \in Reached(o)'
    BY <1>4, <1>14
  <2>2. views'[o] = ViewOf(A)' /\ itemViews'[o] = ItemsIn(A)'
    BY <1>13, <1>14
  <2>3. QED
    BY <2>1, <2>2 DEF Shown
<1>16. Consistent(c)'
  BY <1>2, <1>3, <1>13, <1>14 DEF Consistent
<1>17. QED
  BY <1>12, <1>13, <1>15, <1>16, WriteHistoryInv

\* The mark: what was next is done.
LEMMA WriteMarkHistoryInv ==
  ASSUME Orderly, HistoryInv, TotalsInv', NEW c \in Consumers, WriteMark(c)
  PROVE  HistoryInv'
<1>1. PICK o \in OrderIds, e \in LogIds :
         /\ o = OrderOf(c) /\ e = event[c] /\ Log[e].order = o /\ e \in EventsOf(o)
         /\ e \notin processed /\ Prior(e) /\ After(c) = Done(o) \cup {e}
  BY WorkingOnNext DEF WriteMark, IsNext, OrderOf, After
<1>2. /\ at[c] = "writeMark" /\ at' = [at EXCEPT ![c] = "ok"] /\ event' = event
      /\ processed' = processed \cup {e}
      /\ UNCHANGED <<views, itemViews>>
  BY <1>1 DEF WriteMark, Goto
<1>3. Done(o)' = After(c) /\ \A p \in OrderIds \ {o} : Done(p)' = Done(p)
  BY <1>1, <1>2 DEF Done, EventsOf, LogIds
<1>4. \A S : ViewOf(S)' = ViewOf(S) /\ ItemsIn(S)' = ItemsIn(S)
  BY DEF ViewOf, ItemsIn
<1>5. Shown(o)'
  <2>1. views'[o] = ViewOf(After(c)) /\ itemViews'[o] = ItemsIn(After(c))
    BY <1>1, <1>2 DEF HistoryInv, Consistent, Marking
  <2>2. After(c) \in Reached(o)'
    BY <1>3 DEF Reached
  <2>3. QED
    BY <1>4, <2>1, <2>2 DEF Shown
<1>6. ASSUME NEW p \in OrderIds \ {o}
      PROVE  Shown(p)'
  <2>1. ASSUME NEW d \in EventsOf(p)
        PROVE  IsNext(d)' <=> IsNext(d)
    <3>1. d \in LogIds /\ Log[d].order = p /\ d # e
      BY <1>1 DEF EventsOf
    <3>2. e \notin EventsOf(p)
      BY <1>1 DEF EventsOf
    <3>3. QED
      BY <1>2, <3>1, <3>2 DEF IsNext, Prior, EventsOf, LogIds
  <2>2. Reached(p)' = Reached(p)
    BY <1>3, <2>1 DEF Reached, EventsOf, LogIds
  <2>3. QED
    BY <1>2, <1>4, <2>2 DEF HistoryInv, Shown
<1>7. \A d \in processed' : Prior(d)'
  BY <1>1, <1>2 DEF HistoryInv, Prior, EventsOf, LogIds
<1>8. Consistent(c)'
  <2>1. at'[c] = "ok" /\ event'[c] = e /\ Prior(e)'
    BY <1>1, <1>2 DEF HistoryInv, TotalsInv, IInv, TypeOK, Prior, EventsOf, LogIds
  <2>2. QED
    BY <2>1 DEF Consistent, Prior, ItemWritten, Marking
<1>9. \A d \in Consumers : Consistent(d)'
  BY <1>8 DEF Orderly, Exact
<1>10. QED
  BY <1>5, <1>6, <1>7, <1>9 DEF HistoryInv

LEMMA InitHistoryInv == Orderly /\ Init => HistoryInv
<1> SUFFICES ASSUME Orderly, Init PROVE HistoryInv
  OBVIOUS
<1>1. TotalsInv
  BY InitTotalsInv DEF Orderly
<1>2. ASSUME NEW o \in OrderIds
      PROVE  Shown(o)
  <2>1. Done(o) = {} /\ Done(o) \in Reached(o)
    BY DEF Init, Done, Reached
  <2>2. views[o] = ViewOf({}) /\ itemViews[o] = ItemsIn({})
    BY DEF Init, ViewOf, ItemsIn
  <2>3. QED
    BY <2>1, <2>2 DEF Shown
<1>3. \A c \in Consumers : Consistent(c)
  BY DEF Init, Consistent, ItemWritten, Marking
<1>4. \A e \in processed : Prior(e)
  BY DEF Init
<1>5. QED
  BY <1>1, <1>2, <1>3, <1>4 DEF HistoryInv

LEMMA NextHistoryInv ==
  ASSUME Orderly, HistoryInv, [Next]_vars,
         \A c \in Consumers, e \in LogIds : Handle(c, e) => Prior(e)
  PROVE  HistoryInv'
<1>t. TotalsInv'
  BY NextTotalsInv DEF Orderly, HistoryInv
<1>1. CASE UNCHANGED vars
  <2>1. UNCHANGED <<views, itemViews, processed, at, event, memory>> /\ UNCHANGED readModel
    BY <1>1 DEF vars, readModel
  <2>2. ASSUME NEW c \in Consumers
        PROVE  Consistent(c)'
    BY <2>1 DEF HistoryInv, Consistent, Prior, After, Done, ViewOf, ItemsIn, OrderOf, TypeOf, EventsOf,
                LogIds
  <2>3. QED
    BY <1>t, <2>1, <2>2, ReadHistoryInv
<1>2. CASE Next
  <2>1. PICK c \in Consumers : \/ \E e \in LogIds : Handle(c, e) /\ Prior(e)
                               \/ Statement(c) \/ Failure(c) \/ Return(c) \/ Abort(c)
    BY <1>2 DEF Next
  <2>2. ~Failure(c)
    BY DEF Failure, CountFails, StatementFails, Orderly
  <2>3. CASE WriteView(c) \/ WriteItem(c) \/ UpdateView(c) \/ WriteMark(c)
    BY <1>t, <2>3, WriteViewHistoryInv, WriteItemHistoryInv, UpdateViewHistoryInv, WriteMarkHistoryInv
  <2>4. CASE \/ CheckProcessed(c) \/ FindView(c) \/ FindItem(c) \/ GetOrder(c) \/ GetItems(c)
             \/ CountItems(c) \/ FindMark(c) \/ Return(c) \/ Abort(c)
             \/ \E e \in LogIds : Handle(c, e) /\ Prior(e)
    <3>1. UNCHANGED readModel
      BY <2>4 DEF CheckProcessed, FindView, FindItem, GetOrder, GetItems, CountItems, FindMark, Return,
                  Abort, Leave, Handle, ReturnError
    <3>2. Consistent(c)'
      BY <2>4, ReadConsistent
    <3>3. \A d \in Consumers : Consistent(d)'
      BY <3>2 DEF Orderly, Exact
    <3>4. QED
      BY <1>t, <3>1, <3>3, ReadHistoryInv
  <2>5. QED
    BY <2>1, <2>2, <2>3, <2>4 DEF Statement
<1>3. QED
  BY <1>1, <1>2

\* When all events of an order are processed, its view is the order.
LEMMA AllDoneIsShown ==
  ASSUME HistoryInv, NEW o \in OrderIds, EventsOf(o) \subseteq processed
  PROVE  views[o] = ViewOf(EventsOf(o)) /\ itemViews[o] = ItemsIn(EventsOf(o))
<1>1. Reached(o) = {EventsOf(o)}
  BY DEF Reached, Done, IsNext
<1>2. QED
  BY <1>1 DEF HistoryInv, Shown

\* A view changes only from the order before its next event to that after it.
LEMMA ViewsAdvance ==
  ASSUME Orderly, HistoryInv, HistoryInv', [Next]_vars
  PROVE  \/ views' = views
         \/ \E o \in OrderIds : \E e \in EventsOf(o) :
               /\ IsNext(e)
               /\ views[o] = ViewOf(Done(o))
               /\ views' = [views EXCEPT ![o] = ViewOf(Done(o) \cup {e})]
<1>1. CASE views' = views
  BY <1>1
<1>2. CASE views' # views
  <2>1. PICK c \in Consumers : (WriteView(c) \/ UpdateView(c)) /\ ~ReturnError(c)
    BY <1>2 DEF Next, vars, readModel, Handle, Statement, CheckProcessed, FindView, WriteView, FindItem,
                WriteItem, GetOrder, GetItems, CountItems, UpdateView, FindMark, WriteMark, Failure,
                CountFails, StatementFails, Return, Abort, Leave, ReturnError
  <2>2. /\ at[c] \notin {"idle", "check", "ok", "error"} /\ event' = event /\ processed' = processed
        /\ at' = [at EXCEPT ![c] = "findMark"]
    BY <2>1 DEF WriteView, UpdateView, Goto
  <2>3. PICK o \in OrderIds, e \in LogIds : o = OrderOf(c) /\ e = event[c]
    BY <2>2, WorkingOnNext
  <2>4. e \in EventsOf(o) /\ IsNext(e) /\ After(c) = Done(o) \cup {e} /\ Reached(o) = {Done(o), After(c)}
    BY <2>2, <2>3, WorkingOnNext DEF After
  <2>5. views'[o] = ViewOf(After(c))
    <3>1. OrderOf(c)' = o /\ After(c)' = After(c) /\ \A S : ViewOf(S)' = ViewOf(S)
      BY <2>2, <2>3, WorkGoesOn
    <3>2. at'[c] = "findMark"
      BY <2>2 DEF HistoryInv, TotalsInv, IInv, TypeOK
    <3>3. QED
      BY <3>1, <3>2 DEF HistoryInv, Consistent, Marking
  <2>6. views' = [views EXCEPT ![o] = views'[o]]
    <3>1. \A p \in OrderIds \ {o} : views'[p] = views[p]
      BY <2>1, <2>3 DEF WriteView, UpdateView, HistoryInv, TotalsInv, IInv, TypeOK
    <3>2. views \in [OrderIds -> Views \cup {NoView}] /\ views' \in [OrderIds -> Views \cup {NoView}]
      BY DEF HistoryInv, TotalsInv, IInv, TypeOK
    <3>3. QED
      BY <3>1, <3>2
  <2>7. views[o] = ViewOf(Done(o))
    <3>1. views[o] \in {ViewOf(Done(o)), ViewOf(After(c))}
      BY <2>4 DEF HistoryInv, Shown
    <3>2. views[o] # views'[o]
      BY <1>2, <2>6 DEF HistoryInv, TotalsInv, IInv, TypeOK
    <3>3. QED
      BY <2>5, <3>1, <3>2
  <2>8. ViewOf(After(c)) = ViewOf(Done(o) \cup {e})
    BY <2>4
  <2>9. views' = [views EXCEPT ![o] = ViewOf(Done(o) \cup {e})]
    BY <2>5, <2>6, <2>8
  <2>10. QED
    BY <2>4, <2>7, <2>9
<1>3. QED
  BY <1>1, <1>2

\* The events that are processed are the first of their order, and so are they
\* with the next.
LEMMA ReachedIsPrefix ==
  ASSUME HistoryInv, NEW o \in OrderIds, NEW S \in Reached(o)
  PROVE  /\ S \subseteq EventsOf(o)
         /\ \A e \in S : \A d \in EventsOf(o) : d < e => d \in S
  BY DEF HistoryInv, Reached, Done, IsNext, Prior, EventsOf
=============================================================================
