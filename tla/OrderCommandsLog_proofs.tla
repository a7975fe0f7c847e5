---------------------- MODULE OrderCommandsLog_proofs ----------------------
(***************************************************************************)
(* Proofs about the outbox of OrderCommands, for any orders, items, prices *)
(* and handlers: the log tells of every state, in order and once, and the  *)
(* write side implements TransactionalOutbox.                              *)
(*                                                                         *)
(* They rest on the invariant of OrderCommands_proofs and on a second one: *)
(* a handler carries the event of its command along with the aggregate it  *)
(* belongs to, and nobody else has logged or is going to log that event,   *)
(* as the identifier it introduces was drawn for this request.             *)
(***************************************************************************)
EXTENDS OrderCommandsHistory, OrderCommands_proofs

\* The event of the command a handler serves.
CommandEvent(h) ==
    CASE cmd[h].op = "create"  -> NewOrderCreated(cmd[h].order)
      [] cmd[h].op = "add"     -> NewOrderItemAdded(cmd[h].order, cmd[h].item)
      [] cmd[h].op = "confirm" -> NewOrderConfirmed(cmd[h].order, TotalAmount(agg[h].items))

\* What the aggregate is like once the command was applied to it.
CommandApplied(h) == pc[h] \in Applied =>
    /\ agg[h].raised = <<CommandEvent(h)>>
    /\ cmd[h].op = "create" => agg[h].status = "DRAFT" /\ agg[h].items = {}
    /\ cmd[h].op = "add" => agg[h].status = "DRAFT" /\ cmd[h].item \in agg[h].items
    /\ cmd[h].op = "confirm" => agg[h].status = "CONFIRMED" /\ agg[h].items # {}

EventsOfAggregate(h) == pc[h] = "commit" => tx[h].events = agg[h].raised

\* Which statements a handler may be at, and that its order exists.
PlaceOfCommand(h) ==
    /\ pc[h] = "create" => cmd[h].op = "create"
    /\ pc[h] \in {"find", "items", "apply"} => cmd[h].op # "create"
    /\ pc[h] \in Loaded /\ cmd[h].op # "create" => orders[cmd[h].order] # NoRow

\* The items a handler has in memory were announced, but for the one it adds.
ItemsAnnounced(h) == pc[h] \in {"apply"} \cup Applied =>
    \A i \in agg[h].items :
        \/ Logged(NewOrderItemAdded(cmd[h].order, i))
        \/ pc[h] \in Applied /\ cmd[h].op = "add" /\ i = cmd[h].item

InMemory(h) ==
    CommandApplied(h) /\ EventsOfAggregate(h) /\ PlaceOfCommand(h) /\ ItemsAnnounced(h)

\* The order or the item that a request introduces is its own.
OwnOrder(h) == pc[h] # "idle" /\ cmd[h].op = "create" =>
    /\ orders[cmd[h].order] = NoRow
    /\ \A g \in Handlers \ {h} :
          pc[g] # "idle" /\ cmd[g].op = "create" => cmd[g].order # cmd[h].order

OwnItem(h) == pc[h] # "idle" /\ cmd[h].op = "add" =>
    /\ \A n \in DOMAIN outbox :
          outbox[n].type = "OrderItemAdded" => outbox[n].item # cmd[h].item
    /\ \A g \in Handlers \ {h} : pc[g] # "idle" => cmd[g].item # cmd[h].item

\* The tables of an order that does not exist know nothing of it.
AbsentIsUnknown ==
    \A o \in OrderIds : orders[o] = NoRow =>
        /\ orderItems[o] = {}
        /\ \A n \in DOMAIN outbox : outbox[n].order # o

\* AnsweredWasLogged, for one handler.
Answered(h) == resp[h] \in {200, 201} =>
    /\ cmd[h].op = "create"  => Logged(NewOrderCreated(cmd[h].order))
    /\ cmd[h].op = "add"     => Logged(NewOrderItemAdded(cmd[h].order, cmd[h].item))
    /\ cmd[h].op = "confirm" => \E t \in Amounts : Logged(NewOrderConfirmed(cmd[h].order, t))

LInv ==
    /\ \A h \in Handlers : InMemory(h) /\ OwnOrder(h) /\ OwnItem(h)
    /\ AbsentIsUnknown
    /\ StateWasAnnounced
    /\ LogWellFormed
    /\ \A h \in Handlers : Answered(h)

-----------------------------------------------------------------------------
(* Lemmas about the events and the log.                                    *)

\* The fields by which events are told apart.
LEMMA EventFields ==
  ASSUME NEW o, NEW x
  PROVE  /\ NewOrderCreated(o).type = "OrderCreated"
         /\ NewOrderCreated(o).order = o
         /\ NewOrderItemAdded(o, x).type = "OrderItemAdded"
         /\ NewOrderItemAdded(o, x).order = o
         /\ NewOrderItemAdded(o, x).item = x
         /\ NewOrderConfirmed(o, x).type = "OrderConfirmed"
         /\ NewOrderConfirmed(o, x).order = o
         /\ NewOrderConfirmed(o, x).total = x
  BY DEF NewOrderCreated, NewOrderItemAdded, NewOrderConfirmed

\* The log grows by one event: what was logged stays, and the event is new.
LEMMA LogGrows ==
  ASSUME outbox \in Seq(Events), NEW e \in Events, outbox' = outbox \o <<e>>
  PROVE  /\ Len(outbox) \in Nat
         /\ DOMAIN outbox = 1 .. Len(outbox)
         /\ DOMAIN outbox' = 1 .. Len(outbox) + 1
         /\ \A n \in DOMAIN outbox : outbox'[n] = outbox[n]
         /\ outbox'[Len(outbox) + 1] = e
<1>1. <<e>> \in Seq(Events)
  OBVIOUS
<1>2. outbox' \in Seq(Events) /\ Len(outbox') = Len(outbox) + 1
  BY <1>1, ConcatProperties
<1>3. \A n \in 1 .. Len(outbox) : outbox'[n] = outbox[n]
  BY <1>1, ConcatProperties
<1>4. outbox'[Len(outbox) + 1] = e
  BY <1>1, ConcatProperties
<1>5. QED
  BY <1>2, <1>3, <1>4

LEMMA LoggedGrows ==
  ASSUME outbox \in Seq(Events), NEW e \in Events, outbox' = outbox \o <<e>>
  PROVE  /\ \A x : Logged(x) => Logged(x)'
         /\ Logged(e)'
<1>1. /\ Len(outbox) \in Nat
      /\ DOMAIN outbox = 1 .. Len(outbox)
      /\ DOMAIN outbox' = 1 .. Len(outbox) + 1
      /\ \A n \in DOMAIN outbox : outbox'[n] = outbox[n]
      /\ outbox'[Len(outbox) + 1] = e
  BY LogGrows
<1>2. ASSUME NEW x, Logged(x)
      PROVE  Logged(x)'
  <2>1. PICK n \in DOMAIN outbox : outbox[n] = x
    BY <1>2 DEF Logged
  <2>2. n \in DOMAIN outbox' /\ outbox'[n] = x
    BY <1>1, <2>1
  <2>3. QED
    BY <2>2 DEF Logged
<1>3. Len(outbox) + 1 \in DOMAIN outbox'
  BY <1>1
<1>4. QED
  BY <1>1, <1>2, <1>3 DEF Logged

\* What holds of a handler that does not move stays, whatever others commit.
LEMMA InMemoryKept ==
  ASSUME NEW g \in Handlers, InMemory(g),
         pc'[g] = pc[g], cmd'[g] = cmd[g], agg'[g] = agg[g], tx'[g] = tx[g],
         \A x : Logged(x) => Logged(x)',
         orders[cmd[g].order] # NoRow => orders'[cmd[g].order] # NoRow
  PROVE  InMemory(g)'
<1>1. CommandEvent(g)' = CommandEvent(g)
  BY DEF CommandEvent
<1>2. CommandApplied(g)'
  BY <1>1 DEF InMemory, CommandApplied
<1>3. EventsOfAggregate(g)'
  BY DEF InMemory, EventsOfAggregate
<1>4. PlaceOfCommand(g)'
  BY DEF InMemory, PlaceOfCommand
<1>5. ItemsAnnounced(g)'
  BY DEF InMemory, ItemsAnnounced, Logged, NewOrderItemAdded
<1>6. QED
  BY <1>2, <1>3, <1>4, <1>5 DEF InMemory

\* What is not logged can only come with a new answer.
LEMMA AnsweredKept ==
  ASSUME NEW g \in Handlers, Answered(g), resp'[g] \in {200, 201} => resp'[g] = resp[g] /\ cmd'[g] = cmd[g],
         \A x : Logged(x) => Logged(x)'
  PROVE  Answered(g)'
<1> SUFFICES ASSUME resp'[g] \in {200, 201}, cmd'[g] = cmd[g], resp[g] \in {200, 201}
             PROVE  Answered(g)'
  BY DEF Answered
<1>1. QED
  BY DEF Answered, Logged, NewOrderCreated, NewOrderItemAdded, NewOrderConfirmed

\* When the tables do not change, neither does what they say.
LEMMA TablesKept ==
  ASSUME LInv, UNCHANGED <<orders, orderItems, outbox>>
  PROVE  /\ \A x : Logged(x)' <=> Logged(x)
         /\ (AbsentIsUnknown /\ StateWasAnnounced /\ LogWellFormed)'
  BY DEF LInv, AbsentIsUnknown, StateWasAnnounced, LogWellFormed, Logged

-----------------------------------------------------------------------------
(* Steps that write nothing.                                               *)

\* A statement of h changes only what h has in memory.
LEMMA LocalStepLInv ==
  ASSUME IInv, LInv, NEW h \in Handlers, NEW label, label # "idle", pc[h] # "idle",
         pc' = [pc EXCEPT ![h] = label],
         UNCHANGED <<orders, orderItems, outbox, cmd, resp>>,
         \A g \in Handlers \ {h} : agg'[g] = agg[g] /\ tx'[g] = tx[g],
         InMemory(h)'
  PROVE  LInv'
<1>1. pc \in [Handlers -> InTransaction \cup {"idle"}]
  BY DEF IInv, TypeOK
<1>2. \A g \in Handlers : /\ g # h => pc'[g] = pc[g] /\ agg'[g] = agg[g] /\ tx'[g] = tx[g]
                          /\ pc'[g] # "idle" <=> pc[g] # "idle"
  BY <1>1
<1>3. ASSUME NEW g \in Handlers
      PROVE  InMemory(g)'
  <2>1. CASE g = h
    BY <2>1
  <2>2. CASE g # h
    BY <1>2, <2>2, TablesKept, InMemoryKept DEF LInv
  <2>3. QED
    BY <2>1, <2>2
<1>4. ASSUME NEW g \in Handlers
      PROVE  OwnOrder(g)' /\ OwnItem(g)'
  BY <1>2 DEF LInv, OwnOrder, OwnItem
<1>5. (AbsentIsUnknown /\ StateWasAnnounced /\ LogWellFormed)'
  BY TablesKept
<1>6. \A g \in Handlers : Answered(g)'
  BY TablesKept, AnsweredKept DEF LInv
<1>7. QED
  BY <1>3, <1>4, <1>5, <1>6 DEF LInv

\* A request ends without having written, and without success.
LEMMA RollbackLInv ==
  ASSUME IInv, LInv, NEW h \in Handlers, NEW status, status \notin {200, 201}, Rollback(h, status)
  PROVE  LInv'
<1>1. /\ pc' = [pc EXCEPT ![h] = "idle"]
      /\ agg' = [agg EXCEPT ![h] = NoAggregate]
      /\ tx' = [tx EXCEPT ![h] = NoWrites]
      /\ resp' = [resp EXCEPT ![h] = status]
      /\ UNCHANGED <<orders, orderItems, outbox, cmd>>
  BY DEF Rollback, Respond, db
<1>2. \A g \in Handlers : IF g = h THEN pc'[g] = "idle" /\ resp'[g] = status
                          ELSE /\ pc'[g] = pc[g] /\ agg'[g] = agg[g]
                               /\ tx'[g] = tx[g] /\ resp'[g] = resp[g]
  BY <1>1 DEF IInv, TypeOK
<1>3. ASSUME NEW g \in Handlers
      PROVE  InMemory(g)'
  <2>1. CASE g = h
    BY <1>2, <2>1 DEF InMemory, CommandApplied, EventsOfAggregate, PlaceOfCommand, ItemsAnnounced,
                      Applied, Loaded
  <2>2. CASE g # h
    BY <1>1, <1>2, <2>2, TablesKept, InMemoryKept DEF LInv
  <2>3. QED
    BY <2>1, <2>2
<1>4. ASSUME NEW g \in Handlers
      PROVE  OwnOrder(g)' /\ OwnItem(g)'
  BY <1>1, <1>2 DEF LInv, OwnOrder, OwnItem
<1>5. (AbsentIsUnknown /\ StateWasAnnounced /\ LogWellFormed)'
  BY <1>1, TablesKept
<1>6. \A g \in Handlers : Answered(g)'
  BY <1>1, <1>2, TablesKept, AnsweredKept DEF LInv
<1>7. QED
  BY <1>3, <1>4, <1>5, <1>6 DEF LInv

\* A request is received, or answered at once: the identifier it introduces
\* is nobody else's.
LEMMA ReceiveLInv ==
  ASSUME IInv, LInv, NEW h \in Handlers, Receive(h) \/ Reject(h)
  PROVE  LInv'
<1>1. PICK c \in Commands : Fresh(c) /\ cmd' = [cmd EXCEPT ![h] = c]
  BY DEF Receive, Reject
<1>2. /\ pc[h] = "idle"
      /\ UNCHANGED <<orders, orderItems, outbox, agg, tx>>
      /\ resp' \in {[resp EXCEPT ![h] = 0], [resp EXCEPT ![h] = 400], [resp EXCEPT ![h] = 500]}
  BY DEF Receive, Reject, db, MapError
<1>3. /\ cmd \in [Handlers -> Commands]
      /\ pc \in [Handlers -> InTransaction \cup {"idle"}]
      /\ resp \in [Handlers -> Answers]
  BY DEF IInv, TypeOK
<1>4. \A g \in Handlers : g # h => pc'[g] = pc[g] /\ cmd'[g] = cmd[g] /\ resp'[g] = resp[g]
  BY <1>1, <1>2, <1>3 DEF Receive, Reject, Goto
<1>5. cmd'[h] = c /\ resp'[h] \notin {200, 201}
  BY <1>1, <1>2, <1>3
<1>6. \/ pc'[h] = "idle"
      \/ pc'[h] = "create" /\ cmd'[h].op = "create"
      \/ pc'[h] = "find" /\ cmd'[h].op # "create"
  <2>1. CASE Reject(h)
    BY <1>2, <2>1 DEF Reject
  <2>2. CASE Receive(h)
    BY <1>3, <2>2 DEF Receive, Goto
  <2>3. QED
    BY <2>1, <2>2
<1>7. ASSUME NEW g \in Handlers
      PROVE  InMemory(g)'
  <2>1. CASE g = h
    BY <1>6, <2>1 DEF InMemory, CommandApplied, EventsOfAggregate, PlaceOfCommand, ItemsAnnounced,
                      Applied, Loaded
  <2>2. CASE g # h
    BY <1>2, <1>4, <2>2, TablesKept, InMemoryKept DEF LInv
  <2>3. QED
    BY <2>1, <2>2
<1>8. ASSUME NEW g \in Handlers
      PROVE  OwnOrder(g)'
  <2>1. CASE g = h
    BY <1>1, <1>2, <1>4, <1>5, <2>1 DEF OwnOrder, Fresh, FreshOrder
  <2>2. CASE g # h
    BY <1>1, <1>2, <1>4, <1>5, <2>2 DEF LInv, OwnOrder, Fresh, FreshOrder
  <2>3. QED
    BY <2>1, <2>2
<1>9. ASSUME NEW g \in Handlers
      PROVE  OwnItem(g)'
  <2>1. CASE g = h
    BY <1>1, <1>2, <1>4, <1>5, <2>1 DEF OwnItem, Fresh, FreshItem
  <2>2. CASE g # h
    <3> SUFFICES ASSUME pc[g] # "idle", cmd[g].op = "add"
                 PROVE  OwnItem(g)'
      BY <1>4, <2>2 DEF OwnItem
    <3>1. cmd[g].item \in ItemIds
      BY <1>3 DEF Commands
    <3>2. c.item # cmd[g].item
      BY <1>1, <3>1, NoItemAssumption DEF Fresh, FreshItem, Commands
    <3>3. QED
      BY <1>2, <1>4, <1>5, <2>2, <3>2 DEF LInv, OwnItem
  <2>3. QED
    BY <2>1, <2>2
<1>10. (AbsentIsUnknown /\ StateWasAnnounced /\ LogWellFormed)'
  BY <1>2, TablesKept
<1>11. \A g \in Handlers : Answered(g)'
  BY <1>2, <1>4, <1>5, TablesKept, AnsweredKept DEF LInv
<1>12. QED
  BY <1>7, <1>8, <1>9, <1>10, <1>11 DEF LInv

-----------------------------------------------------------------------------
(* The step that writes.                                                   *)

\* The total of what a handler has in memory is an amount.
LEMMA TotalIsAmount ==
  ASSUME IInv, NEW h \in Handlers
  PROVE  TotalAmount(agg[h].items) \in Amounts
<1>1. agg[h].items \in SUBSET ItemIds
  BY DEF IInv, TypeOK, Aggregates, NoAggregate
<1>2. QED
  BY <1>1 DEF Amounts

\* The event of a command that was applied is an event of its order.
LEMMA CommandEventType ==
  ASSUME IInv, NEW h \in Handlers
  PROVE  /\ CommandEvent(h) \in Events
         /\ CommandEvent(h).order = cmd[h].order
         /\ CommandEvent(h).type = "OrderCreated" <=> cmd[h].op = "create"
         /\ CommandEvent(h).type = "OrderItemAdded" <=> cmd[h].op = "add"
         /\ cmd[h].op = "add" => CommandEvent(h).item = cmd[h].item
<1> DEFINE c == cmd[h]
<1>1. c \in Commands /\ c.order \in OrderIds
  BY DEF IInv, TypeOK, Commands
<1>2. CASE c.op = "create"
  BY <1>1, <1>2, EventTypes, EventFields DEF CommandEvent
<1>3. CASE c.op = "add"
  <2>1. c.item \in ItemIds
    BY <1>1, <1>3 DEF Commands
  <2>2. QED
    BY <1>1, <1>3, <2>1, EventTypes, EventFields DEF CommandEvent
<1>4. CASE c.op = "confirm"
  <2>1. CommandEvent(h) = NewOrderConfirmed(c.order, TotalAmount(agg[h].items))
    BY <1>4 DEF CommandEvent
  <2>2. TotalAmount(agg[h].items) \in Amounts
    BY TotalIsAmount
  <2>3. QED
    BY <1>1, <1>4, <2>1, <2>2, EventTypes, EventFields
<1>5. QED
  BY <1>1, <1>2, <1>3, <1>4 DEF Commands

\* COMMIT appends the event of the command.
LEMMA CommitLogs ==
  ASSUME IInv, LInv, NEW h \in Handlers, pc[h] = "commit", ApplyWrites(h)
  PROVE  /\ outbox \in Seq(Events)
         /\ outbox' = outbox \o <<CommandEvent(h)>>
         /\ CommandEvent(h) \in Events
         /\ \A x : Logged(x) => Logged(x)'
         /\ \E n \in DOMAIN outbox' : outbox'[n] = CommandEvent(h)
         /\ \A n \in DOMAIN outbox : n \in DOMAIN outbox' /\ outbox'[n] = outbox[n]
         /\ \A n \in DOMAIN outbox' : n \in DOMAIN outbox \/ outbox'[n] = CommandEvent(h)
         /\ \A m, n \in DOMAIN outbox' : m \in DOMAIN outbox /\ n \notin DOMAIN outbox => m <= n
         /\ \A m, n \in DOMAIN outbox' : m \notin DOMAIN outbox /\ n \notin DOMAIN outbox => m <= n /\ m = n
<1> DEFINE e == CommandEvent(h)
<1>1. outbox \in Seq(Events) /\ e \in Events
  BY CommandEventType DEF IInv, TypeOK
<1>2. agg[h].raised = <<e>>
  BY DEF LInv, InMemory, CommandApplied, Applied
<1>3. tx[h].events = agg[h].raised
  BY DEF LInv, InMemory, EventsOfAggregate
<1>4. outbox' = outbox \o <<e>>
  BY <1>2, <1>3, CommitWrites
<1> HIDE DEF e
<1>5. /\ Len(outbox) \in Nat
      /\ DOMAIN outbox = 1 .. Len(outbox)
      /\ DOMAIN outbox' = 1 .. Len(outbox) + 1
      /\ \A n \in DOMAIN outbox : outbox'[n] = outbox[n]
      /\ outbox'[Len(outbox) + 1] = e
  BY <1>1, <1>4, LogGrows
<1>6. \A x : Logged(x) => Logged(x)'
  BY <1>1, <1>4, LoggedGrows
<1>7. \E n \in DOMAIN outbox' : outbox'[n] = e
  BY <1>5
<1>8. QED
  BY <1>1, <1>4, <1>5, <1>6, <1>7 DEF e

\* COMMIT makes the state and the log move together.
LEMMA CommitLInv ==
  ASSUME IInv, LInv, NEW h \in Handlers, pc[h] = "commit", ApplyWrites(h),
         NEW status, status \in {200, 201} => status = Success(cmd[h].op), Respond(h, status)
  PROVE  LInv'
<1> DEFINE o == cmd[h].order
<1> DEFINE e == CommandEvent(h)
<1>1. /\ pc' = [pc EXCEPT ![h] = "idle"]
      /\ agg' = [agg EXCEPT ![h] = NoAggregate]
      /\ tx' = [tx EXCEPT ![h] = NoWrites]
      /\ resp' = [resp EXCEPT ![h] = status]
      /\ cmd' = cmd
  BY DEF Respond
<1>2. \A g \in Handlers : IF g = h THEN pc'[g] = "idle" /\ resp'[g] = status
                          ELSE /\ pc'[g] = pc[g] /\ agg'[g] = agg[g]
                               /\ tx'[g] = tx[g] /\ resp'[g] = resp[g]
  BY <1>1 DEF IInv, TypeOK
<1>3. /\ o \in OrderIds /\ tx[h].row \in Rows
      /\ orders' = [orders EXCEPT ![o] = tx[h].row]
      /\ orderItems' = [orderItems EXCEPT ![o] = agg[h].items]
      /\ tx[h].row.status = agg[h].status
      /\ tx[h].row.total = TotalAmount(agg[h].items)
  BY CommitWrites
<1>4. \A p \in OrderIds : IF p = o THEN /\ orders'[p] = tx[h].row /\ orders'[p] # NoRow
                                        /\ orderItems'[p] = agg[h].items
                          ELSE orders'[p] = orders[p] /\ orderItems'[p] = orderItems[p]
  BY <1>3, AbsentIsNeither DEF IInv, TypeOK
<1>5. \A g \in Handlers : cmd[g] \in Commands /\ cmd[g].order \in OrderIds
  BY DEF IInv, TypeOK, Commands
<1>6. /\ \A x : Logged(x) => Logged(x)'
      /\ \A n \in DOMAIN outbox : n \in DOMAIN outbox' /\ outbox'[n] = outbox[n]
      /\ \A n \in DOMAIN outbox' : n \in DOMAIN outbox \/ outbox'[n] = e
      /\ \A m, n \in DOMAIN outbox' : m \in DOMAIN outbox /\ n \notin DOMAIN outbox => m <= n
      /\ \A m, n \in DOMAIN outbox' : m \notin DOMAIN outbox /\ n \notin DOMAIN outbox => m <= n /\ m = n
  BY CommitLogs
<1>7. /\ e.order = o
      /\ e.type = "OrderCreated" <=> cmd[h].op = "create"
      /\ e.type = "OrderItemAdded" <=> cmd[h].op = "add"
      /\ cmd[h].op = "add" => e.item = cmd[h].item
  BY CommandEventType
<1>8. \E n \in DOMAIN outbox' : outbox'[n] = e
  BY CommitLogs
<1>9. /\ InMemory(h) /\ OwnOrder(h) /\ OwnItem(h)
      /\ cmd[h].op # "create" => orders[o] # NoRow
      /\ cmd[h].op = "create" => orders[o] = NoRow
  BY DEF LInv, InMemory, PlaceOfCommand, OwnOrder, Loaded
<1> HIDE DEF e
<1>10. ASSUME NEW g \in Handlers
       PROVE  InMemory(g)'
  <2>1. CASE g = h
    BY <1>2, <2>1 DEF InMemory, CommandApplied, EventsOfAggregate, PlaceOfCommand, ItemsAnnounced,
                      Applied, Loaded
  <2>2. CASE g # h
    <3>1. orders[cmd[g].order] # NoRow => orders'[cmd[g].order] # NoRow
      BY <1>4, <1>5
    <3>2. QED
      BY <1>1, <1>2, <1>6, <2>2, <3>1, InMemoryKept DEF LInv
  <2>3. QED
    BY <2>1, <2>2
<1>11. ASSUME NEW g \in Handlers
       PROVE  OwnOrder(g)'
  <2> SUFFICES ASSUME g # h, pc[g] # "idle", cmd[g].op = "create"
               PROVE  OwnOrder(g)'
    BY <1>1, <1>2 DEF OwnOrder
  <2>1. OwnOrder(g)
    BY DEF LInv
  <2>2. cmd[g].order # o
    BY <1>9, <2>1 DEF OwnOrder
  <2>3. QED
    BY <1>1, <1>2, <1>4, <1>5, <2>1, <2>2 DEF OwnOrder
<1>12. ASSUME NEW g \in Handlers
       PROVE  OwnItem(g)'
  <2> SUFFICES ASSUME g # h, pc[g] # "idle", cmd[g].op = "add"
               PROVE  OwnItem(g)'
    BY <1>1, <1>2 DEF OwnItem
  <2>1. OwnItem(g)
    BY DEF LInv
  <2>2. cmd[h].item # cmd[g].item
    BY <2>1 DEF OwnItem
  <2>3. \A n \in DOMAIN outbox' : outbox'[n].type = "OrderItemAdded" => outbox'[n].item # cmd[g].item
    BY <1>6, <1>7, <2>1, <2>2 DEF OwnItem
  <2>4. \A f \in Handlers \ {g} : pc'[f] # "idle" => cmd[f].item # cmd[g].item
    BY <1>2, <2>1 DEF OwnItem
  <2>5. QED
    BY <1>1, <2>3, <2>4 DEF OwnItem
<1>13. AbsentIsUnknown'
  BY <1>4, <1>6, <1>7 DEF LInv, AbsentIsUnknown
<1>14. StateWasAnnounced'
  <2> DEFINE Then(x) == \E n \in DOMAIN outbox' : outbox'[n] = x
  <2> SUFFICES ASSUME NEW p \in OrderIds
               PROVE  /\ orders'[p] # NoRow => Then(NewOrderCreated(p))
                      /\ \A i \in orderItems'[p] : Then(NewOrderItemAdded(p, i))
                      /\ orders'[p].status = "CONFIRMED" => Then(NewOrderConfirmed(p, orders'[p].total))
    BY DEF StateWasAnnounced, Logged, NewOrderCreated, NewOrderItemAdded, NewOrderConfirmed
  <2>1. /\ \A x : Logged(x) => Then(x)
        /\ Then(e)
    BY <1>6, <1>8 DEF Logged
  <2>2. /\ orders[p] # NoRow => Logged(NewOrderCreated(p))
        /\ \A i \in orderItems[p] : Logged(NewOrderItemAdded(p, i))
        /\ orders[p].status = "CONFIRMED" => Logged(NewOrderConfirmed(p, orders[p].total))
    BY DEF LInv, StateWasAnnounced
  <2> HIDE DEF Then
  <2>3. CASE p # o
    BY <1>4, <2>1, <2>2, <2>3
  <2>4. CASE p = o
    <3>1. Then(NewOrderCreated(p))
      <4>1. CASE cmd[h].op = "create"
        BY <2>1, <2>4, <4>1 DEF e, CommandEvent
      <4>2. CASE cmd[h].op # "create"
        BY <1>9, <2>1, <2>2, <2>4, <4>2
      <4>3. QED
        BY <4>1, <4>2
    <3>2. ASSUME NEW i \in agg[h].items
          PROVE  Then(NewOrderItemAdded(p, i))
      <4>1. \/ Logged(NewOrderItemAdded(o, i))
            \/ cmd[h].op = "add" /\ i = cmd[h].item
        BY <1>9 DEF InMemory, ItemsAnnounced, Applied
      <4>2. CASE cmd[h].op = "add" /\ i = cmd[h].item
        BY <2>1, <2>4, <4>2 DEF e, CommandEvent
      <4>3. QED
        BY <2>1, <2>4, <4>1, <4>2
    <3>3. ASSUME tx[h].row.status = "CONFIRMED"
          PROVE  Then(NewOrderConfirmed(p, tx[h].row.total))
      <4>1. cmd[h].op = "confirm"
        BY <1>3, <1>5, <1>9, <3>3 DEF InMemory, CommandApplied, Applied, Commands
      <4>2. e = NewOrderConfirmed(o, TotalAmount(agg[h].items))
        BY <4>1 DEF e, CommandEvent
      <4>3. QED
        BY <1>3, <2>1, <2>4, <4>2
    <3>4. QED
      BY <1>4, <2>4, <3>1, <3>2, <3>3
  <2>5. QED
    BY <2>3, <2>4
<1>15. LogWellFormed'
  <2> SUFFICES ASSUME NEW m \in DOMAIN outbox', NEW n \in DOMAIN outbox'
               PROVE  /\ outbox'[n].type = "OrderCreated" /\ outbox'[m].order = outbox'[n].order => n <= m
                      /\ outbox'[n].type = "OrderItemAdded" /\ outbox'[m] = outbox'[n] => n = m
    BY DEF LogWellFormed
  <2>1. CASE m \in DOMAIN outbox /\ n \in DOMAIN outbox
    BY <1>6, <2>1 DEF LInv, LogWellFormed
  <2>2. CASE m \notin DOMAIN outbox /\ n \in DOMAIN outbox
    <3>1. n <= m
      BY <1>6, <2>2
    <3>2. outbox'[n].type = "OrderItemAdded" => outbox'[m] # outbox'[n]
      BY <1>6, <1>7, <1>9, <2>2 DEF OwnItem
    <3>3. QED
      BY <3>1, <3>2
  <2>3. CASE m \in DOMAIN outbox /\ n \notin DOMAIN outbox
    <3>1. outbox'[n].type = "OrderCreated" => outbox'[m].order # outbox'[n].order
      \* a new order: the log knows nothing of it
      BY <1>3, <1>6, <1>7, <1>9, <2>3 DEF LInv, AbsentIsUnknown
    <3>2. outbox'[n].type = "OrderItemAdded" => outbox'[m] # outbox'[n]
      BY <1>6, <1>7, <1>9, <2>3 DEF OwnItem
    <3>3. QED
      BY <3>1, <3>2
  <2>4. CASE m \notin DOMAIN outbox /\ n \notin DOMAIN outbox
    <3>1. m = n /\ n <= m
      BY <1>6, <2>4
    <3>2. QED
      BY <3>1
  <2>5. QED
    BY <2>1, <2>2, <2>3, <2>4
<1>16. \A g \in Handlers : Answered(g)'
  <2>1. Answered(h)'
    <3> SUFFICES ASSUME resp'[h] \in {200, 201}
                 PROVE  Answered(h)'
      BY DEF Answered
    <3>1. TotalAmount(agg[h].items) \in Amounts
      BY TotalIsAmount
    <3>2. QED
      BY <1>1, <1>5, <1>8, <3>1 DEF Answered, Logged, e, CommandEvent, NewOrderCreated,
                                    NewOrderItemAdded, NewOrderConfirmed
  <2>2. \A g \in Handlers \ {h} : Answered(g)'
    BY <1>1, <1>2, <1>6, AnsweredKept DEF LInv
  <2>3. QED
    BY <2>1, <2>2
<1>17. QED
  BY <1>10, <1>11, <1>12, <1>13, <1>14, <1>15, <1>16 DEF LInv

-----------------------------------------------------------------------------
(* The inductive invariant.                                                *)

\* Nothing is logged, and nothing has to be, when no request was received.
LEMMA InitLInv == Init => LInv
<1> SUFFICES ASSUME Init PROVE LInv
  OBVIOUS
<1>1. \A h \in Handlers : pc[h] = "idle" /\ resp[h] = 0
  BY DEF Init
<1>2. \A h \in Handlers : InMemory(h) /\ OwnOrder(h) /\ OwnItem(h) /\ Answered(h)
  BY <1>1 DEF InMemory, CommandApplied, EventsOfAggregate, PlaceOfCommand, ItemsAnnounced, OwnOrder,
              OwnItem, Answered, Applied, Loaded
<1>3. AbsentIsUnknown /\ StateWasAnnounced /\ LogWellFormed
  BY DEF Init, AbsentIsUnknown, StateWasAnnounced, LogWellFormed, NoRow
<1>4. QED
  BY <1>2, <1>3 DEF LInv

\* The aggregate is created or loaded: nothing was raised yet, or OrderCreated.
LEMMA LoadLInv ==
  ASSUME IInv, LInv, NEW h \in Handlers, CreateOrder(h) \/ FindRow(h) \/ FindItems(h)
  PROVE  LInv'
<1>1. /\ pc \in [Handlers -> InTransaction \cup {"idle"}]
      /\ agg \in [Handlers -> Aggregates \cup {NoAggregate}]
      /\ cmd[h].order \in OrderIds
  BY DEF IInv, TypeOK, Commands
<1>2. InMemory(h)
  BY DEF LInv
<1>3. ASSUME NEW status \in {400, 404}, Rollback(h, status)
      PROVE  LInv'
  BY <1>3, RollbackLInv
<1>4. CASE CreateOrder(h)
  <2>1. CASE Rollback(h, MapError("ErrInvalidCustomerID"))
    BY <1>3, <2>1 DEF MapError
  <2>2. CASE /\ agg' = [agg EXCEPT ![h] = NewOrder(cmd[h].order)]
             /\ Goto(h, "save")
             /\ UNCHANGED <<db, cmd, tx, resp>>
    <3>1. pc[h] = "create" /\ cmd[h].op = "create"
      BY <1>2, <1>4 DEF CreateOrder, InMemory, PlaceOfCommand
    <3>2. pc'[h] = "save" /\ agg'[h] = NewOrder(cmd[h].order)
      BY <1>1, <2>2 DEF Goto
    <3>3. CommandEvent(h)' = NewOrderCreated(cmd[h].order)
      BY <2>2, <3>1 DEF CommandEvent, NewOrderCreated
    <3>4. InMemory(h)'
      BY <2>2, <3>1, <3>2, <3>3 DEF InMemory, CommandApplied, EventsOfAggregate, PlaceOfCommand,
                                    ItemsAnnounced, NewOrder, Applied
    <3>5. QED
      BY <1>1, <2>2, <3>1, <3>4, LocalStepLInv DEF Goto, db
  <2>3. QED
    BY <1>4, <2>1, <2>2 DEF CreateOrder
<1>5. CASE FindRow(h)
  <2>1. CASE Rollback(h, MapError("ErrOrderNotFound"))
    BY <1>3, <2>1 DEF MapError
  <2>2. CASE /\ orders[cmd[h].order] # NoRow
             /\ Goto(h, "items")
             /\ \A g \in Handlers \ {h} : agg'[g] = agg[g]
             /\ UNCHANGED <<db, cmd, tx, resp>>
    <3>1. pc[h] = "find" /\ cmd[h].op # "create"
      BY <1>2, <1>5 DEF FindRow, InMemory, PlaceOfCommand
    <3>2. pc'[h] = "items"
      BY <1>1, <2>2 DEF Goto
    <3>3. InMemory(h)'
      BY <2>2, <3>1, <3>2 DEF InMemory, CommandApplied, EventsOfAggregate, PlaceOfCommand,
                              ItemsAnnounced, Applied, Loaded, db
    <3>4. QED
      BY <2>2, <3>1, <3>3, LocalStepLInv DEF Goto, db
  <2>3. QED
    BY <1>1, <1>5, <2>1, <2>2 DEF FindRow
<1>6. CASE FindItems(h)
  <2>1. pc[h] = "items" /\ cmd[h].op # "create" /\ orders[cmd[h].order] # NoRow
    BY <1>2, <1>6 DEF FindItems, InMemory, PlaceOfCommand, Loaded
  <2>2. /\ pc'[h] = "apply" /\ agg'[h].items = orderItems[cmd[h].order]
        /\ \A g \in Handlers \ {h} : agg'[g] = agg[g]
    <3>1. agg[h] \in Aggregates
      BY <2>1 DEF IInv, AggregateLoaded, Loaded
    <3>2. QED
      BY <1>1, <1>6, <3>1 DEF FindItems, Goto, Aggregates
  <2>3. \A i \in orderItems[cmd[h].order] : Logged(NewOrderItemAdded(cmd[h].order, i))
    BY <1>1 DEF LInv, StateWasAnnounced
  <2>4. InMemory(h)'
    BY <1>6, <2>1, <2>2, <2>3 DEF FindItems, InMemory, CommandApplied, EventsOfAggregate,
         PlaceOfCommand, ItemsAnnounced, Applied, db, Logged, NewOrderItemAdded
  <2>5. QED
    BY <1>6, <2>1, <2>2, <2>4, LocalStepLInv DEF FindItems, Goto, db
<1>7. QED
  BY <1>4, <1>5, <1>6

\* The command is applied: the one event it raises is that of the command.
LEMMA ApplyLInv ==
  ASSUME IInv, LInv, NEW h \in Handlers, ApplyAddItem(h) \/ ApplyConfirm(h)
  PROVE  LInv'
<1> DEFINE c == cmd[h]
<1>1. /\ pc \in [Handlers -> InTransaction \cup {"idle"}]
      /\ agg \in [Handlers -> Aggregates \cup {NoAggregate}]
      /\ pc[h] = "apply" /\ agg[h] \in Aggregates
  BY DEF IInv, TypeOK, ApplyAddItem, ApplyConfirm, Apply, AggregateLoaded, Loaded
<1>2. /\ c.op # "create" /\ orders[c.order] # NoRow
      /\ \A i \in agg[h].items : Logged(NewOrderItemAdded(c.order, i))
  BY <1>1 DEF LInv, InMemory, PlaceOfCommand, ItemsAnnounced, Loaded, Applied
<1>3. ASSUME NEW status \in {400, 409, 422}, Rollback(h, status)
      PROVE  LInv'
  BY <1>3, RollbackLInv
<1>4. ASSUME Goto(h, "save"), UNCHANGED <<db, cmd, tx, resp>>, CommandApplied(h)',
             \A g \in Handlers \ {h} : agg'[g] = agg[g],
             \A i \in agg'[h].items : i \in agg[h].items \/ (c.op = "add" /\ i = c.item)
      PROVE  LInv'
  <2>1. pc'[h] = "save"
    BY <1>1, <1>4 DEF Goto
  <2>2. EventsOfAggregate(h)' /\ PlaceOfCommand(h)'
    BY <1>2, <1>4, <2>1 DEF EventsOfAggregate, PlaceOfCommand, db
  <2>3. ItemsAnnounced(h)'
    BY <1>2, <1>4, <2>1 DEF ItemsAnnounced, Applied, db, Logged, NewOrderItemAdded
  <2>4. InMemory(h)'
    BY <1>4, <2>2, <2>3 DEF InMemory
  <2>5. QED
    BY <1>1, <1>4, <2>1, <2>4, LocalStepLInv DEF Goto, db
<1>5. CASE ApplyAddItem(h)
  <2> DEFINE err == AddItemError(agg[h], c.item)
  <2> DEFINE a == AddItem(agg[h], c.order, c.item)
  <2>1. CASE err # "nil"
    BY <1>3, <1>5, <2>1 DEF ApplyAddItem, Apply, AddItemError, MapError
  <2>2. CASE err = "nil"
    <3>1. agg[h].status = "DRAFT"
      BY <2>2 DEF AddItemError, IsModifiable
    <3>2. /\ a.status = "DRAFT" /\ a.raised = <<NewOrderItemAdded(c.order, c.item)>>
          /\ a.items = agg[h].items \cup {c.item}
      BY <1>1, <3>1 DEF AddItem, Aggregates
    <3>3. /\ c.op = "add"
          /\ agg' = [agg EXCEPT ![h] = a]
          /\ Goto(h, "save")
          /\ UNCHANGED <<db, cmd, tx, resp>>
      BY <1>5, <2>2 DEF ApplyAddItem, Apply
    <3> HIDE DEF a
    <3>4. CommandEvent(h)' = NewOrderItemAdded(c.order, c.item)
      BY <3>3 DEF CommandEvent, NewOrderItemAdded
    <3>5. CommandApplied(h)'
      BY <1>1, <3>2, <3>3, <3>4 DEF CommandApplied
    <3>6. /\ \A g \in Handlers \ {h} : agg'[g] = agg[g]
          /\ \A i \in agg'[h].items : i \in agg[h].items \/ (c.op = "add" /\ i = c.item)
      BY <1>1, <3>2, <3>3
    <3>7. Goto(h, "save") /\ UNCHANGED <<db, cmd, tx, resp>>
      BY <3>3
    <3>8. QED
      BY <1>4, <3>5, <3>6, <3>7
  <2>3. QED
    BY <2>1, <2>2
<1>6. CASE ApplyConfirm(h)
  <2> DEFINE err == ConfirmError(agg[h])
  <2> DEFINE a == Confirm(agg[h], c.order)
  <2>1. CASE err # "nil"
    BY <1>3, <1>6, <2>1 DEF ApplyConfirm, Apply, ConfirmError, MapError
  <2>2. CASE err = "nil"
    <3>1. agg[h].items # {}
      BY <2>2 DEF ConfirmError, IsModifiable
    <3>2. /\ a.status = "CONFIRMED" /\ a.items = agg[h].items
          /\ a.raised = <<NewOrderConfirmed(c.order, TotalAmount(agg[h].items))>>
      BY <1>1 DEF Confirm, Aggregates
    <3>3. /\ c.op = "confirm"
          /\ agg' = [agg EXCEPT ![h] = a]
          /\ Goto(h, "save")
          /\ UNCHANGED <<db, cmd, tx, resp>>
      BY <1>6, <2>2 DEF ApplyConfirm, Apply
    <3> HIDE DEF a
    <3>4. CommandEvent(h)' = NewOrderConfirmed(c.order, TotalAmount(agg[h].items))
      BY <1>1, <3>2, <3>3 DEF CommandEvent, NewOrderConfirmed
    <3>5. CommandApplied(h)'
      BY <1>1, <3>1, <3>2, <3>3, <3>4 DEF CommandApplied
    <3>6. /\ \A g \in Handlers \ {h} : agg'[g] = agg[g]
          /\ \A i \in agg'[h].items : i \in agg[h].items \/ (c.op = "add" /\ i = c.item)
      BY <1>1, <3>2, <3>3
    <3>7. Goto(h, "save") /\ UNCHANGED <<db, cmd, tx, resp>>
      BY <3>3
    <3>8. QED
      BY <1>4, <3>5, <3>6, <3>7
  <2>3. QED
    BY <2>1, <2>2
<1>7. QED
  BY <1>5, <1>6

\* The write set is filled in: the handler keeps what it has in memory.
LEMMA SaveLInv ==
  ASSUME IInv, LInv, NEW h \in Handlers, SaveRow(h) \/ ReplaceItems(h) \/ AppendEvents(h)
  PROVE  LInv'
<1>1. /\ pc \in [Handlers -> InTransaction \cup {"idle"}]
      /\ agg \in [Handlers -> Aggregates \cup {NoAggregate}]
      /\ tx \in [Handlers -> Writes]
      /\ pc[h] \in Applied /\ agg[h] \in Aggregates
  BY DEF IInv, TypeOK, AggregateLoaded, Loaded, Applied, SaveRow, ReplaceItems, AppendEvents
<1>2. InMemory(h)
  BY DEF LInv
<1>3. PICK label \in Applied : /\ pc' = [pc EXCEPT ![h] = label]
                               /\ label = "commit" => tx'[h].events = agg[h].raised
  BY <1>1 DEF SaveRow, ReplaceItems, AppendEvents, Goto, Applied, Writes
<1>4. /\ UNCHANGED <<orders, orderItems, outbox, cmd, resp>>
      /\ \A g \in Handlers \ {h} : agg'[g] = agg[g] /\ tx'[g] = tx[g]
      /\ pc'[h] = label
      /\ agg'[h].items = agg[h].items /\ agg'[h].status = agg[h].status /\ agg'[h].raised = agg[h].raised
  BY <1>1, <1>3 DEF SaveRow, ReplaceItems, AppendEvents, db, Aggregates
<1>5. CommandEvent(h)' = CommandEvent(h)
  BY <1>4 DEF CommandEvent, NewOrderCreated, NewOrderItemAdded, NewOrderConfirmed
<1>6. InMemory(h)'
  <2>1. CommandApplied(h)'
    BY <1>1, <1>2, <1>4, <1>5 DEF InMemory, CommandApplied
  <2>2. EventsOfAggregate(h)'
    BY <1>3, <1>4 DEF EventsOfAggregate
  <2>3. PlaceOfCommand(h)'
    BY <1>1, <1>2, <1>4 DEF InMemory, PlaceOfCommand, Loaded, Applied
  <2>4. ItemsAnnounced(h)'
    BY <1>1, <1>2, <1>4 DEF InMemory, ItemsAnnounced, Logged, NewOrderItemAdded, Applied
  <2>5. QED
    BY <2>1, <2>2, <2>3, <2>4 DEF InMemory
<1>7. label # "idle" /\ pc[h] # "idle"
  BY <1>1 DEF Applied
<1>8. QED
  BY <1>3, <1>4, <1>6, <1>7, LocalStepLInv

\* Every step preserves the second invariant.
LEMMA NextLInv == IInv /\ LInv /\ [Next]_vars => LInv'
<1> SUFFICES ASSUME IInv, LInv, [Next]_vars
             PROVE  LInv'
  OBVIOUS
<1>1. CASE UNCHANGED vars
  <2>1. /\ UNCHANGED <<orders, orderItems, outbox>>
        /\ UNCHANGED <<pc, cmd, agg, tx, resp>>
    BY <1>1 DEF vars
  <2>2. ASSUME NEW g \in Handlers
        PROVE  (InMemory(g) /\ OwnOrder(g) /\ OwnItem(g) /\ Answered(g))'
    <3>1. InMemory(g)' /\ Answered(g)'
      BY <2>1, TablesKept, InMemoryKept, AnsweredKept DEF LInv
    <3>2. OwnOrder(g)' /\ OwnItem(g)'
      BY <2>1 DEF LInv, OwnOrder, OwnItem
    <3>3. QED
      BY <3>1, <3>2
  <2>3. QED
    BY <2>1, <2>2, TablesKept DEF LInv
<1>2. ASSUME NEW h \in Handlers, Receive(h) \/ Reject(h)
      PROVE  LInv'
  BY <1>2, ReceiveLInv
<1>3. ASSUME NEW h \in Handlers, CreateOrder(h) \/ FindRow(h) \/ FindItems(h)
      PROVE  LInv'
  BY <1>3, LoadLInv
<1>4. ASSUME NEW h \in Handlers, ApplyAddItem(h) \/ ApplyConfirm(h)
      PROVE  LInv'
  BY <1>4, ApplyLInv
<1>5. ASSUME NEW h \in Handlers, SaveRow(h) \/ ReplaceItems(h) \/ AppendEvents(h)
      PROVE  LInv'
  BY <1>5, SaveLInv
<1>6. ASSUME NEW h \in Handlers, Commit(h) \/ CommitUnacknowledged(h)
      PROVE  LInv'
  BY <1>6, CommitLInv DEF Commit, CommitUnacknowledged
<1>7. ASSUME NEW h \in Handlers, Fail(h)
      PROVE  LInv'
  BY <1>7, RollbackLInv DEF Fail
<1>8. QED
  BY <1>1, <1>2, <1>3, <1>4, <1>5, <1>6, <1>7 DEF Next, Step

LEMMA LogInvariant == Spec => []LInv
<1>1. QED
  BY InductiveInvariant, InitLInv, NextLInv, PTL DEF Spec

-----------------------------------------------------------------------------
(* The theorems.                                                           *)

\* No state without its event, for any number of handlers: what the tables
\* hold of an order, the outbox tells.
THEOREM StateIsAnnounced == Spec => []StateWasAnnounced
<1>1. LInv => StateWasAnnounced
  BY DEF LInv
<1>2. QED
  BY LogInvariant, <1>1, PTL

\* The outbox is in an order that can be replayed: OrderCreated is the first
\* event of its order, and no item is announced twice.
THEOREM LogAlwaysWellFormed == Spec => []LogWellFormed
<1>1. LInv => LogWellFormed
  BY DEF LInv
<1>2. QED
  BY LogInvariant, <1>1, PTL

\* A 2xx answer is given only after the event of the command is in the outbox.
THEOREM AnsweredAlwaysLogged == Spec => []AnsweredWasLogged
<1>1. IInv /\ LInv => AnsweredWasLogged
  <2> SUFFICES ASSUME IInv, LInv, NEW h \in Handlers, resp[h] \in {200, 201}
               PROVE  CASE cmd[h].op = "create"  -> Logged(NewOrderCreated(cmd[h].order))
                        [] cmd[h].op = "add"     -> Logged(NewOrderItemAdded(cmd[h].order, cmd[h].item))
                        [] cmd[h].op = "confirm" -> \E t \in Amounts :
                                                        Logged(NewOrderConfirmed(cmd[h].order, t))
    BY DEF AnsweredWasLogged
  <2>1. cmd[h].op \in {"create", "add", "confirm"}
    BY DEF IInv, TypeOK, Commands
  <2>2. /\ cmd[h].op = "create"  => Logged(NewOrderCreated(cmd[h].order))
        /\ cmd[h].op = "add"     => Logged(NewOrderItemAdded(cmd[h].order, cmd[h].item))
        /\ cmd[h].op = "confirm" => \E t \in Amounts : Logged(NewOrderConfirmed(cmd[h].order, t))
    BY DEF LInv, Answered
  <2>3. QED
    BY <2>1, <2>2
<1>2. QED
  BY InductiveInvariant, LogInvariant, <1>1, PTL

-----------------------------------------------------------------------------
(* The write side implements TransactionalOutbox.                          *)

\* The statement that commits is one operation of the abstract specification
\* on a snapshot of announced items.
LEMMA CommitIsOperation ==
  ASSUME IInv, LInv, NEW h \in Handlers, pc[h] = "commit", ApplyWrites(h)
  PROVE  Promise!Next
<1> DEFINE o == cmd[h].order
<1> DEFINE i == cmd[h].item
<1> DEFINE a == agg[h]
<1>1. /\ o \in OrderIds /\ a.items \in SUBSET ItemIds
      /\ orders' = [orders EXCEPT ![o] = tx[h].row]
      /\ orderItems' = [orderItems EXCEPT ![o] = a.items]
      /\ tx[h].row.status = a.status
  BY CommitWrites
<1>2. outbox' = Append(outbox, CommandEvent(h))
  BY CommitLogs, AppendIsConcat
<1>3. statusOf' = [statusOf EXCEPT ![o] = a.status]
  BY <1>1 DEF IInv, TypeOK, statusOf
<1>4. /\ InMemory(h) /\ OwnOrder(h) /\ OwnItem(h)
      /\ cmd[h].op # "create" => orders[o] # NoRow
      /\ cmd[h].op = "create" => orders[o] = NoRow
  BY DEF LInv, InMemory, PlaceOfCommand, OwnOrder, Loaded
<1>5. /\ orders[o] = NoRow => statusOf[o] = "ABSENT"
      /\ orders[o] # NoRow => statusOf[o] # "ABSENT"
  <2>1. orders[o] \in Rows \cup {NoRow} /\ statusOf[o] = orders[o].status
    BY <1>1 DEF IInv, TypeOK, statusOf
  <2>2. QED
    BY <2>1 DEF NoRow, Rows, Statuses
<1>6. \A j \in a.items : j \in Promise!Announced(o) \/ (cmd[h].op = "add" /\ j = i)
  BY <1>1, <1>4 DEF InMemory, ItemsAnnounced, Applied, Promise!Announced, Promise!Published, Logged
<1>7. cmd[h].op \in {"create", "add", "confirm"}
  BY DEF IInv, TypeOK, Commands
<1>8. CASE cmd[h].op = "create"
  <2>1. a.status = "DRAFT" /\ a.items = {} /\ CommandEvent(h) = NewOrderCreated(o)
    BY <1>4, <1>8 DEF InMemory, CommandApplied, Applied, CommandEvent
  <2>2. orderItems[o] = {}
    BY <1>1, <1>4, <1>8 DEF LInv, AbsentIsUnknown
  <2>3. orderItems' = orderItems
    BY <1>1, <2>1, <2>2 DEF IInv, TypeOK
  <2>4. Promise!CreateOp(o)
    BY <1>2, <1>3, <1>4, <1>5, <1>8, <2>1, <2>3 DEF Promise!CreateOp
  <2>5. QED
    BY <1>1, <2>4 DEF Promise!Next
<1>9. CASE cmd[h].op = "add"
  <2> DEFINE base == a.items \ {i}
  <2>1. /\ a.status = "DRAFT" /\ i \in a.items /\ i \in ItemIds
        /\ CommandEvent(h) = NewOrderItemAdded(o, i)
    BY <1>1, <1>4, <1>9 DEF InMemory, CommandApplied, Applied, CommandEvent
  <2>2. base \in SUBSET Promise!Announced(o) /\ base \cup {i} = a.items
    BY <1>6, <2>1
  <2>3. \A p \in OrderIds : i \notin Promise!Announced(p)
    BY <1>4, <1>9, EventFields DEF OwnItem, Promise!Announced, Promise!Published
  <2>4. Promise!AddItemOp(o, i, base)
    BY <1>1, <1>2, <1>3, <1>4, <1>5, <1>9, <2>1, <2>2, <2>3 DEF Promise!AddItemOp
  <2>5. QED
    BY <1>1, <2>1, <2>2, <2>4 DEF Promise!Next
<1>10. CASE cmd[h].op = "confirm"
  <2>1. /\ a.status = "CONFIRMED" /\ a.items # {}
        /\ CommandEvent(h) = NewOrderConfirmed(o, TotalAmount(a.items))
    BY <1>4, <1>10 DEF InMemory, CommandApplied, Applied, CommandEvent
  <2>2. a.items \in SUBSET Promise!Announced(o)
    BY <1>6, <1>10
  <2>3. Promise!ConfirmOp(o, a.items)
    BY <1>1, <1>2, <1>3, <1>4, <1>5, <1>10, <2>1 DEF Promise!ConfirmOp
  <2>4. QED
    BY <1>1, <2>2, <2>3 DEF Promise!Next
<1>11. QED
  BY <1>7, <1>8, <1>9, <1>10

\* The other statements leave the tables alone.
LEMMA OthersStutter ==
  ASSUME IInv, NEW h \in Handlers,
         \/ Receive(h) \/ Reject(h) \/ CreateOrder(h) \/ FindRow(h) \/ FindItems(h)
         \/ ApplyAddItem(h) \/ ApplyConfirm(h) \/ SaveRow(h) \/ ReplaceItems(h)
         \/ AppendEvents(h) \/ Fail(h)
  PROVE  UNCHANGED db
  BY DEF Receive, Reject, CreateOrder, FindRow, FindItems, ApplyAddItem, ApplyConfirm, Apply,
         SaveRow, ReplaceItems, AppendEvents, Fail, Rollback, db

\* The refinement: for any number of concurrent handlers, the tables and the
\* outbox change together, by one operation and its one event in one step.
THEOREM CommandsImplementOutbox == Spec => ImplementsOutbox
<1>1. Init => Promise!Init
  BY DEF Init, Promise!Init, statusOf, NoRow
<1>2. IInv /\ LInv /\ [Next]_vars => [Promise!Next]_Promise!vars
  <2> SUFFICES ASSUME IInv, LInv, [Next]_vars
               PROVE  Promise!Next \/ UNCHANGED Promise!vars
    OBVIOUS
  <2>1. UNCHANGED db => UNCHANGED Promise!vars
    BY DEF db, Promise!vars, statusOf
  <2>2. CASE UNCHANGED vars
    BY <2>1, <2>2 DEF vars, db
  <2>3. ASSUME NEW h \in Handlers, Commit(h) \/ CommitUnacknowledged(h)
        PROVE  Promise!Next
    BY <2>3, CommitIsOperation DEF Commit, CommitUnacknowledged
  <2>4. QED
    BY <2>1, <2>2, <2>3, OthersStutter DEF Next, Step
<1>3. QED
  BY <1>1, <1>2, InductiveInvariant, LogInvariant, PTL DEF Spec, ImplementsOutbox, Promise!Spec

-----------------------------------------------------------------------------
(* A handler that nobody overtakes.                                        *)

\* The order still is what h has loaded, and its command was made for that.
AsLoaded(h) == h \notin overtaken =>
    /\ pc[h] \in {"items", "apply"} => agg[h].status = orders[cmd[h].order].status
    /\ pc[h] = "apply" => agg[h].items = orderItems[cmd[h].order]
    /\ pc[h] \in Applied /\ cmd[h].op # "create" =>
          /\ IsModifiable(orders[cmd[h].order].status)
          /\ cmd[h].op = "add" => agg[h].items = orderItems[cmd[h].order] \cup {cmd[h].item}
          /\ cmd[h].op = "confirm" => agg[h].items = orderItems[cmd[h].order]

HInv == IInv /\ LInv /\ \A h \in Handlers : AsLoaded(h)

\* What handler h may do: the statements that only it sees, and the commit.
Quiet(h) ==
    \/ Receive(h) \/ Reject(h) \/ CreateOrder(h) \/ FindRow(h) \/ FindItems(h)
    \/ ApplyAddItem(h) \/ ApplyConfirm(h) \/ SaveRow(h) \/ ReplaceItems(h)
    \/ AppendEvents(h) \/ Fail(h)
Committing(h) == Commit(h) \/ CommitUnacknowledged(h)

\* A step of the history is a step of one handler.
LEMMA HistoryStep ==
  ASSUME HNext
  PROVE  \E h \in Handlers : (Quiet(h) \/ Committing(h)) /\ Observe(h)
  BY DEF HNext, Quiet, Committing, HReceive, HReject, HCreateOrder, HFindRow, HFindItems,
         HApplyAddItem, HApplyConfirm, HSaveRow, HReplaceItems, HAppendEvents, HCommit,
         HCommitUnacknowledged, HFail

LEMMA HistoryHides == (HInit => Init) /\ ([HNext]_hvars => [Next]_vars)
<1>1. HInit => Init
  BY DEF HInit
<1>2. HNext => Next
  BY HistoryStep DEF Quiet, Committing, Next, Step
<1>3. QED
  BY <1>1, <1>2 DEF hvars

\* What h does is seen by the others only in the tables.
LEMMA OthersStay ==
  ASSUME IInv, NEW h \in Handlers, Quiet(h) \/ Committing(h), NEW g \in Handlers, g # h
  PROVE  pc'[g] = pc[g] /\ cmd'[g] = cmd[g] /\ agg'[g] = agg[g]
<1>1. /\ pc \in [Handlers -> InTransaction \cup {"idle"}]
      /\ cmd \in [Handlers -> Commands]
      /\ agg \in [Handlers -> Aggregates \cup {NoAggregate}]
  BY DEF IInv, TypeOK
<1>2. CASE Receive(h) \/ Reject(h)
  <2>1. \E c \in Commands : cmd' = [cmd EXCEPT ![h] = c]
    BY <1>2, Zenon DEF Receive, Reject
  <2>2. agg' = agg /\ (pc' = pc \/ \E label : pc' = [pc EXCEPT ![h] = label])
    BY <1>2, Zenon DEF Receive, Reject, Goto
  <2>3. QED
    BY <1>1, <2>1, <2>2
<1>3. ASSUME NEW status, Respond(h, status)
      PROVE  pc'[g] = pc[g] /\ cmd'[g] = cmd[g] /\ agg'[g] = agg[g]
  BY <1>1, <1>3 DEF Respond
<1>4. CASE CreateOrder(h) \/ FindRow(h) \/ FindItems(h)
  BY <1>1, <1>3, <1>4 DEF CreateOrder, FindRow, FindItems, Goto, Rollback
<1>5. CASE ApplyAddItem(h) \/ ApplyConfirm(h)
  BY <1>1, <1>3, <1>5 DEF ApplyAddItem, ApplyConfirm, Apply, Goto, Rollback
<1>6. CASE SaveRow(h) \/ ReplaceItems(h) \/ AppendEvents(h)
  BY <1>1, <1>6 DEF SaveRow, ReplaceItems, AppendEvents, Goto
<1>7. CASE Fail(h) \/ Committing(h)
  BY <1>3, <1>7 DEF Fail, Rollback, Committing, Commit, CommitUnacknowledged
<1>8. QED
  BY <1>2, <1>4, <1>5, <1>6, <1>7 DEF Quiet

\* A commit always logs something.
LEMMA CommitIsSeen ==
  ASSUME IInv, LInv, NEW h \in Handlers, Committing(h)
  PROVE  pc[h] = "commit" /\ pc'[h] = "idle" /\ outbox' # outbox /\ ApplyWrites(h)
<1>1. pc[h] = "commit" /\ ApplyWrites(h) /\ \E status : Respond(h, status)
  BY DEF Committing, Commit, CommitUnacknowledged
<1>2. pc'[h] = "idle"
  BY <1>1 DEF IInv, TypeOK, Respond
<1>3. outbox \in Seq(Events) /\ CommandEvent(h) \in Events /\ outbox' = outbox \o <<CommandEvent(h)>>
  BY <1>1, CommitLogs
<1>4. outbox' # outbox
  BY <1>3, LogGrows
<1>5. QED
  BY <1>1, <1>2, <1>4

\* Whoever is in a transaction while h commits is overtaken; otherwise its
\* order is as it was.
LEMMA OthersAsLoaded ==
  ASSUME HInv, NEW h \in Handlers, Quiet(h) \/ Committing(h), Observe(h),
         NEW g \in Handlers, g # h
  PROVE  AsLoaded(g)'
<1>1. AsLoaded(g) /\ pc'[g] = pc[g] /\ cmd'[g] = cmd[g] /\ agg'[g] = agg[g]
  BY OthersStay DEF HInv
<1>2. CASE Committing(h)
  <2>1. g \in overtaken' \/ pc'[g] = "idle"
    BY <1>1, <1>2, CommitIsSeen DEF HInv, Observe
  <2>2. QED
    BY <2>1 DEF AsLoaded, Applied
<1>3. CASE Quiet(h)
  <2>1. orders' = orders /\ orderItems' = orderItems
    BY <1>3, OthersStutter DEF HInv, Quiet, db
  <2>2. g \notin overtaken' => g \notin overtaken
    BY DEF Observe
  <2>3. QED
    BY <1>1, <2>1, <2>2 DEF AsLoaded
<1>4. QED
  BY <1>2, <1>3

\* h itself loads the order, applies the command, and then keeps the result.
LEMMA OwnAsLoaded ==
  ASSUME HInv, NEW h \in Handlers, Quiet(h) \/ Committing(h), Observe(h)
  PROVE  AsLoaded(h)'
<1> DEFINE o == cmd[h].order
<1>1. /\ pc \in [Handlers -> InTransaction \cup {"idle"}]
      /\ cmd \in [Handlers -> Commands]
      /\ agg \in [Handlers -> Aggregates \cup {NoAggregate}]
      /\ AsLoaded(h) /\ PlaceOfCommand(h)
  BY DEF HInv, IInv, TypeOK, LInv, InMemory
<1>2. pc'[h] \in {"idle", "create", "find"} => AsLoaded(h)'
  BY DEF AsLoaded, Applied
<1>3. ASSUME NEW status, Respond(h, status)
      PROVE  AsLoaded(h)'
  BY <1>1, <1>2, <1>3 DEF Respond
<1>4. CASE Receive(h) \/ Reject(h)
  <2>1. CASE Receive(h)
    BY <1>1, <1>2, <2>1 DEF Receive, Goto
  <2>2. CASE Reject(h)
    <3>1. pc' = pc /\ pc[h] = "idle"
      BY <2>2, Zenon DEF Reject
    <3>2. QED
      BY <1>2, <3>1
  <2>3. QED
    BY <1>4, <2>1, <2>2
<1>5. CASE Fail(h) \/ Committing(h)
  BY <1>3, <1>5 DEF Fail, Rollback, Committing, Commit, CommitUnacknowledged
<1> SUFFICES ASSUME ~(Receive(h) \/ Reject(h)), ~(Fail(h) \/ Committing(h))
             PROVE  AsLoaded(h)'
  BY <1>4, <1>5
<1>6. pc[h] # "idle" /\ orders' = orders /\ orderItems' = orderItems
  <2>1. orders' = orders /\ orderItems' = orderItems
    BY OthersStutter DEF HInv, Quiet, db
  <2>2. pc[h] # "idle"
    BY DEF Quiet, CreateOrder, FindRow, FindItems, ApplyAddItem, ApplyConfirm, Apply, SaveRow,
           ReplaceItems, AppendEvents
  <2>3. QED
    BY <2>1, <2>2
<1>7. h \notin overtaken' => h \notin overtaken
  BY <1>6 DEF Observe
<1>8. CASE CreateOrder(h)
  <2>1. CASE \E status : Respond(h, status)
    BY <1>3, <2>1
  <2>2. CASE pc'[h] = "save" /\ cmd' = cmd
    BY <1>1, <1>8, <2>2 DEF CreateOrder, PlaceOfCommand, AsLoaded
  <2>3. QED
    BY <1>1, <1>8, <2>1, <2>2 DEF CreateOrder, Rollback, Goto
<1>9. CASE FindRow(h)
  <2>1. CASE \E status : Respond(h, status)
    BY <1>3, <2>1
  <2>2. CASE /\ agg' = [agg EXCEPT ![h] = ReconstructOrder(orders[o].status, orders[o].version, {})]
             /\ Goto(h, "items") /\ cmd' = cmd
    <3>1. pc'[h] = "items" /\ agg'[h].status = orders[o].status
      BY <1>1, <2>2 DEF Goto, ReconstructOrder
    <3>2. QED
      BY <1>6, <2>2, <3>1 DEF AsLoaded, Applied
  <2>3. QED
    BY <1>9, <2>1, <2>2 DEF FindRow, Rollback
<1>10. CASE FindItems(h)
  <2>1. /\ pc'[h] = "apply" /\ cmd' = cmd /\ pc[h] = "items"
        /\ agg'[h].items = orderItems[o] /\ agg'[h].status = agg[h].status
    BY <1>1, <1>10 DEF FindItems, Goto, Aggregates, NoAggregate
  <2>2. QED
    BY <1>1, <1>6, <1>7, <2>1 DEF AsLoaded, Applied
<1>11. CASE ApplyAddItem(h)
  <2>1. CASE \E status : Respond(h, status)
    BY <1>3, <2>1
  <2>2. CASE /\ AddItemError(agg[h], cmd[h].item) = "nil"
             /\ agg' = [agg EXCEPT ![h] = AddItem(agg[h], o, cmd[h].item)]
             /\ Goto(h, "save") /\ cmd' = cmd
    <3>1. IsModifiable(agg[h].status) /\ pc[h] = "apply" /\ cmd[h].op = "add"
      BY <1>11, <2>2 DEF ApplyAddItem, Apply, AddItemError
    <3>2. pc'[h] = "save" /\ agg'[h].items = agg[h].items \cup {cmd[h].item}
      BY <1>1, <2>2 DEF Goto, AddItem, Aggregates, NoAggregate
    <3>3. QED
      BY <1>1, <1>6, <1>7, <2>2, <3>1, <3>2 DEF AsLoaded
  <2>3. QED
    BY <1>11, <2>1, <2>2 DEF ApplyAddItem, Apply, Rollback
<1>12. CASE ApplyConfirm(h)
  <2>1. CASE \E status : Respond(h, status)
    BY <1>3, <2>1
  <2>2. CASE /\ ConfirmError(agg[h]) = "nil"
             /\ agg' = [agg EXCEPT ![h] = Confirm(agg[h], o)]
             /\ Goto(h, "save") /\ cmd' = cmd
    <3>1. IsModifiable(agg[h].status) /\ pc[h] = "apply" /\ cmd[h].op = "confirm"
      BY <1>12, <2>2 DEF ApplyConfirm, Apply, ConfirmError
    <3>2. pc'[h] = "save" /\ agg'[h].items = agg[h].items
      BY <1>1, <2>2 DEF Goto, Confirm, Aggregates, NoAggregate
    <3>3. QED
      BY <1>1, <1>6, <1>7, <2>2, <3>1, <3>2 DEF AsLoaded
  <2>3. QED
    BY <1>12, <2>1, <2>2 DEF ApplyConfirm, Apply, Rollback
<1>13. CASE SaveRow(h) \/ ReplaceItems(h) \/ AppendEvents(h)
  <2>1. /\ pc[h] \in Applied /\ pc'[h] \in Applied /\ cmd' = cmd
        /\ agg'[h].items = agg[h].items
    BY <1>1, <1>13 DEF SaveRow, ReplaceItems, AppendEvents, Goto, Applied, Aggregates, NoAggregate
  <2>2. pc'[h] \notin {"items", "apply"}
    BY <2>1 DEF Applied
  <2>3. QED
    BY <1>1, <1>6, <1>7, <2>1, <2>2 DEF AsLoaded
<1>14. QED
  BY <1>8, <1>9, <1>10, <1>11, <1>12, <1>13 DEF Quiet

LEMMA HistoryInvariant == HSpec => []HInv
<1>1. HInit => HInv
  <2>1. HInit => Init
    BY DEF HInit
  <2>2. Init => \A h \in Handlers : AsLoaded(h)
    BY DEF Init, AsLoaded, Applied
  <2>3. QED
    BY <2>1, <2>2, InitIInv, InitLInv DEF HInv
<1>2. HInv /\ [HNext]_hvars => HInv'
  <2> SUFFICES ASSUME HInv, [HNext]_hvars
               PROVE  HInv'
    OBVIOUS
  <2>1. IInv' /\ LInv'
    BY HistoryHides, NextIInv, NextLInv DEF HInv
  <2>2. CASE UNCHANGED hvars
    BY <2>1, <2>2 DEF HInv, AsLoaded, hvars, vars
  <2>3. CASE HNext
    BY <2>1, <2>3, HistoryStep, OthersAsLoaded, OwnAsLoaded DEF HInv
  <2>4. QED
    BY <2>2, <2>3
<1>3. QED
  BY <1>1, <1>2, PTL DEF HSpec

\* A handler that nobody overtook commits one operation on the order as it is.
LEMMA CommitIsSerial ==
  ASSUME HInv, NEW h \in Handlers, Committing(h), h \notin overtaken
  PROVE  Promise!SerialNext
<1> DEFINE o == cmd[h].order
<1> DEFINE i == cmd[h].item
<1> DEFINE a == agg[h]
<1> USE CommitIsSeen DEF HInv
<1>1. /\ o \in OrderIds /\ a.items \in SUBSET ItemIds
      /\ orderItems' = [orderItems EXCEPT ![o] = a.items]
      /\ orders' = [orders EXCEPT ![o] = tx[h].row]
      /\ tx[h].row.status = a.status
  BY CommitWrites
<1>2. outbox' = Append(outbox, CommandEvent(h))
  BY CommitLogs, AppendIsConcat
<1>3. statusOf' = [statusOf EXCEPT ![o] = a.status] /\ statusOf[o] = orders[o].status
  BY <1>1 DEF IInv, TypeOK, statusOf
<1>4. /\ InMemory(h) /\ OwnOrder(h) /\ OwnItem(h) /\ AsLoaded(h)
      /\ cmd[h].op # "create" => orders[o] # NoRow
      /\ cmd[h].op = "create" => orders[o] = NoRow
  BY DEF LInv, InMemory, PlaceOfCommand, OwnOrder, Loaded
<1>5. /\ orders[o] = NoRow => statusOf[o] = "ABSENT"
      /\ orders[o] # NoRow => statusOf[o] # "ABSENT"
  <2>1. orders[o] \in Rows \cup {NoRow}
    BY <1>1 DEF IInv, TypeOK
  <2>2. QED
    BY <1>3, <2>1 DEF NoRow, Rows, Statuses
<1>6. cmd[h].op \in {"create", "add", "confirm"}
  BY DEF IInv, TypeOK, Commands
<1>7. CASE cmd[h].op = "create"
  <2>1. a.status = "DRAFT" /\ a.items = {} /\ CommandEvent(h) = NewOrderCreated(o)
    BY <1>4, <1>7 DEF InMemory, CommandApplied, Applied, CommandEvent
  <2>2. orderItems' = orderItems
    BY <1>1, <1>4, <1>7, <2>1 DEF LInv, AbsentIsUnknown, IInv, TypeOK
  <2>3. Promise!CreateOp(o)
    BY <1>2, <1>3, <1>4, <1>5, <1>7, <2>1, <2>2 DEF Promise!CreateOp
  <2>4. QED
    BY <1>1, <2>3 DEF Promise!SerialNext
<1>8. CASE cmd[h].op = "add"
  <2>1. /\ a.status = "DRAFT" /\ i \in ItemIds /\ CommandEvent(h) = NewOrderItemAdded(o, i)
        /\ IsModifiable(statusOf[o]) /\ a.items = orderItems[o] \cup {i}
    BY <1>1, <1>3, <1>4, <1>8 DEF InMemory, CommandApplied, Applied, CommandEvent, AsLoaded
  <2>2. \A p \in OrderIds : i \notin Promise!Announced(p)
    BY <1>4, <1>8, EventFields DEF OwnItem, Promise!Announced, Promise!Published
  <2>3. Promise!AddItemOp(o, i, orderItems[o])
    BY <1>1, <1>2, <1>3, <1>4, <1>5, <1>8, <2>1, <2>2 DEF Promise!AddItemOp
  <2>4. QED
    BY <1>1, <2>1, <2>3 DEF Promise!SerialNext
<1>9. CASE cmd[h].op = "confirm"
  <2>1. /\ a.status = "CONFIRMED" /\ a.items # {}
        /\ CommandEvent(h) = NewOrderConfirmed(o, TotalAmount(a.items))
        /\ IsModifiable(statusOf[o]) /\ a.items = orderItems[o]
    BY <1>3, <1>4, <1>9 DEF InMemory, CommandApplied, Applied, CommandEvent, AsLoaded
  <2>2. Promise!ConfirmOp(o, orderItems[o])
    BY <1>1, <1>2, <1>3, <1>4, <1>5, <1>9, <2>1 DEF Promise!ConfirmOp
  <2>3. QED
    BY <1>1, <2>1, <2>2 DEF Promise!SerialNext
<1>10. QED
  BY <1>6, <1>7, <1>8, <1>9

\* With any number of handlers at work, a command that none of the others
\* overtook is carried out on the order as it is: nothing is lost and nothing
\* done twice.
THEOREM NotOvertakenIsSerial == HSpec => SerialUnlessOvertaken
<1>1. HInv /\ [HNext]_hvars =>
        [\A h \in Handlers :
            pc[h] = "commit" /\ outbox' # outbox /\ pc'[h] = "idle" /\ h \notin overtaken
                => Promise!SerialNext]_hvars
  <2> SUFFICES ASSUME HInv, HNext, NEW h \in Handlers,
                      pc[h] = "commit", outbox' # outbox, pc'[h] = "idle", h \notin overtaken
               PROVE  Promise!SerialNext
    OBVIOUS
  <2>1. PICK g \in Handlers : Quiet(g) \/ Committing(g)
    BY HistoryStep
  <2>2. Committing(g)
    BY <2>1, OthersStutter DEF HInv, Quiet, db
  <2>3. g = h
    BY <2>1, OthersStay DEF HInv
  <2>4. QED
    BY <2>2, <2>3, CommitIsSerial
<1>2. QED
  BY <1>1, HistoryInvariant, PTL DEF HSpec, SerialUnlessOvertaken
=============================================================================
