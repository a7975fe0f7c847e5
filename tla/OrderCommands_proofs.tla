----------------------- MODULE OrderCommands_proofs -----------------------
(***************************************************************************)
(* Proofs about OrderCommands for any orders, items, prices and handlers.  *)
(*                                                                         *)
(* The invariants of the tables hold because a transaction writes the row  *)
(* of an order before its items and keeps the row's lock to the end.  The  *)
(* inductive invariant says so: open write sets are of different orders,   *)
(* and each one replaces the items that are committed now by those its row *)
(* was computed from.                                                      *)
(***************************************************************************)
EXTENDS OrderCommands, SequenceTheorems, TLAPS

\* A handler that has loaded or created its aggregate ...
Loaded == {"items", "apply", "save", "children", "append", "commit"}
\* ... that has applied the command to it ...
Applied == {"save", "children", "append", "commit"}
\* ... that has written the row, and that has written the items too.
RowWritten   == {"children", "append", "commit"}
ItemsWritten == {"append", "commit"}

AggregateLoaded ==
    \A h \in Handlers : pc[h] \in Loaded => agg[h] \in Aggregates

AppliedConfirmed ==
    \A h \in Handlers : pc[h] \in Applied /\ agg[h].status = "CONFIRMED" => agg[h].items # {}

RowOfAggregate ==
    \A h \in Handlers :
        /\ tx[h].row # NoRow => pc[h] \in RowWritten
        /\ pc[h] \in RowWritten => /\ tx[h].row \in Rows
                                   /\ tx[h].row.status = agg[h].status
                                   /\ tx[h].row.total = TotalAmount(agg[h].items)

ItemsOfAggregate ==
    \A h \in Handlers : pc[h] \in ItemsWritten =>
        /\ tx[h].deleted = orderItems[cmd[h].order]
        /\ tx[h].inserted = agg[h].items

RowLock ==
    \A g, h \in Handlers :
        g # h /\ pc[g] \in RowWritten /\ pc[h] \in RowWritten => cmd[g].order # cmd[h].order

IInv ==
    /\ TypeOK
    /\ AggregateLoaded
    /\ AppliedConfirmed
    /\ RowOfAggregate
    /\ ItemsOfAggregate
    /\ RowLock
    /\ TotalMatchesItems
    /\ ConfirmedHasItems

-----------------------------------------------------------------------------
(* Lemmas about the aggregate and the rows made from it.                   *)

\* The row of an order that does not exist is no row, and likewise for the
\* aggregate a handler has not loaded.
LEMMA AbsentIsNeither == NoRow \notin Rows /\ NoAggregate \notin Aggregates
  BY DEF NoRow, Rows, NoAggregate, Aggregates, Statuses

\* ToOrderModel makes a row, with the status and the total of the aggregate.
LEMMA ModelIsRow ==
  ASSUME NEW a \in Aggregates
  PROVE  /\ ToOrderModel(a) \in Rows
         /\ ToOrderModel(a).status = a.status
         /\ ToOrderModel(a).total = TotalAmount(a.items)
  BY DEF ToOrderModel, Rows, Aggregates, Amounts

\* The events are events.
LEMMA EventTypes ==
  /\ \A o \in OrderIds : NewOrderCreated(o) \in Events
  /\ \A o \in OrderIds, i \in ItemIds : NewOrderItemAdded(o, i) \in Events
  /\ \A o \in OrderIds, t \in Amounts : NewOrderConfirmed(o, t) \in Events
  BY DEF NewOrderCreated, NewOrderItemAdded, NewOrderConfirmed, Events

\* The methods of the aggregate yield aggregates.
LEMMA NewOrderType ==
  ASSUME NEW o \in OrderIds
  PROVE  /\ NewOrder(o) \in Aggregates
         /\ NewOrder(o).status = "DRAFT"
<1>1. <<NewOrderCreated(o)>> \in Seq(Events)
  BY EventTypes
<1>2. QED
  BY <1>1 DEF NewOrder, Aggregates, Statuses

LEMMA AddItemType ==
  ASSUME NEW a \in Aggregates, NEW o \in OrderIds, NEW i \in ItemIds
  PROVE  /\ AddItem(a, o, i) \in Aggregates
         /\ AddItem(a, o, i).status = a.status
<1>1. <<NewOrderItemAdded(o, i)>> \in Seq(Events)
  BY EventTypes
<1>2. QED
  BY <1>1 DEF AddItem, Aggregates

LEMMA ConfirmType ==
  ASSUME NEW a \in Aggregates, NEW o \in OrderIds
  PROVE  /\ Confirm(a, o) \in Aggregates
         /\ Confirm(a, o).items = a.items
<1>1. a.items \in SUBSET ItemIds
  BY DEF Aggregates
<1>2. <<NewOrderConfirmed(o, TotalAmount(a.items))>> \in Seq(Events)
  BY <1>1, EventTypes DEF Amounts
<1>3. QED
  BY <1>2 DEF Confirm, Aggregates, Statuses

LEMMA ReconstructType ==
  ASSUME NEW r \in Rows
  PROVE  ReconstructOrder(r.status, r.version, {}) \in Aggregates
  BY DEF ReconstructOrder, Rows, Aggregates

-----------------------------------------------------------------------------
(* The inductive invariant.                                                *)

\* It holds when no request has been received.
LEMMA InitIInv == Init => IInv
<1> SUFFICES ASSUME Init PROVE IInv
  OBVIOUS
<1>1. TypeOK
  BY DEF Init, TypeOK, Writes, NoWrites, Answers, Commands
<1>2. AggregateLoaded /\ AppliedConfirmed /\ RowOfAggregate /\ ItemsOfAggregate /\ RowLock
  BY DEF Init, AggregateLoaded, AppliedConfirmed, RowOfAggregate, ItemsOfAggregate, RowLock,
         NoWrites, Loaded, Applied, RowWritten, ItemsWritten
<1>3. TotalMatchesItems /\ ConfirmedHasItems
  BY DEF Init, TotalMatchesItems, ConfirmedHasItems, NoRow
<1>4. QED
  BY <1>1, <1>2, <1>3 DEF IInv

\* A handler that rolls back forgets its aggregate, its writes and its lock.
LEMMA RollbackIInv ==
  ASSUME IInv, NEW h \in Handlers, NEW status \in Answers, Rollback(h, status)
  PROVE  IInv'
<1> USE DEF IInv, Rollback, Respond, db
<1>1. TypeOK'
  BY DEF TypeOK, Writes, NoWrites
<1>2. AggregateLoaded' /\ AppliedConfirmed'
  BY DEF TypeOK, AggregateLoaded, AppliedConfirmed, Loaded, Applied
<1>3. RowOfAggregate' /\ ItemsOfAggregate' /\ RowLock'
  BY DEF TypeOK, RowOfAggregate, ItemsOfAggregate, RowLock, RowWritten, ItemsWritten, NoWrites
<1>4. TotalMatchesItems' /\ ConfirmedHasItems'
  BY DEF TotalMatchesItems, ConfirmedHasItems
<1>5. QED
  BY <1>1, <1>2, <1>3, <1>4

\* The statements before the first write touch only the handler's memory.
\* The facts below are what each of them has to establish.
LEMMA LocalStepIInv ==
  ASSUME IInv, NEW h \in Handlers, NEW a \in Aggregates, NEW label \in Loaded \ RowWritten,
         pc[h] \notin RowWritten,
         label \in Applied /\ a.status = "CONFIRMED" => a.items # {},
         agg' = [agg EXCEPT ![h] = a], Goto(h, label), UNCHANGED <<db, cmd, tx, resp>>
  PROVE  IInv'
<1> USE DEF IInv, Goto, db
<1>1. TypeOK'
  BY DEF TypeOK, InTransaction, Loaded
<1>2. AggregateLoaded' /\ AppliedConfirmed'
  BY DEF TypeOK, AggregateLoaded, AppliedConfirmed, Loaded, Applied
<1>3. RowOfAggregate' /\ ItemsOfAggregate' /\ RowLock'
  BY DEF TypeOK, RowOfAggregate, ItemsOfAggregate, RowLock, RowWritten, ItemsWritten
<1>4. TotalMatchesItems' /\ ConfirmedHasItems'
  BY DEF TotalMatchesItems, ConfirmedHasItems
<1>5. QED
  BY <1>1, <1>2, <1>3, <1>4

\* The methods of the aggregate, run by Apply.
LEMMA ApplyIInv ==
  ASSUME IInv, NEW h \in Handlers, NEW err, NEW result, Apply(h, err, result),
         MapError(err) \in Answers,
         err = "nil" => /\ result \in Aggregates
                        /\ result.status = "CONFIRMED" => result.items # {}
  PROVE  IInv'
<1>1. pc[h] = "apply"
  BY DEF Apply
<1>2. CASE err # "nil"
  BY <1>2, RollbackIInv DEF Apply
<1>3. CASE err = "nil"
  BY <1>1, <1>3, LocalStepIInv DEF Apply, Loaded, RowWritten
<1>4. QED
  BY <1>2, <1>3

\* COMMIT installs the row and the items of one aggregate.
LEMMA CommitWrites ==
  ASSUME IInv, NEW h \in Handlers, pc[h] = "commit", ApplyWrites(h)
  PROVE  /\ cmd[h].order \in OrderIds
         /\ tx[h].row \in Rows
         /\ tx[h].events \in Seq(Events)
         /\ agg[h] \in Aggregates /\ agg[h].items \in SUBSET ItemIds
         /\ orders' = [orders EXCEPT ![cmd[h].order] = tx[h].row]
         /\ orderItems' = [orderItems EXCEPT ![cmd[h].order] = agg[h].items]
         /\ outbox' = outbox \o tx[h].events
         /\ tx[h].row.status = agg[h].status
         /\ tx[h].row.total = TotalAmount(agg[h].items)
<1> DEFINE o == cmd[h].order
<1>1. /\ o \in OrderIds
      /\ tx[h].row \in Rows
      /\ tx[h].events \in Seq(Events)
      /\ agg[h] \in Aggregates /\ agg[h].items \in SUBSET ItemIds
  BY DEF IInv, TypeOK, RowOfAggregate, RowWritten, AggregateLoaded, Loaded, Writes, Commands, Aggregates
<1>2. tx[h].deleted = orderItems[o] /\ tx[h].inserted = agg[h].items
  BY DEF IInv, ItemsOfAggregate, ItemsWritten
<1>3. (orderItems[o] \ tx[h].deleted) \cup tx[h].inserted = agg[h].items
  BY <1>2
<1>4. QED
  BY <1>1, <1>3 DEF ApplyWrites, IInv, RowOfAggregate, RowWritten

\* So the tables agree with each other as the aggregate does with itself.
LEMMA CommitIInv ==
  ASSUME IInv, NEW h \in Handlers, pc[h] = "commit", ApplyWrites(h),
         NEW status \in Answers, Respond(h, status)
  PROVE  IInv'
<1> DEFINE o == cmd[h].order
<1>1. /\ o \in OrderIds
      /\ tx[h].row \in Rows
      /\ tx[h].events \in Seq(Events)
      /\ agg[h] \in Aggregates /\ agg[h].items \in SUBSET ItemIds
  BY CommitWrites
<1>2. /\ orders' = [orders EXCEPT ![o] = tx[h].row]
      /\ orderItems' = [orderItems EXCEPT ![o] = agg[h].items]
      /\ tx[h].row.status = agg[h].status
      /\ tx[h].row.total = TotalAmount(agg[h].items)
  BY CommitWrites
<1>3. TypeOK'
  <2>1. outbox' \in Seq(Events)
    BY <1>1, ConcatProperties DEF IInv, TypeOK, ApplyWrites
  <2>2. QED
    BY <1>1, <1>2, <2>1 DEF IInv, TypeOK, Respond, Writes, NoWrites
<1>4. AggregateLoaded' /\ AppliedConfirmed'
  BY DEF IInv, TypeOK, Respond, AggregateLoaded, AppliedConfirmed, Loaded, Applied
<1>5. RowOfAggregate' /\ RowLock'
  BY DEF IInv, TypeOK, Respond, RowOfAggregate, RowLock, RowWritten, NoWrites
<1>6. ItemsOfAggregate'
  \* the lock: the items another transaction has read are not those of o
  BY <1>2 DEF IInv, TypeOK, Respond, ItemsOfAggregate, ItemsWritten, RowLock, RowWritten
<1>7. TotalMatchesItems'
  BY <1>1, <1>2 DEF IInv, TypeOK, TotalMatchesItems
<1>8. ConfirmedHasItems'
  BY <1>1, <1>2 DEF IInv, TypeOK, ConfirmedHasItems, AppliedConfirmed, Applied
<1>9. QED
  BY <1>3, <1>4, <1>5, <1>6, <1>7, <1>8 DEF IInv

\* A request is received, or answered at once, by a handler that holds nothing.
LEMMA ReceiveIInv ==
  ASSUME IInv, NEW h \in Handlers, Receive(h) \/ Reject(h)
  PROVE  IInv'
<1> USE DEF IInv
<1>1. /\ pc[h] = "idle"
      /\ UNCHANGED <<orders, orderItems, outbox, agg, tx>>
      /\ pc' = pc \/ pc' = [pc EXCEPT ![h] = "create"] \/ pc' = [pc EXCEPT ![h] = "find"]
      /\ \E c \in Commands : cmd' = [cmd EXCEPT ![h] = c]
      /\ resp' \in [Handlers -> Answers]
  BY DEF TypeOK, Receive, Reject, Goto, db, MapError, Answers
<1>2. TypeOK'
  BY <1>1 DEF TypeOK, InTransaction
<1>3. AggregateLoaded' /\ AppliedConfirmed'
  BY <1>1 DEF TypeOK, AggregateLoaded, AppliedConfirmed, Loaded, Applied
<1>4. RowOfAggregate' /\ ItemsOfAggregate' /\ RowLock'
  BY <1>1 DEF TypeOK, RowOfAggregate, ItemsOfAggregate, RowLock, RowWritten, ItemsWritten
<1>5. TotalMatchesItems' /\ ConfirmedHasItems'
  BY <1>1 DEF TotalMatchesItems, ConfirmedHasItems
<1>6. QED
  BY <1>2, <1>3, <1>4, <1>5

\* The row is written: the handler gets the lock of its order, as nobody has it.
LEMMA SaveRowIInv ==
  ASSUME IInv, NEW h \in Handlers, SaveRow(h)
  PROVE  IInv'
<1> USE DEF IInv
<1>1. /\ pc[h] = "save"
      /\ agg[h] \in Aggregates
      /\ tx' = [tx EXCEPT ![h].row = ToOrderModel(agg[h])]
      /\ pc' = [pc EXCEPT ![h] = "children"]
      /\ UNCHANGED <<orders, orderItems, outbox, cmd, agg, resp>>
  BY DEF SaveRow, GormSave, Goto, db, AggregateLoaded, Loaded
<1>2. TypeOK'
  BY <1>1, ModelIsRow DEF TypeOK, InTransaction, Writes
<1>3. AggregateLoaded' /\ AppliedConfirmed'
  BY <1>1 DEF TypeOK, AggregateLoaded, AppliedConfirmed, Loaded, Applied
<1>4. RowOfAggregate' /\ ItemsOfAggregate'
  BY <1>1, ModelIsRow DEF TypeOK, RowOfAggregate, ItemsOfAggregate, RowWritten, ItemsWritten, Writes
<1>5. \A g \in Handlers \ {h} : pc[g] \in RowWritten => cmd[g].order # cmd[h].order
  BY AbsentIsNeither DEF SaveRow, Holds, RowOfAggregate
<1>6. RowLock'
  BY <1>1, <1>5 DEF TypeOK, RowLock, RowWritten
<1>7. TotalMatchesItems' /\ ConfirmedHasItems'
  BY <1>1 DEF TotalMatchesItems, ConfirmedHasItems
<1>8. QED
  BY <1>2, <1>3, <1>4, <1>6, <1>7

\* The items are replaced in the transaction, the committed ones noted.
LEMMA ReplaceItemsIInv ==
  ASSUME IInv, NEW h \in Handlers, ReplaceItems(h)
  PROVE  IInv'
<1> USE DEF IInv
<1>1. /\ pc[h] = "children"
      /\ agg[h] \in Aggregates /\ agg[h].items \in SUBSET ItemIds
      /\ cmd[h].order \in OrderIds
      /\ tx' = [tx EXCEPT ![h].deleted = orderItems[cmd[h].order],
                          ![h].inserted = agg[h].items]
      /\ pc' = [pc EXCEPT ![h] = "append"]
      /\ UNCHANGED <<orders, orderItems, outbox, cmd, resp>>
  BY DEF ReplaceItems, Goto, db, TypeOK, Commands, AggregateLoaded, Loaded, Aggregates
<1>2. \E a \in Aggregates :
         /\ agg' = [agg EXCEPT ![h] = a]
         /\ a.status = agg[h].status
         /\ a.items = agg[h].items
  <2> DEFINE a == [agg[h] EXCEPT !.version = @ + 1]
  <2>1. a \in Aggregates /\ a.status = agg[h].status /\ a.items = agg[h].items
    BY <1>1 DEF Aggregates
  <2>2. agg' = [agg EXCEPT ![h] = a]
    BY DEF ReplaceItems
  <2>3. QED
    BY <2>1, <2>2
<1>3. TypeOK'
  <2>1. agg' \in [Handlers -> Aggregates \cup {NoAggregate}]
    BY <1>2 DEF TypeOK
  <2>2. tx' \in [Handlers -> Writes]
    <3>1. orderItems[cmd[h].order] \in SUBSET ItemIds
      BY <1>1 DEF TypeOK
    <3>2. [tx[h] EXCEPT !.deleted = orderItems[cmd[h].order], !.inserted = agg[h].items] \in Writes
      BY <1>1, <3>1 DEF TypeOK, Writes
    <3>3. QED
      BY <1>1, <3>2 DEF TypeOK
  <2>3. QED
    BY <1>1, <2>1, <2>2 DEF TypeOK, InTransaction
<1>4. AggregateLoaded' /\ AppliedConfirmed'
  BY <1>1, <1>2 DEF TypeOK, AggregateLoaded, AppliedConfirmed, Loaded, Applied
<1>5. RowOfAggregate' /\ ItemsOfAggregate' /\ RowLock'
  BY <1>1, <1>2 DEF TypeOK, RowOfAggregate, ItemsOfAggregate, RowLock, RowWritten, ItemsWritten, Writes
<1>6. TotalMatchesItems' /\ ConfirmedHasItems'
  BY <1>1 DEF TotalMatchesItems, ConfirmedHasItems
<1>7. QED
  BY <1>3, <1>4, <1>5, <1>6

\* The events join the write set.
LEMMA AppendEventsIInv ==
  ASSUME IInv, NEW h \in Handlers, AppendEvents(h)
  PROVE  IInv'
<1> USE DEF IInv
<1>1. /\ pc[h] = "append"
      /\ agg[h] \in Aggregates
      /\ tx' = [tx EXCEPT ![h].events = agg[h].raised]
      /\ pc' = [pc EXCEPT ![h] = "commit"]
      /\ UNCHANGED <<orders, orderItems, outbox, cmd, agg, resp>>
  BY DEF AppendEvents, Goto, db, AggregateLoaded, Loaded
<1>2. agg[h].raised \in Seq(Events)
  BY <1>1 DEF Aggregates
<1>3. TypeOK'
  BY <1>1, <1>2 DEF TypeOK, InTransaction, Writes
<1>4. AggregateLoaded' /\ AppliedConfirmed'
  BY <1>1 DEF TypeOK, AggregateLoaded, AppliedConfirmed, Loaded, Applied
<1>5. RowOfAggregate' /\ ItemsOfAggregate' /\ RowLock'
  BY <1>1 DEF TypeOK, RowOfAggregate, ItemsOfAggregate, RowLock, RowWritten, ItemsWritten, Writes
<1>6. TotalMatchesItems' /\ ConfirmedHasItems'
  BY <1>1 DEF TotalMatchesItems, ConfirmedHasItems
<1>7. QED
  BY <1>3, <1>4, <1>5, <1>6

\* Every step preserves the invariant.
LEMMA NextIInv == IInv /\ [Next]_vars => IInv'
<1> SUFFICES ASSUME IInv, [Next]_vars
             PROVE  IInv'
  OBVIOUS
<1>1. CASE UNCHANGED vars
  BY <1>1 DEF vars, IInv, TypeOK, AggregateLoaded, AppliedConfirmed, RowOfAggregate,
              ItemsOfAggregate, RowLock, TotalMatchesItems, ConfirmedHasItems
<1>2. ASSUME NEW h \in Handlers, Receive(h) \/ Reject(h)
      PROVE  IInv'
  BY <1>2, ReceiveIInv
<1>3. ASSUME NEW h \in Handlers, CreateOrder(h)
      PROVE  IInv'
  <2>1. cmd[h].order \in OrderIds
    BY DEF IInv, TypeOK, Commands
  <2>2. CASE Rollback(h, MapError("ErrInvalidCustomerID"))
    BY <2>2, RollbackIInv DEF MapError, Answers
  <2>3. CASE /\ agg' = [agg EXCEPT ![h] = NewOrder(cmd[h].order)]
             /\ Goto(h, "save")
             /\ UNCHANGED <<db, cmd, tx, resp>>
    <3>1. NewOrder(cmd[h].order) \in Aggregates /\ NewOrder(cmd[h].order).status = "DRAFT"
      BY <2>1, NewOrderType
    <3>2. pc[h] \notin RowWritten /\ "save" \in Loaded \ RowWritten
      BY <1>3 DEF CreateOrder, RowWritten, Loaded
    <3>3. QED
      BY <2>3, <3>1, <3>2, LocalStepIInv
  <2>4. QED
    BY <1>3, <2>2, <2>3 DEF CreateOrder
<1>4. ASSUME NEW h \in Handlers, FindRow(h)
      PROVE  IInv'
  <2> DEFINE row == orders[cmd[h].order]
  <2>1. CASE row = NoRow
    BY <1>4, <2>1, RollbackIInv DEF FindRow, MapError, Answers
  <2>2. CASE row # NoRow
    <3>1. row \in Rows
      BY <2>2 DEF IInv, TypeOK, Commands
    <3>2. ReconstructOrder(row.status, row.version, {}) \in Aggregates
      BY <3>1, ReconstructType
    <3>3. pc[h] \notin RowWritten /\ "items" \in Loaded \ RowWritten /\ "items" \notin Applied
      BY <1>4 DEF FindRow, RowWritten, Loaded, Applied
    <3>4. /\ agg' = [agg EXCEPT ![h] = ReconstructOrder(row.status, row.version, {})]
          /\ Goto(h, "items")
          /\ UNCHANGED <<db, cmd, tx, resp>>
      BY <1>4, <2>2 DEF FindRow
    <3>5. QED
      BY <3>2, <3>3, <3>4, LocalStepIInv
  <2>3. QED
    BY <2>1, <2>2
<1>5. ASSUME NEW h \in Handlers, FindItems(h)
      PROVE  IInv'
  <2> DEFINE a == [agg[h] EXCEPT !.items = orderItems[cmd[h].order]]
  <2>1. agg[h] \in Aggregates /\ orderItems[cmd[h].order] \in SUBSET ItemIds
    BY <1>5 DEF FindItems, IInv, TypeOK, AggregateLoaded, Loaded, Commands
  <2>2. a \in Aggregates
    BY <2>1 DEF Aggregates
  <2>3. pc[h] \notin RowWritten /\ "apply" \in Loaded \ RowWritten /\ "apply" \notin Applied
    BY <1>5 DEF FindItems, RowWritten, Loaded, Applied
  <2>4. agg' = [agg EXCEPT ![h] = a] /\ Goto(h, "apply") /\ UNCHANGED <<db, cmd, tx, resp>>
    BY <1>5 DEF FindItems
  <2>5. QED
    BY <2>2, <2>3, <2>4, LocalStepIInv
<1>6. ASSUME NEW h \in Handlers, ApplyAddItem(h)
      PROVE  IInv'
  <2>1. cmd[h].order \in OrderIds /\ cmd[h].item \in ItemIds
    BY <1>6 DEF ApplyAddItem, IInv, TypeOK, Commands
  <2>2. agg[h] \in Aggregates
    BY <1>6 DEF ApplyAddItem, Apply, IInv, AggregateLoaded, Loaded
  <2>3. ASSUME AddItemError(agg[h], cmd[h].item) = "nil"
        PROVE  /\ AddItem(agg[h], cmd[h].order, cmd[h].item) \in Aggregates
               /\ AddItem(agg[h], cmd[h].order, cmd[h].item).status # "CONFIRMED"
    BY <2>1, <2>2, <2>3, AddItemType DEF AddItemError, IsModifiable
  <2>4. MapError(AddItemError(agg[h], cmd[h].item)) \in Answers
    BY DEF MapError, AddItemError, Answers
  <2>5. QED
    BY <1>6, <2>3, <2>4, ApplyIInv DEF ApplyAddItem
<1>7. ASSUME NEW h \in Handlers, ApplyConfirm(h)
      PROVE  IInv'
  <2>1. cmd[h].order \in OrderIds
    BY DEF IInv, TypeOK, Commands
  <2>2. agg[h] \in Aggregates
    BY <1>7 DEF ApplyConfirm, Apply, IInv, AggregateLoaded, Loaded
  <2>3. ASSUME ConfirmError(agg[h]) = "nil"
        PROVE  /\ Confirm(agg[h], cmd[h].order) \in Aggregates
               /\ Confirm(agg[h], cmd[h].order).items # {}
    BY <2>1, <2>2, <2>3, ConfirmType DEF ConfirmError
  <2>4. MapError(ConfirmError(agg[h])) \in Answers
    BY DEF MapError, ConfirmError, Answers
  <2>5. QED
    BY <1>7, <2>3, <2>4, ApplyIInv DEF ApplyConfirm
<1>8. ASSUME NEW h \in Handlers, SaveRow(h) \/ ReplaceItems(h) \/ AppendEvents(h)
      PROVE  IInv'
  BY <1>8, SaveRowIInv, ReplaceItemsIInv, AppendEventsIInv
<1>9. ASSUME NEW h \in Handlers, Commit(h) \/ CommitUnacknowledged(h)
      PROVE  IInv'
  BY <1>9, CommitIInv DEF Commit, CommitUnacknowledged, Success, Answers
<1>10. ASSUME NEW h \in Handlers, Fail(h)
       PROVE  IInv'
  BY <1>10, RollbackIInv DEF Fail, Answers
<1>11. QED
  BY <1>1, <1>2, <1>3, <1>4, <1>5, <1>6, <1>7, <1>8, <1>9, <1>10 DEF Next, Step

LEMMA InductiveInvariant == Spec => []IInv
<1>1. QED
  BY InitIInv, NextIInv, PTL DEF Spec

-----------------------------------------------------------------------------
(* The theorems.                                                           *)

\* Type correctness, for any orders, items and handlers: no statement reads
\* an aggregate or a row that is not there.
THEOREM TypeCorrect == Spec => []TypeOK
<1>1. IInv => TypeOK
  BY DEF IInv
<1>2. QED
  BY InductiveInvariant, <1>1, PTL

\* The total of an order's row is the total of its rows in order_items, for
\* any number of handlers that overwrite one another.
THEOREM TotalAlwaysMatches == Spec => []TotalMatchesItems
<1>1. IInv => TotalMatchesItems
  BY DEF IInv
<1>2. QED
  BY InductiveInvariant, <1>1, PTL

\* No order is ever confirmed without items.
THEOREM ConfirmedAlwaysHasItems == Spec => []ConfirmedHasItems
<1>1. IInv => ConfirmedHasItems
  BY DEF IInv
<1>2. QED
  BY InductiveInvariant, <1>1, PTL
=============================================================================
