--------------------------- MODULE OrderCommands ---------------------------
(***************************************************************************)
(* The write side: HTTP handlers that run CreateOrder, AddItemToOrder and  *)
(* ConfirmOrder, each in one PostgreSQL transaction (READ COMMITTED) over  *)
(* the tables orders, order_items and outbox_events.                       *)
(*                                                                         *)
(* A handler is one request being served, in this process or in another    *)
(* one on the same database.  Every statement of its transaction is a step *)
(* of its own, so the transactions interleave at statement granularity:    *)
(* orders, orderItems and outbox hold what is committed, tx[h] what h has  *)
(* written and not committed, and agg[h] the aggregate h has in memory.    *)
(* A handler that has written the row of an order holds that row's lock    *)
(* until its transaction ends; no other handler can write it meanwhile.    *)
(***************************************************************************)
EXTENDS OrderDomain, FiniteSets

CONSTANTS
    Handlers,      \* requests that can be in progress at the same time
    NoItem         \* the item of a command that has none

ASSUME NoItemAssumption == NoItem \notin ItemIds

VARIABLES
    orders,        \* orders[o]: the committed row of order o, or NoRow
    orderItems,    \* orderItems[o]: the committed rows of order_items with order_id o
    outbox,        \* the committed rows of outbox_events, in commit order
    pc,            \* pc[h]: what handler h does next
    cmd,           \* cmd[h]: the command h serves, or has last served
    agg,           \* agg[h]: the aggregate in h's memory
    tx,            \* tx[h]: h's uncommitted writes
    resp           \* resp[h]: the HTTP status of h's last answer, 0 when none

db   == <<orders, orderItems, outbox>>
vars == <<orders, orderItems, outbox, pc, cmd, agg, tx, resp>>

-----------------------------------------------------------------------------
(* Rows, commands and transactions.                                        *)
NoRow == [status |-> "ABSENT", total |-> 0, version |-> 0]
Rows  == [status : Statuses, total : Amounts, version : Nat]

Commands ==
         [op : {"create"}, order : OrderIds, item : {NoItem}]
    \cup [op : {"add"}, order : OrderIds, item : ItemIds]
    \cup [op : {"confirm"}, order : OrderIds, item : {NoItem}]

NoAggregate == [status |-> "ABSENT", items |-> {}, version |-> 0, raised |-> <<>>]

\* The write set of a transaction: the row of the order, the items deleted
\* and inserted, the outbox rows inserted.
NoWrites == [row |-> NoRow, deleted |-> {}, inserted |-> {}, events |-> <<>>]
Writes   == [row : Rows \cup {NoRow}, deleted : SUBSET ItemIds,
             inserted : SUBSET ItemIds, events : Seq(Events)]

InTransaction == {"create", "find", "items", "apply", "save", "children", "append", "commit"}

\* Row lock: h has written the row of order o and its transaction is open.
Holds(h, o) == tx[h].row # NoRow /\ cmd[h].order = o

ToOrderModel(a) ==
    [status |-> a.status, total |-> TotalAmount(a.items), version |-> a.version]

(* HTTP status of an error: the domain errors by name, 500 for the rest.   *)
MapError(err) ==
    CASE err = "ErrOrderNotFound"                             -> 404
      [] err \in {"ErrOrderNotModifiable",
                  "ErrConcurrencyConflict"}                   -> 409
      [] err = "ErrNoItems"                                   -> 422
      [] err \in {"ErrInvalidQuantity", "ErrInvalidPrice",
                  "ErrInvalidCustomerID"}                     -> 400
      [] OTHER                                                -> 500

Success(op) == IF op = "create" THEN 201 ELSE 200

\* 0: the connection broke and the client got no answer.
Answers == {0, 200, 201, 400, 404, 409, 422, 500}

\* End of the request: its transaction, committed or rolled back, is gone.
Respond(h, status) ==
    /\ pc'   = [pc   EXCEPT ![h] = "idle"]
    /\ agg'  = [agg  EXCEPT ![h] = NoAggregate]
    /\ tx'   = [tx   EXCEPT ![h] = NoWrites]
    /\ resp' = [resp EXCEPT ![h] = status]
    /\ UNCHANGED cmd

Rollback(h, status) == Respond(h, status) /\ UNCHANGED db

Goto(h, label) == pc' = [pc EXCEPT ![h] = label]

-----------------------------------------------------------------------------
Init ==
    /\ orders     = [o \in OrderIds |-> NoRow]
    /\ orderItems = [o \in OrderIds |-> {}]
    /\ outbox     = <<>>
    /\ pc   = [h \in Handlers |-> "idle"]
    /\ cmd \in [Handlers -> {c \in Commands : c.op = "confirm"}]
    /\ agg  = [h \in Handlers |-> NoAggregate]
    /\ tx   = [h \in Handlers |-> NoWrites]
    /\ resp = [h \in Handlers |-> 0]

-----------------------------------------------------------------------------
(* Receipt of a request.                                                   *)

\* UUIDs are never drawn twice: not one in a table, not one in a request.
FreshOrder(o) ==
    /\ orders[o] = NoRow
    /\ \A h \in Handlers : pc[h] # "idle" /\ cmd[h].op = "create" => cmd[h].order # o

FreshItem(i) ==
    /\ \A n \in DOMAIN outbox : outbox[n].type = "OrderItemAdded" => outbox[n].item # i
    /\ \A h \in Handlers : pc[h] # "idle" => cmd[h].item # i

\* The tags of AddItemRequest: quantity and unit price "required,gt=0".
Valid(c) == c.op = "add" => Quantity[c.item] > 0 /\ UnitPrice[c.item] > 0

Fresh(c) == /\ c.op = "create" => FreshOrder(c.order)
            /\ c.op = "add"    => FreshItem(c.item)

\* The body binds and validates and the ids parse: Execute begins a
\* transaction.  The client may name any order, one that does not exist too.
Receive(h) ==
    /\ pc[h] = "idle"
    /\ \E c \in Commands :
          /\ Fresh(c) /\ Valid(c)
          /\ cmd' = [cmd EXCEPT ![h] = c]
          /\ Goto(h, IF c.op = "create" THEN "create" ELSE "find")
    /\ resp' = [resp EXCEPT ![h] = 0]
    /\ UNCHANGED <<db, agg, tx>>

\* Answers that need no transaction: 400 for a body that does not bind or
\* does not validate (confirm has no body), 500 for an order id that does not
\* parse (MapError knows no such error; create has no order id).
Reject(h) ==
    /\ pc[h] = "idle"
    /\ \E c \in Commands :
          /\ Fresh(c)
          /\ cmd' = [cmd EXCEPT ![h] = c]
          /\ \/ c.op # "confirm" /\ resp' = [resp EXCEPT ![h] = 400]
             \/ c.op # "create" /\ Valid(c)
                /\ resp' = [resp EXCEPT ![h] = MapError("invalid order id")]
    /\ UNCHANGED <<db, pc, agg, tx>>

-----------------------------------------------------------------------------
(* The statements of a transaction.                                        *)

\* NewOrder: fails on the nil customer UUID, which passes validation.
CreateOrder(h) ==
    /\ pc[h] = "create"
    /\ \/ /\ agg' = [agg EXCEPT ![h] = NewOrder(cmd[h].order)]
          /\ Goto(h, "save")
          /\ UNCHANGED <<db, cmd, tx, resp>>
       \/ Rollback(h, MapError("ErrInvalidCustomerID"))

\* Mutant of FindRow: a missing order is not noticed.
FindRowUnchecked(h) ==
    /\ pc[h] = "find"
    /\ LET row == orders[cmd[h].order] IN
          agg' = [agg EXCEPT ![h] = ReconstructOrder(row.status, row.version, {})]
    /\ Goto(h, "items")
    /\ UNCHANGED <<db, cmd, tx, resp>>

\* FindByID, first SELECT: the row of the order.
FindRow(h) ==
    /\ pc[h] = "find"
    /\ LET row == orders[cmd[h].order] IN
       \/ /\ row = NoRow
          /\ Rollback(h, MapError("ErrOrderNotFound"))
       \/ /\ row # NoRow
          /\ agg' = [agg EXCEPT ![h] = ReconstructOrder(row.status, row.version, {})]
          /\ Goto(h, "items")
          /\ UNCHANGED <<db, cmd, tx, resp>>

\* FindByID, second SELECT: the items.  READ COMMITTED: they may be newer
\* than the row.
FindItems(h) ==
    /\ pc[h] = "items"
    /\ agg' = [agg EXCEPT ![h].items = orderItems[cmd[h].order]]
    /\ Goto(h, "apply")
    /\ UNCHANGED <<db, cmd, tx, resp>>

\* The method of the aggregate, in memory.
Apply(h, err, result) ==
    /\ pc[h] = "apply"
    /\ \/ err # "nil" /\ Rollback(h, MapError(err))
       \/ /\ err = "nil"
          /\ agg' = [agg EXCEPT ![h] = result]
          /\ Goto(h, "save")
          /\ UNCHANGED <<db, cmd, tx, resp>>

ApplyAddItem(h) ==
    /\ cmd[h].op = "add"
    /\ Apply(h, AddItemError(agg[h], cmd[h].item),
                AddItem(agg[h], cmd[h].order, cmd[h].item))

ApplyConfirm(h) ==
    /\ cmd[h].op = "confirm"
    /\ Apply(h, ConfirmError(agg[h]), Confirm(agg[h], cmd[h].order))

\* Where(id, version).Save(model), as GORM runs it: an UPDATE of every column
\* where id and version match, or, when that touches no row, an INSERT that
\* updates every column on a conflict of the primary key.  Either way the row
\* becomes the model and RowsAffected is 1.
GormSave(row, model) == [row |-> model, rowsAffected |-> 1]

\* Mutant of SaveRow: the row is written outside of the transaction.
SaveRowAutocommit(h) ==
    /\ pc[h] = "save"
    /\ orders' = [orders EXCEPT ![cmd[h].order] = ToOrderModel(agg[h])]
    /\ tx' = [tx EXCEPT ![h].row = ToOrderModel(agg[h])]
    /\ Goto(h, "children")
    /\ UNCHANGED <<orderItems, outbox, cmd, agg, resp>>

\* Save, first statement.  It waits for the row lock.  RowsAffected is never
\* 0, so the branch that would return ErrConcurrencyConflict is never taken.
SaveRow(h) ==
    /\ pc[h] = "save"
    /\ \A g \in Handlers \ {h} : ~Holds(g, cmd[h].order)
    /\ LET saved == GormSave(orders[cmd[h].order], ToOrderModel(agg[h])) IN
       /\ saved.rowsAffected > 0
       /\ tx' = [tx EXCEPT ![h].row = saved.row]
    /\ Goto(h, "children")
    /\ UNCHANGED <<db, cmd, agg, resp>>

\* Mutant of ReplaceItems: the DELETE is forgotten.
ReplaceItemsNoDelete(h) ==
    /\ pc[h] = "children"
    /\ tx' = [tx EXCEPT ![h].inserted = agg[h].items]
    /\ agg' = [agg EXCEPT ![h].version = @ + 1]
    /\ Goto(h, "append")
    /\ UNCHANGED <<db, cmd, resp>>

\* Save, the rest: DELETE the items of the order that are committed now,
\* INSERT those of the aggregate, and bump the version of the aggregate in
\* memory (it is not written again).
ReplaceItems(h) ==
    /\ pc[h] = "children"
    /\ tx' = [tx EXCEPT ![h].deleted = orderItems[cmd[h].order],
                        ![h].inserted = agg[h].items]
    /\ agg' = [agg EXCEPT ![h].version = @ + 1]
    /\ Goto(h, "append")
    /\ UNCHANGED <<db, cmd, resp>>

\* Mutants of AppendEvents: the events were cleared before, or twice there.
AppendNoEvents(h) ==
    /\ pc[h] = "append"
    /\ Goto(h, "commit")
    /\ UNCHANGED <<db, cmd, agg, tx, resp>>
AppendEventsTwice(h) ==
    /\ pc[h] = "append"
    /\ tx' = [tx EXCEPT ![h].events = agg[h].raised \o agg[h].raised]
    /\ Goto(h, "commit")
    /\ UNCHANGED <<db, cmd, agg, resp>>

\* OutboxStore.Append of the events taken from the aggregate.
AppendEvents(h) ==
    /\ pc[h] = "append"
    /\ tx' = [tx EXCEPT ![h].events = agg[h].raised]
    /\ Goto(h, "commit")
    /\ UNCHANGED <<db, cmd, agg, resp>>

\* COMMIT: all the writes become visible in one step.
ApplyWrites(h) ==
    LET o == cmd[h].order IN
    /\ orders' = [orders EXCEPT ![o] = tx[h].row]
    /\ orderItems' = [orderItems EXCEPT ![o] = (@ \ tx[h].deleted) \cup tx[h].inserted]
    /\ outbox' = outbox \o tx[h].events

\* Mutant of Commit: the error of COMMIT is ignored.
CommitErrorIgnored(h) ==
    /\ pc[h] = "commit"
    /\ Rollback(h, Success(cmd[h].op))

Commit(h) ==
    /\ pc[h] = "commit"
    /\ ApplyWrites(h)
    /\ Respond(h, Success(cmd[h].op))

\* The database commits but its acknowledgment, or the process, is lost: the
\* client sees an error, or nothing.
CommitUnacknowledged(h) ==
    /\ pc[h] = "commit"
    /\ ApplyWrites(h)
    /\ \E status \in {0, 500} : Respond(h, status)

\* Mutant of Fail: the transaction is left open.
FailWithoutRollback(h) ==
    /\ pc[h] \in InTransaction
    /\ Goto(h, "idle")
    /\ resp' = [resp EXCEPT ![h] = 500]
    /\ UNCHANGED <<db, cmd, agg, tx>>

\* A statement fails, the request's context is cancelled, the handler panics
\* (500 from the recovery middleware) or the process dies (no answer).
Fail(h) ==
    /\ pc[h] \in InTransaction
    /\ \E status \in {0, 500} : Rollback(h, status)

-----------------------------------------------------------------------------
\* The steps a live handler takes of its own accord.
Step(h) ==
    \/ CreateOrder(h) \/ FindRow(h) \/ FindItems(h)
    \/ ApplyAddItem(h) \/ ApplyConfirm(h)
    \/ SaveRow(h) \/ ReplaceItems(h) \/ AppendEvents(h) \/ Commit(h)

Next == \E h \in Handlers :
    \/ Receive(h) \/ Reject(h)
    \/ Step(h)
    \/ CommitUnacknowledged(h) \/ Fail(h)

Spec == Init /\ [][Next]_vars

\* A live handler runs on, and PostgreSQL hands a row lock to its waiters in
\* the order of their requests, so no one waits for it for ever (strong
\* fairness: the lock is taken and released while h waits).
Fairness == \A h \in Handlers : WF_vars(Step(h)) /\ SF_vars(SaveRow(h))

FairSpec == Spec /\ Fairness

-----------------------------------------------------------------------------
(* Properties.                                                             *)

\* Every variable has its type: a handler's aggregate, write set and answer
\* and the three tables.
TypeOK ==
    /\ orders \in [OrderIds -> Rows \cup {NoRow}]
    /\ orderItems \in [OrderIds -> SUBSET ItemIds]
    /\ outbox \in Seq(Events)
    /\ pc \in [Handlers -> InTransaction \cup {"idle"}]
    /\ cmd \in [Handlers -> Commands]
    /\ agg \in [Handlers -> Aggregates \cup {NoAggregate}]
    /\ tx \in [Handlers -> Writes]
    /\ resp \in [Handlers -> Answers]

Logged(e) == \E n \in DOMAIN outbox : outbox[n] = e

\* The denormalised total: whatever handlers overwrite one another, the total
\* of an order's row is that of its rows in order_items (mapper.go computes
\* one, the DELETE and INSERT of Save write the others).
TotalMatchesItems ==
    \A o \in OrderIds : orders[o] # NoRow => orders[o].total = TotalAmount(orderItems[o])

\* No order is confirmed without items, even when the confirmation and the
\* additions race: Order.Confirm checks a snapshot and Save rewrites it.
ConfirmedHasItems ==
    \A o \in OrderIds : orders[o].status = "CONFIRMED" => orderItems[o] # {}

\* No state without its event (the reason for the outbox): the read side can
\* learn from the outbox of every order, of every item it holds and of the
\* confirmation, at the total its row has.
StateWasAnnounced ==
    \A o \in OrderIds :
        /\ orders[o] # NoRow => Logged(NewOrderCreated(o))
        /\ \A i \in orderItems[o] : Logged(NewOrderItemAdded(o, i))
        /\ orders[o].status = "CONFIRMED" => Logged(NewOrderConfirmed(o, orders[o].total))

\* The events of an order start with its OrderCreated, which is there once,
\* and no item is announced twice: what the projection relies on when it
\* replays the outbox.
LogWellFormed ==
    \A m, n \in DOMAIN outbox :
        /\ outbox[n].type = "OrderCreated" /\ outbox[m].order = outbox[n].order => n <= m
        /\ outbox[n].type = "OrderItemAdded" /\ outbox[m] = outbox[n] => n = m

\* A 2xx answer is given only after the command's event is in the outbox; it
\* can then no longer be lost (Execute returns nil only after COMMIT).
AnsweredWasLogged ==
    \A h \in Handlers :
        resp[h] \in {200, 201} =>
            CASE cmd[h].op = "create"  -> Logged(NewOrderCreated(cmd[h].order))
              [] cmd[h].op = "add"     -> Logged(NewOrderItemAdded(cmd[h].order, cmd[h].item))
              [] cmd[h].op = "confirm" -> \E t \in Amounts :
                                              Logged(NewOrderConfirmed(cmd[h].order, t))

\* Refinement: the tables change as TransactionalOutbox says, one operation
\* and one event in one step (UnitOfWork.Execute).
statusOf == [o \in OrderIds |-> orders[o].status]
Promise == INSTANCE TransactionalOutbox
               WITH status <- statusOf, items <- orderItems, log <- outbox

\* The write side keeps the weak promise for any number of handlers.
ImplementsOutbox == Promise!Spec

\* Every request is answered in the end, or its handler dies: no handler
\* waits for ever for a row lock.
EveryRequestEnds == \A h \in Handlers : pc[h] # "idle" ~> pc[h] = "idle"

-----------------------------------------------------------------------------
(* What the documentation and the tests say, and the code does not do.     *)

\* "Returns ErrConcurrencyConflict on version mismatch" (repository.go, and
\* TestGormOrderRepository_OptimisticConcurrency): a handler commits only if
\* the order still is what it loaded.
BaseItems(h) == IF cmd[h].op = "add" THEN agg[h].items \ {cmd[h].item} ELSE agg[h].items

StaleSaveConflicts ==
    [][\A h \in Handlers :
          Commit(h) /\ cmd[h].op # "create" =>
              /\ IsModifiable(orders[cmd[h].order].status)
              /\ orderItems[cmd[h].order] = BaseItems(h)]_vars
=============================================================================
