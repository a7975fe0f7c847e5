---------------------- MODULE InMemoryPipeline_proofs ----------------------
(***************************************************************************)
(* Proofs about InMemoryPipeline, for any events, workers and failures: in *)
(* the composition each part behaves as it does alone, so what is proved   *)
(* of OutboxRelay and of OrderProjection holds of it, and a row that is    *)
(* marked published has its rows in the read model.  With one worker, and  *)
(* statements that do not fail, order_views shows the history of every     *)
(* order.                                                                  *)
(*                                                                         *)
(* RP and PP are the components once more, with their theorems: the same   *)
(* definitions as R and P.  The history variables of RP play no part.      *)
(***************************************************************************)
EXTENDS InMemoryPipeline, FiniteSetTheorems, TLAPS

RP == INSTANCE OutboxRelay_proofs WITH N <- Len(Log), attempts <- <<>>, refused <- <<>>
PP == INSTANCE OrderProjection_proofs WITH Consumers <- Workers

-----------------------------------------------------------------------------
(* The assumptions of the components hold.                                 *)

LEMMA RelayAssumptions == RP!RelayAssumption
  BY PipelineAssumption DEF RP!RelayAssumption

\* The events, the amounts and the totals are the same in every module.
LEMMA SameTotals ==
  \A S : P!TotalAmount(S) = TotalAmount(S) /\ PP!TotalAmount(S) = TotalAmount(S)
<1>1. \A S : P!TotalAmount(S) = TotalAmount(S)
  BY DEF P!TotalAmount, TotalAmount, P!Wrap, Wrap, P!TotalPrice, TotalPrice,
         P!MapThenSumSet, MapThenSumSet, P!MapThenFoldSet, MapThenFoldSet
<1>2. \A S : PP!TotalAmount(S) = TotalAmount(S)
  BY DEF PP!TotalAmount, TotalAmount, PP!Wrap, Wrap, PP!TotalPrice, TotalPrice,
         PP!MapThenSumSet, MapThenSumSet, PP!MapThenFoldSet, MapThenFoldSet
<1>3. QED
  BY <1>1, <1>2

LEMMA ProjectionAssumptions == PP!ItemAssumption /\ PP!ProjectionAssumption
<1>1. PP!Amounts = Amounts
  BY SameTotals DEF PP!Amounts, Amounts
<1>2. PP!Events = Events
  BY <1>1 DEF PP!Events, Events
<1>3. PP!Statements = P!Statements
  BY DEF PP!Statements, P!Statements
<1>4. PP!ItemAssumption
  BY ItemAssumption DEF PP!ItemAssumption
<1>5. PP!ProjectionAssumption
  BY <1>2, <1>3, PipelineAssumption, FailureAssumption DEF PP!ProjectionAssumption
<1>6. QED
  BY <1>4, <1>5

-----------------------------------------------------------------------------
(* The relay is the same in both instances.                                *)

LEMMA SameRelayRows ==
  /\ R!EventIds = RP!EventIds /\ R!NewRow = RP!NewRow /\ R!AbsentRow = RP!AbsentRow
  /\ R!vars = RP!vars /\ R!vars' = RP!vars'
  /\ \A w : R!Current(w) = RP!Current(w)
  /\ \A r : R!AfterFailure(r) = RP!AfterFailure(r)
  BY DEF R!EventIds, RP!EventIds, R!NewRow, RP!NewRow, R!AbsentRow, RP!AbsentRow, R!vars, RP!vars,
         R!Current, RP!Current, R!AfterFailure, RP!AfterFailure

LEMMA SameRelayFetch == \A w : R!FetchPending(w) <=> RP!FetchPending(w)
<1>1. \A S : R!Cardinality(S) = RP!Cardinality(S)
  BY Zenon DEF R!Cardinality, RP!Cardinality
<1>2. \A S : R!Oldest(S) = RP!Oldest(S)
  BY <1>1 DEF R!Oldest, RP!Oldest
<1>3. QED
  BY <1>2, SameRelayRows DEF R!FetchPending, RP!FetchPending, R!Claimable, RP!Claimable,
                             R!InOtherHands, RP!InOtherHands

LEMMA SameRelay == (R!Init <=> RP!Init) /\ (R!Next <=> RP!Next)
<1>1. R!Init <=> RP!Init
  BY SameRelayRows DEF R!Init, RP!Init
<1>2. /\ \A e : R!Append(e) <=> RP!Append(e)
      /\ \A e : R!BackoffElapses(e) <=> RP!BackoffElapses(e)
      /\ R!RequeueFailed <=> RP!RequeueFailed
  BY SameRelayRows DEF R!Append, RP!Append, R!BackoffElapses, RP!BackoffElapses,
                       R!RequeueFailed, RP!RequeueFailed
<1>3. \A w : R!NextEvent(w) <=> RP!NextEvent(w)
  BY SameRelayRows DEF R!NextEvent, RP!NextEvent
<1>4. \A w : /\ R!PublishOk(w) <=> RP!PublishOk(w)
             /\ R!PublishError(w) <=> RP!PublishError(w)
  BY SameRelayRows DEF R!PublishOk, RP!PublishOk, R!PublishError, RP!PublishError
<1>5. \A w : /\ R!MarkPublished(w) <=> RP!MarkPublished(w)
             /\ R!MarkError(w) <=> RP!MarkError(w)
  BY <1>3, SameRelayRows DEF R!MarkPublished, RP!MarkPublished, R!MarkError, RP!MarkError
<1>6. \A w : /\ R!MarkFailedRead(w) <=> RP!MarkFailedRead(w)
             /\ R!MarkFailedSave(w) <=> RP!MarkFailedSave(w)
  BY <1>3, SameRelayRows DEF R!MarkFailedRead, RP!MarkFailedRead, R!MarkFailedSave, RP!MarkFailedSave
<1>7. \A w : /\ R!PollNothing(w) <=> RP!PollNothing(w)
             /\ R!Crash(w) <=> RP!Crash(w)
  BY SameRelayRows DEF R!PollNothing, RP!PollNothing, R!Crash, RP!Crash
<1>8. R!Next <=> RP!Next
  BY <1>2, <1>4, <1>5, <1>6, <1>7, SameRelayRows, SameRelayFetch DEF R!Next, RP!Next, R!Work, RP!Work
<1>9. QED
  BY <1>1, <1>8

-----------------------------------------------------------------------------
(* And so is the projection.                                               *)

LEMMA SameProjectionRows ==
  /\ P!NoView = PP!NoView /\ P!NoMemory = PP!NoMemory /\ P!LogIds = PP!LogIds
  /\ P!vars = PP!vars /\ P!vars' = PP!vars'
  /\ P!readModel = PP!readModel /\ P!readModel' = PP!readModel'
  /\ \A c : P!OrderOf(c) = PP!OrderOf(c) /\ P!TypeOf(c) = PP!TypeOf(c)
  /\ \A c, p : P!Goto(c, p) <=> PP!Goto(c, p)
  BY DEF P!NoView, PP!NoView, P!NoMemory, PP!NoMemory, P!LogIds, PP!LogIds, P!vars, PP!vars,
         P!readModel, PP!readModel, P!OrderOf, PP!OrderOf, P!TypeOf, PP!TypeOf, P!Goto, PP!Goto

LEMMA SameProjection == (P!Init <=> PP!Init) /\ (P!Next <=> PP!Next)
<1>1. P!Init <=> PP!Init
  BY SameProjectionRows DEF P!Init, PP!Init
<1>2. \A c : P!ReturnError(c) <=> PP!ReturnError(c)
  BY SameProjectionRows DEF P!ReturnError, PP!ReturnError
<1>3. \A c, e : P!Handle(c, e) <=> PP!Handle(c, e)
  BY SameProjectionRows DEF P!Handle, PP!Handle
<1>4. \A c : P!CheckProcessed(c) <=> PP!CheckProcessed(c)
  BY SameProjectionRows DEF P!CheckProcessed, PP!CheckProcessed, P!FirstStatement, PP!FirstStatement
<1>5. \A c : /\ P!FindView(c) <=> PP!FindView(c)
             /\ P!FindItem(c) <=> PP!FindItem(c)
             /\ P!FindMark(c) <=> PP!FindMark(c)
  BY SameProjectionRows DEF P!FindView, PP!FindView, P!FindItem, PP!FindItem, P!FindMark, PP!FindMark
<1>6. \A c : /\ P!WriteView(c) <=> PP!WriteView(c)
             /\ P!WriteItem(c) <=> PP!WriteItem(c)
             /\ P!WriteMark(c) <=> PP!WriteMark(c)
  BY <1>2, SameProjectionRows DEF P!WriteView, PP!WriteView, P!WriteItem, PP!WriteItem,
                                  P!WriteMark, PP!WriteMark
<1>7. \A c : /\ P!GetOrder(c) <=> PP!GetOrder(c)
             /\ P!GetItems(c) <=> PP!GetItems(c)
  BY <1>2, SameTotals, SameProjectionRows DEF P!GetOrder, PP!GetOrder, P!GetItems, PP!GetItems
<1>8. \A c : P!CountItems(c) <=> PP!CountItems(c)
  <2>1. \A S : P!Cardinality(S) = PP!Cardinality(S)
    BY Zenon DEF P!Cardinality, PP!Cardinality
  <2>2. QED
    BY <2>1, SameProjectionRows DEF P!CountItems, PP!CountItems
<1>9. \A c : P!UpdateView(c) <=> PP!UpdateView(c)
  BY SameProjectionRows DEF P!UpdateView, PP!UpdateView, P!UpdateOrderStatus, PP!UpdateOrderStatus
<1>10. \A c : P!Failure(c) <=> PP!Failure(c)
  BY SameProjectionRows DEF P!Failure, PP!Failure, P!CountFails, PP!CountFails,
                            P!StatementFails, PP!StatementFails
<1>11. \A c : (P!Return(c) <=> PP!Return(c)) /\ (P!Abort(c) <=> PP!Abort(c))
  BY SameProjectionRows DEF P!Return, PP!Return, P!Abort, PP!Abort, P!Leave, PP!Leave
<1>12. P!Next <=> PP!Next
  BY <1>3, <1>4, <1>5, <1>6, <1>7, <1>8, <1>9, <1>10, <1>11, SameProjectionRows
     DEF P!Next, PP!Next, P!Statement, PP!Statement
<1>13. QED
  BY <1>1, <1>12

-----------------------------------------------------------------------------
(* Refinement of both components, and what a handler has done.             *)

\* A worker is in Handle only while it publishes, with the event it publishes;
\* once Publish has returned nil, the event is processed, and so it is when
\* MarkFailed has read that another worker marked it.
HandlesCurrent(w) ==
    /\ at[w] # "idle" => pc[w] = "publish" /\ event[w] = R!Current(w)
    /\ at[w] = "ok" => event[w] \in processed
    /\ pc[w] = "published" => R!Current(w) \in processed
    /\ pc[w] = "save" /\ model[w].status = "published" => R!Current(w) \in processed

IInv ==
    /\ RP!IInv /\ PP!IInv
    /\ \A w \in Workers : HandlesCurrent(w)
    /\ PublishedIsProcessed

\* What a worker publishes is an event of the log.
LEMMA PublishesFromLog ==
  ASSUME RP!TypeOK, NEW w \in Workers, pc[w] # "poll"
  PROVE  /\ R!Current(w) \in R!EventIds /\ R!Current(w) \in P!LogIds
         /\ R!Current(w) \in batch[w]
<1>1. batch[w] \subseteq RP!EventIds /\ batch[w] # {}
  BY DEF RP!TypeOK
<1>2. RP!Current(w) \in RP!EventIds /\ RP!Current(w) \in batch[w]
  BY <1>1, RelayAssumptions, RP!CurrentInBatch
<1>3. RP!EventIds = P!LogIds
  BY PipelineAssumption DEF RP!EventIds, P!LogIds
<1>4. QED
  BY <1>2, <1>3, SameRelayRows

\* Each step is a step of the relay, or one it does not see ...
LEMMA RelayStep == Next => R!Next \/ UNCHANGED R!vars
<1> SUFFICES ASSUME Next PROVE R!Next \/ UNCHANGED R!vars
  OBVIOUS
<1>1. ASSUME NEW e \in R!EventIds, EventCommits(e) \/ BackoffElapses(e)
      PROVE  R!Next
  BY <1>1 DEF EventCommits, BackoffElapses, R!Next
<1>2. ASSUME NEW w \in Workers, StartPublish(w) \/ Handler(w) \/ HandlerFailure(w)
      PROVE  UNCHANGED R!vars
  BY <1>2 DEF StartPublish, Handler, HandlerFailure, relayVars, R!vars
<1>3. ASSUME NEW w \in Workers, Fetch(w) \/ EndPublish(w) \/ Mark(w)
      PROVE  R!Next
  BY <1>3 DEF Fetch, EndPublish, Mark, R!Next, R!Work
<1>4. ASSUME NEW w \in Workers, PollNothing(w) \/ MarkError(w) \/ Crash(w)
      PROVE  R!Next
  BY <1>4 DEF PollNothing, MarkError, Crash, R!Next
<1>5. CASE RequeueFailed
  BY <1>5 DEF RequeueFailed, R!Next
<1>6. QED
  BY <1>1, <1>2, <1>3, <1>4, <1>5 DEF Next, Work

\* ... and a step of the projection, or one it does not see.
LEMMA ProjectionStep ==
  ASSUME RP!TypeOK, Next
  PROVE  P!Next \/ UNCHANGED P!vars
<1>1. UNCHANGED projectionVars => UNCHANGED P!vars
  BY DEF projectionVars, P!vars, P!readModel
<1>2. ASSUME NEW e \in R!EventIds, EventCommits(e) \/ BackoffElapses(e)
      PROVE  UNCHANGED P!vars
  BY <1>1, <1>2 DEF EventCommits, BackoffElapses
<1>3. ASSUME NEW w \in Workers, StartPublish(w)
      PROVE  P!Next
  <2>1. R!Current(w) \in P!LogIds
    BY <1>3, PublishesFromLog DEF StartPublish
  <2>2. QED
    BY <1>3, <2>1 DEF StartPublish, P!Next
<1>4. ASSUME NEW w \in Workers, Handler(w) \/ HandlerFailure(w) \/ EndPublish(w)
      PROVE  P!Next
  BY <1>4 DEF Handler, HandlerFailure, EndPublish, P!Next
<1>5. ASSUME NEW w \in Workers, Crash(w)
      PROVE  P!Next \/ UNCHANGED P!vars
  BY <1>1, <1>5 DEF Crash, P!Next
<1>6. ASSUME NEW w \in Workers, Fetch(w) \/ Mark(w) \/ PollNothing(w) \/ MarkError(w)
      PROVE  UNCHANGED P!vars
  BY <1>1, <1>6 DEF Fetch, Mark, PollNothing, MarkError
<1>7. CASE RequeueFailed
  BY <1>1, <1>7 DEF RequeueFailed
<1>8. QED
  BY <1>2, <1>3, <1>4, <1>5, <1>6, <1>7 DEF Next, Work

\* processed_events only grows.
LEMMA ProcessedGrows == (P!Next \/ UNCHANGED P!vars) => processed \subseteq processed'
  BY DEF P!Next, P!vars, P!readModel, P!Handle, P!Statement, P!CheckProcessed, P!FindView,
         P!WriteView, P!FindItem, P!WriteItem, P!GetOrder, P!GetItems, P!CountItems, P!UpdateView,
         P!FindMark, P!WriteMark, P!Failure, P!CountFails, P!StatementFails, P!Return, P!Abort,
         P!Leave, P!ReturnError

\* The workers a step does not touch go on with what they had.
LEMMA OthersGoOn ==
  ASSUME NEW v \in Workers, HandlesCurrent(v), processed \subseteq processed',
         at'[v] = at[v], event'[v] = event[v],
         pc'[v] = pc[v], model'[v] = model[v], batch'[v] = batch[v]
  PROVE  HandlesCurrent(v)'
<1>1. R!Current(v)' = R!Current(v)
  BY DEF R!Current
<1>2. QED
  BY <1>1 DEF HandlesCurrent

\* A worker that has ended an iteration is not in Handle and marks nothing.
LEMMA EndedHandlesCurrent ==
  ASSUME NEW w \in Workers, at'[w] = "idle", pc'[w] \in {"poll", "publish", "failed"}
  PROVE  HandlesCurrent(w)'
  BY DEF HandlesCurrent

LEMMA StutterHandlesCurrent ==
  ASSUME UNCHANGED vars, \A w \in Workers : HandlesCurrent(w), PublishedIsProcessed
  PROVE  (\A w \in Workers : HandlesCurrent(w)') /\ PublishedIsProcessed'
<1>1. UNCHANGED <<row, batch, pc, model, at, event, processed>>
  BY DEF vars, relayVars, projectionVars
<1>2. QED
  BY <1>1, OthersGoOn DEF PublishedIsProcessed, R!EventIds

\* A step that changes only rows, and marks none published.
LEMMA TableStep ==
  ASSUME \A w \in Workers : HandlesCurrent(w), PublishedIsProcessed,
         UNCHANGED <<batch, pc, model>>, UNCHANGED projectionVars,
         \A e \in R!EventIds : row'[e].status = "published" => row[e].status = "published"
  PROVE  (\A w \in Workers : HandlesCurrent(w)') /\ PublishedIsProcessed'
<1>1. UNCHANGED <<at, event, processed>>
  BY DEF projectionVars
<1>2. QED
  BY <1>1, OthersGoOn DEF PublishedIsProcessed, R!EventIds

\* A worker's step that changes no row.
LEMMA WorkerStep ==
  ASSUME RP!TypeOK, PP!TypeOK, \A v \in Workers : HandlesCurrent(v), PublishedIsProcessed,
         NEW w \in Workers, processed \subseteq processed', UNCHANGED row,
         \A v \in Workers \ {w} :
            /\ at'[v] = at[v] /\ event'[v] = event[v]
            /\ pc'[v] = pc[v] /\ model'[v] = model[v] /\ batch'[v] = batch[v],
         HandlesCurrent(w)'
  PROVE  (\A v \in Workers : HandlesCurrent(v)') /\ PublishedIsProcessed'
<1>1. \A v \in Workers \ {w} : HandlesCurrent(v)'
  BY OthersGoOn
<1>2. QED
  BY <1>1 DEF PublishedIsProcessed, R!EventIds

\* A worker that ends its iteration leaves the other workers alone.
LEMMA NextEventLocal ==
  ASSUME RP!TypeOK, NEW w \in Workers, R!NextEvent(w)
  PROVE  /\ pc'[w] \in {"poll", "publish"}
         /\ \A v \in Workers \ {w} :
               pc'[v] = pc[v] /\ model'[v] = model[v] /\ batch'[v] = batch[v]
  BY DEF RP!TypeOK, R!NextEvent

\* A statement of Handle is the worker's own, and ends well only with the
\* event processed.
LEMMA StatementLocal ==
  ASSUME PP!TypeOK, NEW w \in Workers, P!Statement(w) \/ P!Failure(w)
  PROVE  /\ at[w] # "idle" /\ at'[w] # "idle" /\ event' = event
         /\ at[w] # "ok" /\ (at'[w] = "ok" => event[w] \in processed')
         /\ \A v \in Workers \ {w} : at'[v] = at[v]
         /\ processed \subseteq processed'
<1> USE DEF P!Goto, P!ReturnError, P!readModel, PP!TypeOK
<1>1. CASE P!CheckProcessed(w)
  <2>1. at[w] = "check" /\ event[w] \in PP!LogIds
    BY <1>1 DEF P!CheckProcessed
  <2>2. Log[event[w]].type \in {"OrderCreated", "OrderItemAdded", "OrderConfirmed"}
    BY <2>1, ProjectionAssumptions, PP!LogTypes
  <2>3. P!FirstStatement(P!TypeOf(w)) \in {"findView", "findItem", "count"}
    BY <2>2 DEF P!FirstStatement, P!TypeOf
  <2>4. at' = [at EXCEPT ![w] = IF event[w] \in processed THEN "ok" ELSE P!FirstStatement(P!TypeOf(w))]
        /\ event' = event /\ processed' = processed
    BY <1>1 DEF P!CheckProcessed
  <2>5. at'[w] = IF event[w] \in processed THEN "ok" ELSE P!FirstStatement(P!TypeOf(w))
    BY <2>4
  <2>6. QED
    BY <2>1, <2>3, <2>4, <2>5
<1>2. CASE P!FindView(w) \/ P!WriteView(w)
  BY <1>2 DEF P!FindView, P!WriteView
<1>3. CASE P!FindItem(w) \/ P!WriteItem(w)
  BY <1>3 DEF P!FindItem, P!WriteItem
<1>4. CASE P!GetOrder(w) \/ P!GetItems(w)
  BY <1>4 DEF P!GetOrder, P!GetItems
<1>5. CASE P!CountItems(w) \/ P!UpdateView(w)
  BY <1>5 DEF P!CountItems, P!UpdateView
<1>6. CASE P!FindMark(w) \/ P!WriteMark(w)
  BY <1>6 DEF P!FindMark, P!WriteMark
<1>7. CASE P!Failure(w)
  BY <1>7, FailureAssumption DEF P!Failure, P!CountFails, P!StatementFails, P!Statements
<1>8. QED
  BY <1>1, <1>2, <1>3, <1>4, <1>5, <1>6, <1>7 DEF P!Statement

\* One step of the composition, action by action.
LEMMA NextHandlesCurrent ==
  ASSUME RP!IInv, PP!IInv, \A w \in Workers : HandlesCurrent(w), PublishedIsProcessed, [Next]_vars
  PROVE  (\A w \in Workers : HandlesCurrent(w)') /\ PublishedIsProcessed'
<1> DEFINE Goal == (\A w \in Workers : HandlesCurrent(w)') /\ PublishedIsProcessed'
<1>t. RP!TypeOK /\ PP!TypeOK
  BY DEF RP!IInv, PP!IInv
<1>r. row \in [R!EventIds -> RP!OutboxRows] /\ model \in [Workers -> RP!OutboxRows]
  BY <1>t, SameRelayRows DEF RP!TypeOK
<1>n. R!NewRow.status = "pending"
  BY DEF R!NewRow
<1>1. CASE UNCHANGED vars
  BY <1>1, StutterHandlesCurrent
<1>2. ASSUME NEW e \in R!EventIds, EventCommits(e) \/ BackoffElapses(e)
      PROVE  Goal
  <2>1. UNCHANGED <<batch, pc, model>> /\ UNCHANGED projectionVars
    BY <1>2 DEF EventCommits, BackoffElapses, R!Append, R!BackoffElapses
  <2>2. \A d \in R!EventIds : row'[d].status = "published" => row[d].status = "published"
    <3>1. CASE EventCommits(e)
      BY <3>1, <1>r, <1>n DEF EventCommits, R!Append
    <3>2. CASE BackoffElapses(e)
      BY <3>2, <1>r DEF BackoffElapses, R!BackoffElapses, RP!OutboxRows
    <3>3. QED
      BY <1>2, <3>1, <3>2
  <2>3. QED
    BY <2>1, <2>2, TableStep
<1>3. CASE RequeueFailed
  <2>1. UNCHANGED <<batch, pc, model>> /\ UNCHANGED projectionVars
    BY <1>3 DEF RequeueFailed, R!RequeueFailed
  <2>2. \A d \in R!EventIds : row'[d].status = "published" => row[d].status = "published"
    BY <1>3, <1>n DEF RequeueFailed, R!RequeueFailed
  <2>3. QED
    BY <2>1, <2>2, TableStep
<1>4. ASSUME NEW w \in Workers, StartPublish(w)
      PROVE  Goal
  <2>1. UNCHANGED <<row, batch, pc, model, processed>>
    BY <1>4 DEF StartPublish, relayVars, P!Handle, P!readModel
  <2>2. /\ pc[w] = "publish" /\ at' = [at EXCEPT ![w] = "check"]
        /\ event' = [event EXCEPT ![w] = R!Current(w)]
    BY <1>4 DEF StartPublish, P!Handle, P!Goto
  <2>3. at'[w] = "check" /\ event'[w] = R!Current(w)
    BY <1>t, <2>2 DEF PP!TypeOK
  <2>4. R!Current(w)' = R!Current(w)
    BY <2>1 DEF R!Current
  <2>5. HandlesCurrent(w)'
    BY <2>1, <2>2, <2>3, <2>4 DEF HandlesCurrent
  <2>6. QED
    BY <1>t, <2>1, <2>2, <2>5, WorkerStep DEF PP!TypeOK
<1>5. ASSUME NEW w \in Workers, Handler(w) \/ HandlerFailure(w)
      PROVE  Goal
  <2>1. UNCHANGED <<row, batch, pc, model>>
    BY <1>5 DEF Handler, HandlerFailure, relayVars
  <2>2. P!Statement(w) \/ P!Failure(w)
    BY <1>5 DEF Handler, HandlerFailure
  <2>3. R!Current(w)' = R!Current(w)
    BY <2>1 DEF R!Current
  <2>4. /\ at[w] # "idle" /\ event' = event /\ processed \subseteq processed'
        /\ at'[w] = "ok" => event[w] \in processed'
        /\ \A v \in Workers \ {w} : at'[v] = at[v]
    BY <1>t, <2>2, StatementLocal
  <2>5. HandlesCurrent(w)'
    BY <2>1, <2>3, <2>4 DEF HandlesCurrent
  <2>6. QED
    BY <1>t, <2>1, <2>4, <2>5, WorkerStep
<1>6. ASSUME NEW w \in Workers, EndPublish(w)
      PROVE  Goal
  <2>1. /\ UNCHANGED <<row, batch, model, processed>>
        /\ at' = [at EXCEPT ![w] = "idle"] /\ event' = [event EXCEPT ![w] = 0]
    BY <1>6 DEF EndPublish, R!PublishOk, R!PublishError, P!Return, P!Leave, P!Goto, P!readModel
  <2>2. R!Current(w)' = R!Current(w)
    BY <2>1 DEF R!Current
  <2>3. \/ at[w] = "ok" /\ pc' = [pc EXCEPT ![w] = "published"]
        \/ pc' = [pc EXCEPT ![w] = "failed"]
    BY <1>6 DEF EndPublish, R!PublishOk, R!PublishError
  <2>4. HandlesCurrent(w)'
    <3>1. at'[w] = "idle"
      BY <1>t, <2>1 DEF PP!TypeOK
    <3>2. CASE pc' = [pc EXCEPT ![w] = "failed"]
      <4>1. pc'[w] = "failed"
        BY <1>t, <3>2 DEF RP!TypeOK
      <4>2. QED
        BY <3>1, <4>1, EndedHandlesCurrent
    <3>3. CASE at[w] = "ok" /\ pc' = [pc EXCEPT ![w] = "published"]
      <4>1. pc'[w] = "published"
        BY <1>t, <3>3 DEF RP!TypeOK
      <4>2. R!Current(w) \in processed
        BY <3>3 DEF HandlesCurrent
      <4>3. QED
        BY <2>1, <2>2, <3>1, <4>1, <4>2 DEF HandlesCurrent
    <3>4. QED
      BY <2>3, <3>2, <3>3
  <2>5. \A v \in Workers \ {w} :
          /\ at'[v] = at[v] /\ event'[v] = event[v]
          /\ pc'[v] = pc[v] /\ model'[v] = model[v] /\ batch'[v] = batch[v]
    BY <1>t, <2>1, <2>3 DEF PP!TypeOK, RP!TypeOK
  <2>6. QED
    BY <1>t, <2>1, <2>4, <2>5, WorkerStep
<1>7. ASSUME NEW w \in Workers, Fetch(w)
      PROVE  Goal
  <2>1. UNCHANGED <<row, model>> /\ UNCHANGED <<at, event, processed>>
    BY <1>7 DEF Fetch, R!FetchPending, projectionVars
  <2>2. pc[w] = "poll" /\ pc' = [pc EXCEPT ![w] = "publish"]
    BY <1>7 DEF Fetch, R!FetchPending
  <2>3. PICK b \in SUBSET RP!EventIds : batch' = [batch EXCEPT ![w] = b]
    <3>1. RP!FetchPending(w)
      BY <1>7, SameRelayFetch DEF Fetch
    <3>2. QED
      BY <3>1, RelayAssumptions, RP!FetchedAreClaimable DEF RP!Claimable
  <2>4. at'[w] = "idle" /\ pc'[w] = "publish"
    BY <1>t, <2>1, <2>2 DEF HandlesCurrent, RP!TypeOK
  <2>5. HandlesCurrent(w)'
    BY <2>4, EndedHandlesCurrent
  <2>6. \A v \in Workers \ {w} :
          /\ at'[v] = at[v] /\ event'[v] = event[v]
          /\ pc'[v] = pc[v] /\ model'[v] = model[v] /\ batch'[v] = batch[v]
    BY <1>t, <2>1, <2>2, <2>3 DEF RP!TypeOK
  <2>7. QED
    BY <1>t, <2>1, <2>5, <2>6, WorkerStep
<1>8. ASSUME NEW w \in Workers, Crash(w)
      PROVE  Goal
  <2>1. /\ UNCHANGED row /\ batch' = [batch EXCEPT ![w] = {}]
        /\ pc' = [pc EXCEPT ![w] = "poll"] /\ model' = [model EXCEPT ![w] = R!AbsentRow]
    BY <1>8 DEF Crash, R!Crash
  <2>2. /\ processed' = processed /\ at'[w] = "idle"
        /\ \A v \in Workers \ {w} : at'[v] = at[v] /\ event'[v] = event[v]
    <3>1. CASE at[w] = "idle"
      BY <1>8, <3>1 DEF Crash, projectionVars
    <3>2. CASE at[w] # "idle"
      BY <1>8, <1>t, <3>2 DEF Crash, P!Abort, P!Leave, P!Goto, P!readModel, PP!TypeOK
    <3>3. QED
      BY <3>1, <3>2
  <2>3. pc'[w] = "poll"
    BY <1>t, <2>1 DEF RP!TypeOK
  <2>4. HandlesCurrent(w)'
    BY <2>2, <2>3, EndedHandlesCurrent
  <2>5. \A v \in Workers \ {w} :
          /\ at'[v] = at[v] /\ event'[v] = event[v]
          /\ pc'[v] = pc[v] /\ model'[v] = model[v] /\ batch'[v] = batch[v]
    BY <1>t, <2>1, <2>2 DEF RP!TypeOK
  <2>6. QED
    BY <1>t, <2>1, <2>2, <2>4, <2>5, WorkerStep
<1>9. ASSUME NEW w \in Workers, PollNothing(w)
      PROVE  Goal
  <2>1. UNCHANGED vars
    BY <1>9 DEF PollNothing, R!PollNothing, R!vars, vars, relayVars
  <2>2. QED
    BY <2>1, StutterHandlesCurrent
<1>10. ASSUME NEW w \in Workers, MarkError(w)
       PROVE  Goal
  <2>1. /\ UNCHANGED row /\ UNCHANGED <<at, event, processed>>
        /\ R!NextEvent(w) /\ pc[w] \in {"published", "failed", "save"}
    BY <1>10 DEF MarkError, R!MarkError, projectionVars
  <2>2. at'[w] = "idle"
    BY <2>1 DEF HandlesCurrent
  <2>3. /\ HandlesCurrent(w)'
        /\ \A v \in Workers \ {w} :
              /\ at'[v] = at[v] /\ event'[v] = event[v]
              /\ pc'[v] = pc[v] /\ model'[v] = model[v] /\ batch'[v] = batch[v]
    BY <1>t, <2>1, <2>2, NextEventLocal, EndedHandlesCurrent
  <2>4. QED
    BY <1>t, <2>1, <2>3, WorkerStep
<1>11. ASSUME NEW w \in Workers, Mark(w)
       PROVE  Goal
  <2>1. UNCHANGED <<at, event, processed>>
    BY <1>11 DEF Mark, projectionVars
  <2>2. CASE R!MarkFailedRead(w)
    <3>1. /\ UNCHANGED <<row, batch>> /\ pc[w] = "failed" /\ pc' = [pc EXCEPT ![w] = "save"]
          /\ model' = [model EXCEPT ![w] = row[R!Current(w)]]
      BY <2>2 DEF R!MarkFailedRead
    <3>2. R!Current(w) \in R!EventIds /\ R!Current(w)' = R!Current(w)
      BY <1>t, <3>1, PublishesFromLog DEF R!Current
    <3>3. pc'[w] = "save" /\ model'[w] = row[R!Current(w)]
      BY <1>t, <3>1 DEF RP!TypeOK
    <3>4. at'[w] = "idle"
      BY <2>1, <3>1 DEF HandlesCurrent
    <3>5. HandlesCurrent(w)'
      BY <2>1, <3>2, <3>3, <3>4 DEF HandlesCurrent, PublishedIsProcessed
    <3>6. \A v \in Workers \ {w} :
            /\ at'[v] = at[v] /\ event'[v] = event[v]
            /\ pc'[v] = pc[v] /\ model'[v] = model[v] /\ batch'[v] = batch[v]
      BY <1>t, <2>1, <3>1 DEF RP!TypeOK
    <3>7. QED
      BY <1>t, <2>1, <3>1, <3>5, <3>6, WorkerStep
  <2>3. CASE R!MarkPublished(w) \/ R!MarkFailedSave(w)
    <3>1. R!NextEvent(w) /\ pc[w] \in {"published", "save"}
      BY <2>3 DEF R!MarkPublished, R!MarkFailedSave
    <3>2. R!Current(w) \in R!EventIds
      BY <1>t, <3>1, PublishesFromLog
    <3>3. \A e \in R!EventIds \ {R!Current(w)} : row'[e] = row[e]
      BY <2>3, <1>r DEF R!MarkPublished, R!MarkFailedSave
    <3>4. row'[R!Current(w)].status = "published" => R!Current(w) \in processed
      <4>1. CASE R!MarkPublished(w)
        BY <4>1 DEF R!MarkPublished, HandlesCurrent
      <4>2. CASE R!MarkFailedSave(w)
        <5>1. pc[w] = "save" /\ row'[R!Current(w)] = R!AfterFailure(model[w])
          BY <4>2, <3>2, <1>r DEF R!MarkFailedSave
        <5>2. R!AfterFailure(model[w]).status = "published" => model[w].status = "published"
          BY <1>r, RelayAssumptions, RP!AfterFailureRow, SameRelayRows
        <5>3. QED
          BY <5>1, <5>2 DEF HandlesCurrent
      <4>3. QED
        BY <2>3, <4>1, <4>2
    <3>5. PublishedIsProcessed'
      BY <2>1, <3>3, <3>4 DEF PublishedIsProcessed, R!EventIds
    <3>6. at'[w] = "idle"
      BY <2>1, <3>1 DEF HandlesCurrent
    <3>7. HandlesCurrent(w)'
      BY <1>t, <3>1, <3>6, NextEventLocal, EndedHandlesCurrent
    <3>8. \A v \in Workers \ {w} : HandlesCurrent(v)'
      BY <1>t, <2>1, <3>1, NextEventLocal, OthersGoOn
    <3>9. QED
      BY <3>5, <3>7, <3>8
  <2>4. QED
    BY <1>11, <2>2, <2>3 DEF Mark
<1>12. QED
  BY <1>1, <1>2, <1>3, <1>4, <1>5, <1>6, <1>7, <1>8, <1>9, <1>10, <1>11 DEF Next, Work

LEMMA InitIInv == Init => IInv
<1> SUFFICES ASSUME Init PROVE IInv
  OBVIOUS
<1>1. RP!IInv
  BY SameRelay, RelayAssumptions, RP!InitIInv DEF Init
<1>2. PP!IInv
  BY SameProjection, ProjectionAssumptions, PP!InitIInv DEF Init
<1>3. \A w \in Workers : HandlesCurrent(w)
  BY DEF Init, R!Init, P!Init, HandlesCurrent
<1>4. PublishedIsProcessed
  BY DEF Init, R!Init, R!AbsentRow, PublishedIsProcessed
<1>5. QED
  BY <1>1, <1>2, <1>3, <1>4 DEF IInv

LEMMA NextIInv == IInv /\ [Next]_vars => IInv'
<1> SUFFICES ASSUME IInv, [Next]_vars PROVE IInv'
  OBVIOUS
<1>t. RP!IInv /\ PP!IInv /\ RP!TypeOK
  BY DEF IInv, RP!IInv
<1>1. [R!Next]_(R!vars)
  BY RelayStep DEF vars, relayVars, R!vars
<1>2. [P!Next]_(P!vars)
  BY <1>t, ProjectionStep DEF vars, projectionVars, P!vars, P!readModel
<1>3. RP!IInv'
  <2>1. [RP!Next]_(RP!vars)
    BY <1>1, SameRelay, SameRelayRows
  <2>2. QED
    BY <1>t, <2>1, RelayAssumptions, RP!NextIInv
<1>4. PP!IInv'
  <2>1. [PP!Next]_(PP!vars)
    BY <1>2, SameProjection, SameProjectionRows
  <2>2. QED
    BY <1>t, <2>1, ProjectionAssumptions, PP!NextIInv
<1>5. (\A w \in Workers : HandlesCurrent(w)') /\ PublishedIsProcessed'
  BY NextHandlesCurrent DEF IInv
<1>6. QED
  BY <1>3, <1>4, <1>5 DEF IInv

LEMMA InductiveInvariant == Spec => []IInv
<1>1. QED
  BY InitIInv, NextIInv, PTL DEF Spec

-----------------------------------------------------------------------------
(* Theorems.                                                               *)

\* With the bus in the process, the outbox works as OutboxRelay says: Publish
\* is PublishOk or PublishError, and what Handle does is no concern of it.
THEOREM PipelineImplementsRelay == Spec => R!Spec
<1>1. Init => R!Init
  BY DEF Init
<1>2. [Next]_vars => [R!Next]_(R!vars)
  BY RelayStep DEF vars, relayVars, R!vars
<1>3. QED
  BY <1>1, <1>2, PTL DEF Spec, R!Spec

\* The projection works as OrderProjection says: what the workers publish, and
\* when they die, is one of the deliveries it is prepared for.
THEOREM PipelineImplementsProjection == Spec => P!Spec
<1>1. Init => P!Init
  BY DEF Init
<1>2. IInv /\ [Next]_vars => [P!Next]_(P!vars)
  <2>1. IInv => RP!TypeOK
    BY DEF IInv, RP!IInv
  <2>2. QED
    BY <2>1, ProjectionStep DEF vars, projectionVars, P!vars, P!readModel
<1>3. QED
  BY <1>1, <1>2, InductiveInvariant, PTL DEF Spec, P!Spec

\* A row is marked published only when the event is in processed_events, for
\* any number of workers that overwrite one another's marks, any failures of
\* statements and crashes anywhere in Handle or between the marks.
THEOREM PublishedAlwaysProcessed == Spec => []PublishedIsProcessed
<1>1. IInv => PublishedIsProcessed
  BY DEF IInv
<1>2. QED
  BY <1>1, InductiveInvariant, PTL

\* What both components promise together: an event the outbox is done with has
\* its rows in the read model.
THEOREM PublishedAlwaysReflected == Spec => []PublishedIsReflected
<1>1. IInv => PublishedIsReflected
  BY SameProjectionRows DEF IInv, PP!IInv, PP!ProcessedIsReflected, PublishedIsProcessed,
                            PublishedIsReflected
<1>2. QED
  BY <1>1, InductiveInvariant, PTL

\* What the totals depend on: one worker, counts that do not fail, and sums that
\* do not wrap around.
Exact ==
    /\ \A v, w \in Workers : v = w
    /\ "count" \notin MayFail
    /\ P!TotalsFit

LEMMA SameTotalsAgree ==
  /\ Exact <=> PP!Exact
  /\ P!ConfirmedTotals <=> PP!ConfirmedTotals
  /\ TotalsAgree <=> PP!TotalsAgree
<1>1. /\ \A o : P!EventsOf(o) = PP!EventsOf(o)
      /\ \A S : P!ItemsIn(S) = PP!ItemsIn(S)
      /\ \A S : P!TotalAmount(S) = PP!TotalAmount(S)
  BY SameTotals, SameProjectionRows DEF P!EventsOf, PP!EventsOf, P!ItemsIn, PP!ItemsIn
<1>2. \A S : P!Cardinality(S) = PP!Cardinality(S) /\ (P!IsFiniteSet(S) <=> PP!IsFiniteSet(S))
  BY Zenon DEF P!Cardinality, PP!Cardinality, P!IsFiniteSet, PP!IsFiniteSet
<1>3. P!ConfirmedTotals <=> PP!ConfirmedTotals
  BY <1>1, SameProjectionRows DEF P!ConfirmedTotals, PP!ConfirmedTotals
<1>4. P!TotalsFit <=> PP!TotalsFit
  BY <1>1, <1>2 DEF P!TotalsFit, PP!TotalsFit
<1>5. TotalsAgree <=> PP!TotalsAgree
  BY <1>1, <1>2, SameProjectionRows DEF TotalsAgree, P!TotalsAgree, PP!TotalsAgree
<1>6. QED
  BY <1>3, <1>4, <1>5 DEF Exact, PP!Exact

\* With one worker no total is left behind once the item events of the order are
\* processed, for any commands, also ones that overlapped: through failing
\* statements, retries out of order, crashes in the middle of Handle, dead letters
\* and requeues.
THEOREM AloneTotalsAgree == Exact => (Spec => []TotalsAgree)
<1> SUFFICES ASSUME Exact PROVE Spec => []TotalsAgree
  OBVIOUS
<1>e. PP!Exact
  BY SameTotalsAgree
<1>1. Init => PP!TotalsInv
  BY <1>e, SameProjection, ProjectionAssumptions, PP!InitTotalsInv DEF Init
<1>2. IInv /\ PP!TotalsInv /\ [Next]_vars => PP!TotalsInv'
  <2> SUFFICES ASSUME IInv, PP!TotalsInv, [Next]_vars PROVE PP!TotalsInv'
    OBVIOUS
  <2>1. [P!Next]_(P!vars)
    BY ProjectionStep DEF IInv, RP!IInv, vars, projectionVars, P!vars, P!readModel
  <2>2. [PP!Next]_(PP!vars)
    BY <2>1, SameProjection, SameProjectionRows
  <2>3. QED
    BY <1>e, <2>2, ProjectionAssumptions, PP!NextTotalsInv
<1>3. PP!TotalsInv => TotalsAgree
  BY SameTotalsAgree, ProjectionAssumptions, PP!TotalsInvAgrees
<1>4. QED
  BY <1>1, <1>2, <1>3, InductiveInvariant, PTL DEF Spec

-----------------------------------------------------------------------------
(* The history of the orders: when the commands of an order follow one     *)
(* another and no statement of the handler fails, the one worker publishes *)
(* the events of each order in their order.                                *)

Serial ==
    /\ Exact
    /\ P!SerialLog /\ P!ConfirmedTotals /\ MayFail = {}
    /\ OneAtATime

Earlier(e) == {d \in P!EventsOf(Log[e].order) : d < e}

\* No row is waiting for a backoff, none is dead, and none is visible before
\* the earlier ones of its order.
RowsInOrder ==
    \A e \in R!EventIds :
        /\ row[e].status # "failed"
        /\ row[e].status = "pending" => row[e].due
        /\ row[e].status # "absent" => \A d \in Earlier(e) : row[d].status # "absent"

\* What comes before an event of the batch is in the batch too, or processed.
BatchInOrder ==
    \A w \in Workers :
        /\ pc[w] \notin {"failed", "save"}
        /\ \A e \in batch[w] :
              /\ row[e].status # "absent"
              /\ \A d \in Earlier(e) : d \in batch[w] \/ d \in processed

HistoryInv ==
    /\ IInv
    /\ PP!HistoryInv
    /\ RowsInOrder /\ BatchInOrder

\* The events of an order, and its view, are the same in both instances.
LEMMA SameHistory ==
  /\ \A o : P!EventsOf(o) = PP!EventsOf(o)
  /\ \A S : P!ItemsIn(S) = PP!ItemsIn(S)
  /\ \A S : P!ViewOf(S) = PP!ViewOf(S)
  /\ P!SerialLog <=> PP!SerialLog
<1>1. /\ \A o : P!EventsOf(o) = PP!EventsOf(o)
      /\ \A S : P!ItemsIn(S) = PP!ItemsIn(S)
  BY SameProjectionRows DEF P!EventsOf, PP!EventsOf, P!ItemsIn, PP!ItemsIn
<1>2. \A S : P!Cardinality(S) = PP!Cardinality(S)
  BY Zenon DEF P!Cardinality, PP!Cardinality
<1>3. \A S : P!ViewOf(S) = PP!ViewOf(S)
  BY <1>1, <1>2, SameTotals, SameProjectionRows DEF P!ViewOf, PP!ViewOf
<1>4. \A o : P!NewOrderCreated(o) = PP!NewOrderCreated(o)
  BY DEF P!NewOrderCreated, PP!NewOrderCreated
<1>5. P!SerialLog <=> PP!SerialLog
  BY <1>1, <1>4, SameProjectionRows DEF P!SerialLog, PP!SerialLog
<1>6. QED
  BY <1>1, <1>3, <1>5

LEMMA SerialIsOrderly == Serial => PP!Orderly
  BY SameTotalsAgree, SameHistory DEF Serial, PP!Orderly

\* Events are the events of the log; an earlier one is one of them.
LEMMA EventNumbers ==
  /\ R!EventIds = P!LogIds /\ R!EventIds \subseteq Nat
  /\ \A e : Earlier(e) \subseteq R!EventIds
  /\ \A e : \A d \in Earlier(e) : d < e
<1>1. R!EventIds = 1..Len(Log) /\ Len(Log) \in Nat /\ P!LogIds = 1..Len(Log)
  BY PipelineAssumption DEF R!EventIds, P!LogIds
<1>2. QED
  BY <1>1 DEF Earlier, P!EventsOf

\* What is published is done, and what is not is to be fetched.
LEMMA VisibleIsClaimable ==
  ASSUME IInv, RowsInOrder, NEW e \in R!EventIds, row[e].status # "absent"
  PROVE  e \in processed \/ e \in R!Claimable
<1>1. row[e].status \in {"pending", "published"}
  BY SameRelayRows DEF IInv, RP!IInv, RP!TypeOK, RP!OutboxRows, RP!RowStatuses, RowsInOrder
<1>2. QED
  BY <1>1 DEF IInv, PublishedIsProcessed, RowsInOrder, R!Claimable

\* The worker fetches the oldest rows: with an event it fetches those of the
\* same order that are not done.
LEMMA OldestInOrder ==
  ASSUME NEW S \in SUBSET R!EventIds, NEW e \in R!Oldest(S), NEW d \in S, d < e
  PROVE  d \in R!Oldest(S)
<1>1. \A T : R!Cardinality(T) = RP!Cardinality(T)
  BY Zenon DEF R!Cardinality, RP!Cardinality
<1>2. R!Oldest(S) = RP!Oldest(S)
  BY <1>1 DEF R!Oldest, RP!Oldest
<1>3. S \in SUBSET RP!EventIds
  BY SameRelayRows
<1>4. QED
  BY <1>2, <1>3, RelayAssumptions, RP!OldestFirst

\* The worker calls the handler with the oldest event of its batch: what comes
\* before it in its order is processed.
LEMMA HandledInOrder ==
  ASSUME Serial, HistoryInv, [Next]_vars, NEW c \in Workers, NEW e \in PP!LogIds, PP!Handle(c, e)
  PROVE  PP!Prior(e)
<1>t. PP!TypeOK /\ RP!TypeOK
  BY DEF HistoryInv, IInv, RP!IInv, PP!IInv
<1>1. at[c] = "idle" /\ at'[c] = "check" /\ event'[c] = e
  BY <1>t DEF PP!TypeOK, PP!Handle, PP!Goto
<1>2. StartPublish(c)
  <2>1. at' # at
    BY <1>1
  <2>2. PICK w \in Workers : StartPublish(w) \/ Handler(w) \/ HandlerFailure(w) \/ EndPublish(w) \/ Crash(w)
    BY <2>1 DEF Next, vars, projectionVars, EventCommits, BackoffElapses, Work, Fetch, Mark, PollNothing,
                MarkError, RequeueFailed
  <2>3. w = c
    BY DEF Serial, Exact
  <2>4. ~Handler(w) /\ ~HandlerFailure(w)
    BY <1>t, <1>1, <2>3, StatementLocal DEF Handler, HandlerFailure
  <2>5. ~EndPublish(w)
    BY <1>1, <2>3 DEF EndPublish
  <2>6. ~Crash(w)
    BY <1>1, <2>1, <2>3 DEF Crash, projectionVars
  <2>7. QED
    BY <2>2, <2>3, <2>4, <2>5, <2>6
<1>3. pc[c] = "publish" /\ e = R!Current(c)
  BY <1>t, <1>1, <1>2 DEF StartPublish, P!Handle, PP!TypeOK
<1>4. e \in batch[c] /\ batch[c] \subseteq R!EventIds
  BY <1>t, <1>3, PublishesFromLog, SameRelayRows DEF RP!TypeOK
<1>5. \A d \in batch[c] : e <= d
  <2>1. \E x \in batch[c] : \A d \in batch[c] : x <= d
    BY <1>4, SameRelayRows, RelayAssumptions, RP!OldestExists
  <2>2. QED
    BY <1>3, <2>1 DEF R!Current
<1>6. ASSUME NEW d \in Earlier(e)
      PROVE  d \in processed
  <2>1. d \in batch[c] \/ d \in processed
    BY <1>4 DEF HistoryInv, BatchInOrder
  <2>2. d \notin batch[c]
    <3>1. d \in Nat /\ e \in Nat /\ d < e
      BY <1>4, EventNumbers
    <3>2. QED
      BY <1>5, <3>1
  <2>3. QED
    BY <2>1, <2>2
<1>7. QED
  BY <1>6, SameHistory DEF PP!Prior, Earlier

LEMMA NextProjectionHistory ==
  ASSUME Serial, HistoryInv, [Next]_vars
  PROVE  PP!HistoryInv'
<1>1. [PP!Next]_(PP!vars)
  <2>1. [P!Next]_(P!vars)
    BY ProjectionStep DEF HistoryInv, IInv, RP!IInv, vars, projectionVars, P!vars, P!readModel
  <2>2. QED
    BY <2>1, SameProjection, SameProjectionRows
<1>2. PP!Orderly /\ PP!HistoryInv
  BY SerialIsOrderly DEF HistoryInv
<1>3. QED
  BY <1>1, <1>2, HandledInOrder, ProjectionAssumptions, PP!NextHistoryInv

\* The rows and the batch stay as they are while the handler works.
LEMMA SameOrder ==
  ASSUME HistoryInv, UNCHANGED <<row, batch>>, processed \subseteq processed',
         \A w \in Workers : pc'[w] \notin {"failed", "save"}
  PROVE  RowsInOrder' /\ BatchInOrder'
<1>1. \A e : Earlier(e)' = Earlier(e)
  BY DEF Earlier, P!EventsOf, P!LogIds
<1>2. RowsInOrder'
  BY <1>1 DEF HistoryInv, RowsInOrder, R!EventIds
<1>3. BatchInOrder'
  BY <1>1 DEF HistoryInv, BatchInOrder
<1>4. QED
  BY <1>2, <1>3

\* An event becomes visible after the earlier ones of its order.
LEMMA CommitsInOrder ==
  ASSUME Serial, HistoryInv, NEW e \in R!EventIds, EventCommits(e)
  PROVE  RowsInOrder' /\ BatchInOrder'
<1>1. \A x : Earlier(x)' = Earlier(x)
  BY DEF Earlier, P!EventsOf, P!LogIds
<1>2. /\ row' = [row EXCEPT ![e] = R!NewRow]
      /\ UNCHANGED <<batch, pc, processed>>
  BY DEF EventCommits, R!Append, projectionVars
<1>3. /\ R!NewRow.status = "pending" /\ R!NewRow.due
      /\ row \in [R!EventIds -> RP!OutboxRows]
  BY SameRelayRows DEF R!NewRow, HistoryInv, IInv, RP!IInv, RP!TypeOK
<1>4. \A d \in Earlier(e) : row[d].status # "absent"
  <2>1. Earlier(e) \subseteq Seen[e]
    BY EventNumbers DEF Earlier, Serial, OneAtATime, P!LogIds
  <2>2. QED
    BY <2>1 DEF EventCommits
<1>5. \A x \in R!EventIds : row[x].status # "absent" => row'[x].status # "absent"
  BY <1>2, <1>3
<1>6. ASSUME NEW x \in R!EventIds
      PROVE  /\ row'[x].status # "failed"
             /\ row'[x].status = "pending" => row'[x].due
             /\ row'[x].status # "absent" => \A d \in Earlier(x) : row'[d].status # "absent"
  <2>1. \A d \in Earlier(x) : d \in R!EventIds
    BY EventNumbers
  <2>2. CASE x = e
    BY <1>2, <1>3, <1>4, <1>5, <2>1, <2>2
  <2>3. CASE x # e
    BY <1>2, <1>3, <1>5, <2>1, <2>3 DEF HistoryInv, RowsInOrder
  <2>4. QED
    BY <2>2, <2>3
<1>7. RowsInOrder'
  BY <1>1, <1>6 DEF RowsInOrder, R!EventIds
<1>8. \A w \in Workers : batch[w] \subseteq R!EventIds
  BY SameRelayRows DEF HistoryInv, IInv, RP!IInv, RP!TypeOK
<1>9. BatchInOrder'
  BY <1>1, <1>2, <1>5, <1>8 DEF HistoryInv, BatchInOrder
<1>10. QED
  BY <1>7, <1>9

\* The worker fetches what is visible and not done.
LEMMA FetchesInOrder ==
  ASSUME Serial, HistoryInv, NEW w \in Workers, Fetch(w)
  PROVE  RowsInOrder' /\ BatchInOrder'
<1>1. \A x : Earlier(x)' = Earlier(x)
  BY DEF Earlier, P!EventsOf, P!LogIds
<1>2. \A v \in Workers : v = w
  BY DEF Serial, Exact
<1>3. /\ batch' = [batch EXCEPT ![w] = R!Oldest(R!Claimable)]
      /\ pc' = [pc EXCEPT ![w] = "publish"]
      /\ UNCHANGED <<row, processed>>
  <2>1. R!InOtherHands(w) = {}
    BY <1>2 DEF R!InOtherHands
  <2>2. \A locked \in SUBSET R!InOtherHands(w) : R!Claimable \ locked = R!Claimable
    BY <2>1
  <2>3. QED
    BY <2>2 DEF Fetch, R!FetchPending, projectionVars
<1>4. batch'[w] = R!Oldest(R!Claimable) /\ pc'[w] = "publish"
  BY <1>3 DEF HistoryInv, IInv, RP!IInv, RP!TypeOK
<1>5. RowsInOrder'
  BY <1>1, <1>3 DEF HistoryInv, RowsInOrder, R!EventIds
<1>6. ASSUME NEW e \in R!Oldest(R!Claimable)
      PROVE  /\ row[e].status # "absent"
             /\ \A d \in Earlier(e) : d \in R!Oldest(R!Claimable) \/ d \in processed
  <2>1. e \in R!EventIds /\ row[e].status = "pending" /\ R!Claimable \in SUBSET R!EventIds
    BY DEF R!Oldest, R!Claimable
  <2>2. ASSUME NEW d \in Earlier(e)
        PROVE  d \in R!Oldest(R!Claimable) \/ d \in processed
    <3>1. d \in R!EventIds /\ row[d].status # "absent" /\ d < e
      BY <2>1, EventNumbers DEF HistoryInv, RowsInOrder
    <3>2. d \in processed \/ d \in R!Claimable
      BY <3>1, VisibleIsClaimable DEF HistoryInv
    <3>3. QED
      BY <2>1, <3>1, <3>2, OldestInOrder
  <2>3. QED
    BY <2>1, <2>2
<1>7. BatchInOrder'
  BY <1>1, <1>2, <1>3, <1>4, <1>6 DEF BatchInOrder
<1>8. QED
  BY <1>5, <1>7

\* The worker goes on to the next event of the batch, when it is done with one.
LEMMA GoesOnInOrder ==
  ASSUME Serial, HistoryInv, NEW w \in Workers, R!NextEvent(w), pc[w] = "published",
         processed' = processed,
         \/ row' = row
         \/ row' = [row EXCEPT ![R!Current(w)].status = "published"]
  PROVE  RowsInOrder' /\ BatchInOrder'
<1>t. RP!TypeOK /\ row \in [R!EventIds -> RP!OutboxRows]
  BY SameRelayRows DEF HistoryInv, IInv, RP!IInv, RP!TypeOK
<1>1. \A x : Earlier(x)' = Earlier(x)
  BY DEF Earlier, P!EventsOf, P!LogIds
<1>2. PICK e \in R!EventIds : e = R!Current(w) /\ e \in batch[w] /\ e \in processed
  BY <1>t, PublishesFromLog DEF HistoryInv, IInv, HandlesCurrent
<1>3. row[e].status # "absent"
  BY <1>2 DEF HistoryInv, BatchInOrder
<1>4. \A x \in R!EventIds : /\ row'[x].status = "absent" <=> row[x].status = "absent"
                            /\ row'[x].status = row[x].status \/ row'[x].status = "published"
                            /\ row'[x].due = row[x].due
  BY <1>t, <1>2, <1>3 DEF RP!OutboxRows
<1>5. RowsInOrder'
  <2>1. ASSUME NEW x \in R!EventIds
        PROVE  /\ row'[x].status # "failed"
               /\ row'[x].status = "pending" => row'[x].due
               /\ row'[x].status # "absent" => \A d \in Earlier(x) : row'[d].status # "absent"
    <3>1. \A d \in Earlier(x) : d \in R!EventIds
      BY EventNumbers
    <3>2. QED
      BY <1>4, <3>1 DEF HistoryInv, RowsInOrder
  <2>2. QED
    BY <1>1, <2>1 DEF RowsInOrder, R!EventIds
<1>6. batch'[w] = batch[w] \ {e} /\ pc'[w] \in {"poll", "publish"}
  BY <1>t, <1>2 DEF R!NextEvent, RP!TypeOK
<1>7. \A v \in Workers : v = w
  BY DEF Serial, Exact
<1>8. batch[w] \subseteq R!EventIds
  BY <1>t, SameRelayRows DEF RP!TypeOK
<1>9. BatchInOrder'
  BY <1>1, <1>2, <1>4, <1>6, <1>7, <1>8 DEF HistoryInv, BatchInOrder
<1>10. QED
  BY <1>5, <1>9

LEMMA NextOrder ==
  ASSUME Serial, HistoryInv, [Next]_vars
  PROVE  RowsInOrder' /\ BatchInOrder'
<1> DEFINE Goal == RowsInOrder' /\ BatchInOrder'
<1>t. RP!TypeOK /\ PP!TypeOK /\ RowsInOrder /\ BatchInOrder
  BY DEF HistoryInv, IInv, RP!IInv, PP!IInv
<1>p. processed \subseteq processed'
  BY <1>t, ProjectionStep, ProcessedGrows DEF vars, projectionVars, P!vars, P!readModel
<1>1. CASE UNCHANGED vars
  <2>1. UNCHANGED <<row, batch, pc>>
    BY <1>1 DEF vars, relayVars
  <2>2. \A w \in Workers : pc'[w] \notin {"failed", "save"}
    BY <1>t, <2>1 DEF BatchInOrder
  <2>3. QED
    BY <1>p, <2>1, <2>2, SameOrder
<1>2. ASSUME NEW e \in R!EventIds, EventCommits(e)
      PROVE  Goal
  BY <1>2, CommitsInOrder
<1>3. ASSUME NEW e \in R!EventIds, BackoffElapses(e)
      PROVE  FALSE
  BY <1>3 DEF BackoffElapses, R!BackoffElapses, HistoryInv, RowsInOrder
<1>4. CASE RequeueFailed
  BY <1>4 DEF RequeueFailed, R!RequeueFailed, HistoryInv, RowsInOrder
<1>5. ASSUME NEW w \in Workers, StartPublish(w) \/ Handler(w) \/ HandlerFailure(w) \/ PollNothing(w)
      PROVE  Goal
  <2>1. UNCHANGED <<row, batch, pc>>
    BY <1>5 DEF StartPublish, Handler, HandlerFailure, PollNothing, R!PollNothing, R!vars, relayVars
  <2>2. \A v \in Workers : pc'[v] \notin {"failed", "save"}
    BY <1>t, <2>1 DEF BatchInOrder
  <2>3. QED
    BY <1>p, <2>1, <2>2, SameOrder
<1>6. ASSUME NEW w \in Workers, EndPublish(w)
      PROVE  Goal
  <2>1. at[w] # "error"
    BY DEF HistoryInv, PP!HistoryInv, PP!Consistent
  <2>2. R!PublishOk(w)
    BY <1>6, <2>1 DEF EndPublish
  <2>3. UNCHANGED <<row, batch>> /\ pc' = [pc EXCEPT ![w] = "published"]
    BY <2>2 DEF R!PublishOk
  <2>4. \A v \in Workers : pc'[v] \notin {"failed", "save"}
    BY <1>t, <2>3 DEF BatchInOrder, RP!TypeOK
  <2>5. QED
    BY <1>p, <2>3, <2>4, SameOrder
<1>7. ASSUME NEW w \in Workers, Fetch(w)
      PROVE  Goal
  BY <1>7, FetchesInOrder
<1>8. ASSUME NEW w \in Workers, Mark(w) \/ MarkError(w)
      PROVE  Goal
  <2>1. pc[w] \notin {"failed", "save"}
    BY <1>t DEF BatchInOrder
  <2>2. /\ pc[w] = "published" /\ R!NextEvent(w) /\ processed' = processed
        /\ \/ row' = row
           \/ row' = [row EXCEPT ![R!Current(w)].status = "published"]
    BY <1>8, <2>1 DEF Mark, MarkError, R!MarkPublished, R!MarkFailedRead, R!MarkFailedSave, R!MarkError,
                      projectionVars
  <2>3. QED
    BY <2>2, GoesOnInOrder
<1>9. ASSUME NEW w \in Workers, Crash(w)
      PROVE  Goal
  <2>1. UNCHANGED row /\ batch' = [batch EXCEPT ![w] = {}] /\ pc' = [pc EXCEPT ![w] = "poll"]
    BY <1>9 DEF Crash, R!Crash
  <2>2. \A v \in Workers : v = w
    BY DEF Serial, Exact
  <2>3. batch'[w] = {} /\ pc'[w] = "poll"
    BY <1>t, <2>1 DEF RP!TypeOK
  <2>4. BatchInOrder'
    BY <2>2, <2>3 DEF BatchInOrder
  <2>5. RowsInOrder'
    BY <1>t, <2>1 DEF RowsInOrder, Earlier, R!EventIds, P!EventsOf, P!LogIds
  <2>6. QED
    BY <2>4, <2>5
<1>10. QED
  BY <1>1, <1>2, <1>3, <1>4, <1>5, <1>6, <1>7, <1>8, <1>9 DEF Next, Work

LEMMA InitHistoryInv == Serial /\ Init => HistoryInv
<1> SUFFICES ASSUME Serial, Init PROVE HistoryInv
  OBVIOUS
<1>1. IInv
  BY InitIInv
<1>2. PP!HistoryInv
  BY SerialIsOrderly, SameProjection, ProjectionAssumptions, PP!InitHistoryInv DEF Init
<1>3. RowsInOrder /\ BatchInOrder
  BY DEF Init, R!Init, R!AbsentRow, RowsInOrder, BatchInOrder
<1>4. QED
  BY <1>1, <1>2, <1>3 DEF HistoryInv

LEMMA NextHistoryInv == Serial /\ HistoryInv /\ [Next]_vars => HistoryInv'
<1> SUFFICES ASSUME Serial, HistoryInv, [Next]_vars PROVE HistoryInv'
  OBVIOUS
<1>1. IInv'
  BY NextIInv DEF HistoryInv
<1>2. QED
  BY <1>1, NextProjectionHistory, NextOrder DEF HistoryInv

LEMMA HistoryInvariant == Serial => (Spec => []HistoryInv)
<1> SUFFICES ASSUME Serial PROVE Spec => []HistoryInv
  OBVIOUS
<1>1. Init => HistoryInv
  BY InitHistoryInv
<1>2. HistoryInv /\ [Next]_vars => HistoryInv'
  BY NextHistoryInv
<1>3. QED
  BY <1>1, <1>2, PTL DEF Spec

\* When all events of an order are published, its view is the order: with one
\* worker, for any orders and items, however often the worker dies, in the
\* middle of the handler or between two marks.
THEOREM PublishedIsConsistent == Serial => (Spec => []PublishedMeansConsistent)
<1> SUFFICES ASSUME Serial PROVE Spec => []PublishedMeansConsistent
  OBVIOUS
<1>1. HistoryInv => PublishedMeansConsistent
  <2> SUFFICES ASSUME HistoryInv, NEW o \in OrderIds,
                      \A e \in P!EventsOf(o) : row[e].status = "published"
               PROVE  views[o] = P!ViewOf(P!EventsOf(o))
    BY DEF PublishedMeansConsistent
  <2>1. P!EventsOf(o) \subseteq processed
    BY EventNumbers DEF HistoryInv, IInv, PublishedIsProcessed, P!EventsOf
  <2>2. QED
    BY <2>1, SameHistory, ProjectionAssumptions, PP!AllDoneIsShown DEF HistoryInv
<1>2. QED
  BY <1>1, HistoryInvariant, PTL

\* What begins with the first event of an order and leaves none out is its
\* first so many events.
LEMMA FirstOfPrefix ==
  ASSUME NEW o, NEW S \in SUBSET P!EventsOf(o),
         \A e \in S : \A d \in P!EventsOf(o) : d < e => d \in S
  PROVE  IsFiniteSet(S) /\ FirstEvents(o, Cardinality(S)) = S
<1> DEFINE Before(x) == {d \in P!EventsOf(o) : d < x}
<1>1. IsFiniteSet(P!EventsOf(o)) /\ P!EventsOf(o) \subseteq Nat
  <2>1. IsFiniteSet(1..Len(Log))
    BY PipelineAssumption, FS_Interval
  <2>2. P!EventsOf(o) \in SUBSET (1..Len(Log))
    BY PipelineAssumption DEF P!EventsOf, P!LogIds
  <2>3. QED
    BY <2>1, <2>2, FS_Subset
<1>2. IsFiniteSet(S) /\ Cardinality(S) \in Nat
  BY <1>1, FS_Subset, FS_CardinalityType
<1>3. ASSUME NEW e \in P!EventsOf(o)
      PROVE  IsFiniteSet(Before(e)) /\ Cardinality(Before(e)) \in Nat
  <2>1. Before(e) \in SUBSET P!EventsOf(o)
    OBVIOUS
  <2> HIDE DEF Before
  <2>2. QED
    BY <1>1, <2>1, FS_Subset, FS_CardinalityType
<1>4. ASSUME NEW e \in S
      PROVE  Cardinality(Before(e)) < Cardinality(S)
  <2>1. Before(e) \in SUBSET (S \ {e})
    BY <1>1
  <2>2. IsFiniteSet(S \ {e}) /\ Cardinality(S \ {e}) = Cardinality(S) - 1
    BY <1>2, FS_RemoveElement
  <2> HIDE DEF Before
  <2>3. Cardinality(Before(e)) <= Cardinality(S \ {e})
    BY <2>1, <2>2, FS_Subset
  <2>4. QED
    BY <1>2, <1>3, <2>2, <2>3
<1>5. ASSUME NEW e \in P!EventsOf(o) \ S
      PROVE  Cardinality(S) <= Cardinality(Before(e))
  <2>1. ASSUME NEW d \in S
        PROVE  d < e
    <3>1. d \in Nat /\ e \in Nat /\ d # e /\ ~(e < d)
      BY <1>1, <1>5, <2>1
    <3>2. QED
      BY <3>1
  <2>2. S \in SUBSET Before(e)
    BY <2>1
  <2> HIDE DEF Before
  <2>3. QED
    BY <1>3, <2>2, FS_Subset
<1>6. FirstEvents(o, Cardinality(S)) = {e \in P!EventsOf(o) : Cardinality(Before(e)) < Cardinality(S)}
  BY DEF FirstEvents
<1> HIDE DEF Before
<1>7. ASSUME NEW e \in P!EventsOf(o)
      PROVE  Cardinality(Before(e)) < Cardinality(S) <=> e \in S
  BY <1>2, <1>3, <1>4, <1>5
<1>8. QED
  BY <1>2, <1>6, <1>7

\* Each change of a view is the next of the states its order goes through.
LEMMA ViewsStep ==
  ASSUME Serial, HistoryInv, HistoryInv', [Next]_vars
  PROVE  Promise!Next \/ views' = views
<1>1. [PP!Next]_(PP!vars)
  <2>1. [P!Next]_(P!vars)
    BY ProjectionStep DEF HistoryInv, IInv, RP!IInv, vars, projectionVars, P!vars, P!readModel
  <2>2. QED
    BY <2>1, SameProjection, SameProjectionRows
<1>2. CASE views' = views
  BY <1>2
<1>3. CASE views' # views
  <2>1. PICK o \in OrderIds : \E e \in PP!EventsOf(o) :
           /\ PP!IsNext(e)
           /\ views[o] = PP!ViewOf(PP!Done(o))
           /\ views' = [views EXCEPT ![o] = PP!ViewOf(PP!Done(o) \cup {e})]
    BY <1>1, <1>3, SerialIsOrderly, ProjectionAssumptions, PP!ViewsAdvance DEF HistoryInv
  <2>2. PICK e \in PP!EventsOf(o) :
           /\ PP!IsNext(e)
           /\ views[o] = PP!ViewOf(PP!Done(o))
           /\ views' = [views EXCEPT ![o] = PP!ViewOf(PP!Done(o) \cup {e})]
    BY <2>1
  <2>3. PICK D, A : D = PP!Done(o) /\ A = PP!Done(o) \cup {e}
    OBVIOUS
  <2>4. D \in PP!Reached(o) /\ A \in PP!Reached(o)
    BY <2>2, <2>3 DEF PP!Reached
  <2>5. /\ D \in SUBSET P!EventsOf(o) /\ \A x \in D : \A d \in P!EventsOf(o) : d < x => d \in D
        /\ A \in SUBSET P!EventsOf(o) /\ \A x \in A : \A d \in P!EventsOf(o) : d < x => d \in A
    BY <2>4, SameHistory, ProjectionAssumptions, PP!ReachedIsPrefix DEF HistoryInv
  <2>6. /\ IsFiniteSet(D) /\ FirstEvents(o, Cardinality(D)) = D
        /\ IsFiniteSet(A) /\ FirstEvents(o, Cardinality(A)) = A
    BY <2>5, FirstOfPrefix
  <2>7. Cardinality(A) = Cardinality(D) + 1 /\ Cardinality(D) \in Nat
    <3>1. e \notin D /\ A = D \cup {e}
      BY <2>2, <2>3 DEF PP!IsNext, PP!Done
    <3>2. QED
      BY <2>6, <3>1, FS_AddElement, FS_CardinalityType
  <2>8. Cardinality(A) <= Cardinality(P!EventsOf(o)) /\ Cardinality(P!EventsOf(o)) \in Nat
    <3>1. IsFiniteSet(P!EventsOf(o))
      BY FirstOfPrefix
    <3>2. QED
      BY <2>5, <3>1, FS_Subset, FS_CardinalityType
  <2>9. /\ views[o] = ViewAfter(o, Cardinality(A) - 1)
        /\ views' = [views EXCEPT ![o] = ViewAfter(o, Cardinality(A))]
    <3>1. P!ViewOf(D) = PP!ViewOf(D) /\ P!ViewOf(A) = PP!ViewOf(A)
      BY SameHistory
    <3>2. Cardinality(A) - 1 = Cardinality(D)
      BY <2>7
    <3>3. ViewAfter(o, Cardinality(A) - 1) = P!ViewOf(D)
      BY <2>6, <3>2 DEF ViewAfter
    <3>4. ViewAfter(o, Cardinality(A)) = P!ViewOf(A)
      BY <2>6 DEF ViewAfter
    <3>5. QED
      BY <2>2, <2>3, <3>1, <3>3, <3>4
  <2>10. Cardinality(A) \in 1..Cardinality(P!EventsOf(o))
    BY <2>7, <2>8
  <2>11. Promise!Advance(o)
    BY <2>9, <2>10 DEF Promise!Advance
  <2>12. QED
    BY <2>11 DEF Promise!Next
<1>4. QED
  BY <1>2, <1>3

LEMMA ViewsInit == Init => Promise!Init
<1> SUFFICES ASSUME Init PROVE Promise!Init
  OBVIOUS
<1>1. views = [o \in OrderIds |-> P!NoView]
  BY DEF Init, P!Init
<1>2. ASSUME NEW o \in OrderIds
      PROVE  ViewAfter(o, 0) = P!NoView
  <2>1. FirstEvents(o, 0) = {}
    <3>1. {} \in SUBSET P!EventsOf(o) /\ Cardinality({}) = 0
      BY FS_EmptySet
    <3>2. QED
      BY <3>1, FirstOfPrefix
  <2>2. QED
    BY <2>1 DEF ViewAfter, P!ViewOf
<1>3. QED
  BY <1>1, <1>2 DEF Promise!Init

\* order_views goes through the states of every order, one after the other:
\* none is skipped, none is shown twice and none goes back, whatever the worker
\* has to do again after it has died.
THEOREM HistoryIsShown == Serial => (Spec => ShowsTheHistory)
<1> SUFFICES ASSUME Serial PROVE Spec => ShowsTheHistory
  OBVIOUS
<1>1. Init => Promise!Init
  BY ViewsInit
<1>2. HistoryInv /\ HistoryInv' /\ [Next]_vars => [Promise!Next]_views
  BY ViewsStep
<1>3. QED
  BY <1>1, <1>2, HistoryInvariant, PTL DEF Spec, ShowsTheHistory, Promise!Spec
=============================================================================
