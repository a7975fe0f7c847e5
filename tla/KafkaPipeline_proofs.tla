------------------------- MODULE KafkaPipeline_proofs -------------------------
(***************************************************************************)
(* Proofs about KafkaPipeline, for any events and any failures: nothing is *)
(* published that the topic does not have, a commit is only made for a     *)
(* message that was processed, and the outbox and the read model keep what *)
(* they promise alone although two goroutines run the same handler.        *)
(*                                                                         *)
(* RP and PP are the components once more, with their theorems: the same   *)
(* definitions as R and P.  The history variables of RP play no part.      *)
(***************************************************************************)
EXTENDS KafkaPipeline, TLAPS

RP == INSTANCE OutboxRelay_proofs WITH N <- Len(Log), Workers <- {Worker}, MaxRequeues <- 0,
                                       attempts <- <<>>, refused <- <<>>
PP == INSTANCE OrderProjection_proofs WITH Consumers <- {Worker, Consumer}

-----------------------------------------------------------------------------
(* The assumptions of the components hold.                                 *)

LEMMA RelayAssumptions == RP!RelayAssumption
  BY KafkaAssumption DEF RP!RelayAssumption

\* The events, the amounts and the totals are the same in every module.
LEMMA SameTotals ==
  \A S : P!TotalAmount(S) = TotalAmount(S) /\ PP!TotalAmount(S) = TotalAmount(S)
<1>1. \A S : P!TotalAmount(S) = TotalAmount(S)
  BY DEF P!TotalAmount, TotalAmount, P!Wrap, Wrap, P!TotalPrice, TotalPrice,
         P!MapThenSumSet, MapThenSumSet, P!MapThenFoldSet, MapThenFoldSet
<1>2. \A S : PP!TotalAmount(S) = TotalAmount(S)
  BY DEF PP!TotalAmount, TotalAmount, PP!Wrap, Wrap, PP!TotalPrice, TotalPrice,
         PP!MapThenSumSet, MapThenSumSet, PP!MapThenFoldSet, MapThenFoldSet
<1>3. QED
  BY <1>1, <1>2

LEMMA ProjectionAssumptions == PP!ItemAssumption /\ PP!ProjectionAssumption
<1>1. PP!Amounts = Amounts
  BY SameTotals DEF PP!Amounts, Amounts
<1>2. PP!Events = Events
  BY <1>1 DEF PP!Events, Events
<1>3. PP!Statements = P!Statements
  BY DEF PP!Statements, P!Statements
<1>4. PP!ItemAssumption
  BY ItemAssumption DEF PP!ItemAssumption
<1>5. PP!ProjectionAssumption
  BY <1>2, <1>3, KafkaAssumption, FailureAssumption DEF PP!ProjectionAssumption
<1>6. QED
  BY <1>4, <1>5

-----------------------------------------------------------------------------
(* The relay is the same in both instances.                                *)

LEMMA SameRelayRows ==
  /\ R!EventIds = RP!EventIds /\ R!NewRow = RP!NewRow /\ R!AbsentRow = RP!AbsentRow
  /\ R!vars = RP!vars /\ R!vars' = RP!vars'
  /\ \A w : R!Current(w) = RP!Current(w)
  /\ \A r : R!AfterFailure(r) = RP!AfterFailure(r)
  BY DEF R!EventIds, RP!EventIds, R!NewRow, RP!NewRow, R!AbsentRow, RP!AbsentRow, R!vars, RP!vars,
         R!Current, RP!Current, R!AfterFailure, RP!AfterFailure

LEMMA SameRelayFetch == \A w : R!FetchPending(w) <=> RP!FetchPending(w)
<1>1. \A S : R!Cardinality(S) = RP!Cardinality(S)
  BY Zenon DEF R!Cardinality, RP!Cardinality
<1>2. \A S : R!Oldest(S) = RP!Oldest(S)
  BY <1>1 DEF R!Oldest, RP!Oldest
<1>3. QED
  BY <1>2, SameRelayRows DEF R!FetchPending, RP!FetchPending, R!Claimable, RP!Claimable,
                             R!InOtherHands, RP!InOtherHands

LEMMA SameRelay == (R!Init <=> RP!Init) /\ (R!Next <=> RP!Next)
<1>1. R!Init <=> RP!Init
  BY SameRelayRows DEF R!Init, RP!Init
<1>2. /\ \A e : R!Append(e) <=> RP!Append(e)
      /\ \A e : R!BackoffElapses(e) <=> RP!BackoffElapses(e)
      /\ R!RequeueFailed <=> RP!RequeueFailed
  BY SameRelayRows DEF R!Append, RP!Append, R!BackoffElapses, RP!BackoffElapses,
                       R!RequeueFailed, RP!RequeueFailed
<1>3. \A w : R!NextEvent(w) <=> RP!NextEvent(w)
  BY SameRelayRows DEF R!NextEvent, RP!NextEvent
<1>4. \A w : /\ R!PublishOk(w) <=> RP!PublishOk(w)
             /\ R!PublishError(w) <=> RP!PublishError(w)
  BY SameRelayRows DEF R!PublishOk, RP!PublishOk, R!PublishError, RP!PublishError
<1>5. \A w : /\ R!MarkPublished(w) <=> RP!MarkPublished(w)
             /\ R!MarkError(w) <=> RP!MarkError(w)
  BY <1>3, SameRelayRows DEF R!MarkPublished, RP!MarkPublished, R!MarkError, RP!MarkError
<1>6. \A w : /\ R!MarkFailedRead(w) <=> RP!MarkFailedRead(w)
             /\ R!MarkFailedSave(w) <=> RP!MarkFailedSave(w)
  BY <1>3, SameRelayRows DEF R!MarkFailedRead, RP!MarkFailedRead, R!MarkFailedSave, RP!MarkFailedSave
<1>7. \A w : /\ R!PollNothing(w) <=> RP!PollNothing(w)
             /\ R!Crash(w) <=> RP!Crash(w)
  BY SameRelayRows DEF R!PollNothing, RP!PollNothing, R!Crash, RP!Crash
<1>8. R!Next <=> RP!Next
  BY <1>2, <1>4, <1>5, <1>6, <1>7, SameRelayRows, SameRelayFetch DEF R!Next, RP!Next, R!Work, RP!Work
<1>9. QED
  BY <1>1, <1>8

-----------------------------------------------------------------------------
(* And so is the projection.                                               *)

LEMMA SameProjectionRows ==
  /\ P!NoView = PP!NoView /\ P!NoMemory = PP!NoMemory /\ P!LogIds = PP!LogIds
  /\ P!vars = PP!vars /\ P!vars' = PP!vars'
  /\ P!readModel = PP!readModel /\ P!readModel' = PP!readModel'
  /\ \A c : P!OrderOf(c) = PP!OrderOf(c) /\ P!TypeOf(c) = PP!TypeOf(c)
  /\ \A c, p : P!Goto(c, p) <=> PP!Goto(c, p)
  BY DEF P!NoView, PP!NoView, P!NoMemory, PP!NoMemory, P!LogIds, PP!LogIds, P!vars, PP!vars,
         P!readModel, PP!readModel, P!OrderOf, PP!OrderOf, P!TypeOf, PP!TypeOf, P!Goto, PP!Goto

LEMMA SameProjection == (P!Init <=> PP!Init) /\ (P!Next <=> PP!Next)
<1>1. P!Init <=> PP!Init
  BY SameProjectionRows DEF P!Init, PP!Init
<1>2. \A c : P!ReturnError(c) <=> PP!ReturnError(c)
  BY SameProjectionRows DEF P!ReturnError, PP!ReturnError
<1>3. \A c, e : P!Handle(c, e) <=> PP!Handle(c, e)
  BY SameProjectionRows DEF P!Handle, PP!Handle
<1>4. \A c : P!CheckProcessed(c) <=> PP!CheckProcessed(c)
  BY SameProjectionRows DEF P!CheckProcessed, PP!CheckProcessed, P!FirstStatement, PP!FirstStatement
<1>5. \A c : /\ P!FindView(c) <=> PP!FindView(c)
             /\ P!FindItem(c) <=> PP!FindItem(c)
             /\ P!FindMark(c) <=> PP!FindMark(c)
  BY SameProjectionRows DEF P!FindView, PP!FindView, P!FindItem, PP!FindItem, P!FindMark, PP!FindMark
<1>6. \A c : /\ P!WriteView(c) <=> PP!WriteView(c)
             /\ P!WriteItem(c) <=> PP!WriteItem(c)
             /\ P!WriteMark(c) <=> PP!WriteMark(c)
  BY <1>2, SameProjectionRows DEF P!WriteView, PP!WriteView, P!WriteItem, PP!WriteItem,
                                  P!WriteMark, PP!WriteMark
<1>7. \A c : /\ P!GetOrder(c) <=> PP!GetOrder(c)
             /\ P!GetItems(c) <=> PP!GetItems(c)
  BY <1>2, SameTotals, SameProjectionRows DEF P!GetOrder, PP!GetOrder, P!GetItems, PP!GetItems
<1>8. \A c : P!CountItems(c) <=> PP!CountItems(c)
  <2>1. \A S : P!Cardinality(S) = PP!Cardinality(S)
    BY Zenon DEF P!Cardinality, PP!Cardinality
  <2>2. QED
    BY <2>1, SameProjectionRows DEF P!CountItems, PP!CountItems
<1>9. \A c : P!UpdateView(c) <=> PP!UpdateView(c)
  BY SameProjectionRows DEF P!UpdateView, PP!UpdateView, P!UpdateOrderStatus, PP!UpdateOrderStatus
<1>10. \A c : P!Failure(c) <=> PP!Failure(c)
  BY SameProjectionRows DEF P!Failure, PP!Failure, P!CountFails, PP!CountFails,
                            P!StatementFails, PP!StatementFails
<1>11. \A c : (P!Return(c) <=> PP!Return(c)) /\ (P!Abort(c) <=> PP!Abort(c))
  BY SameProjectionRows DEF P!Return, PP!Return, P!Abort, PP!Abort, P!Leave, PP!Leave
<1>12. P!Next <=> PP!Next
  BY <1>3, <1>4, <1>5, <1>6, <1>7, <1>8, <1>9, <1>10, <1>11, SameProjectionRows
     DEF P!Next, PP!Next, P!Statement, PP!Statement
<1>13. QED
  BY <1>1, <1>12

-----------------------------------------------------------------------------
(* The invariant.                                                          *)

\* The reader is between what is committed and what is written.
TopicTypes ==
    /\ topic \in Seq(R!EventIds)
    /\ position \in 0..Len(topic)
    /\ committed \in 0..position
    /\ handled \in BOOLEAN

\* What the outbox worker has written, or the bus was seen to get, is in the
\* topic; the local dispatch runs only between the two steps of Publish.
WorkerWrites ==
    /\ delivered \subseteq Range(topic)
    /\ at[Worker] # "idle" => pc[Worker] = "publish" /\ R!Current(Worker) \in Range(topic)

\* The consumer handles the message it fetched last; when it is about to commit
\* it, that message is processed.
ConsumerHandles ==
    /\ at[Consumer] # "idle" => ~handled /\ position > 0 /\ event[Consumer] = topic[position]
    /\ at[Consumer] = "ok" => event[Consumer] \in processed
    /\ handled => position > 0 /\ topic[position] \in processed

IInv ==
    /\ RP!IInv /\ PP!IInv
    /\ TopicTypes /\ WorkerWrites /\ ConsumerHandles

-----------------------------------------------------------------------------
(* Lemmas.                                                                 *)

\* A message written stays at its offset, behind those that were there.
LEMMA Written ==
  ASSUME NEW e \in R!EventIds, TopicTypes, topic' = Append(topic, e)
  PROVE  /\ topic' \in Seq(R!EventIds) /\ Len(topic') = Len(topic) + 1
         /\ e \in Range(topic') /\ Range(topic) \subseteq Range(topic')
         /\ \A n \in 1..Len(topic) : topic'[n] = topic[n]
<1>1. /\ topic' \in Seq(R!EventIds) /\ Len(topic') = Len(topic) + 1 /\ Len(topic) \in Nat
      /\ \A n \in 1..Len(topic) : topic'[n] = topic[n]
      /\ topic'[Len(topic) + 1] = e
  BY DEF TopicTypes
<1>2. DOMAIN topic = 1..Len(topic) /\ DOMAIN topic' = 1..(Len(topic) + 1)
  BY <1>1 DEF TopicTypes
<1>3. QED
  BY <1>1, <1>2 DEF Range

\* What is published is an event of the log, and so is what is read.
LEMMA PublishesFromLog ==
  ASSUME RP!TypeOK, pc[Worker] # "poll"
  PROVE  R!Current(Worker) \in R!EventIds /\ R!Current(Worker) \in P!LogIds
<1>1. batch[Worker] \subseteq RP!EventIds /\ batch[Worker] # {}
  BY DEF RP!TypeOK
<1>2. RP!Current(Worker) \in RP!EventIds
  BY <1>1, RelayAssumptions, RP!CurrentInBatch
<1>3. RP!EventIds = P!LogIds
  BY KafkaAssumption DEF RP!EventIds, P!LogIds
<1>4. QED
  BY <1>2, <1>3, SameRelayRows

LEMMA ReadsFromLog ==
  ASSUME TopicTypes, position < Len(topic)
  PROVE  /\ topic[position + 1] \in P!LogIds /\ position + 1 \in 1..Len(topic)
         /\ position \in Nat
  BY KafkaAssumption DEF TopicTypes, R!EventIds, P!LogIds

\* processed_events only grows.
LEMMA ProcessedGrows == (P!Next \/ UNCHANGED P!vars) => processed \subseteq processed'
  BY DEF P!Next, P!vars, P!readModel, P!Handle, P!Statement, P!CheckProcessed, P!FindView,
         P!WriteView, P!FindItem, P!WriteItem, P!GetOrder, P!GetItems, P!CountItems, P!UpdateView,
         P!FindMark, P!WriteMark, P!Failure, P!CountFails, P!StatementFails, P!Return, P!Abort,
         P!Leave, P!ReturnError

\* A statement of Handle is the goroutine's own, and ends well only with the
\* event processed.
LEMMA StatementLocal ==
  ASSUME PP!TypeOK, NEW w \in {Worker, Consumer}, P!Statement(w) \/ P!Failure(w)
  PROVE  /\ at[w] # "idle" /\ at'[w] # "idle" /\ event' = event
         /\ at[w] # "ok" /\ (at'[w] = "ok" => event[w] \in processed')
         /\ \A v \in {Worker, Consumer} \ {w} : at'[v] = at[v]
         /\ processed \subseteq processed'
<1> USE DEF P!Goto, P!ReturnError, P!readModel, PP!TypeOK
<1>1. CASE P!CheckProcessed(w)
  <2>1. at[w] = "check" /\ event[w] \in PP!LogIds
    BY <1>1 DEF P!CheckProcessed
  <2>2. Log[event[w]].type \in {"OrderCreated", "OrderItemAdded", "OrderConfirmed"}
    BY <2>1, ProjectionAssumptions, PP!LogTypes
  <2>3. P!FirstStatement(P!TypeOf(w)) \in {"findView", "findItem", "count"}
    BY <2>2 DEF P!FirstStatement, P!TypeOf
  <2>4. at' = [at EXCEPT ![w] = IF event[w] \in processed THEN "ok" ELSE P!FirstStatement(P!TypeOf(w))]
        /\ event' = event /\ processed' = processed
    BY <1>1 DEF P!CheckProcessed
  <2>5. at'[w] = IF event[w] \in processed THEN "ok" ELSE P!FirstStatement(P!TypeOf(w))
    BY <2>4
  <2>6. QED
    BY <2>1, <2>3, <2>4, <2>5
<1>2. CASE P!FindView(w) \/ P!WriteView(w)
  BY <1>2 DEF P!FindView, P!WriteView
<1>3. CASE P!FindItem(w) \/ P!WriteItem(w)
  BY <1>3 DEF P!FindItem, P!WriteItem
<1>4. CASE P!GetOrder(w) \/ P!GetItems(w)
  BY <1>4 DEF P!GetOrder, P!GetItems
<1>5. CASE P!CountItems(w) \/ P!UpdateView(w)
  BY <1>5 DEF P!CountItems, P!UpdateView
<1>6. CASE P!FindMark(w) \/ P!WriteMark(w)
  BY <1>6 DEF P!FindMark, P!WriteMark
<1>7. CASE P!Failure(w)
  BY <1>7, FailureAssumption DEF P!Failure, P!CountFails, P!StatementFails, P!Statements
<1>8. QED
  BY <1>1, <1>2, <1>3, <1>4, <1>5, <1>6, <1>7 DEF P!Statement

-----------------------------------------------------------------------------
(* The relay and the projection, in the composition.                       *)

\* Each step is a step of the relay, or one it does not see.
LEMMA RelayStep == Next => R!Next \/ UNCHANGED R!vars
<1> SUFFICES ASSUME Next PROVE R!Next \/ UNCHANGED R!vars
  OBVIOUS
<1>1. ASSUME NEW e \in R!EventIds, EventCommits(e) \/ BackoffElapses(e)
      PROVE  R!Next
  BY <1>1 DEF EventCommits, BackoffElapses, R!Next
<1>2. CASE Fetch \/ WriteFails \/ EndPublish \/ Mark
  BY <1>2 DEF Fetch, WriteFails, EndPublish, Mark, R!Next, R!Work
<1>3. CASE MarkError \/ PollNothing
  BY <1>3 DEF MarkError, PollNothing, R!Next
<1>4. CASE WriteMessage \/ FetchMessage \/ EndHandle \/ CommitMessages
  BY <1>4 DEF WriteMessage, FetchMessage, EndHandle, CommitMessages, relayVars, R!vars
<1>5. ASSUME NEW c \in {Worker, Consumer}, Handler(c) \/ HandlerFailure(c)
      PROVE  UNCHANGED R!vars
  BY <1>5 DEF Handler, HandlerFailure, relayVars, R!vars
<1>6. CASE Restart
  BY <1>6 DEF Restart, R!Next, relayVars, R!vars
<1>7. QED
  BY <1>1, <1>2, <1>3, <1>4, <1>5, <1>6 DEF Next, WorkerStep, ConsumerStep

\* ... and a step of the projection, or one it does not see, or the restart,
\* which takes both goroutines down.
LEMMA ProjectionStep ==
  ASSUME RP!TypeOK, TopicTypes, Next
  PROVE  P!Next \/ UNCHANGED P!vars \/ Restart
<1>1. UNCHANGED projectionVars => UNCHANGED P!vars
  BY DEF projectionVars, P!vars, P!readModel
<1>2. ASSUME NEW e \in R!EventIds, EventCommits(e) \/ BackoffElapses(e)
      PROVE  UNCHANGED P!vars
  BY <1>1, <1>2 DEF EventCommits, BackoffElapses
<1>3. CASE Fetch \/ WriteFails \/ Mark \/ MarkError \/ PollNothing \/ CommitMessages
  BY <1>1, <1>3 DEF Fetch, WriteFails, Mark, MarkError, PollNothing, CommitMessages
<1>4. CASE WriteMessage
  <2>1. R!Current(Worker) \in P!LogIds
    BY <1>4, PublishesFromLog DEF WriteMessage
  <2>2. QED
    BY <1>4, <2>1 DEF WriteMessage, P!Next
<1>5. CASE FetchMessage
  <2>1. topic[position + 1] \in P!LogIds
    BY <1>5, ReadsFromLog DEF FetchMessage
  <2>2. QED
    BY <1>5, <2>1 DEF FetchMessage, P!Next
<1>6. CASE EndPublish \/ EndHandle
  BY <1>6 DEF EndPublish, EndHandle, P!Next
<1>7. ASSUME NEW c \in {Worker, Consumer}, Handler(c) \/ HandlerFailure(c)
      PROVE  P!Next
  BY <1>7 DEF Handler, HandlerFailure, P!Next
<1>8. QED
  BY <1>2, <1>3, <1>4, <1>5, <1>6, <1>7 DEF Next, WorkerStep, ConsumerStep

\* The restart leaves the tables, and nobody in the middle of anything.
LEMMA RestartProjection ==
  ASSUME PP!IInv, Restart
  PROVE  PP!IInv'
<1>1. /\ UNCHANGED <<views, itemViews, processed, failures>>
      /\ at'     = [c \in {Worker, Consumer} |-> "idle"]
      /\ event'  = [c \in {Worker, Consumer} |-> 0]
      /\ memory' = [c \in {Worker, Consumer} |-> PP!NoMemory]
  BY SameProjectionRows DEF Restart
<1>2. PP!TypeOK'
  BY <1>1, ProjectionAssumptions, PP!MemoryTypes DEF PP!IInv, PP!TypeOK, PP!Places
<1>3. \A c \in {Worker, Consumer} : PP!InPlace(c)'
  BY <1>1 DEF PP!InPlace, PP!Marking, PP!ViewFound, PP!ItemWritten
<1>4. PP!ItemsFinite' /\ PP!ProcessedIsReflected' /\ PP!CountNeverAhead'
  BY <1>1 DEF PP!IInv, PP!ItemsFinite, PP!ProcessedIsReflected, PP!CountNeverAhead
<1>5. QED
  BY <1>2, <1>3, <1>4 DEF PP!IInv

-----------------------------------------------------------------------------
(* The topic, step by step.                                                *)

\* A step that leaves the consumer and its place in the topic alone.
LEMMA ConsumerGoesOn ==
  ASSUME TopicTypes, ConsumerHandles, UNCHANGED <<topic, position, committed, handled>>,
         processed \subseteq processed',
         at'[Consumer] = at[Consumer], event'[Consumer] = event[Consumer]
  PROVE  TopicTypes' /\ ConsumerHandles'
  BY DEF TopicTypes, ConsumerHandles, R!EventIds

\* A step in which the worker stays in the local dispatch, or outside of it.
LEMMA WorkerGoesOn ==
  ASSUME WorkerWrites, UNCHANGED <<topic, batch, pc, delivered>>,
         at[Worker] = "idle" => at'[Worker] = "idle"
  PROVE  WorkerWrites'
<1>1. R!Current(Worker)' = R!Current(Worker)
  BY DEF R!Current
<1>2. QED
  BY <1>1 DEF WorkerWrites

LEMMA NextTopic ==
  ASSUME IInv, [Next]_vars
  PROVE  TopicTypes' /\ WorkerWrites' /\ ConsumerHandles'
<1> DEFINE Goal == TopicTypes' /\ WorkerWrites' /\ ConsumerHandles'
<1>t. /\ RP!TypeOK /\ PP!TypeOK /\ TopicTypes /\ WorkerWrites /\ ConsumerHandles
      /\ Worker # Consumer
  BY KafkaAssumption DEF IInv, RP!IInv, PP!IInv
<1>a. /\ DOMAIN at = {Worker, Consumer} /\ DOMAIN event = {Worker, Consumer}
      /\ at = [c \in {Worker, Consumer} |-> at[c]] /\ event = [c \in {Worker, Consumer} |-> event[c]]
      /\ pc = [w \in {Worker} |-> pc[w]]
  BY <1>t DEF PP!TypeOK, RP!TypeOK
<1>1. CASE UNCHANGED vars
  <2>1. UNCHANGED <<batch, pc, delivered, processed, at, event, topic, position, committed, handled>>
    BY <1>1 DEF vars, relayVars, projectionVars, kafkaVars
  <2>2. QED
    BY <1>t, <2>1, ConsumerGoesOn, WorkerGoesOn
<1>2. ASSUME NEW e \in R!EventIds, EventCommits(e) \/ BackoffElapses(e)
      PROVE  Goal
  <2>1. UNCHANGED <<batch, pc, delivered, processed, at, event, topic, position, committed, handled>>
    BY <1>2 DEF EventCommits, BackoffElapses, R!Append, R!BackoffElapses, projectionVars, kafkaVars
  <2>2. QED
    BY <1>t, <2>1, ConsumerGoesOn, WorkerGoesOn
<1>3. CASE Fetch \/ Mark \/ MarkError \/ PollNothing
  <2>1. UNCHANGED <<delivered, processed, at, event, topic, position, committed, handled>>
    BY <1>3 DEF Fetch, Mark, MarkError, PollNothing, R!FetchPending, R!MarkPublished,
                R!MarkFailedRead, R!MarkFailedSave, R!MarkError, R!PollNothing, R!vars,
                projectionVars, kafkaVars
  <2>2. pc[Worker] # "publish"
    BY <1>3 DEF Fetch, Mark, MarkError, PollNothing, R!FetchPending, R!MarkPublished,
                R!MarkFailedRead, R!MarkFailedSave, R!MarkError, R!PollNothing
  <2>3. at'[Worker] = "idle"
    BY <1>t, <2>1, <2>2 DEF WorkerWrites
  <2>4. WorkerWrites'
    BY <1>t, <2>1, <2>3 DEF WorkerWrites
  <2>5. QED
    BY <1>t, <2>1, <2>4, ConsumerGoesOn
<1>4. CASE WriteMessage
  <2> DEFINE e == R!Current(Worker)
  <2>1. /\ pc[Worker] = "publish" /\ topic' = Append(topic, e)
        /\ UNCHANGED <<batch, pc, delivered, processed, position, committed, handled>>
        /\ at' = [at EXCEPT ![Worker] = "check"] /\ event' = [event EXCEPT ![Worker] = e]
    BY <1>4 DEF WriteMessage, P!Handle, P!Goto, P!readModel, relayVars
  <2>2. e \in R!EventIds /\ e' = e
    BY <1>t, <2>1, PublishesFromLog DEF R!Current
  <2>3. /\ topic' \in Seq(R!EventIds) /\ Len(topic') = Len(topic) + 1
        /\ e \in Range(topic') /\ Range(topic) \subseteq Range(topic')
        /\ \A n \in 1..Len(topic) : topic'[n] = topic[n]
    BY <1>t, <2>1, <2>2, Written
  <2>4. WorkerWrites'
    BY <1>t, <2>1, <2>2, <2>3 DEF WorkerWrites
  <2>5. TopicTypes'
    BY <1>t, <2>1, <2>3 DEF TopicTypes, R!EventIds
  <2>6. position > 0 => topic'[position] = topic[position]
    BY <1>t, <2>3 DEF TopicTypes
  <2>7. at'[Consumer] = at[Consumer] /\ event'[Consumer] = event[Consumer]
    BY <1>t, <1>a, <2>1
  <2>8. ConsumerHandles'
    <3>1. position' = position /\ (handled' <=> handled) /\ processed' = processed
      BY <2>1, Zenon
    <3>2. QED
      BY <1>t, <2>6, <2>7, <3>1 DEF ConsumerHandles
  <2>9. QED
    BY <2>4, <2>5, <2>8
<1>5. CASE WriteFails
  <2> DEFINE e == R!Current(Worker)
  <2>1. /\ at[Worker] = "idle" /\ pc[Worker] = "publish"
        /\ UNCHANGED <<processed, at, event, position, committed, handled>>
    BY <1>5 DEF WriteFails, R!PublishError, projectionVars
  <2>2. e \in R!EventIds
    BY <1>t, <2>1, PublishesFromLog
  <2>3. CASE UNCHANGED <<topic, delivered>>
    <3>1. WorkerWrites'
      BY <1>t, <2>1, <2>3 DEF WorkerWrites
    <3>2. QED
      BY <1>t, <2>1, <2>3, <3>1, ConsumerGoesOn
  <2>4. CASE topic' = Append(topic, e) /\ delivered' = delivered \cup {e}
    <3>1. /\ topic' \in Seq(R!EventIds) /\ Len(topic') = Len(topic) + 1
          /\ e \in Range(topic') /\ Range(topic) \subseteq Range(topic')
          /\ \A n \in 1..Len(topic) : topic'[n] = topic[n]
      BY <1>t, <2>2, <2>4, Written
    <3>2. WorkerWrites'
      BY <1>t, <2>1, <2>4, <3>1 DEF WorkerWrites
    <3>3. TopicTypes'
      BY <1>t, <2>1, <3>1 DEF TopicTypes, R!EventIds
    <3>4. position > 0 => topic'[position] = topic[position]
      BY <1>t, <3>1 DEF TopicTypes
    <3>5. ConsumerHandles'
      BY <1>t, <2>1, <3>4 DEF ConsumerHandles
    <3>6. QED
      BY <3>2, <3>3, <3>5
  <2>5. QED
    BY <1>5, <2>3, <2>4 DEF WriteFails
<1>6. CASE EndPublish
  <2>1. /\ at[Worker] # "idle" /\ delivered' = delivered \cup {R!Current(Worker)}
        /\ UNCHANGED <<processed, topic, position, committed, handled>>
        /\ at' = [at EXCEPT ![Worker] = "idle"] /\ event' = [event EXCEPT ![Worker] = 0]
    BY <1>6 DEF EndPublish, R!PublishOk, P!Return, P!Leave, P!Goto, P!readModel, kafkaVars
  <2>2. at'[Worker] = "idle" /\ at'[Consumer] = at[Consumer] /\ event'[Consumer] = event[Consumer]
    BY <1>t, <1>a, <2>1
  <2>3. WorkerWrites'
    BY <1>t, <2>1, <2>2 DEF WorkerWrites
  <2>4. QED
    BY <1>t, <2>1, <2>2, <2>3, ConsumerGoesOn
<1>7. ASSUME NEW c \in {Worker, Consumer}, Handler(c) \/ HandlerFailure(c)
      PROVE  Goal
  <2>1. UNCHANGED <<batch, pc, delivered, topic, position, committed, handled>>
    BY <1>7 DEF Handler, HandlerFailure, relayVars, kafkaVars
  <2>2. P!Statement(c) \/ P!Failure(c)
    BY <1>7 DEF Handler, HandlerFailure
  <2>3. /\ at[c] # "idle" /\ event' = event
        /\ at'[c] = "ok" => event[c] \in processed'
        /\ \A d \in {Worker, Consumer} \ {c} : at'[d] = at[d]
        /\ processed \subseteq processed'
    BY <1>t, <2>2, StatementLocal
  <2>4. at[Worker] = "idle" => at'[Worker] = "idle"
    BY <2>3
  <2>5. WorkerWrites'
    BY <1>t, <2>1, <2>4, WorkerGoesOn
  <2>6. CASE c = Worker
    BY <1>t, <2>1, <2>3, <2>5, <2>6, ConsumerGoesOn
  <2>7. CASE c = Consumer
    BY <1>t, <2>1, <2>3, <2>5, <2>7 DEF TopicTypes, ConsumerHandles, R!EventIds
  <2>8. QED
    BY <2>6, <2>7
<1>8. CASE FetchMessage
  <2>1. /\ UNCHANGED <<batch, pc, delivered, processed, topic, committed, handled>>
        /\ ~handled /\ position < Len(topic) /\ position' = position + 1
        /\ at' = [at EXCEPT ![Consumer] = "check"]
        /\ event' = [event EXCEPT ![Consumer] = topic[position + 1]]
    BY <1>8 DEF FetchMessage, P!Handle, P!Goto, P!readModel, relayVars
  <2>2. at'[Worker] = at[Worker] /\ at'[Consumer] = "check" /\ event'[Consumer] = topic[position + 1]
    BY <1>t, <1>a, <2>1
  <2>3. WorkerWrites'
    BY <1>t, <2>1, <2>2, WorkerGoesOn
  <2>4. TopicTypes' /\ position' > 0
    BY <1>t, <2>1 DEF TopicTypes, R!EventIds
  <2>5. QED
    BY <2>1, <2>2, <2>3, <2>4 DEF ConsumerHandles
<1>9. CASE EndHandle
  <2>1. /\ UNCHANGED <<batch, pc, delivered, processed, topic, position, committed>>
        /\ at[Consumer] # "idle" /\ handled' = (at[Consumer] = "ok")
        /\ at' = [at EXCEPT ![Consumer] = "idle"]
    BY <1>9 DEF EndHandle, P!Return, P!Leave, P!Goto, P!readModel, relayVars
  <2>2. at'[Worker] = at[Worker] /\ at'[Consumer] = "idle"
    BY <1>t, <1>a, <2>1
  <2>3. WorkerWrites'
    BY <1>t, <2>1, <2>2, WorkerGoesOn
  <2>4. TopicTypes'
    BY <1>t, <2>1 DEF TopicTypes, R!EventIds
  <2>5. position' > 0 /\ (handled' => topic'[position'] \in processed')
    BY <1>t, <2>1, Zenon DEF ConsumerHandles
  <2>6. QED
    BY <2>2, <2>3, <2>4, <2>5 DEF ConsumerHandles
<1>10. CASE CommitMessages
  <2>1. /\ UNCHANGED <<batch, pc, delivered, processed, at, event, topic, position>>
        /\ handled /\ handled' = FALSE /\ committed' \in {committed, position}
    BY <1>10 DEF CommitMessages, relayVars, projectionVars
  <2>2. TopicTypes'
    <3>1. committed' \in 0..position
      BY <1>t, <2>1 DEF TopicTypes
    <3>2. topic' = topic /\ position' = position /\ handled' \in BOOLEAN
      BY <2>1, Zenon
    <3>3. QED
      BY <1>t, <3>1, <3>2 DEF TopicTypes, R!EventIds
  <2>3. ConsumerHandles'
    BY <1>t, <2>1 DEF ConsumerHandles
  <2>4. QED
    BY <1>t, <2>1, <2>2, <2>3, WorkerGoesOn
<1>11. CASE Restart
  <2>1. /\ UNCHANGED <<delivered, processed, topic, committed>>
        /\ position' = committed /\ handled' = FALSE
        /\ at' = [c \in {Worker, Consumer} |-> "idle"]
    BY <1>11 DEF Restart, R!Crash, relayVars
  <2>2. at'[Worker] = "idle" /\ at'[Consumer] = "idle"
    BY <2>1
  <2>3. TopicTypes'
    <3>1. committed \in 0..Len(topic) /\ committed \in 0..committed
      BY <1>t DEF TopicTypes
    <3>2. topic' = topic /\ committed' = committed /\ position' = committed /\ handled' \in BOOLEAN
      BY <2>1, Zenon
    <3>3. QED
      BY <1>t, <3>1, <3>2 DEF TopicTypes, R!EventIds
  <2>4. WorkerWrites' /\ ConsumerHandles'
    BY <1>t, <2>1, <2>2 DEF WorkerWrites, ConsumerHandles
  <2>5. QED
    BY <2>3, <2>4
<1>12. QED
  BY <1>1, <1>2, <1>3, <1>4, <1>5, <1>6, <1>7, <1>8, <1>9, <1>10, <1>11
  DEF Next, WorkerStep, ConsumerStep

-----------------------------------------------------------------------------
(* The invariant holds.                                                    *)

LEMMA InitIInv == Init => IInv
<1> SUFFICES ASSUME Init PROVE IInv
  OBVIOUS
<1>1. RP!IInv
  BY SameRelay, RelayAssumptions, RP!InitIInv DEF Init
<1>2. PP!IInv
  BY SameProjection, ProjectionAssumptions, PP!InitIInv DEF Init
<1>3. at[Worker] = "idle" /\ at[Consumer] = "idle"
  BY DEF Init, P!Init
<1>4. TopicTypes /\ ConsumerHandles /\ WorkerWrites
  <2>1. topic = <<>> /\ position = 0 /\ committed = 0 /\ handled = FALSE /\ delivered = {}
    BY DEF Init, R!Init
  <2>2. topic \in Seq(R!EventIds) /\ Len(topic) = 0
    BY <2>1
  <2>3. TopicTypes
    <3>1. position \in 0..Len(topic) /\ committed \in 0..position
      BY <2>1, <2>2
    <3>2. handled \in BOOLEAN
      BY <2>1, Zenon
    <3>3. QED
      BY <2>2, <3>1, <3>2 DEF TopicTypes
  <2>4. QED
    BY <1>3, <2>1, <2>3 DEF ConsumerHandles, WorkerWrites
<1>5. QED
  BY <1>1, <1>2, <1>4 DEF IInv

LEMMA NextIInv == IInv /\ [Next]_vars => IInv'
<1> SUFFICES ASSUME IInv, [Next]_vars PROVE IInv'
  OBVIOUS
<1>t. RP!IInv /\ PP!IInv /\ RP!TypeOK /\ TopicTypes
  BY DEF IInv, RP!IInv
<1>1. [R!Next]_(R!vars)
  BY RelayStep DEF vars, relayVars, R!vars
<1>2. [P!Next]_(P!vars) \/ Restart
  BY <1>t, ProjectionStep DEF vars, projectionVars, P!vars, P!readModel
<1>3. RP!IInv'
  <2>1. [RP!Next]_(RP!vars)
    BY <1>1, SameRelay, SameRelayRows
  <2>2. QED
    BY <1>t, <2>1, RelayAssumptions, RP!NextIInv
<1>4. PP!IInv'
  <2>1. CASE [P!Next]_(P!vars)
    <3>1. [PP!Next]_(PP!vars)
      BY <2>1, SameProjection, SameProjectionRows
    <3>2. QED
      BY <1>t, <3>1, ProjectionAssumptions, PP!NextIInv
  <2>2. CASE Restart
    BY <1>t, <2>2, RestartProjection
  <2>3. QED
    BY <1>2, <2>1, <2>2
<1>5. TopicTypes' /\ WorkerWrites' /\ ConsumerHandles'
  BY NextTopic
<1>6. QED
  BY <1>3, <1>4, <1>5 DEF IInv

LEMMA InductiveInvariant == Spec => []IInv
<1>1. QED
  BY InitIInv, NextIInv, PTL DEF Spec

-----------------------------------------------------------------------------
(* Theorems.                                                               *)

\* With Kafka as the bus, the outbox works as OutboxRelay says: a write that
\* fails is PublishError, and Publish is over when the local dispatch is.
THEOREM KafkaImplementsRelay == Spec => R!Spec
<1>1. Init => R!Init
  BY DEF Init
<1>2. [Next]_vars => [R!Next]_(R!vars)
  BY RelayStep DEF vars, relayVars, R!vars
<1>3. QED
  BY <1>1, <1>2, PTL DEF Spec, R!Spec

\* An event is marked published only when it is in the topic, whatever writes
\* fail, with or without the message in the topic, and wherever the process
\* restarts between the write, the local dispatch and the mark.
THEOREM PublishedAlwaysWritten == Spec => []PublishedWasWritten
<1>1. IInv => PublishedWasWritten
  BY SameRelayRows DEF IInv, RP!IInv, RP!PublishedWasDelivered, WorkerWrites, PublishedWasWritten
<1>2. QED
  BY <1>1, InductiveInvariant, PTL

\* The consumer commits the offset of a message only when it is processed, by
\* itself or by the local dispatch.  (Not so the messages before it.)
THEOREM CommitsOnlyProcessed == Spec => CommitsProcessed
<1>1. ASSUME IInv, Next, committed' # committed
      PROVE  topic[committed'] \in processed
  <2>1. CommitMessages
    BY <1>1 DEF Next, WorkerStep, ConsumerStep, EventCommits, BackoffElapses, Fetch, WriteMessage,
                WriteFails, Handler, EndPublish, Mark, MarkError, PollNothing, FetchMessage,
                EndHandle, HandlerFailure, Restart, kafkaVars
  <2>2. handled /\ committed' = position
    BY <1>1, <2>1 DEF CommitMessages
  <2>3. QED
    BY <1>1, <2>2 DEF IInv, ConsumerHandles
<1>2. IInv /\ [Next]_vars => [committed' # committed => topic[committed'] \in processed]_vars
  BY <1>1
<1>3. QED
  BY <1>2, InductiveInvariant, PTL DEF Spec, CommitsProcessed

\* What OrderProjection promises of processed events holds with two goroutines
\* of one process in the same handler, restarts of both at once included.
THEOREM ProcessedAlwaysReflected == Spec => []P!ProcessedIsReflected
<1>1. IInv => P!ProcessedIsReflected
  BY SameProjectionRows DEF IInv, PP!IInv, PP!ProcessedIsReflected, P!ProcessedIsReflected
<1>2. QED
  BY <1>1, InductiveInvariant, PTL
=============================================================================
