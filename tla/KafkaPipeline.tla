--------------------------- MODULE KafkaPipeline ---------------------------
(***************************************************************************)
(* The read side with the Kafka event bus: OutboxRelay and OrderProjection *)
(* around one partition of the topic, in one process.  Publish writes the  *)
(* event to the topic and then runs the projection handler itself          *)
(* (dispatchLocal), while the consumer worker of the same process reads    *)
(* the topic and runs the same handler in its own goroutine.               *)
(***************************************************************************)
EXTENDS OrderDomain, FiniteSets

CONSTANTS Log, Worker, Consumer, BatchSize, MaxRetries,
          MayFail, MaxFailures,
          MaxFaults    \* bound: failed writes, failed marks and restarts together

ASSUME KafkaAssumption ==
    /\ Worker # Consumer
    /\ Log \in Seq(Events)
    /\ BatchSize \in Nat \ {0} /\ MaxRetries \in Nat \ {0}
    /\ MaxFailures \in Nat /\ MaxFaults \in Nat

VARIABLES row, batch, pc, model, delivered, faults, requeues
VARIABLES views, itemViews, processed, at, event, memory, failures
VARIABLES
    topic,       \* the messages of the partition: the events, in write order
    position,    \* how many messages the reader has fetched
    committed,   \* how many the consumer group has committed
    handled,     \* whether the message fetched last waits for its commit
    otherFaults  \* writes to the topic that failed, and restarts without a batch

R == INSTANCE OutboxRelay WITH N <- Len(Log), Workers <- {Worker}, MaxRequeues <- 0

P == INSTANCE OrderProjection WITH Consumers <- {Worker, Consumer}

ASSUME FailureAssumption == MayFail \subseteq P!Statements

relayVars      == <<row, batch, pc, model, delivered, faults, requeues>>
projectionVars == <<views, itemViews, processed, at, event, memory, failures>>
kafkaVars      == <<topic, position, committed, handled, otherFaults>>
vars           == <<relayVars, projectionVars, kafkaVars>>

FaultLeft == faults + otherFaults < MaxFaults

-----------------------------------------------------------------------------
Init ==
    /\ R!Init /\ P!Init
    /\ topic = <<>>
    /\ position = 0
    /\ committed = 0
    /\ handled = FALSE
    /\ otherFaults = 0

\* A command commits; commands of one order follow one another here.
EventCommits(e) ==
    /\ \A d \in R!EventIds :
          d < e /\ Log[d].order = Log[e].order => row[d].status # "absent"
    /\ R!Append(e)
    /\ UNCHANGED <<projectionVars, kafkaVars>>

-----------------------------------------------------------------------------
(* KafkaEventBus.Publish, in the goroutine of the outbox worker.           *)

\* WriteMessages returns when the brokers have the message; the handlers of
\* this process are called next.
WriteMessage ==
    /\ pc[Worker] = "publish" /\ at[Worker] = "idle"
    /\ topic' = Append(topic, R!Current(Worker))
    /\ P!Handle(Worker, R!Current(Worker))
    /\ UNCHANGED <<relayVars, position, committed, handled, otherFaults>>

\* Mutant of WriteFails: the error is dropped.
WriteFailsUnnoticed ==
    /\ at[Worker] = "idle"
    /\ R!PublishOk(Worker)
    /\ FaultLeft
    /\ otherFaults' = otherFaults + 1
    /\ UNCHANGED <<projectionVars, topic, position, committed, handled>>

\* WriteMessages returns an error.  The brokers may have the message all the same.
WriteFails ==
    /\ at[Worker] = "idle"
    /\ R!PublishError(Worker)
    /\ FaultLeft
    /\ otherFaults' = otherFaults + 1
    /\ \/ UNCHANGED <<topic, delivered>>
       \/ /\ topic' = Append(topic, R!Current(Worker))
          /\ delivered' = delivered \cup {R!Current(Worker)}
    /\ UNCHANGED <<projectionVars, position, committed, handled>>

\* dispatchLocal is over.  Its error is logged: Publish returns nil.
EndPublish ==
    /\ at[Worker] \in {"ok", "error"}
    /\ R!PublishOk(Worker)
    /\ P!Return(Worker)
    /\ UNCHANGED kafkaVars

\* The statements of the outbox worker around it.
Fetch == R!FetchPending(Worker) /\ UNCHANGED <<projectionVars, kafkaVars>>
Mark ==
    /\ R!MarkPublished(Worker) \/ R!MarkFailedRead(Worker) \/ R!MarkFailedSave(Worker)
    /\ UNCHANGED <<projectionVars, kafkaVars>>
MarkError      == FaultLeft /\ R!MarkError(Worker) /\ UNCHANGED <<projectionVars, kafkaVars>>
BackoffElapses(e) == R!BackoffElapses(e) /\ UNCHANGED <<projectionVars, kafkaVars>>
PollNothing    == R!PollNothing(Worker) /\ UNCHANGED <<projectionVars, kafkaVars>>

-----------------------------------------------------------------------------
(* KafkaConsumerWorker.Run.                                                *)

\* FetchMessage returns the message after the one it returned last, whether
\* that was committed or not; the bus calls the handler.
FetchMessage ==
    /\ at[Consumer] = "idle" /\ ~handled
    /\ position < Len(topic)
    /\ position' = position + 1
    /\ P!Handle(Consumer, topic[position + 1])
    /\ UNCHANGED <<relayVars, topic, committed, handled, otherFaults>>

\* Mutant of EndHandle: a failed message is committed too.
EndHandleAnyhow ==
    /\ P!Return(Consumer)
    /\ handled' = TRUE
    /\ UNCHANGED <<relayVars, topic, position, committed, otherFaults>>

\* HandleMessage has returned: only after success is there a commit.
EndHandle ==
    /\ P!Return(Consumer)
    /\ handled' = (at[Consumer] = "ok")
    /\ UNCHANGED <<relayVars, topic, position, committed, otherFaults>>

\* CommitMessages commits the offset of the message, and with it all before;
\* or it fails, which is logged.
CommitMessages ==
    /\ handled
    /\ handled' = FALSE
    /\ committed' \in {committed, position}
    /\ UNCHANGED <<relayVars, projectionVars, topic, position, otherFaults>>

\* The statements of the handler, in either goroutine.
Handler(c)        == P!Statement(c) /\ UNCHANGED <<relayVars, kafkaVars>>
HandlerFailure(c) == P!Failure(c) /\ UNCHANGED <<relayVars, kafkaVars>>

\* Mutant of Restart: the reader starts at the end of what was fetched.
RestartAtPosition ==
    /\ FaultLeft
    /\ \/ R!Crash(Worker) /\ UNCHANGED otherFaults
       \/ batch[Worker] = {} /\ otherFaults' = otherFaults + 1 /\ UNCHANGED relayVars
    /\ at'     = [c \in {Worker, Consumer} |-> "idle"]
    /\ event'  = [c \in {Worker, Consumer} |-> 0]
    /\ memory' = [c \in {Worker, Consumer} |-> P!NoMemory]
    /\ handled' = FALSE
    /\ UNCHANGED <<views, itemViews, processed, failures, topic, position, committed>>

\* The process dies and starts again; its reader starts at what is committed.
Restart ==
    /\ FaultLeft
    /\ \/ R!Crash(Worker) /\ UNCHANGED otherFaults
       \/ batch[Worker] = {} /\ otherFaults' = otherFaults + 1 /\ UNCHANGED relayVars
    /\ at'     = [c \in {Worker, Consumer} |-> "idle"]
    /\ event'  = [c \in {Worker, Consumer} |-> 0]
    /\ memory' = [c \in {Worker, Consumer} |-> P!NoMemory]
    /\ position' = committed
    /\ handled' = FALSE
    /\ UNCHANGED <<views, itemViews, processed, failures, topic, committed>>

-----------------------------------------------------------------------------
WorkerStep   == Fetch \/ WriteMessage \/ WriteFails \/ Handler(Worker) \/ EndPublish \/ Mark
ConsumerStep == FetchMessage \/ Handler(Consumer) \/ EndHandle \/ CommitMessages

Next ==
    \/ \E e \in R!EventIds : EventCommits(e) \/ BackoffElapses(e)
    \/ WorkerStep \/ MarkError \/ PollNothing
    \/ ConsumerStep
    \/ \E c \in {Worker, Consumer} : HandlerFailure(c)
    \/ Restart

Spec == Init /\ [][Next]_vars

\* A live process goes on in both goroutines, and time passes.
FairSpec ==
    /\ Spec
    /\ WF_vars(WorkerStep) /\ WF_vars(ConsumerStep)
    /\ \A e \in R!EventIds : WF_vars(BackoffElapses(e))

-----------------------------------------------------------------------------
(* Properties.                                                             *)

\* No event is lost between the outbox and the topic, which then keeps it for
\* consumers other than the local handler.
PublishedWasWritten ==
    \A e \in R!EventIds : row[e].status = "published" => e \in Range(topic)

\* "Commit offset only after successful processing": the message at the offset
\* of a commit has been processed, although its check of processed_events,
\* its mark and the commit are steps between which the local dispatch works on
\* the same event and the process may restart.
CommitsProcessed ==
    [][committed' # committed => topic[committed'] \in processed]_vars

\* As long as no statement reports a failure, an order that is published appears
\* in the end, and its confirmation is dealt with: when the two goroutines
\* collide on a key and one of them gives up, whose error is only logged, the
\* other one does the work, or a restart reads it again from the topic.  (An
\* item may be lost: see CommittedWasProcessed.)
PublishedIsProcessedEventually ==
    \A e \in R!EventIds :
        Log[e].type # "OrderItemAdded" =>
            (row[e].status = "published" ~> e \in processed)

\* "Don't commit -- message will be redelivered (at-least-once)": all that is behind
\* the committed offset, and will not be read again, has been processed.
CommittedWasProcessed ==
    \A n \in 1..committed : topic[n] \in processed
=============================================================================
