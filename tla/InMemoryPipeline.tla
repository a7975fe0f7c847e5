-------------------------- MODULE InMemoryPipeline --------------------------
(***************************************************************************)
(* The read side with the in-memory event bus: OutboxRelay composed with   *)
(* OrderProjection.  Publish calls the projection handler in the worker's  *)
(* own goroutine and returns its error, so the publish of one event spans  *)
(* all the statements of Handle, and a process that dies takes both down.  *)
(***************************************************************************)
EXTENDS OrderDomain, FiniteSets

CONSTANTS Log, Workers, BatchSize, MaxRetries,
          MaxFaults, MaxRequeues, MayFail, MaxFailures,
          Seen    \* Seen[e]: the events whose commands had committed when
                  \* that of event e loaded the order

ASSUME PipelineAssumption ==
    /\ Log \in Seq(Events)
    /\ BatchSize \in Nat \ {0} /\ MaxRetries \in Nat \ {0}
    /\ MaxFaults \in Nat /\ MaxRequeues \in Nat /\ MaxFailures \in Nat
    /\ Seen \in [1..Len(Log) -> SUBSET (1..Len(Log))]

VARIABLES row, batch, pc, model, delivered, faults, requeues
VARIABLES views, itemViews, processed, at, event, memory, failures

R == INSTANCE OutboxRelay WITH N <- Len(Log)

P == INSTANCE OrderProjection WITH Consumers <- Workers

ASSUME FailureAssumption == MayFail \subseteq P!Statements

\* A command loads an order that exists, and a confirmation has the total of the
\* items it has loaded: some of those added before, as Save may have replaced
\* them by fewer (OrderCommands), and at least one.  Commands that overlap do not
\* see one another's events.
ASSUME CommandAssumption ==
    \A e \in DOMAIN Log :
        /\ Seen[e] \subseteq {d \in P!EventsOf(Log[e].order) : d < e}
        /\ Log[e].type # "OrderCreated" => \E d \in Seen[e] : Log[d].type = "OrderCreated"
        /\ Log[e].type = "OrderConfirmed" =>
              \E S \in SUBSET P!ItemsIn(Seen[e]) : S # {} /\ Log[e].total = TotalAmount(S)

\* The commands of one order follow one another.
OneAtATime ==
    \A e \in DOMAIN Log : {d \in P!EventsOf(Log[e].order) : d < e} \subseteq Seen[e]

relayVars      == <<row, batch, pc, model, delivered, faults, requeues>>
projectionVars == <<views, itemViews, processed, at, event, memory, failures>>
vars           == <<relayVars, projectionVars>>

-----------------------------------------------------------------------------
Init == R!Init /\ P!Init

\* A command commits.  What it has seen is visible before; the other events of
\* its order that are raised earlier need not be, as commands that overlap
\* commit in any order (OrderCommands).
EventCommits(e) ==
    /\ \A d \in Seen[e] : row[d].status # "absent"
    /\ R!Append(e)
    /\ UNCHANGED projectionVars

\* InMemoryEventBus.Publish: the one handler of the event's type is called ...
StartPublish(w) ==
    /\ pc[w] = "publish" /\ at[w] = "idle"
    /\ P!Handle(w, R!Current(w))
    /\ UNCHANGED relayVars

Handler(w) == P!Statement(w) /\ UNCHANGED relayVars
HandlerFailure(w) == P!Failure(w) /\ UNCHANGED relayVars

\* ... and its result is the result of Publish.
EndPublish(w) ==
    /\ \/ at[w] = "ok" /\ R!PublishOk(w)
       \/ at[w] = "error" /\ R!PublishError(w)
    /\ P!Return(w)

\* The statements of the worker itself.
Fetch(w) == R!FetchPending(w) /\ UNCHANGED projectionVars
Mark(w) ==
    /\ R!MarkPublished(w) \/ R!MarkFailedRead(w) \/ R!MarkFailedSave(w)
    /\ UNCHANGED projectionVars
MarkError(w) == R!MarkError(w) /\ UNCHANGED projectionVars

\* The process dies, in the middle of Handle or between two publishes.
Crash(w) ==
    /\ R!Crash(w)
    /\ IF at[w] = "idle" THEN UNCHANGED projectionVars ELSE P!Abort(w)

BackoffElapses(e) == R!BackoffElapses(e) /\ UNCHANGED projectionVars
RequeueFailed     == R!RequeueFailed /\ UNCHANGED projectionVars
PollNothing(w)    == R!PollNothing(w) /\ UNCHANGED projectionVars

-----------------------------------------------------------------------------
Work(w) == Fetch(w) \/ StartPublish(w) \/ Handler(w) \/ EndPublish(w) \/ Mark(w)

Next ==
    \/ \E e \in R!EventIds : EventCommits(e) \/ BackoffElapses(e)
    \/ \E w \in Workers :
          Work(w) \/ HandlerFailure(w) \/ PollNothing(w) \/ MarkError(w) \/ Crash(w)
    \/ RequeueFailed

Spec == Init /\ [][Next]_vars

\* A live worker goes on, and time passes.
Fairness ==
    /\ \A w \in Workers : WF_vars(Work(w))
    /\ \A e \in R!EventIds : WF_vars(BackoffElapses(e))

-----------------------------------------------------------------------------
(* Properties.                                                             *)

\* A row is marked published only when the projection is done with the event
\* for good, with any number of workers that overwrite one another's marks.
PublishedIsProcessed ==
    \A e \in R!EventIds : row[e].status = "published" => e \in processed

\* ... so that an event the outbox has no more to do for has left its rows in
\* the read model: the view of the order of OrderCreated; the item, and the
\* view, of OrderItemAdded.
PublishedIsReflected ==
    \A e \in R!EventIds :
        row[e].status = "published" =>
            /\ Log[e].type \in {"OrderCreated", "OrderItemAdded"} => views[Log[e].order] # P!NoView
            /\ Log[e].type = "OrderItemAdded" => Log[e].item \in itemViews[Log[e].order]

\* The first k events of an order.
FirstEvents(o, k) ==
    {e \in P!EventsOf(o) : Cardinality({d \in P!EventsOf(o) : d < e}) < k}

ViewAfter(o, k) == P!ViewOf(FirstEvents(o, k))

\* Refinement: as long as no statement of the handler fails and the commands of
\* an order follow one another, order_views shows the history of every order,
\* state by state, through crashes between any two statements and marks that
\* fail.
Promise == INSTANCE EventualReadModel WITH
              Orders <- OrderIds,
              Length <- [o \in OrderIds |-> Cardinality(P!EventsOf(o))],
              shown <- views
ShowsTheHistory == Promise!Spec

\* "read model is eventually consistent" (README, Non-Goals), its safety part:
\* when all events of an order are published, so that nothing is left to do,
\* the view is the order.
PublishedMeansConsistent ==
    \A o \in OrderIds :
        (P!EventsOf(o) # {} /\ \A e \in P!EventsOf(o) : row[e].status = "published")
            => views[o] = P!ViewOf(P!EventsOf(o))

\* ... and its liveness part: what is in the outbox reaches the view.
EventuallyConsistent ==
    \A o \in OrderIds :
        (\A e \in P!EventsOf(o) : row[e].status # "absent")
            ~> views[o] = P!ViewOf(P!EventsOf(o))

\* ... and the totals of a view are never left behind once every item event of the
\* order was processed, also when commands overlapped, statements failed, the
\* events were retried out of order and an earlier attempt left half of its
\* writes: the recalculation reads the items back, and only a confirmation
\* overwrites it.  (With one worker, and as long as no count fails, whose error
\* goes unnoticed.)
TotalsAgree == P!TotalsAgree
=============================================================================
