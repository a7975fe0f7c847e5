---------------------------- MODULE OutboxRelay ----------------------------
(***************************************************************************)
(* The outbox workers: each polls outbox_events for a batch of pending     *)
(* rows, publishes the events one by one, and marks each row published or  *)
(* failed.  Every statement is its own transaction, so workers (one per    *)
(* process on the database), the administrator's requeue and crashes come  *)
(* between any two of them.                                                *)
(*                                                                         *)
(* Events are numbered by occurred_at, the order in which FetchPending     *)
(* sorts them.  They become visible in commit order, which may differ.     *)
(* Time is reduced to "due": whether available_at has passed.              *)
(***************************************************************************)
EXTENDS Integers, FiniteSets

CONSTANTS
    N,              \* number of events
    Workers,        \* outbox workers
    BatchSize,      \* OUTBOX_BATCH_SIZE
    MaxRetries,     \* maxRetries in outbox_store.go (10)
    MaxFaults,      \* bound: crashes and failed statements
    MaxRequeues     \* bound: calls of the requeue endpoint

EventIds == 1..N

ASSUME RelayAssumption ==
    /\ N \in Nat
    /\ BatchSize \in Nat \ {0}
    /\ MaxRetries \in Nat \ {0}
    /\ MaxFaults \in Nat
    /\ MaxRequeues \in Nat

VARIABLES
    row,        \* row[e]: the row of event e in outbox_events
    batch,      \* batch[w]: the events w has fetched and not dealt with yet
    pc,         \* pc[w]: what worker w does next
    model,      \* model[w]: the row MarkFailed has read
    delivered,  \* the events that reached the event bus at least once
    faults,     \* crashes and failed statements so far
    requeues    \* requeues so far

vars == <<row, batch, pc, model, delivered, faults, requeues>>

-----------------------------------------------------------------------------
RowStatuses == {"absent", "pending", "published", "failed"}
OutboxRows  == [status : RowStatuses, retry : Nat, due : BOOLEAN]

\* A row as Append inserts it: available at once, never tried.
NewRow    == [status |-> "pending", retry |-> 0, due |-> TRUE]
AbsentRow == [status |-> "absent", retry |-> 0, due |-> FALSE]

Labels == {"poll", "publish", "published", "failed", "save"}

\* The loop over the batch goes in the order of occurred_at.
Current(w) == CHOOSE e \in batch[w] : \A d \in batch[w] : e <= d

\* WHERE status = 'pending' AND available_at <= NOW()
Claimable == {e \in EventIds : row[e].status = "pending" /\ row[e].due}

\* ORDER BY occurred_at ASC LIMIT BatchSize, of the rows in S.
Oldest(S) == {e \in S : Cardinality({d \in S : d < e}) < BatchSize}

\* The rows a statement of another worker may be holding a lock on.
InOtherHands(w) == UNION {batch[v] : v \in Workers \ {w}}

-----------------------------------------------------------------------------
Init ==
    /\ row       = [e \in EventIds |-> AbsentRow]
    /\ batch     = [w \in Workers |-> {}]
    /\ pc        = [w \in Workers |-> "poll"]
    /\ model     = [w \in Workers |-> AbsentRow]
    /\ delivered = {}
    /\ faults    = 0
    /\ requeues  = 0

\* A command's transaction commits and its event becomes visible.
Append(e) ==
    /\ row[e].status = "absent"
    /\ row' = [row EXCEPT ![e] = NewRow]
    /\ UNCHANGED <<batch, pc, model, delivered, faults, requeues>>

\* Mutant of FetchPending: available_at is not looked at.
FetchIgnoringBackoff(w) ==
    /\ pc[w] = "poll"
    /\ LET fetched == Oldest({e \in EventIds : row[e].status = "pending"}) IN
          /\ fetched # {}
          /\ batch' = [batch EXCEPT ![w] = fetched]
    /\ pc' = [pc EXCEPT ![w] = "publish"]
    /\ UNCHANGED <<row, model, delivered, faults, requeues>>

\* FetchPending.  FOR UPDATE SKIP LOCKED outside of a transaction: the locks
\* are gone when the statement ends, so rows of a batch in progress are
\* fetched again, or skipped if a statement on them runs at that moment.
FetchPending(w) ==
    /\ pc[w] = "poll"
    /\ \E locked \in SUBSET InOtherHands(w) :
          LET fetched == Oldest(Claimable \ locked) IN
          /\ fetched # {}
          /\ batch' = [batch EXCEPT ![w] = fetched]
    /\ pc' = [pc EXCEPT ![w] = "publish"]
    /\ UNCHANGED <<row, model, delivered, faults, requeues>>

\* The poll finds nothing, or fails: the worker waits for the next tick.
PollNothing(w) ==
    /\ pc[w] = "poll"
    /\ UNCHANGED vars

\* publisher.Publish returns nil.
PublishOk(w) ==
    /\ pc[w] = "publish"
    /\ delivered' = delivered \cup {Current(w)}
    /\ pc' = [pc EXCEPT ![w] = "published"]
    /\ UNCHANGED <<row, batch, model, faults, requeues>>

\* Mutant of PublishError: the error is not noticed.
PublishErrorUnnoticed(w) ==
    /\ pc[w] = "publish"
    /\ pc' = [pc EXCEPT ![w] = "published"]
    /\ UNCHANGED <<row, batch, model, delivered, faults, requeues>>

\* publisher.Publish returns an error, before or after its work was done.
PublishError(w) ==
    /\ pc[w] = "publish"
    /\ \/ UNCHANGED delivered
       \/ delivered' = delivered \cup {Current(w)}
    /\ pc' = [pc EXCEPT ![w] = "failed"]
    /\ UNCHANGED <<row, batch, model, faults, requeues>>

\* Mutant of NextEvent: one iteration too many.
NextEventOffByOne(w) ==
    /\ batch' = [batch EXCEPT ![w] = @ \ {Current(w)}]
    /\ pc' = [pc EXCEPT ![w] = IF batch[w] = {} THEN "poll" ELSE "publish"]
    /\ model' = [model EXCEPT ![w] = AbsentRow]

\* The end of the loop body ("continue" too): on to the next event.
NextEvent(w) ==
    /\ batch' = [batch EXCEPT ![w] = @ \ {Current(w)}]
    /\ pc' = [pc EXCEPT ![w] = IF batch[w] = {Current(w)} THEN "poll" ELSE "publish"]
    /\ model' = [model EXCEPT ![w] = AbsentRow]

\* Mutant of MarkPublished: the status is left as it is.
MarkPublishedNoStatus(w) ==
    /\ pc[w] = "published"
    /\ NextEvent(w)
    /\ UNCHANGED <<row, delivered, faults, requeues>>

\* UPDATE ... SET status = 'published' WHERE id = ?: whatever the row is now.
MarkPublished(w) ==
    /\ pc[w] = "published"
    /\ row' = [row EXCEPT ![Current(w)].status = "published"]
    /\ NextEvent(w)
    /\ UNCHANGED <<delivered, faults, requeues>>

\* MarkFailed reads the row in one statement ...
MarkFailedRead(w) ==
    /\ pc[w] = "failed"
    /\ model' = [model EXCEPT ![w] = row[Current(w)]]
    /\ pc' = [pc EXCEPT ![w] = "save"]
    /\ UNCHANGED <<row, batch, delivered, faults, requeues>>

\* Mutants of AfterFailure: tested before it is counted, or never counted.
AfterFailureLate(r) ==
    IF r.retry >= MaxRetries
    THEN [r EXCEPT !.retry = @ + 1, !.status = "failed"]
    ELSE [r EXCEPT !.retry = @ + 1, !.due = FALSE]
AfterFailureUncounted(r) == [r EXCEPT !.due = FALSE]

\* One more attempt: dead after MaxRetries, otherwise not due until the
\* backoff has passed.
AfterFailure(r) ==
    IF r.retry + 1 >= MaxRetries
    THEN [r EXCEPT !.retry = @ + 1, !.status = "failed"]
    ELSE [r EXCEPT !.retry = @ + 1, !.due = FALSE]

\* ... and writes all of its columns back in another.
MarkFailedSave(w) ==
    /\ pc[w] = "save"
    /\ row' = [row EXCEPT ![Current(w)] = AfterFailure(model[w])]
    /\ NextEvent(w)
    /\ UNCHANGED <<delivered, faults, requeues>>

\* A statement of MarkPublished or MarkFailed fails: logged, next event.
MarkError(w) ==
    /\ pc[w] \in {"published", "failed", "save"}
    /\ faults < MaxFaults
    /\ faults' = faults + 1
    /\ NextEvent(w)
    /\ UNCHANGED <<row, delivered, requeues>>

\* The process of w dies, or is shut down, and w polls again in a new one.
Crash(w) ==
    /\ batch[w] # {}
    /\ faults < MaxFaults
    /\ faults' = faults + 1
    /\ batch' = [batch EXCEPT ![w] = {}]
    /\ pc'    = [pc EXCEPT ![w] = "poll"]
    /\ model' = [model EXCEPT ![w] = AbsentRow]
    /\ UNCHANGED <<row, delivered, requeues>>

\* The backoff of a row passes.
BackoffElapses(e) ==
    /\ row[e].status = "pending" /\ ~row[e].due
    /\ row' = [row EXCEPT ![e].due = TRUE]
    /\ UNCHANGED <<batch, pc, model, delivered, faults, requeues>>

\* Mutant of RequeueFailed: the WHERE is forgotten.
RequeueAll ==
    /\ \E e \in EventIds : row[e].status = "failed"
    /\ requeues < MaxRequeues
    /\ requeues' = requeues + 1
    /\ row' = [e \in EventIds |-> IF row[e].status # "absent" THEN NewRow ELSE row[e]]
    /\ UNCHANGED <<batch, pc, model, delivered, faults>>

\* POST /admin/outbox/requeue: one UPDATE over the failed rows.
RequeueFailed ==
    /\ \E e \in EventIds : row[e].status = "failed"
    /\ requeues < MaxRequeues
    /\ requeues' = requeues + 1
    /\ row' = [e \in EventIds |-> IF row[e].status = "failed" THEN NewRow ELSE row[e]]
    /\ UNCHANGED <<batch, pc, model, delivered, faults>>

-----------------------------------------------------------------------------
\* The steps a live worker takes of its own accord.
Work(w) ==
    \/ FetchPending(w)
    \/ PublishOk(w) \/ PublishError(w)
    \/ MarkPublished(w) \/ MarkFailedRead(w) \/ MarkFailedSave(w)

Next ==
    \/ \E e \in EventIds : Append(e) \/ BackoffElapses(e)
    \/ \E w \in Workers : Work(w) \/ PollNothing(w) \/ MarkError(w) \/ Crash(w)
    \/ RequeueFailed

Spec == Init /\ [][Next]_vars

\* A live worker goes on polling and publishing, and time passes.
Fairness ==
    /\ \A w \in Workers : WF_vars(Work(w))
    /\ \A e \in EventIds : WF_vars(BackoffElapses(e))

FairSpec == Spec /\ Fairness

-----------------------------------------------------------------------------
(* Properties.                                                             *)

\* Every variable has its type; a worker that is not polling has a batch.
TypeOK ==
    /\ row \in [EventIds -> OutboxRows]
    /\ batch \in [Workers -> SUBSET EventIds]
    /\ pc \in [Workers -> Labels]
    /\ model \in [Workers -> OutboxRows]
    /\ delivered \subseteq EventIds
    /\ faults \in 0..MaxFaults
    /\ requeues \in 0..MaxRequeues
    /\ \A w \in Workers : pc[w] = "poll" <=> batch[w] = {}

\* No event is marked published that the bus never got: also with several
\* workers, whose marks and stale saves overwrite one another's rows.
PublishedWasDelivered ==
    \A e \in EventIds : row[e].status = "published" => e \in delivered

\* A worker that is alone never works on stale rows: what it has fetched is
\* still pending and due when its turn comes, whatever is appended, requeued
\* or crashes meanwhile.  This is what the locks of FetchPending do not give
\* to several workers.
BatchIsCurrent ==
    \A w \in Workers : batch[w] \subseteq Claimable

\* A worker that is alone publishes an event again only after an attempt on
\* it failed, a statement failed or the process crashed.
NoRedeliveryWithoutFailure ==
    [][\A w \in Workers :
          PublishOk(w) /\ Current(w) \in delivered =>
              row[Current(w)].retry > 0 \/ faults > 0 \/ requeues > 0]_vars

\* Refinement: a worker that is alone implements at-least-once delivery.
outcomeOf ==
    [e \in EventIds |-> CASE row[e].status = "pending" -> "open"
                        [] row[e].status = "failed"  -> "dead"
                        [] OTHER                     -> row[e].status]
Delivery == INSTANCE AtLeastOnceDelivery WITH Events <- EventIds, outcome <- outcomeOf
ImplementsAtLeastOnce == Delivery!Spec

\* Every event is settled in the end, published or given up, when faults are
\* not endless: a failing event does not hold up the others or the worker.
EventuallySettled ==
    \A e \in EventIds : row[e].status = "pending" ~> row[e].status \in {"published", "failed"}
=============================================================================
