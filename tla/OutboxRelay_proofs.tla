------------------------- MODULE OutboxRelay_proofs -------------------------
(***************************************************************************)
(* Proofs about OutboxRelay for any number of events, any batch size and   *)
(* any bounds.                                                             *)
(*                                                                         *)
(* With any number of workers an event is published only after it was      *)
(* delivered: the mark of a worker is preceded by its own delivery, and    *)
(* the stale save of MarkFailed writes back "published" only if it read    *)
(* it.  The rest is about a worker that is alone, the deployment of the    *)
(* repository: nobody else changes the rows of its batch, so what it read  *)
(* is what it overwrites.                                                  *)
(***************************************************************************)
EXTENDS OutboxRelayHistory, FiniteSetTheorems, TLAPS

\* A worker about to mark its event published has delivered it, or has read
\* that it was published.
DeliveredBeforeMark ==
    \A w \in Workers :
        /\ pc[w] = "published" => Current(w) \in delivered
        /\ pc[w] = "save" /\ model[w].status = "published" => Current(w) \in delivered

IInv == TypeOK /\ DeliveredBeforeMark /\ PublishedWasDelivered

\* There is no more than one worker.
Alone == \A v, w \in Workers : v = w

\* What MarkFailed has read is still what the row is.
SavedAsRead ==
    \A w \in Workers : pc[w] = "save" => model[w] = row[Current(w)]

\* retry_count reaches MaxRetries when the event is given up, and not before.
CounterBelowMax ==
    \A e \in EventIds :
        /\ row[e].status = "failed" => row[e].retry = MaxRetries
        /\ row[e].status # "failed" => row[e].retry < MaxRetries

\* An event that was delivered and looks untried is the one the worker is
\* dealing with, unless something failed or was requeued.
InProgress(e) ==
    \E w \in Workers : pc[w] \in {"published", "failed", "save"} /\ Current(w) = e

RedeliveryHasReason ==
    \A e \in delivered :
        row[e].status = "pending" /\ row[e].retry = 0 =>
            faults > 0 \/ requeues > 0 \/ InProgress(e)

\* Only an event that was appended is ever delivered.
DeliveredWasAppended ==
    \A e \in delivered : row[e].status # "absent"

AloneInv ==
    /\ IInv
    /\ Alone
    /\ BatchIsCurrent
    /\ SavedAsRead
    /\ CounterBelowMax
    /\ RedeliveryHasReason
    /\ DeliveredWasAppended

-----------------------------------------------------------------------------
(* Lemmas about batches and rows.                                          *)

\* The events are finitely many natural numbers.
LEMMA EventsAreFinite == IsFiniteSet(EventIds) /\ EventIds \subseteq Nat
<1>1. N \in Int /\ 1 \in Int
  BY RelayAssumption
<1>2. IsFiniteSet(1..N)
  BY <1>1, FS_Interval
<1>3. QED
  BY <1>2 DEF EventIds

\* Every set of events has an oldest one.
LEMMA OldestExists ==
  ASSUME NEW S \in SUBSET EventIds, S # {}
  PROVE  \E e \in S : \A d \in S : e <= d
<1> DEFINE UpTo(e) == {d \in S : d <= e}
           Prefixes == {UpTo(e) : e \in S}
<1>1. IsFiniteSet(S) /\ S \subseteq Nat
  BY EventsAreFinite, FS_Subset
<1>2. Prefixes \subseteq FiniteSubsetsOf(S) /\ Prefixes # {}
  <2>1. FiniteSubsetsOf(S) = SUBSET S
    BY <1>1, FS_FiniteSubsetsOfFinite
  <2>2. \A e \in S : UpTo(e) \in SUBSET S /\ UpTo(e) \in Prefixes
    OBVIOUS
  <2>3. Prefixes \subseteq SUBSET S
    BY <2>2
  <2>4. Prefixes # {}
    BY <2>2
  <2> HIDE DEF Prefixes
  <2>5. QED
    BY <2>1, <2>3, <2>4
<1>3. PICK P \in Prefixes : \A Q \in Prefixes : <<Q, P>> \notin StrictSubsetOrdering(S)
  <2> HIDE DEF Prefixes
  <2>1. QED
    BY <1>2, FS_StrictSubsetOrderingWellFounded, WFMin, Zenon
<1>4. PICK e \in S : P = UpTo(e)
  OBVIOUS
<1>5. ASSUME NEW d \in S, d < e
      PROVE  FALSE
  <2>1. UpTo(d) \in Prefixes /\ UpTo(d) \subseteq P /\ e \in P /\ e \notin UpTo(d)
    BY <1>1, <1>4, <1>5
  <2>2. <<UpTo(d), P>> \in StrictSubsetOrdering(S)
    BY <2>1, <1>4 DEF StrictSubsetOrdering
  <2>3. QED
    BY <1>3, <2>1, <2>2
<1>6. QED
  BY <1>1, <1>5

\* A worker with a batch is dealing with an event of that batch ...
LEMMA CurrentInBatch ==
  ASSUME NEW w \in Workers, batch[w] \subseteq EventIds, batch[w] # {}
  PROVE  Current(w) \in batch[w] /\ Current(w) \in EventIds
  BY OldestExists DEF Current

\* ... which is the same one as long as the batch is.
LEMMA CurrentStable ==
  ASSUME NEW w \in Workers, batch'[w] = batch[w]
  PROVE  Current(w)' = Current(w)
  BY DEF Current

\* A fetch yields events, of the rows it may claim.
LEMMA FetchedAreClaimable ==
  ASSUME NEW w \in Workers, FetchPending(w)
  PROVE  \E fetched \in (SUBSET Claimable) \ {{}} : batch' = [batch EXCEPT ![w] = fetched]
  BY DEF FetchPending, Oldest

\* The oldest rows are none that follow one that is left out.
LEMMA OldestFirst ==
  ASSUME NEW S \in SUBSET EventIds, NEW e \in Oldest(S), NEW d \in S, d < e
  PROVE  d \in Oldest(S)
<1> DEFINE Before(x) == {y \in S : y < x}
<1>1. IsFiniteSet(S) /\ S \subseteq Nat /\ e \in Nat /\ d \in Nat
  BY EventsAreFinite, FS_Subset DEF Oldest
<1>2. Before(d) \in SUBSET Before(e)
  <2>1. \A y \in S : y < d => y < e
    BY <1>1
  <2>2. QED
    BY <2>1
<1>3. IsFiniteSet(Before(e))
  <2>1. Before(e) \in SUBSET S
    OBVIOUS
  <2> HIDE DEF Before
  <2>2. QED
    BY <1>1, <2>1, FS_Subset
<1>4. Cardinality(Before(e)) < BatchSize
  BY DEF Oldest
<1>5. Cardinality(Before(d)) < BatchSize
  <2> HIDE DEF Before
  <2>1. IsFiniteSet(Before(d)) /\ Cardinality(Before(d)) <= Cardinality(Before(e))
    BY <1>2, <1>3, FS_Subset
  <2>2. Cardinality(Before(d)) \in Nat /\ Cardinality(Before(e)) \in Nat
    BY <1>3, <2>1, FS_CardinalityType
  <2>3. QED
    BY <1>4, <2>1, <2>2, RelayAssumption
<1>6. QED
  BY <1>5 DEF Oldest

\* What MarkFailed writes is a row, published only if it read so, and an
\* attempt is counted.
LEMMA AfterFailureRow ==
  ASSUME NEW r \in OutboxRows
  PROVE  /\ AfterFailure(r) \in OutboxRows
         /\ AfterFailure(r).status = "published" => r.status = "published"
         /\ AfterFailure(r).retry = r.retry + 1
         /\ r.retry < MaxRetries /\ r.status = "pending" =>
               \/ AfterFailure(r).status = "pending" /\ r.retry + 1 < MaxRetries
               \/ AfterFailure(r).status = "failed" /\ r.retry + 1 = MaxRetries
<1> DEFINE f == AfterFailure(r)
<1>1. r.retry \in Nat /\ MaxRetries \in Nat /\ r.retry + 1 \in Nat
  BY RelayAssumption DEF OutboxRows
<1>2. CASE r.retry + 1 >= MaxRetries
  <2>1. f = [r EXCEPT !.retry = r.retry + 1, !.status = "failed"]
    BY <1>2 DEF AfterFailure
  <2>2. f \in OutboxRows
    BY <1>1, <2>1, Zenon DEF OutboxRows, RowStatuses
  <2>3. f.status = "failed" /\ f.retry = r.retry + 1
    BY <1>1, <2>1 DEF OutboxRows
  <2>4. QED
    BY <1>1, <1>2, <2>2, <2>3
<1>3. CASE ~(r.retry + 1 >= MaxRetries)
  <2>1. f = [r EXCEPT !.retry = r.retry + 1, !.due = FALSE]
    BY <1>3 DEF AfterFailure
  <2>2. f \in OutboxRows
    BY <1>1, <2>1, Zenon DEF OutboxRows
  <2>3. f.status = r.status /\ f.retry = r.retry + 1
    BY <1>1, <2>1 DEF OutboxRows
  <2>4. QED
    BY <1>1, <1>3, <2>2, <2>3
<1>4. QED
  BY <1>2, <1>3

\* The rows a worker inserts or resets.
LEMMA NewRowType ==
  /\ NewRow \in OutboxRows /\ AbsentRow \in OutboxRows
  /\ NewRow.status = "pending" /\ NewRow.retry = 0
  /\ AbsentRow.status = "absent"
  BY DEF NewRow, AbsentRow, OutboxRows, RowStatuses

-----------------------------------------------------------------------------
(* The invariant of any number of workers.                                 *)

\* It holds on an empty outbox.
LEMMA InitIInv == Init => IInv
  BY NewRowType, RelayAssumption
  DEF Init, IInv, TypeOK, DeliveredBeforeMark, PublishedWasDelivered, Labels

\* The end of an iteration: the worker marks nothing any more, and the other
\* workers go on with what they had.
LEMMA NextEventIInv ==
  ASSUME IInv, NEW w \in Workers, pc[w] # "poll", NextEvent(w),
         row' \in [EventIds -> OutboxRows], faults' \in 0..MaxFaults,
         UNCHANGED <<delivered, requeues>>
  PROVE  TypeOK' /\ DeliveredBeforeMark'
<1> USE DEF IInv
<1>1. batch[w] # {} /\ batch[w] \subseteq EventIds
  BY DEF TypeOK
<1>2. Current(w) \in batch[w]
  BY <1>1, CurrentInBatch
<1>3. TypeOK'
  BY <1>1, <1>2, NewRowType DEF TypeOK, NextEvent, Labels
<1>4. ASSUME NEW v \in Workers, pc'[v] \in {"published", "save"}
      PROVE  v # w /\ Current(v)' = Current(v) /\ pc'[v] = pc[v] /\ model'[v] = model[v]
  <2>1. v # w
    BY <1>4 DEF TypeOK, NextEvent
  <2>2. batch'[v] = batch[v]
    BY <2>1 DEF TypeOK, NextEvent
  <2>3. QED
    BY <2>1, <2>2, CurrentStable DEF TypeOK, NextEvent
<1>5. DeliveredBeforeMark'
  BY <1>4 DEF DeliveredBeforeMark
<1>6. QED
  BY <1>3, <1>5

\* A step of a worker that leaves its batch and the rows alone.
LEMMA SameBatchIInv ==
  ASSUME IInv, NEW w \in Workers, NEW label \in Labels \ {"poll"}, pc[w] # "poll",
         pc' = [pc EXCEPT ![w] = label],
         NEW r \in OutboxRows, model' = [model EXCEPT ![w] = r],
         delivered \subseteq delivered', delivered' \subseteq EventIds,
         label = "published" => Current(w) \in delivered',
         label = "save" /\ r.status = "published" => Current(w) \in delivered',
         UNCHANGED <<row, batch, faults, requeues>>
  PROVE  IInv'
<1> USE DEF IInv
<1>1. TypeOK'
  BY DEF TypeOK
<1>2. \A v \in Workers : Current(v)' = Current(v)
  BY CurrentStable
<1>3. DeliveredBeforeMark'
  BY <1>2 DEF TypeOK, DeliveredBeforeMark
<1>4. PublishedWasDelivered'
  BY DEF PublishedWasDelivered
<1>5. QED
  BY <1>1, <1>3, <1>4

\* A statement on the table by somebody who is not a worker.
LEMMA TableStepIInv ==
  ASSUME IInv, row' \in [EventIds -> OutboxRows], requeues' \in 0..MaxRequeues,
         \A e \in EventIds : row'[e].status = "published" => row[e].status = "published",
         UNCHANGED <<batch, pc, model, delivered, faults>>
  PROVE  IInv'
<1> USE DEF IInv
<1>1. TypeOK'
  BY DEF TypeOK
<1>2. \A v \in Workers : Current(v)' = Current(v)
  BY CurrentStable
<1>3. DeliveredBeforeMark'
  BY <1>2 DEF DeliveredBeforeMark
<1>4. PublishedWasDelivered'
  BY DEF PublishedWasDelivered
<1>5. QED
  BY <1>1, <1>3, <1>4

\* Every step preserves the invariant.
LEMMA NextIInv == IInv /\ [Next]_vars => IInv'
<1> SUFFICES ASSUME IInv, [Next]_vars
             PROVE  IInv'
  OBVIOUS
<1>t. TypeOK
  BY DEF IInv
<1>c. \A w \in Workers : pc[w] # "poll" => Current(w) \in batch[w] /\ Current(w) \in EventIds
  BY <1>t, CurrentInBatch DEF TypeOK
<1>1. CASE UNCHANGED vars
  <2>1. \A w \in Workers : Current(w)' = Current(w)
    BY <1>1, CurrentStable DEF vars
  <2>2. QED
    BY <1>1, <2>1 DEF vars, IInv, TypeOK, DeliveredBeforeMark, PublishedWasDelivered
<1>2. ASSUME NEW e \in EventIds, Append(e)
      PROVE  IInv'
  BY <1>t, <1>2, NewRowType, TableStepIInv DEF Append, TypeOK
<1>3. ASSUME NEW e \in EventIds, BackoffElapses(e)
      PROVE  IInv'
  BY <1>t, <1>3, TableStepIInv DEF BackoffElapses, TypeOK, OutboxRows
<1>4. CASE RequeueFailed
  <2>1. row' \in [EventIds -> OutboxRows] /\ requeues' \in 0..MaxRequeues
    BY <1>t, <1>4, NewRowType, RelayAssumption DEF RequeueFailed, TypeOK
  <2>2. \A e \in EventIds : row'[e].status = "published" => row[e].status = "published"
    BY <1>4, NewRowType DEF RequeueFailed
  <2>3. QED
    BY <1>4, <2>1, <2>2, TableStepIInv DEF RequeueFailed
<1>5. ASSUME NEW w \in Workers, FetchPending(w)
      PROVE  IInv'
  <2>1. PICK fetched \in (SUBSET EventIds) \ {{}} : batch' = [batch EXCEPT ![w] = fetched]
    BY <1>5, FetchedAreClaimable DEF Claimable
  <2>2. /\ pc[w] = "poll" /\ pc' = [pc EXCEPT ![w] = "publish"]
        /\ UNCHANGED <<row, model, delivered, faults, requeues>>
    BY <1>5 DEF FetchPending
  <2>3. TypeOK'
    BY <1>t, <2>1, <2>2 DEF TypeOK, Labels
  <2>4. \A v \in Workers \ {w} : Current(v)' = Current(v) /\ pc'[v] = pc[v]
    BY <1>t, <2>1, <2>2, CurrentStable DEF TypeOK
  <2>5. DeliveredBeforeMark'
    BY <1>t, <2>2, <2>4 DEF IInv, TypeOK, DeliveredBeforeMark
  <2>6. QED
    BY <2>2, <2>3, <2>5 DEF IInv, PublishedWasDelivered
<1>6. ASSUME NEW w \in Workers, PublishOk(w) \/ PublishError(w)
      PROVE  IInv'
  <2>1. \E label \in {"published", "failed"} :
           /\ pc' = [pc EXCEPT ![w] = label]
           /\ label = "published" => Current(w) \in delivered'
    BY <1>6 DEF PublishOk, PublishError
  <2>2. delivered \subseteq delivered' /\ delivered' \subseteq EventIds
    BY <1>t, <1>c, <1>6 DEF PublishOk, PublishError, TypeOK
  <2>3. /\ pc[w] # "poll" /\ UNCHANGED <<row, batch, model, faults, requeues>>
        /\ model[w] \in OutboxRows /\ model' = [model EXCEPT ![w] = model[w]]
    BY <1>t, <1>6 DEF PublishOk, PublishError, TypeOK
  <2>4. QED
    BY <2>1, <2>2, <2>3, SameBatchIInv DEF Labels
<1>7. ASSUME NEW w \in Workers, MarkFailedRead(w)
      PROVE  IInv'
  <2>1. /\ Current(w) \in EventIds
        /\ row[Current(w)] \in OutboxRows
        /\ row[Current(w)].status = "published" => Current(w) \in delivered
    BY <1>t, <1>c, <1>7 DEF MarkFailedRead, TypeOK, IInv, PublishedWasDelivered
  <2>2. QED
    BY <1>t, <1>7, <2>1, SameBatchIInv DEF MarkFailedRead, TypeOK, Labels
<1>8. ASSUME NEW w \in Workers, MarkPublished(w)
      PROVE  IInv'
  <2>1. Current(w) \in EventIds /\ Current(w) \in delivered /\ pc[w] = "published"
    BY <1>c, <1>8 DEF MarkPublished, IInv, DeliveredBeforeMark
  <2>2. row' \in [EventIds -> OutboxRows]
    BY <1>t, <1>8, <2>1 DEF MarkPublished, TypeOK, OutboxRows, RowStatuses
  <2>3. TypeOK' /\ DeliveredBeforeMark'
    BY <1>t, <1>8, <2>1, <2>2, NextEventIInv DEF MarkPublished, TypeOK
  <2>4. PublishedWasDelivered'
    BY <1>t, <1>8, <2>1 DEF MarkPublished, TypeOK, IInv, PublishedWasDelivered
  <2>5. QED
    BY <2>3, <2>4 DEF IInv
<1>9. ASSUME NEW w \in Workers, MarkFailedSave(w)
      PROVE  IInv'
  <2>1. /\ Current(w) \in EventIds /\ pc[w] = "save" /\ model[w] \in OutboxRows
        /\ model[w].status = "published" => Current(w) \in delivered
    BY <1>t, <1>c, <1>9 DEF MarkFailedSave, TypeOK, IInv, DeliveredBeforeMark
  <2>2. row' \in [EventIds -> OutboxRows]
    BY <1>t, <1>9, <2>1, AfterFailureRow DEF MarkFailedSave, TypeOK
  <2>3. TypeOK' /\ DeliveredBeforeMark'
    BY <1>t, <1>9, <2>1, <2>2, NextEventIInv DEF MarkFailedSave, TypeOK
  <2>4. PublishedWasDelivered'
    BY <1>t, <1>9, <2>1, AfterFailureRow DEF MarkFailedSave, TypeOK, IInv, PublishedWasDelivered
  <2>5. QED
    BY <2>3, <2>4 DEF IInv
<1>10. ASSUME NEW w \in Workers, MarkError(w)
       PROVE  IInv'
  <2>1. pc[w] # "poll" /\ faults' \in 0..MaxFaults /\ row' \in [EventIds -> OutboxRows]
    BY <1>t, <1>10, RelayAssumption DEF MarkError, TypeOK
  <2>2. TypeOK' /\ DeliveredBeforeMark'
    BY <1>10, <2>1, NextEventIInv DEF MarkError
  <2>3. QED
    BY <1>10, <2>2 DEF MarkError, IInv, PublishedWasDelivered
<1>11. ASSUME NEW w \in Workers, Crash(w)
       PROVE  IInv'
  <2>1. TypeOK'
    BY <1>t, <1>11, NewRowType, RelayAssumption DEF Crash, TypeOK, Labels
  <2>2. \A v \in Workers \ {w} :
           Current(v)' = Current(v) /\ pc'[v] = pc[v] /\ model'[v] = model[v]
    BY <1>t, <1>11, CurrentStable DEF Crash, TypeOK
  <2>3. DeliveredBeforeMark'
    BY <1>t, <1>11, <2>2 DEF Crash, IInv, TypeOK, DeliveredBeforeMark
  <2>4. QED
    BY <1>11, <2>1, <2>3 DEF Crash, IInv, PublishedWasDelivered
<1>12. ASSUME NEW w \in Workers, PollNothing(w)
       PROVE  IInv'
  BY <1>1, <1>12 DEF PollNothing
<1>13. QED
  BY <1>1, <1>2, <1>3, <1>4, <1>5, <1>6, <1>7, <1>8, <1>9, <1>10, <1>11, <1>12 DEF Next, Work

LEMMA InductiveInvariant == Spec => []IInv
<1>1. QED
  BY InitIInv, NextIInv, PTL DEF Spec

-----------------------------------------------------------------------------
(* The invariant of a worker that is alone.                                *)

LEMMA InitAloneInv == Alone /\ Init => AloneInv
<1> SUFFICES ASSUME Alone, Init PROVE AloneInv
  OBVIOUS
<1>1. IInv
  BY InitIInv
<1>2. BatchIsCurrent /\ SavedAsRead
  BY DEF Init, BatchIsCurrent, SavedAsRead
<1>3. CounterBelowMax
  BY NewRowType, RelayAssumption DEF Init, CounterBelowMax, AbsentRow
<1>4. RedeliveryHasReason /\ DeliveredWasAppended
  BY DEF Init, RedeliveryHasReason, DeliveredWasAppended
<1>5. QED
  BY <1>1, <1>2, <1>3, <1>4 DEF AloneInv

\* What the steps of a worker may rely on when it has a batch: the row of its
\* event is pending, due and below the limit.
LEMMA CurrentIsClaimable ==
  ASSUME AloneInv, NEW w \in Workers, pc[w] # "poll"
  PROVE  /\ Current(w) \in batch[w] /\ Current(w) \in EventIds
         /\ row[Current(w)] \in OutboxRows
         /\ row[Current(w)].status = "pending" /\ row[Current(w)].due
         /\ row[Current(w)].retry < MaxRetries
         /\ pc[w] = "save" => model[w] = row[Current(w)]
<1>1. Current(w) \in batch[w] /\ Current(w) \in EventIds
  BY CurrentInBatch DEF AloneInv, IInv, TypeOK
<1>2. row[Current(w)].status = "pending" /\ row[Current(w)].due
  BY <1>1 DEF AloneInv, BatchIsCurrent, Claimable
<1>3. QED
  BY <1>1, <1>2 DEF AloneInv, IInv, TypeOK, CounterBelowMax, SavedAsRead

\* A step that keeps the batches, the labels and what was read, of somebody
\* who changes only rows that are in no batch.
LEMMA TableStepAloneInv ==
  ASSUME AloneInv, IInv', UNCHANGED <<batch, pc, model, delivered, faults>>,
         requeues' >= requeues,
         \A e \in EventIds :
            \/ row'[e] = row[e]
            \/ /\ row[e].status # "pending" \/ ~row[e].due
               /\ row'[e].status = "pending" /\ row'[e].retry < MaxRetries
               /\ \/ row[e].status = "absent"
                  \/ row[e].status = "pending" /\ row'[e].retry = row[e].retry
                  \/ requeues' > 0
  PROVE  AloneInv'
<1> USE DEF AloneInv
<1>t. TypeOK /\ TypeOK'
  BY DEF IInv
<1>1. \A w \in Workers : Current(w)' = Current(w)
  BY CurrentStable
<1>2. BatchIsCurrent'
  BY <1>t DEF TypeOK, BatchIsCurrent, Claimable
<1>3. SavedAsRead'
  <2>1. SUFFICES ASSUME NEW w \in Workers, pc[w] = "save"
                 PROVE  model[w] = row'[Current(w)]
    BY <1>1 DEF SavedAsRead
  <2>2. QED
    BY <2>1, CurrentIsClaimable
<1>4. CounterBelowMax'
  BY DEF CounterBelowMax
<1>5. RedeliveryHasReason'
  <2>1. SUFFICES ASSUME NEW e \in delivered, row'[e].status = "pending", row'[e].retry = 0,
                        ~(faults > 0), ~(requeues' > 0)
                 PROVE  InProgress(e)'
    BY DEF RedeliveryHasReason
  <2>2. e \in EventIds /\ ~(requeues > 0) /\ row[e].status # "absent"
    BY <1>t, <2>1, RelayAssumption DEF TypeOK, DeliveredWasAppended
  <2>3. row[e].status = "pending" /\ row[e].retry = 0
    BY <2>1, <2>2
  <2>4. InProgress(e)
    BY <2>1, <2>2, <2>3 DEF RedeliveryHasReason
  <2>5. QED
    BY <1>1, <2>4 DEF InProgress
<1>6. DeliveredWasAppended'
  BY <1>t DEF TypeOK, DeliveredWasAppended
<1>7. QED
  BY <1>2, <1>3, <1>4, <1>5, <1>6 DEF Alone

\* A step of the worker within an iteration: the rows stay, and the event it
\* may deliver is the one it stays in progress with.
LEMMA SameBatchAloneInv ==
  ASSUME AloneInv, IInv', NEW w \in Workers, pc[w] # "poll",
         UNCHANGED <<row, batch, faults, requeues>>,
         delivered' \subseteq delivered \cup {Current(w)},
         pc'[w] \in {"published", "failed", "save"},
         pc'[w] = "save" => model'[w] = row[Current(w)]
  PROVE  AloneInv'
<1> USE DEF AloneInv
<1>1. \A v \in Workers : v = w
  BY DEF Alone
<1>2. Current(w)' = Current(w)
  BY CurrentStable
<1>3. BatchIsCurrent' /\ SavedAsRead' /\ CounterBelowMax'
  BY <1>1, <1>2 DEF BatchIsCurrent, Claimable, SavedAsRead, CounterBelowMax
<1>4. RedeliveryHasReason'
  <2>1. SUFFICES ASSUME NEW e \in delivered', row[e].status = "pending", row[e].retry = 0,
                        ~(faults > 0), ~(requeues > 0)
                 PROVE  InProgress(e)'
    BY DEF RedeliveryHasReason
  <2>2. e = Current(w)
    <3>1. CASE e \in delivered
      BY <1>1, <2>1, <3>1 DEF RedeliveryHasReason, InProgress
    <3>2. QED
      BY <2>1, <3>1
  <2>3. QED
    BY <1>2, <2>2 DEF InProgress
<1>5. DeliveredWasAppended'
  BY CurrentIsClaimable DEF DeliveredWasAppended
<1>6. QED
  BY <1>3, <1>4, <1>5 DEF Alone

\* The end of an iteration: the worker lets go of its event, whose row it has
\* settled or counted an attempt for, unless something has failed.
LEMMA NextEventAloneInv ==
  ASSUME AloneInv, IInv', NEW w \in Workers, pc[w] # "poll", NextEvent(w),
         UNCHANGED <<delivered, requeues>>, faults' >= faults,
         NEW r \in OutboxRows, row' = [row EXCEPT ![Current(w)] = r],
         r.status # "absent",
         r.status = "failed" => r.retry = MaxRetries,
         r.status # "failed" => r.retry < MaxRetries,
         r.status = "pending" => r.retry > 0 \/ faults' > 0
  PROVE  AloneInv'
<1> USE DEF AloneInv
<1>t. TypeOK /\ TypeOK'
  BY DEF IInv
<1>1. \A v \in Workers : v = w
  BY DEF Alone
<1>2. Current(w) \in EventIds
  BY CurrentIsClaimable
<1>3. \A e \in EventIds : row'[e] = IF e = Current(w) THEN r ELSE row[e]
  BY <1>t, <1>2 DEF TypeOK
<1>4. batch'[w] = batch[w] \ {Current(w)} /\ pc'[w] \in {"poll", "publish"}
  BY <1>t DEF TypeOK, NextEvent
<1>5. BatchIsCurrent' /\ SavedAsRead'
  BY <1>1, <1>3, <1>4 DEF BatchIsCurrent, Claimable, SavedAsRead
<1>6. CounterBelowMax'
  BY <1>3 DEF CounterBelowMax
<1>7. RedeliveryHasReason'
  <2>1. SUFFICES ASSUME NEW e \in delivered, row'[e].status = "pending", row'[e].retry = 0,
                        ~(faults' > 0), ~(requeues > 0)
                 PROVE  FALSE
    BY DEF RedeliveryHasReason
  <2>2. e \in EventIds /\ ~(faults > 0)
    BY <1>t, <2>1, RelayAssumption DEF TypeOK
  <2>3. e # Current(w)
    BY <1>3, <2>1, <2>2
  <2>4. InProgress(e)
    BY <1>3, <2>1, <2>2, <2>3 DEF RedeliveryHasReason
  <2>5. QED
    BY <1>1, <2>3, <2>4 DEF InProgress
<1>8. DeliveredWasAppended'
  BY <1>t, <1>3 DEF TypeOK, DeliveredWasAppended
<1>9. QED
  BY <1>5, <1>6, <1>7, <1>8 DEF Alone

\* Every step preserves the invariant.
LEMMA NextAloneInv == AloneInv /\ [Next]_vars => AloneInv'
<1> SUFFICES ASSUME AloneInv, [Next]_vars
             PROVE  AloneInv'
  OBVIOUS
<1>i. IInv'
  BY NextIInv DEF AloneInv
<1>t. TypeOK /\ TypeOK'
  BY <1>i DEF AloneInv, IInv
<1>m. MaxRetries \in Nat \ {0} /\ requeues \in Nat /\ faults \in Nat
  BY <1>t, RelayAssumption DEF TypeOK
<1>1. CASE UNCHANGED vars
  BY <1>i, <1>1, <1>m, TableStepAloneInv DEF vars
<1>2. ASSUME NEW e \in EventIds, Append(e)
      PROVE  AloneInv'
  BY <1>i, <1>t, <1>m, <1>2, NewRowType, TableStepAloneInv DEF Append, TypeOK
<1>3. ASSUME NEW e \in EventIds, BackoffElapses(e)
      PROVE  AloneInv'
  <2>1. /\ row' = [row EXCEPT ![e].due = TRUE] /\ row[e].status = "pending" /\ ~row[e].due
        /\ UNCHANGED <<batch, pc, model, delivered, faults, requeues>>
    BY <1>3 DEF BackoffElapses
  <2>2. row[e] \in OutboxRows /\ row[e].retry < MaxRetries
    BY <1>t, <2>1 DEF TypeOK, AloneInv, CounterBelowMax
  <2>3. row'[e].status = "pending" /\ row'[e].retry = row[e].retry
    BY <1>t, <2>1, <2>2 DEF TypeOK, OutboxRows
  <2>4. \A d \in EventIds \ {e} : row'[d] = row[d]
    BY <1>t, <2>1 DEF TypeOK
  <2>5. QED
    BY <1>i, <1>m, <2>1, <2>2, <2>3, <2>4, TableStepAloneInv
<1>4. CASE RequeueFailed
  BY <1>i, <1>t, <1>m, <1>4, NewRowType, TableStepAloneInv DEF RequeueFailed, TypeOK
<1>5. ASSUME NEW w \in Workers, FetchPending(w)
      PROVE  AloneInv'
  <2>1. PICK fetched \in SUBSET Claimable : batch' = [batch EXCEPT ![w] = fetched]
    BY <1>5, FetchedAreClaimable
  <2>2. /\ pc[w] = "poll" /\ pc'[w] = "publish"
        /\ UNCHANGED <<row, model, delivered, faults, requeues>>
    BY <1>t, <1>5 DEF FetchPending, TypeOK
  <2>3. \A v \in Workers : v = w
    BY DEF AloneInv, Alone
  <2>4. BatchIsCurrent' /\ SavedAsRead'
    BY <1>t, <2>1, <2>2, <2>3 DEF TypeOK, AloneInv, BatchIsCurrent, Claimable, SavedAsRead
  <2>5. CounterBelowMax' /\ DeliveredWasAppended'
    BY <2>2 DEF AloneInv, CounterBelowMax, DeliveredWasAppended
  <2>6. RedeliveryHasReason'
    BY <2>2, <2>3 DEF AloneInv, RedeliveryHasReason, InProgress
  <2>7. QED
    BY <1>i, <2>4, <2>5, <2>6 DEF AloneInv, Alone
<1>6. ASSUME NEW w \in Workers, PublishOk(w) \/ PublishError(w) \/ MarkFailedRead(w)
      PROVE  AloneInv'
  <2>1. /\ pc[w] # "poll" /\ UNCHANGED <<row, batch, faults, requeues>>
        /\ delivered' \subseteq delivered \cup {Current(w)}
    BY <1>6 DEF PublishOk, PublishError, MarkFailedRead
  <2>2. /\ pc'[w] \in {"published", "failed", "save"}
        /\ pc'[w] = "save" => model'[w] = row[Current(w)]
    BY <1>t, <1>6 DEF TypeOK, PublishOk, PublishError, MarkFailedRead
  <2>3. QED
    BY <1>i, <2>1, <2>2, SameBatchAloneInv
<1>7. ASSUME NEW w \in Workers, MarkPublished(w)
      PROVE  AloneInv'
  <2> DEFINE r == [row[Current(w)] EXCEPT !.status = "published"]
  <2>1. pc[w] # "poll" /\ row[Current(w)] \in OutboxRows
    BY <1>7, CurrentIsClaimable DEF MarkPublished
  <2>2. r \in OutboxRows /\ r.status = "published" /\ r.retry < MaxRetries
    BY <1>7, <2>1, CurrentIsClaimable DEF MarkPublished, OutboxRows, RowStatuses
  <2>3. row' = [row EXCEPT ![Current(w)] = r]
    BY <1>7 DEF MarkPublished
  <2> HIDE DEF r
  <2>4. QED
    <3>1. NextEvent(w) /\ UNCHANGED <<delivered, requeues>> /\ faults' >= faults
      BY <1>m, <1>7 DEF MarkPublished
    <3>2. QED
      BY <1>i, <2>1, <2>2, <2>3, <3>1, NextEventAloneInv
<1>8. ASSUME NEW w \in Workers, MarkFailedSave(w)
      PROVE  AloneInv'
  <2>1. /\ pc[w] # "poll" /\ model[w] \in OutboxRows
        /\ model[w].status = "pending" /\ model[w].retry < MaxRetries
    BY <1>8, CurrentIsClaimable DEF MarkFailedSave
  <2>2. model[w].retry + 1 > 0
    BY <2>1 DEF OutboxRows
  <2>3. QED
    <3> DEFINE r == AfterFailure(model[w])
    <3>1. /\ NextEvent(w) /\ UNCHANGED <<delivered, requeues>> /\ faults' >= faults
          /\ row' = [row EXCEPT ![Current(w)] = r]
      BY <1>m, <1>8 DEF MarkFailedSave
    <3>2. /\ r \in OutboxRows /\ r.status # "absent"
          /\ r.status = "failed" => r.retry = MaxRetries
          /\ r.status # "failed" => r.retry < MaxRetries
          /\ r.status = "pending" => r.retry > 0
      BY <2>1, <2>2, AfterFailureRow
    <3> HIDE DEF r
    <3>3. QED
      BY <1>i, <2>1, <3>1, <3>2, NextEventAloneInv
<1>9. ASSUME NEW w \in Workers, MarkError(w)
      PROVE  AloneInv'
  <2>1. pc[w] # "poll" /\ faults' = faults + 1 /\ UNCHANGED row
    BY <1>9 DEF MarkError
  <2>2. /\ row[Current(w)] \in OutboxRows /\ row[Current(w)].status = "pending"
        /\ row[Current(w)].retry < MaxRetries
        /\ row' = [row EXCEPT ![Current(w)] = row[Current(w)]]
    BY <1>t, <2>1, CurrentIsClaimable DEF TypeOK
  <2>3. QED
    <3>1. /\ NextEvent(w) /\ UNCHANGED <<delivered, requeues>>
          /\ faults' >= faults /\ faults' > 0
      BY <1>m, <1>9, <2>1 DEF MarkError
    <3>2. QED
      BY <1>i, <2>1, <2>2, <3>1, NextEventAloneInv
<1>10. ASSUME NEW w \in Workers, Crash(w)
       PROVE  AloneInv'
  <2>1. /\ pc'[w] = "poll" /\ batch'[w] = {} /\ faults' > 0
        /\ UNCHANGED <<row, delivered, requeues>>
    BY <1>t, <1>m, <1>10 DEF Crash, TypeOK
  <2>2. \A v \in Workers : v = w
    BY DEF AloneInv, Alone
  <2>3. BatchIsCurrent' /\ SavedAsRead' /\ CounterBelowMax'
    BY <2>1, <2>2 DEF AloneInv, BatchIsCurrent, Claimable, SavedAsRead, CounterBelowMax
  <2>4. RedeliveryHasReason' /\ DeliveredWasAppended'
    BY <2>1 DEF AloneInv, RedeliveryHasReason, DeliveredWasAppended
  <2>5. QED
    BY <1>i, <2>3, <2>4 DEF AloneInv, Alone
<1>11. ASSUME NEW w \in Workers, PollNothing(w)
       PROVE  AloneInv'
  BY <1>1, <1>11 DEF PollNothing
<1>12. QED
  BY <1>1, <1>2, <1>3, <1>4, <1>5, <1>6, <1>7, <1>8, <1>9, <1>10, <1>11 DEF Next, Work

LEMMA AloneInvariant == Alone => (Spec => []AloneInv)
<1>1. QED
  BY InitAloneInv, NextAloneInv, PTL DEF Spec

-----------------------------------------------------------------------------
(* The history of the attempts of a worker that is alone.                  *)

\* The last attempt on e, if there was one, is not counted yet, or never will be.
Uncounted(e) == row[e].status = "published" \/ InProgress(e)

\* retry_count against the attempts: it counts none that did not fail, and
\* leaves out the last one and one for each fault.
Counted ==
    /\ attempts \in [EventIds -> Nat] /\ refused \in [EventIds -> Nat]
    /\ \A e \in EventIds :
          /\ refused[e] >= row[e].retry
          /\ attempts[e] <= row[e].retry + faults + 1
          /\ ~Uncounted(e) => attempts[e] <= row[e].retry + faults
          /\ row[e].status = "absent" => attempts[e] = 0
    /\ \A w \in Workers :
          pc[w] \in {"failed", "save"} => refused[Current(w)] > row[Current(w)].retry

\* A step that tries nothing and ends no attempt.
LEMMA IdleCounted ==
  ASSUME AloneInv, AloneInv', Counted, UNCHANGED <<history, faults>>,
         \A e \in EventIds :
            /\ \/ row'[e].retry = row[e].retry
               \/ row[e].status = "absent" /\ row'[e].retry = 0
            /\ row[e].status = "published" => row'[e].status = "published"
            /\ row'[e].status = "absent" => row[e].status = "absent",
         \A w \in Workers :
            /\ pc[w] \in {"published", "failed", "save"} =>
                  pc'[w] \in {"published", "failed", "save"} /\ batch'[w] = batch[w]
            /\ pc'[w] \in {"failed", "save"} => pc[w] \in {"failed", "save"}
  PROVE  Counted'
<1>t. /\ TypeOK /\ TypeOK' /\ faults \in Nat
      /\ attempts' = attempts /\ refused' = refused /\ faults' = faults
  BY RelayAssumption DEF AloneInv, IInv, TypeOK, history
<1>1. \A w \in Workers : pc[w] \in {"published", "failed", "save"} => Current(w)' = Current(w)
  BY CurrentStable
<1>2. \A e \in EventIds : Uncounted(e) => Uncounted(e)'
  BY <1>1 DEF Uncounted, InProgress
<1>3. ASSUME NEW e \in EventIds
      PROVE  /\ refused[e] >= row'[e].retry
             /\ attempts[e] <= row'[e].retry + faults + 1
             /\ ~Uncounted(e)' => attempts[e] <= row'[e].retry + faults
             /\ row'[e].status = "absent" => attempts[e] = 0
  <2>1. /\ row[e].retry \in Nat /\ row'[e].retry \in Nat /\ attempts[e] \in Nat /\ refused[e] \in Nat
    BY <1>t DEF TypeOK, OutboxRows, Counted
  <2>2. QED
    BY <1>t, <1>2, <2>1 DEF Counted
<1>4. ASSUME NEW w \in Workers, pc'[w] \in {"failed", "save"}
      PROVE  refused[Current(w)'] > row'[Current(w)'].retry
  <2>1. pc[w] \in {"failed", "save"} /\ Current(w)' = Current(w)
    BY <1>1, <1>4
  <2>2. /\ Current(w) \in EventIds /\ row[Current(w)].status = "pending"
    BY <2>1, CurrentIsClaimable
  <2>3. QED
    BY <2>1, <2>2 DEF Counted
<1>5. QED
  BY <1>t, <1>3, <1>4 DEF Counted

\* The end of an attempt: the worker has counted it, or published the event, or
\* something has failed.
LEMMA EndCounted ==
  ASSUME AloneInv, AloneInv', Counted, UNCHANGED history, NEW w \in Workers,
         pc[w] # "poll", pc'[w] \notin {"published", "failed", "save"}, faults' \in Nat,
         \A e \in EventIds : row'[e].status = "absent" => row[e].status = "absent",
         \/ faults' = faults + 1 /\ UNCHANGED row
         \/ /\ faults' = faults
            /\ pc[w] \in {"published", "failed", "save"}
            /\ \A e \in EventIds \ {Current(w)} : row'[e] = row[e]
            /\ \/ /\ row'[Current(w)].status = "published"
                  /\ row'[Current(w)].retry = row[Current(w)].retry
               \/ /\ pc[w] \in {"failed", "save"}
                  /\ row'[Current(w)].retry = row[Current(w)].retry + 1
  PROVE  Counted'
<1>t. /\ TypeOK /\ TypeOK' /\ faults \in Nat
      /\ attempts' = attempts /\ refused' = refused
  BY RelayAssumption DEF AloneInv, IInv, TypeOK, history
<1>1. \A v \in Workers : v = w
  BY DEF AloneInv, Alone
<1>2. \A e \in EventIds : ~InProgress(e)'
  BY <1>1 DEF InProgress
<1>3. /\ Current(w) \in EventIds
      /\ \A e \in EventIds \ {Current(w)} : ~InProgress(e)
  BY <1>1, CurrentIsClaimable DEF InProgress
<1>4. ASSUME NEW e \in EventIds
      PROVE  /\ refused[e] >= row'[e].retry
             /\ attempts[e] <= row'[e].retry + faults' + 1
             /\ ~Uncounted(e)' => attempts[e] <= row'[e].retry + faults'
             /\ row'[e].status = "absent" => attempts[e] = 0
  <2>1. /\ row[e].retry \in Nat /\ row'[e].retry \in Nat /\ attempts[e] \in Nat /\ refused[e] \in Nat
        /\ refused[e] >= row[e].retry
        /\ attempts[e] <= row[e].retry + faults + 1
        /\ row'[e].status = "absent" => attempts[e] = 0
    BY <1>t DEF TypeOK, OutboxRows, Counted
  <2>2. CASE faults' = faults + 1 /\ UNCHANGED row
    BY <1>t, <2>1, <2>2
  <2>3. CASE faults' = faults /\ e = Current(w)
    BY <1>t, <2>1, <2>3 DEF Counted, Uncounted
  <2>4. CASE faults' = faults /\ e # Current(w)
    <3>1. row'[e] = row[e]
      BY <1>t, <2>4
    <3>2. ~Uncounted(e)' => ~Uncounted(e)
      BY <1>3, <2>4, <3>1 DEF Uncounted
    <3>3. QED
      BY <2>1, <2>4, <3>1, <3>2 DEF Counted
  <2>5. QED
    BY <2>2, <2>3, <2>4
<1>5. \A v \in Workers : pc'[v] \notin {"failed", "save"}
  BY <1>1
<1>6. QED
  BY <1>t, <1>4, <1>5 DEF Counted

\* An attempt: the event is the one in progress from then on.
LEMMA TryCounted ==
  ASSUME AloneInv, AloneInv', Counted, NEW w \in Workers, HPublishOk(w) \/ HPublishError(w)
  PROVE  Counted'
<1>c. PICK c : c = Current(w)
  OBVIOUS
<1>t. TypeOK /\ faults \in Nat
  BY RelayAssumption DEF AloneInv, IInv, TypeOK
<1>1. /\ pc[w] = "publish" /\ UNCHANGED <<row, batch, faults>>
      /\ attempts' = Once(attempts, c)
      /\ \/ refused' = refused /\ pc'[w] = "published"
         \/ refused' = Once(refused, c) /\ pc'[w] = "failed"
  BY <1>c, <1>t DEF HPublishOk, HPublishError, PublishOk, PublishError, TypeOK
<1>2. /\ c \in EventIds /\ row[c] \in OutboxRows /\ row[c].status = "pending"
      /\ Current(w)' = c
  BY <1>c, <1>1, CurrentIsClaimable, CurrentStable
<1>3. \A v \in Workers : v = w
  BY DEF AloneInv, Alone
<1>4. /\ \A e \in EventIds : ~InProgress(e)
      /\ InProgress(c)'
  BY <1>1, <1>2, <1>3 DEF InProgress
<1>5. /\ attempts' \in [EventIds -> Nat] /\ refused' \in [EventIds -> Nat]
      /\ attempts'[c] = attempts[c] + 1 /\ refused'[c] >= refused[c]
      /\ pc'[w] = "failed" => refused'[c] > refused[c]
      /\ \A e \in EventIds \ {c} : attempts'[e] = attempts[e] /\ refused'[e] = refused[e]
  BY <1>1, <1>2 DEF Once, Counted
<1>6. ASSUME NEW e \in EventIds
      PROVE  /\ refused'[e] >= row[e].retry
             /\ attempts'[e] <= row[e].retry + faults + 1
             /\ ~Uncounted(e)' => attempts'[e] <= row[e].retry + faults
             /\ row[e].status = "absent" => attempts'[e] = 0
  <2>1. /\ row[e].retry \in Nat /\ attempts[e] \in Nat /\ refused[e] \in Nat
        /\ refused'[e] \in Nat /\ attempts'[e] \in Nat
    BY <1>t, <1>5 DEF TypeOK, OutboxRows, Counted
  <2>2. CASE e = c
    <3>1. ~Uncounted(e) /\ InProgress(e)'
      BY <1>2, <1>4, <2>2 DEF Uncounted
    <3>2. /\ refused[e] >= row[e].retry
          /\ attempts[e] <= row[e].retry + faults
      BY <3>1 DEF Counted
    <3>3. /\ refused'[e] >= row[e].retry
          /\ attempts'[e] <= row[e].retry + faults + 1
      BY <1>t, <1>5, <2>1, <2>2, <3>2
    <3>4. Uncounted(e)'
      BY <3>1 DEF Uncounted
    <3>5. row[e].status # "absent"
      BY <1>2, <2>2
    <3>6. QED
      BY <3>3, <3>4, <3>5
  <2>3. CASE e # c
    <3>1. attempts'[e] = attempts[e] /\ refused'[e] = refused[e]
      BY <1>5, <2>3
    <3>2. ~Uncounted(e)' => ~Uncounted(e)
      BY <1>1, <1>4 DEF Uncounted
    <3>3. QED
      BY <3>1, <3>2 DEF Counted
  <2>4. QED
    BY <2>2, <2>3
<1>7. ASSUME NEW v \in Workers, pc'[v] \in {"failed", "save"}
      PROVE  refused'[Current(v)'] > row'[Current(v)'].retry
  <2>1. v = w /\ Current(v)' = c
    BY <1>2, <1>3
  <2>2. /\ refused[c] >= row[c].retry /\ row[c].retry \in Nat /\ refused[c] \in Nat
        /\ refused'[c] \in Nat /\ refused'[c] > refused[c]
    BY <1>1, <1>2, <1>5, <1>7, <2>1 DEF Counted, OutboxRows
  <2>3. QED
    BY <1>1, <2>1, <2>2
<1>8. QED
  BY <1>1, <1>5, <1>6, <1>7 DEF Counted

\* A requeue forgets the attempts it sets retry_count back for.
LEMMA RequeueCounted ==
  ASSUME AloneInv, AloneInv', Counted, HRequeueFailed
  PROVE  Counted'
<1>t. TypeOK /\ TypeOK' /\ faults \in Nat /\ MaxRetries \in Nat
  BY RelayAssumption DEF AloneInv, IInv, TypeOK
<1>1. /\ UNCHANGED <<batch, pc, faults>>
      /\ row' = [e \in EventIds |-> IF row[e].status = "failed" THEN NewRow ELSE row[e]]
      /\ attempts' = Forget(attempts) /\ refused' = Forget(refused)
  BY DEF HRequeueFailed, RequeueFailed
<1>2. \A w \in Workers : Current(w)' = Current(w)
  BY <1>1, CurrentStable
<1>3. attempts' \in [EventIds -> Nat] /\ refused' \in [EventIds -> Nat]
  BY <1>1 DEF Forget, Counted
<1>4. ASSUME NEW e \in EventIds
      PROVE  /\ refused'[e] >= row'[e].retry
             /\ attempts'[e] <= row'[e].retry + faults + 1
             /\ ~Uncounted(e)' => attempts'[e] <= row'[e].retry + faults
             /\ row'[e].status = "absent" => attempts'[e] = 0
  <2>1. CASE row[e].status = "failed"
    BY <1>t, <1>1, <2>1, NewRowType DEF Forget
  <2>2. CASE row[e].status # "failed"
    <3>1. row'[e] = row[e] /\ attempts'[e] = attempts[e] /\ refused'[e] = refused[e]
      BY <1>1, <2>2 DEF Forget
    <3>2. Uncounted(e) => Uncounted(e)'
      BY <1>1, <1>2, <3>1 DEF Uncounted, InProgress
    <3>3. QED
      BY <3>1, <3>2 DEF Counted
  <2>3. QED
    BY <2>1, <2>2
<1>5. ASSUME NEW w \in Workers, pc'[w] \in {"failed", "save"}
      PROVE  refused'[Current(w)'] > row'[Current(w)'].retry
  <2>1. /\ Current(w) \in EventIds /\ row[Current(w)].status = "pending"
        /\ pc[w] \in {"failed", "save"}
    BY <1>1, <1>5, CurrentIsClaimable
  <2>2. row'[Current(w)] = row[Current(w)] /\ refused'[Current(w)] = refused[Current(w)]
    BY <1>1, <2>1 DEF Forget
  <2>3. QED
    BY <1>2, <2>1, <2>2 DEF Counted
<1>6. QED
  BY <1>1, <1>3, <1>4, <1>5 DEF Counted

\* Every step keeps the counts in step.
LEMMA NextCounted == AloneInv /\ AloneInv' /\ Counted /\ [HNext]_hvars => Counted'
<1> SUFFICES ASSUME AloneInv, AloneInv', Counted, [HNext]_hvars
             PROVE  Counted'
  OBVIOUS
<1>t. TypeOK /\ TypeOK' /\ faults \in Nat /\ faults' \in Nat
  BY RelayAssumption DEF AloneInv, IInv, TypeOK
<1>1. CASE UNCHANGED hvars
  BY <1>1, IdleCounted DEF hvars, vars
<1>2. CASE \E w \in Workers : HPublishOk(w) \/ HPublishError(w)
  BY <1>2, TryCounted
<1>3. CASE HRequeueFailed
  BY <1>3, RequeueCounted
<1>4. CASE Untried /\ UNCHANGED history
  <2>1. ASSUME NEW e \in EventIds, Append(e) \/ BackoffElapses(e)
        PROVE  Counted'
    <3>1. /\ UNCHANGED <<batch, pc, faults>>
          /\ \/ /\ row[e].status = "absent"
                /\ row'[e].retry = 0 /\ row'[e].status = "pending"
             \/ /\ row[e].status = "pending"
                /\ row'[e] = [row[e] EXCEPT !.due = TRUE]
          /\ \A d \in EventIds \ {e} : row'[d] = row[d]
      BY <1>t, <2>1, NewRowType DEF Append, BackoffElapses, TypeOK
    <3>2. row[e] \in OutboxRows
      BY <1>t DEF TypeOK
    <3>3. /\ [row[e] EXCEPT !.due = TRUE].retry = row[e].retry
          /\ [row[e] EXCEPT !.due = TRUE].status = row[e].status
      BY <3>2 DEF OutboxRows
    <3>4. QED
      BY <1>4, <3>1, <3>3, IdleCounted
  <2>2. ASSUME NEW w \in Workers, FetchPending(w) \/ PollNothing(w) \/ MarkFailedRead(w)
        PROVE  Counted'
    <3>1. /\ UNCHANGED <<row, faults>>
          /\ \/ pc[w] = "poll" /\ pc'[w] = "publish"
             \/ pc'[w] = pc[w] /\ batch'[w] = batch[w]
             \/ pc[w] = "failed" /\ pc'[w] = "save" /\ batch'[w] = batch[w]
      BY <1>t, <2>2 DEF FetchPending, PollNothing, MarkFailedRead, vars, TypeOK
    <3>2. \A v \in Workers : v = w
      BY DEF AloneInv, Alone
    <3>3. QED
      BY <1>4, <3>1, <3>2, IdleCounted
  <2>3. ASSUME NEW w \in Workers, MarkError(w) \/ Crash(w)
        PROVE  Counted'
    <3>1. /\ pc[w] # "poll" /\ pc'[w] \in {"poll", "publish"}
          /\ faults' = faults + 1 /\ UNCHANGED row
      BY <1>t, <2>3 DEF MarkError, Crash, NextEvent, TypeOK
    <3>2. QED
      BY <1>t, <1>4, <3>1, EndCounted
  <2>4. ASSUME NEW w \in Workers, MarkPublished(w)
        PROVE  Counted'
    <3>1. /\ pc[w] = "published" /\ pc'[w] \in {"poll", "publish"} /\ faults' = faults
          /\ row' = [row EXCEPT ![Current(w)].status = "published"]
      BY <1>t, <2>4 DEF MarkPublished, NextEvent, TypeOK
    <3>2. Current(w) \in EventIds /\ row[Current(w)] \in OutboxRows
      BY <3>1, CurrentIsClaimable
    <3>3. /\ row'[Current(w)].status = "published"
          /\ row'[Current(w)].retry = row[Current(w)].retry
          /\ \A e \in EventIds \ {Current(w)} : row'[e] = row[e]
      BY <1>t, <3>1, <3>2 DEF TypeOK, OutboxRows
    <3>4. QED
      BY <1>t, <1>4, <3>1, <3>3, EndCounted
  <2>5. ASSUME NEW w \in Workers, MarkFailedSave(w)
        PROVE  Counted'
    <3>1. /\ pc[w] = "save" /\ pc'[w] \in {"poll", "publish"} /\ faults' = faults
          /\ row' = [row EXCEPT ![Current(w)] = AfterFailure(model[w])]
      BY <1>t, <2>5 DEF MarkFailedSave, NextEvent, TypeOK
    <3>2. /\ Current(w) \in EventIds /\ model[w] = row[Current(w)] /\ model[w] \in OutboxRows
          /\ model[w].status = "pending" /\ model[w].retry < MaxRetries
      BY <3>1, CurrentIsClaimable
    <3>3. /\ AfterFailure(model[w]).retry = row[Current(w)].retry + 1
          /\ AfterFailure(model[w]).status # "absent"
      BY <3>2, AfterFailureRow
    <3>4. /\ row'[Current(w)].retry = row[Current(w)].retry + 1
          /\ row'[Current(w)].status # "absent"
          /\ \A e \in EventIds \ {Current(w)} : row'[e] = row[e]
      BY <1>t, <3>1, <3>2, <3>3 DEF TypeOK
    <3>5. QED
      BY <1>t, <1>4, <3>1, <3>4, EndCounted
  <2>6. QED
    BY <1>4, <2>1, <2>2, <2>3, <2>4, <2>5 DEF Untried
<1>5. QED
  BY <1>1, <1>2, <1>3, <1>4 DEF HNext

\* With the history the worker does what it does without.
LEMMA HistoryStep == [HNext]_hvars => [Next]_vars
<1>1. HNext => Next
  BY DEF HNext, HPublishOk, HPublishError, HRequeueFailed, Untried, Next, Work
<1>2. UNCHANGED hvars => UNCHANGED vars
  BY DEF hvars
<1>3. QED
  BY <1>1, <1>2

LEMMA CountedInvariant == Alone => (HSpec => [](AloneInv /\ Counted))
<1> SUFFICES ASSUME Alone PROVE HSpec => [](AloneInv /\ Counted)
  OBVIOUS
<1>1. HInit => AloneInv /\ Counted
  <2> SUFFICES ASSUME HInit PROVE AloneInv /\ Counted
    OBVIOUS
  <2>1. AloneInv
    BY InitAloneInv DEF HInit
  <2>2. \A e \in EventIds : row[e].retry = 0 /\ attempts[e] = 0 /\ refused[e] = 0
    BY DEF HInit, Init, AbsentRow
  <2>3. \A w \in Workers : pc[w] = "poll"
    BY DEF HInit, Init
  <2>4. Counted
    BY <2>2, <2>3 DEF HInit, Init, Counted
  <2>5. QED
    BY <2>1, <2>4
<1>2. AloneInv /\ Counted /\ [HNext]_hvars => AloneInv' /\ Counted'
  BY HistoryStep, NextAloneInv, NextCounted
<1>3. QED
  BY <1>1, <1>2, PTL DEF HSpec

-----------------------------------------------------------------------------
(* The theorems.                                                           *)

\* Type correctness, and that a worker polls exactly when it has no batch,
\* for any number of workers and events.
THEOREM TypeCorrect == Spec => []TypeOK
<1>1. IInv => TypeOK
  BY DEF IInv
<1>2. QED
  BY InductiveInvariant, <1>1, PTL

\* However many workers fetch one another's rows and save stale copies of
\* them, no event is marked published that the bus never got.
THEOREM PublishedOnlyIfDelivered == Spec => []PublishedWasDelivered
<1>1. IInv => PublishedWasDelivered
  BY DEF IInv
<1>2. QED
  BY InductiveInvariant, <1>1, PTL

\* One worker needs no locks: the rows of its batch stay claimable until it
\* deals with them, for any number of events, requeues and crashes.
THEOREM AloneBatchIsCurrent == Alone => (Spec => []BatchIsCurrent)
<1>1. AloneInv => BatchIsCurrent
  BY DEF AloneInv
<1>2. QED
  BY AloneInvariant, <1>1, PTL

\* One worker gives an event up after MaxRetries failed attempts at the earliest,
\* and tries none more often than MaxRetries plus the faults that kept MarkFailed
\* from counting, although MarkFailed counts in a read and a later write.
THEOREM AloneGivesUpInTime == Alone => (HSpec => []GivenUpAfterMaxRetries)
<1>1. AloneInv /\ Counted => GivenUpAfterMaxRetries
  <2> SUFFICES ASSUME AloneInv, Counted, NEW e \in EventIds
               PROVE  /\ row[e].status = "failed" => refused[e] >= MaxRetries
                      /\ attempts[e] <= MaxRetries + faults
    BY DEF GivenUpAfterMaxRetries
  <2>1. /\ row[e].retry \in Nat /\ attempts[e] \in Nat /\ refused[e] \in Nat
        /\ faults \in Nat /\ MaxRetries \in Nat
    BY RelayAssumption DEF AloneInv, IInv, TypeOK, OutboxRows, Counted
  <2>2. CASE row[e].status = "failed"
    <3>1. ~InProgress(e)
      BY <2>2, CurrentIsClaimable DEF InProgress
    <3>2. row[e].retry = MaxRetries /\ ~Uncounted(e)
      BY <2>2, <3>1 DEF AloneInv, CounterBelowMax, Uncounted
    <3>3. QED
      BY <2>1, <3>2 DEF Counted
  <2>3. CASE row[e].status # "failed"
    <3>1. row[e].retry < MaxRetries /\ attempts[e] <= row[e].retry + faults + 1
      BY <2>3 DEF AloneInv, CounterBelowMax, Counted
    <3>2. QED
      BY <2>1, <2>3, <3>1
  <2>4. QED
    BY <2>2, <2>3
<1>2. QED
  BY CountedInvariant, <1>1, PTL

\* One worker publishes an event a second time only for a reason.
THEOREM AloneRedeliversForAReason == Alone => (Spec => NoRedeliveryWithoutFailure)
<1>1. ASSUME AloneInv, NEW w \in Workers, PublishOk(w), Current(w) \in delivered
      PROVE  row[Current(w)].retry > 0 \/ faults > 0 \/ requeues > 0
  <2>1. /\ pc[w] = "publish" /\ row[Current(w)] \in OutboxRows
        /\ row[Current(w)].status = "pending"
    BY <1>1, CurrentIsClaimable DEF PublishOk
  <2>2. ~InProgress(Current(w))
    BY <1>1, <2>1 DEF AloneInv, Alone, InProgress
  <2>3. row[Current(w)].retry = 0 => faults > 0 \/ requeues > 0
    BY <1>1, <2>1, <2>2 DEF AloneInv, RedeliveryHasReason
  <2>4. QED
    BY <2>1, <2>3 DEF OutboxRows
<1>2. AloneInv => \A w \in Workers :
         PublishOk(w) /\ Current(w) \in delivered =>
             row[Current(w)].retry > 0 \/ faults > 0 \/ requeues > 0
  BY <1>1
<1>3. QED
  BY AloneInvariant, <1>2, PTL DEF NoRedeliveryWithoutFailure

-----------------------------------------------------------------------------
(* The refinement of AtLeastOnceDelivery by a worker that is alone.        *)

\* How an outcome follows from a row.
LEMMA OutcomeOf ==
  ASSUME NEW e \in EventIds
  PROVE  /\ row[e].status = "pending" => outcomeOf[e] = "open"
         /\ row[e].status = "failed" => outcomeOf[e] = "dead"
         /\ row[e].status \in {"absent", "published"} => outcomeOf[e] = row[e].status
  BY DEF outcomeOf

\* A statement that writes the row of one event changes its outcome alone.
LEMMA OneOutcome ==
  ASSUME TypeOK, NEW e \in EventIds, NEW r \in OutboxRows, row' = [row EXCEPT ![e] = r]
  PROVE  /\ r.status = "pending" => outcomeOf' = [outcomeOf EXCEPT ![e] = "open"]
         /\ r.status = "failed" => outcomeOf' = [outcomeOf EXCEPT ![e] = "dead"]
         /\ r.status = "published" => outcomeOf' = [outcomeOf EXCEPT ![e] = "published"]
  BY DEF TypeOK, outcomeOf

\* Every step of a worker that is alone is a step of AtLeastOnceDelivery, or
\* one that it does not see.
LEMMA StepRefines == AloneInv /\ [Next]_vars => [Delivery!Next]_(Delivery!vars)
<1> SUFFICES ASSUME AloneInv, [Next]_vars
             PROVE  Delivery!Next \/ UNCHANGED <<outcomeOf, delivered>>
  BY DEF Delivery!vars
<1>t. TypeOK
  BY DEF AloneInv, IInv
<1>1. ASSUME UNCHANGED row
      PROVE  UNCHANGED outcomeOf
  BY <1>1 DEF outcomeOf
<1>2. ASSUME NEW e \in EventIds, Append(e)
      PROVE  Delivery!Accept(e)
  BY <1>t, <1>2, NewRowType, OutcomeOf, OneOutcome
  DEF Append, Delivery!Accept, Delivery!Become
<1>3. ASSUME NEW e \in EventIds, BackoffElapses(e)
      PROVE  UNCHANGED <<outcomeOf, delivered>>
  BY <1>t, <1>3 DEF BackoffElapses, TypeOK, outcomeOf, OutboxRows
<1>4. CASE RequeueFailed
  <2>1. \A e \in EventIds :
           outcomeOf'[e] = IF outcomeOf[e] = "dead" THEN "open" ELSE outcomeOf[e]
    BY <1>t, <1>4, NewRowType DEF RequeueFailed, TypeOK, OutboxRows, RowStatuses, outcomeOf
  <2>2. outcomeOf' = [e \in EventIds |-> outcomeOf'[e]]
    BY DEF outcomeOf
  <2>3. QED
    BY <1>4, <2>1, <2>2 DEF RequeueFailed, Delivery!Next, Delivery!Reopen
<1>5. ASSUME NEW w \in Workers, PublishOk(w) \/ PublishError(w)
      PROVE  Delivery!Next \/ UNCHANGED <<outcomeOf, delivered>>
  <2>1. UNCHANGED outcomeOf
    BY <1>1, <1>5 DEF PublishOk, PublishError
  <2>2. Current(w) \in EventIds /\ outcomeOf[Current(w)] = "open"
    BY <1>5, CurrentIsClaimable, OutcomeOf DEF PublishOk, PublishError
  <2>3. UNCHANGED delivered \/ delivered' = delivered \cup {Current(w)}
    BY <1>5 DEF PublishOk, PublishError
  <2>4. QED
    BY <2>1, <2>2, <2>3 DEF Delivery!Next, Delivery!Deliver
<1>6. ASSUME NEW w \in Workers, MarkPublished(w)
      PROVE  Delivery!Next
  <2> DEFINE e == Current(w)
  <2>1. e \in EventIds /\ row[e] \in OutboxRows /\ outcomeOf[e] = "open"
    BY <1>6, CurrentIsClaimable, OutcomeOf DEF MarkPublished
  <2>2. [row[e] EXCEPT !.status = "published"] \in OutboxRows
    BY <2>1 DEF OutboxRows, RowStatuses
  <2>3. outcomeOf' = [outcomeOf EXCEPT ![e] = "published"]
    BY <1>t, <1>6, <2>1, <2>2, OneOutcome DEF MarkPublished, OutboxRows
  <2>4. e \in delivered /\ UNCHANGED delivered
    BY <1>6 DEF MarkPublished, AloneInv, IInv, DeliveredBeforeMark
  <2>5. QED
    BY <2>1, <2>3, <2>4 DEF Delivery!Next, Delivery!Publish, Delivery!Become
<1>7. ASSUME NEW w \in Workers, MarkFailedSave(w)
      PROVE  Delivery!Next \/ UNCHANGED <<outcomeOf, delivered>>
  <2> DEFINE e == Current(w)
             r == AfterFailure(model[w])
  <2>1. /\ e \in EventIds /\ outcomeOf[e] = "open"
        /\ model[w] \in OutboxRows /\ model[w].status = "pending"
        /\ model[w].retry < MaxRetries
    BY <1>7, CurrentIsClaimable, OutcomeOf DEF MarkFailedSave
  <2>2. r \in OutboxRows /\ r.status \in {"pending", "failed"}
    BY <2>1, AfterFailureRow
  <2>3. row' = [row EXCEPT ![e] = r] /\ UNCHANGED delivered
    BY <1>7 DEF MarkFailedSave
  <2>4. outcomeOf = [outcomeOf EXCEPT ![e] = "open"]
    BY <2>1 DEF outcomeOf
  <2>5. outcomeOf' = [outcomeOf EXCEPT ![e] = "dead"] \/ outcomeOf' = outcomeOf
    <3> HIDE DEF r
    <3>1. QED
      BY <1>t, <2>1, <2>2, <2>3, <2>4, OneOutcome
  <2>6. QED
    BY <2>1, <2>3, <2>5 DEF Delivery!Next, Delivery!GiveUp, Delivery!Become
<1>8. ASSUME UNCHANGED <<row, delivered>>
      PROVE  UNCHANGED <<outcomeOf, delivered>>
  BY <1>1, <1>8
<1>9. ASSUME NEW w \in Workers,
             FetchPending(w) \/ MarkFailedRead(w) \/ PollNothing(w) \/ MarkError(w) \/ Crash(w)
      PROVE  UNCHANGED <<row, delivered>>
  BY <1>9 DEF FetchPending, MarkFailedRead, PollNothing, MarkError, Crash, vars
<1>10. CASE UNCHANGED vars
  BY <1>8, <1>10 DEF vars
<1>11. QED
  BY <1>2, <1>3, <1>4, <1>5, <1>6, <1>7, <1>8, <1>9, <1>10 DEF Next, Work, Delivery!Next

\* One worker delivers every event at least once: it publishes only what it
\* delivered and delivers nothing that is settled, whatever fails.
THEOREM AloneImplementsAtLeastOnce == Alone => (Spec => ImplementsAtLeastOnce)
<1>1. Init => Delivery!Init
  BY NewRowType DEF Init, Delivery!Init, outcomeOf
<1>2. AloneInv /\ [Next]_vars => [Delivery!Next]_(Delivery!vars)
  BY StepRefines
<1>3. QED
  BY AloneInvariant, <1>1, <1>2, PTL DEF Spec, ImplementsAtLeastOnce, Delivery!Spec
=============================================================================
