-------------------------- MODULE Lifecycle_proofs --------------------------
(***************************************************************************)
(* Proofs about Lifecycle and ConnPool, for any number of goroutines, any  *)
(* pool and any transactions.                                              *)
(*                                                                         *)
(* The inductive invariant has three parts: a goroutine that logs goes on  *)
(* to a place of its own and only the one that writes holds the mutex; a   *)
(* connection is held by a transaction that still has something to do; and *)
(* what is known at each place of a shutdown (the workers are cancelled    *)
(* before the writer is closed, nothing is accepted once the server        *)
(* drains).                                                                *)
(***************************************************************************)
EXTENDS Lifecycle, FiniteSetTheorems, TLAPS

\* Where g is, or goes on when its log line is written.
Where(g) == IF at[g] \in {"lock", "write"} THEN after[g] ELSE at[g]

\* Places to go on at.
Targets == Places \ {"lock", "write", "exited"}

PlacesOK ==
    /\ at \in [Goroutines -> Places]
    /\ after \in [Goroutines -> Places \cup {"none"}]
    /\ mutex \in Goroutines \cup {Nobody}
    /\ \A g \in Goroutines :
          /\ at[g] = "write" <=> mutex = g
          /\ at[g] \in {"lock", "write"} => after[g] \in Targets

\* A process that is not there has no goroutines.
AllExited == at[Main] = "exited" => \A g \in Goroutines : at[g] = "exited"

PoolOK ==
    /\ open \subseteq Requests /\ IsFiniteSet(open) /\ Cardinality(open) <= PoolSize
    /\ order \in [Requests -> Orders]
    /\ left \in [Requests -> 0..Statements]
    /\ gone \subseteq Requests
    /\ \A h \in Requests :
          /\ h \in open => Where(h) \in {"statement", "commit", "rollback"}
          /\ Where(h) \in {"begin", "statement"} => left[h] > 0

ProcessTypes ==
    /\ listening \in BOOLEAN /\ cancelled \in BOOLEAN /\ busClosed \in BOOLEAN
    /\ reason \in {"none", "refused", "shutdown"}
    /\ result \in {"none", "nil", "error", "panic"}

\* What the worker and the main goroutine may rely on.
ShutdownOK ==
    /\ Where(Worker) = "markFailed" => reason # "none"
    /\ reason = "shutdown" => cancelled
    /\ busClosed => cancelled
    /\ Where(Main) \in {"close", "shutdown", "drain"} => cancelled

DrainOK ==
    /\ Where(Main) = "drain" => ~listening
    /\ Where(Main) = "return" /\ result = "nil" =>
          ~listening /\ \A h \in Requests : ~InProgress(h)

IInv == PlacesOK /\ AllExited /\ PoolOK /\ ProcessTypes /\ ShutdownOK /\ DrainOK

-----------------------------------------------------------------------------
(* A step of one goroutine, as far as its place and the mutex go.          *)

Moved(g) ==
    /\ PlacesOK'
    /\ at[g] # "exited" /\ at'[g] # "exited"
    /\ \A x \in Goroutines \ {g} : at'[x] = at[x] /\ after'[x] = after[x]

\* g begins to log.
LEMMA LogMoves ==
  ASSUME PlacesOK, NEW g \in Goroutines, at[g] \in Targets, NEW next \in Targets,
         Log(g, next), UNCHANGED mutex
  PROVE  Moved(g) /\ at'[g] = "lock" /\ Where(g)' = next
<1>1. /\ at' \in [Goroutines -> Places]
      /\ after' \in [Goroutines -> Places \cup {"none"}]
      /\ at'[g] = "lock" /\ after'[g] = next
      /\ \A x \in Goroutines \ {g} : at'[x] = at[x] /\ after'[x] = after[x]
  BY DEF PlacesOK, Log, Targets, Places
<1>2. at[g] # "write" /\ at[g] # "exited"
  BY DEF Targets
<1>3. PlacesOK'
  BY <1>1, <1>2 DEF PlacesOK
<1>4. QED
  BY <1>1, <1>2, <1>3 DEF Moved, Where

\* g goes on without a line.
LEMMA GotoMoves ==
  ASSUME PlacesOK, NEW g \in Goroutines, at[g] \in Targets, NEW place \in Targets,
         Goto(g, place), UNCHANGED <<after, mutex>>
  PROVE  Moved(g) /\ at'[g] = place /\ Where(g)' = place
<1>1. /\ at' \in [Goroutines -> Places]
      /\ at'[g] = place
      /\ \A x \in Goroutines \ {g} : at'[x] = at[x] /\ after'[x] = after[x]
  BY DEF PlacesOK, Goto, Targets
<1>2. /\ at[g] \notin {"lock", "write", "exited"}
      /\ place \notin {"lock", "write", "exited"}
  BY DEF Targets
<1>3. PlacesOK'
  BY <1>1, <1>2 DEF PlacesOK
<1>4. QED
  BY <1>1, <1>2, <1>3 DEF Moved, Where

\* g writes its line: it is where it was going to be.
LEMMA WriteMoves ==
  ASSUME PlacesOK, NEW g \in Goroutines, Write(g)
  PROVE  /\ Moved(g) /\ Where(g)' = Where(g)
         /\ at[g] \in {"lock", "write"}
         /\ UNCHANGED <<open, order, left, gone>>
<1>1. CASE Lock(g)
  <2>1. /\ at' \in [Goroutines -> Places]
        /\ at[g] = "lock" /\ at'[g] = "write" /\ after' = after
        /\ mutex = Nobody /\ mutex' = g
        /\ \A x \in Goroutines \ {g} : at'[x] = at[x]
    BY <1>1 DEF PlacesOK, Lock, Goto, Places
  <2>2. PlacesOK'
    BY <2>1, PoolAssumption DEF PlacesOK, Goroutines
  <2>3. QED
    BY <1>1, <2>1, <2>2 DEF Moved, Where, Lock
<1>2. CASE WriteLog(g)
  <2>1. /\ at[g] = "write" /\ after[g] \in Targets /\ mutex = g
    BY <1>2 DEF PlacesOK, WriteLog
  <2>2. /\ at' \in [Goroutines -> Places]
        /\ after' \in [Goroutines -> Places \cup {"none"}]
        /\ at'[g] = after[g] /\ mutex' = Nobody
        /\ \A x \in Goroutines \ {g} : at'[x] = at[x] /\ after'[x] = after[x]
    BY <1>2, <2>1 DEF PlacesOK, WriteLog, Goto, Targets
  <2>3. at'[g] \notin {"lock", "write", "exited"}
    BY <2>1, <2>2 DEF Targets
  <2>4. PlacesOK'
    BY <2>1, <2>2, <2>3, PoolAssumption DEF PlacesOK, Goroutines
  <2>5. QED
    BY <1>2, <2>1, <2>2, <2>3, <2>4 DEF Moved, Where, WriteLog
<1>3. QED
  BY <1>1, <1>2 DEF Write

\* Main, the worker and the requests are different goroutines.
LEMMA DifferentGoroutines ==
  /\ Main \in Goroutines /\ Worker \in Goroutines /\ Main # Worker
  /\ \A h \in Requests : h \in Goroutines /\ h # Main /\ h # Worker
  BY PoolAssumption, LifecycleAssumption DEF Goroutines

\* A goroutine moves only in a process that is there.
LEMMA MovedAllExited ==
  ASSUME AllExited, NEW g \in Goroutines, Moved(g)
  PROVE  AllExited'
<1>1. at[Main] # "exited"
  BY DEF AllExited, Moved
<1>2. at'[Main] # "exited"
  BY <1>1, DifferentGoroutines DEF Moved
<1>3. QED
  BY <1>2 DEF AllExited

-----------------------------------------------------------------------------
(* Steps of requests.                                                      *)

\* A request may move if it is in progress or the server still listens, and
\* nothing else is up to it.
LEMMA RequestMoves ==
  ASSUME IInv, NEW h \in Requests, Moved(h), InProgress(h) \/ listening,
         UNCHANGED processVars, PoolOK'
  PROVE  IInv'
<1>1. PlacesOK'
  BY DEF Moved
<1>2. AllExited'
  BY MovedAllExited, DifferentGoroutines DEF IInv
<1>3. Where(Main)' = Where(Main) /\ Where(Worker)' = Where(Worker)
  BY DifferentGoroutines DEF Moved, Where
<1>4. ProcessTypes' /\ ShutdownOK'
  BY <1>3 DEF IInv, ProcessTypes, ShutdownOK, processVars
<1>5. Where(Main)' = "drain" => ~listening'
  BY <1>3 DEF IInv, DrainOK, processVars
<1>6. ~(Where(Main) = "return" /\ result = "nil")
  BY DEF IInv, DrainOK
<1>7. DrainOK'
  BY <1>3, <1>5, <1>6 DEF DrainOK, processVars
<1>8. QED
  BY <1>1, <1>2, <1>4, <1>7 DEF IInv

\* The transaction of h is not another's business.
LEMMA MovedPool ==
  ASSUME PoolOK, NEW h \in Requests, Moved(h),
         order' \in [Requests -> Orders],
         left' \in [Requests -> 0..Statements],
         \A g \in Requests \ {h} : left'[g] = left[g],
         gone' \subseteq Requests,
         open' \in {open, open \cup {h}, open \ {h}},
         open' = open \cup {h} => Free \/ h \in open,
         h \in open' => Where(h)' \in {"statement", "commit", "rollback"},
         Where(h)' \in {"begin", "statement"} => left'[h] > 0
  PROVE  PoolOK'
<1>1. /\ Cardinality(open) \in Nat /\ PoolSize \in Nat
      /\ IsFiniteSet(open)
  BY PoolAssumption, FS_CardinalityType DEF PoolOK
<1>2. /\ IsFiniteSet(open')
      /\ Cardinality(open') <= PoolSize
  <2>1. CASE open' = open
    BY <2>1 DEF PoolOK
  <2>2. CASE open' = open \cup {h} /\ h \notin open
    <3>1. IsFiniteSet(open \cup {h}) /\ Cardinality(open \cup {h}) = Cardinality(open) + 1
      BY <1>1, <2>2, FS_AddElement
    <3>2. Cardinality(open) < PoolSize
      BY <2>2 DEF Free
    <3>3. QED
      BY <1>1, <2>2, <3>1, <3>2
  <2>3. CASE open' = open \ {h} /\ h \in open
    <3>1. /\ IsFiniteSet(open \ {h})
          /\ Cardinality(open \ {h}) = Cardinality(open) - 1
      BY <1>1, <2>3, FS_RemoveElement
    <3>2. Cardinality(open) <= PoolSize
      BY DEF PoolOK
    <3>3. QED
      BY <1>1, <2>3, <3>1, <3>2
  <2>4. QED
    BY <2>1, <2>2, <2>3
<1>3. \A g \in Requests \ {h} : Where(g)' = Where(g) /\ (g \in open' <=> g \in open)
  BY DifferentGoroutines DEF Moved, Where
<1>4. \A g \in Requests : /\ g \in open' => Where(g)' \in {"statement", "commit", "rollback"}
                          /\ Where(g)' \in {"begin", "statement"} => left'[g] > 0
  BY <1>3 DEF PoolOK
<1>5. open' \subseteq Requests
  BY DEF PoolOK
<1>6. QED
  BY <1>2, <1>4, <1>5 DEF PoolOK

\* Every step of a request preserves the invariant.
LEMMA RequestIInv ==
  ASSUME IInv, NEW h \in Requests,
         Accept(h) \/ ServeRequest(h) \/ Disturb(h) \/ RollsBack(h)
  PROVE  IInv'
<1>1. /\ h \in Goroutines
      /\ PlacesOK /\ PoolOK
      /\ left[h] \in 0..Statements /\ left \in [Requests -> 0..Statements]
      /\ gone \subseteq Requests /\ order \in [Requests -> Orders]
      /\ h \in open => Where(h) \in {"statement", "commit", "rollback"}
      /\ Where(h) \in {"begin", "statement"} => left[h] > 0
  BY DifferentGoroutines DEF IInv, PoolOK
<1>2. "idle" \in Targets /\ "begin" \in Targets /\ "statement" \in Targets
      /\ "commit" \in Targets /\ "rollback" \in Targets
  BY DEF Targets, Places
<1>3. ASSUME Answer(h), at[h] \in {"begin", "commit", "rollback"}, UNCHANGED <<order, mutex>>,
             open' \in {open, open \ {h}}, h \notin open', UNCHANGED processVars
      PROVE  IInv'
  <2>1. Moved(h) /\ Where(h)' = "idle"
    BY <1>1, <1>2, <1>3, LogMoves DEF Answer
  <2>2. PoolOK'
    <3>1. left' \in [Requests -> 0..Statements] /\ \A g \in Requests \ {h} : left'[g] = left[g]
      BY <1>1, <1>3, PoolAssumption DEF Answer
    <3>2. gone' \subseteq Requests
      BY <1>1, <1>3 DEF Answer
    <3>3. open' \in {open, open \cup {h}, open \ {h}} /\ (open' = open \cup {h} => Free \/ h \in open)
      BY <1>3
    <3>4. QED
      BY <1>1, <1>3, <2>1, <3>1, <3>2, <3>3, MovedPool
  <2>3. InProgress(h)
    BY <1>3 DEF InProgress
  <2>4. QED
    BY <1>3, <2>1, <2>2, <2>3, RequestMoves
<1>4. CASE Accept(h)
  <2>1. Moved(h) /\ Where(h)' = "begin" /\ at[h] = "idle"
    BY <1>1, <1>2, <1>4, LogMoves DEF Accept, Receive
  <2>2. PoolOK'
    <3>1. h \notin open
      BY <1>1, <2>1 DEF Where
    <3>2. /\ UNCHANGED <<open, gone>>
          /\ order' \in [Requests -> Orders]
          /\ left' \in [Requests -> 0..Statements] /\ left'[h] = Statements
          /\ \A g \in Requests \ {h} : left'[g] = left[g]
      BY <1>1, <1>4, PoolAssumption DEF Accept, Receive
    <3>3. left'[h] > 0
      BY <3>2, PoolAssumption
    <3>4. QED
      BY <1>1, <2>1, <3>1, <3>2, <3>3, MovedPool
  <2>3. QED
    BY <1>4, <2>1, <2>2, RequestMoves DEF Accept
<1>5. CASE Write(h) /\ UNCHANGED processVars
  <2>1. Moved(h) /\ Where(h)' = Where(h) /\ InProgress(h) /\ UNCHANGED <<open, order, left, gone>>
    BY <1>1, <1>5, WriteMoves DEF InProgress
  <2>2. PoolOK'
    BY <1>1, <2>1, MovedPool
  <2>3. QED
    BY <1>5, <2>1, <2>2, RequestMoves
<1>6. CASE Begin(h) /\ UNCHANGED processVars
  <2>1. at[h] = "begin" /\ InProgress(h) /\ Where(h) = "begin"
    BY <1>6 DEF Begin, InProgress, Where
  <2>2. h \notin open
    BY <1>1, <2>1
  <2>3. CASE h \in gone /\ Answer(h) /\ UNCHANGED open
    BY <1>3, <1>6, <2>1, <2>2, <2>3 DEF Begin
  <2>4. CASE /\ h \notin gone /\ Free
             /\ open' = open \cup {h}
             /\ Goto(h, "statement")
             /\ UNCHANGED <<after, left, gone, order, mutex>>
    <3>1. Moved(h) /\ Where(h)' = "statement"
      BY <1>1, <1>2, <2>1, <2>4, GotoMoves
    <3>2. PoolOK'
      BY <1>1, <2>1, <2>4, <3>1, MovedPool
    <3>3. QED
      BY <1>6, <2>1, <3>1, <3>2, RequestMoves
  <2>5. QED
    BY <1>6, <2>3, <2>4 DEF Begin
<1>7. CASE Statement(h) /\ UNCHANGED processVars
  <2>1. at[h] = "statement" /\ InProgress(h) /\ Where(h) = "statement"
    BY <1>7 DEF Statement, InProgress, Where
  <2>2. left[h] \in 1..Statements
    BY <1>1, <2>1
  <2>3. /\ UNCHANGED <<open, order, gone, mutex>>
        /\ left' = [left EXCEPT ![h] = @ - 1]
        /\ Log(h, IF left[h] = 1 THEN "commit" ELSE "statement")
    BY <1>7 DEF Statement
  <2>4. /\ Moved(h) /\ Where(h)' \in {"commit", "statement"}
        /\ Where(h)' = "statement" => left[h] # 1
    BY <1>1, <1>2, <2>1, <2>3, LogMoves
  <2>5. /\ left' \in [Requests -> 0..Statements]
        /\ \A g \in Requests \ {h} : left'[g] = left[g]
        /\ Where(h)' \in {"begin", "statement"} => left'[h] > 0
    BY <1>1, <2>2, <2>3, <2>4, PoolAssumption
  <2>6. PoolOK'
    BY <1>1, <2>3, <2>4, <2>5, MovedPool
  <2>7. QED
    BY <1>7, <2>1, <2>4, <2>6, RequestMoves
<1>8. CASE StatementFails(h) /\ UNCHANGED processVars
  <2>1. at[h] = "statement" /\ InProgress(h)
    BY <1>8 DEF StatementFails, InProgress
  <2>2. Moved(h) /\ Where(h)' = "rollback" /\ UNCHANGED <<open, order, left, gone>>
    BY <1>1, <1>2, <1>8, <2>1, LogMoves DEF StatementFails
  <2>3. PoolOK'
    BY <1>1, <2>2, MovedPool
  <2>4. QED
    BY <1>8, <2>1, <2>2, <2>3, RequestMoves
<1>9. CASE End(h) /\ UNCHANGED processVars
  BY <1>3, <1>9 DEF End
<1>10. CASE (ClientLeaves(h) \/ AwaitDone(h)) /\ UNCHANGED processVars
  <2>1. /\ UNCHANGED <<at, after, mutex, order, left>>
        /\ gone' \subseteq Requests
        /\ open' \in {open, open \ {h}}
    BY <1>1, <1>10 DEF ClientLeaves, AwaitDone
  <2>2. PoolOK'
    <3>1. open' \subseteq open /\ IsFiniteSet(open) /\ Cardinality(open) <= PoolSize
      BY <1>1, <2>1 DEF PoolOK
    <3>2. /\ IsFiniteSet(open') /\ Cardinality(open') <= Cardinality(open)
          /\ Cardinality(open') \in Nat /\ Cardinality(open) \in Nat /\ PoolSize \in Nat
      BY <3>1, FS_Subset, FS_CardinalityType, PoolAssumption
    <3>3. Cardinality(open') <= PoolSize
      BY <3>1, <3>2
    <3>4. QED
      BY <1>1, <2>1, <3>1, <3>2, <3>3 DEF PoolOK, Where
  <2>3. PlacesOK' /\ AllExited'
    BY <2>1 DEF IInv, PlacesOK, AllExited
  <2>4. ProcessTypes' /\ ShutdownOK' /\ DrainOK'
    BY <1>10, <2>1 DEF IInv, ProcessTypes, ShutdownOK, DrainOK, Where, InProgress, processVars
  <2>5. QED
    BY <2>2, <2>3, <2>4 DEF IInv
<1>11. QED
  BY <1>4, <1>5, <1>6, <1>7, <1>8, <1>9, <1>10
     DEF ServeRequest, Serve, Disturb, RollsBack

-----------------------------------------------------------------------------
(* Steps of the worker and of the main goroutine.                          *)

\* They leave the pool and the requests alone.
LEMMA OtherMoves ==
  ASSUME IInv, NEW g \in {Main, Worker}, Moved(g), UNCHANGED <<open, order, left, gone>>,
         ProcessTypes', ShutdownOK', DrainOK'
  PROVE  IInv'
<1>1. PlacesOK'
  BY DEF Moved
<1>2. AllExited'
  BY MovedAllExited, DifferentGoroutines DEF IInv
<1>3. \A h \in Requests : Where(h)' = Where(h)
  BY DifferentGoroutines DEF Moved, Where
<1>4. PoolOK'
  BY <1>3 DEF IInv, PoolOK
<1>5. QED
  BY <1>1, <1>2, <1>4 DEF IInv

\* The requests are as far as they were.
LEMMA RequestsStay ==
  ASSUME NEW g \in {Main, Worker}, Moved(g)
  PROVE  \A h \in Requests : InProgress(h)' <=> InProgress(h)
  BY DifferentGoroutines DEF Moved, InProgress

\* The worker and Main, when one of them writes a line.
LEMMA LinesIInv ==
  ASSUME IInv, NEW g \in {Main, Worker}, Lines(g)
  PROVE  IInv'
<1>1. /\ Moved(g) /\ Where(g)' = Where(g)
      /\ UNCHANGED <<open, order, left, gone>> /\ UNCHANGED processVars
  BY WriteMoves, DifferentGoroutines DEF IInv, Lines
<1>2. Where(Main)' = Where(Main) /\ Where(Worker)' = Where(Worker)
  BY <1>1, DifferentGoroutines DEF Moved, Where
<1>3. ProcessTypes' /\ ShutdownOK'
  BY <1>1, <1>2 DEF IInv, ProcessTypes, ShutdownOK, processVars
<1>4. DrainOK'
  BY <1>1, <1>2, RequestsStay DEF IInv, DrainOK, processVars
<1>5. QED
  BY <1>1, <1>3, <1>4, OtherMoves

\* A step of the worker that sets no flag but the reason.
LEMMA WorkerMoves ==
  ASSUME IInv, Moved(Worker), UNCHANGED <<open, order, left, gone>>,
         UNCHANGED <<listening, cancelled, busClosed, result>>,
         reason' \in {"none", "refused", "shutdown"},
         Where(Worker)' = "markFailed" => reason' # "none",
         reason' = "shutdown" => cancelled
  PROVE  IInv'
<1>1. Where(Main)' = Where(Main)
  BY DifferentGoroutines DEF Moved, Where
<1>2. ProcessTypes'
  BY DEF IInv, ProcessTypes
<1>3. ShutdownOK'
  BY <1>1 DEF IInv, ShutdownOK
<1>4. DrainOK'
  BY <1>1, RequestsStay DEF IInv, DrainOK
<1>5. QED
  BY <1>2, <1>3, <1>4, OtherMoves

\* Every step of the worker preserves the invariant.
LEMMA WorkIInv ==
  ASSUME IInv, Work
  PROVE  IInv'
<1>1. /\ PlacesOK /\ Worker \in Goroutines
      /\ reason \in {"none", "refused", "shutdown"}
      /\ reason = "shutdown" => cancelled
      /\ busClosed => cancelled
      /\ Where(Worker) = "markFailed" => reason # "none"
  BY DifferentGoroutines DEF IInv, ProcessTypes, ShutdownOK
<1>2. {"tick", "publish", "markPublished", "markFailed", "stopped"} \subseteq Targets
  BY DEF Targets, Places
<1>3. ASSUME NEW from \in {"tick", "publish", "markPublished", "markFailed"},
             NEW next \in {"tick", "publish", "markFailed", "stopped"},
             at[Worker] = from, Log(Worker, next), UNCHANGED <<open, order, left, gone, mutex>>
      PROVE  Moved(Worker) /\ Where(Worker)' = next
  BY <1>1, <1>2, <1>3, LogMoves
<1>4. CASE Lines(Worker)
  BY <1>4, LinesIInv
<1>5. CASE WorkerStops \/ Fetch \/ FetchFails
  <2>1. Moved(Worker) /\ Where(Worker)' # "markFailed"
    BY <1>3, <1>5 DEF WorkerStops, Fetch, FetchFails, Query, LogLine
  <2>2. UNCHANGED <<open, order, left, gone>> /\ UNCHANGED processVars
    BY <1>5 DEF WorkerStops, Fetch, FetchFails, Query, LogLine
  <2>3. QED
    BY <1>1, <2>1, <2>2, WorkerMoves DEF processVars
<1>6. CASE PublishOk
  <2>1. Moved(Worker) /\ Where(Worker)' = "markPublished"
    BY <1>1, <1>2, <1>6, GotoMoves DEF PublishOk
  <2>2. QED
    BY <1>1, <1>6, <2>1, WorkerMoves DEF PublishOk, processVars
<1>7. CASE PublishRefused
  <2>1. Moved(Worker)
    BY <1>3, <1>7 DEF PublishRefused, LogLine
  <2>2. QED
    BY <1>1, <1>7, <2>1, WorkerMoves DEF PublishRefused, LogLine
<1>8. CASE PublishAborted
  <2>1. Moved(Worker)
    BY <1>3, <1>8 DEF PublishAborted, LogLine
  <2>2. cancelled
    BY <1>1, <1>8 DEF PublishAborted
  <2>3. QED
    BY <1>1, <1>8, <2>1, <2>2, WorkerMoves DEF PublishAborted, LogLine
<1>9. CASE MarkPublished \/ MarkFailed \/ MarkFails
  <2>1. Moved(Worker) /\ Where(Worker)' # "markFailed"
    BY <1>3, <1>9 DEF MarkPublished, MarkFailed, MarkFails, Query, LogLine, NextEvent
  <2>2. /\ UNCHANGED <<open, order, left, gone>>
        /\ UNCHANGED <<listening, cancelled, busClosed, result>>
        /\ reason' \in {reason, "none"}
    BY <1>9 DEF MarkPublished, MarkFailed, MarkFails, Query, LogLine, processVars
  <2>3. QED
    BY <1>1, <2>1, <2>2, WorkerMoves
<1>10. QED
  BY <1>4, <1>5, <1>6, <1>7, <1>8, <1>9 DEF Work

\* A step of the main goroutine from one place of the shutdown to the next.
LEMMA MainMoves ==
  ASSUME IInv, Moved(Main), UNCHANGED <<open, order, left, gone>>, UNCHANGED reason,
         ProcessTypes',
         cancelled => cancelled',
         busClosed' => cancelled',
         Where(Main)' \in {"close", "shutdown", "drain"} => cancelled',
         DrainOK'
  PROVE  IInv'
<1>1. Where(Worker)' = Where(Worker)
  BY DifferentGoroutines DEF Moved, Where
<1>2. ShutdownOK'
  BY <1>1 DEF IInv, ShutdownOK
<1>3. QED
  BY <1>2, OtherMoves

\* Every step of a shutdown but the last preserves the invariant.
LEMMA ShutDownIInv ==
  ASSUME IInv,
         \/ Signal \/ ListenFails \/ Lines(Main)
         \/ Cancel \/ CloseBus \/ StopListening \/ Drained \/ DrainTimeout
  PROVE  IInv'
<1>1. /\ PlacesOK /\ ProcessTypes /\ Main \in Goroutines
      /\ busClosed => cancelled
  BY DifferentGoroutines DEF IInv, ShutdownOK
<1>2. {"serving", "cancel", "close", "shutdown", "drain", "return"} \subseteq Targets
  BY DEF Targets, Places
<1>3. ASSUME NEW from \in {"serving", "cancel", "close", "shutdown", "drain"},
             NEW next \in {"cancel", "close", "shutdown", "drain", "return"},
             at[Main] = from, UNCHANGED mutex,
             Log(Main, next) \/ (Goto(Main, next) /\ UNCHANGED after)
      PROVE  Moved(Main) /\ Where(Main)' = next /\ Where(Main) = from
  BY <1>1, <1>2, <1>3, LogMoves, GotoMoves DEF Where
<1>4. CASE Lines(Main)
  BY <1>4, LinesIInv
<1>5. CASE Signal
  <2>1. /\ Moved(Main) /\ Where(Main)' = "cancel"
        /\ UNCHANGED <<open, order, left, gone>> /\ UNCHANGED processVars
    BY <1>3, <1>5 DEF Signal, LogLine
  <2>2. ProcessTypes' /\ DrainOK'
    BY <1>1, <2>1 DEF ProcessTypes, DrainOK, processVars
  <2>3. QED
    BY <1>1, <2>1, <2>2, MainMoves DEF processVars
<1>6. CASE ListenFails \/ DrainTimeout
  <2>1. /\ Moved(Main) /\ Where(Main)' = "return" /\ result' = "error"
        /\ UNCHANGED <<open, order, left, gone>>
        /\ UNCHANGED <<listening, cancelled, busClosed, reason>>
    BY <1>3, <1>6 DEF ListenFails, DrainTimeout
  <2>2. ProcessTypes' /\ DrainOK'
    BY <1>1, <2>1 DEF ProcessTypes, DrainOK
  <2>3. QED
    BY <1>1, <2>1, <2>2, MainMoves
<1>7. CASE Cancel
  <2>1. /\ Moved(Main) /\ Where(Main)' = "close" /\ cancelled' = TRUE
        /\ UNCHANGED <<open, order, left, gone>>
        /\ UNCHANGED <<listening, busClosed, reason, result>>
    BY <1>3, <1>7 DEF Cancel
  <2>2. ProcessTypes' /\ DrainOK'
    BY <1>1, <2>1 DEF ProcessTypes, DrainOK
  <2>3. QED
    BY <2>1, <2>2, MainMoves
<1>8. CASE CloseBus
  <2>1. /\ Moved(Main) /\ Where(Main)' = "shutdown" /\ Where(Main) = "close" /\ busClosed' = TRUE
        /\ UNCHANGED <<open, order, left, gone>>
        /\ UNCHANGED <<listening, cancelled, reason, result>>
    BY <1>3, <1>8 DEF CloseBus
  <2>2. cancelled
    BY <2>1 DEF IInv, ShutdownOK
  <2>3. ProcessTypes' /\ DrainOK'
    BY <1>1, <2>1 DEF ProcessTypes, DrainOK
  <2>4. QED
    BY <2>1, <2>2, <2>3, MainMoves
<1>9. CASE StopListening
  <2>1. /\ Moved(Main) /\ Where(Main)' = "drain" /\ Where(Main) = "shutdown" /\ listening' = FALSE
        /\ UNCHANGED <<open, order, left, gone>>
        /\ UNCHANGED <<cancelled, busClosed, reason, result>>
    BY <1>3, <1>9 DEF StopListening
  <2>2. cancelled
    BY <2>1 DEF IInv, ShutdownOK
  <2>3. ProcessTypes' /\ DrainOK'
    BY <1>1, <2>1 DEF ProcessTypes, DrainOK
  <2>4. QED
    BY <1>1, <2>1, <2>2, <2>3, MainMoves
<1>10. CASE Drained
  <2>1. /\ Moved(Main) /\ Where(Main)' = "return" /\ Where(Main) = "drain" /\ result' = "nil"
        /\ UNCHANGED <<open, order, left, gone>>
        /\ UNCHANGED <<listening, cancelled, busClosed, reason>>
        /\ \A h \in Requests : ~InProgress(h)
    BY <1>3, <1>10 DEF Drained, LogLine
  <2>2. ~listening
    BY <2>1 DEF IInv, DrainOK
  <2>3. ProcessTypes'
    BY <1>1, <2>1 DEF ProcessTypes
  <2>4. DrainOK'
    BY <2>1, <2>2, RequestsStay DEF DrainOK
  <2>5. QED
    BY <1>1, <2>1, <2>3, <2>4, MainMoves
<1>11. QED
  BY <1>4, <1>5, <1>6, <1>7, <1>8, <1>9, <1>10

-----------------------------------------------------------------------------
(* Start and exit of the process.                                          *)

\* A process that is not there holds nothing.
LEMMA ExitedHoldsNothing ==
  ASSUME IInv, at[Main] = "exited"
  PROVE  open = {} /\ mutex = Nobody
<1>1. \A g \in Goroutines : at[g] = "exited"
  BY DEF IInv, AllExited
<1>2. \A h \in Requests : h \notin open
  BY <1>1, DifferentGoroutines DEF IInv, PoolOK, Where
<1>3. open = {}
  BY <1>2 DEF IInv, PoolOK
<1>4. mutex = Nobody
  BY <1>1 DEF IInv, PlacesOK
<1>5. QED
  BY <1>3, <1>4

LEMMA InitIInv == Init => IInv
<1> SUFFICES ASSUME Init PROVE IInv
  OBVIOUS
<1>1. PlacesOK /\ AllExited
  BY PoolAssumption DEF Init, PlacesOK, AllExited, Places, Goroutines
<1>2. \A g \in Goroutines : Where(g) = "exited"
  BY DEF Init, Where
<1>3. PoolOK
  BY <1>2, DifferentGoroutines, FS_EmptySet, PoolAssumption DEF Init, PoolOK
<1>4. ProcessTypes /\ ShutdownOK /\ DrainOK
  BY <1>2, DifferentGoroutines DEF Init, ProcessTypes, ShutdownOK, DrainOK
<1>5. QED
  BY <1>1, <1>3, <1>4 DEF IInv

LEMMA StartIInv ==
  ASSUME IInv, Start
  PROVE  IInv'
<1>1. /\ open = {} /\ mutex = Nobody
      /\ UNCHANGED <<after, open, order, left, gone, mutex>>
  BY ExitedHoldsNothing DEF Start
<1>2. \A g \in Goroutines : /\ g \in Requests => at'[g] = "idle"
                            /\ g = Main => at'[g] = "serving"
                            /\ g \notin Requests \cup {Main} => at'[g] = "tick"
  BY DifferentGoroutines DEF Start
<1>3. PlacesOK'
  <2>1. at' \in [Goroutines -> Places]
    BY DEF Start, Places
  <2>2. QED
    BY <1>1, <1>2, <2>1, PoolAssumption DEF IInv, PlacesOK, Goroutines
<1>4. AllExited'
  BY <1>2, DifferentGoroutines DEF AllExited
<1>5. /\ \A h \in Requests : Where(h)' = "idle"
      /\ Where(Main)' = "serving" /\ Where(Worker)' = "tick"
  BY <1>2, DifferentGoroutines DEF Where
<1>6. PoolOK'
  BY <1>1, <1>5 DEF IInv, PoolOK
<1>7. ProcessTypes' /\ ShutdownOK' /\ DrainOK'
  BY <1>5 DEF Start, ProcessTypes, ShutdownOK, DrainOK
<1>8. QED
  BY <1>3, <1>4, <1>6, <1>7 DEF IInv

LEMMA ReturnIInv ==
  ASSUME IInv, Return
  PROVE  IInv'
<1>1. \A g \in Goroutines : at'[g] = "exited"
  BY DEF Return
<1>2. PlacesOK' /\ AllExited'
  BY <1>1, PoolAssumption DEF Return, PlacesOK, AllExited, Places, Goroutines
<1>3. \A g \in Goroutines : Where(g)' = "exited"
  BY <1>1 DEF Where
<1>4. PoolOK'
  <2>1. open' = {} /\ gone' = {} /\ order' = order /\ left' \in [Requests -> 0..Statements]
    BY PoolAssumption DEF Return
  <2>2. QED
    BY <1>3, <2>1, DifferentGoroutines, FS_EmptySet, PoolAssumption DEF IInv, PoolOK
<1>5. ProcessTypes' /\ ShutdownOK' /\ DrainOK'
  <2>1. /\ listening' = FALSE /\ cancelled' = TRUE /\ busClosed' = TRUE /\ reason' = "none"
        /\ result' \in {result, "panic"}
    BY DEF Return
  <2>2. QED
    BY <1>3, <2>1, DifferentGoroutines DEF IInv, ProcessTypes, ShutdownOK, DrainOK
<1>6. QED
  BY <1>2, <1>4, <1>5 DEF IInv

-----------------------------------------------------------------------------
(* The theorems.                                                           *)

LEMMA NextIInv == IInv /\ [Next]_vars => IInv'
<1> SUFFICES ASSUME IInv, [Next]_vars
             PROVE  IInv'
  OBVIOUS
<1>1. CASE StartFails \/ UNCHANGED vars
  <2>1. /\ UNCHANGED <<at, after, open, order, left, gone, mutex>>
        /\ UNCHANGED <<listening, cancelled, busClosed, reason>>
        /\ result' = result \/ (result' = "error" /\ at[Main] = "exited")
    BY <1>1 DEF StartFails, vars, poolVars, processVars
  <2>2. PlacesOK' /\ AllExited' /\ PoolOK'
    BY <2>1 DEF IInv, PlacesOK, AllExited, PoolOK, Where
  <2>3. ProcessTypes' /\ ShutdownOK' /\ DrainOK'
    BY <2>1 DEF IInv, ProcessTypes, ShutdownOK, DrainOK, Where, InProgress
  <2>4. QED
    BY <2>2, <2>3 DEF IInv
<1>2. ASSUME NEW h \in Requests, Accept(h) \/ ServeRequest(h) \/ Disturb(h) \/ RollsBack(h)
      PROVE  IInv'
  BY <1>2, RequestIInv
<1>3. QED
  BY <1>1, <1>2, StartIInv, WorkIInv, ShutDownIInv, ReturnIInv DEF Next, ShutDown

LEMMA InductiveInvariant == Spec => []IInv
<1>1. QED
  BY InitIInv, NextIInv, PTL DEF Spec

\* Type correctness, for any pool: a connection is held by a request that is
\* in progress, there are never more than the pool has, and the mutex of the
\* log hook is held by the goroutine that writes and by no other.
THEOREM TypeCorrect == Spec => []TypeOK
<1>1. IInv => TypeOK
  <2> SUFFICES ASSUME IInv PROVE TypeOK
    OBVIOUS
  <2>1. open \subseteq {h \in Requests : InProgress(h)}
    BY DEF IInv, PoolOK, Where, InProgress
  <2>2. PlacesOK /\ PoolOK
    BY DEF IInv
  <2>3. /\ listening \in BOOLEAN /\ cancelled \in BOOLEAN /\ busClosed \in BOOLEAN
        /\ reason \in {"none", "refused", "shutdown"}
        /\ result \in {"none", "nil", "error", "panic"}
    BY DEF IInv, ProcessTypes
  <2>4. QED
    BY <2>1, <2>2, <2>3, Zenon DEF TypeOK, PlacesOK, PoolOK
<1>2. QED
  BY InductiveInvariant, <1>1, PTL

\* Run returns nil only when every request it accepted was answered.
THEOREM CleanExitDrains == Spec => CleanExitHasDrained
<1>1. IInv /\ [Next]_vars =>
        [Return /\ result' = "nil" => open = {} /\ \A h \in Requests : ~InProgress(h)]_vars
  <2> SUFFICES ASSUME IInv, Return, result' = "nil"
               PROVE  open = {} /\ \A h \in Requests : ~InProgress(h)
    OBVIOUS
  <2>1. result = "nil"
    BY DEF Return
  <2>2. Where(Main) = "return"
    BY DEF Return, Where
  <2>3. \A h \in Requests : ~InProgress(h)
    BY <2>1, <2>2 DEF IInv, DrainOK
  <2>4. open = {}
    BY <2>3 DEF IInv, PoolOK, Where, InProgress
  <2>5. QED
    BY <2>3, <2>4
<1>2. QED
  BY InductiveInvariant, <1>1, PTL DEF Spec, CleanExitHasDrained

\* A publish that a shutdown aborted is never counted as an attempt.
THEOREM ShutdownCostsNothing == Spec => ShutdownChargesNoAttempt
<1>1. IInv /\ [Next]_vars => [MarkFailed => reason = "refused"]_vars
  <2> SUFFICES ASSUME IInv, MarkFailed
               PROVE  reason = "refused"
    OBVIOUS
  <2>1. ~cancelled /\ Where(Worker) = "markFailed"
    BY DEF MarkFailed, Query, Where
  <2>2. reason \notin {"none", "shutdown"}
    BY <2>1 DEF IInv, ShutdownOK
  <2>3. QED
    BY <2>2 DEF IInv, ProcessTypes
<1>2. QED
  BY InductiveInvariant, <1>1, PTL DEF Spec, ShutdownChargesNoAttempt

=============================================================================
