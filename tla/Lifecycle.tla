----------------------------- MODULE Lifecycle -----------------------------
(***************************************************************************)
(* The life of a process, from start to exit: bootstrap.Run in the main    *)
(* goroutine, the requests the HTTP server serves, and the outbox worker,  *)
(* all of which log, and so share the pool and the mutex of ConnPool.      *)
(*                                                                         *)
(* A shutdown is main's sequence: log the signal, cancel the context of    *)
(* the workers, close the Kafka writer, drain the HTTP server until a      *)
(* timeout, run the deferred functions.  It does not wait for the worker.  *)
(***************************************************************************)
EXTENDS ConnPool

CONSTANTS Main, Worker      \* two of Others

ASSUME LifecycleAssumption == {Main, Worker} \subseteq Others /\ Main # Worker

VARIABLES
    listening,     \* the server accepts connections
    cancelled,     \* ctx, the context of the workers, is cancelled
    busClosed,     \* the Kafka writer is closed
    reason,        \* why the worker's last publish failed
    result         \* what Run returns, or how the last process ended

processVars == <<listening, cancelled, busClosed, reason, result>>
vars        == <<poolVars, processVars>>

-----------------------------------------------------------------------------
Init ==
    /\ at    = [g \in Goroutines |-> "exited"]
    /\ after = [g \in Goroutines |-> "none"]
    /\ open  = {} /\ gone = {} /\ mutex = Nobody
    /\ order \in [Requests -> Orders]
    /\ left  = [h \in Requests |-> 0]
    /\ listening = FALSE /\ cancelled = FALSE /\ busClosed = FALSE
    /\ reason = "none" /\ result = "none"

-----------------------------------------------------------------------------
(* Start.                                                                  *)

\* Run, up to its select: workers and server are started.
Start ==
    /\ at[Main] = "exited"
    /\ at' = [g \in Goroutines |-> CASE g \in Requests -> "idle"
                                     [] g = Main       -> "serving"
                                     [] OTHER          -> "tick"]
    /\ listening' = TRUE /\ cancelled' = FALSE /\ busClosed' = FALSE
    /\ reason' = "none" /\ result' = "none"
    /\ UNCHANGED <<after, open, order, left, gone, mutex>>

\* The log file cannot be opened, or the database cannot be reached.
StartFails ==
    /\ at[Main] = "exited"
    /\ result' = "error"
    /\ UNCHANGED <<poolVars, listening, cancelled, busClosed, reason>>

-----------------------------------------------------------------------------
(* Requests and the worker.                                                *)

Accept(h) == listening /\ Receive(h) /\ UNCHANGED processVars

\* Run's select: the ticker, or the context.
WorkerStops ==
    /\ cancelled
    /\ LogLine(Worker, "tick", "stopped")
    /\ UNCHANGED processVars

\* FetchPending: some events, or none.
Fetch ==
    /\ ~cancelled
    /\ \E next \in {"publish", "tick"} : Query(Worker, "tick", next)
    /\ UNCHANGED processVars

\* ... or the error of a cancelled context.
FetchFails ==
    /\ cancelled
    /\ LogLine(Worker, "tick", "tick")
    /\ UNCHANGED processVars

\* A publish that was on its way may still succeed after the cancellation.
PublishOk ==
    /\ at[Worker] = "publish" /\ ~busClosed
    /\ Goto(Worker, "markPublished")
    /\ UNCHANGED <<after, open, order, left, gone, mutex, processVars>>

\* The broker or the handler refuses the event.
PublishRefused ==
    /\ LogLine(Worker, "publish", "markFailed")
    /\ reason' = "refused"
    /\ UNCHANGED <<listening, cancelled, busClosed, result>>

\* The context is cancelled, or the writer is closed.
PublishAborted ==
    /\ cancelled \/ busClosed
    /\ LogLine(Worker, "publish", "markFailed")
    /\ reason' = "shutdown"
    /\ UNCHANGED <<listening, cancelled, busClosed, result>>

\* The next event of the batch, or the end of it.
NextEvent == {"publish", "tick"}

MarkPublished ==
    /\ ~cancelled
    /\ \E next \in NextEvent : Query(Worker, "markPublished", next)
    /\ UNCHANGED processVars

\* One more attempt of the event is counted.
MarkFailed ==
    /\ ~cancelled
    /\ \E next \in NextEvent : Query(Worker, "markFailed", next)
    /\ reason' = "none"
    /\ UNCHANGED <<listening, cancelled, busClosed, result>>

\* The context is cancelled: the row stays as it is.
MarkFails ==
    /\ cancelled
    /\ \E next \in NextEvent, mark \in {"markPublished", "markFailed"} :
          LogLine(Worker, mark, next)
    /\ reason' = "none"
    /\ UNCHANGED <<listening, cancelled, busClosed, result>>

-----------------------------------------------------------------------------
(* Shutdown.                                                               *)

\* SIGINT or SIGTERM: the first thing done is to log it.
Signal ==
    /\ LogLine(Main, "serving", "cancel")
    /\ UNCHANGED processVars

\* The server cannot listen: Run returns at once.
ListenFails ==
    /\ at[Main] = "serving"
    /\ Goto(Main, "return")
    /\ result' = "error"
    /\ UNCHANGED <<after, open, order, left, gone, mutex>>
    /\ UNCHANGED <<listening, cancelled, busClosed, reason>>

\* Mutant of Cancel: the deferred cancel will do.
CancelAtReturn ==
    /\ at[Main] = "cancel"
    /\ Goto(Main, "close")
    /\ UNCHANGED <<after, open, order, left, gone, mutex, processVars>>

Cancel ==
    /\ at[Main] = "cancel"
    /\ Goto(Main, "close")
    /\ cancelled' = TRUE
    /\ UNCHANGED <<after, open, order, left, gone, mutex>>
    /\ UNCHANGED <<listening, busClosed, reason, result>>

\* With the in-memory bus, which has nothing to close, no publish gets through
\* by now either.  An error is logged.
CloseBus ==
    /\ at[Main] = "close"
    /\ \/ Goto(Main, "shutdown") /\ UNCHANGED after
       \/ Log(Main, "shutdown")
    /\ busClosed' = TRUE
    /\ UNCHANGED <<open, order, left, gone, mutex>>
    /\ UNCHANGED <<listening, cancelled, reason, result>>

\* Shutdown closes the listeners ...
StopListening ==
    /\ at[Main] = "shutdown"
    /\ Goto(Main, "drain")
    /\ listening' = FALSE
    /\ UNCHANGED <<after, open, order, left, gone, mutex>>
    /\ UNCHANGED <<cancelled, busClosed, reason, result>>

\* ... and waits until no request is in progress ...
Drained ==
    /\ \A h \in Requests : ~InProgress(h)
    /\ LogLine(Main, "drain", "return")
    /\ result' = "nil"
    /\ UNCHANGED <<listening, cancelled, busClosed, reason>>

\* Mutants of DrainTimeout: its error is ignored, or there is no timeout.
DrainTimeoutIgnored ==
    /\ at[Main] = "drain"
    /\ Goto(Main, "return")
    /\ result' = "nil"
    /\ UNCHANGED <<after, open, order, left, gone, mutex>>
    /\ UNCHANGED <<listening, cancelled, busClosed, reason>>
DrainTimeoutNever == FALSE /\ UNCHANGED vars

\* ... or the timeout is over.
DrainTimeout ==
    /\ at[Main] = "drain"
    /\ Goto(Main, "return")
    /\ result' = "error"
    /\ UNCHANGED <<after, open, order, left, gone, mutex>>
    /\ UNCHANGED <<listening, cancelled, busClosed, reason>>

\* InitTracer and InitSigNozLogger at the start: an endpoint that is not
\* configured makes a cleanup that does nothing; one that does not parse, or
\* an exporter that cannot be made, an error, which is logged, and a nil
\* cleanup, which is deferred all the same.  Nothing depends on it before.
InitTelemetry == {"set", "nil"}

\* The deferred functions run, of which a nil one panics, and the process is
\* gone, with all its goroutines; the database rolls back what was open.
Return ==
    /\ at[Main] = "return"
    /\ at'    = [g \in Goroutines |-> "exited"]
    /\ after' = [g \in Goroutines |-> "none"]
    /\ left'  = [h \in Requests |-> 0]
    /\ open' = {} /\ gone' = {} /\ mutex' = Nobody
    /\ listening' = FALSE /\ cancelled' = TRUE /\ busClosed' = TRUE
    /\ \E cleanup \in InitTelemetry : result' = IF cleanup = "nil" THEN "panic" ELSE result
    /\ reason' = "none"
    /\ UNCHANGED order

-----------------------------------------------------------------------------
ServeRequest(h) == Serve(h) /\ UNCHANGED processVars

Lines(g) == Write(g) /\ UNCHANGED processVars

Work ==
    \/ Lines(Worker)
    \/ WorkerStops \/ Fetch \/ FetchFails
    \/ PublishOk \/ PublishRefused \/ PublishAborted
    \/ MarkPublished \/ MarkFailed \/ MarkFails

ShutDown ==
    \/ Lines(Main)
    \/ Cancel \/ CloseBus \/ StopListening \/ Drained \/ DrainTimeout \/ Return

Disturb(h) ==
    /\ ClientLeaves(h) \/ StatementFails(h)
    /\ UNCHANGED processVars

RollsBack(h) == AwaitDone(h) /\ UNCHANGED processVars

Next ==
    \/ Start \/ StartFails
    \/ \E h \in Requests : Accept(h) \/ ServeRequest(h) \/ Disturb(h) \/ RollsBack(h)
    \/ Work
    \/ Signal \/ ListenFails \/ ShutDown

Spec == Init /\ [][Next]_vars

\* A goroutine goes on when it can.  The mutex, the pool and the row lock are
\* given to those that wait for them in some order that forgets no one, which
\* is strong fairness: they are taken and given back while a goroutine waits.
\* No client need leave and no operator need send a signal.
Fairness ==
    /\ \A h \in Requests : SF_vars(ServeRequest(h)) /\ WF_vars(RollsBack(h))
    /\ SF_vars(Work)
    /\ SF_vars(ShutDown)

FairSpec == Spec /\ Fairness

-----------------------------------------------------------------------------
(* Properties.                                                             *)

Places == {"exited", "lock", "write",
           "idle", "begin", "statement", "commit", "rollback",
           "tick", "publish", "markPublished", "markFailed", "stopped",
           "serving", "cancel", "close", "shutdown", "drain", "return"}

\* Every variable has its type; connections are taken by requests in progress
\* and never more than there are, and the mutex is held by the one that writes.
TypeOK ==
    /\ at \in [Goroutines -> Places]
    /\ after \in [Goroutines -> Places \cup {"none"}]
    /\ open \subseteq {h \in Requests : InProgress(h)}
    /\ Cardinality(open) <= PoolSize
    /\ order \in [Requests -> Orders]
    /\ left \in [Requests -> 0..Statements]
    /\ gone \subseteq Requests
    /\ \A g \in Goroutines : at[g] = "write" <=> mutex = g
    /\ mutex \in Goroutines \cup {Nobody}
    /\ listening \in BOOLEAN /\ cancelled \in BOOLEAN /\ busClosed \in BOOLEAN
    /\ reason \in {"none", "refused", "shutdown"}
    /\ result \in {"none", "nil", "error", "panic"}

\* A process ends without an error only when every request it accepted has
\* been answered and logged and holds no connection: the timeout of Shutdown
\* and a server that fails are never taken for a drain.
CleanExitHasDrained ==
    [][Return /\ result' = "nil" =>
          open = {} /\ \A h \in Requests : ~InProgress(h)]_vars

\* A shutdown costs no event one of its attempts: a publish that fails because
\* the workers are cancelled or the writer is closed is not marked as failed,
\* as Run cancels the context of the mark before it closes the writer.
ShutdownChargesNoAttempt == [][MarkFailed => reason = "refused"]_vars

\* Nothing but the pool can hold a request up for ever: not the mutex, not a
\* row lock, not the worker.
RequestsEnd ==
    []<>~Stuck => \A h \in Requests : InProgress(h) ~> ~InProgress(h)

\* Nor the shutdown, from the signal to the exit.
ShutdownEndsUnlessStuck ==
    []<>~Stuck => (after[Main] = "cancel" ~> at[Main] = "exited")

\* Once it drains not even that can: the timeout needs no log line.
DrainEnds == at[Main] = "drain" ~> at[Main] = "exited"

-----------------------------------------------------------------------------
(* What the documentation says, and the code does not do.                  *)

\* "Graceful shutdown: HTTP drain + worker context cancel" (README): a signal
\* leads to the cancellation of the workers' context.
SignalCancelsWorkers == after[Main] = "cancel" ~> cancelled
=============================================================================
