------------------------------ MODULE ConnPool ------------------------------
(***************************************************************************)
(* The connection pool and the log.  Every SQL statement is logged, and    *)
(* every log line is a row that DatabaseHook inserts while it holds its    *)
(* mutex, over a pool connection of its own, with a context that is never  *)
(* cancelled.  A statement outside of a transaction has given its          *)
(* connection back when it is logged; a request in a transaction           *)
(* (UnitOfWork.Execute) keeps its own, and its row lock, while it logs.    *)
(*                                                                         *)
(* Lines that a goroutine logs one after the other, with nothing between   *)
(* them, are one line here.                                                *)
(***************************************************************************)
EXTENDS Naturals, FiniteSets

CONSTANTS
    Requests,      \* requests of the commands, each served by a goroutine
    Others,        \* goroutines that log but have no transaction
    Orders,        \* orders the requests are about
    PoolSize,      \* SetMaxOpenConns: connections of the pool
    Statements,    \* statements of a transaction
    Writes,        \* the last of them, which write the row of the order
    Nobody         \* no goroutine

ASSUME PoolAssumption ==
    /\ PoolSize \in Nat \ {0}
    /\ Statements \in Nat \ {0}
    /\ Writes \in 0..Statements
    /\ Nobody \notin Requests \cup Others
    /\ Requests \cap Others = {}

Goroutines == Requests \cup Others

VARIABLES
    at,            \* at[g]: what goroutine g does next
    after,         \* after[g]: what it does when its log line is written
    open,          \* requests with an open transaction, each on a connection
    order,         \* order[h]: the order request h is about
    left,          \* left[h]: statements its transaction has still to run
    gone,          \* requests whose client has left: their context is cancelled
    mutex          \* DatabaseHook.mu: the goroutine that holds it, or Nobody

poolVars == <<at, after, open, order, left, gone, mutex>>

-----------------------------------------------------------------------------
Goto(g, place) == at' = [at EXCEPT ![g] = place]

\* A connection that no transaction holds.
Free == Cardinality(open) < PoolSize

\* A request that has not been answered and logged.
InProgress(h) == at[h] \notin {"idle", "exited"}

\* h has written the row of its order and its transaction is open.
Holds(h) == h \in open /\ left[h] < Writes

\* Write a log line, then go on at next.
Log(g, next) ==
    /\ at'    = [at EXCEPT ![g] = "lock"]
    /\ after' = [after EXCEPT ![g] = next]

-----------------------------------------------------------------------------
(* The log: hookedCore.Write, DatabaseHook.Hook and LogStore.SaveLog.      *)

Lock(g) ==
    /\ at[g] = "lock" /\ mutex = Nobody
    /\ mutex' = g
    /\ Goto(g, "write")
    /\ UNCHANGED <<after, open, order, left, gone>>

\* Mutant of WriteLog: an INSERT that fails leaves the mutex locked.
WriteLogErrorKeepsLock(g) ==
    /\ at[g] = "write" /\ Free
    /\ mutex' \in {mutex, Nobody}
    /\ Goto(g, after[g])
    /\ after' = [after EXCEPT ![g] = "none"]
    /\ UNCHANGED <<open, order, left, gone>>

\* The INSERT waits for a connection; whether it fails makes no difference.
WriteLog(g) ==
    /\ at[g] = "write" /\ Free
    /\ mutex' = Nobody
    /\ Goto(g, after[g])
    /\ after' = [after EXCEPT ![g] = "none"]
    /\ UNCHANGED <<open, order, left, gone>>

\* A statement outside of a transaction, or just a line, of another goroutine.
Query(g, from, next) ==
    /\ at[g] = from /\ Free
    /\ Log(g, next)
    /\ UNCHANGED <<open, order, left, gone, mutex>>

LogLine(g, from, next) ==
    /\ at[g] = from
    /\ Log(g, next)
    /\ UNCHANGED <<open, order, left, gone, mutex>>

-----------------------------------------------------------------------------
(* A request.                                                              *)

Receive(h) ==
    /\ at[h] = "idle"
    /\ \E o \in Orders : order' = [order EXCEPT ![h] = o]
    /\ left' = [left EXCEPT ![h] = Statements]
    /\ Log(h, "begin")
    /\ UNCHANGED <<open, gone, mutex>>

\* The request is over when its answer is logged.
Answer(h) ==
    /\ Log(h, "idle")
    /\ gone' = gone \ {h}
    /\ left' = [left EXCEPT ![h] = 0]

\* Transaction waits for a connection, with the context of the request.
Begin(h) ==
    /\ at[h] = "begin"
    /\ \/ /\ h \notin gone /\ Free
          /\ open' = open \cup {h}
          /\ Goto(h, "statement")
          /\ UNCHANGED <<after, left, gone>>
       \/ /\ h \in gone
          /\ Answer(h)
          /\ UNCHANGED open
    /\ UNCHANGED <<order, mutex>>

\* A statement runs (one that writes waits for the row lock) and is traced
\* while the transaction is open.
Statement(h) ==
    /\ at[h] = "statement" /\ h \in open
    /\ left[h] <= Writes => \A g \in Requests \ {h} : ~(Holds(g) /\ order[g] = order[h])
    /\ left' = [left EXCEPT ![h] = @ - 1]
    /\ Log(h, IF left[h] = 1 THEN "commit" ELSE "statement")
    /\ UNCHANGED <<open, order, gone, mutex>>

\* It fails, as it must when its context is cancelled: that is traced too.
StatementFails(h) ==
    /\ at[h] = "statement"
    /\ Log(h, "rollback")
    /\ UNCHANGED <<open, order, left, gone, mutex>>

\* Mutant of End: a rollback does not give the connection back.
EndKeepsConnection(h) ==
    /\ at[h] \in {"commit", "rollback"}
    /\ open' = IF at[h] = "commit" THEN open \ {h} ELSE open
    /\ Answer(h)
    /\ UNCHANGED <<order, mutex>>

\* COMMIT or ROLLBACK; an error if database/sql has rolled back before.
End(h) ==
    /\ at[h] \in {"commit", "rollback"}
    /\ open' = open \ {h}
    /\ Answer(h)
    /\ UNCHANGED <<order, mutex>>

\* The client closes its connection before it has the answer.
ClientLeaves(h) ==
    /\ InProgress(h) /\ after[h] # "idle" /\ h \notin gone
    /\ gone' = gone \cup {h}
    /\ UNCHANGED <<at, after, open, order, left, mutex>>

\* database/sql rolls the transaction of a cancelled context back, wherever
\* its goroutine is, and takes the connection.
AwaitDone(h) ==
    /\ h \in open /\ h \in gone
    /\ open' = open \ {h}
    /\ UNCHANGED <<at, after, order, left, gone, mutex>>

\* What goroutines do of their own accord.
Write(g) == Lock(g) \/ WriteLog(g)
Serve(h) ==
    \/ Write(h)
    \/ Begin(h) \/ Statement(h) \/ End(h)
    \/ h \in gone /\ StatementFails(h)

-----------------------------------------------------------------------------
\* All connections are held by transactions that wait, for a log line to be
\* written or for the row lock of one that does.  Only a client that leaves
\* ends this.
Stuck ==
    /\ ~Free
    /\ open \cap gone = {}
    /\ \A h \in open :
          \/ at[h] \in {"lock", "write"} /\ mutex # Nobody
          \/ /\ at[h] = "statement" /\ left[h] <= Writes
             /\ \E g \in open \ {h} : Holds(g) /\ order[g] = order[h]
=============================================================================
