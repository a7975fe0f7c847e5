------------------------- MODULE OutboxRelayHistory -------------------------
(***************************************************************************)
(* OutboxRelay with two history variables: how often each event was really *)
(* tried, whether or not MarkFailed got to count it in retry_count.  They  *)
(* add no behaviour and take none away.                                    *)
(***************************************************************************)
EXTENDS OutboxRelay

VARIABLES
    attempts,   \* attempts[e]: calls of Publish with e, since e was inserted or requeued
    refused     \* refused[e]: those of them that returned an error

history == <<attempts, refused>>
hvars   == <<vars, history>>

Once(counter, e) == [counter EXCEPT ![e] = @ + 1]

HInit ==
    /\ Init
    /\ attempts = [e \in EventIds |-> 0]
    /\ refused  = [e \in EventIds |-> 0]

HPublishOk(w) ==
    /\ PublishOk(w)
    /\ attempts' = Once(attempts, Current(w))
    /\ UNCHANGED refused

HPublishError(w) ==
    /\ PublishError(w)
    /\ attempts' = Once(attempts, Current(w))
    /\ refused'  = Once(refused, Current(w))

\* The events that are given up start afresh.
Forget(counter) == [e \in EventIds |-> IF row[e].status = "failed" THEN 0 ELSE counter[e]]

HRequeueFailed ==
    /\ RequeueFailed
    /\ attempts' = Forget(attempts)
    /\ refused'  = Forget(refused)

\* All other steps try nothing.
Untried ==
    \/ \E e \in EventIds : Append(e) \/ BackoffElapses(e)
    \/ \E w \in Workers :
          \/ FetchPending(w) \/ PollNothing(w)
          \/ MarkPublished(w) \/ MarkFailedRead(w) \/ MarkFailedSave(w)
          \/ MarkError(w) \/ Crash(w)

HNext ==
    \/ \E w \in Workers : HPublishOk(w) \/ HPublishError(w)
    \/ HRequeueFailed
    \/ Untried /\ UNCHANGED history

HSpec == HInit /\ [][HNext]_hvars

-----------------------------------------------------------------------------
\* A worker that is alone gives an event up only after MaxRetries attempts that
\* failed ("Events marked failed after 10 retries"), and tries none more often
\* than that, but for the attempts that MarkFailed did not count: one for each
\* crash and each statement that failed.  Without such faults the number is exact.
GivenUpAfterMaxRetries ==
    \A e \in EventIds :
        /\ row[e].status = "failed" => refused[e] >= MaxRetries
        /\ attempts[e] <= MaxRetries + faults
=============================================================================
