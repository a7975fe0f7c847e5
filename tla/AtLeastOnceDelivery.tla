------------------------ MODULE AtLeastOnceDelivery ------------------------
(***************************************************************************)
(* What the outbox promises to the event bus, without rows, batches,       *)
(* retries or workers: an accepted event stays open until it is settled,   *)
(* as published, which it is only after it was delivered, or as dead.      *)
(* Published is for good; the dead are reopened by an administrator.       *)
(***************************************************************************)
CONSTANT Events

VARIABLES
    outcome,    \* outcome[e]: "absent", "open", "published" or "dead"
    delivered   \* the events the bus has seen

vars == <<outcome, delivered>>

Init ==
    /\ outcome = [e \in Events |-> "absent"]
    /\ delivered = {}

Become(e, from, to) ==
    /\ outcome[e] = from
    /\ outcome' = [outcome EXCEPT ![e] = to]
    /\ UNCHANGED delivered

Accept(e)  == Become(e, "absent", "open")
Publish(e) == e \in delivered /\ Become(e, "open", "published")
GiveUp(e)  == Become(e, "open", "dead")

\* Any number of times while the event is open, never once it is settled.
Deliver(e) ==
    /\ outcome[e] = "open"
    /\ delivered' = delivered \cup {e}
    /\ UNCHANGED outcome

Reopen ==
    /\ outcome' = [e \in Events |-> IF outcome[e] = "dead" THEN "open" ELSE outcome[e]]
    /\ UNCHANGED delivered

Next ==
    \/ \E e \in Events : Accept(e) \/ Deliver(e) \/ Publish(e) \/ GiveUp(e)
    \/ Reopen

Spec == Init /\ [][Next]_vars
=============================================================================
