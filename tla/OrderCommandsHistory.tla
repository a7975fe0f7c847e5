------------------------ MODULE OrderCommandsHistory ------------------------
(***************************************************************************)
(* OrderCommands with a history variable: the handlers during whose        *)
(* transaction another one has committed.  It adds no behaviour and takes  *)
(* none away; with it a step can be judged by what happened since the      *)
(* handler loaded its order.                                               *)
(***************************************************************************)
EXTENDS OrderCommands

VARIABLE overtaken     \* handlers that another one has overtaken

hvars == <<vars, overtaken>>

\* A request starts afresh; a commit overtakes everyone in a transaction.
Observe(h) ==
    overtaken' =
        IF pc[h] = "idle" THEN overtaken \ {h}
        ELSE IF outbox' # outbox
             THEN overtaken \cup {g \in Handlers \ {h} : pc[g] # "idle"}
             ELSE overtaken

HInit == Init /\ overtaken = {}

HReceive(h)      == Receive(h) /\ Observe(h)
HReject(h)       == Reject(h) /\ Observe(h)
HCreateOrder(h)  == CreateOrder(h) /\ Observe(h)
HFindRow(h)      == FindRow(h) /\ Observe(h)
HFindItems(h)    == FindItems(h) /\ Observe(h)
HApplyAddItem(h) == ApplyAddItem(h) /\ Observe(h)
HApplyConfirm(h) == ApplyConfirm(h) /\ Observe(h)
HSaveRow(h)      == SaveRow(h) /\ Observe(h)
HReplaceItems(h) == ReplaceItems(h) /\ Observe(h)
HAppendEvents(h) == AppendEvents(h) /\ Observe(h)
HCommit(h)       == Commit(h) /\ Observe(h)
HCommitUnacknowledged(h) == CommitUnacknowledged(h) /\ Observe(h)
HFail(h)         == Fail(h) /\ Observe(h)

HNext == \E h \in Handlers :
    \/ HReceive(h) \/ HReject(h)
    \/ HCreateOrder(h) \/ HFindRow(h) \/ HFindItems(h)
    \/ HApplyAddItem(h) \/ HApplyConfirm(h)
    \/ HSaveRow(h) \/ HReplaceItems(h) \/ HAppendEvents(h)
    \/ HCommit(h) \/ HCommitUnacknowledged(h) \/ HFail(h)

HSpec     == HInit /\ [][HNext]_hvars
HFairSpec == HSpec /\ Fairness

\* The strong promise, operation by operation: a handler that nobody has
\* overtaken since it began (UnitOfWork.Execute) does one operation on the
\* order as it is, so that nothing is lost or done twice; in particular,
\* handlers that run one after another always do.
SerialUnlessOvertaken ==
    [][\A h \in Handlers :
          pc[h] = "commit" /\ outbox' # outbox /\ pc'[h] = "idle" /\ h \notin overtaken
              => Promise!SerialNext]_hvars
=============================================================================
