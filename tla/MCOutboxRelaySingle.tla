------------------------ MODULE MCOutboxRelaySingle ------------------------
(* A small instance of OutboxRelayHistory: one worker.                     *)
EXTENDS OutboxRelayHistory

CONSTANT w1
=============================================================================
