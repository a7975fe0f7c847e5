--------------------------- MODULE MCOutboxRelay ---------------------------
(* Small instances of OutboxRelay.                                         *)
EXTENDS OutboxRelay

CONSTANTS w1, w2
=============================================================================
