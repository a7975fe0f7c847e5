---------------------------- MODULE MCLifecycle ----------------------------
(* A small instance of Lifecycle.                                          *)
EXTENDS Lifecycle

CONSTANTS h1, h2, o1
=============================================================================
