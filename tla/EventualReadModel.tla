------------------------- MODULE EventualReadModel -------------------------
(***************************************************************************)
(* What a reader of the read model is promised: the view of an order goes  *)
(* through the states the order went through, one after the other.  It     *)
(* may lag behind; it never skips a state, never shows one that the order  *)
(* was not in, and never goes back.                                        *)
(***************************************************************************)
EXTENDS Naturals

CONSTANTS
    Orders,
    Length,            \* Length[o]: how many events order o has
    ViewAfter(_, _)    \* ViewAfter(o, k): its state after the first k of them

VARIABLE shown         \* shown[o]: what the read model says of order o

Init == shown = [o \in Orders |-> ViewAfter(o, 0)]

Advance(o) ==
    \E k \in 1..Length[o] :
        /\ shown[o] = ViewAfter(o, k - 1)
        /\ shown' = [shown EXCEPT ![o] = ViewAfter(o, k)]

Next == \E o \in Orders : Advance(o)

Spec == Init /\ [][Next]_shown
=============================================================================
