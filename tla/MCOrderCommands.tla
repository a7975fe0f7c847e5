-------------------------- MODULE MCOrderCommands --------------------------
(* Small instances of OrderCommandsHistory.                                *)
EXTENDS OrderCommandsHistory

CONSTANTS o1, o2, i1, i2, i3, h1, h2, h3

\* Prices 3, 4 and twice 5: no two sets of items have the same total.  In
\* three bits, -4..3, the totals of {i2} and of {i1, i2} wrap around, to -4
\* and -1; in eight bits nothing does.
MCUnitPrice == [i \in ItemIds |-> IF i = i1 THEN 3 ELSE IF i = i2 THEN 4 ELSE 5]
MCQuantity  == [i \in ItemIds |-> IF i = i3 THEN 2 ELSE 1]

\* Item i3 is invalid: its quantity is zero.
MCQuantityInvalid == [i \in ItemIds |-> IF i = i3 THEN 0 ELSE 1]
=============================================================================
