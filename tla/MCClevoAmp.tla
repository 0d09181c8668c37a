----------------------------- MODULE MCClevoAmp -----------------------------
(***************************************************************************)
(* Model checking instance of ClevoAmp: two programs at a time, and five   *)
(* directories: without a bus, without the adapter, with it between two    *)
(* others, and with a name that cannot be opened at the end and before it. *)
(***************************************************************************)
EXTENDS ClevoAmp, TLC, FiniteSets

\* No mode gives a register this value.
MCPowerOn == [c \in Registers |-> 1]

Dot     == [number |-> NoNumber, opens |-> TRUE, matches |-> FALSE]
Smbus   == [number |-> 0, opens |-> TRUE,  matches |-> TRUE]
Other   == [number |-> 1, opens |-> TRUE,  matches |-> FALSE]
Another == [number |-> 2, opens |-> TRUE,  matches |-> FALSE]
Closed  == [number |-> 3, opens |-> FALSE, matches |-> FALSE]

MCDirectories ==
    {<<Dot>>, <<Dot, Other>>, <<Other, Dot, Smbus, Another>>, <<Other, Closed, Dot>>, <<Closed, Smbus>>}

Symmetry == Permutations(Proc)

=============================================================================
