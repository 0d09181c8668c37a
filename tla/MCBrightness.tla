---------------------------- MODULE MCBrightness ----------------------------
(***************************************************************************)
(* Model checking instances of BrightnessDaemon: a backlight with three    *)
(* levels, and ints from -4 to 3.                                          *)
(***************************************************************************)
EXTENDS BrightnessDaemon

SetState(v)    == [type |-> "set", len |-> 4, bytes |-> 6, value |-> v]
ModifyState(v) == [type |-> "modify", len |-> 4, bytes |-> 6, value |-> v]
Command(type)  == [type |-> type, len |-> 0, bytes |-> 2, value |-> 0]

\* A level the backlight does not have, a payload missing, a datagram cut to
\* one byte, one longer than it says, and an unknown type.
BadFrames ==
    {SetState(3), Command("set"),
     [type |-> "powersave", len |-> 0, bytes |-> 1, value |-> 0],
     [type |-> "set", len |-> 4, bytes |-> 64, value |-> 1],
     Command("other")}

\* Steps that stay below and reach beyond the ends of the scale, none of which
\* overflows an int.
Commands ==
    {SetState(1), ModifyState(-2), ModifyState(1),
     Command("save"), Command("restore"), Command("powersave")}

AllFrames == Commands \cup BadFrames

\* The largest step there is.
LargestStep == {ModifyState(IntMax), SetState(1)}

=============================================================================
