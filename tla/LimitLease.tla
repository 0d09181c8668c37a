----------------------------- MODULE LimitLease -----------------------------
(***************************************************************************)
(* What cpu_powerlimit promises, without its steps, its children and the   *)
(* lock file: the power limits are lent to one process at a time.  A       *)
(* process takes them, sets them once, sets the default again and gives    *)
(* them back, or it breaks off and promises nothing.                       *)
(***************************************************************************)
EXTENDS Integers

CONSTANTS
    Process,
    None,
    Target,     \* the limits a process may ask for
    Default,    \* the default limits, one of them
    BootLimits  \* the limits the firmware sets

VARIABLES
    holder,     \* the process the limits are lent to, or None
    stage,      \* what it has done: "taken", "lent" or "returned"; or "free"
    limits,     \* the limits in force
    loose,      \* limits that are still being set for processes that broke off
    intact      \* nobody has broken off since the default was last set

vars == <<holder, stage, limits, loose, intact>>

\* Some of the limits in force replaced by those of t.
Mixed(t) == [stapm: {limits.stapm, t.stapm}, fast: {limits.fast, t.fast},
             slow: {limits.slow, t.slow}]

Init ==
    /\ holder = None
    /\ stage = "free"
    /\ limits = BootLimits
    /\ loose = {}
    /\ intact = FALSE

Take(p) ==
    /\ holder = None
    /\ holder' = p
    /\ stage' = "taken"
    /\ UNCHANGED <<limits, loose, intact>>

\* Lending the default makes the limits intact, too.
Lend(p, t) ==
    /\ holder = p /\ stage = "taken"
    /\ stage' = "lent"
    /\ limits' = t
    /\ intact' = (intact \/ t = Default)
    /\ UNCHANGED <<holder, loose>>

Return(p) ==
    /\ holder = p /\ stage \in {"taken", "lent"}
    /\ stage' = "returned"
    /\ limits' = Default
    /\ intact' = TRUE
    /\ UNCHANGED <<holder, loose>>

\* Only limits that are the default are given back.
Give(p) ==
    /\ holder = p /\ stage = "returned"
    /\ holder' = None
    /\ stage' = "free"
    /\ UNCHANGED <<limits, loose, intact>>

\* A process breaks off: limits for some target are set in part or not at all,
\* or go on being set; never once the default is in force again.
Break(p) ==
    /\ holder = p
    /\ holder' = None
    /\ stage' = "free"
    /\ \/ UNCHANGED <<limits, loose>>
       \/ /\ stage # "returned"
          /\ \E t \in Target :
               \/ limits' \in Mixed(t) /\ UNCHANGED loose
               \/ loose' = loose \cup {t} /\ UNCHANGED limits
    /\ intact' = FALSE

\* Limits of a process that broke off are set, under whoever holds them now.
Disturb(t) ==
    /\ t \in loose
    /\ loose' = loose \ {t}
    /\ limits' \in Mixed(t)
    /\ intact' = FALSE
    /\ UNCHANGED <<holder, stage>>

Restart ==
    /\ holder' = None
    /\ stage' = "free"
    /\ limits' = BootLimits
    /\ loose' = {}
    /\ intact' = FALSE

Next ==
    \/ \E p \in Process :
         \/ Take(p) \/ Return(p) \/ Give(p) \/ Break(p)
         \/ \E t \in Target : Lend(p, t)
    \/ \E t \in Target : Disturb(t)
    \/ Restart

Spec == Init /\ [][Next]_vars

=============================================================================
