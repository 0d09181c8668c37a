---------------------------- MODULE BatteryWatch ----------------------------
(***************************************************************************)
(* battery_watch: a loop that polls a battery, suspends the system when    *)
(* the level is critical, and sleeps.  A poll reads the attributes one     *)
(* after the other, while the charger may come and go.                     *)
(*                                                                         *)
(* Time passes in ticks (seconds) while the daemon sleeps; what it does in *)
(* between takes none, and a suspended system has no time.  The level only *)
(* changes with time or during a suspend, never within a poll.             *)
(***************************************************************************)
EXTENDS Integers

CONSTANTS
    Threshold,  \* --treshold, in percent
    Interval,   \* --interval
    Cooldown,   \* kCooldownTime
    Full        \* charge_full (or energy_full) of the battery

ASSUME WatchAssumption ==
    /\ Threshold \in 6 .. 94
    /\ Interval \in Nat \ {0}
    /\ Cooldown \in Nat
    /\ Full \in Nat \ {0}

VARIABLES
    pc,         \* where the daemon is; "dead" when it has ended
    timer,      \* what is left of the sleep it is in
    present,    \* the battery's attributes exist and can be read
    status,     \* its attribute status
    now,        \* its attribute charge_now (or energy_now)
    state,      \* state_
    level,      \* the charge_now of charge_level_
    crit,       \* history: for how long the battery has been critical
    awake,      \* history: time since the last resume, up to what is asked
    discharged  \* history: the battery has been discharging since the poll began

battery == <<present, status, now>>
daemon  == <<pc, timer, state, level>>
history == <<crit, awake, discharged>>
vars == <<daemon, battery, history>>

Status == {"Charging", "Discharging", "Full"}

\* The time from a resume to the next poll.
Pause == Cooldown + Interval

-----------------------------------------------------------------------------
(* BatteryContext *)

\* Mutant of the state: what is neither keeps the last state.
StaleStateMutant(s) == IF s \in {"Charging", "Discharging"} THEN s ELSE state

\* State
StateOf(s) == IF s \in {"Charging", "Discharging"} THEN s ELSE "Unknown"

\* The level n against the threshold and against half of it.
Below(n)     == 100 * n < Threshold * Full
BelowHalf(n) == 200 * n < Threshold * Full

\* Mutant: a battery that does not discharge is never critical.
NoHalfMutant(s, n) == s = "Discharging" /\ Below(n)

\* is_critical
IsCritical(s, n) == BelowHalf(n) \/ (s = "Discharging" /\ Below(n))

\* poll() throws on a charge of 0.
ChargeAccepted(n) == n # 0

-----------------------------------------------------------------------------

Init ==
    /\ pc = "poll"
    /\ timer = 0
    /\ present \in BOOLEAN
    /\ status \in Status
    /\ now \in 0 .. Full
    /\ state = "Unknown"
    /\ level = -1
    /\ crit = 0
    /\ awake = Pause
    /\ discharged = FALSE

Goto(label) == pc' = label /\ UNCHANGED timer

Sleep(label, time) == pc' = label /\ timer' = time

\* The device is looked up anew, so that no attribute is cached.
FindDevice ==
    /\ pc = "poll"
    /\ Goto(IF present THEN "status" ELSE "dead")
    /\ discharged' = (status = "Discharging")
    /\ UNCHANGED <<battery, state, level, crit, awake>>

\* A missing status is an unknown one.
ReadStatus ==
    /\ pc = "status"
    /\ Goto("full")
    /\ state' = IF present THEN StateOf(status) ELSE "Unknown"
    /\ UNCHANGED <<battery, level, history>>

\* An attribute that is missing (of charge_full and energy_full both), no
\* number, or a full charge of 0, makes poll() throw; with a battery that is
\* present there is none of this.
ReadFull ==
    /\ pc = "full"
    /\ Goto(IF present THEN "now" ELSE "dead")
    /\ UNCHANGED <<battery, state, level, history>>

ReadNow ==
    /\ pc = "now"
    /\ IF present /\ ChargeAccepted(now)
       THEN level' = now /\ Goto("judge")
       ELSE Goto("dead") /\ UNCHANGED level
    /\ UNCHANGED <<battery, state, history>>

Judge ==
    /\ pc = "judge"
    /\ IF IsCritical(state, level) THEN Goto("suspend") ELSE Sleep("sleep", Interval)
    /\ UNCHANGED <<battery, state, level, history>>

\* sys_suspend: the write to /sys/power/state fails, and nobody catches what
\* it throws, or it returns when the system resumes.
Suspend ==
    /\ pc = "suspend"
    /\ Goto("suspended") \/ Goto("dead")
    /\ crit' = 0
    /\ UNCHANGED <<battery, state, level, awake, discharged>>

\* Mutant: no cooldown.
NoCooldownMutant ==
    /\ pc = "suspended"
    /\ Sleep("cooldown", 0)
    /\ now' \in 0 .. Full
    /\ awake' = 0
    /\ UNCHANGED <<present, status, state, level, crit, discharged>>

\* The system resumes, with any level.
Resume ==
    /\ pc = "suspended"
    /\ Sleep("cooldown", Cooldown)
    /\ now' \in 0 .. Full
    /\ awake' = 0
    /\ UNCHANGED <<present, status, state, level, crit, discharged>>

\* A sleep ends: sleep_for in sys_suspend, and in main.
WakeUp ==
    /\ timer = 0
    /\ \/ pc = "cooldown" /\ Sleep("sleep", Interval)
       \/ pc = "sleep" /\ Goto("poll")
    /\ UNCHANGED <<battery, state, level, history>>

-----------------------------------------------------------------------------
(* The battery and time *)

\* A battery that the daemon is there to react to.
Critical(p, s, n) == p /\ n # 0 /\ (BelowHalf(n) \/ (s = "Discharging" /\ Below(n)))

\* One second of a sleep, at the end of which the level may be another.
Tick ==
    /\ pc \in {"sleep", "cooldown"}
    /\ timer > 0
    /\ timer' = timer - 1
    /\ now' \in 0 .. Full
    /\ crit' = IF Critical(present, status, now') THEN crit + 1 ELSE 0
    /\ awake' = IF awake < Pause THEN awake + 1 ELSE awake
    /\ UNCHANGED <<pc, state, level, present, status, discharged>>

\* The charger or the battery comes or goes.
Plug ==
    /\ present' \in BOOLEAN
    /\ status' \in Status
    /\ crit' = IF Critical(present', status', now) THEN crit ELSE 0
    /\ discharged' = (discharged \/ status' = "Discharging")
    /\ UNCHANGED <<daemon, now, awake>>

Next ==
    \/ FindDevice \/ ReadStatus \/ ReadFull \/ ReadNow \/ Judge
    \/ Suspend \/ Resume \/ WakeUp
    \/ Tick \/ Plug

Spec == Init /\ [][Next]_vars

-----------------------------------------------------------------------------
(* Properties *)

\* Every variable keeps its type; a level of 0 is never judged.
TypeOK ==
    /\ pc \in {"poll", "status", "full", "now", "judge", "suspend", "suspended",
               "cooldown", "sleep", "dead"}
    /\ timer \in 0 .. Pause
    /\ present \in BOOLEAN
    /\ status \in Status
    /\ now \in 0 .. Full
    /\ state \in {"Unknown", "Charging", "Discharging"}
    /\ level \in {-1} \cup 1 .. Full
    /\ pc = "judge" => level > 0
    /\ crit \in 0 .. Pause
    /\ awake \in 0 .. Pause
    /\ discharged \in BOOLEAN

\* While the daemon lives, a battery that is critical without a break is so no
\* longer than one cooldown and one interval before the system suspends, and
\* right after a poll that did not suspend it is critical for no time at all.
RespondsInTime ==
    /\ pc # "dead" => crit <= Pause
    /\ pc = "sleep" => crit + timer <= Pause
    /\ pc = "sleep" /\ timer = Interval /\ awake = Pause => crit = 0

\* The system is only suspended with a level that is below half the threshold,
\* or below the threshold on a battery that was discharging during this poll:
\* never by a state left over from an earlier poll, and never by a reading of 0,
\* which is taken for a battery that cannot tell.
SuspendJustified ==
    pc = "suspend" => now > 0 /\ (BelowHalf(now) \/ (Below(now) /\ discharged))

\* After a resume there is time for the cooldown and one interval before the
\* system is suspended again.
AwakeBetweenSuspends == pc = "suspend" => awake = Pause

=============================================================================
