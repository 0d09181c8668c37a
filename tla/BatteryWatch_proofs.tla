------------------------- MODULE BatteryWatch_proofs -------------------------
(***************************************************************************)
(* Proofs about BatteryWatch, for every threshold, interval, cooldown and  *)
(* battery.                                                                *)
(***************************************************************************)
EXTENDS BatteryWatch, TLAPS

\* The time a battery has been critical, by what the daemon waits for.
CritInv ==
    /\ crit > 0 => Critical(present, status, now)
    /\ pc = "suspended" => crit = 0
    /\ pc = "cooldown" => crit + timer <= Cooldown
    /\ pc = "sleep" => crit + timer <= Pause /\ timer <= Interval
    /\ pc = "sleep" /\ timer = Interval /\ awake = Pause => crit = 0

\* A poll that goes on knows the state and the level of the battery it began
\* with: a battery that stays critical is found critical.
PollInv ==
    /\ pc = "status" /\ status = "Discharging" => discharged
    /\ pc \in {"full", "now", "judge", "suspend"} =>
         /\ state = "Discharging" => discharged
         /\ crit > 0 => IsCritical(state, now)
    /\ pc \in {"judge", "suspend"} => level = now /\ level > 0
    /\ pc = "suspend" => IsCritical(state, level)

\* The time since the last resume and the rest of the sleep add up.
AwakeInv ==
    /\ pc = "cooldown" => awake + timer = Cooldown
    /\ pc = "sleep" => awake = Pause \/ awake + timer = Pause
    /\ pc \in {"poll", "status", "full", "now", "judge", "suspend"} => awake = Pause

IInv == TypeOK /\ CritInv /\ PollInv /\ AwakeInv

USE WatchAssumption

\* The daemon begins with a poll.
LEMMA InitIInv == Init => IInv
<1> SUFFICES ASSUME Init PROVE IInv
  OBVIOUS
<1>1. Pause \in Nat
  BY DEF Pause
<1>2. TypeOK
  <2>1. awake \in 0 .. Pause /\ timer \in 0 .. Pause /\ crit \in 0 .. Pause
    BY <1>1 DEF Init
  <2>2. /\ pc = "poll" /\ state = "Unknown" /\ level = -1 /\ discharged \in BOOLEAN
        /\ present \in BOOLEAN /\ status \in Status /\ now \in 0 .. Full
    BY DEF Init
  <2> QED BY <2>1, <2>2 DEF TypeOK
<1>3. CritInv
  BY DEF Init, CritInv
<1>4. PollInv
  BY DEF Init, PollInv
<1>5. AwakeInv
  BY DEF Init, AwakeInv
<1> QED BY <1>2, <1>3, <1>4, <1>5 DEF IInv

\* Finding the device and reading the status, which the crit part of PollInv
\* rests on: a battery that is critical is so with the status just read.
LEMMA FirstReads == IInv /\ (FindDevice \/ ReadStatus) => IInv'
<1> USE DEF Goto, battery, history
<1> SUFFICES ASSUME IInv, FindDevice \/ ReadStatus PROVE IInv'
  OBVIOUS
<1>1. TypeOK'
  BY DEF FindDevice, ReadStatus, IInv, TypeOK, StateOf
<1>2. CritInv' /\ AwakeInv'
  BY DEF FindDevice, ReadStatus, IInv, CritInv, AwakeInv, Critical, TypeOK
<1>3. CASE FindDevice
  <2>1. pc' \in {"status", "dead"}
    BY <1>3 DEF FindDevice
  <2>2. PollInv'
    BY <2>1, <1>3 DEF FindDevice, IInv, PollInv, TypeOK
  <2> QED BY <1>1, <1>2, <2>2 DEF IInv
<1>4. CASE ReadStatus
  <2>1. state' = "Discharging" => status = "Discharging"
    BY <1>4 DEF ReadStatus, StateOf
  <2>2. crit > 0 => IsCritical(state', now)
    BY <1>4 DEF ReadStatus, IInv, CritInv, Critical, IsCritical, StateOf
  <2>3. PollInv'
    BY <1>4, <2>1, <2>2 DEF ReadStatus, IInv, PollInv, IsCritical
  <2> QED BY <1>1, <1>2, <2>3 DEF IInv
<1> QED BY <1>3, <1>4

\* Reading the charge, and the verdict.
LEMMA LaterReads == IInv /\ (ReadFull \/ ReadNow \/ Judge) => IInv'
<1> USE DEF Goto, Sleep, battery, history
<1> SUFFICES ASSUME IInv, ReadFull \/ ReadNow \/ Judge PROVE IInv'
  OBVIOUS
<1>1. TypeOK'
  BY DEF ReadFull, ReadNow, Judge, IInv, TypeOK, ChargeAccepted, Pause
<1>2. PollInv'
  BY DEF ReadFull, ReadNow, Judge, IInv, PollInv, IsCritical, TypeOK, ChargeAccepted
<1>3. CASE ReadFull \/ ReadNow
  BY <1>1, <1>2, <1>3 DEF ReadFull, ReadNow, IInv, CritInv, AwakeInv, Critical
<1>4. CASE Judge
  <2>1. CASE IsCritical(state, level)
    BY <1>1, <1>2, <1>4, <2>1 DEF Judge, IInv, CritInv, AwakeInv, Critical
  <2>2. CASE ~IsCritical(state, level)
    <3>1. crit = 0 /\ crit' = 0
      BY <1>4, <2>2 DEF Judge, IInv, PollInv, TypeOK
    <3>2. pc' = "sleep" /\ timer' = Interval /\ awake' = awake /\ awake = Pause
      BY <1>4, <2>2 DEF Judge, IInv, AwakeInv
    <3>3. CritInv' /\ AwakeInv'
      BY <3>1, <3>2 DEF CritInv, AwakeInv, Pause
    <3> QED BY <1>1, <1>2, <3>3 DEF IInv
  <2> QED BY <2>1, <2>2
<1> QED BY <1>3, <1>4

\* Suspending, resuming, and waking up.
LEMMA SleepSteps == IInv /\ (Suspend \/ Resume \/ WakeUp) => IInv'
<1> USE DEF Goto, Sleep, battery, history, Pause
<1> SUFFICES ASSUME IInv, Suspend \/ Resume \/ WakeUp PROVE IInv'
  OBVIOUS
<1>1. TypeOK'
  BY DEF Suspend, Resume, WakeUp, IInv, TypeOK
<1>2. PollInv'
  BY DEF Suspend, Resume, WakeUp, IInv, PollInv
<1>3. CritInv'
  BY DEF Suspend, Resume, WakeUp, IInv, CritInv, AwakeInv, Critical, TypeOK
<1>4. AwakeInv'
  BY DEF Suspend, Resume, WakeUp, IInv, AwakeInv, TypeOK
<1> QED BY <1>1, <1>2, <1>3, <1>4 DEF IInv

\* Time.
LEMMA TickStep == IInv /\ Tick => IInv'
<1> USE DEF Pause
<1> SUFFICES ASSUME IInv, Tick PROVE IInv'
  OBVIOUS
<1>1. crit' \in {0, crit + 1} /\ (crit' > 0 => Critical(present', status', now'))
  BY DEF Tick, IInv, TypeOK
<1>2. crit + timer <= Pause
  BY DEF Tick, IInv, CritInv, TypeOK
<1>3. TypeOK'
  BY <1>1, <1>2 DEF Tick, IInv, TypeOK
<1>4. PollInv' /\ AwakeInv'
  BY DEF Tick, IInv, PollInv, AwakeInv, TypeOK
<1>5. CritInv'
  BY <1>1 DEF Tick, IInv, CritInv, TypeOK
<1> QED BY <1>3, <1>4, <1>5 DEF IInv

\* The charger.
LEMMA PlugStep == IInv /\ Plug => IInv'
<1> USE DEF daemon
<1> SUFFICES ASSUME IInv, Plug PROVE IInv'
  OBVIOUS
<1>1. crit' \in {0, crit} /\ (crit' > 0 => Critical(present', status', now'))
  BY DEF Plug, IInv, TypeOK
<1>2. TypeOK'
  <2>1. discharged' \in BOOLEAN
    BY DEF Plug, IInv, TypeOK
  <2>2. /\ present' \in BOOLEAN /\ status' \in Status /\ crit' \in 0 .. Pause
        /\ UNCHANGED <<pc, timer, state, level, now, awake>>
    <3>1. crit' \in 0 .. Pause
      BY <1>1 DEF IInv, TypeOK, Pause
    <3> QED BY <3>1 DEF Plug
  <2> QED BY <2>1, <2>2 DEF IInv, TypeOK
<1>3. AwakeInv'
  BY DEF Plug, IInv, AwakeInv
<1>4. CritInv'
  BY <1>1 DEF Plug, IInv, CritInv, TypeOK
<1>5. PollInv'
  BY <1>1 DEF Plug, IInv, PollInv, TypeOK
<1> QED BY <1>2, <1>3, <1>4, <1>5 DEF IInv

\* The invariant is inductive.
LEMMA NextIInv == IInv /\ [Next]_vars => IInv'
<1> SUFFICES ASSUME IInv, [Next]_vars PROVE IInv'
  OBVIOUS
<1>1. CASE UNCHANGED vars
  BY <1>1 DEF vars, daemon, battery, history, IInv, TypeOK, CritInv, PollInv, AwakeInv, Critical
<1>2. CASE Next
  BY <1>2, FirstReads, LaterReads, SleepSteps, TickStep, PlugStep DEF Next
<1> QED BY <1>1, <1>2

\* The invariant holds in every reachable state.
THEOREM Invariance == Spec => []IInv
BY InitIInv, NextIInv, PTL DEF Spec

\* State, level and timers keep their types.
THEOREM TypeCorrect == Spec => []TypeOK
<1>1. IInv => TypeOK
  BY DEF IInv
<1> QED BY <1>1, Invariance, PTL

\* A battery that stays critical is answered within a cooldown and an interval.
THEOREM ResponseTheorem == Spec => []RespondsInTime
<1>1. IInv => RespondsInTime
  BY DEF IInv, TypeOK, CritInv, RespondsInTime
<1> QED BY <1>1, Invariance, PTL

\* The system is suspended only for a level, not 0, and a state of this poll.
THEOREM JustifiedTheorem == Spec => []SuspendJustified
<1>1. IInv => SuspendJustified
  BY DEF IInv, PollInv, SuspendJustified, IsCritical
<1> QED BY <1>1, Invariance, PTL

\* After a resume the system stays awake for a cooldown and an interval.
THEOREM AwakeTheorem == Spec => []AwakeBetweenSuspends
<1>1. IInv => AwakeBetweenSuspends
  BY DEF IInv, AwakeInv, AwakeBetweenSuspends
<1> QED BY <1>1, Invariance, PTL

=============================================================================
