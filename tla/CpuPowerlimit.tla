---------------------------- MODULE CpuPowerlimit ----------------------------
(***************************************************************************)
(* cpu_powerlimit: each process takes a file lock, lets ryzenadj set the   *)
(* power limits of the CPU, sleeps until a signal, lets ryzenadj set the   *)
(* default limits again, and ends.  With --init it sets the default limits *)
(* and ends at once, and only it creates the lock file.                    *)
(*                                                                         *)
(* The kernel frees the lock of a process that dies; its ryzenadj, a child *)
(* process, may die with it or go on alone.  Limits are in milliwatts.     *)
(***************************************************************************)
EXTENDS Integers

CONSTANTS
    Process,    \* processes that may run at the same time
    Profile,    \* the names of the profiles of the configuration
    Limits(_),  \* the limits of each of them
    Default,    \* the profile "default"
    Tdp,        \* the values users give with --tdp
    Fast(_),    \* tdp * fast_multiplier
    Slow(_),    \* tdp * slow_multiplier
    TdpMin,     \* kPowerlimitTDPBounds (8 W and 54 W)
    TdpMax,
    UIntMod,    \* unsigned arithmetic is modulo this (2^32)
    BootLimits, \* the limits the firmware sets
    None        \* no process, no child

CpuLimits == [stapm: Nat, fast: Nat, slow: Nat]

ASSUME ProfileAssumption ==
    /\ Default \in Profile
    /\ \A q \in Profile : Limits(q) \in [stapm: Int, fast: Int, slow: Int]
    /\ UIntMod \in Nat \ {0}
    /\ BootLimits \in CpuLimits
    /\ None \notin Process
    /\ None \notin CpuLimits

ASSUME TdpAssumption ==
    /\ Tdp \subseteq Int
    /\ \A t \in Tdp : Fast(t) \in Int /\ Slow(t) \in Int
    /\ TdpMin \in Int /\ TdpMax \in Int

VARIABLES
    lockFile,   \* the lock file exists
    owner,      \* the process that holds the lock, or None
    limits,     \* the limits in force
    pc,         \* per process: where it is; "gone" without a process
    job,        \* per process: what it was asked for
    child,      \* per process: the limits its ryzenadj is setting, or None
    orphans,    \* the limits that ryzenadjs without a parent are setting
    left,       \* history: a process that held the lock was killed or
                \* failed, or an orphan acted, since the default limits were set
    stray       \* history: an orphan acted since a ryzenadj succeeded

vars == <<lockFile, owner, limits, pc, job, child, orphans, left, stray>>

-----------------------------------------------------------------------------
(* LimitProfile *)

\* limit_scale: the conversion of a negative number to unsigned.
Scale(n) == n % UIntMod

\* The three limits of every profile.  tctl_temp, which goes the same way when a
\* profile is applied and is not given with a TDP, is left out.
Scaled(l) == [stapm |-> Scale(l.stapm), fast |-> Scale(l.fast), slow |-> Scale(l.slow)]

DefaultLimits == Scaled(Limits(Default))

\* The members of a profile that nothing has been assigned to: -1 W each.
Unset == [stapm |-> -1000, fast |-> -1000, slow |-> -1000]

BoundsCheck(n) == TdpMin <= n /\ n <= TdpMax

\* fromTDP throws unless all three are in bounds ...
TdpAccepted(t) == BoundsCheck(t) /\ BoundsCheck(Fast(t)) /\ BoundsCheck(Slow(t))

\* ... and then leaves the members of the profile as they are.
FromTdp(t) == Unset

Jobs ==
    [kind: {"init"}, tdp: {0}, target: {DefaultLimits}]
    \cup [kind: {"profile"}, tdp: {0}, target: {Scaled(Limits(q)) : q \in Profile}]
    \cup UNION {[kind: {"tdp"}, tdp: {t}, target: {Scaled(FromTdp(t))}] :
                   t \in {u \in Tdp : TdpAccepted(u)}}

\* Where the process holds the lock.
Locked == {"locked", "applying", "applied", "halfway", "handled", "paused",
           "restoring", "unlocking"}

-----------------------------------------------------------------------------
(* main *)

Init ==
    /\ lockFile = FALSE
    /\ owner = None
    /\ limits = BootLimits
    /\ pc = [p \in Process |-> "gone"]
    /\ job \in [Process -> {[kind |-> "init", tdp |-> 0, target |-> DefaultLimits]}]
    /\ child = [p \in Process |-> None]
    /\ orphans = {}
    /\ left = TRUE
    /\ stray = FALSE

Goto(p, label) == pc' = [pc EXCEPT ![p] = label]

\* Arguments and configuration are fine; --init creates the lock file.
Start(p, j) ==
    /\ pc[p] = "gone"
    /\ Goto(p, "ready")
    /\ job' = [job EXCEPT ![p] = j]
    /\ lockFile' = (lockFile \/ j.kind = "init")
    /\ UNCHANGED <<owner, limits, child, orphans, left, stray>>

\* Mutant: the lock is not taken by --init.
InitUnlockedMutant(p) ==
    /\ pc[p] = "ready"
    /\ IF lockFile /\ (owner = None \/ job[p].kind = "init")
       THEN owner' = p /\ Goto(p, "locked")
       ELSE Goto(p, "gone") /\ UNCHANGED owner
    /\ UNCHANGED <<lockFile, limits, job, child, orphans, left, stray>>

\* The constructor of file_lock throws if there is no lock file, and main if
\* the lock is taken.
TryLock(p) ==
    /\ pc[p] = "ready"
    /\ IF lockFile /\ owner = None
       THEN owner' = p /\ Goto(p, "locked")
       ELSE Goto(p, "gone") /\ UNCHANGED owner
    /\ UNCHANGED <<lockFile, limits, job, child, orphans, left, stray>>

\* apply(): ryzenadj is started for the profile asked for ...
StartApply(p) ==
    /\ pc[p] = "locked"
    /\ Goto(p, "applying")
    /\ child' = [child EXCEPT ![p] = job[p].target]
    /\ UNCHANGED <<lockFile, owner, limits, job, orphans, left, stray>>

\* Mutant: main does not wait for the ryzenadj that restores the default.
NotWaitedMutant(p) ==
    /\ pc[p] \in {"applying", "restoring"}
    /\ \/ /\ limits' = child[p]
          /\ child' = [child EXCEPT ![p] = None]
          /\ left' = (left /\ child[p] # DefaultLimits)
          /\ stray' = FALSE
       \/ /\ pc[p] = "restoring"
          /\ left' = FALSE
          /\ UNCHANGED <<limits, child, stray>>
    /\ Goto(p, IF pc[p] = "restoring" \/ job[p].kind = "init" THEN "unlocking" ELSE "applied")
    /\ UNCHANGED <<lockFile, owner, job, orphans>>

\* Mutant: a restored process prepares to sleep again.
SleepAgainMutant(p) ==
    /\ pc[p] \in {"applying", "restoring"}
    /\ limits' = child[p]
    /\ child' = [child EXCEPT ![p] = None]
    /\ left' = (left /\ child[p] # DefaultLimits)
    /\ stray' = FALSE
    /\ Goto(p, IF job[p].kind = "init" THEN "unlocking" ELSE "applied")
    /\ UNCHANGED <<lockFile, owner, job, orphans>>

\* ... and waited for.  --init goes on to the end; so does the restore.
ApplyDone(p) ==
    /\ pc[p] \in {"applying", "restoring"}
    /\ limits' = child[p]
    /\ child' = [child EXCEPT ![p] = None]
    /\ left' = (left /\ child[p] # DefaultLimits)
    /\ stray' = FALSE
    /\ Goto(p, IF pc[p] = "restoring" \/ job[p].kind = "init" THEN "unlocking" ELSE "applied")
    /\ UNCHANGED <<lockFile, owner, job, orphans>>

\* What is in force when a ryzenadj for l ends early.
Partly(l) == [stapm: {limits.stapm, l.stapm}, fast: {limits.fast, l.fast},
              slow: {limits.slow, l.slow}]

\* The process ends with the lock or on its way to it.
End(p) ==
    /\ Goto(p, "gone")
    /\ owner' = IF owner = p THEN None ELSE owner
    /\ child' = [child EXCEPT ![p] = None]
    /\ left' = (left \/ pc[p] \in Locked)
    /\ UNCHANGED <<lockFile, job>>

\* Mutant: the exit code of ryzenadj is not looked at.
IgnoredFailureMutant(p) ==
    /\ pc[p] \in {"applying", "restoring"}
    /\ limits' \in Partly(child[p])
    /\ child' = [child EXCEPT ![p] = None]
    /\ Goto(p, IF pc[p] = "restoring" \/ job[p].kind = "init" THEN "unlocking" ELSE "applied")
    /\ UNCHANGED <<lockFile, owner, job, orphans, left, stray>>

\* ryzenadj fails: apply() throws, and nobody catches it.
ApplyFails(p) ==
    /\ pc[p] \in {"applying", "restoring"}
    /\ limits' \in Partly(child[p])
    /\ End(p)
    /\ UNCHANGED <<orphans, stray>>

\* signal(SIGINT), signal(SIGTERM), pause()
InstallHandlers(p) ==
    /\ \/ pc[p] = "applied" /\ Goto(p, "halfway")
       \/ pc[p] = "halfway" /\ Goto(p, "handled")
       \/ pc[p] = "handled" /\ Goto(p, "paused")
    /\ UNCHANGED <<lockFile, owner, limits, job, child, orphans, left, stray>>

\* Mutant: the lock is released before the default limits are restored.
EarlyUnlockMutant(p) ==
    /\ pc[p] = "paused"
    /\ Goto(p, "restoring")
    /\ owner' = None
    /\ child' = [child EXCEPT ![p] = DefaultLimits]
    /\ UNCHANGED <<lockFile, limits, job, orphans, left, stray>>

\* A signal wakes pause(): ryzenadj is started for the default limits.
Wake(p) ==
    /\ pc[p] = "paused"
    /\ Goto(p, "restoring")
    /\ child' = [child EXCEPT ![p] = DefaultLimits]
    /\ UNCHANGED <<lockFile, owner, limits, job, orphans, left, stray>>

\* unlock() and the end of main.
Unlock(p) ==
    /\ pc[p] = "unlocking"
    /\ Goto(p, "gone")
    /\ owner' = None
    /\ UNCHANGED <<lockFile, limits, job, child, orphans, left, stray>>

-----------------------------------------------------------------------------
(* Signals and the outside *)

\* SIGKILL, or SIGINT or SIGTERM before its handler is installed (SIGINT's is
\* the first); ryzenadj dies too, or becomes an orphan.
Killed(p) ==
    /\ pc[p] # "gone"
    /\ End(p)
    /\ \/ limits' = limits /\ orphans' = orphans
       \/ /\ child[p] # None
          /\ limits' = limits /\ orphans' = orphans \cup {child[p]}
       \/ /\ child[p] # None
          /\ limits' \in Partly(child[p]) /\ orphans' = orphans
    /\ UNCHANGED stray

\* A signal that the handlers take before pause() is lost: nothing remembers
\* it.  One that reaches the ryzenadj of a restoring process makes it fail.
\* (Neither is an action: the first changes nothing, the second is ApplyFails.)

\* A ryzenadj without a parent ends.
OrphanActs ==
    \E l \in orphans :
        /\ orphans' = orphans \ {l}
        /\ limits' \in Partly(l)
        /\ left' = TRUE
        /\ stray' = TRUE
        /\ UNCHANGED <<lockFile, owner, pc, job, child>>

\* The machine restarts: /run is empty, and the firmware sets the limits.
Reboot ==
    /\ lockFile
    /\ lockFile' = FALSE
    /\ owner' = None
    /\ limits' = BootLimits
    /\ pc' = [p \in Process |-> "gone"]
    /\ child' = [p \in Process |-> None]
    /\ orphans' = {}
    /\ left' = TRUE
    /\ stray' = FALSE
    /\ UNCHANGED job

Main(p) == TryLock(p) \/ StartApply(p) \/ ApplyDone(p) \/ ApplyFails(p)
           \/ InstallHandlers(p) \/ Unlock(p)

Next ==
    \/ \E p \in Process :
         \/ \E j \in Jobs : Start(p, j)
         \/ Main(p)
         \/ Wake(p) \/ Killed(p)
    \/ OrphanActs
    \/ Reboot

Spec == Init /\ [][Next]_vars

\* A process that does not wait for a signal goes on, and ryzenadj ends.
FairSpec == Spec /\ \A p \in Process : WF_vars(Main(p))

-----------------------------------------------------------------------------
(* Properties *)

\* Every variable keeps its type; a child is running exactly while its parent
\* waits for it.
TypeOK ==
    /\ lockFile \in BOOLEAN
    /\ owner \in Process \cup {None}
    /\ limits \in CpuLimits
    /\ pc \in [Process -> {"gone", "ready"} \cup Locked]
    /\ job \in [Process -> Jobs]
    /\ child \in [Process -> CpuLimits \cup {None}]
    /\ orphans \in SUBSET CpuLimits
    /\ left \in BOOLEAN
    /\ stray \in BOOLEAN

\* No two ryzenadjs with a parent run at the same time, and only the process
\* with the lock has one: limits are not set half by one and half by another.
OneAdjuster ==
    \A p \in Process : child[p] # None => owner = p /\ pc[p] \in {"applying", "restoring"}

\* While a process sleeps with a profile, the limits are this profile's: no
\* other process, --init included, has set others.
ProfileInForce ==
    \A p \in Process :
        pc[p] \in {"applied", "halfway", "handled", "paused"} /\ ~stray =>
            limits = job[p].target

\* When nobody holds the lock, the default limits are in force, unless the
\* last process to hold it was killed or its ryzenadj failed.
LimitsRestored == owner = None /\ ~left => limits = DefaultLimits

\* A process with the lock ends, and frees it for the next one, if signals keep
\* coming: one that comes between the handlers and pause() is lost, and only a
\* later one wakes it.
SignalledEnds ==
    \A p \in Process : SF_vars(Wake(p)) => (pc[p] \in Locked ~> pc[p] = "gone")

-----------------------------------------------------------------------------
(* The abstract specification *)

\* How far the process with the lock is with the limits.
LeaseStage ==
    IF owner = None THEN "free"
    ELSE IF pc[owner] \in {"locked", "applying"} THEN "taken"
    ELSE IF pc[owner] = "unlocking" THEN "returned"
    ELSE "lent"

Target == {j.target : j \in Jobs}

Lease == INSTANCE LimitLease
            WITH holder <- owner, stage <- LeaseStage, loose <- orphans,
                 intact <- ~left, Default <- DefaultLimits

\* cpu_powerlimit lends the limits to one process at a time.  A run that ends
\* in order sets what was asked for once and the default at its end, whole,
\* before the next can take them; even failures, kills and orphans set nothing
\* but parts of what some process asked for, and nothing after the restore.
ImplementsLease == Lease!Spec

\* "Use a numeric TDP value (in W) to set the CPU powerlimit": the limits are
\* those of the TDP.
TdpInForce ==
    \A p \in Process :
        pc[p] = "paused" /\ job[p].kind = "tdp" /\ ~stray =>
            limits = Scaled([stapm |-> job[p].tdp, fast |-> Fast(job[p].tdp),
                             slow |-> Slow(job[p].tdp)])

=============================================================================
