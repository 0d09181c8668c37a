------------------------ MODULE CpuPowerlimit_proofs ------------------------
(***************************************************************************)
(* Proofs about CpuPowerlimit, for any number of processes and every       *)
(* configuration.                                                          *)
(***************************************************************************)
EXTENDS CpuPowerlimit, TLAPS

\* The process that holds the lock is the one that is past it.
LockInv == \A p \in Process : pc[p] \in Locked <=> owner = p

\* Which limits a ryzenadj sets, and who waits for one.
ChildInv ==
    \A p \in Process :
        /\ pc[p] = "applying" => child[p] = job[p].target
        /\ pc[p] = "restoring" => child[p] = DefaultLimits
        /\ pc[p] \notin {"applying", "restoring"} => child[p] = None

\* Only --init goes to the end without sleeping, and its limits are the default.
InitInv ==
    \A p \in Process :
        /\ job[p].kind = "init" => job[p].target = DefaultLimits
        /\ pc[p] \in {"applied", "halfway", "handled", "paused"} => job[p].kind # "init"

\* A process about to unlock leaves the default limits.
LeaveInv == \A p \in Process : pc[p] = "unlocking" /\ ~left => limits = DefaultLimits

IInv ==
    /\ TypeOK
    /\ LockInv
    /\ ChildInv
    /\ InitInv
    /\ LeaveInv
    /\ ProfileInForce
    /\ LimitsRestored

-----------------------------------------------------------------------------
(* Limits *)

\* A scaled profile is made of unsigned numbers.
LEMMA ScaledType ==
    ASSUME NEW l \in [stapm: Int, fast: Int, slow: Int]
    PROVE  Scaled(l) \in CpuLimits
<1>1. \A n \in Int : Scale(n) \in Nat
  BY ProfileAssumption DEF Scale
<1> QED BY <1>1 DEF Scaled, CpuLimits

\* So are the default limits and what every job asks for.
LEMMA JobTypes ==
    /\ DefaultLimits \in CpuLimits
    /\ \A j \in Jobs : j.target \in CpuLimits
    /\ \A j \in Jobs : j.kind = "init" => j.target = DefaultLimits
<1>1. \A q \in Profile : Scaled(Limits(q)) \in CpuLimits
  BY ScaledType, ProfileAssumption
<1>2. DefaultLimits \in CpuLimits
  BY <1>1, ProfileAssumption DEF DefaultLimits
<1>3. Unset \in [stapm: Int, fast: Int, slow: Int]
  BY DEF Unset
<1>4. \A t : Scaled(FromTdp(t)) \in CpuLimits
  BY <1>3, ScaledType DEF FromTdp
<1>5. ASSUME NEW j \in Jobs
      PROVE  j.target \in CpuLimits /\ (j.kind = "init" => j.target = DefaultLimits)
  BY <1>1, <1>2, <1>4 DEF Jobs
<1> QED BY <1>2, <1>5

\* What a ryzenadj leaves that ends early are limits.
LEMMA PartlyType ==
    ASSUME limits \in CpuLimits, NEW l \in CpuLimits, NEW m \in Partly(l)
    PROVE  m \in CpuLimits
BY DEF Partly, CpuLimits

-----------------------------------------------------------------------------
(* The initial states, and what one step of main does *)

\* Nobody runs, and nothing is set yet.
LEMMA InitIInv == Init => IInv
<1> SUFFICES ASSUME Init PROVE IInv
  OBVIOUS
<1>1. [kind |-> "init", tdp |-> 0, target |-> DefaultLimits] \in Jobs
  BY DEF Jobs
<1>2. TypeOK
  BY <1>1, ProfileAssumption DEF Init, TypeOK
<1>3. \A p \in Process : job[p] = [kind |-> "init", tdp |-> 0, target |-> DefaultLimits]
  BY DEF Init
<1>4. LockInv /\ ChildInv /\ InitInv /\ LeaveInv /\ ProfileInForce /\ LimitsRestored
  BY <1>3, ProfileAssumption
     DEF Init, LockInv, ChildInv, InitInv, LeaveInv, ProfileInForce, LimitsRestored, Locked
<1> QED BY <1>2, <1>4 DEF IInv

\* Starting and taking the lock change no limits.
LEMMA BeginSteps ==
    ASSUME IInv, NEW p \in Process, (\E j \in Jobs : Start(p, j)) \/ TryLock(p)
    PROVE  IInv'
<1> USE DEF Goto, Locked
<1>1. CASE \E j \in Jobs : Start(p, j)
  <2>1. PICK j \in Jobs : Start(p, j)
    BY <1>1
  <2>2. TypeOK'
    BY <2>1 DEF Start, IInv, TypeOK
  <2>3. LockInv' /\ ChildInv' /\ LeaveInv' /\ ProfileInForce' /\ LimitsRestored'
    BY <2>1 DEF Start, IInv, TypeOK, LockInv, ChildInv, LeaveInv, ProfileInForce, LimitsRestored
  <2>4. InitInv'
    BY <2>1, JobTypes DEF Start, IInv, TypeOK, InitInv
  <2> QED BY <2>2, <2>3, <2>4 DEF IInv
<1>2. CASE TryLock(p)
  <2>1. TypeOK'
    BY <1>2 DEF TryLock, IInv, TypeOK
  <2>2. LockInv'
    BY <1>2, ProfileAssumption DEF TryLock, IInv, TypeOK, LockInv
  <2>3. ChildInv' /\ LeaveInv' /\ ProfileInForce' /\ InitInv'
    BY <1>2 DEF TryLock, IInv, TypeOK, ChildInv, LeaveInv, ProfileInForce, InitInv
  <2>4. LimitsRestored'
    BY <1>2, ProfileAssumption DEF TryLock, IInv, LimitsRestored
  <2> QED BY <2>1, <2>2, <2>3, <2>4 DEF IInv
<1> QED BY <1>1, <1>2

\* Steps of the process with the lock that leave the limits alone.
LEMMA HolderSteps ==
    ASSUME IInv, NEW p \in Process, StartApply(p) \/ InstallHandlers(p) \/ Wake(p)
    PROVE  IInv'
<1> USE DEF Goto, Locked
<1>1. owner = p /\ pc[p] \in {"locked", "applied", "halfway", "handled", "paused"}
  BY DEF StartApply, InstallHandlers, Wake, IInv, LockInv
<1>2. DefaultLimits \in CpuLimits /\ job[p].target \in CpuLimits
  BY JobTypes DEF IInv, TypeOK
<1>3. TypeOK'
  BY <1>1, <1>2 DEF StartApply, InstallHandlers, Wake, IInv, TypeOK
<1>4. LockInv' /\ LeaveInv' /\ LimitsRestored'
  BY <1>1 DEF StartApply, InstallHandlers, Wake, IInv, TypeOK, LockInv, LeaveInv, LimitsRestored
<1>5. ChildInv' /\ InitInv'
  BY <1>1 DEF StartApply, InstallHandlers, Wake, IInv, TypeOK, ChildInv, InitInv
<1>6. ProfileInForce'
  BY <1>1 DEF StartApply, InstallHandlers, Wake, IInv, TypeOK, ProfileInForce
<1> QED BY <1>3, <1>4, <1>5, <1>6 DEF IInv

\* A ryzenadj that is waited for: nobody else is past the lock, so nobody else
\* relies on the limits.
LEMMA ApplyDoneStep ==
    ASSUME IInv, NEW p \in Process, ApplyDone(p)
    PROVE  IInv'
<1> USE DEF Goto, Locked
<1>1. owner = p /\ \A q \in Process \ {p} : pc[q] \notin Locked
  BY DEF ApplyDone, IInv, LockInv
<1>2. /\ child[p] = IF pc[p] = "restoring" THEN DefaultLimits ELSE job[p].target
      /\ child[p] \in CpuLimits
  BY JobTypes DEF ApplyDone, IInv, ChildInv, TypeOK
<1>3. TypeOK'
  BY <1>2 DEF ApplyDone, IInv, TypeOK
<1>4. LockInv' /\ ChildInv' /\ InitInv'
  BY <1>1 DEF ApplyDone, IInv, TypeOK, LockInv, ChildInv, InitInv
<1>5. LeaveInv'
  <2> SUFFICES ASSUME NEW q \in Process, pc'[q] = "unlocking"
               PROVE  limits' = DefaultLimits
    BY DEF LeaveInv
  <2>1. q = p
    BY <1>1 DEF ApplyDone, IInv, TypeOK
  <2>2. pc[p] = "restoring" \/ job[p].kind = "init"
    BY <2>1 DEF ApplyDone, IInv, TypeOK
  <2> QED BY <1>2, <2>2 DEF ApplyDone, IInv, InitInv
<1>6. ProfileInForce' /\ LimitsRestored'
  BY <1>1, <1>2, ProfileAssumption
     DEF ApplyDone, IInv, TypeOK, ProfileInForce, LimitsRestored
<1> QED BY <1>3, <1>4, <1>5, <1>6 DEF IInv

-----------------------------------------------------------------------------
(* How processes end *)

\* A process that ends by a failure or by a signal.  If it had the lock, the
\* limits it leaves are not relied upon.
LEMMA EndEffect ==
    ASSUME IInv, NEW p \in Process, End(p), limits' \in CpuLimits,
           limits' # limits => owner = p,
           orphans' \in SUBSET CpuLimits, UNCHANGED stray
    PROVE  IInv'
<1> USE DEF Goto, Locked
<1>1. TypeOK'
  BY DEF End, IInv, TypeOK
<1>2. LockInv' /\ ChildInv' /\ InitInv'
  BY ProfileAssumption DEF End, IInv, TypeOK, LockInv, ChildInv, InitInv
<1>3. CASE pc[p] \in Locked
  <2>1. owner = p /\ left' = TRUE /\ \A q \in Process \ {p} : pc[q] \notin Locked
    BY <1>3 DEF End, IInv, LockInv, TypeOK
  <2>2. \A q \in Process : pc'[q] \notin Locked
    BY <2>1 DEF End, IInv, TypeOK
  <2>3. LeaveInv' /\ ProfileInForce' /\ LimitsRestored'
    BY <2>1, <2>2 DEF LeaveInv, ProfileInForce, LimitsRestored
  <2> QED BY <1>1, <1>2, <2>3 DEF IInv
<1>4. CASE pc[p] \notin Locked
  <2>1. owner # p /\ limits' = limits /\ left' = left /\ owner' = owner
    BY <1>4 DEF End, IInv, LockInv, TypeOK
  <2>2. LeaveInv' /\ ProfileInForce' /\ LimitsRestored'
    BY <2>1 DEF End, IInv, TypeOK, LeaveInv, ProfileInForce, LimitsRestored
  <2> QED BY <1>1, <1>2, <2>2 DEF IInv
<1> QED BY <1>3, <1>4

\* Failing, being killed, and unlocking.
LEMMA EndSteps ==
    ASSUME IInv, NEW p \in Process, ApplyFails(p) \/ Killed(p) \/ Unlock(p)
    PROVE  IInv'
<1> USE DEF Locked
<1>1. child[p] # None => owner = p /\ child[p] \in CpuLimits
  BY DEF IInv, TypeOK, ChildInv, LockInv
<1>2. CASE ApplyFails(p)
  <2>1. child[p] # None /\ limits \in CpuLimits
    BY <1>2, JobTypes, ProfileAssumption DEF ApplyFails, IInv, ChildInv, TypeOK
  <2> QED BY <1>1, <1>2, <2>1, PartlyType, EndEffect DEF ApplyFails, IInv, TypeOK
<1>3. CASE Killed(p)
  BY <1>1, <1>3, PartlyType, EndEffect DEF Killed, IInv, TypeOK
<1>4. CASE Unlock(p)
  <2>1. owner = p /\ \A q \in Process \ {p} : pc[q] \notin Locked
    BY <1>4 DEF Unlock, IInv, LockInv
  <2>2. TypeOK'
    BY <1>4 DEF Unlock, Goto, IInv, TypeOK
  <2>3. LockInv'
    BY <1>4, <2>1, ProfileAssumption DEF Unlock, Goto, IInv, TypeOK, LockInv
  <2>4. ChildInv' /\ InitInv' /\ LeaveInv' /\ ProfileInForce' /\ LimitsRestored'
    BY <1>4 DEF Unlock, Goto, IInv, TypeOK, ChildInv, InitInv, LeaveInv, ProfileInForce, LimitsRestored
  <2> QED BY <2>2, <2>3, <2>4 DEF IInv
<1> QED BY <1>2, <1>3, <1>4

\* Orphans and reboots, after which nothing is relied upon.
LEMMA OutsideSteps ==
    ASSUME IInv, OrphanActs \/ Reboot
    PROVE  IInv'
<1>1. CASE OrphanActs
  <2>1. PICK l \in orphans : limits' \in Partly(l) /\ orphans' = orphans \ {l}
    BY <1>1 DEF OrphanActs
  <2>2. limits' \in CpuLimits
    BY <2>1, PartlyType DEF IInv, TypeOK
  <2>3. TypeOK'
    BY <1>1, <2>1, <2>2 DEF OrphanActs, IInv, TypeOK
  <2>4. LockInv' /\ ChildInv' /\ InitInv' /\ LeaveInv' /\ ProfileInForce' /\ LimitsRestored'
    BY <1>1 DEF OrphanActs, IInv, LockInv, ChildInv, InitInv, LeaveInv, ProfileInForce, LimitsRestored
  <2> QED BY <2>3, <2>4 DEF IInv
<1>2. CASE Reboot
  <2>1. TypeOK'
    BY <1>2, ProfileAssumption DEF Reboot, IInv, TypeOK
  <2>2. LockInv' /\ ChildInv' /\ InitInv' /\ LeaveInv' /\ ProfileInForce' /\ LimitsRestored'
    BY <1>2, ProfileAssumption
       DEF Reboot, IInv, LockInv, ChildInv, InitInv, LeaveInv, ProfileInForce, LimitsRestored, Locked
  <2> QED BY <2>1, <2>2 DEF IInv
<1> QED BY <1>1, <1>2

-----------------------------------------------------------------------------
(* The theorems *)

\* The invariant is inductive.
LEMMA NextIInv == IInv /\ [Next]_vars => IInv'
<1> SUFFICES ASSUME IInv, [Next]_vars PROVE IInv'
  OBVIOUS
<1>1. CASE UNCHANGED vars
  BY <1>1 DEF vars, IInv, TypeOK, LockInv, ChildInv, InitInv, LeaveInv,
              ProfileInForce, LimitsRestored
<1>2. CASE Next
  BY <1>2, BeginSteps, HolderSteps, ApplyDoneStep, EndSteps, OutsideSteps DEF Next, Main
<1> QED BY <1>1, <1>2

\* The invariant holds in every reachable state.
THEOREM Invariance == Spec => []IInv
BY InitIInv, NextIInv, PTL DEF Spec

\* Limits and processes keep their types.
THEOREM TypeCorrect == Spec => []TypeOK
<1>1. IInv => TypeOK
  BY DEF IInv
<1> QED BY <1>1, Invariance, PTL

\* Only the holder of the lock has a ryzenadj running, and waits for it.
THEOREM OneAdjusterTheorem == Spec => []OneAdjuster
<1>1. IInv => OneAdjuster
  BY DEF IInv, OneAdjuster, LockInv, ChildInv, Locked
<1> QED BY <1>1, Invariance, PTL

\* While a process sleeps with a profile, the limits are this profile's.
THEOREM ProfileTheorem == Spec => []ProfileInForce
<1>1. IInv => ProfileInForce
  BY DEF IInv
<1> QED BY <1>1, Invariance, PTL

\* A free lock means default limits, unless a process failed or was killed.
THEOREM RestoredTheorem == Spec => []LimitsRestored
<1>1. IInv => LimitsRestored
  BY DEF IInv
<1> QED BY <1>1, Invariance, PTL

-----------------------------------------------------------------------------
(* The refinement of LimitLease *)

\* Without a parent, too, a ryzenadj sets what some process asked for.
OrphanInv == orphans \subseteq Target

\* So does one that is waited for, the default included.
LEMMA Targets ==
    ASSUME IInv, NEW p \in Process
    PROVE  /\ DefaultLimits \in Target
           /\ job[p].target \in Target
           /\ child[p] # None => child[p] \in Target /\ owner = p
<1>1. \E j \in Jobs : j.target = DefaultLimits
  <2> DEFINE j == [kind |-> "init", tdp |-> 0, target |-> DefaultLimits]
  <2>1. j \in Jobs
    BY DEF Jobs
  <2> QED BY <2>1
<1>2. DefaultLimits \in Target /\ job[p].target \in Target
  BY <1>1 DEF Target, IInv, TypeOK
<1> QED BY <1>2 DEF IInv, ChildInv, LockInv, Locked

\* Only a kill makes an orphan, of the ryzenadj that was waited for.
LEMMA OrphanStep == IInv /\ OrphanInv /\ [Next]_vars => OrphanInv'
<1> SUFFICES ASSUME IInv, OrphanInv, [Next]_vars PROVE orphans' \subseteq orphans \cup Target
  BY DEF OrphanInv, Target, Jobs
<1>1. CASE UNCHANGED vars
  BY <1>1 DEF vars
<1>2. ASSUME NEW p \in Process, Killed(p) PROVE orphans' \subseteq orphans \cup Target
  BY <1>2, Targets DEF Killed
<1>3. ASSUME NEW p \in Process, Main(p) \/ Wake(p) \/ (\E j \in Jobs : Start(p, j))
      PROVE  orphans' = orphans
  BY <1>3 DEF Main, TryLock, StartApply, ApplyDone, ApplyFails, InstallHandlers, Unlock, Wake, Start
<1>4. CASE OrphanActs \/ Reboot
  BY <1>4 DEF OrphanActs, Reboot
<1> QED BY <1>1, <1>2, <1>3, <1>4 DEF Next

\* The stage of the lease is that of the process with the lock.
LEMMA Stages ==
    ASSUME IInv, NEW p \in Process
    PROVE  /\ owner = None => LeaseStage = "free"
           /\ pc[p] \in Locked => owner = p
           /\ pc[p] \in {"locked", "applying"} => LeaseStage = "taken"
           /\ pc[p] \in {"applied", "halfway", "handled", "paused", "restoring"} =>
                LeaseStage = "lent"
           /\ pc[p] = "unlocking" => LeaseStage = "returned"
BY ProfileAssumption DEF IInv, LockInv, LeaseStage, Locked

\* Before anybody runs, the limits are the firmware's.
LEMMA InitRefines == Init => Lease!Init
BY DEF Init, Lease!Init, LeaseStage

\* Steps that the lease does not see.
LEMMA HiddenSteps ==
    ASSUME IInv, IInv', NEW p \in Process,
           (\E j \in Jobs : Start(p, j)) \/ StartApply(p) \/ InstallHandlers(p) \/ Wake(p)
    PROVE  UNCHANGED Lease!vars
<1>1. UNCHANGED <<owner, limits, orphans, left>>
  BY DEF Start, StartApply, InstallHandlers, Wake
<1>2. LeaseStage' = LeaseStage
  <2>1. CASE pc[p] = "gone"
    <3>1. owner # p /\ pc' = [pc EXCEPT ![p] = "ready"]
      BY <2>1 DEF Start, StartApply, InstallHandlers, Wake, Goto, IInv, LockInv, Locked
    <3>2. owner = None \/ pc'[owner] = pc[owner]
      BY <3>1 DEF IInv, TypeOK
    <3> QED BY <1>1, <3>2 DEF LeaseStage
  <2>2. CASE pc[p] # "gone"
    <3>1. \/ pc[p] = "locked" /\ pc'[p] = "applying"
          \/ pc[p] \in {"applied", "halfway", "handled", "paused"}
             /\ pc'[p] \in {"halfway", "handled", "paused", "restoring"}
      BY <2>2 DEF Start, StartApply, InstallHandlers, Wake, Goto, IInv, TypeOK
    <3>2. owner = p /\ owner' = p
      BY <1>1, <3>1, Stages DEF Locked
    <3> QED BY <3>1, <3>2, ProfileAssumption DEF LeaseStage
  <2> QED BY <2>1, <2>2
<1> QED BY <1>1, <1>2 DEF Lease!vars

\* Taking the lock, and giving it back at the end.
LEMMA LockRefines ==
    ASSUME IInv, NEW p \in Process, TryLock(p) \/ Unlock(p)
    PROVE  Lease!Take(p) \/ Lease!Give(p) \/ UNCHANGED Lease!vars
<1>1. CASE TryLock(p) /\ lockFile /\ owner = None
  <2>1. owner' = p /\ pc'[p] = "locked"
    BY <1>1 DEF TryLock, Goto, IInv, TypeOK
  <2>2. LeaseStage' = "taken"
    BY <2>1, ProfileAssumption DEF LeaseStage
  <2> QED BY <1>1, <2>1, <2>2 DEF TryLock, Lease!Take
<1>2. CASE TryLock(p) /\ ~(lockFile /\ owner = None)
  <2>1. owner # p /\ pc' = [pc EXCEPT ![p] = "gone"] /\ UNCHANGED <<owner, limits, orphans, left>>
    BY <1>2 DEF TryLock, Goto, IInv, LockInv, Locked
  <2>2. LeaseStage' = LeaseStage
    BY <2>1 DEF LeaseStage, IInv, TypeOK
  <2> QED BY <2>1, <2>2 DEF Lease!vars
<1>3. CASE Unlock(p)
  <2>1. owner = p /\ LeaseStage = "returned"
    BY <1>3, Stages DEF Unlock, Locked
  <2>2. owner' = None /\ LeaseStage' = "free"
    BY <1>3 DEF Unlock, LeaseStage
  <2> QED BY <1>3, <2>1, <2>2 DEF Unlock, Lease!Give
<1> QED BY <1>1, <1>2, <1>3

\* A ryzenadj that succeeds: the limits are lent, or the default is restored.
LEMMA ApplyRefines ==
    ASSUME IInv, NEW p \in Process, ApplyDone(p)
    PROVE  Lease!Return(p) \/ \E t \in Target : Lease!Lend(p, t)
<1> USE DEF Goto
<1>1. owner = p /\ owner' = p /\ LeaseStage \in {"taken", "lent"}
  BY Stages DEF ApplyDone, Locked
<1>2. limits' = child[p] /\ UNCHANGED orphans /\ left' = (left /\ limits' # DefaultLimits)
  BY DEF ApplyDone
<1>3. CASE pc[p] = "restoring" \/ job[p].kind = "init"
  <2>1. limits' = DefaultLimits
    BY <1>2, <1>3 DEF ApplyDone, IInv, ChildInv, InitInv
  <2>2. LeaseStage' = "returned"
    BY <1>1, <1>3, ProfileAssumption DEF ApplyDone, LeaseStage, IInv, TypeOK
  <2> QED BY <1>1, <1>2, <2>1, <2>2 DEF Lease!Return
<1>4. CASE ~(pc[p] = "restoring" \/ job[p].kind = "init")
  <2>1. pc[p] = "applying" /\ LeaseStage = "taken" /\ child[p] \in Target
    BY <1>4, Stages, Targets DEF ApplyDone, IInv, ChildInv
  <2>2. LeaseStage' = "lent"
    BY <1>1, <1>4, ProfileAssumption DEF ApplyDone, LeaseStage, IInv, TypeOK
  <2>3. Lease!Lend(p, child[p])
    BY <1>1, <1>2, <2>1, <2>2 DEF Lease!Lend
  <2> QED BY <2>1, <2>3
<1> QED BY <1>3, <1>4

\* A process that fails or is killed breaks off, if it had the lock.
LEMMA EndRefines ==
    ASSUME IInv, NEW p \in Process, ApplyFails(p) \/ Killed(p)
    PROVE  Lease!Break(p) \/ UNCHANGED Lease!vars
<1>1. End(p) /\ pc' = [pc EXCEPT ![p] = "gone"]
  BY DEF ApplyFails, Killed, End, Goto
<1>2. \/ UNCHANGED <<limits, orphans>>
      \/ /\ pc[p] \in {"applying", "restoring"}
         /\ child[p] \in Target
         /\ \/ limits' \in Partly(child[p]) /\ UNCHANGED orphans
            \/ orphans' = orphans \cup {child[p]} /\ UNCHANGED limits
  <2>1. child[p] # None => pc[p] \in {"applying", "restoring"}
    BY DEF IInv, ChildInv
  <2>2. CASE ApplyFails(p)
    <3>1. child[p] \in Target
      BY <2>2, Targets DEF ApplyFails, IInv, ChildInv
    <3> QED BY <2>2, <3>1 DEF ApplyFails
  <2>3. CASE Killed(p)
    BY <2>1, <2>3, Targets DEF Killed
  <2> QED BY <2>2, <2>3
<1>3. CASE pc[p] \in Locked
  <2>1. owner = p /\ owner' = None /\ left' = TRUE /\ LeaseStage' = "free"
    BY <1>1, <1>3, Stages DEF End, LeaseStage
  <2>2. pc[p] \in {"applying", "restoring"} => LeaseStage # "returned"
    BY Stages
  <2>3. \A t : Partly(t) = Lease!Mixed(t)
    BY DEF Partly, Lease!Mixed
  <2> QED BY <1>2, <2>1, <2>2, <2>3 DEF Lease!Break
<1>4. CASE pc[p] \notin Locked
  <2>1. owner # p /\ UNCHANGED <<owner, limits, orphans, left>>
    BY <1>1, <1>2, <1>4 DEF End, IInv, LockInv, TypeOK, Locked
  <2>2. LeaseStage' = LeaseStage
    BY <1>1, <2>1 DEF LeaseStage, IInv, TypeOK
  <2> QED BY <2>1, <2>2 DEF Lease!vars
<1> QED BY <1>3, <1>4

\* An orphan disturbs whoever holds the lock; a reboot is a restart.
LEMMA OutsideRefines ==
    ASSUME OrphanInv, OrphanActs \/ Reboot
    PROVE  Lease!Restart \/ \E t \in Target : Lease!Disturb(t)
<1>1. CASE OrphanActs
  <2>1. PICK t \in orphans : orphans' = orphans \ {t} /\ limits' \in Partly(t)
    BY <1>1 DEF OrphanActs
  <2>2. UNCHANGED <<owner, LeaseStage>> /\ left' = TRUE
    BY <1>1 DEF OrphanActs, LeaseStage
  <2>3. Lease!Disturb(t)
    BY <2>1, <2>2 DEF Lease!Disturb, Lease!Mixed, Partly
  <2> QED BY <2>1, <2>3 DEF OrphanInv
<1>2. CASE Reboot
  BY <1>2 DEF Reboot, Lease!Restart, LeaseStage
<1> QED BY <1>1, <1>2

\* Every step is a step of LimitLease or changes nothing there.
LEMMA NextRefines == IInv /\ IInv' /\ OrphanInv /\ [Next]_vars => [Lease!Next]_(Lease!vars)
<1> SUFFICES ASSUME IInv, IInv', OrphanInv, [Next]_vars
             PROVE  Lease!Next \/ UNCHANGED Lease!vars
  OBVIOUS
<1>1. CASE UNCHANGED vars
  BY <1>1 DEF vars, Lease!vars, LeaseStage
<1>2. ASSUME NEW p \in Process, (\E j \in Jobs : Start(p, j)) \/ Main(p) \/ Wake(p) \/ Killed(p)
      PROVE  Lease!Next \/ UNCHANGED Lease!vars
  <2>1. CASE (\E j \in Jobs : Start(p, j)) \/ StartApply(p) \/ InstallHandlers(p) \/ Wake(p)
    BY <2>1, HiddenSteps
  <2>2. CASE TryLock(p) \/ Unlock(p)
    BY <2>2, LockRefines DEF Lease!Next
  <2>3. CASE ApplyDone(p)
    BY <2>3, ApplyRefines DEF Lease!Next
  <2>4. CASE ApplyFails(p) \/ Killed(p)
    BY <2>4, EndRefines DEF Lease!Next
  <2> QED BY <1>2, <2>1, <2>2, <2>3, <2>4 DEF Main
<1>3. CASE OrphanActs \/ Reboot
  BY <1>3, OutsideRefines DEF Lease!Next
<1> QED BY <1>1, <1>2, <1>3 DEF Next

\* cpu_powerlimit implements LimitLease.
THEOREM Refinement == Spec => ImplementsLease
<1>1. Init => OrphanInv
  BY DEF Init, OrphanInv
<1> QED BY <1>1, InitRefines, NextRefines, OrphanStep, Invariance, PTL
        DEF Spec, ImplementsLease, Lease!Spec

-----------------------------------------------------------------------------
(* What LimitLease is good for *)

\* Limits that are intact and are not lent are the default.
LeaseInv ==
    /\ owner = None => LeaseStage = "free"
    /\ LeaseStage \in {"free", "returned"} /\ ~left => limits = DefaultLimits

\* Whatever implements LimitLease keeps the promise: a free lock means default
\* limits, unless a process broke off.
THEOREM LeasePromise == ImplementsLease => []LimitsRestored
<1>1. Lease!Init => LeaseInv
  BY DEF Lease!Init, LeaseInv
<1>2. LeaseInv /\ [Lease!Next]_(Lease!vars) => LeaseInv'
  <2> SUFFICES ASSUME LeaseInv, [Lease!Next]_(Lease!vars) PROVE LeaseInv'
    OBVIOUS
  <2>1. CASE UNCHANGED Lease!vars
    BY <2>1 DEF Lease!vars, LeaseInv
  <2>2. ASSUME NEW p \in Process,
               \/ Lease!Take(p) \/ Lease!Return(p) \/ Lease!Give(p) \/ Lease!Break(p)
               \/ \E t \in Target : Lease!Lend(p, t)
        PROVE  LeaseInv'
    BY <2>2, ProfileAssumption
       DEF Lease!Take, Lease!Return, Lease!Give, Lease!Break, Lease!Lend, LeaseInv
  <2>3. CASE Lease!Restart \/ \E t \in Target : Lease!Disturb(t)
    BY <2>3 DEF Lease!Restart, Lease!Disturb, LeaseInv
  <2> QED BY <2>1, <2>2, <2>3 DEF Lease!Next
<1>3. LeaseInv => LimitsRestored
  BY DEF LeaseInv, LimitsRestored
<1> QED BY <1>1, <1>2, <1>3, PTL DEF ImplementsLease, Lease!Spec

=============================================================================
