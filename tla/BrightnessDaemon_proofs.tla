----------------------- MODULE BrightnessDaemon_proofs -----------------------
(***************************************************************************)
(* Proofs about BrightnessDaemon, for every size of the scale, every set   *)
(* of datagrams and every length of the queue.                             *)
(***************************************************************************)
EXTENDS BrightnessDaemon, TLAPS

\* A value read for restoring is in the file no more.
RestoreInv ==
    /\ tmp # None => pc \in {"restored", "running"} /\ file = None
    /\ applied = FALSE

\* Where the level of the last orderly stop is, from the signal to the restore.
KeptInv ==
    /\ pc = "exiting" => kept = current
    /\ pc \in {"down", "opened", "listening"} /\ kept # None => file = kept
    /\ pc = "restored" /\ tmp # None /\ kept # None => tmp = kept
    /\ pc = "running" => kept = None

IInv ==
    /\ TypeOK
    /\ CacheMatchesBacklight
    /\ RestoreInv
    /\ KeptInv
    /\ StopKeepsLevel

\* The initial states satisfy the invariant.
LEMMA InitIInv == Init => IInv
<1> SUFFICES ASSUME Init PROVE IInv
  OBVIOUS
<1>1. TypeOK
  <2>1. queue \in Seq(Frame) /\ Len(queue) = 0
    BY DEF Init
  <2>2. Len(queue) <= QueueMax
    BY <2>1, FrameAssumption
  <2>3. file \in Nat \cup {None} /\ current \in Level /\ hw \in Level
    BY LevelAssumption DEF Init, Level
  <2> QED BY <2>1, <2>2, <2>3 DEF Init, TypeOK
<1>2. CacheMatchesBacklight /\ RestoreInv /\ KeptInv /\ StopKeepsLevel
  BY DEF Init, CacheMatchesBacklight, RestoreInv, KeptInv, StopKeepsLevel
<1> QED BY <1>1, <1>2 DEF IInv

-----------------------------------------------------------------------------
(* The operations *)

\* set() keeps the type, and agrees with the cache if it succeeds.
LEMMA SetLevelEffect ==
    ASSUME TypeOK, CacheMatchesBacklight, NEW v \in Nat, SetLevel(v), pc' = pc
    PROVE  /\ hw' \in Level /\ current' \in Level
           /\ blBad' \in BOOLEAN /\ foreign' \in BOOLEAN
           /\ CacheMatchesBacklight'
           /\ v <= Max /\ ~blBad' => current' = v /\ hw' = v
<1> USE LevelAssumption
<1>1. CASE SetRefused(v)
  BY <1>1 DEF SetLevel, SetRefused, TypeOK, CacheMatchesBacklight, device
<1>2. CASE ~SetRefused(v)
  <2>1. v \in Level
    BY <1>2 DEF SetRefused, Level
  <2> QED BY <1>2, <2>1 DEF SetLevel, SetRefused, TypeOK, CacheMatchesBacklight
<1> QED BY <1>1, <1>2

\* What modifyState sets is a level, whatever the addition yields.
LEMMA ClampedLevel ==
    ASSUME TypeOK, NEW d \in Int, NEW n \in IntSums(current, d)
    PROVE  Clamped(n) \in Nat
<1>1. n \in Int
  BY LevelAssumption DEF IntSums, WrapInt, TypeOK, Level
<1> QED BY <1>1, LevelAssumption DEF Clamped

\* A save keeps the type; what it stores has not been restored.
LEMMA SaveEffect ==
    ASSUME TypeOK, applied = FALSE, SaveOk \/ SaveFails
    PROVE  file' \in Nat \cup {None} /\ unsaved' \in Level \cup {None} /\ applied' = FALSE
BY LevelAssumption DEF SaveOk, SaveFails, TypeOK, Level

\* A restore keeps the type, and empties the file if it has read a value.
LEMMA RestoreEffect ==
    ASSUME TypeOK, applied = FALSE, tmp = None, ReadAndTruncate \/ DiscardPending \/ TruncateFails
    PROVE  /\ file' \in Nat \cup {None} /\ unsaved' \in Level \cup {None}
           /\ tmp' \in Nat \cup {None} /\ applied' = FALSE
           /\ tmp' # None => file' = None
BY LevelAssumption
   DEF ReadAndTruncate, DiscardPending, TruncateFails, TypeOK, Level, storage

-----------------------------------------------------------------------------
(* The event loop *)

\* Taking a frame shortens the queue.
LEMMA TakeEffect ==
    ASSUME TypeOK, NEW f \in Frame, Take(f)
    PROVE  queue' \in Seq(Frame) /\ Len(queue') <= QueueMax
<1>1. queue \in Seq(Frame) /\ queue # <<>> /\ queue' = Tail(queue)
  BY DEF Take, TypeOK
<1>2. queue' \in Seq(Frame) /\ Len(queue') = Len(queue) - 1
  BY <1>1
<1> QED BY <1>1, <1>2, FrameAssumption DEF TypeOK

\* Handling a frame that sets the level.
LEMMA LevelFrames ==
    ASSUME IInv, NEW f \in Frame,
           Take(f), NEW v \in Nat, SetLevel(v), UNCHANGED <<storage, tmp>>
    PROVE  IInv'
<1>1. /\ pc = "running" /\ pc' = "running" /\ tmp = None
      /\ UNCHANGED <<receive, sig, kept, file, unsaved, applied, tmp>>
  BY DEF Take, storage
<1>2. /\ hw' \in Level /\ current' \in Level
      /\ blBad' \in BOOLEAN /\ foreign' \in BOOLEAN /\ CacheMatchesBacklight'
  BY <1>1, SetLevelEffect DEF IInv
<1>3. TypeOK'
  BY <1>1, <1>2, TakeEffect DEF IInv, TypeOK
<1>4. RestoreInv' /\ KeptInv' /\ StopKeepsLevel'
  BY <1>1 DEF IInv, RestoreInv, KeptInv, StopKeepsLevel
<1> QED BY <1>2, <1>3, <1>4 DEF IInv

\* Handling a frame that leaves the backlight alone.
LEMMA StorageFrames ==
    ASSUME IInv, NEW f \in Frame, Take(f), UNCHANGED <<device, current, foreign>>,
           file' \in Nat \cup {None}, unsaved' \in Level \cup {None},
           tmp' \in Nat \cup {None}, applied' = FALSE, tmp' # None => file' = None
    PROVE  IInv'
<1>1. /\ pc = "running" /\ pc' = "running" /\ tmp = None
      /\ UNCHANGED <<receive, sig, kept, hw, blBad, current, foreign>>
  BY DEF Take, device
<1>2. TypeOK'
  BY <1>1, TakeEffect DEF IInv, TypeOK
<1>3. CacheMatchesBacklight' /\ RestoreInv' /\ KeptInv' /\ StopKeepsLevel'
  BY <1>1 DEF IInv, CacheMatchesBacklight, RestoreInv, KeptInv, StopKeepsLevel
<1> QED BY <1>2, <1>3 DEF IInv

\* Every frame is handled that way.
LEMMA HandleFrameStep == IInv /\ HandleFrame => IInv'
<1> SUFFICES ASSUME IInv, HandleFrame PROVE IInv'
  OBVIOUS
<1>1. PICK f \in Frame :
         \/ HandleRefused(f) \/ HandleSetState(f) \/ HandleModifyState(f)
         \/ HandleSetPowersave(f) \/ HandleSaveState(f) \/ HandleRestoreState(f)
  BY DEF HandleFrame
<1>2. /\ TypeOK /\ applied = FALSE /\ f \in CommandFrame
      /\ f.type = "set" => f.value \in Nat
  BY FrameAssumption DEF IInv, RestoreInv
<1>3. CASE HandleRefused(f)
  BY <1>2, <1>3, StorageFrames DEF HandleRefused, IInv, TypeOK, RestoreInv, storage
<1>4. CASE HandleSetState(f)
  BY <1>2, <1>4, LevelFrames DEF HandleSetState
<1>5. CASE HandleModifyState(f)
  <2>1. f.value \in Int
    BY <1>2 DEF CommandFrame
  <2>2. PICK n \in IntSums(current, f.value) : SetLevel(Clamped(n))
    BY <1>5 DEF HandleModifyState
  <2>3. Clamped(n) \in Nat
    BY <1>2, <2>1, ClampedLevel
  <2> QED BY <1>5, <2>2, <2>3, LevelFrames DEF HandleModifyState
<1>6. CASE HandleSetPowersave(f)
  BY <1>6, LevelAssumption, LevelFrames DEF HandleSetPowersave
<1>7. CASE HandleSaveState(f)
  <2>1. tmp' = None
    BY <1>7 DEF HandleSaveState, Take
  <2> QED BY <1>2, <1>7, <2>1, SaveEffect, StorageFrames DEF HandleSaveState
<1>8. CASE HandleRestoreState(f)
  <2>1. tmp = None
    BY <1>8 DEF HandleRestoreState, Take
  <2> QED BY <1>2, <1>8, <2>1, RestoreEffect, StorageFrames DEF HandleRestoreState
<1> QED BY <1>1, <1>3, <1>4, <1>5, <1>6, <1>7, <1>8

\* Setting the value that was read.  Within a start it is the level kept.
LEMMA ApplyRestoredStep == IInv /\ ApplyRestored => IInv'
<1> SUFFICES ASSUME IInv, ApplyRestored PROVE IInv'
  OBVIOUS
<1>1. /\ tmp \in Nat /\ SetLevel(tmp) /\ tmp' = None /\ applied' = FALSE
      /\ UNCHANGED <<pc, file, unsaved, queue, receive, sig, kept>>
  BY DEF ApplyRestored, IInv, RestoreInv, TypeOK, socket
<1>2. /\ hw' \in Level /\ current' \in Level
      /\ blBad' \in BOOLEAN /\ foreign' \in BOOLEAN /\ CacheMatchesBacklight'
      /\ tmp <= Max /\ ~blBad' => current' = tmp /\ hw' = tmp
  BY <1>1, SetLevelEffect DEF IInv
<1>3. TypeOK'
  BY <1>1, <1>2 DEF IInv, TypeOK
<1>4. RestoreInv'
  BY <1>1 DEF RestoreInv
<1>5. KeptInv'
  BY <1>1 DEF IInv, KeptInv, RestoreInv, ApplyRestored
<1>6. StopKeepsLevel'
  <2> SUFFICES ASSUME pc = "restored", kept # None, ~blBad'
               PROVE  current' = kept /\ hw' = kept
    BY <1>1 DEF StopKeepsLevel
  <2>1. tmp = kept /\ kept \in Level
    BY DEF ApplyRestored, IInv, KeptInv, TypeOK
  <2> QED BY <1>2, <2>1, LevelAssumption DEF Level
<1> QED BY <1>2, <1>3, <1>4, <1>5, <1>6 DEF IInv

-----------------------------------------------------------------------------
(* main and the environment *)

\* The steps of a start.
LEMMA StartSteps == IInv /\ (StartBacklight \/ StartSocket \/ StartRestore \/ StartLoop) => IInv'
<1> SUFFICES ASSUME IInv, StartBacklight \/ StartSocket \/ StartRestore \/ StartLoop PROVE IInv'
  OBVIOUS
<1> USE DEF device, storage, socket
<1>1. CASE StartBacklight
  <2>1. TypeOK'
    BY <1>1 DEF StartBacklight, IInv, TypeOK
  <2>2. CacheMatchesBacklight' /\ RestoreInv' /\ KeptInv' /\ StopKeepsLevel'
    BY <1>1 DEF StartBacklight, IInv, CacheMatchesBacklight, RestoreInv, KeptInv, StopKeepsLevel
  <2> QED BY <2>1, <2>2 DEF IInv
<1>2. CASE StartSocket
  <2>1. TypeOK'
    BY <1>2 DEF StartSocket, IInv, TypeOK
  <2>2. CacheMatchesBacklight' /\ RestoreInv' /\ KeptInv' /\ StopKeepsLevel'
    BY <1>2 DEF StartSocket, IInv, CacheMatchesBacklight, RestoreInv, KeptInv, StopKeepsLevel
  <2> QED BY <2>1, <2>2 DEF IInv
<1>3. CASE StartRestore
  <2>1. tmp = None /\ pc = "listening"
    BY <1>3 DEF StartRestore, IInv, RestoreInv
  <2>2. /\ file' \in Nat \cup {None} /\ unsaved' \in Level \cup {None}
        /\ tmp' \in Nat \cup {None} /\ applied' = FALSE /\ file' = None
    BY <1>3, <2>1, RestoreEffect DEF StartRestore, IInv, RestoreInv, ReadAndTruncate
  <2>3. TypeOK'
    BY <1>3, <2>2 DEF StartRestore, IInv, TypeOK
  <2>4. RestoreInv' /\ CacheMatchesBacklight'
    BY <1>3, <2>1, <2>2 DEF StartRestore, IInv, RestoreInv, CacheMatchesBacklight
  <2>5. KeptInv' /\ StopKeepsLevel'
    BY <1>3, <2>1 DEF StartRestore, ReadAndTruncate, IInv, KeptInv, StopKeepsLevel
  <2> QED BY <2>3, <2>4, <2>5 DEF IInv
<1>4. CASE StartLoop
  <2>1. TypeOK'
    BY <1>4 DEF StartLoop, IInv, TypeOK
  <2>2. CacheMatchesBacklight' /\ RestoreInv' /\ KeptInv' /\ StopKeepsLevel'
    BY <1>4 DEF StartLoop, IInv, CacheMatchesBacklight, RestoreInv, KeptInv, StopKeepsLevel
  <2> QED BY <2>1, <2>2 DEF IInv
<1> QED BY <1>1, <1>2, <1>3, <1>4

\* The ways a process ends.
LEMMA EndSteps == IInv /\ (HandleSignal \/ Stop \/ StopFails \/ Die) => IInv'
<1> SUFFICES ASSUME IInv, HandleSignal \/ Stop \/ Die PROVE IInv'
  BY DEF StopFails
<1> USE DEF device, storage, socket
<1>1. CASE HandleSignal
  <2>1. TypeOK'
    BY <1>1 DEF HandleSignal, IInv, TypeOK
  <2>2. CacheMatchesBacklight' /\ RestoreInv' /\ KeptInv' /\ StopKeepsLevel'
    BY <1>1 DEF HandleSignal, IInv, CacheMatchesBacklight, RestoreInv, KeptInv, StopKeepsLevel
  <2> QED BY <2>1, <2>2 DEF IInv
<1>2. CASE Stop
  <2>1. tmp = None /\ kept = current /\ pc' = "down" /\ file' = current
    BY <1>2 DEF Stop, SaveOk, IInv, RestoreInv, KeptInv
  <2>2. file' \in Nat \cup {None} /\ unsaved' \in Level \cup {None} /\ applied' = FALSE
    BY <1>2, SaveEffect DEF Stop, IInv, RestoreInv
  <2>3. hw' \in Level
    BY <1>2 DEF Stop, IInv, TypeOK
  <2>4. TypeOK'
    <3>1. queue' = <<>> /\ <<>> \in Seq(Frame) /\ Len(<<>>) = 0
      BY <1>2 DEF Stop
    <3>2. 0 <= QueueMax
      BY FrameAssumption
    <3> QED BY <1>2, <2>2, <2>3, <3>1, <3>2 DEF Stop, IInv, TypeOK
  <2>5. CacheMatchesBacklight' /\ RestoreInv' /\ KeptInv' /\ StopKeepsLevel'
    BY <1>2, <2>1, <2>2 DEF Stop, IInv, CacheMatchesBacklight, RestoreInv, KeptInv, StopKeepsLevel
  <2> QED BY <2>4, <2>5 DEF IInv
<1>3. CASE Die
  <2>1. TypeOK'
    <3>1. queue' = <<>> /\ <<>> \in Seq(Frame) /\ Len(<<>>) = 0
      BY <1>3 DEF Die
    <3>2. 0 <= QueueMax
      BY FrameAssumption
    <3> QED BY <1>3, <3>1, <3>2 DEF Die, IInv, TypeOK
  <2>2. CacheMatchesBacklight' /\ RestoreInv' /\ KeptInv' /\ StopKeepsLevel'
    BY <1>3 DEF Die, IInv, CacheMatchesBacklight, RestoreInv, KeptInv, StopKeepsLevel
  <2> QED BY <2>1, <2>2 DEF IInv
<1> QED BY <1>1, <1>2, <1>3

\* What happens around the daemon, and the end of receiving.
LEMMA OutsideSteps ==
    ASSUME IInv, ReceiveError \/ Signal \/ ForeignWrite \/ \E f \in Frame : Send(f)
    PROVE  IInv'
<1> USE DEF device, storage, socket
<1>1. CASE ReceiveError \/ Signal
  <2>1. TypeOK'
    BY <1>1 DEF ReceiveError, Signal, IInv, TypeOK
  <2>2. CacheMatchesBacklight' /\ RestoreInv' /\ KeptInv' /\ StopKeepsLevel'
    BY <1>1 DEF ReceiveError, Signal, IInv, CacheMatchesBacklight, RestoreInv, KeptInv, StopKeepsLevel
  <2> QED BY <2>1, <2>2 DEF IInv
<1>2. CASE ForeignWrite
  <2>1. TypeOK'
    BY <1>2, LevelAssumption DEF ForeignWrite, IInv, TypeOK
  <2>2. CacheMatchesBacklight' /\ RestoreInv' /\ KeptInv' /\ StopKeepsLevel'
    BY <1>2 DEF ForeignWrite, IInv, CacheMatchesBacklight, RestoreInv, KeptInv, StopKeepsLevel
  <2> QED BY <2>1, <2>2 DEF IInv
<1>3. CASE \E f \in Frame : Send(f)
  <2>1. PICK f \in Frame : Send(f)
    BY <1>3
  <2>2. queue' \in Seq(Frame) /\ Len(queue') = Len(queue) + 1 /\ Len(queue) \in Nat
    BY <2>1 DEF Send, IInv, TypeOK
  <2>3. Len(queue') <= QueueMax
    BY <2>1, <2>2, FrameAssumption DEF Send
  <2>4. TypeOK'
    BY <2>1, <2>2, <2>3 DEF Send, IInv, TypeOK
  <2>5. CacheMatchesBacklight' /\ RestoreInv' /\ KeptInv' /\ StopKeepsLevel'
    BY <2>1 DEF Send, IInv, CacheMatchesBacklight, RestoreInv, KeptInv, StopKeepsLevel
  <2> QED BY <2>4, <2>5 DEF IInv
<1> QED BY <1>1, <1>2, <1>3

-----------------------------------------------------------------------------
(* The steps that take a datagram *)

\* The handlers of frame f.
Handles(f) ==
    \/ HandleRefused(f) \/ HandleSetState(f) \/ HandleModifyState(f)
    \/ HandleSetPowersave(f) \/ HandleSaveState(f) \/ HandleRestoreState(f)

\* Only a handler of f takes f off the queue while the loop runs.
LEMMA TakesHandles ==
    ASSUME IInv, Next, NEW f \in Frame, Takes(f)
    PROVE  Handles(f)
<1>1. pc = "running" /\ pc' = "running" /\ f = Head(queue) /\ queue' = Tail(queue)
  BY DEF Takes
<1>2. queue \in Seq(Frame) /\ queue # <<>>
  BY DEF Takes, IInv, TypeOK
<1>3. Len(queue) \in Nat /\ Len(queue') = Len(queue) - 1
  BY <1>1, <1>2
<1>4. queue' # queue
  BY <1>3
<1>5. \A g \in Frame : ~Send(g)
  <2>1. SUFFICES ASSUME NEW g \in Frame, Send(g) PROVE FALSE
    OBVIOUS
  <2>2. Len(queue') = Len(queue) + 1
    BY <2>1, <1>2 DEF Send
  <2> QED BY <2>2, <1>3
<1>6. ~(StartBacklight \/ StartSocket \/ StartRestore \/ StartLoop)
  BY <1>1 DEF StartBacklight, StartSocket, StartRestore, StartLoop
<1>7. ~(HandleSignal \/ Stop \/ StopFails \/ Die)
  BY <1>1 DEF HandleSignal, Stop, StopFails, Die
<1>8. ~(ApplyRestored \/ ReceiveError \/ Signal \/ ForeignWrite)
  BY <1>4 DEF ApplyRestored, ReceiveError, Signal, ForeignWrite, socket
<1>9. PICK g \in Frame : Handles(g)
  BY <1>5, <1>6, <1>7, <1>8 DEF Next, HandleFrame, Handles
<1>10. g = Head(queue)
  BY <1>9 DEF Handles, HandleRefused, HandleSetState, HandleModifyState,
              HandleSetPowersave, HandleSaveState, HandleRestoreState, Take
<1> QED BY <1>1, <1>9, <1>10

\* A handler that is not HandleRefused has a command of the protocol, or a
\* level that set() refuses.
LEMMA OnlyCommandsStep ==
    ASSUME IInv, [Next]_vars, NEW f \in Frame, Takes(f), ~WellFormed(f)
    PROVE  UNCHANGED <<device, current, storage, tmp>>
<1>1. CASE UNCHANGED vars
  BY <1>1 DEF vars
<1>2. CASE Next
  <2>1. Handles(f)
    BY <1>2, TakesHandles
  <2>2. f.len \in Int /\ f.bytes \in Int
    BY FrameAssumption DEF CommandFrame
  <2>3. CASE HandleRefused(f)
    BY <2>3 DEF HandleRefused
  <2>4. CASE HandleSetState(f)
    <3>1. f.len = 4 /\ f.bytes = 6 /\ f.type = "set"
      BY <2>2, <2>4 DEF HandleSetState, Accepted, WellFramed, PayloadSize
    <3>2. SetRefused(f.value)
      BY <3>1, FrameAssumption, LevelAssumption DEF WellFormed, SetRefused
    <3> QED BY <2>4, <3>2 DEF HandleSetState, SetLevel
  <2>5. CASE HandleSetPowersave(f)
    <3>1. f.len = 0 /\ f.bytes = 2 /\ f.type = "powersave"
      BY <2>2, <2>5 DEF HandleSetPowersave, Accepted, WellFramed, PayloadSize
    <3>2. SetRefused(PowersaveValue)
      BY <3>1, LevelAssumption DEF WellFormed, SetRefused
    <3> QED BY <2>5, <3>2 DEF HandleSetPowersave, SetLevel
  <2>6. ~HandleModifyState(f) /\ ~HandleSaveState(f) /\ ~HandleRestoreState(f)
    BY <2>2 DEF HandleModifyState, HandleSaveState, HandleRestoreState, Accepted,
                WellFramed, PayloadSize, WellFormed
  <2> QED BY <2>1, <2>3, <2>4, <2>5, <2>6 DEF Handles
<1> QED BY <1>1, <1>2

\* No modify frame takes the sum out of an int, whatever the level.
NoOverflow ==
    \A f \in Frame : f.type = "modify" => f.value \in -(IntMax + 1) .. IntMax - Max

\* A sum that is an int is what the addition yields.
LEMMA ExactSum ==
    ASSUME NEW n \in Int, -(IntMax + 1) <= n, n <= IntMax
    PROVE  WrapInt(n) = n
<1>1. IntMax \in Nat
  BY LevelAssumption
<1> DEFINE m == n + IntMax + 1
           k == 2 * (IntMax + 1)
<1>2. m \in Nat /\ k \in Nat /\ m < k
  BY <1>1
<1>3. \A a, b \in Nat : a < b => a % b = a
  BY Z3
<1>4. m % k = m
  BY <1>2, <1>3
<1> QED BY <1>1, <1>4 DEF WrapInt

\* modifyState sets the clamped sum.
LEMMA ModifyStep ==
    ASSUME NoOverflow, IInv, [Next]_vars, NEW f \in Frame, Takes(f),
           WellFormed(f), f.type = "modify", ~blBad
    PROVE  current' = IF current + f.value < 0 THEN 0
                      ELSE IF current + f.value > Max THEN Max
                      ELSE current + f.value
<1>1. Next
  <2>1. queue \in Seq(Frame) /\ queue # <<>> /\ queue' = Tail(queue)
    BY DEF Takes, IInv, TypeOK
  <2>2. Len(queue) \in Nat /\ Len(queue') = Len(queue) - 1
    BY <2>1
  <2> QED BY <2>2 DEF vars, socket
<1>2. Handles(f)
  BY <1>1, TakesHandles
<1>3. f.len = 4 /\ f.bytes = 6
  BY DEF WellFormed
<1>4. Accepted(f)
  BY <1>3 DEF Accepted, WellFramed, PayloadSize
<1>5. HandleModifyState(f)
  BY <1>2, <1>4 DEF Handles, HandleRefused, HandleSetState, HandleSetPowersave,
                    HandleSaveState, HandleRestoreState
<1>6. PICK n \in IntSums(current, f.value) : SetLevel(Clamped(n))
  BY <1>5 DEF HandleModifyState
<1>7. /\ current \in 0 .. Max /\ f.value \in -(IntMax + 1) .. IntMax - Max
      /\ Max \in Nat /\ IntMax \in Nat
  BY LevelAssumption DEF IInv, TypeOK, Level, NoOverflow
<1>8. n = current + f.value /\ n \in Int
  <2>1. current + f.value \in Int /\ -(IntMax + 1) <= current + f.value
        /\ current + f.value <= IntMax
    BY <1>7
  <2>2. WrapInt(current + f.value) = current + f.value
    BY <2>1, ExactSum
  <2> QED BY <1>6, <2>1, <2>2 DEF IntSums
<1>9. Clamped(n) \in Nat /\ Clamped(n) <= Max
  BY <1>7, <1>8 DEF Clamped
<1>10. current' = Clamped(n)
  BY <1>6, <1>7, <1>9 DEF SetLevel, SetRefused
<1> QED BY <1>8, <1>10 DEF Clamped

-----------------------------------------------------------------------------
(* The theorems *)

\* The invariant is inductive.
LEMMA NextIInv == IInv /\ [Next]_vars => IInv'
<1> SUFFICES ASSUME IInv, [Next]_vars PROVE IInv'
  OBVIOUS
<1>1. CASE UNCHANGED vars
  BY <1>1 DEF vars, device, storage, socket, IInv, TypeOK, CacheMatchesBacklight,
              RestoreInv, KeptInv, StopKeepsLevel
<1>2. CASE Next
  BY <1>2, StartSteps, ApplyRestoredStep, HandleFrameStep, EndSteps, OutsideSteps DEF Next
<1> QED BY <1>1, <1>2

\* The invariant holds in every state the daemon can reach.
THEOREM Invariance == Spec => []IInv
BY InitIInv, NextIInv, PTL DEF Spec

\* The daemon's state keeps its type: no command, no file and no overflow
\* brings a level to the attribute that the backlight does not have.
THEOREM TypeCorrect == Spec => []TypeOK
<1>1. IInv => TypeOK
  BY DEF IInv
<1> QED BY <1>1, Invariance, PTL

\* The cached level is the backlight's unless a write failed or somebody else
\* changed it.
THEOREM CacheTheorem == Spec => []CacheMatchesBacklight
<1>1. IInv => CacheMatchesBacklight
  BY DEF IInv
<1> QED BY <1>1, Invariance, PTL

\* A saved level is restored at most once, whatever fails or crashes.
THEOREM RestoreOnceTheorem == Spec => []RestoredAtMostOnce
<1>1. IInv => RestoredAtMostOnce
  BY DEF IInv, RestoreInv, RestoredAtMostOnce
<1> QED BY <1>1, Invariance, PTL

\* An orderly stop and the next start that restores keep the level.
THEOREM StopKeepsTheorem == Spec => []StopKeepsLevel
<1>1. IInv => StopKeepsLevel
  BY DEF IInv
<1> QED BY <1>1, Invariance, PTL

\* A datagram that is cut short, too long, unknown or asks for a level the
\* backlight does not have changes nothing: handleFrame's checks and set()'s
\* leave no other way.
THEOREM OnlyCommandsTheorem == Spec => OnlyCommandsAct
<1>1. IInv /\ [Next]_vars =>
        [\A f \in Frame : Takes(f) /\ ~WellFormed(f) =>
           UNCHANGED <<device, current, storage, tmp>>]_vars
  BY OnlyCommandsStep
<1> QED BY <1>1, Invariance, PTL DEF Spec, OnlyCommandsAct

\* If no modify frame overflows an int, a modification by a signed value sets
\* the clamped sum.
THEOREM ModifyTheorem == ASSUME NoOverflow PROVE Spec => ModifyClamps
<1>1. IInv /\ [Next]_vars =>
        [\A f \in Frame : Takes(f) /\ WellFormed(f) /\ f.type = "modify" /\ ~blBad =>
           current' = IF current + f.value < 0 THEN 0
                      ELSE IF current + f.value > Max THEN Max
                      ELSE current + f.value]_vars
  BY ModifyStep
<1> QED BY <1>1, Invariance, PTL DEF Spec, ModifyClamps

-----------------------------------------------------------------------------
(* The daemon does not go deaf *)

\* A receive is outstanding, or has failed for good, once the socket is open.
ReceiveInv == pc \in {"listening", "restored", "running", "exiting"} => receive # "none"

\* A running daemon has stopped receiving for good, or is setting a restored
\* level, or waits for a datagram, or has a handler for the first in the queue
\* that takes it out.
Hears ==
    pc = "running" =>
        \/ receive = "failed"
        \/ tmp # None
        \/ queue = <<>>
        \/ \E f \in Frame :
             /\ f = Head(queue)
             /\ receive = "armed"
             /\ \/ ~Accepted(f)
                \/ f.type \in {"set", "modify", "powersave", "save", "restore"}

\* The queue changes by a new datagram at its end or by the first one taken,
\* while the daemon runs and is not deaf.
KeepsOrder ==
    [][pc = "running" /\ pc' = "running" =>
         \/ queue' = queue
         \/ receive = "armed" /\ tmp = None /\ Len(queue') = Len(queue) - 1
            /\ \E f \in Frame : queue = <<f>> \o queue'
         \/ \E f \in Frame : queue' = Append(queue, f)]_vars

\* Every step keeps a receive outstanding.
LEMMA NextReceive == ReceiveInv /\ [Next]_vars => ReceiveInv'
<1> SUFFICES ASSUME ReceiveInv, [Next]_vars PROVE ReceiveInv'
  OBVIOUS
<1>1. CASE UNCHANGED vars
  BY <1>1 DEF vars, socket, ReceiveInv
<1>2. CASE StartBacklight \/ StartSocket \/ StartRestore \/ StartLoop
  BY <1>2 DEF StartBacklight, StartSocket, StartRestore, StartLoop, socket, ReceiveInv
<1>3. CASE ApplyRestored \/ HandleFrame
  BY <1>3 DEF ApplyRestored, HandleFrame, HandleRefused, HandleSetState, HandleModifyState,
              HandleSetPowersave, HandleSaveState, HandleRestoreState, Take, socket, ReceiveInv
<1>4. CASE ReceiveError \/ HandleSignal \/ Stop \/ StopFails \/ Die
  BY <1>4 DEF ReceiveError, HandleSignal, Stop, StopFails, Die, socket, ReceiveInv
<1>5. CASE Signal \/ ForeignWrite \/ \E f \in Frame : Send(f)
  BY <1>5 DEF Signal, ForeignWrite, Send, socket, ReceiveInv
<1> QED BY <1>1, <1>2, <1>3, <1>4, <1>5 DEF Next

\* handleFrame has a case for every frame that the framing lets pass.
LEMMA EveryFrameHandled == TypeOK /\ ReceiveInv => Hears
<1> SUFFICES ASSUME TypeOK, ReceiveInv, pc = "running", receive # "failed", queue # <<>>
             PROVE  \E f \in Frame :
                      /\ f = Head(queue)
                      /\ receive = "armed"
                      /\ \/ ~Accepted(f)
                         \/ f.type \in {"set", "modify", "powersave", "save", "restore"}
  BY DEF Hears
<1>1. receive = "armed"
  BY DEF TypeOK, ReceiveInv
<1>2. Head(queue) \in Frame
  BY DEF TypeOK
<1>3. Head(queue).type \in {"set", "modify", "save", "restore", "powersave", "other"}
  BY <1>2, FrameAssumption DEF CommandFrame
<1> QED BY <1>1, <1>2, <1>3 DEF Accepted

\* A running daemon takes its datagrams one by one from the front.
LEMMA OrderStep ==
    ASSUME TypeOK, [Next]_vars, pc = "running", pc' = "running"
    PROVE  \/ queue' = queue
           \/ receive = "armed" /\ tmp = None /\ Len(queue') = Len(queue) - 1
              /\ \E f \in Frame : queue = <<f>> \o queue'
           \/ \E f \in Frame : queue' = Append(queue, f)
<1>1. CASE \E f \in Frame : Take(f)
  <2>1. PICK f \in Frame : Take(f)
    BY <1>1
  <2>2. queue \in Seq(Frame) /\ queue # <<>> /\ f = Head(queue) /\ queue' = Tail(queue)
    BY <2>1 DEF Take, TypeOK
  <2>3. queue = <<f>> \o queue' /\ Len(queue') = Len(queue) - 1
    BY <2>2
  <2> QED BY <2>1, <2>3 DEF Take
<1>2. CASE HandleFrame
  BY <1>1, <1>2 DEF HandleFrame, HandleRefused, HandleSetState, HandleModifyState,
                    HandleSetPowersave, HandleSaveState, HandleRestoreState
<1>3. CASE \E f \in Frame : Send(f)
  BY <1>3 DEF Send
<1>4. CASE \/ UNCHANGED vars \/ StartBacklight \/ StartSocket \/ StartRestore \/ StartLoop
           \/ ApplyRestored \/ ReceiveError \/ HandleSignal \/ Stop \/ StopFails \/ Die
           \/ Signal \/ ForeignWrite
  BY <1>4 DEF vars, socket, StartBacklight, StartSocket, StartRestore, StartLoop, ApplyRestored,
              ReceiveError, HandleSignal, Stop, StopFails, Die, Signal, ForeignWrite
<1> QED BY <1>2, <1>3, <1>4 DEF Next

\* Whatever datagrams come, however long or short they are and whatever fails,
\* the daemon has armed the next receive and has a handler for the datagram
\* that waits first: only an error of the receive itself makes it deaf.
THEOREM NeverDeaf == Spec => []Hears
<1>1. Init => ReceiveInv
  BY DEF Init, ReceiveInv
<1>2. IInv => TypeOK
  BY DEF IInv
<1> QED BY <1>1, <1>2, NextReceive, EveryFrameHandled, Invariance, PTL DEF Spec

\* While the daemon runs, no datagram is dropped, overtaken or handled twice:
\* with NeverDeaf, a full queue has a step that makes room.
THEOREM InOrder == Spec => KeepsOrder
<1>1. IInv /\ [Next]_vars =>
        [pc = "running" /\ pc' = "running" =>
           \/ queue' = queue
           \/ receive = "armed" /\ tmp = None /\ Len(queue') = Len(queue) - 1
              /\ \E f \in Frame : queue = <<f>> \o queue'
           \/ \E f \in Frame : queue' = Append(queue, f)]_vars
  BY OrderStep DEF IInv
<1> QED BY <1>1, Invariance, PTL DEF Spec, KeepsOrder

=============================================================================
