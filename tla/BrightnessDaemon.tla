-------------------------- MODULE BrightnessDaemon --------------------------
(***************************************************************************)
(* The brightness daemon: it keeps the level of a display backlight in a   *)
(* sysfs attribute and, from one run to the next, in a state file, and     *)
(* obeys datagrams on a Unix socket.  One thread runs the handlers of its  *)
(* event loop one after the other; a crash, a signal, another writer of    *)
(* the attribute and failing system calls come in between.                 *)
(*                                                                         *)
(* The two files are C++ streams.  A stream whose flush failed keeps the   *)
(* text it could not write, is bad from then on, and writes nothing until  *)
(* it is cleared: the one of the state file is cleared by restoreState,    *)
(* the one of the backlight never.                                         *)
(***************************************************************************)
EXTENDS Integers, Sequences

CONSTANTS
    Max,            \* max_brightness of the backlight
    IntMax,         \* the largest int (2^31 - 1)
    PowersaveValue, \* powersave-value of the configuration
    Stored,         \* the values a state file from elsewhere may hold
    Foreign,        \* the levels other writers may set
    Frame,          \* the datagrams clients may send
    QueueMax,       \* bound: datagrams waiting in the socket
    None            \* no value

Level == 0 .. Max

\* A datagram of the given size, whose first two bytes are type and len, and
\* whose next four bytes are value (unsigned or signed as the type has it).
CommandFrame == [type: {"set", "modify", "save", "restore", "powersave", "other"},
                 len: 0 .. 255, bytes: 0 .. 64, value: Int]

ASSUME LevelAssumption ==
    /\ Max \in Nat
    /\ IntMax \in Nat
    /\ Max <= IntMax
    /\ PowersaveValue \in Nat
    /\ Stored \subseteq Nat
    /\ Foreign \subseteq Level
    /\ None \notin Int

ASSUME FrameAssumption ==
    /\ Frame \subseteq CommandFrame
    /\ \A f \in Frame : f.type = "set" => f.value \in Nat
    /\ QueueMax \in Nat

VARIABLES
    pc,         \* how far main has come; "down" without a process
    hw,         \* the brightness attribute
    current,    \* current_brightness_
    blBad,      \* brightness_stream_ is bad
    file,       \* the state file: a value, or None when it is empty
    unsaved,    \* the value storage_stream_ could not write; None: it is good
    tmp,        \* the value restoreState has read and not set yet, or None
    queue,      \* the datagrams in the socket
    receive,    \* async_receive: "armed", "failed" for good, or "none"
    sig,        \* SIGTERM or SIGINT has arrived and is not handled yet
    kept,       \* history: the level at the last orderly stop, see StopKeepsLevel
    foreign,    \* history: hw was set by another writer since the daemon did
    applied     \* history: the value in the file has been set once already

device  == <<hw, blBad>>
storage == <<file, unsaved, applied>>
socket  == <<queue, receive>>
vars == <<pc, device, current, storage, tmp, socket, sig, kept, foreign>>

-----------------------------------------------------------------------------
(* Numbers *)

\* The int that n wraps around to.
WrapInt(n) == ((n + IntMax + 1) % (2 * (IntMax + 1))) - (IntMax + 1)

\* What int addition may yield: overflow is undefined, and a build either
\* wraps around or compares as if it had not.
IntSums(m, n) == {m + n, WrapInt(m + n)}

\* Mutant: the lower bound is not checked, and int becomes unsigned.
ClampedMutant(n) == IF n > Max THEN Max
                    ELSE IF n < 0 THEN n + 2 * (IntMax + 1) ELSE n

\* The two ifs of modifyState.
Clamped(n) == IF n < 0 THEN 0 ELSE IF n > Max THEN Max ELSE n

-----------------------------------------------------------------------------
(* BacklightContext *)

\* Mutant: one level too many.
RefusedAboveMutant(v) == v > Max + 1 \/ blBad

\* set() refuses a value that is too large, and a bad stream writes nothing:
\* both throw before anything changes.
SetRefused(v) == v > Max \/ blBad

\* Mutant: the level is recorded before the value is checked.
RecordFirstMutant(v) ==
    IF SetRefused(v)
    THEN /\ current' = IF v > Max THEN Max ELSE v
         /\ UNCHANGED <<device, foreign>>
    ELSE /\ current' = v
         /\ hw' = v
         /\ foreign' = FALSE
         /\ UNCHANGED blBad

\* set(): the write to the attribute may fail, with the level recorded.
SetLevel(v) ==
    IF SetRefused(v)
    THEN UNCHANGED <<device, current, foreign>>
    ELSE /\ current' = v
         /\ \/ hw' = v /\ foreign' = FALSE /\ UNCHANGED blBad
            \/ blBad' = TRUE /\ UNCHANGED <<hw, foreign>>

\* Mutant: without seekp(0) a second save lands behind the first.
SaveOkMutant ==
    /\ unsaved = None
    /\ file' = IF file = None THEN current ELSE file
    /\ applied' = FALSE
    /\ UNCHANGED unsaved

\* saveState succeeds.
SaveOk ==
    /\ unsaved = None
    /\ file' = current
    /\ applied' = FALSE
    /\ UNCHANGED unsaved

\* saveState throws: the write fails, or failed earlier.
SaveFails ==
    /\ unsaved' = IF unsaved = None THEN current ELSE unsaved
    /\ UNCHANGED <<file, applied>>

\* restoreState up to the truncation.  The read fails if the file is empty,
\* and may fail otherwise.
ReadAndTruncate ==
    /\ unsaved = None
    /\ tmp' \in {file, None}
    /\ file' = None
    /\ applied' = FALSE
    /\ UNCHANGED unsaved

\* On a bad stream nothing is read, and seekg first retries the pending write;
\* if that fails the stream is bad again.
DiscardPending ==
    /\ unsaved # None
    /\ file' = None
    /\ applied' = FALSE
    /\ unsaved' \in {unsaved, None}
    /\ UNCHANGED tmp

\* Mutant: a failing ftruncate goes unnoticed.
UncheckedTruncateMutant == tmp' = file /\ UNCHANGED storage

\* ftruncate fails, and truncate throws.
TruncateFails ==
    /\ \/ UNCHANGED storage
       \/ /\ unsaved # None
          /\ file' = unsaved
          /\ applied' = FALSE
          /\ unsaved' = None
    /\ UNCHANGED tmp

\* restoreState sets what it read, and ignores that set() throws.
ApplyRestored ==
    /\ tmp # None
    /\ SetLevel(tmp)
    /\ tmp' = None
    /\ applied' = (file # None)
    /\ UNCHANGED <<pc, file, unsaved, socket, sig, kept>>

-----------------------------------------------------------------------------
(* main *)

Init ==
    /\ pc = "down"
    /\ hw \in Level
    /\ current = 0
    /\ blBad = FALSE
    /\ file \in Stored \cup {None}
    /\ unsaved = None
    /\ tmp = None
    /\ queue = <<>>
    /\ receive = "none"
    /\ sig = FALSE
    /\ kept = None
    /\ foreign = FALSE
    /\ applied = FALSE

\* BacklightContext::init: opens the streams, reads the level, and creates an
\* empty state file if there is none.
StartBacklight ==
    /\ pc = "down"
    /\ pc' = "opened"
    /\ current' = hw
    /\ foreign' = FALSE
    /\ UNCHANGED <<device, storage, tmp, socket, sig, kept>>

\* SocketContext::init and start: a new socket, root privileges dropped, and
\* the first async_receive.
StartSocket ==
    /\ pc = "opened"
    /\ pc' = "listening"
    /\ receive' = "armed"
    /\ UNCHANGED <<device, current, storage, tmp, queue, sig, kept, foreign>>

\* restoreState in main.  When it has read nothing, there is nothing kept.
StartRestore ==
    /\ pc = "listening"
    /\ pc' = "restored"
    /\ ReadAndTruncate
    /\ kept' = IF tmp' = None THEN None ELSE kept
    /\ UNCHANGED <<device, current, socket, sig, foreign>>

\* The signal handlers are installed and the event loop entered.
StartLoop ==
    /\ pc = "restored" /\ tmp = None
    /\ pc' = "running"
    /\ kept' = None
    /\ UNCHANGED <<device, current, storage, tmp, socket, sig, foreign>>

\* The process ends without running a destructor: a startup step or the save
\* at the end throws out of main, a signal arrives before its handler is
\* installed, or the process is killed.
Die ==
    /\ pc # "down"
    /\ pc' = "down"
    /\ kept' = IF pc \in {"opened", "listening"} THEN kept ELSE None
    /\ blBad' = FALSE
    /\ unsaved' = None
    /\ tmp' = None
    /\ queue' = <<>>
    /\ receive' = "none"
    /\ sig' = FALSE
    /\ UNCHANGED <<hw, current, file, foreign, applied>>

\* Mutant: the signal handler does not end the loop.
LostSignalMutant ==
    /\ pc = "running" /\ tmp = None /\ sig
    /\ sig' = FALSE
    /\ UNCHANGED <<pc, device, current, storage, tmp, socket, kept, foreign>>

\* The signal handler ends the loop.
HandleSignal ==
    /\ pc = "running" /\ tmp = None /\ sig
    /\ pc' = "exiting"
    /\ sig' = FALSE
    /\ kept' = current
    /\ UNCHANGED <<device, current, storage, tmp, socket, foreign>>

\* saveState at the end of main, and the destructors: closing a bad stream
\* tries its pending write once more.
Stop ==
    /\ pc = "exiting"
    /\ pc' = "down"
    /\ SaveOk
    /\ hw' \in IF blBad THEN {hw, current} ELSE {hw}
    /\ blBad' = FALSE
    /\ queue' = <<>>
    /\ receive' = "none"
    /\ sig' = FALSE
    /\ UNCHANGED <<current, tmp, kept, foreign>>

\* The save fails, and its exception leaves main.
StopFails ==
    /\ pc = "exiting"
    /\ Die

-----------------------------------------------------------------------------
(* SocketContext *)

\* The checks of process() and of handleFrame.
WellFramed(f) == f.bytes >= 2 /\ f.len <= 32 /\ f.len + 2 = f.bytes
PayloadSize(type) == IF type \in {"set", "modify"} THEN 4 ELSE 0

\* Mutant: handleFrame trusts the size of the payload.
AcceptedMutant(f) == WellFramed(f) /\ f.type # "other"

Accepted(f) == WellFramed(f) /\ f.type # "other" /\ f.len = PayloadSize(f.type)

\* Mutant: handling a frame that is refused does not receive the next.
NotRearmedMutant(f) ==
    /\ pc = "running" /\ tmp = None /\ receive = "armed"
    /\ queue # <<>> /\ f = Head(queue)
    /\ queue' = Tail(queue)
    /\ receive' = IF Accepted(f) THEN "armed" ELSE "none"
    /\ UNCHANGED <<pc, sig, kept>>

\* The receive handler takes the first datagram f.  Whatever handleFrame
\* throws is caught, and the next datagram is received.
Take(f) ==
    /\ pc = "running" /\ tmp = None /\ receive = "armed"
    /\ queue # <<>> /\ f = Head(queue)
    /\ queue' = Tail(queue)
    /\ UNCHANGED <<pc, receive, sig, kept>>

HandleRefused(f) ==
    /\ Take(f)
    /\ ~Accepted(f)
    /\ UNCHANGED <<device, current, storage, tmp, foreign>>

HandleSetState(f) ==
    /\ Take(f)
    /\ Accepted(f) /\ f.type = "set"
    /\ SetLevel(f.value)
    /\ UNCHANGED <<storage, tmp>>

HandleModifyState(f) ==
    /\ Take(f)
    /\ Accepted(f) /\ f.type = "modify"
    /\ \E n \in IntSums(current, f.value) : SetLevel(Clamped(n))
    /\ UNCHANGED <<storage, tmp>>

HandleSetPowersave(f) ==
    /\ Take(f)
    /\ Accepted(f) /\ f.type = "powersave"
    /\ SetLevel(PowersaveValue)
    /\ UNCHANGED <<storage, tmp>>

HandleSaveState(f) ==
    /\ Take(f)
    /\ Accepted(f) /\ f.type = "save"
    /\ SaveOk \/ SaveFails
    /\ UNCHANGED <<device, current, tmp, foreign>>

\* RestoreState: ApplyRestored follows if a value was read.
HandleRestoreState(f) ==
    /\ Take(f)
    /\ Accepted(f) /\ f.type = "restore"
    /\ ReadAndTruncate \/ DiscardPending \/ TruncateFails
    /\ UNCHANGED <<device, current, foreign>>

HandleFrame ==
    \E f \in Frame :
        \/ HandleRefused(f) \/ HandleSetState(f) \/ HandleModifyState(f)
        \/ HandleSetPowersave(f) \/ HandleSaveState(f) \/ HandleRestoreState(f)

\* async_receive reports an error: it is not called again.
ReceiveError ==
    /\ pc = "running" /\ tmp = None /\ receive = "armed"
    /\ receive' = "failed"
    /\ UNCHANGED <<pc, device, current, storage, tmp, queue, sig, kept, foreign>>

-----------------------------------------------------------------------------
(* Everything else *)

\* A client sends a datagram; it blocks while the socket's queue is full.
Send(f) ==
    /\ pc \in {"listening", "restored", "running", "exiting"}
    /\ Len(queue) < QueueMax
    /\ queue' = Append(queue, f)
    /\ UNCHANGED <<pc, device, current, storage, tmp, receive, sig, kept, foreign>>

\* Another program, the firmware or a reboot sets the backlight.
ForeignWrite ==
    /\ hw' \in Foreign
    /\ foreign' = TRUE
    /\ UNCHANGED <<pc, blBad, current, storage, tmp, socket, sig, kept>>

\* SIGTERM or SIGINT, once the handlers are installed.
Signal ==
    /\ pc = "running" /\ ~sig
    /\ sig' = TRUE
    /\ UNCHANGED <<pc, device, current, storage, tmp, socket, kept, foreign>>

Next ==
    \/ StartBacklight \/ StartSocket \/ StartRestore \/ StartLoop
    \/ ApplyRestored \/ HandleFrame \/ ReceiveError
    \/ HandleSignal \/ Stop \/ StopFails \/ Die
    \/ Signal \/ ForeignWrite
    \/ \E f \in Frame : Send(f)

Spec == Init /\ [][Next]_vars

\* The event loop runs the ready handlers in the order they became ready, so a
\* signal is not passed over for ever; what follows without waiting happens.
Fairness ==
    /\ WF_vars(HandleFrame)
    /\ SF_vars(HandleSignal)
    /\ WF_vars(ApplyRestored)
    /\ WF_vars(Stop \/ StopFails)

FairSpec == Spec /\ Fairness

-----------------------------------------------------------------------------
(* Properties *)

\* Every variable keeps its type; in particular only levels the backlight has
\* reach the attribute and the cache.
TypeOK ==
    /\ pc \in {"down", "opened", "listening", "restored", "running", "exiting"}
    /\ hw \in Level
    /\ current \in Level
    /\ blBad \in BOOLEAN
    /\ file \in Nat \cup {None}
    /\ unsaved \in Level \cup {None}
    /\ tmp \in Nat \cup {None}
    /\ queue \in Seq(Frame)
    /\ Len(queue) <= QueueMax
    /\ receive \in {"none", "armed", "failed"}
    /\ sig \in BOOLEAN
    /\ kept \in Level \cup {None}
    /\ foreign \in BOOLEAN
    /\ applied \in BOOLEAN

\* While the process lives, the level that ModifyState and SaveState work from
\* is the backlight's, unless a write failed or somebody else changed it.
CacheMatchesBacklight ==
    pc # "down" /\ ~blBad /\ ~foreign => current = hw

\* A value in the state file has never been set by restoreState before: no
\* crash, failing call or command makes a saved level come back twice.
RestoredAtMostOnce == file # None => ~applied

\* The level at an orderly stop is the level after the next start, across
\* starts that fail before the restore and whatever happened to the backlight
\* in between, unless one of the calls involved failed.
StopKeepsLevel ==
    pc = "restored" /\ tmp = None /\ kept # None /\ ~blBad =>
        current = kept /\ (foreign \/ hw = kept)

\* Frame f is taken in this step.
Takes(f) == pc = "running" /\ pc' = "running" /\ queue # <<>>
            /\ f = Head(queue) /\ queue' = Tail(queue)

\* The five commands of the protocol, with a level the backlight has.
WellFormed(f) ==
    \/ f.type = "set" /\ f.len = 4 /\ f.bytes = 6 /\ f.value <= Max
    \/ f.type = "modify" /\ f.len = 4 /\ f.bytes = 6
    \/ f.type \in {"save", "restore"} /\ f.len = 0 /\ f.bytes = 2
    \/ f.type = "powersave" /\ f.len = 0 /\ f.bytes = 2 /\ PowersaveValue <= Max

\* A datagram that is not a command of the protocol, is cut short, is too long
\* or asks for a level the backlight does not have changes nothing.
OnlyCommandsAct ==
    [][\A f \in Frame : Takes(f) /\ ~WellFormed(f) =>
         UNCHANGED <<device, current, storage, tmp>>]_vars

\* "Modify applies the signed integer value to the current brightness value.
\* The final value is clamped."
ModifyClamps ==
    [][\A f \in Frame : Takes(f) /\ WellFormed(f) /\ f.type = "modify" /\ ~blBad =>
         current' = IF current + f.value < 0 THEN 0
                    ELSE IF current + f.value > Max THEN Max
                    ELSE current + f.value]_vars

\* A daemon that got its signal ends.
StopsOnSignal == sig ~> pc = "down"

\* A full socket does not stay full while the daemon receives.
QueueDrains ==
    pc = "running" /\ Len(queue) = QueueMax ~> Len(queue) < QueueMax \/ receive = "failed"

=============================================================================
