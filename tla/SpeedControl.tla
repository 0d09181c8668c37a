---------------------------- MODULE SpeedControl ----------------------------
(***************************************************************************)
(* speedcontrolpp: sets the speed of an optical drive with SET_STREAMING,  *)
(* or, when the drive refuses that, with the legacy command.               *)
(***************************************************************************)
EXTENDS Integers

CONSTANTS
    UintMax,    \* the largest value of an uint32_t
    Speeds      \* the speeds asked for, each an unsigned

ASSUME SpeedAssumption ==
    /\ UintMax \in Nat
    /\ Speeds \subseteq 0 .. UintMax

VARIABLES
    speedPc,    \* where the program is, or how it ended
    speed,      \* --speed
    readSize,   \* perf_desc_.read_size and .write_size
    restore,    \* perf_desc_.restore_logical_unit_defaults
    drive       \* what the drive was told last: "nothing" before

speedVars == <<speedPc, speed, readSize, restore, drive>>

kReadSizeMultiplier == 177

\* Mutant: the guard is one multiple too loose.
LooseGuardMutant == UintMax \div (kReadSizeMultiplier - 1)

kMaxSpeed == UintMax \div (kReadSizeMultiplier + 1)

SpeedInit ==
    /\ speedPc = "start"
    /\ speed \in Speeds
    /\ readSize = 0
    /\ restore = FALSE
    /\ drive = "nothing"

\* The product is one of 32 bits.
SetStreaming ==
    /\ speedPc = "start"
    /\ IF speed >= kMaxSpeed
       THEN speedPc' = "refused" /\ UNCHANGED <<readSize, restore>>
       ELSE /\ speedPc' = "issue"
            /\ readSize' = (speed * kReadSizeMultiplier) % (UintMax + 1)
            /\ restore' = (speed = 0)
    /\ UNCHANGED <<speed, drive>>

\* issue: the device cannot be opened, the drive takes the command, or not.
Issue ==
    /\ speedPc = "issue"
    /\ \/ speedPc' \in {"failed", "legacy"} /\ UNCHANGED drive
       \/ speedPc' = "done" /\ drive' = "streaming"
    /\ UNCHANGED <<speed, readSize, restore>>

\* The legacy command; when it fails, too, a dump is all that tells.
SelectSpeed ==
    /\ speedPc = "legacy"
    /\ speedPc' = "done"
    /\ drive' \in {"legacy", drive}
    /\ UNCHANGED <<speed, readSize, restore>>

SpeedNext == SetStreaming \/ Issue \/ SelectSpeed

SpeedSpec == SpeedInit /\ [][SpeedNext]_speedVars

-----------------------------------------------------------------------------
(* Properties *)

\* A drive is told the speed that was asked for, in kbyte/s and not modulo the
\* range of the field, and 0 only to restore its defaults.
SpeedNotWrapped ==
    drive = "streaming" => readSize = speed * 177 /\ (restore <=> readSize = 0)

=============================================================================
