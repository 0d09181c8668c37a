------------------------------ MODULE ClevoAmp ------------------------------
(***************************************************************************)
(* clevo_amp_control: programs that look up the i2c bus of a headphone     *)
(* amplifier and write a mode to its registers, one transfer after the     *)
(* other.  Any transfer may fail, a program may be killed between two, and *)
(* two programs may run at a time: they share nothing but the bus.         *)
(***************************************************************************)
EXTENDS Integers, Sequences, Functions

CONSTANTS
    Proc,           \* programs that may run at a time
    MaxRuns,        \* bound: how many programs are started
    Arguments,      \* the indices asked for, with the mode effect
    UnsignedRange,  \* the number of values of an unsigned (2^32)
    Directories,    \* what /sys/class/i2c-dev may hold
    Garbage,        \* what an uninitialised byte may hold
    Leftover,       \* what the uninitialised i2c_idx may hold
    PowerOn         \* the amplifier's registers when it is powered

ASSUME ArgumentAssumption ==
    UnsignedRange \in Nat \ {0} /\ Arguments \subseteq Nat /\ MaxRuns \in Nat

\* An entry of a directory: its number, or NoNumber for a name that is not
\* i2c-N; whether its attribute name can be opened, and names the adapter.
NoNumber == -2
Entry == [number : Nat \cup {NoNumber}, opens : BOOLEAN, matches : BOOLEAN]

ASSUME DirectoryAssumption == Directories \subseteq Seq(Entry) /\ Leftover \subseteq Int

VARIABLES
    pc,      \* where each program is; "idle" when it does not run
    at,      \* ep: how many entries of dir it has read
    idx,     \* i2c_idx of open_amplifier
    job,     \* the mode, and for "effect" the effect, of each program
    bus,     \* slv->fd: the bus each program has opened
    step,    \* the transfer each program is at
    val,     \* prolog_write's val
    ret,     \* main's ret
    dir,     \* /sys/class/i2c-dev, in the order of readdir
    regs,    \* the amplifier's registers
    runs,    \* how many programs have been started
    solo,    \* history: it is at the amplifier, and nothing overlapped it so far
    before   \* history: the registers before the program's first transfer

files   == <<job, bus, dir>>
lookup  == <<at, idx>>
history == <<solo, before>>
vars == <<pc, at, idx, job, bus, step, val, ret, dir, regs, runs, solo, before>>

-----------------------------------------------------------------------------
(* Registers and effects *)

Output == 0
Prolog == 10
Repair == 11

EffectCmds == <<4, 5, 7, 8, 9>>
Registers  == {Output, Prolog, Repair} \cup Range(EffectCmds)
Byte       == 0 .. 255

Disable == 134
Enable  == 130

Effects == 0 .. 6

\* effects_vals, of which the first row is effect 0
Rows == << << 17,  2, 34, 130,  34>>, <<238,  3, 64, 132, 255>>, <<170, 35, 64, 132, 0>>,
           <<170, 34, 51, 132,   0>>, <<136,  3, 35, 130,  34>>, <<170, 35, 65, 132, 0>>,
           <<170,  2, 67, 130,   0>> >>

EffectVals(e) == Rows[e + 1]

BassBoost == 1

ASSUME ValueAssumption == Garbage \subseteq Byte /\ PowerOn \in [Registers -> Byte]

-----------------------------------------------------------------------------
(* The transfers of a mode *)

Write(r, v)  == [kind |-> "write", reg |-> r, value |-> v]
Read(r)      == [kind |-> "read",  reg |-> r]
WriteBack(r) == [kind |-> "back",  reg |-> r]

PrologSteps == <<Write(Prolog, 65), Read(4), WriteBack(4), Read(9), WriteBack(9)>>

EffectSteps(e) == [i \in 1 .. 5 |-> Write(EffectCmds[i], EffectVals(e)[i])]

\* Mutant: the output is enabled before the effect is written.
EarlyEnableMutant(j) ==
    CASE j.mode = "effect"   -> <<Write(Output, Disable), Write(Output, Enable)>> \o EffectSteps(j.effect)
      [] j.mode = "mute"     -> <<Write(Output, Disable)>>
      [] j.mode = "unmute"   -> <<Write(Output, Enable)>>
      [] j.mode = "recovery" -> <<Write(Repair, 130), Write(Repair, 146)>>

\* What amp_effect, amp_mute and amp_recovery hand to pakets_write; init is an
\* effect.
Pakets(j) ==
    CASE j.mode = "effect"   -> <<Write(Output, Disable)>> \o EffectSteps(j.effect) \o <<Write(Output, Enable)>>
      [] j.mode = "mute"     -> <<Write(Output, Disable)>>
      [] j.mode = "unmute"   -> <<Write(Output, Enable)>>
      [] j.mode = "recovery" -> <<Write(Repair, 130), Write(Repair, 146)>>

\* Mutant: the loop over the pakets stops one short.
ShortLoopMutant(j) == PrologSteps \o SubSeq(Pakets(j), 1, Len(Pakets(j)) - 1)

\* pakets_write
Steps(j) == PrologSteps \o Pakets(j)

-----------------------------------------------------------------------------
(* The buses *)

\* The entries that are buses, and those of them the amplifier is behind.
Entries  == {i \in DOMAIN dir : dir[i].number # NoNumber}
Adapters == {i \in Entries : dir[i].matches}
Buses    == {dir[i].number : i \in Entries}

OnAmp(p) == \E i \in Adapters : bus[p] = dir[i].number

-----------------------------------------------------------------------------
(* A program *)

NoJob == [mode |-> "invalid", effect |-> 0]

Init ==
    /\ pc = [p \in Proc |-> "idle"]
    /\ at = [p \in Proc |-> 0]
    /\ idx = [p \in Proc |-> 0]
    /\ job = [p \in Proc |-> NoJob]
    /\ bus = [p \in Proc |-> -1]
    /\ step = [p \in Proc |-> 0]
    /\ val = [p \in Proc |-> 0]
    /\ ret = [p \in Proc |-> 0]
    /\ dir \in Directories
    /\ regs = PowerOn
    /\ runs = 0
    /\ solo = [p \in Proc |-> FALSE]
    /\ before = [p \in Proc |-> PowerOn]

Start(p) == pc[p] = "idle" /\ runs < MaxRuns /\ runs' = runs + 1

\* Program p ends with the exit status r.
Finish(p, r) ==
    /\ pc' = [pc EXCEPT ![p] = "close"]
    /\ ret' = [ret EXCEPT ![p] = r]

\* main calls open_amplifier, and opendir succeeds.
BeginLookup(p) ==
    /\ Start(p)
    /\ pc' = [pc EXCEPT ![p] = "lookup"]
    /\ \E i \in Leftover : idx' = [idx EXCEPT ![p] = i]
    /\ UNCHANGED <<at, files, step, val, ret, regs, history>>

\* Mutant: the index of an adapter that does not match is kept.
NoResetMutant(p, e) ==
    \/ e.number = NoNumber /\ UNCHANGED <<idx, pc>>
    \/ /\ e.number # NoNumber
       /\ idx' = [idx EXCEPT ![p] = e.number]
       /\ pc' = IF e.opens /\ e.matches THEN [pc EXCEPT ![p] = "open"] ELSE pc

\* What the loop makes of an entry.  One that is no i2c-N, and one whose name
\* cannot be opened, go on to the next round before i2c_idx is reset; the number
\* of the latter stays in it.
LookAt(p, e) ==
    \/ e.number = NoNumber /\ UNCHANGED <<idx, pc>>
    \/ e.number # NoNumber /\ ~e.opens /\ idx' = [idx EXCEPT ![p] = e.number] /\ UNCHANGED pc
    \/ /\ e.number # NoNumber /\ e.opens /\ e.matches
       /\ idx' = [idx EXCEPT ![p] = e.number]
       /\ pc' = [pc EXCEPT ![p] = "open"]
    \/ e.number # NoNumber /\ e.opens /\ ~e.matches /\ idx' = [idx EXCEPT ![p] = -1] /\ UNCHANGED pc

\* One round of the loop over the directory, or its end.
Lookup(p) ==
    /\ pc[p] = "lookup"
    /\ \/ at[p] < Len(dir) /\ at' = [at EXCEPT ![p] = @ + 1] /\ LookAt(p, dir[at[p] + 1])
       \/ at[p] = Len(dir) /\ pc' = [pc EXCEPT ![p] = "open"] /\ UNCHANGED lookup
    /\ UNCHANGED <<files, step, val, ret, regs, runs, history>>

\* open_amplifier cannot open the directory, finds no bus, or cannot open it or
\* set the address.
OpenFails(p) ==
    /\ \/ Start(p)
       \/ pc[p] = "open" /\ UNCHANGED runs
    /\ Finish(p, -1)
    /\ UNCHANGED <<lookup, files, step, val, regs, history>>

OpenAmplifier(p) ==
    /\ pc[p] = "open"
    /\ idx[p] \in Buses /\ bus' = [bus EXCEPT ![p] = idx[p]]
    /\ pc' = [pc EXCEPT ![p] = "mode"]
    /\ UNCHANGED <<lookup, job, step, val, ret, dir, regs, runs, history>>

\* Programs at the amplifier.
Busy == {q \in Proc : pc[q] \in {"transfer", "close"} /\ OnAmp(q)}

\* Program p starts its transfers.
Begin(p, j) ==
    /\ pc' = [pc EXCEPT ![p] = "transfer"]
    /\ job' = [job EXCEPT ![p] = j]
    /\ step' = [step EXCEPT ![p] = 1]
    /\ UNCHANGED ret
    /\ IF OnAmp(p)
       THEN /\ solo' = [q \in Proc |-> IF q = p THEN Busy = {} ELSE solo[q] /\ q \notin Busy]
            /\ before' = [q \in Proc |-> IF q = p /\ Busy = {} THEN regs
                                         ELSE IF q \in Busy THEN PowerOn ELSE before[q]]
       ELSE UNCHANGED history

\* parse_effect; sscanf stores the number modulo the range of an unsigned.
EffectOf(n)  == n % UnsignedRange
IsEffect(n)  == EffectOf(n) < 7

\* unfmt_modes and the switch of main; the mode init is the effect BassBoost.
Dispatch(p) ==
    /\ pc[p] = "mode"
    /\ \/ \E m \in {"mute", "unmute", "recovery"} : Begin(p, [mode |-> m, effect |-> 0])
       \/ Begin(p, [mode |-> "effect", effect |-> BassBoost])
       \/ \E n \in Arguments : IsEffect(n) /\ Begin(p, [mode |-> "effect", effect |-> EffectOf(n)])
       \/ /\ Finish(p, -2)  \* an unknown mode, an index that is missing or refused
          /\ UNCHANGED <<job, step, history>>
    /\ UNCHANGED <<lookup, bus, val, dir, regs, runs>>

\* i2c_write: the value gets to the amplifier if p has opened its bus.
Put(p, r, v) == regs' = IF OnAmp(p) THEN [regs EXCEPT ![r] = v] ELSE regs

\* What the transfer t of program p does when it succeeds.
Perform(p, t) ==
    \/ t.kind = "write" /\ Put(p, t.reg, t.value) /\ UNCHANGED val
    \/ t.kind = "back" /\ Put(p, t.reg, val[p]) /\ UNCHANGED val
    \/ /\ t.kind = "read"
       /\ \E b \in IF OnAmp(p) THEN {regs[t.reg]} ELSE Garbage : val' = [val EXCEPT ![p] = b]
       /\ UNCHANGED regs

Transfer(p) ==
    /\ pc[p] = "transfer"
    /\ Perform(p, Steps(job[p])[step[p]])
    /\ IF step[p] = Len(Steps(job[p]))
       THEN Finish(p, 0) /\ UNCHANGED step
       ELSE step' = [step EXCEPT ![p] = @ + 1] /\ UNCHANGED <<pc, ret>>
    /\ UNCHANGED <<lookup, files, runs, history>>

\* Mutant: a failing read in prolog_write is ignored, and val keeps what it held.
ReadIgnoredMutant(p) ==
    /\ pc[p] = "transfer"
    /\ LET t == Steps(job[p])[step[p]]
       IN  IF t.kind = "read"
           THEN /\ \E b \in Garbage : val' = [val EXCEPT ![p] = b]
                /\ step' = [step EXCEPT ![p] = @ + 1]
                /\ UNCHANGED <<pc, ret, regs>>
           ELSE Finish(p, -2) /\ UNCHANGED <<val, step, regs>>
    /\ UNCHANGED <<lookup, files, runs, history>>

\* A transfer fails and ends the program; a write may have got through.
TransferFails(p) ==
    /\ pc[p] = "transfer"
    /\ \/ UNCHANGED <<val, regs>>
       \/ Steps(job[p])[step[p]].kind # "read" /\ Perform(p, Steps(job[p])[step[p]])
    /\ Finish(p, -2)
    /\ UNCHANGED <<lookup, step, files, runs, history>>

\* Program p is gone, by i2c_fini and return, or by a signal anywhere.
Exit(p) ==
    /\ pc[p] # "idle"
    /\ pc' = [pc EXCEPT ![p] = "idle"]
    /\ at' = [at EXCEPT ![p] = 0]
    /\ idx' = [idx EXCEPT ![p] = 0]
    /\ job' = [job EXCEPT ![p] = NoJob]
    /\ bus' = [bus EXCEPT ![p] = -1]
    /\ step' = [step EXCEPT ![p] = 0]
    /\ val' = [val EXCEPT ![p] = 0]
    /\ ret' = [ret EXCEPT ![p] = 0]
    /\ solo' = [solo EXCEPT ![p] = FALSE]
    /\ before' = [before EXCEPT ![p] = PowerOn]
    /\ UNCHANGED <<dir, regs, runs>>

Next == \E p \in Proc :
    \/ BeginLookup(p) \/ Lookup(p) \/ OpenFails(p) \/ OpenAmplifier(p)
    \/ Dispatch(p) \/ Transfer(p) \/ TransferFails(p) \/ Exit(p)

Spec == Init /\ [][Next]_vars

-----------------------------------------------------------------------------
(* Properties *)

\* Every variable keeps its type; an effect is a row of the table, also for an
\* index that does not fit.
TypeOK ==
    /\ pc \in [Proc -> {"idle", "lookup", "open", "mode", "transfer", "close"}]
    /\ at \in [Proc -> Nat]
    /\ idx \in [Proc -> Int]
    /\ job \in [Proc -> [mode : {"invalid", "effect", "mute", "unmute", "recovery"}, effect : Effects]]
    /\ bus \in [Proc -> {-1} \cup Buses]
    /\ step \in [Proc -> 0 .. 12]
    /\ val \in [Proc -> Byte]
    /\ ret \in [Proc -> {0, -1, -2}]
    /\ dir \in Directories
    /\ regs \in [Registers -> Byte]
    /\ runs \in 0 .. MaxRuns
    /\ solo \in [Proc -> BOOLEAN]
    /\ before \in [Proc -> [Registers -> Byte]]

Readable == {i \in Adapters : dir[i].opens}

\* The number of the first adapter whose name can be read.  When there is none it
\* is no bus, unless the last one of the directory cannot be looked at: then it is
\* that one; and what i2c_idx held before counts only when there is no bus at all.
RightIndex(n) ==
    \/ \E i \in Readable : n = dir[i].number /\ \A k \in Readable : i <= k
    \/ /\ Readable = {}
       /\ \E i \in Entries : /\ \A k \in Entries : k <= i
                            /\ n = IF dir[i].opens THEN -1 ELSE dir[i].number
    \/ Entries = {} /\ n \in Leftover

\* Every lookup ends with the right index, whatever the directory holds and
\* i2c_idx held before.
LookupExact == \A p \in Proc : pc[p] = "open" => RightIndex(idx[p])

\* What the amplifier is after mode j, if it was r before.
Intended(j, r) ==
    [c \in Registers |->
        CASE c = Prolog -> 65
          [] c = Output /\ j.mode \in {"effect", "unmute"} -> Enable
          [] c = Output /\ j.mode = "mute" -> Disable
          [] c = Repair /\ j.mode = "recovery" -> 146
          [] c \in Range(EffectCmds) /\ j.mode = "effect" ->
                EffectVals(j.effect)[CHOOSE i \in 1 .. 5 : EffectCmds[i] = c]
          [] OTHER -> r[c]]

\* A program at the amplifier that reports success has put it in its mode and
\* changed nothing else, unless another one overlapped it, whatever failed
\* programs left behind; that it is at the amplifier is LookupExact.
SuccessExact ==
    \A p \in Proc : pc[p] = "close" /\ ret[p] = 0 /\ solo[p] => regs = Intended(job[p], before[p])

\* No register ever has a value but the one it was powered with, or one that a
\* mode gives to it: what prolog_write reads and writes back is never made up,
\* also with overlapping programs and failing reads.
NoMadeUpValue ==
    \A c \in Registers :
        \/ regs[c] = PowerOn[c]
        \/ c = Prolog /\ regs[c] = 65
        \/ c = Output /\ regs[c] \in {Enable, Disable}
        \/ c = Repair /\ regs[c] \in {130, 146}
        \/ \E i \in 1 .. 5, e \in Effects : c = EffectCmds[i] /\ regs[c] = EffectVals(e)[i]

\* A mix of effects, on an output that is enabled.
EffectRegs(r) == [i \in 1 .. 5 |-> r[EffectCmds[i]]]
MixHeard(r) ==
    /\ r[Output] # Disable
    /\ EffectRegs(r) \notin {EffectVals(e) : e \in Effects} \cup {EffectRegs(PowerOn)}

\* A mix of effects gets to the headphones only when someone unmutes after an
\* effect that failed half way, or when programs overlap: never by an effect
\* that is being written, wherever it fails or is killed.
OnlyWholeEffectsHeard ==
    [][MixHeard(regs') /\ ~MixHeard(regs) =>
        \E p \in Proc : pc[p] = "transfer" /\ (job[p].mode = "unmute" \/ ~solo[p])]_vars

=============================================================================
