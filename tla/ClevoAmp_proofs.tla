--------------------------- MODULE ClevoAmp_proofs ---------------------------
(***************************************************************************)
(* Proofs about ClevoAmp, for any number of programs, any directory of     *)
(* buses, and all values the amplifier may be powered with.                *)
(***************************************************************************)
EXTENDS ClevoAmp, SequenceTheorems, TLAPS

USE ArgumentAssumption, ValueAssumption

-----------------------------------------------------------------------------
(* The transfers of a mode, one by one *)

Writes    == [kind: {"write"}, reg: Registers, value: Byte]
Transfers == Writes \cup [kind: {"read", "back"}, reg: Registers]

Job == [mode : {"effect", "mute", "unmute", "recovery"}, effect : Effects]

\* A value that register c may have: NoMadeUpValue is this for all registers.
Given(c, v) ==
    \/ v = PowerOn[c]
    \/ c = Prolog /\ v = 65
    \/ c = Output /\ v \in {Enable, Disable}
    \/ c = Repair /\ v \in {130, 146}
    \/ \E i \in 1 .. 5, e \in Effects : c = EffectCmds[i] /\ v = EffectVals(e)[i]

\* The registers by their numbers: those of the pakets and of the table.
LEMMA RegisterSet == Registers = {0, 4, 5, 7, 8, 9, 10, 11}
<1>1. Range(EffectCmds) = {4, 5, 7, 8, 9}
  BY DEF Range, EffectCmds
<1> QED
  BY <1>1 DEF Registers, Output, Prolog, Repair

\* The table is one of bytes.
LEMMA EffectBytes ==
    ASSUME NEW e \in Effects, NEW i \in 1 .. 5
    PROVE  EffectVals(e)[i] \in Byte /\ EffectCmds[i] \in Registers
<1>1. e \in {0, 1, 2, 3, 4, 5, 6} /\ i \in {1, 2, 3, 4, 5}
  BY DEF Effects
<1>2. EffectCmds[i] \in Registers
  BY <1>1, RegisterSet DEF EffectCmds
<1>3. EffectVals(e) \in {Rows[1], Rows[2], Rows[3], Rows[4], Rows[5], Rows[6], Rows[7]}
  BY <1>1 DEF EffectVals
<1>4. EffectVals(e)[i] \in Byte
  BY <1>1, <1>3 DEF Rows, Byte
<1> QED
  BY <1>2, <1>4

\* Concatenation, element by element.
LEMMA Concat ==
    ASSUME NEW T, NEW u \in Seq(T), NEW w \in Seq(T)
    PROVE  /\ u \o w \in Seq(T)
           /\ Len(u \o w) = Len(u) + Len(w)
           /\ \A i \in 1 .. Len(u) : (u \o w)[i] = u[i]
           /\ \A i \in 1 .. Len(w) : (u \o w)[i + Len(u)] = w[i]
  OBVIOUS

\* A function on 1 to 5 is a sequence of five.
LEMMA Five ==
    ASSUME NEW T, NEW f \in [1 .. 5 -> T]
    PROVE  f \in Seq(T) /\ Len(f) = 5
<1>1. f \in Seq(T)
  <2>1. f \in UNION {[1 .. n -> T] : n \in Nat}
    OBVIOUS
  <2> QED
    BY <2>1, SeqDef, Zenon
<1>2. Len(f) \in Nat /\ 1 .. Len(f) = 1 .. 5
  BY <1>1, LenProperties, Zenon
<1>3. Len(f) = 5
  BY <1>2
<1> QED
  BY <1>1, <1>3

\* A tuple of one is a sequence of one.
LEMMA One ==
    ASSUME NEW T, NEW x \in T
    PROVE  <<x>> \in Seq(T) /\ Len(<<x>>) = 1 /\ <<x>>[1] = x
  OBVIOUS

\* One element, five, and one more.
LEMMA Seven ==
    ASSUME NEW T, NEW x \in T, NEW f \in [1 .. 5 -> T], NEW y \in T
    PROVE  /\ (<<x>> \o f) \o <<y>> \in Seq(T)
           /\ Len((<<x>> \o f) \o <<y>>) = 7
           /\ \A i \in 1 .. 7 :
                 ((<<x>> \o f) \o <<y>>)[i] = IF i = 1 THEN x ELSE IF i = 7 THEN y ELSE f[i - 1]
<1>1. f \in Seq(T) /\ Len(f) = 5
  BY Five
<1>2. PICK g \in Seq(T) : g = <<x>> \o f
  BY <1>1, One, Concat
<1>3. /\ Len(g) = 6
      /\ \A i \in 1 .. 6 : g[i] = IF i = 1 THEN x ELSE f[i - 1]
  <2>1. PICK o \in Seq(T) : o = <<x>> /\ Len(o) = 1 /\ o[1] = x
    BY One
  <2>2. /\ Len(o \o f) = Len(o) + Len(f)
        /\ \A i \in 1 .. Len(o) + Len(f) : (o \o f)[i] = IF i <= Len(o) THEN o[i] ELSE f[i - Len(o)]
    BY <1>1, ConcatProperties
  <2>3. g = o \o f
    BY <1>2, <2>1
  <2> HIDE <1>2
  <2>4. /\ Len(g) = 1 + 5
        /\ \A i \in 1 .. 1 + 5 : g[i] = IF i <= 1 THEN o[i] ELSE f[i - 1]
    BY <1>1, <2>1, <2>2, <2>3, Zenon
  <2> QED
    BY <2>1, <2>4
<1>4. /\ g \o <<y>> \in Seq(T) /\ Len(g \o <<y>>) = 7
      /\ \A i \in 1 .. 7 : (g \o <<y>>)[i] = IF i = 7 THEN y ELSE g[i]
  <2>1. PICK o \in Seq(T) : o = <<y>> /\ Len(o) = 1 /\ o[1] = y
    BY One
  <2>2. /\ g \o o \in Seq(T)
        /\ Len(g \o o) = Len(g) + Len(o)
        /\ \A i \in 1 .. Len(g) + Len(o) : (g \o o)[i] = IF i <= Len(g) THEN g[i] ELSE o[i - Len(g)]
    BY ConcatProperties
  <2>3. PICK s \in Seq(T) : s = g \o o
    BY <2>2
  <2>4. /\ Len(s) = 6 + 1
        /\ \A i \in 1 .. 6 + 1 : s[i] = IF i <= 6 THEN g[i] ELSE o[i - 6]
    BY <1>3, <2>1, <2>2, <2>3, Zenon
  <2>5. Len(s) = 7 /\ \A i \in 1 .. 7 : s[i] = IF i = 7 THEN y ELSE g[i]
    BY <2>1, <2>4
  <2>6. g \o <<y>> = s
    BY <2>1, <2>3, Zenon
  <2> QED
    BY <2>5, <2>6, Zenon
<1> QED
  BY <1>2, <1>3, <1>4

\* What amp_effect hands to pakets_write.
LEMMA EffectPakets ==
    ASSUME NEW j \in Job, j.mode = "effect"
    PROVE  /\ Pakets(j) \in Seq(Writes) /\ Len(Pakets(j)) = 7
           /\ \A i \in 1 .. 7 :
                 Pakets(j)[i] = IF i = 1 THEN Write(Output, Disable)
                                ELSE IF i = 7 THEN Write(Output, Enable)
                                ELSE EffectSteps(j.effect)[i - 1]
<1>1. j.effect \in Effects
  BY DEF Job
<1>2. EffectSteps(j.effect) \in [1 .. 5 -> Writes]
  BY <1>1, EffectBytes DEF EffectSteps, Write, Writes
<1>3. /\ Output \in Registers /\ {Enable, Disable} \subseteq Byte
  BY RegisterSet DEF Output, Enable, Disable, Byte
<1>4. Write(Output, Disable) \in Writes /\ Write(Output, Enable) \in Writes
  BY <1>3 DEF Write, Writes
<1>5. Pakets(j) = (<<Write(Output, Disable)>> \o EffectSteps(j.effect)) \o <<Write(Output, Enable)>>
  BY DEF Pakets
<1> QED
  BY <1>2, <1>4, <1>5, Seven

\* What is handed to pakets_write are one to seven writes of values that the
\* mode gives to these registers.
LEMMA PaketsAre ==
    ASSUME NEW j \in Job
    PROVE  /\ Pakets(j) \in Seq(Writes) /\ Len(Pakets(j)) \in 1 .. 7
           /\ \A i \in 1 .. Len(Pakets(j)) : Given(Pakets(j)[i].reg, Pakets(j)[i].value)
<1>0. /\ Output \in Registers /\ Repair \in Registers
      /\ {Enable, Disable, 130, 146} \subseteq Byte
  BY RegisterSet DEF Output, Repair, Enable, Disable, Byte
<1>1. CASE j.mode = "mute"
  BY <1>0, <1>1 DEF Pakets, Write, Writes, Given
<1>2. CASE j.mode = "unmute"
  BY <1>0, <1>2 DEF Pakets, Write, Writes, Given
<1>3. CASE j.mode = "recovery"
  BY <1>0, <1>3 DEF Pakets, Write, Writes, Given
<1>4. CASE j.mode = "effect"
  <2>1. j.effect \in Effects
    BY DEF Job
  <2>2. /\ Pakets(j) \in Seq(Writes) /\ Len(Pakets(j)) = 7
        /\ \A i \in 1 .. 7 :
              Pakets(j)[i] = IF i = 1 THEN Write(Output, Disable)
                             ELSE IF i = 7 THEN Write(Output, Enable)
                             ELSE EffectSteps(j.effect)[i - 1]
    BY <1>4, EffectPakets
  <2>3. \A i \in 1 .. 5 :
            Given(EffectSteps(j.effect)[i].reg, EffectSteps(j.effect)[i].value)
    BY <2>1 DEF EffectSteps, Write, Given
  <2>4. /\ Given(Write(Output, Disable).reg, Write(Output, Disable).value)
        /\ Given(Write(Output, Enable).reg, Write(Output, Enable).value)
    BY DEF Write, Given
  <2>5. \A i \in 1 .. 7 : Given(Pakets(j)[i].reg, Pakets(j)[i].value)
    <3> SUFFICES ASSUME NEW i \in 1 .. 7 PROVE Given(Pakets(j)[i].reg, Pakets(j)[i].value)
      OBVIOUS
    <3>1. i = 1 \/ i = 7 \/ i - 1 \in 1 .. 5
      OBVIOUS
    <3> QED
      BY <2>2, <2>3, <2>4, <3>1
  <2> QED
    BY <2>2, <2>5
<1> QED
  BY <1>1, <1>2, <1>3, <1>4 DEF Job

\* The transfers of a mode: what prolog_write does, and then the pakets.
LEMMA StepsSplit ==
    ASSUME NEW j \in Job
    PROVE  /\ Len(Steps(j)) = 5 + Len(Pakets(j))
           /\ \A i \in 1 .. 5 : Steps(j)[i] = PrologSteps[i]
           /\ \A i \in 1 .. Len(Pakets(j)) : Steps(j)[i + 5] = Pakets(j)[i]
<1>1. \A i \in 1 .. 5 : PrologSteps[i] \in Transfers
  <2>1. Prolog \in Registers /\ 4 \in Registers /\ 9 \in Registers /\ 65 \in Byte
    BY RegisterSet DEF Prolog, Byte
  <2>2. Write(Prolog, 65) \in Transfers
    BY <2>1 DEF Write, Writes, Transfers
  <2>3. /\ Read(4) \in Transfers /\ Read(9) \in Transfers
        /\ WriteBack(4) \in Transfers /\ WriteBack(9) \in Transfers
    BY <2>1 DEF Read, WriteBack, Transfers
  <2> QED
    BY <2>2, <2>3 DEF PrologSteps
<1>2. PrologSteps \in Seq(Transfers) /\ Len(PrologSteps) = 5
  <2>1. PrologSteps = [i \in 1 .. 5 |-> PrologSteps[i]]
    BY DEF PrologSteps
  <2>2. PrologSteps \in [1 .. 5 -> Transfers]
    BY <1>1, <2>1
  <2> QED
    BY <2>2, Five
<1>3. PICK w \in Seq(Writes) : w = Pakets(j)
  BY PaketsAre
<1>4. w \in Seq(Transfers)
  BY SeqMonotonic DEF Transfers
<1>5. PICK u \in Seq(Transfers) : u = PrologSteps /\ Len(u) = 5
  BY <1>2
<1>6. /\ Len(u \o w) = Len(u) + Len(w)
      /\ \A i \in 1 .. Len(u) + Len(w) : (u \o w)[i] = IF i <= Len(u) THEN u[i] ELSE w[i - Len(u)]
  BY <1>4, ConcatProperties
<1>7. Steps(j) = u \o w
  BY <1>3, <1>5 DEF Steps
<1>8. /\ Len(Steps(j)) = 5 + Len(w)
      /\ \A i \in 1 .. 5 + Len(w) : Steps(j)[i] = IF i <= 5 THEN u[i] ELSE w[i - 5]
  BY <1>5, <1>6, <1>7, Zenon
<1>9. ASSUME NEW i \in 1 .. Len(w) PROVE Steps(j)[i + 5] = w[i]
  <2>1. i + 5 \in 1 .. 5 + Len(w) /\ ~(i + 5 <= 5) /\ (i + 5) - 5 = i
    OBVIOUS
  <2> QED
    BY <1>8, <2>1
<1>10. \A i \in 1 .. 5 : Steps(j)[i] = PrologSteps[i]
  BY <1>5, <1>8
<1> QED
  BY <1>3, <1>8, <1>9, <1>10

\* After what prolog_write does, there are only writes of values that are given.
LEMMA StepsAre ==
    ASSUME NEW j \in Job
    PROVE  /\ Len(Steps(j)) \in 6 .. 12
           /\ \A i \in 1 .. 5 : Steps(j)[i] = PrologSteps[i]
           /\ \A i \in 6 .. Len(Steps(j)) :
                 Steps(j)[i] \in Writes /\ Given(Steps(j)[i].reg, Steps(j)[i].value)
<1>1. PICK w \in Seq(Writes) :
          w = Pakets(j) /\ Len(w) \in 1 .. 7 /\ \A i \in 1 .. Len(w) : Given(w[i].reg, w[i].value)
  BY PaketsAre
<1>2. /\ Len(Steps(j)) = 5 + Len(w)
      /\ \A i \in 1 .. 5 : Steps(j)[i] = PrologSteps[i]
      /\ \A i \in 1 .. Len(w) : Steps(j)[i + 5] = w[i]
  BY <1>1, StepsSplit
<1>3. \A i \in 1 .. Len(w) : w[i] \in Writes
  BY ElementOfSeq
<1>4. Len(Steps(j)) \in 6 .. 12
  <2>1. \A n \in 1 .. 7 : 5 + n \in 6 .. 12
    OBVIOUS
  <2> QED
    BY <1>1, <1>2, <2>1, Zenon
<1>5. ASSUME NEW i \in 6 .. Len(Steps(j))
      PROVE  Steps(j)[i] \in Writes /\ Given(Steps(j)[i].reg, Steps(j)[i].value)
  <2>1. i - 5 \in 1 .. Len(w) /\ (i - 5) + 5 = i
    BY <1>1, <1>2
  <2>2. Steps(j)[i] = w[i - 5]
    BY <1>2, <2>1
  <2> QED
    BY <1>1, <1>3, <2>1, <2>2
<1> QED
  BY <1>2, <1>4, <1>5

\* What the transfer at step k of job j is.
LEMMA StepCases ==
    ASSUME NEW j \in Job, NEW k \in 1 .. Len(Steps(j))
    PROVE  LET t == Steps(j)[k]
           IN  \/ k = 1 /\ t = Write(Prolog, 65)
               \/ k = 2 /\ t = Read(4)
               \/ k = 3 /\ t = WriteBack(4)
               \/ k = 4 /\ t = Read(9)
               \/ k = 5 /\ t = WriteBack(9)
               \/ k \in 6 .. 12 /\ t \in Writes /\ Given(t.reg, t.value)
<1>1. k = 1 \/ k = 2 \/ k = 3 \/ k = 4 \/ k = 5 \/ k \in 6 .. Len(Steps(j))
  BY StepsAre
<1>2. \A i \in 1 .. 5 : Steps(j)[i] = PrologSteps[i]
  BY StepsAre
<1>3. CASE k \in 6 .. Len(Steps(j))
  <2>1. k \in 6 .. 12
    BY <1>3, StepsAre
  <2> QED
    BY <1>3, <2>1, StepsAre
<1> QED
  BY <1>1, <1>2, <1>3 DEF PrologSteps

\* The transfers after the prolog, mode by mode.
LEMMA ModeSteps ==
    ASSUME NEW j \in Job
    PROVE  /\ j.mode = "mute" => Len(Steps(j)) = 6 /\ Steps(j)[6] = Write(Output, Disable)
           /\ j.mode = "unmute" => Len(Steps(j)) = 6 /\ Steps(j)[6] = Write(Output, Enable)
           /\ j.mode = "recovery" =>
                 /\ Len(Steps(j)) = 7
                 /\ Steps(j)[6] = Write(Repair, 130) /\ Steps(j)[7] = Write(Repair, 146)
           /\ j.mode = "effect" =>
                 /\ Len(Steps(j)) = 12
                 /\ Steps(j)[6] = Write(Output, Disable) /\ Steps(j)[12] = Write(Output, Enable)
                 /\ \A i \in 1 .. 5 :
                       Steps(j)[i + 6] = Write(EffectCmds[i], EffectVals(j.effect)[i])
<1>1. /\ Len(Steps(j)) = 5 + Len(Pakets(j))
      /\ \A i \in 1 .. Len(Pakets(j)) : Steps(j)[i + 5] = Pakets(j)[i]
  BY StepsSplit
<1>2. ASSUME j.mode = "mute"
      PROVE  Len(Steps(j)) = 6 /\ Steps(j)[6] = Write(Output, Disable)
  <2>1. Len(Pakets(j)) = 1 /\ Pakets(j)[1] = Write(Output, Disable)
    BY <1>2 DEF Pakets
  <2>2. Steps(j)[1 + 5] = Pakets(j)[1]
    BY <1>1, <2>1
  <2> QED
    BY <1>1, <2>1, <2>2
<1>3. ASSUME j.mode = "unmute"
      PROVE  Len(Steps(j)) = 6 /\ Steps(j)[6] = Write(Output, Enable)
  <2>1. Len(Pakets(j)) = 1 /\ Pakets(j)[1] = Write(Output, Enable)
    BY <1>3 DEF Pakets
  <2>2. Steps(j)[1 + 5] = Pakets(j)[1]
    BY <1>1, <2>1
  <2> QED
    BY <1>1, <2>1, <2>2
<1>4. ASSUME j.mode = "recovery"
      PROVE  /\ Len(Steps(j)) = 7
             /\ Steps(j)[6] = Write(Repair, 130) /\ Steps(j)[7] = Write(Repair, 146)
  <2>1. /\ Len(Pakets(j)) = 2
        /\ Pakets(j)[1] = Write(Repair, 130) /\ Pakets(j)[2] = Write(Repair, 146)
    BY <1>4 DEF Pakets
  <2>2. Steps(j)[1 + 5] = Pakets(j)[1] /\ Steps(j)[2 + 5] = Pakets(j)[2]
    BY <1>1, <2>1
  <2> QED
    BY <1>1, <2>1, <2>2
<1>5. ASSUME j.mode = "effect"
      PROVE  /\ Len(Steps(j)) = 12
             /\ Steps(j)[6] = Write(Output, Disable) /\ Steps(j)[12] = Write(Output, Enable)
             /\ \A i \in 1 .. 5 :
                   Steps(j)[i + 6] = Write(EffectCmds[i], EffectVals(j.effect)[i])
  <2>1. /\ Len(Pakets(j)) = 7
        /\ \A i \in 1 .. 7 :
              Pakets(j)[i] = IF i = 1 THEN Write(Output, Disable)
                             ELSE IF i = 7 THEN Write(Output, Enable)
                             ELSE EffectSteps(j.effect)[i - 1]
    BY <1>5, EffectPakets
  <2>2. Len(Steps(j)) = 12
    BY <1>1, <2>1
  <2>3. Steps(j)[1 + 5] = Pakets(j)[1] /\ Steps(j)[7 + 5] = Pakets(j)[7]
    BY <1>1, <2>1
  <2>4. Pakets(j)[1] = Write(Output, Disable) /\ Pakets(j)[7] = Write(Output, Enable)
    BY <2>1
  <2>5. ASSUME NEW i \in 1 .. 5
        PROVE  Steps(j)[i + 6] = Write(EffectCmds[i], EffectVals(j.effect)[i])
    <3>1. i + 1 \in 1 .. 7 /\ (i + 1) + 5 = i + 6 /\ (i + 1) - 1 = i /\ i + 1 # 1 /\ i + 1 # 7
      OBVIOUS
    <3>2. Steps(j)[(i + 1) + 5] = Pakets(j)[i + 1]
      BY <1>1, <2>1, <3>1
    <3>3. Pakets(j)[i + 1] = EffectSteps(j.effect)[i]
      BY <2>1, <3>1
    <3> QED
      BY <3>1, <3>2, <3>3 DEF EffectSteps
  <2> QED
    BY <2>2, <2>3, <2>4, <2>5
<1> QED
  BY <1>2, <1>3, <1>4, <1>5

-----------------------------------------------------------------------------
(* What the first transfers of a mode leave *)

\* The registers g are what the first k transfers of job j make of r, when
\* nothing else happens to them.
Reached(j, k, r, g) ==
    /\ g[Prolog] = IF k >= 1 THEN 65 ELSE r[Prolog]
    /\ g[Output] = IF (j.mode = "effect" /\ k >= 12) \/ (j.mode = "unmute" /\ k >= 6) THEN Enable
                   ELSE IF j.mode \in {"effect", "mute"} /\ k >= 6 THEN Disable
                   ELSE r[Output]
    /\ g[Repair] = IF j.mode = "recovery" /\ k >= 7 THEN 146
                   ELSE IF j.mode = "recovery" /\ k >= 6 THEN 130
                   ELSE r[Repair]
    /\ \A i \in 1 .. 5 :
          g[EffectCmds[i]] = IF j.mode = "effect" /\ k >= i + 6 THEN EffectVals(j.effect)[i]
                             ELSE r[EffectCmds[i]]

\* The registers are eight different ones.
LEMMA Distinct ==
    /\ Prolog # Output /\ Prolog # Repair /\ Output # Repair
    /\ \A i \in 1 .. 5 : EffectCmds[i] \notin {Prolog, Output, Repair}
    /\ \A i, k \in 1 .. 5 : EffectCmds[i] = EffectCmds[k] => i = k
    /\ EffectCmds[1] = 4 /\ EffectCmds[5] = 9
    /\ Registers = {Prolog, Output, Repair} \cup {EffectCmds[i] : i \in 1 .. 5}
<1>1. 1 .. 5 = {1, 2, 3, 4, 5}
  OBVIOUS
<1>2. /\ Prolog = 10 /\ Output = 0 /\ Repair = 11
      /\ EffectCmds[1] = 4 /\ EffectCmds[2] = 5 /\ EffectCmds[3] = 7
      /\ EffectCmds[4] = 8 /\ EffectCmds[5] = 9
  BY DEF Prolog, Output, Repair, EffectCmds
<1>3. {EffectCmds[i] : i \in 1 .. 5} = {4, 5, 7, 8, 9}
  BY <1>1, <1>2
<1>4. \A i \in 1 .. 5 : EffectCmds[i] \notin {Prolog, Output, Repair}
  BY <1>1, <1>2
<1>5. \A i, k \in 1 .. 5 : EffectCmds[i] = EffectCmds[k] => i = k
  BY <1>1, <1>2
<1>6. Registers = {Prolog, Output, Repair} \cup {EffectCmds[i] : i \in 1 .. 5}
  BY <1>2, <1>3, RegisterSet
<1> QED
  BY <1>2, <1>4, <1>5, <1>6

\* Before the first transfer the registers are as they were.
LEMMA ReachedNone ==
    ASSUME NEW j \in Job, NEW r
    PROVE  Reached(j, 0, r, r)
  BY DEF Reached

\* A read, and writing back what a register has, are one transfer more.
LEMMA ReachedRest ==
    ASSUME NEW j \in Job, NEW k \in 2 .. 5, NEW r, NEW g, Reached(j, k - 1, r, g)
    PROVE  Reached(j, k, r, g)
  BY DEF Reached

\* While prolog_write runs, the registers of the effect are as they were.
LEMMA ReachedEffects ==
    ASSUME NEW j \in Job, NEW k \in 0 .. 6, NEW r, NEW g, Reached(j, k, r, g)
    PROVE  \A i \in 1 .. 5 : g[EffectCmds[i]] = r[EffectCmds[i]]
  BY DEF Reached

\* A write is one transfer more.
LEMMA ReachedWrite ==
    ASSUME NEW j \in Job, NEW k \in 1 .. Len(Steps(j)), NEW r,
           NEW g \in [Registers -> Byte], Reached(j, k - 1, r, g),
           k = 1 \/ k >= 6
    PROVE  Reached(j, k, r, [g EXCEPT ![Steps(j)[k].reg] = Steps(j)[k].value])
<1> DEFINE t == Steps(j)[k]
           h == [g EXCEPT ![t.reg] = t.value]
<1>1. k \in Int /\ Len(Steps(j)) \in 6 .. 12
  BY StepsAre
<1>2. /\ Prolog \in Registers /\ Output \in Registers /\ Repair \in Registers
      /\ \A i \in 1 .. 5 : EffectCmds[i] \in Registers
  BY Distinct
<1>3. \A c \in Registers : h[c] = IF c = t.reg THEN t.value ELSE g[c]
  OBVIOUS
<1>4. /\ h[Prolog] = IF Prolog = t.reg THEN t.value ELSE g[Prolog]
      /\ h[Output] = IF Output = t.reg THEN t.value ELSE g[Output]
      /\ h[Repair] = IF Repair = t.reg THEN t.value ELSE g[Repair]
      /\ \A i \in 1 .. 5 :
            h[EffectCmds[i]] = IF EffectCmds[i] = t.reg THEN t.value ELSE g[EffectCmds[i]]
  BY <1>2, <1>3
<1> HIDE DEF h
<1>5. CASE k = 1
  <2>1. t = Write(Prolog, 65)
    BY <1>5, StepCases
  <2>2. t.reg = Prolog /\ t.value = 65
    BY <2>1 DEF Write
  <2> QED
    BY <1>4, <1>5, <2>2, Distinct DEF Reached, h
<1>6. CASE k >= 6 /\ j.mode = "mute"
  <2>1. k = 6 /\ t = Write(Output, Disable)
    <3>1. Len(Steps(j)) = 6 /\ Steps(j)[6] = Write(Output, Disable)
      BY <1>6, ModeSteps
    <3> QED
      BY <1>6, <3>1
  <2>2. t.reg = Output /\ t.value = Disable
    BY <2>1 DEF Write
  <2> QED
    BY <1>4, <1>6, <2>1, <2>2, Distinct DEF Reached, h
<1>7. CASE k >= 6 /\ j.mode = "unmute"
  <2>1. k = 6 /\ t = Write(Output, Enable)
    <3>1. Len(Steps(j)) = 6 /\ Steps(j)[6] = Write(Output, Enable)
      BY <1>7, ModeSteps
    <3> QED
      BY <1>7, <3>1
  <2>2. t.reg = Output /\ t.value = Enable
    BY <2>1 DEF Write
  <2> QED
    BY <1>4, <1>7, <2>1, <2>2, Distinct DEF Reached, h
<1>8. CASE k >= 6 /\ j.mode = "recovery"
  <2>1. \/ k = 6 /\ t = Write(Repair, 130)
        \/ k = 7 /\ t = Write(Repair, 146)
    <3>1. /\ Len(Steps(j)) = 7
          /\ Steps(j)[6] = Write(Repair, 130) /\ Steps(j)[7] = Write(Repair, 146)
      BY <1>8, ModeSteps
    <3>2. k = 6 \/ k = 7
      BY <1>8, <3>1
    <3> QED
      BY <3>1, <3>2
  <2>2. t.reg = Repair /\ (k = 6 => t.value = 130) /\ (k = 7 => t.value = 146)
    BY <2>1 DEF Write
  <2>3. k = 6 \/ k = 7
    BY <2>1
  <2> QED
    BY <1>4, <1>8, <2>2, <2>3, Distinct DEF Reached, h
<1>9. CASE k >= 6 /\ j.mode = "effect"
  <2>1. Len(Steps(j)) = 12
    BY <1>9, ModeSteps
  <2>2. k = 6 \/ k = 12 \/ k - 6 \in 1 .. 5
    BY <1>1, <1>9, <2>1
  <2>3. CASE k = 6
    <3>1. t = Write(Output, Disable)
      BY <1>9, <2>3, ModeSteps
    <3>2. t.reg = Output /\ t.value = Disable
      BY <3>1 DEF Write
    <3> QED
      BY <1>4, <1>9, <2>3, <3>2, Distinct DEF Reached, h
  <2>4. CASE k = 12
    <3>1. t = Write(Output, Enable)
      BY <1>9, <2>4, ModeSteps
    <3>2. t.reg = Output /\ t.value = Enable
      BY <3>1 DEF Write
    <3> QED
      BY <1>4, <1>9, <2>4, <3>2, Distinct DEF Reached, h
  <2>5. CASE k - 6 \in 1 .. 5
    <3>1. PICK n \in 1 .. 5 : k = n + 6
      BY <1>1, <2>5
    <3>2. t = Write(EffectCmds[n], EffectVals(j.effect)[n])
      <4>1. \A i \in 1 .. 5 : Steps(j)[i + 6] = Write(EffectCmds[i], EffectVals(j.effect)[i])
        BY <1>9, ModeSteps
      <4> QED
        BY <3>1, <4>1
    <3>3. t.reg = EffectCmds[n] /\ t.value = EffectVals(j.effect)[n]
      BY <3>2 DEF Write
    <3>4. /\ h[Prolog] = g[Prolog] /\ h[Output] = g[Output] /\ h[Repair] = g[Repair]
          /\ \A i \in 1 .. 5 : h[EffectCmds[i]] = IF i = n THEN EffectVals(j.effect)[n]
                                                   ELSE g[EffectCmds[i]]
      BY <1>4, <3>3, Distinct
    <3>5. \A i \in 1 .. 5 : i # n => (k >= i + 6 <=> k - 1 >= i + 6)
      BY <3>1
    <3> QED
      BY <1>9, <3>1, <3>4, <3>5 DEF Reached, h
  <2> QED
    BY <2>2, <2>3, <2>4, <2>5
<1> QED
  BY <1>1, <1>5, <1>6, <1>7, <1>8, <1>9 DEF Job, h

\* After the last transfer the registers are as intended.
LEMMA ReachedAll ==
    ASSUME NEW j \in Job, NEW r \in [Registers -> Byte], NEW g \in [Registers -> Byte],
           Reached(j, Len(Steps(j)), r, g)
    PROVE  g = Intended(j, r)
<1>1. PICK l \in 6 .. 12 : l = Len(Steps(j))
  BY StepsAre
<1>2. (j.mode = "recovery" => l = 7) /\ (j.mode = "effect" => l = 12)
  BY <1>1, ModeSteps
<1>3. Reached(j, l, r, g)
  BY <1>1
<1> HIDE <1>1
<1>4. j.mode \in {"effect", "mute", "unmute", "recovery"}
  BY DEF Job
<1>5. /\ g[Prolog] = 65
      /\ g[Output] = IF j.mode \in {"effect", "unmute"} THEN Enable
                     ELSE IF j.mode = "mute" THEN Disable ELSE r[Output]
      /\ g[Repair] = IF j.mode = "recovery" THEN 146 ELSE r[Repair]
      /\ \A i \in 1 .. 5 : g[EffectCmds[i]] = IF j.mode = "effect" THEN EffectVals(j.effect)[i]
                                               ELSE r[EffectCmds[i]]
  BY <1>2, <1>3, <1>4 DEF Reached
<1>6. ASSUME NEW c \in Registers PROVE g[c] = Intended(j, r)[c]
  <2>1. Range(EffectCmds) = {EffectCmds[i] : i \in 1 .. 5}
    BY DEF Range, EffectCmds
  <2>2. c \in {Prolog, Output, Repair} => c \notin Range(EffectCmds)
    BY <2>1, Distinct
  <2>3. Intended(j, r)[c] =
           IF c = Prolog THEN 65
           ELSE IF c = Output /\ j.mode \in {"effect", "unmute"} THEN Enable
           ELSE IF c = Output /\ j.mode = "mute" THEN Disable
           ELSE IF c = Repair /\ j.mode = "recovery" THEN 146
           ELSE IF c \in Range(EffectCmds) /\ j.mode = "effect"
                THEN EffectVals(j.effect)[CHOOSE i \in 1 .. 5 : EffectCmds[i] = c]
           ELSE r[c]
    BY <2>2, Distinct DEF Intended
  <2>4. CASE c \in {Prolog, Output, Repair}
    BY <1>4, <1>5, <2>2, <2>3, <2>4, Distinct
  <2>5. ASSUME NEW n \in 1 .. 5, c = EffectCmds[n] PROVE g[c] = Intended(j, r)[c]
    <3>1. (CHOOSE i \in 1 .. 5 : EffectCmds[i] = c) = n
      BY <2>5, Distinct
    <3>2. c \in Range(EffectCmds) /\ c \notin {Prolog, Output, Repair}
      BY <2>1, <2>5, Distinct
    <3>3. Intended(j, r)[c] = IF j.mode = "effect" THEN EffectVals(j.effect)[n] ELSE r[c]
      BY <2>3, <3>1, <3>2
    <3> QED
      BY <1>5, <2>5, <3>3
  <2> QED
    BY <2>4, <2>5, Distinct
<1>7. g = [c \in Registers |-> g[c]]
  OBVIOUS
<1> QED
  BY <1>6, <1>7 DEF Intended

\* The transfer after which a mix is heard, and before which none is, unmutes.
LEMMA MixStep ==
    ASSUME NEW j \in Job, NEW k \in 1 .. Len(Steps(j)), NEW r, NEW g, NEW h,
           Reached(j, k - 1, r, g), Reached(j, k, r, h), ~MixHeard(g), MixHeard(h)
    PROVE  j.mode = "unmute"
<1>1. k \in 1 .. 12
  <2>1. Len(Steps(j)) \in 6 .. 12
    BY StepsAre
  <2>2. \A l \in 6 .. 12 : \A m \in 1 .. l : m \in 1 .. 12
    OBVIOUS
  <2> QED
    BY <2>1, <2>2, Zenon
<1> SUFFICES ASSUME j.mode # "unmute" PROVE FALSE
  OBVIOUS
<1>2. h[Output] # Disable
  BY DEF MixHeard
<1>3. CASE j.mode \in {"mute", "recovery"} \/ k <= 5
  <2>1. h[Output] = g[Output] \/ h[Output] = Disable
    BY <1>1, <1>3 DEF Reached, Job
  <2>2. \A i \in 1 .. 5 : h[EffectCmds[i]] = g[EffectCmds[i]]
    BY <1>1, <1>3 DEF Reached, Job
  <2>3. EffectRegs(h) = EffectRegs(g)
    BY <2>2 DEF EffectRegs
  <2> QED
    BY <1>2, <2>1, <2>3 DEF MixHeard
<1>4. CASE j.mode = "effect" /\ k >= 6
  <2>1. k = 12
    BY <1>1, <1>2, <1>4 DEF Reached
  <2>2. \A i \in 1 .. 5 : h[EffectCmds[i]] = EffectVals(j.effect)[i]
    BY <1>4, <2>1 DEF Reached
  <2>3. j.effect \in Effects
    BY DEF Job
  <2>4. EffectVals(j.effect) = [i \in 1 .. 5 |-> EffectVals(j.effect)[i]]
    <3>1. EffectVals(j.effect) \in {Rows[1], Rows[2], Rows[3], Rows[4], Rows[5], Rows[6], Rows[7]}
      <4>1. j.effect \in {0, 1, 2, 3, 4, 5, 6}
        BY <2>3 DEF Effects
      <4> QED
        BY <4>1 DEF EffectVals
    <3>2. /\ Rows[1] = [i \in 1 .. 5 |-> Rows[1][i]] /\ Rows[2] = [i \in 1 .. 5 |-> Rows[2][i]]
          /\ Rows[3] = [i \in 1 .. 5 |-> Rows[3][i]] /\ Rows[4] = [i \in 1 .. 5 |-> Rows[4][i]]
          /\ Rows[5] = [i \in 1 .. 5 |-> Rows[5][i]] /\ Rows[6] = [i \in 1 .. 5 |-> Rows[6][i]]
          /\ Rows[7] = [i \in 1 .. 5 |-> Rows[7][i]]
      BY DEF Rows
    <3> QED
      BY <3>1, <3>2, Zenon
  <2>5. EffectRegs(h) = EffectVals(j.effect)
    BY <2>2, <2>4 DEF EffectRegs
  <2> QED
    BY <2>3, <2>5 DEF MixHeard
<1> QED
  BY <1>1, <1>3, <1>4 DEF Job

-----------------------------------------------------------------------------
(* The invariant *)

\* A program at its transfers has a mode, and is at one of them.
InJob(p) == pc[p] = "transfer" => job[p] \in Job /\ step[p] \in 1 .. Len(Steps(job[p]))

\* What prolog_write has read and is about to write back was given.
ReadGiven(p) ==
    pc[p] = "transfer" /\ OnAmp(p) =>
        /\ step[p] = 3 => Given(4, val[p])
        /\ step[p] = 5 => Given(9, val[p])

IInv ==
    /\ TypeOK
    /\ \A p \in Proc : InJob(p) /\ ReadGiven(p)
    /\ NoMadeUpValue

\* NoMadeUpValue in terms of Given.
LEMMA MadeUp == NoMadeUpValue <=> \A c \in Registers : Given(c, regs[c])
  BY DEF NoMadeUpValue, Given

\* In the initial states nothing has been written.
LEMMA InitIInv == Init => IInv
<1> SUFFICES ASSUME Init PROVE IInv
  OBVIOUS
<1>1. TypeOK
  <2>1. NoJob \in [mode : {"invalid", "effect", "mute", "unmute", "recovery"}, effect : Effects]
    BY DEF NoJob, Effects
  <2>2. /\ job \in [Proc -> [mode : {"invalid", "effect", "mute", "unmute", "recovery"}, effect : Effects]]
        /\ regs \in [Registers -> Byte] /\ before \in [Proc -> [Registers -> Byte]]
    BY <2>1 DEF Init
  <2>3. /\ pc \in [Proc -> {"idle", "lookup", "open", "mode", "transfer", "close"}]
        /\ at \in [Proc -> Nat] /\ idx \in [Proc -> Int] /\ bus \in [Proc -> {-1} \cup Buses]
        /\ step \in [Proc -> 0 .. 12] /\ val \in [Proc -> Byte] /\ ret \in [Proc -> {0, -1, -2}]
    BY DEF Init, Byte
  <2>4. dir \in Directories /\ runs \in 0 .. MaxRuns /\ solo \in [Proc -> BOOLEAN]
    BY DEF Init
  <2> QED
    BY <2>2, <2>3, <2>4 DEF TypeOK
<1>2. \A p \in Proc : InJob(p) /\ ReadGiven(p)
  BY DEF Init, InJob, ReadGiven
<1>3. NoMadeUpValue
  BY MadeUp DEF Init, Given
<1> QED
  BY <1>1, <1>2, <1>3 DEF IInv

\* What the transfer of a program leaves: registers with given values, and a
\* value read that is given where the next transfer writes it back.
LEMMA PerformGiven ==
    ASSUME IInv, NEW p \in Proc, pc[p] = "transfer", Perform(p, Steps(job[p])[step[p]])
    PROVE  /\ regs' \in [Registers -> Byte]
           /\ val' \in [Proc -> Byte]
           /\ \A c \in Registers : Given(c, regs'[c])
           /\ \A q \in Proc \ {p} : val'[q] = val[q]
           /\ OnAmp(p) /\ step[p] = 2 => Given(4, val'[p])
           /\ OnAmp(p) /\ step[p] = 4 => Given(9, val'[p])
<1> DEFINE t == Steps(job[p])[step[p]]
<1>1. /\ job[p] \in Job /\ step[p] \in 1 .. Len(Steps(job[p]))
      /\ OnAmp(p) => (step[p] = 3 => Given(4, val[p])) /\ (step[p] = 5 => Given(9, val[p]))
  BY DEF IInv, InJob, ReadGiven
<1>2. /\ regs \in [Registers -> Byte] /\ val \in [Proc -> Byte]
      /\ \A c \in Registers : Given(c, regs[c])
  BY MadeUp DEF IInv, TypeOK
<1>3. \/ step[p] = 1 /\ t = Write(Prolog, 65)
      \/ step[p] = 2 /\ t = Read(4)
      \/ step[p] = 3 /\ t = WriteBack(4)
      \/ step[p] = 4 /\ t = Read(9)
      \/ step[p] = 5 /\ t = WriteBack(9)
      \/ step[p] \in 6 .. 12 /\ t \in Writes /\ Given(t.reg, t.value)
  BY <1>1, StepCases, Zenon
<1>4. Perform(p, t)
  OBVIOUS
<1> HIDE DEF t
\* A write of v, to register r, of a value that is given for it.
<1>5. ASSUME NEW r \in Registers, NEW v \in Byte, OnAmp(p) => Given(r, v), Put(p, r, v)
      PROVE  regs' \in [Registers -> Byte] /\ \A c \in Registers : Given(c, regs'[c])
  <2>1. CASE OnAmp(p)
    <3>1. regs' = [regs EXCEPT ![r] = v]
      BY <1>5, <2>1 DEF Put
    <3>2. \A c \in Registers : regs'[c] = IF c = r THEN v ELSE regs[c]
      BY <1>2, <3>1
    <3>3. regs' \in [Registers -> Byte]
      BY <1>2, <3>1
    <3> QED
      BY <1>2, <1>5, <2>1, <3>2, <3>3
  <2>2. CASE ~OnAmp(p)
    BY <1>2, <1>5, <2>2 DEF Put
  <2> QED
    BY <2>1, <2>2
\* A read of register r.
<1>6. ASSUME NEW r \in Registers, t.kind = "read", t.reg = r
      PROVE  /\ regs' = regs /\ val' \in [Proc -> Byte]
             /\ \A q \in Proc \ {p} : val'[q] = val[q]
             /\ OnAmp(p) => Given(r, val'[p])
  <2>1. PICK b \in IF OnAmp(p) THEN {regs[r]} ELSE Garbage : val' = [val EXCEPT ![p] = b]
    BY <1>4, <1>6 DEF Perform
  <2>2. regs' = regs
    BY <1>4, <1>6 DEF Perform
  <2>3. b \in Byte /\ (OnAmp(p) => Given(r, b))
    BY <1>2, <2>1
  <2>4. val'[p] = b /\ \A q \in Proc \ {p} : val'[q] = val[q]
    BY <1>2, <2>1
  <2>5. val' \in [Proc -> Byte]
    BY <1>2, <2>1, <2>3
  <2> QED
    BY <2>2, <2>3, <2>4, <2>5
<1>7. 4 \in Registers /\ 9 \in Registers /\ Prolog \in Registers /\ 65 \in Byte
  BY RegisterSet DEF Prolog, Byte
<1>8. CASE step[p] = 1 /\ t = Write(Prolog, 65)
  <2>1. Put(p, Prolog, 65) /\ val' = val
    BY <1>4, <1>8 DEF Perform, Write
  <2>2. Given(Prolog, 65)
    BY DEF Given
  <2> QED
    BY <1>2, <1>5, <1>7, <1>8, <2>1, <2>2
<1>9. CASE step[p] = 2 /\ t = Read(4)
  <2>1. t.kind = "read" /\ t.reg = 4
    BY <1>9 DEF Read
  <2> QED
    BY <1>2, <1>6, <1>7, <1>9, <2>1
<1>10. CASE step[p] = 3 /\ t = WriteBack(4)
  <2>1. Put(p, 4, val[p]) /\ val' = val
    BY <1>4, <1>10 DEF Perform, WriteBack
  <2> QED
    BY <1>1, <1>2, <1>5, <1>7, <1>10, <2>1
<1>11. CASE step[p] = 4 /\ t = Read(9)
  <2>1. t.kind = "read" /\ t.reg = 9
    BY <1>11 DEF Read
  <2> QED
    BY <1>2, <1>6, <1>7, <1>11, <2>1
<1>12. CASE step[p] = 5 /\ t = WriteBack(9)
  <2>1. Put(p, 9, val[p]) /\ val' = val
    BY <1>4, <1>12 DEF Perform, WriteBack
  <2> QED
    BY <1>1, <1>2, <1>5, <1>7, <1>12, <2>1
<1>13. CASE step[p] \in 6 .. 12 /\ t \in Writes /\ Given(t.reg, t.value)
  <2>1. t.kind = "write" /\ t.reg \in Registers /\ t.value \in Byte
    BY <1>13 DEF Writes
  <2>2. Put(p, t.reg, t.value) /\ val' = val
    BY <1>4, <2>1 DEF Perform
  <2> QED
    BY <1>2, <1>5, <1>13, <2>1, <2>2
<1> QED
  BY <1>3, <1>8, <1>9, <1>10, <1>11, <1>12, <1>13, Zenon

\* A round of the lookup changes nothing but what belongs to it.
LEMMA LookupStep ==
    ASSUME TypeOK, NEW p \in Proc, Lookup(p)
    PROVE  /\ pc[p] = "lookup" /\ at' \in [Proc -> Nat] /\ idx' \in [Proc -> Int]
           /\ pc' = pc \/ pc' = [pc EXCEPT ![p] = "open"]
           /\ UNCHANGED <<job, bus, dir, step, val, ret, regs, runs, solo, before>>
<1>1. pc[p] = "lookup" /\ UNCHANGED <<job, bus, dir, step, val, ret, regs, runs, solo, before>>
  BY DEF Lookup, files, history
<1>2. dir \in Seq(Entry) /\ at \in [Proc -> Nat] /\ idx \in [Proc -> Int]
  BY DirectoryAssumption DEF TypeOK
<1>3. CASE at[p] < Len(dir) /\ at' = [at EXCEPT ![p] = @ + 1] /\ LookAt(p, dir[at[p] + 1])
  <2>1. dir[at[p] + 1] \in Entry
    BY <1>2, <1>3
  <2>2. dir[at[p] + 1].number \in Int
    BY <2>1 DEF Entry, NoNumber
  <2>3. at' \in [Proc -> Nat]
    BY <1>2, <1>3
  <2>4. idx' \in [Proc -> Int] /\ (pc' = pc \/ pc' = [pc EXCEPT ![p] = "open"])
    BY <1>2, <1>3, <2>2 DEF LookAt
  <2> QED
    BY <1>1, <2>3, <2>4
<1>4. CASE pc' = [pc EXCEPT ![p] = "open"] /\ UNCHANGED lookup
  BY <1>1, <1>2, <1>4 DEF lookup
<1> QED
  BY <1>3, <1>4 DEF Lookup

\* One step of program p and what it can disturb.
LEMMA NextIInv == IInv /\ [Next]_vars => IInv'
<1> SUFFICES ASSUME IInv, [Next]_vars PROVE IInv'
  OBVIOUS
<1>1. TypeOK /\ (\A q \in Proc : InJob(q) /\ ReadGiven(q)) /\ NoMadeUpValue
  BY DEF IInv
<1>2. CASE UNCHANGED vars
  <2>1. TypeOK'
    BY <1>1, <1>2 DEF TypeOK, vars, Buses, Entries
  <2>2. \A q \in Proc : InJob(q)' /\ ReadGiven(q)'
    BY <1>1, <1>2 DEF InJob, ReadGiven, OnAmp, Adapters, Entries, vars
  <2>3. NoMadeUpValue'
    BY <1>1, <1>2 DEF NoMadeUpValue, vars
  <2> QED
    BY <2>1, <2>2, <2>3 DEF IInv
<1>3. ASSUME NEW p \in Proc, OpenFails(p) PROVE IInv'
  <2>1. TypeOK'
    BY <1>1, <1>3 DEF TypeOK, OpenFails, Start, Finish, lookup, files, history, Buses, Entries
  <2>2. \A q \in Proc : InJob(q)' /\ ReadGiven(q)'
    BY <1>1, <1>3 DEF TypeOK, InJob, ReadGiven, OnAmp, Adapters, Entries, OpenFails, Start, Finish, files
  <2>3. NoMadeUpValue'
    BY <1>1, <1>3 DEF NoMadeUpValue, OpenFails
  <2> QED
    BY <2>1, <2>2, <2>3 DEF IInv
<1>4. ASSUME NEW p \in Proc, OpenAmplifier(p) PROVE IInv'
  <2>1. TypeOK'
    BY <1>1, <1>4 DEF TypeOK, OpenAmplifier, lookup, history, Buses, Entries
  <2>2. \A q \in Proc : InJob(q)' /\ ReadGiven(q)'
    BY <1>1, <1>4 DEF TypeOK, InJob, ReadGiven, OnAmp, Adapters, Entries, OpenAmplifier
  <2>3. NoMadeUpValue'
    BY <1>1, <1>4 DEF NoMadeUpValue, OpenAmplifier
  <2> QED
    BY <2>1, <2>2, <2>3 DEF IInv
<1>5. ASSUME NEW p \in Proc, BeginLookup(p) PROVE IInv'
  <2>1. TypeOK'
    BY <1>1, <1>5, DirectoryAssumption DEF TypeOK, BeginLookup, Start, files, history, Buses, Entries
  <2>2. \A q \in Proc : InJob(q)' /\ ReadGiven(q)'
    BY <1>1, <1>5 DEF TypeOK, InJob, ReadGiven, OnAmp, Adapters, Entries, BeginLookup, Start, files
  <2>3. NoMadeUpValue'
    BY <1>1, <1>5 DEF NoMadeUpValue, BeginLookup
  <2> QED
    BY <2>1, <2>2, <2>3 DEF IInv
<1>6. ASSUME NEW p \in Proc, Lookup(p) PROVE IInv'
  <2>1. /\ pc[p] = "lookup" /\ at' \in [Proc -> Nat] /\ idx' \in [Proc -> Int]
        /\ pc' = pc \/ pc' = [pc EXCEPT ![p] = "open"]
        /\ UNCHANGED <<job, bus, dir, step, val, ret, regs, runs, solo, before>>
    BY <1>1, <1>6, LookupStep
  <2>2. TypeOK'
    BY <1>1, <2>1 DEF TypeOK, Buses, Entries
  <2>3. \A q \in Proc : InJob(q)' /\ ReadGiven(q)'
    BY <1>1, <2>1 DEF TypeOK, InJob, ReadGiven, OnAmp, Adapters, Entries
  <2>4. NoMadeUpValue'
    BY <1>1, <2>1 DEF NoMadeUpValue
  <2> QED
    BY <2>2, <2>3, <2>4 DEF IInv
<1>7. ASSUME NEW p \in Proc, Dispatch(p) PROVE IInv'
  <2>1. /\ pc[p] = "mode"
        /\ UNCHANGED <<at, idx, bus, val, dir, regs, runs>>
        /\ \/ \E j \in Job : Begin(p, j)
           \/ Finish(p, -2) /\ UNCHANGED <<job, step, history>>
    <3>1. \A m \in {"mute", "unmute", "recovery"} : [mode |-> m, effect |-> 0] \in Job
      BY DEF Job, Effects
    <3>2. [mode |-> "effect", effect |-> BassBoost] \in Job
      BY DEF Job, Effects, BassBoost
    <3>3. \A n \in Arguments : IsEffect(n) => [mode |-> "effect", effect |-> EffectOf(n)] \in Job
      BY DEF Job, Effects, IsEffect, EffectOf
    <3> QED
      BY <1>7, <3>1, <3>2, <3>3 DEF Dispatch, lookup
  <2>2. NoMadeUpValue'
    BY <1>1, <2>1 DEF NoMadeUpValue
  <2>3. CASE Finish(p, -2) /\ UNCHANGED <<job, step, history>>
    <3>1. TypeOK'
      BY <1>1, <2>1, <2>3 DEF TypeOK, Finish, history, Buses, Entries
    <3>2. \A q \in Proc : InJob(q)' /\ ReadGiven(q)'
      BY <1>1, <2>1, <2>3 DEF TypeOK, InJob, ReadGiven, OnAmp, Adapters, Entries, Finish
    <3> QED
      BY <2>2, <3>1, <3>2 DEF IInv
  <2>4. ASSUME NEW j \in Job, Begin(p, j) PROVE IInv'
    <3>1. /\ pc' = [pc EXCEPT ![p] = "transfer"]
          /\ job' = [job EXCEPT ![p] = j]
          /\ step' = [step EXCEPT ![p] = 1]
          /\ ret' = ret
      BY <2>4 DEF Begin
    <3>2. /\ pc \in [Proc -> {"idle", "lookup", "open", "mode", "transfer", "close"}]
          /\ step \in [Proc -> 0 .. 12]
          /\ solo \in [Proc -> BOOLEAN]
          /\ before \in [Proc -> [Registers -> Byte]]
          /\ regs \in [Registers -> Byte]
      BY <1>1 DEF TypeOK
    <3>3. pc' \in [Proc -> {"idle", "lookup", "open", "mode", "transfer", "close"}]
      BY <3>1, <3>2
    <3>4. job' \in [Proc -> [mode : {"invalid", "effect", "mute", "unmute", "recovery"}, effect : Effects]]
      <4>1. j \in [mode : {"invalid", "effect", "mute", "unmute", "recovery"}, effect : Effects]
        BY DEF Job
      <4> QED
        BY <1>1, <3>1, <4>1 DEF TypeOK
    <3>5. step' \in [Proc -> 0 .. 12]
      BY <3>1, <3>2
    <3>6. solo' \in [Proc -> BOOLEAN]
      BY <2>4, <3>2 DEF Begin, history
    <3>7. before' \in [Proc -> [Registers -> Byte]]
      BY <2>4, <3>2 DEF Begin, history
    <3>8. TypeOK'
      BY <1>1, <2>1, <3>1, <3>3, <3>4, <3>5, <3>6, <3>7 DEF TypeOK, Buses, Entries
    <3>9. ASSUME NEW q \in Proc PROVE InJob(q)' /\ ReadGiven(q)'
      <4>1. CASE q = p
        <5>1. job'[q] = j /\ step'[q] = 1
          BY <1>1, <3>1, <4>1 DEF TypeOK
        <5>2. 1 \in 1 .. Len(Steps(j))
          BY StepsAre
        <5> QED
          BY <5>1, <5>2 DEF InJob, ReadGiven
      <4>2. CASE q # p
        <5>1. pc'[q] = pc[q] /\ job'[q] = job[q] /\ step'[q] = step[q]
          BY <1>1, <3>1, <4>2 DEF TypeOK
        <5> QED
          BY <1>1, <2>1, <5>1 DEF InJob, ReadGiven, OnAmp, Adapters, Entries
      <4> QED
        BY <4>1, <4>2
    <3> QED
      BY <2>2, <3>8, <3>9 DEF IInv
  <2> QED
    BY <2>1, <2>3, <2>4
<1>8. ASSUME NEW p \in Proc, Transfer(p) PROVE IInv'
  <2>1. /\ pc[p] = "transfer" /\ Perform(p, Steps(job[p])[step[p]])
        /\ UNCHANGED <<at, idx, job, bus, dir, runs, solo, before>>
        /\ \/ pc' = [pc EXCEPT ![p] = "close"] /\ ret' = [ret EXCEPT ![p] = 0] /\ step' = step
           \/ /\ step[p] # Len(Steps(job[p])) /\ step' = [step EXCEPT ![p] = @ + 1]
              /\ pc' = pc /\ ret' = ret
    BY <1>8 DEF Transfer, Finish, lookup, files, history
  <2>2. /\ regs' \in [Registers -> Byte]
        /\ val' \in [Proc -> Byte]
        /\ \A c \in Registers : Given(c, regs'[c])
        /\ \A q \in Proc \ {p} : val'[q] = val[q]
        /\ OnAmp(p) /\ step[p] = 2 => Given(4, val'[p])
        /\ OnAmp(p) /\ step[p] = 4 => Given(9, val'[p])
    BY <2>1, PerformGiven
  <2>3. job[p] \in Job /\ step[p] \in 1 .. Len(Steps(job[p])) /\ Len(Steps(job[p])) \in 6 .. 12
    BY <1>1, <2>1, StepsAre DEF InJob
  <2>4. /\ pc \in [Proc -> {"idle", "lookup", "open", "mode", "transfer", "close"}]
        /\ step \in [Proc -> 0 .. 12]
        /\ ret \in [Proc -> {0, -1, -2}]
    BY <1>1 DEF TypeOK
  <2>5. /\ pc' \in [Proc -> {"idle", "lookup", "open", "mode", "transfer", "close"}]
        /\ ret' \in [Proc -> {0, -1, -2}]
    BY <2>1, <2>4
  <2>6. step' \in [Proc -> 0 .. 12]
    <3>1. \A l \in 6 .. 12 : \A k \in 1 .. l : k # l => k + 1 \in 0 .. 12
      OBVIOUS
    <3>2. CASE step' = step
      BY <2>4, <3>2
    <3>3. CASE step[p] # Len(Steps(job[p])) /\ step' = [step EXCEPT ![p] = @ + 1]
      <4>1. step[p] + 1 \in 0 .. 12
        BY <2>3, <3>1, <3>3, Zenon
      <4> QED
        BY <2>4, <3>3, <4>1
    <3> QED
      BY <2>1, <3>2, <3>3
  <2>7. TypeOK'
    BY <1>1, <2>1, <2>2, <2>5, <2>6 DEF TypeOK, Buses, Entries
  <2>8. NoMadeUpValue'
    BY <2>2 DEF NoMadeUpValue, Given
  <2>9. ASSUME NEW q \in Proc PROVE InJob(q)' /\ ReadGiven(q)'
    <3>1. CASE q # p
      <4>1. pc'[q] = pc[q] /\ job'[q] = job[q] /\ step'[q] = step[q] /\ val'[q] = val[q]
        BY <2>1, <2>2, <2>4, <3>1
      <4> QED
        BY <1>1, <2>1, <4>1 DEF InJob, ReadGiven, OnAmp, Adapters, Entries
    <3>2. CASE q = p /\ pc'[p] = "transfer"
      <4>1. step'[p] = step[p] + 1 /\ step[p] # Len(Steps(job[p]))
        BY <2>1, <2>4, <3>2
      <4>2. step'[p] \in 1 .. Len(Steps(job[p]))
        BY <2>3, <4>1
      <4>3. InJob(p)'
        BY <2>1, <2>3, <4>2 DEF InJob
      <4>4. /\ step'[p] = 3 => step[p] = 2
            /\ step'[p] = 5 => step[p] = 4
        BY <2>3, <4>1
      <4>5. OnAmp(p)' => OnAmp(p)
        BY <2>1 DEF OnAmp, Adapters, Entries
      <4>6. ReadGiven(p)'
        BY <2>2, <4>4, <4>5 DEF ReadGiven
      <4> QED
        BY <3>2, <4>3, <4>6
    <3>3. CASE q = p /\ pc'[p] # "transfer"
      BY <3>3 DEF InJob, ReadGiven
    <3> QED
      BY <3>1, <3>2, <3>3
  <2> QED
    BY <2>7, <2>8, <2>9 DEF IInv
<1>9. ASSUME NEW p \in Proc, TransferFails(p) PROVE IInv'
  <2>1. /\ pc[p] = "transfer"
        /\ UNCHANGED <<val, regs>> \/ Perform(p, Steps(job[p])[step[p]])
        /\ pc' = [pc EXCEPT ![p] = "close"] /\ ret' = [ret EXCEPT ![p] = -2]
        /\ UNCHANGED <<at, idx, step, job, bus, dir, runs, solo, before>>
    BY <1>9 DEF TransferFails, Finish, lookup, files, history
  <2>2. /\ regs \in [Registers -> Byte] /\ val \in [Proc -> Byte]
        /\ \A c \in Registers : Given(c, regs[c])
    BY <1>1, MadeUp DEF TypeOK
  <2>3. /\ regs' \in [Registers -> Byte]
        /\ val' \in [Proc -> Byte]
        /\ \A c \in Registers : Given(c, regs'[c])
        /\ \A q \in Proc \ {p} : val'[q] = val[q]
    <3>1. CASE UNCHANGED <<val, regs>>
      BY <2>2, <3>1
    <3>2. CASE Perform(p, Steps(job[p])[step[p]])
      BY <2>1, <3>2, PerformGiven
    <3> QED
      BY <2>1, <3>1, <3>2
  <2>4. /\ pc \in [Proc -> {"idle", "lookup", "open", "mode", "transfer", "close"}]
        /\ ret \in [Proc -> {0, -1, -2}]
    BY <1>1 DEF TypeOK
  <2>5. /\ pc' \in [Proc -> {"idle", "lookup", "open", "mode", "transfer", "close"}]
        /\ ret' \in [Proc -> {0, -1, -2}]
    BY <2>1, <2>4
  <2>6. TypeOK'
    BY <1>1, <2>1, <2>3, <2>5 DEF TypeOK, Buses, Entries
  <2>7. NoMadeUpValue'
    BY <2>3 DEF NoMadeUpValue, Given
  <2>8. ASSUME NEW q \in Proc PROVE InJob(q)' /\ ReadGiven(q)'
    <3>1. CASE q # p
      <4>1. pc'[q] = pc[q] /\ job'[q] = job[q] /\ step'[q] = step[q] /\ val'[q] = val[q]
        BY <2>1, <2>3, <2>4, <3>1
      <4> QED
        BY <1>1, <2>1, <4>1 DEF InJob, ReadGiven, OnAmp, Adapters, Entries
    <3>2. CASE q = p
      BY <2>1, <2>4, <3>2 DEF InJob, ReadGiven
    <3> QED
      BY <3>1, <3>2
  <2> QED
    BY <2>6, <2>7, <2>8 DEF IInv
<1>10. ASSUME NEW p \in Proc, Exit(p) PROVE IInv'
  <2>1. TypeOK'
    <3>1. /\ NoJob \in [mode : {"invalid", "effect", "mute", "unmute", "recovery"}, effect : Effects]
          /\ 0 \in Byte
      BY DEF NoJob, Effects, Byte
    <3> QED
      BY <1>1, <1>10, <3>1 DEF TypeOK, Exit, Buses, Entries
  <2>2. \A q \in Proc : InJob(q)' /\ ReadGiven(q)'
    BY <1>1, <1>10 DEF TypeOK, InJob, ReadGiven, OnAmp, Adapters, Entries, Exit
  <2>3. NoMadeUpValue'
    BY <1>1, <1>10 DEF NoMadeUpValue, Exit
  <2> QED
    BY <2>1, <2>2, <2>3 DEF IInv
<1> QED
  BY <1>2, <1>3, <1>4, <1>5, <1>6, <1>7, <1>8, <1>9, <1>10 DEF Next

-----------------------------------------------------------------------------
(* A program that nothing overlaps *)

\* A program that is alone at the amplifier has made of its registers what the
\* transfers so far make of those it found.
SoloInv(p) ==
    solo[p] =>
        /\ pc[p] \in {"transfer", "close"} /\ OnAmp(p)
        /\ \A q \in Proc \ {p} : pc[q] = "transfer" => ~OnAmp(q)
        /\ pc[p] = "transfer" =>
              /\ Reached(job[p], step[p] - 1, before[p], regs)
              /\ step[p] = 3 => val[p] = before[p][4]
              /\ step[p] = 5 => val[p] = before[p][9]
        /\ pc[p] = "close" /\ ret[p] = 0 => regs = Intended(job[p], before[p])

\* Its next transfer adds what it should.
LEMMA SoloPerform ==
    ASSUME IInv, NEW p \in Proc, SoloInv(p), solo[p], pc[p] = "transfer",
           Perform(p, Steps(job[p])[step[p]])
    PROVE  /\ Reached(job[p], step[p], before[p], regs')
           /\ step[p] = 2 => val'[p] = before[p][4]
           /\ step[p] = 4 => val'[p] = before[p][9]
<1> DEFINE t == Steps(job[p])[step[p]]
<1>1. job[p] \in Job /\ step[p] \in 1 .. Len(Steps(job[p]))
  BY DEF IInv, InJob
<1>2. /\ regs \in [Registers -> Byte] /\ val \in [Proc -> Byte] /\ OnAmp(p)
      /\ Reached(job[p], step[p] - 1, before[p], regs)
      /\ step[p] = 3 => val[p] = before[p][4]
      /\ step[p] = 5 => val[p] = before[p][9]
  BY DEF IInv, TypeOK, SoloInv
<1>3. \/ step[p] = 1 /\ t = Write(Prolog, 65)
      \/ step[p] = 2 /\ t = Read(4)
      \/ step[p] = 3 /\ t = WriteBack(4)
      \/ step[p] = 4 /\ t = Read(9)
      \/ step[p] = 5 /\ t = WriteBack(9)
      \/ step[p] \in 6 .. 12 /\ t \in Writes /\ Given(t.reg, t.value)
  BY <1>1, StepCases, Zenon
<1>4. Perform(p, t)
  OBVIOUS
<1>5. step[p] - 1 \in 0 .. 6 => regs[4] = before[p][4] /\ regs[9] = before[p][9]
  <2>1. EffectCmds[1] = 4 /\ EffectCmds[5] = 9
    BY Distinct
  <2>2. 1 \in 1 .. 5 /\ 5 \in 1 .. 5
    OBVIOUS
  <2> QED
    BY <1>1, <1>2, <2>1, <2>2, ReachedEffects
<1>6. ASSUME step[p] = 1 \/ step[p] >= 6, t.kind = "write"
      PROVE  Reached(job[p], step[p], before[p], regs')
  <2>1. regs' = [regs EXCEPT ![t.reg] = t.value]
    BY <1>2, <1>4, <1>6 DEF Perform, Put
  <2>2. Reached(job[p], step[p], before[p], [regs EXCEPT ![t.reg] = t.value])
    BY <1>1, <1>2, <1>6, ReachedWrite
  <2> QED
    BY <2>1, <2>2
<1>7. ASSUME step[p] \in 2 .. 5, regs' = regs
      PROVE  Reached(job[p], step[p], before[p], regs')
  BY <1>1, <1>2, <1>7, ReachedRest
<1> HIDE DEF t
<1>8. CASE step[p] = 1 /\ t = Write(Prolog, 65)
  BY <1>6, <1>8 DEF Write
<1>9. CASE step[p] = 2 /\ t = Read(4)
  <2>1. regs' = regs /\ val' = [val EXCEPT ![p] = regs[4]]
    BY <1>2, <1>4, <1>9 DEF Perform, Read
  <2>2. val'[p] = regs[4]
    BY <1>2, <2>1
  <2> QED
    BY <1>5, <1>7, <1>9, <2>1, <2>2
<1>10. CASE step[p] = 3 /\ t = WriteBack(4)
  <2>1. regs' = [regs EXCEPT ![4] = val[p]]
    BY <1>2, <1>4, <1>10 DEF Perform, WriteBack, Put
  <2>2. val[p] = regs[4]
    BY <1>2, <1>5, <1>10
  <2>3. regs' = regs
    BY <1>2, <2>1, <2>2
  <2> QED
    BY <1>7, <1>10, <2>3
<1>11. CASE step[p] = 4 /\ t = Read(9)
  <2>1. regs' = regs /\ val' = [val EXCEPT ![p] = regs[9]]
    BY <1>2, <1>4, <1>11 DEF Perform, Read
  <2>2. val'[p] = regs[9]
    BY <1>2, <2>1
  <2> QED
    BY <1>5, <1>7, <1>11, <2>1, <2>2
<1>12. CASE step[p] = 5 /\ t = WriteBack(9)
  <2>1. regs' = [regs EXCEPT ![9] = val[p]]
    BY <1>2, <1>4, <1>12 DEF Perform, WriteBack, Put
  <2>2. val[p] = regs[9]
    BY <1>2, <1>5, <1>12
  <2>3. regs' = regs
    BY <1>2, <2>1, <2>2
  <2> QED
    BY <1>7, <1>12, <2>3
<1>13. CASE step[p] \in 6 .. 12 /\ t \in Writes
  BY <1>6, <1>13 DEF Writes
<1> QED
  BY <1>3, <1>8, <1>9, <1>10, <1>11, <1>12, <1>13, Zenon

\* The transfer of a program at another bus changes nothing for program p.
LEMMA OtherPerform ==
    ASSUME IInv, NEW p \in Proc, NEW q \in Proc, q # p, ~OnAmp(q), NEW t, Perform(q, t)
    PROVE  regs' = regs /\ val'[p] = val[p]
<1>1. val \in [Proc -> Byte]
  BY DEF IInv, TypeOK
<1> QED
  BY <1>1 DEF Perform, Put

\* What is alone stays so, or is noted.
LEMMA NextSolo ==
    ASSUME IInv, \A p \in Proc : SoloInv(p), [Next]_vars, NEW p \in Proc
    PROVE  SoloInv(p)'
<1>1. SoloInv(p) /\ TypeOK
  BY DEF IInv
<1>2. CASE UNCHANGED vars
  BY <1>1, <1>2 DEF SoloInv, OnAmp, Adapters, Entries, vars
<1>3. ASSUME NEW q \in Proc, OpenFails(q) PROVE SoloInv(p)'
  BY <1>1, <1>3 DEF TypeOK, SoloInv, OnAmp, Adapters, Entries, OpenFails, Start, Finish, lookup, files, history
<1>4. ASSUME NEW q \in Proc, OpenAmplifier(q) PROVE SoloInv(p)'
  BY <1>1, <1>4 DEF TypeOK, SoloInv, OnAmp, Adapters, Entries, OpenAmplifier, history
<1>5. ASSUME NEW q \in Proc, BeginLookup(q) PROVE SoloInv(p)'
  BY <1>1, <1>5 DEF TypeOK, SoloInv, OnAmp, Adapters, Entries, BeginLookup, Start, files, history
<1>6. ASSUME NEW q \in Proc, Lookup(q) PROVE SoloInv(p)'
  <2>1. /\ pc[q] = "lookup" /\ (pc' = pc \/ pc' = [pc EXCEPT ![q] = "open"])
        /\ UNCHANGED <<job, bus, dir, step, val, ret, regs, runs, solo, before>>
    BY <1>1, <1>6, LookupStep
  <2>0. pc = [r \in Proc |-> pc[r]]
    BY <1>1 DEF TypeOK
  <2>2. \A r \in Proc : pc'[r] = pc[r] \/ (pc[r] = "lookup" /\ pc'[r] = "open")
    BY <2>0, <2>1
  <2>3. \A r \in Proc : OnAmp(r)' = OnAmp(r)
    BY <2>1 DEF OnAmp, Adapters, Entries
  <2> QED
    BY <1>1, <2>1, <2>2, <2>3 DEF SoloInv
<1>7. ASSUME NEW q \in Proc, Dispatch(q) PROVE SoloInv(p)'
  <2>1. /\ pc[q] = "mode"
        /\ UNCHANGED <<at, idx, bus, val, dir, regs>>
        /\ \/ \E j \in Job : Begin(q, j)
           \/ Finish(q, -2) /\ UNCHANGED <<job, step, history>>
    <3>1. \A m \in {"mute", "unmute", "recovery"} : [mode |-> m, effect |-> 0] \in Job
      BY DEF Job, Effects
    <3>2. [mode |-> "effect", effect |-> BassBoost] \in Job
      BY DEF Job, Effects, BassBoost
    <3>3. \A n \in Arguments : IsEffect(n) => [mode |-> "effect", effect |-> EffectOf(n)] \in Job
      BY DEF Job, Effects, IsEffect, EffectOf
    <3> QED
      BY <1>7, <3>1, <3>2, <3>3 DEF Dispatch, lookup
  <2>2. CASE Finish(q, -2) /\ UNCHANGED <<job, step, history>>
    BY <1>1, <2>1, <2>2 DEF TypeOK, SoloInv, OnAmp, Adapters, Entries, Finish, history
  <2>3. ASSUME NEW j \in Job, Begin(q, j) PROVE SoloInv(p)'
    <3>1. /\ pc' = [pc EXCEPT ![q] = "transfer"] /\ job' = [job EXCEPT ![q] = j]
          /\ step' = [step EXCEPT ![q] = 1] /\ ret' = ret
      BY <2>3 DEF Begin
    <3>2. \A s \in Proc : OnAmp(s)' = OnAmp(s)
      BY <2>1 DEF OnAmp, Adapters, Entries
    <3>3. ~solo[q]
      BY <2>1 DEF SoloInv
    <3>4. CASE ~OnAmp(q)
      <4>1. solo' = solo /\ before' = before
        BY <2>3, <3>4 DEF Begin, history
      <4>2. CASE p = q
        BY <3>3, <4>1, <4>2 DEF SoloInv
      <4>3. CASE p # q
        <5>1. pc'[p] = pc[p] /\ job'[p] = job[p] /\ step'[p] = step[p]
          BY <1>1, <3>1, <4>3 DEF TypeOK
        <5>2. \A s \in Proc \ {q} : pc'[s] = pc[s]
          BY <1>1, <3>1 DEF TypeOK
        <5> QED
          BY <1>1, <2>1, <3>1, <3>2, <3>4, <4>1, <5>1, <5>2 DEF SoloInv
      <4> QED
        BY <4>2, <4>3
    <3>5. CASE OnAmp(q)
      <4>1. /\ solo' = [s \in Proc |-> IF s = q THEN Busy = {} ELSE solo[s] /\ s \notin Busy]
            /\ before' = [s \in Proc |-> IF s = q /\ Busy = {} THEN regs
                                         ELSE IF s \in Busy THEN PowerOn ELSE before[s]]
        BY <2>3, <3>5 DEF Begin
      <4>2. CASE p # q
        <5>1. solo'[p] = (solo[p] /\ p \notin Busy)
          BY <4>1, <4>2
        <5>2. solo[p] => p \in Busy
          BY <1>1 DEF SoloInv, Busy
        <5> QED
          BY <5>1, <5>2 DEF SoloInv
      <4>3. CASE p = q /\ Busy # {}
        BY <4>1, <4>3 DEF SoloInv
      <4>4. CASE p = q /\ Busy = {}
        <5>1. pc'[p] = "transfer" /\ job'[p] = j /\ step'[p] = 1 /\ before'[p] = regs
          BY <1>1, <3>1, <4>1, <4>4 DEF TypeOK
        <5>2. \A s \in Proc \ {p} : pc'[s] = pc[s]
          BY <1>1, <3>1, <4>4 DEF TypeOK
        <5>3. \A s \in Proc \ {p} : pc[s] = "transfer" => ~OnAmp(s)
          BY <4>4 DEF Busy
        <5>4. Reached(job'[p], step'[p] - 1, before'[p], regs')
          <6>1. Reached(j, 0, regs, regs)
            BY ReachedNone
          <6> QED
            BY <2>1, <5>1, <6>1
        <5> QED
          BY <3>2, <3>5, <4>4, <5>1, <5>2, <5>3, <5>4 DEF SoloInv
      <4> QED
        BY <4>2, <4>3, <4>4
    <3> QED
      BY <3>4, <3>5
  <2> QED
    BY <2>1, <2>2, <2>3
<1>8. ASSUME NEW q \in Proc, Transfer(q) PROVE SoloInv(p)'
  <2>1. /\ pc[q] = "transfer" /\ Perform(q, Steps(job[q])[step[q]])
        /\ UNCHANGED <<job, bus, dir, solo, before>>
        /\ \/ /\ step[q] = Len(Steps(job[q]))
              /\ pc' = [pc EXCEPT ![q] = "close"] /\ ret' = [ret EXCEPT ![q] = 0] /\ step' = step
           \/ /\ step' = [step EXCEPT ![q] = @ + 1]
              /\ pc' = pc /\ ret' = ret
    BY <1>8 DEF Transfer, Finish, lookup, files, history
  <2>2. \A s \in Proc : OnAmp(s)' = OnAmp(s)
    BY <2>1 DEF OnAmp, Adapters, Entries
  <2>3. \A s \in Proc : pc'[s] = "transfer" => pc[s] = "transfer"
    BY <1>1, <2>1 DEF TypeOK
  <2> SUFFICES ASSUME solo[p] PROVE SoloInv(p)'
    BY <2>1 DEF SoloInv
  <2>4. CASE q # p
    <3>1. ~OnAmp(q)
      BY <1>1, <2>1, <2>4 DEF SoloInv
    <3>2. regs' = regs /\ val'[p] = val[p]
      BY <2>1, <2>4, <3>1, OtherPerform
    <3>3. pc'[p] = pc[p] /\ step'[p] = step[p] /\ ret'[p] = ret[p]
      BY <1>1, <2>1, <2>4 DEF TypeOK
    <3> QED
      BY <1>1, <2>1, <2>2, <2>3, <3>2, <3>3 DEF SoloInv
  <2>5. CASE q = p
    <3>1. /\ Reached(job[p], step[p], before[p], regs')
          /\ step[p] = 2 => val'[p] = before[p][4]
          /\ step[p] = 4 => val'[p] = before[p][9]
      BY <1>1, <2>1, <2>5, SoloPerform
    <3>2. job[p] \in Job /\ step[p] \in Nat
      BY <2>1, <2>5 DEF IInv, InJob, TypeOK
    <3>3. OnAmp(p) /\ \A s \in Proc \ {p} : pc[s] = "transfer" => ~OnAmp(s)
      BY <1>1 DEF SoloInv
    <3>4. CASE pc' = pc /\ step' = [step EXCEPT ![q] = @ + 1]
      <4>1. step'[p] = step[p] + 1 /\ pc'[p] = "transfer"
        BY <1>1, <2>1, <2>5, <3>4 DEF TypeOK
      <4>2. /\ step'[p] - 1 = step[p]
            /\ step'[p] = 3 => step[p] = 2
            /\ step'[p] = 5 => step[p] = 4
        BY <3>2, <4>1
      <4> QED
        BY <2>1, <2>2, <2>3, <3>1, <3>3, <4>1, <4>2 DEF SoloInv
    <3>5. CASE step[q] = Len(Steps(job[q])) /\ pc' = [pc EXCEPT ![q] = "close"]
      <4>1. pc'[p] = "close"
        BY <1>1, <2>5, <3>5 DEF TypeOK
      <4>2. regs' \in [Registers -> Byte] /\ before[p] \in [Registers -> Byte]
        BY <1>1, <2>1, <2>5, PerformGiven DEF TypeOK
      <4>3. regs' = Intended(job[p], before[p])
        BY <2>5, <3>1, <3>2, <3>5, <4>2, ReachedAll
      <4> QED
        BY <2>1, <2>2, <2>3, <3>3, <4>1, <4>3 DEF SoloInv
    <3> QED
      BY <2>1, <3>4, <3>5
  <2> QED
    BY <2>4, <2>5
<1>9. ASSUME NEW q \in Proc, TransferFails(q) PROVE SoloInv(p)'
  <2>1. /\ pc[q] = "transfer"
        /\ UNCHANGED <<val, regs>> \/ Perform(q, Steps(job[q])[step[q]])
        /\ pc' = [pc EXCEPT ![q] = "close"] /\ ret' = [ret EXCEPT ![q] = -2]
        /\ UNCHANGED <<step, job, bus, dir, solo, before>>
    BY <1>9 DEF TransferFails, Finish, lookup, files, history
  <2>2. \A s \in Proc : OnAmp(s)' = OnAmp(s)
    BY <2>1 DEF OnAmp, Adapters, Entries
  <2>3. \A s \in Proc : pc'[s] = "transfer" => pc[s] = "transfer"
    BY <1>1, <2>1 DEF TypeOK
  <2> SUFFICES ASSUME solo[p] PROVE SoloInv(p)'
    BY <2>1 DEF SoloInv
  <2>4. CASE q # p
    <3>1. ~OnAmp(q)
      BY <1>1, <2>1, <2>4 DEF SoloInv
    <3>2. regs' = regs /\ val'[p] = val[p]
      BY <2>1, <2>4, <3>1, OtherPerform
    <3>3. pc'[p] = pc[p] /\ ret'[p] = ret[p]
      BY <1>1, <2>1, <2>4 DEF TypeOK
    <3> QED
      BY <1>1, <2>1, <2>2, <2>3, <3>2, <3>3 DEF SoloInv
  <2>5. CASE q = p
    <3>1. pc'[p] = "close" /\ ret'[p] = -2
      BY <1>1, <2>1, <2>5 DEF TypeOK
    <3> QED
      BY <1>1, <2>1, <2>2, <2>3, <3>1 DEF SoloInv
  <2> QED
    BY <2>4, <2>5
<1>10. ASSUME NEW q \in Proc, Exit(q) PROVE SoloInv(p)'
  BY <1>1, <1>10 DEF TypeOK, SoloInv, OnAmp, Adapters, Entries, Exit
<1> QED
  BY <1>2, <1>3, <1>4, <1>5, <1>6, <1>7, <1>8, <1>9, <1>10 DEF Next

\* A step by which a mix gets heard is one that unmutes, or of a program that is
\* not alone.
LEMMA HeardStep ==
    ASSUME IInv, \A p \in Proc : SoloInv(p), [Next]_vars, MixHeard(regs'), ~MixHeard(regs)
    PROVE  \E p \in Proc : pc[p] = "transfer" /\ (job[p].mode = "unmute" \/ ~solo[p])
<1>1. regs' # regs
  OBVIOUS
<1>2. PICK p \in Proc : Transfer(p) \/ TransferFails(p)
  BY <1>1 DEF Next, BeginLookup, Lookup, OpenFails, OpenAmplifier, Dispatch, Exit, vars
<1>3. pc[p] = "transfer" /\ Perform(p, Steps(job[p])[step[p]])
  BY <1>1, <1>2 DEF Transfer, TransferFails
<1>4. CASE solo[p]
  <2>1. Reached(job[p], step[p] - 1, before[p], regs)
    BY <1>3, <1>4 DEF SoloInv
  <2>2. Reached(job[p], step[p], before[p], regs')
    BY <1>3, <1>4, SoloPerform
  <2>3. job[p] \in Job /\ step[p] \in 1 .. Len(Steps(job[p]))
    BY <1>3 DEF IInv, InJob
  <2>4. job[p].mode = "unmute"
    BY <2>1, <2>2, <2>3, MixStep
  <2> QED
    BY <1>3, <2>4
<1> QED
  BY <1>3, <1>4

-----------------------------------------------------------------------------
(* The lookup *)

\* i2c_idx, when n entries have been read and none is an adapter that is readable.
IndexAfter(n, i) ==
    /\ \A k \in Readable : k > n
    /\ \/ (\A k \in Entries : k > n) /\ i \in Leftover
       \/ \E m \in Entries : /\ m <= n /\ \A k \in Entries : k <= n => k <= m
                            /\ i = IF dir[m].opens THEN -1 ELSE dir[m].number

LookInv(p) ==
    /\ pc[p] = "idle" => at[p] = 0
    /\ pc[p] = "lookup" => at[p] <= Len(dir) /\ IndexAfter(at[p], idx[p])
    /\ pc[p] = "open" => RightIndex(idx[p])

\* One entry more: the first adapter that is readable, or none so far.
LEMMA IndexStep ==
    ASSUME TypeOK, NEW p \in Proc, NEW n \in Nat, n < Len(dir), IndexAfter(n, idx[p]),
           LookAt(p, dir[n + 1])
    PROVE  \/ pc' = pc /\ IndexAfter(n + 1, idx'[p])
           \/ pc' = [pc EXCEPT ![p] = "open"] /\ RightIndex(idx'[p])
<1> DEFINE e == dir[n + 1]
<1>1. dir \in Seq(Entry) /\ idx \in [Proc -> Int] /\ n + 1 \in DOMAIN dir /\ DOMAIN dir \subseteq Nat
  BY DirectoryAssumption DEF TypeOK
<1>2. e.opens \in BOOLEAN /\ e.matches \in BOOLEAN
  <2>1. e \in Entry
    BY <1>1
  <2> QED
    BY <2>1 DEF Entry
<1>3. Readable \subseteq Entries /\ Entries \subseteq Nat
  BY <1>1 DEF Readable, Adapters, Entries
<1>4. (n + 1 \in Entries <=> e.number # NoNumber) /\ (n + 1 \in Readable <=> n + 1 \in Entries /\ e.opens /\ e.matches)
  BY <1>1, <1>2 DEF Readable, Adapters, Entries
<1>5. \A k \in Readable : k > n
  BY DEF IndexAfter
<1>6. CASE e.number = NoNumber /\ UNCHANGED <<idx, pc>>
  <2>1. \A k \in Entries : (k > n <=> k > n + 1) /\ (k <= n <=> k <= n + 1)
    BY <1>3, <1>4, <1>6
  <2>2. \A m \in Entries : m <= n <=> m <= n + 1
    BY <2>1
  <2> QED
    BY <1>3, <1>6, <2>1, <2>2, Zenon DEF IndexAfter
<1>7. ASSUME e.number # NoNumber, ~(e.opens /\ e.matches), pc' = pc,
             idx'[p] = IF e.opens THEN -1 ELSE e.number
      PROVE  pc' = pc /\ IndexAfter(n + 1, idx'[p])
  <2>1. \A k \in Readable : k > n + 1
    BY <1>3, <1>4, <1>5, <1>7
  <2>2. n + 1 \in Entries /\ n + 1 <= n + 1 /\ \A k \in Entries : k <= n + 1 => k <= n + 1
    BY <1>4, <1>7
  <2> QED
    BY <1>7, <2>1, <2>2 DEF IndexAfter
<1>8. CASE e.number # NoNumber /\ ~e.opens /\ idx' = [idx EXCEPT ![p] = e.number] /\ pc' = pc
  <2>1. idx'[p] = e.number
    BY <1>1, <1>8
  <2> QED
    BY <1>7, <1>8, <2>1
<1>9. CASE e.number # NoNumber /\ e.opens /\ ~e.matches /\ idx' = [idx EXCEPT ![p] = -1] /\ pc' = pc
  <2>1. idx'[p] = -1
    BY <1>1, <1>9
  <2> QED
    BY <1>7, <1>9, <2>1
<1>10. CASE /\ e.number # NoNumber /\ e.opens /\ e.matches
            /\ idx' = [idx EXCEPT ![p] = e.number] /\ pc' = [pc EXCEPT ![p] = "open"]
  <2>1. n + 1 \in Readable /\ idx'[p] = dir[n + 1].number
    BY <1>1, <1>4, <1>10
  <2>2. \A k \in Readable : n + 1 <= k
    BY <1>3, <1>5
  <2> QED
    BY <1>10, <2>1, <2>2 DEF RightIndex
<1> QED
  BY <1>6, <1>8, <1>9, <1>10 DEF LookAt

\* At the end of the directory nothing is left to be found.
LEMMA IndexAtEnd ==
    ASSUME TypeOK, NEW i, IndexAfter(Len(dir), i)
    PROVE  RightIndex(i)
<1>1. \A k \in Entries : k \in Nat /\ k <= Len(dir) /\ ~(k > Len(dir))
  <2>1. dir \in Seq(Entry)
    BY DirectoryAssumption DEF TypeOK
  <2> QED
    BY <2>1 DEF Entries
<1>2. Readable \subseteq Entries
  BY DEF Readable, Adapters
<1>3. Readable = {}
  BY <1>1, <1>2 DEF IndexAfter
<1> QED
  BY <1>1, <1>3, Zenon DEF IndexAfter, RightIndex

\* Each step keeps what the lookup of a program has found.
LEMMA NextLook ==
    ASSUME TypeOK, \A p \in Proc : LookInv(p), [Next]_vars, NEW p \in Proc
    PROVE  LookInv(p)'
<1>1. LookInv(p) /\ pc \in [Proc -> {"idle", "lookup", "open", "mode", "transfer", "close"}]
      /\ at \in [Proc -> Nat] /\ idx \in [Proc -> Int]
  BY DEF TypeOK
<1>2. dir' = dir
  BY DEF Next, vars, BeginLookup, Lookup, OpenFails, OpenAmplifier, Dispatch, Transfer, TransferFails, Exit, files
<1>3. ASSUME pc'[p] = pc[p], at'[p] = at[p], idx'[p] = idx[p]
      PROVE  LookInv(p)'
  <2>1. /\ \A n, i : IndexAfter(n, i) => IndexAfter(n, i)'
        /\ \A i : RightIndex(i) => RightIndex(i)'
    BY <1>2 DEF IndexAfter, RightIndex, Readable, Adapters, Entries
  <2> QED
    BY <1>1, <1>2, <1>3, <2>1 DEF LookInv
<1>4. ASSUME pc'[p] \in {"mode", "transfer", "close"}
      PROVE  LookInv(p)'
  BY <1>4 DEF LookInv
<1>5. CASE UNCHANGED vars
  BY <1>3, <1>5 DEF vars
<1>6. ASSUME NEW q \in Proc, BeginLookup(q) PROVE LookInv(p)'
  <2>1. CASE q # p
    BY <1>1, <1>3, <1>6, <2>1 DEF BeginLookup, Start
  <2>2. CASE q = p
    <3>1. at'[p] = 0 /\ pc'[p] = "lookup" /\ idx'[p] \in Leftover
      BY <1>1, <1>6, <2>2 DEF BeginLookup, Start, LookInv
    <3>2. dir \in Seq(Entry)
      BY DirectoryAssumption DEF TypeOK
    <3>3. \A k \in Entries : k > 0
      BY <3>2 DEF Entries
    <3>4. IndexAfter(at[p], idx[p])'
      BY <1>2, <3>1, <3>3 DEF IndexAfter, Readable, Adapters, Entries
    <3> QED
      BY <1>2, <3>1, <3>2, <3>4 DEF LookInv
  <2> QED
    BY <2>1, <2>2
<1>7. ASSUME NEW q \in Proc, Lookup(q) PROVE LookInv(p)'
  <2>1. CASE q # p
    <3>1. /\ at' = at \/ at' = [at EXCEPT ![q] = @ + 1]
          /\ idx' = idx \/ \E i : idx' = [idx EXCEPT ![q] = i]
          /\ pc' = pc \/ pc' = [pc EXCEPT ![q] = "open"]
      BY <1>7 DEF Lookup, LookAt, lookup
    <3> QED
      BY <1>1, <1>3, <2>1, <3>1
  <2>2. CASE q = p
    <3>1. pc[p] = "lookup" /\ at[p] \in Nat /\ at[p] <= Len(dir) /\ IndexAfter(at[p], idx[p])
          /\ Len(dir) \in Nat
      BY <1>1, <1>7, <2>2, DirectoryAssumption DEF Lookup, LookInv, TypeOK
    <3>2. CASE at[p] < Len(dir) /\ at' = [at EXCEPT ![p] = @ + 1] /\ LookAt(p, dir[at[p] + 1])
      <4>1. at'[p] = at[p] + 1
        BY <1>1, <3>2
      <4>2. \/ pc' = pc /\ IndexAfter(at[p] + 1, idx'[p])
            \/ pc' = [pc EXCEPT ![p] = "open"] /\ RightIndex(idx'[p])
        BY <3>1, <3>2, IndexStep
      <4>3. CASE pc' = pc /\ IndexAfter(at[p] + 1, idx'[p])
        <5>1. IndexAfter(at[p], idx[p])'
          BY <1>2, <4>1, <4>3 DEF IndexAfter, Readable, Adapters, Entries
        <5>2. at'[p] <= Len(dir')
          BY <1>2, <3>1, <3>2, <4>1
        <5> QED
          BY <3>1, <4>3, <5>1, <5>2 DEF LookInv
      <4>4. CASE pc' = [pc EXCEPT ![p] = "open"] /\ RightIndex(idx'[p])
        <5>1. pc'[p] = "open"
          BY <1>1, <4>4
        <5>2. RightIndex(idx[p])'
          BY <1>2, <4>4 DEF RightIndex, Readable, Adapters, Entries
        <5> QED
          BY <5>1, <5>2 DEF LookInv
      <4> QED
        BY <4>2, <4>3, <4>4
    <3>3. CASE at[p] = Len(dir) /\ pc' = [pc EXCEPT ![p] = "open"] /\ UNCHANGED lookup
      <4>1. pc'[p] = "open" /\ idx'[p] = idx[p]
        BY <1>1, <3>3 DEF lookup
      <4>2. RightIndex(idx[p])
        BY <3>1, <3>3, IndexAtEnd
      <4>3. RightIndex(idx[p])'
        BY <1>2, <4>1, <4>2 DEF RightIndex, Readable, Adapters, Entries
      <4> QED
        BY <4>1, <4>3 DEF LookInv
    <3> QED
      BY <1>7, <2>2, <3>2, <3>3 DEF Lookup
  <2> QED
    BY <2>1, <2>2
<1>8. ASSUME NEW q \in Proc,
             OpenFails(q) \/ OpenAmplifier(q) \/ Dispatch(q) \/ Transfer(q) \/ TransferFails(q)
      PROVE  LookInv(p)'
  <2>1. at' = at /\ idx' = idx
    BY <1>8 DEF OpenFails, OpenAmplifier, Dispatch, Transfer, TransferFails, lookup
  <2>2. pc' = pc \/ \E c \in {"mode", "transfer", "close"} : pc' = [pc EXCEPT ![q] = c]
    <3>1. CASE OpenFails(q) \/ OpenAmplifier(q) \/ TransferFails(q)
      BY <3>1 DEF OpenFails, OpenAmplifier, TransferFails, Finish
    <3>2. CASE Dispatch(q)
      BY <3>2 DEF Dispatch, Begin, Finish
    <3>3. CASE Transfer(q)
      BY <3>3 DEF Transfer, Finish
    <3> QED
      BY <1>8, <3>1, <3>2, <3>3
  <2>3. pc'[p] = pc[p] \/ pc'[p] \in {"mode", "transfer", "close"}
    BY <1>1, <2>2
  <2> QED
    BY <1>3, <1>4, <2>1, <2>3
<1>9. ASSUME NEW q \in Proc, Exit(q) PROVE LookInv(p)'
  <2>1. CASE q # p
    BY <1>1, <1>3, <1>9, <2>1 DEF Exit
  <2>2. CASE q = p
    BY <1>1, <1>9, <2>2 DEF Exit, LookInv
  <2> QED
    BY <2>1, <2>2
<1> QED
  BY <1>5, <1>6, <1>7, <1>8, <1>9 DEF Next

-----------------------------------------------------------------------------
(* The theorems *)

\* Both invariants hold always.
THEOREM Inductive == Spec => [](IInv /\ \A p \in Proc : SoloInv(p))
<1>1. Init => \A p \in Proc : SoloInv(p)
  BY DEF Init, SoloInv
<1>2. IInv /\ (\A p \in Proc : SoloInv(p)) /\ [Next]_vars
        => (IInv /\ \A p \in Proc : SoloInv(p))'
  BY NextIInv, NextSolo
<1> QED
  BY <1>1, <1>2, InitIInv, PTL DEF Spec

\* The lookup ends with the right bus in every directory, also with entries that
\* are no bus or cannot be looked at, and i2c_idx uninitialised (open_amplifier).
THEOREM LookupExactTheorem == Spec => []LookupExact
<1>1. Init => \A p \in Proc : LookInv(p)
  BY DEF Init, LookInv
<1>2. TypeOK /\ (\A p \in Proc : LookInv(p)) /\ [Next]_vars => (\A p \in Proc : LookInv(p))'
  BY NextLook
<1>3. IInv => TypeOK
  BY DEF IInv
<1>4. (\A p \in Proc : LookInv(p)) => LookupExact
  BY DEF LookInv, LookupExact
<1> QED
  BY <1>1, <1>2, <1>3, <1>4, Inductive, PTL DEF Spec

\* Every variable keeps its type for any number of programs and every index that
\* is asked for: the effect is always a row of the table (parse_effect).
THEOREM TypeCorrect == Spec => []TypeOK
<1>1. IInv => TypeOK
  BY DEF IInv
<1> QED
  BY <1>1, Inductive, PTL

\* No register of the amplifier ever has a made-up value, however many programs
\* overlap and wherever their transfers fail (prolog_write).
THEOREM NoMadeUpTheorem == Spec => []NoMadeUpValue
<1>1. IInv => NoMadeUpValue
  BY DEF IInv
<1> QED
  BY <1>1, Inductive, PTL

\* A program that was alone at the amplifier and reports success has put it in
\* the mode asked for, from whatever registers it found (pakets_write).
THEOREM SuccessTheorem == Spec => []SuccessExact
<1>1. (\A p \in Proc : SoloInv(p)) => SuccessExact
  BY DEF SoloInv, SuccessExact
<1> QED
  BY <1>1, Inductive, PTL

\* An effect that is being written is never heard half, wherever it fails: the
\* output is disabled first and enabled last (gen_effect, amp_effect).
THEOREM HeardTheorem == Spec => OnlyWholeEffectsHeard
<1>1. IInv /\ (\A p \in Proc : SoloInv(p)) /\ [Next]_vars =>
        [MixHeard(regs') /\ ~MixHeard(regs) =>
           \E p \in Proc : pc[p] = "transfer" /\ (job[p].mode = "unmute" \/ ~solo[p])]_vars
  BY HeardStep
<1> QED
  BY <1>1, Inductive, PTL DEF Spec, OnlyWholeEffectsHeard

=============================================================================
