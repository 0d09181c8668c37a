---------------------------- MODULE Tools_proofs ----------------------------
(***************************************************************************)
(* Theorems about the sequential tools, for files of every size, speeds of *)
(* every width, identifiers and headers wherever they are in a file, and   *)
(* lines of every length.                                                  *)
(***************************************************************************)
EXTENDS MicrocodeWalk, SpeedControl, FirmwareExtract, TextFilters, FiniteSetTheorems, TLAPS

-----------------------------------------------------------------------------
(* amd_microcode *)

WalkTypeOK ==
    /\ walkPc \in {"outer", "table", "inner", "payload", "done", "error"}
    /\ size \in Nat
    /\ tableLeft \in Nat
    /\ tableRead \in Nat
    /\ entries \in Nat
    /\ patches \in Nat

\* Between an inner header and its patch, one header more has been passed.
Passed == IF walkPc = "payload" THEN patches + 1 ELSE patches

WalkInv ==
    /\ WalkTypeOK
    /\ pos \in Nat /\ available \in Nat
    /\ pos + available = size
    /\ walkPc \notin {"outer", "error"} => pos >= OuterSize + EntrySize * tableRead + InnerSize * Passed
    /\ walkPc = "outer" => tableRead = 0 /\ patches = 0

\* What is left of a file that is long enough is still a number.
LEMMA SkipOK ==
    ASSUME NEW n \in Nat, WalkInv, available >= n, Skip(n)
    PROVE  pos' \in Nat /\ available' \in Nat /\ pos' + available' = size /\ pos' = pos + n
  BY DEF WalkInv, WalkTypeOK, Skip

\* The walk never leaves the file: every length is checked against what is
\* left of it.
THEOREM WalkTheorem == WalkSpec => []WalkInBounds
<1>1. WalkInit => WalkInv
  BY WalkAssumption DEF WalkInit, WalkInv, WalkTypeOK
<1>2. WalkInv /\ [WalkNext]_walkVars => WalkInv'
  <2> SUFFICES ASSUME WalkInv, [WalkNext]_walkVars PROVE WalkInv'
    OBVIOUS
  <2> USE WalkAssumption
  <2> DEFINE Bound(t, p) == OuterSize + EntrySize * t + InnerSize * p
  <2>t. ASSUME Throw PROVE WalkInv'
    BY <2>t DEF Throw, WalkInv, WalkTypeOK
  <2>1. CASE Outer
    <3>1. CASE Throw
      BY <3>1, <2>t
    <3>2. ASSUME NEW tableLen \in Words, available >= OuterSize,
                 tableLeft' = tableLen \div EntrySize, walkPc' = "table", Skip(OuterSize),
                 walkPc = "outer", UNCHANGED <<size, tableRead, entries, patches>>
          PROVE  WalkInv'
      <4>1. pos' \in Nat /\ available' \in Nat /\ pos' + available' = size /\ pos' = pos + OuterSize
        BY <3>2, SkipOK
      <4>2. tableLeft' \in Nat
        BY <3>2
      <4>3. EntrySize * 0 = 0 /\ InnerSize * 0 = 0
        OBVIOUS
      <4> QED
        BY <3>2, <4>1, <4>2, <4>3 DEF WalkInv, WalkTypeOK, Passed
    <3> QED
      BY <2>1, <3>1, <3>2 DEF Outer
  <2>2. CASE Entry
    <3>1. CASE Throw
      BY <3>1, <2>t
    <3>2. CASE walkPc' = "inner" /\ UNCHANGED <<size, pos, available, tableLeft, tableRead, entries, patches>>
      BY <2>2, <3>2 DEF Entry, WalkInv, WalkTypeOK, Passed
    <3>3. ASSUME available >= EntrySize, Skip(EntrySize), walkPc = "table", walkPc' \in {"inner", "table"},
                 tableRead' = tableRead + 1, tableLeft' \in Nat, entries' \in Nat,
                 UNCHANGED <<size, patches>>
          PROVE  WalkInv'
      <4>1. pos' \in Nat /\ available' \in Nat /\ pos' + available' = size /\ pos' = pos + EntrySize
        BY <3>3, SkipOK
      <4>2. EntrySize * tableRead' = EntrySize * tableRead + EntrySize
        BY <3>3 DEF WalkInv, WalkTypeOK
      <4>3. EntrySize * tableRead \in Nat /\ InnerSize * patches \in Nat
        BY DEF WalkInv, WalkTypeOK
      <4>4. pos >= OuterSize + EntrySize * tableRead + InnerSize * patches
        BY <3>3 DEF WalkInv, Passed
      <4>5. pos' >= OuterSize + EntrySize * tableRead' + InnerSize * patches
        BY <4>1, <4>2, <4>3, <4>4 DEF WalkInv
      <4> QED
        BY <3>3, <4>1, <4>5 DEF WalkInv, WalkTypeOK, Passed
    <3>4. (tableLeft > 0 => tableLeft - 1 \in Nat) /\ tableLeft \in Nat /\ entries \in Nat /\ entries + 1 \in Nat
      BY DEF WalkInv, WalkTypeOK
    <3> QED
      BY <2>2, <3>1, <3>2, <3>3, <3>4 DEF Entry
  <2>3. CASE Inner
    <3>1. CASE Throw
      BY <3>1, <2>t
    <3>2. CASE /\ walkPc = "inner" /\ available >= InnerSize /\ walkPc' \in {"payload", "error"}
               /\ Skip(InnerSize) /\ UNCHANGED <<size, tableLeft, tableRead, entries, patches>>
      <4>1. pos' \in Nat /\ available' \in Nat /\ pos' + available' = size /\ pos' = pos + InnerSize
        BY <3>2, SkipOK
      <4>2. InnerSize * (patches + 1) = InnerSize * patches + InnerSize
        BY DEF WalkInv, WalkTypeOK
      <4>3. EntrySize * tableRead \in Nat /\ InnerSize * patches \in Nat
        BY DEF WalkInv, WalkTypeOK
      <4>4. pos >= OuterSize + EntrySize * tableRead + InnerSize * patches
        BY <3>2 DEF WalkInv, Passed
      <4>5. pos' >= OuterSize + EntrySize * tableRead + InnerSize * (patches + 1)
        BY <4>1, <4>2, <4>3, <4>4 DEF WalkInv
      <4> QED
        BY <3>2, <4>1, <4>5 DEF WalkInv, WalkTypeOK, Passed
    <3> QED
      BY <2>3, <3>1, <3>2 DEF Inner
  <2>4. CASE Payload
    <3>1. CASE Throw
      BY <3>1, <2>t
    <3>2. ASSUME NEW n \in Words, available >= n, Skip(n), walkPc = "payload", walkPc' = "inner",
                 patches' = patches + 1, UNCHANGED <<size, tableLeft, tableRead, entries>>
          PROVE  WalkInv'
      <4>1. pos' \in Nat /\ available' \in Nat /\ pos' + available' = size /\ pos' = pos + n
        BY <3>2, SkipOK
      <4>2. pos >= OuterSize + EntrySize * tableRead + InnerSize * (patches + 1)
        BY <3>2 DEF WalkInv, Passed
      <4>3. EntrySize * tableRead \in Nat /\ InnerSize * (patches + 1) \in Nat
        BY DEF WalkInv, WalkTypeOK
      <4>4. pos' >= OuterSize + EntrySize * tableRead + InnerSize * (patches + 1)
        BY <4>1, <4>2, <4>3 DEF WalkInv
      <4>5. Passed' = patches + 1 /\ tableRead' = tableRead /\ WalkTypeOK' /\ size' = size
        BY <3>2 DEF WalkInv, WalkTypeOK, Passed
      <4>6. pos' >= OuterSize + EntrySize * tableRead' + InnerSize * Passed'
        BY <4>4, <4>5
      <4> QED
        BY <3>2, <4>1, <4>5, <4>6 DEF WalkInv
    <3> QED
      BY <2>4, <3>1, <3>2 DEF Payload
  <2>5. CASE Printed
    BY <2>5 DEF Printed, WalkInv, WalkTypeOK, Passed
  <2>6. CASE UNCHANGED walkVars
    BY <2>6 DEF walkVars, WalkInv, WalkTypeOK, Passed
  <2> QED
    BY <2>1, <2>2, <2>3, <2>4, <2>5, <2>6 DEF WalkNext
<1>3. WalkInv => WalkInBounds
  <2> SUFFICES ASSUME WalkInv, walkPc = "payload"
               PROVE  pos >= OuterSize + EntrySize * tableRead + InnerSize * patches
    BY DEF WalkInv, WalkInBounds, Passed
  <2>1. InnerSize * (patches + 1) = InnerSize * patches + InnerSize
    BY WalkAssumption DEF WalkInv, WalkTypeOK
  <2>2. EntrySize * tableRead \in Nat /\ InnerSize * patches \in Nat /\ InnerSize \in Nat /\ OuterSize \in Nat
    BY WalkAssumption DEF WalkInv, WalkTypeOK
  <2> QED
    BY <2>1, <2>2 DEF WalkInv, Passed
<1> QED
  BY <1>1, <1>2, <1>3, PTL DEF WalkSpec

\* A bound for the steps that are left: three for each byte and a few.
WalkWork ==
    CASE walkPc = "outer"   -> 3 * available + 3
      [] walkPc = "table"   -> 3 * available + 2
      [] walkPc = "inner"   -> 3 * available + 1
      [] walkPc = "payload" -> 3 * available + 2
      [] OTHER -> 0

\* The walk ends on every file, the safety half of ToolsEnd: no length in it, 0
\* included, makes a round that takes nothing off what is left.
THEOREM WalkEnds == WalkSpec => /\ [](WalkWork \in Nat)
                                /\ [][WalkWork' < WalkWork]_walkVars
<1> DEFINE Inv == available \in Nat /\ walkPc \in {"outer", "table", "inner", "payload", "done", "error"}
<1>1. WalkInit => Inv
  BY WalkAssumption DEF WalkInit
<1>2. Inv /\ WalkNext => Inv' /\ WalkWork' < WalkWork
  <2> SUFFICES ASSUME Inv, WalkNext PROVE Inv' /\ WalkWork' < WalkWork
    OBVIOUS
  <2> USE WalkAssumption
  <2>t. ASSUME Throw, walkPc \in {"outer", "table", "inner", "payload"}
        PROVE  Inv' /\ WalkWork' < WalkWork
    BY <2>t DEF Throw, WalkWork
  <2>1. CASE Outer
    BY <2>1, <2>t DEF Outer, Skip, WalkWork
  <2>2. CASE Entry
    BY <2>2, <2>t DEF Entry, Skip, WalkWork
  <2>3. CASE Inner
    BY <2>3, <2>t DEF Inner, Skip, WalkWork
  <2>4. CASE Payload
    BY <2>4, <2>t DEF Payload, Skip, WalkWork
  <2>5. CASE Printed
    BY <2>5 DEF Printed, WalkWork
  <2> QED BY <2>1, <2>2, <2>3, <2>4, <2>5 DEF WalkNext
<1>3. Inv /\ [WalkNext]_walkVars => Inv'
  BY <1>2 DEF walkVars
<1>4. Inv /\ [WalkNext]_walkVars => [WalkWork' < WalkWork]_walkVars
  BY <1>2
<1>5. Inv => WalkWork \in Nat
  BY DEF WalkWork
<1> QED BY <1>1, <1>3, <1>4, <1>5, PTL DEF WalkSpec

-----------------------------------------------------------------------------
(* speedcontrolpp *)

\* A speed that passes the guard does not overflow when it is multiplied.
LEMMA GuardSuffices ==
    ASSUME NEW s \in Nat, s < kMaxSpeed
    PROVE  (s * kReadSizeMultiplier) % (UintMax + 1) = s * 177
<1> USE SpeedAssumption
<1>1. kMaxSpeed \in Nat /\ 178 * kMaxSpeed <= UintMax
  BY DEF kMaxSpeed, kReadSizeMultiplier
<1>2. s * 177 \in 0 .. UintMax
  BY <1>1
<1> QED
  BY <1>2 DEF kReadSizeMultiplier

SpeedInv ==
    /\ speed \in Nat
    /\ speedPc \in {"issue", "legacy", "done", "failed"} =>
          readSize = speed * 177 /\ (restore <=> speed = 0)
    /\ drive = "streaming" => speedPc = "done"

\* For every width of the fields: a drive is told the speed asked for.
THEOREM SpeedTheorem == SpeedSpec => []SpeedNotWrapped
<1>1. SpeedInit => SpeedInv
  BY SpeedAssumption DEF SpeedInit, SpeedInv
<1>2. SpeedInv /\ [SpeedNext]_speedVars => SpeedInv'
  <2> SUFFICES ASSUME SpeedInv, [SpeedNext]_speedVars PROVE SpeedInv'
    OBVIOUS
  <2>1. CASE SetStreaming
    <3>1. CASE speed >= kMaxSpeed
      BY <2>1, <3>1 DEF SetStreaming, SpeedInv
    <3>2. CASE ~(speed >= kMaxSpeed)
      <4>1. kMaxSpeed \in Nat
        BY SpeedAssumption DEF kMaxSpeed, kReadSizeMultiplier
      <4>2. (speed * kReadSizeMultiplier) % (UintMax + 1) = speed * 177
        BY <3>2, <4>1, GuardSuffices DEF SpeedInv
      <4> QED
        BY <2>1, <3>2, <4>2 DEF SetStreaming, SpeedInv
    <3> QED
      BY <3>1, <3>2
  <2>2. CASE Issue
    BY <2>2 DEF Issue, SpeedInv
  <2>3. CASE SelectSpeed
    BY <2>3 DEF SelectSpeed, SpeedInv
  <2>4. CASE UNCHANGED speedVars
    BY <2>4 DEF speedVars, SpeedInv
  <2> QED
    BY <2>1, <2>2, <2>3, <2>4 DEF SpeedNext
<1>3. SpeedInv => SpeedNotWrapped
  BY DEF SpeedInv, SpeedNotWrapped
<1> QED
  BY <1>1, <1>2, <1>3, PTL DEF SpeedSpec

-----------------------------------------------------------------------------
(* extract_bmi260_fw *)

\* No header is before the iterator.
NonePassed == \A h \in headers : it <= h

\* No header is the beginning of a whole blob.
NoneWhole == \A h \in headers : h + BlobSize > len

ExtractInv ==
    /\ len \in Nat /\ it \in Nat
    /\ idents \subseteq Nat /\ headers \subseteq idents
    /\ extractPc \in {"locate", "check", "done"} => NonePassed
    /\ extractPc = "done" => it \in headers /\ it + BlobSize <= len
    /\ extractPc \in {"not found", "no space"} => NoneWhole

\* The search takes the first whole blob and misses none, for every size of the
\* blob, of its header and of the file.
THEOREM ExtractTheorem == ExtractSpec => []FirstBlobFound
<1>1. ExtractInit => ExtractInv
  BY ExtractAssumption DEF ExtractInit, ExtractInv, NonePassed
<1>2. ExtractInv /\ [ExtractNext]_extractVars => ExtractInv'
  <2> SUFFICES ASSUME ExtractInv, [ExtractNext]_extractVars PROVE ExtractInv'
    OBVIOUS
  <2>0. BlobSize \in Nat
    BY ExtractAssumption
  <2>1. CASE Locate
    <3>0. extractPc = "locate" /\ UNCHANGED <<len, idents, headers>> /\ NonePassed
      BY <2>1 DEF Locate, ExtractInv
    <3>1. CASE (\A b \in idents : b < it) /\ extractPc' = "not found" /\ UNCHANGED it
      <4>1. ASSUME NEW h \in headers PROVE FALSE
        <5>1. h \in idents /\ h \in Nat /\ it \in Nat /\ it <= h
          BY <3>0 DEF ExtractInv, NonePassed
        <5>2. h < it
          BY <3>1, <5>1, Zenon
        <5> QED
          BY <5>1, <5>2
      <4> QED
        BY <3>0, <3>1, <4>1 DEF ExtractInv, NoneWhole
    <3>2. CASE it' \in idents /\ (\A a \in idents : a >= it => it' <= a) /\ extractPc' = "check"
      <4>1. NonePassed'
        BY <3>0, <3>2 DEF ExtractInv, NonePassed
      <4> QED
        BY <3>0, <3>2, <4>1 DEF ExtractInv
    <3> QED
      BY <2>1, <3>1, <3>2 DEF Locate
  <2>2. CASE Check
    <3>0. extractPc = "check" /\ UNCHANGED <<len, idents, headers>> /\ NonePassed
      BY <2>2 DEF Check, ExtractInv
    <3>1. CASE len - it < BlobSize /\ extractPc' = "no space" /\ UNCHANGED it
      <4>1. ASSUME NEW h \in headers PROVE h + BlobSize > len
        <5>1. h \in Nat /\ it \in Nat /\ len \in Nat /\ it <= h
          BY <3>0 DEF ExtractInv, NonePassed
        <5>2. len - it < BlobSize
          BY <3>1, Zenon
        <5> QED
          BY <2>0, <5>1, <5>2
      <4> QED
        BY <3>0, <3>1, <4>1 DEF ExtractInv, NoneWhole
    <3>2. CASE len - it >= BlobSize /\ it \in headers /\ extractPc' \in {"done", "failed"} /\ UNCHANGED it
      <4>1. len \in Nat /\ it \in Nat
        BY DEF ExtractInv
      <4>2. it + BlobSize <= len
        BY <2>0, <3>2, <4>1
      <4> QED
        BY <3>0, <3>2, <4>2 DEF ExtractInv, NonePassed
    <3>3. CASE it \notin headers /\ extractPc' = "locate" /\ it' = it + 1
      BY <3>0, <3>3 DEF ExtractInv, NonePassed
    <3> QED
      BY <2>2, <3>1, <3>2, <3>3 DEF Check
  <2>3. CASE UNCHANGED extractVars
    BY <2>3 DEF extractVars, ExtractInv, NonePassed, NoneWhole
  <2> QED
    BY <2>1, <2>2, <2>3 DEF ExtractNext
<1>3. ExtractInv => FirstBlobFound
  BY DEF ExtractInv, NonePassed, NoneWhole, FirstBlobFound
<1> QED
  BY <1>1, <1>2, <1>3, PTL DEF ExtractSpec

\* A bound for the steps that are left.
SearchWork ==
    CASE extractPc = "locate" -> 2 * (len - it) + 2
      [] extractPc = "check"  -> 2 * (len - it) + 1
      [] OTHER -> 0

\* The search for a blob ends on every file, the safety half of ToolsEnd: an
\* identifier without its header is passed, and never found again.
THEOREM SearchEnds == ExtractSpec => /\ [](SearchWork \in Nat)
                                     /\ [][SearchWork' < SearchWork]_extractVars
<1> DEFINE Inv ==
      /\ len \in Nat /\ it \in Nat /\ it <= len
      /\ \A b \in idents : b \in Nat /\ b <= len
<1>1. ExtractInit => Inv
  BY ExtractAssumption DEF ExtractInit
<1>2. Inv /\ ExtractNext => Inv' /\ SearchWork' < SearchWork
  <2> SUFFICES ASSUME Inv, ExtractNext PROVE Inv' /\ SearchWork' < SearchWork
    OBVIOUS
  <2>0. len - it \in Nat /\ 2 * (len - it) \in Nat
    OBVIOUS
  <2>1. CASE Locate
    <3>0. extractPc = "locate" /\ UNCHANGED <<len, idents, headers>>
      BY <2>1, Zenon DEF Locate
    <3>1. CASE extractPc' \notin {"locate", "check"} /\ UNCHANGED it
      BY <2>0, <3>0, <3>1 DEF SearchWork
    <3>2. CASE it' \in idents /\ it' >= it /\ extractPc' = "check"
      <4>1. it' \in Nat /\ it' <= len /\ 2 * (len - it') + 1 < 2 * (len - it) + 2
        BY <3>2
      <4> QED BY <3>0, <3>2, <4>1 DEF SearchWork
    <3>3. \/ extractPc' = "not found" /\ UNCHANGED it
          \/ it' \in idents /\ it' >= it /\ extractPc' = "check"
      BY <2>1, Zenon DEF Locate
    <3>4. "not found" \notin {"locate", "check"}
      BY Zenon
    <3> QED BY <3>1, <3>2, <3>3, <3>4, Zenon
  <2>2. CASE Check
    <3>0. extractPc = "check" /\ UNCHANGED <<len, idents, headers>>
      BY <2>2, Zenon DEF Check
    <3>1. BlobSize \in Nat /\ BlobSize > 0
      <4>1. IdentSize \in Nat /\ IdentSize # 0 /\ HeaderSize \in Nat /\ IdentSize <= HeaderSize
            /\ BlobSize \in Nat /\ HeaderSize <= BlobSize
        BY ExtractAssumption
      <4> QED BY <4>1
    <3>2. CASE extractPc' = "locate" /\ it' = it + 1 /\ len - it >= BlobSize
      <4>1. it + 1 <= len /\ it + 1 \in Nat /\ 2 * (len - (it + 1)) + 2 < 2 * (len - it) + 1
        BY <3>1, <3>2
      <4> QED BY <3>0, <3>2, <4>1 DEF SearchWork
    <3>3. CASE extractPc' \notin {"locate", "check"} /\ UNCHANGED it
      BY <2>0, <3>0, <3>3 DEF SearchWork
    <3>4. \/ extractPc' \in {"done", "failed", "no space"} /\ UNCHANGED it
          \/ extractPc' = "locate" /\ it' = it + 1 /\ len - it >= BlobSize
      BY <2>2, Zenon DEF Check
    <3>5. {"done", "failed", "no space"} \cap {"locate", "check"} = {}
      BY Zenon
    <3> QED BY <3>2, <3>3, <3>4, <3>5, Zenon
  <2> QED BY <2>1, <2>2 DEF ExtractNext
<1>3. Inv /\ [ExtractNext]_extractVars => Inv'
  BY <1>2 DEF extractVars
<1>4. Inv /\ [ExtractNext]_extractVars => [SearchWork' < SearchWork]_extractVars
  BY <1>2
<1>5. Inv => SearchWork \in Nat
  <2>1. Inv => len - it \in Nat
    OBVIOUS
  <2>2. \A n \in Nat : 2 * n + 2 \in Nat /\ 2 * n + 1 \in Nat
    OBVIOUS
  <2> QED BY <2>1, <2>2 DEF SearchWork
<1> QED BY <1>1, <1>3, <1>4, <1>5, PTL DEF ExtractSpec

-----------------------------------------------------------------------------
(* urlparse *)

\* The positions before p that give a character.
SpokenBefore(l, p) == {k \in Spoken(l) : k < p}

\* out is what the line says before position p.
SaidBefore(out, l, p) ==
    /\ Len(out) = Cardinality(SpokenBefore(l, p))
    /\ \A i \in SpokenBefore(l, p) : out[Cardinality({k \in Spoken(l) : k <= i})] = Meaning(l, i)

\* The reader is never inside an escape, and has written what is behind it.
UrlInv ==
    /\ urlLine \in Seq(0 .. 255)
    /\ urlPos \in 1 .. Len(urlLine) + 1
    /\ urlOut \in Seq(Int)
    /\ ~Escaped(urlLine, urlPos - 1) /\ ~Escaped(urlLine, urlPos - 2)
    /\ SaidBefore(urlOut, urlLine, urlPos)

\* A digit is no '%': escapes do not overlap.
LEMMA EscapesApart ==
    ASSUME NEW l \in Seq(0 .. 255), NEW i \in Int, Escaped(l, i)
    PROVE  ~Escaped(l, i + 1) /\ ~Escaped(l, i + 2)
<1>1. l[i + 1] \in Digits /\ l[i + 2] \in Digits
  BY DEF Escaped
<1>2. Percent \notin Digits
  BY DEF Percent, Digits
<1> QED
  BY <1>1, <1>2 DEF Escaped

\* What is counted before a position is finite, and grows by one with a
\* position that gives a character.
LEMMA CountSpoken ==
    ASSUME NEW l \in Seq(0 .. 255), NEW p \in Nat
    PROVE  /\ IsFiniteSet(SpokenBefore(l, p)) /\ Cardinality(SpokenBefore(l, p)) \in Nat
           /\ p \in Spoken(l) => /\ {k \in Spoken(l) : k <= p} = SpokenBefore(l, p + 1)
                                 /\ Cardinality(SpokenBefore(l, p + 1)) = Cardinality(SpokenBefore(l, p)) + 1
<1>1. Spoken(l) \subseteq 1 .. Len(l) /\ Len(l) \in Nat
  BY DEF Spoken
<1>2. IsFiniteSet(1 .. Len(l))
  BY <1>1, FS_Interval
<1>3. IsFiniteSet(SpokenBefore(l, p))
  BY <1>1, <1>2, FS_Subset DEF SpokenBefore
<1>4. Cardinality(SpokenBefore(l, p)) \in Nat
  BY <1>3, FS_CardinalityType
<1>5. ASSUME p \in Spoken(l)
      PROVE  /\ {k \in Spoken(l) : k <= p} = SpokenBefore(l, p + 1)
             /\ Cardinality(SpokenBefore(l, p + 1)) = Cardinality(SpokenBefore(l, p)) + 1
  <2>1. {k \in Spoken(l) : k <= p} = SpokenBefore(l, p + 1)
    BY <1>1 DEF SpokenBefore
  <2>2. SpokenBefore(l, p + 1) = SpokenBefore(l, p) \cup {p}
    BY <1>1, <1>5 DEF SpokenBefore
  <2>3. p \notin SpokenBefore(l, p)
    BY DEF SpokenBefore
  <2> QED
    BY <1>3, <2>1, <2>2, <2>3, FS_AddElement
<1> QED
  BY <1>3, <1>4, <1>5

\* A position before p is counted among those before p.
LEMMA CountBelow ==
    ASSUME NEW l \in Seq(0 .. 255), NEW p \in Nat, NEW i \in SpokenBefore(l, p)
    PROVE  Cardinality({k \in Spoken(l) : k <= i}) \in 1 .. Cardinality(SpokenBefore(l, p))
<1>1. i \in Nat /\ i \in Spoken(l) /\ i < p
  BY DEF SpokenBefore, Spoken
<1>2. {k \in Spoken(l) : k <= i} = SpokenBefore(l, i + 1)
  BY <1>1, CountSpoken
<1>3. SpokenBefore(l, i + 1) \subseteq SpokenBefore(l, p)
  <2>1. \A k \in Spoken(l) : k \in Nat
    BY DEF Spoken
  <2>2. \A k \in Nat : k < i + 1 => k < p
    BY <1>1
  <2> QED
    BY <2>1, <2>2 DEF SpokenBefore
<1>4. Cardinality(SpokenBefore(l, i + 1)) <= Cardinality(SpokenBefore(l, p))
  BY <1>3, CountSpoken, FS_Subset
<1>5. Cardinality(SpokenBefore(l, i + 1)) = Cardinality(SpokenBefore(l, i)) + 1
  BY <1>1, CountSpoken
<1>6. Cardinality(SpokenBefore(l, i)) \in Nat /\ Cardinality(SpokenBefore(l, p)) \in Nat
  BY <1>1, CountSpoken
<1>7. Cardinality(SpokenBefore(l, i + 1)) \in 1 .. Cardinality(SpokenBefore(l, p))
  BY <1>4, <1>5, <1>6
<1> QED
  BY <1>2, <1>7

\* Positions that give nothing leave what has been said as it is.
LEMMA NothingSaid ==
    ASSUME NEW l \in Seq(0 .. 255), NEW p \in Nat, NEW q \in Nat, p <= q,
           \A k \in p .. q - 1 : k \notin Spoken(l),
           NEW out, SaidBefore(out, l, p)
    PROVE  SaidBefore(out, l, q)
<1>1. \A k \in Spoken(l) : k \in Nat
  BY DEF Spoken
<1>2. SpokenBefore(l, q) = SpokenBefore(l, p)
  BY <1>1 DEF SpokenBefore
<1> QED
  BY <1>2 DEF SaidBefore

\* A position that gives a character, and that character behind the others.
LEMMA OneMoreSaid ==
    ASSUME NEW l \in Seq(0 .. 255), NEW p \in Spoken(l),
           NEW out \in Seq(Int), SaidBefore(out, l, p), Meaning(l, p) \in Int
    PROVE  SaidBefore(Append(out, Meaning(l, p)), l, p + 1)
<1> DEFINE n == Cardinality(SpokenBefore(l, p))
           more == Append(out, Meaning(l, p))
<1>1. p \in Nat
  BY DEF Spoken
<1>2. n \in Nat /\ {k \in Spoken(l) : k <= p} = SpokenBefore(l, p + 1)
      /\ Cardinality(SpokenBefore(l, p + 1)) = n + 1
  BY <1>1, CountSpoken
<1>3. Len(out) = n
  BY DEF SaidBefore
<1>4. Len(more) = n + 1 /\ more[n + 1] = Meaning(l, p) /\ \A k \in 1 .. n : more[k] = out[k]
  BY <1>2, <1>3
<1>5. ASSUME NEW i \in SpokenBefore(l, p + 1)
      PROVE  more[Cardinality({k \in Spoken(l) : k <= i})] = Meaning(l, i)
  <2>1. CASE i = p
    BY <1>2, <1>4, <2>1
  <2>2. CASE i # p
    <3>1. i \in SpokenBefore(l, p)
      BY <1>1, <1>5, <2>2 DEF SpokenBefore, Spoken
    <3>2. Cardinality({k \in Spoken(l) : k <= i}) \in 1 .. n
      BY <1>1, <3>1, CountBelow
    <3>3. out[Cardinality({k \in Spoken(l) : k <= i})] = Meaning(l, i)
      BY <3>1 DEF SaidBefore
    <3> QED
      BY <1>4, <3>2, <3>3
  <2> QED
    BY <2>1, <2>2
<1> QED
  BY <1>2, <1>4, <1>5 DEF SaidBefore

\* What is written for an escape is a number.
LEMMA DecodedInt ==
    ASSUME NEW d \in Digits, NEW e \in Digits
    PROVE  Decoded(d, e) \in 0 .. 255
  BY DEF Digits, Decoded, HexValue

\* urlparse decodes every line, whatever escapes, broken ones and ends it has.
THEOREM UrlTheorem == UrlSpec => []UrlDecoded
<1>1. UrlInit => UrlInv
  <2> SUFFICES ASSUME UrlInit
               PROVE  UrlInv
    OBVIOUS
  <2>1. urlLine \in Seq(0 .. 255) /\ urlPos = 1 /\ urlOut = <<>>
    BY UrlAssumption DEF UrlInit
  <2>2. SpokenBefore(urlLine, 1) = {}
    BY <2>1 DEF SpokenBefore, Spoken
  <2>3. SaidBefore(urlOut, urlLine, 1)
    BY <2>1, <2>2, FS_EmptySet DEF SaidBefore
  <2>4. ~Escaped(urlLine, 0) /\ ~Escaped(urlLine, -1)
    BY <2>1 DEF Escaped
  <2> QED
    BY <2>1, <2>3, <2>4 DEF UrlInv
<1>2. UrlInv /\ [UrlNext]_urlVars => UrlInv'
  <2> SUFFICES ASSUME UrlInv, [UrlNext]_urlVars
               PROVE  UrlInv'
    OBVIOUS
  <2> DEFINE l == urlLine
             p == urlPos
  <2>1. l \in Seq(0 .. 255) /\ Len(l) \in Nat /\ p \in Nat \ {0} /\ p <= Len(l) + 1 /\ urlOut \in Seq(Int)
        /\ ~Escaped(l, p - 1) /\ ~Escaped(l, p - 2) /\ SaidBefore(urlOut, l, p)
    BY DEF UrlInv
  <2>2. CASE Broken
    <3>1. p <= Len(l) /\ l[p] = Percent /\ ~Escaped(l, p) /\ p' = p + 1 /\ l' = l /\ urlOut' = urlOut
      BY <2>1, <2>2 DEF Broken, Escaped, IsValid
    <3>2. p \notin Spoken(l)
      BY <3>1 DEF Spoken
    <3>3. SaidBefore(urlOut, l, p + 1)
      BY <2>1, <3>2, NothingSaid
    <3> QED
      BY <2>1, <3>1, <3>3 DEF UrlInv
  <2>3. CASE Escape
    <3>1. p <= Len(l) /\ Escaped(l, p) /\ p' = p + 3 /\ l' = l
          /\ urlOut' = Append(urlOut, Decoded(l[p + 1], l[p + 2]))
      BY <2>1, <2>3 DEF Escape, Escaped, IsValid
    <3>2. p + 2 <= Len(l) /\ l[p + 1] \in Digits /\ l[p + 2] \in Digits
      BY <2>1, <3>1 DEF Escaped
    <3>3. p \in Spoken(l) /\ Meaning(l, p) = Decoded(l[p + 1], l[p + 2])
      BY <2>1, <3>1 DEF Spoken, Meaning
    <3>4. Meaning(l, p) \in Int
      <4>1. \A k \in 0 .. 255 : k \in Int
        OBVIOUS
      <4> QED
        BY <3>2, <3>3, <4>1, DecodedInt, Zenon
    <3>5. SaidBefore(urlOut', l, p + 1)
      BY <2>1, <3>1, <3>3, <3>4, OneMoreSaid
    <3>6. ~Escaped(l, p + 1) /\ ~Escaped(l, p + 2)
      BY <2>1, <3>1, EscapesApart
    <3>7. p + 1 \notin Spoken(l) /\ p + 2 \notin Spoken(l)
      BY <2>1, <3>1, <3>6 DEF Spoken
    <3>8. SaidBefore(urlOut', l, p + 3)
      <4>2. p \in Nat /\ p + 1 \in Nat /\ p + 3 \in Nat /\ p + 1 <= p + 3
        BY <2>1
      <4>1. ASSUME NEW k \in p + 1 .. (p + 3) - 1 PROVE k \notin Spoken(l)
        <5>1. k = p + 1 \/ k = p + 2
          BY <4>2
        <5> QED
          BY <3>7, <5>1, Zenon
      <4> QED
        BY <2>1, <3>5, <4>1, <4>2, NothingSaid
    <3> QED
      BY <2>1, <3>1, <3>2, <3>3, <3>4, <3>6, <3>8 DEF UrlInv
  <2>4. CASE Literal
    <3>1. p <= Len(l) /\ l[p] # Percent /\ ~Escaped(l, p) /\ p' = p + 1 /\ l' = l /\ urlOut' = Append(urlOut, l[p])
      BY <2>4 DEF Literal, Escaped
    <3>2. p \in DOMAIN l /\ l[p] \in Int
      <4>1. p \in DOMAIN l /\ l[p] \in 0 .. 255
        BY <2>1, <3>1
      <4>2. \A k \in 0 .. 255 : k \in Int
        OBVIOUS
      <4> QED
        BY <4>1, <4>2, Zenon
    <3>3. p \in Spoken(l) /\ Meaning(l, p) = l[p]
      BY <2>1, <3>1, <3>2, Zenon DEF Spoken, Meaning
    <3>4. SaidBefore(urlOut', l, p + 1)
      BY <2>1, <3>1, <3>2, <3>3, OneMoreSaid
    <3> QED
      BY <2>1, <3>1, <3>2, <3>4 DEF UrlInv
  <2>5. CASE UNCHANGED urlVars
    BY <2>5 DEF UrlInv, urlVars
  <2> QED
    BY <2>2, <2>3, <2>4, <2>5 DEF UrlNext
<1>3. UrlInv => UrlDecoded
  <2> SUFFICES ASSUME UrlInv, urlPos > Len(urlLine)
               PROVE  Says(urlOut, urlLine)
    BY DEF UrlDecoded
  <2>1. SpokenBefore(urlLine, urlPos) = Spoken(urlLine)
    BY DEF UrlInv, SpokenBefore, Spoken
  <2> QED
    BY <2>1 DEF UrlInv, SaidBefore, Says
<1> QED
  BY <1>1, <1>2, <1>3, PTL DEF UrlSpec

-----------------------------------------------------------------------------
(* upper_sanitize *)

\* Behind the beginning of the line, a blank with no letter since.
BlankSince(l, p) ==
    \E w \in 2 .. p - 1 : l[w] \in Blank /\ \A k \in w .. p - 1 : l[k] \notin Upper \cup Lower

\* The two flags say where the reader is in the line, and what is behind it is
\* written as it should be.
CaseInv ==
    /\ caseLine \in Seq(CaseChar)
    /\ casePos \in 1 .. Len(caseLine) + 1
    /\ lineBegin \in BOOLEAN /\ (lineBegin <=> casePos = 1)
    /\ wordBegin \in BOOLEAN /\ (wordBegin <=> BlankSince(caseLine, casePos))
    /\ caseOut \in Seq(CaseChar)
    /\ Len(caseOut) = casePos - 1
    /\ \A i \in 1 .. casePos - 1 : caseOut[i] = CaseMeaning(caseLine)[i]

\* The kinds of characters have nothing in common.
LEMMA CharKinds ==
    /\ \A c \in Blank : c \notin Upper \cup Lower
    /\ \A c \in Upper : ToLower(c) \in CaseChar
  BY DEF Blank, Upper, Lower, ToLower, CaseChar

\* What one more character makes of BlankSince.
LEMMA BlankStep ==
    ASSUME NEW l \in Seq(CaseChar), NEW p \in Nat \ {0}, p <= Len(l)
    PROVE  BlankSince(l, p + 1) <=>
             l[p] \notin Upper \cup Lower /\ (BlankSince(l, p) \/ (p # 1 /\ l[p] \in Blank))
<1>1. ASSUME BlankSince(l, p + 1)
      PROVE  l[p] \notin Upper \cup Lower /\ (BlankSince(l, p) \/ (p # 1 /\ l[p] \in Blank))
  <2>1. PICK w \in 2 .. p : l[w] \in Blank /\ \A k \in w .. p : l[k] \notin Upper \cup Lower
    BY <1>1 DEF BlankSince
  <2>2. l[p] \notin Upper \cup Lower
    BY <2>1
  <2>3. CASE w = p
    BY <2>1, <2>2, <2>3
  <2>4. CASE w # p
    BY <2>1, <2>2, <2>4 DEF BlankSince
  <2> QED
    BY <2>3, <2>4
<1>2. ASSUME l[p] \notin Upper \cup Lower, BlankSince(l, p)
      PROVE  BlankSince(l, p + 1)
  <2>1. PICK w \in 2 .. p - 1 : l[w] \in Blank /\ \A k \in w .. p - 1 : l[k] \notin Upper \cup Lower
    BY <1>2 DEF BlankSince
  <2>2. \A k \in w .. p : l[k] \notin Upper \cup Lower
    BY <1>2, <2>1
  <2> QED
    BY <2>1, <2>2 DEF BlankSince
<1>3. ASSUME l[p] \notin Upper \cup Lower, p # 1, l[p] \in Blank
      PROVE  BlankSince(l, p + 1)
  BY <1>3 DEF BlankSince
<1> QED
  BY <1>1, <1>2, <1>3

\* Writing the character as it should be is enough for what is behind.
LEMMA PushOK ==
    ASSUME CaseInv, casePos <= Len(caseLine), NEW c \in CaseChar, Push(c),
           c = CaseMeaning(caseLine)[casePos]
    PROVE  /\ caseLine' \in Seq(CaseChar)
           /\ casePos' \in 1 .. Len(caseLine') + 1
           /\ caseOut' \in Seq(CaseChar)
           /\ Len(caseOut') = casePos' - 1
           /\ \A i \in 1 .. casePos' - 1 : caseOut'[i] = CaseMeaning(caseLine')[i]
<1>1. caseLine' = caseLine /\ casePos' = casePos + 1 /\ caseOut' = Append(caseOut, c)
  BY DEF Push
<1>2. caseLine \in Seq(CaseChar) /\ Len(caseLine) \in Nat /\ casePos \in Nat \ {0} /\ caseOut \in Seq(CaseChar)
      /\ Len(caseOut) = casePos - 1 /\ \A i \in 1 .. casePos - 1 : caseOut[i] = CaseMeaning(caseLine)[i]
  BY DEF CaseInv
<1>3. caseOut' \in Seq(CaseChar) /\ Len(caseOut') = casePos
      /\ caseOut'[casePos] = c /\ \A i \in 1 .. casePos - 1 : caseOut'[i] = caseOut[i]
  BY <1>1, <1>2
<1>4. \A i \in 1 .. casePos : i = casePos \/ i \in 1 .. casePos - 1
  BY <1>2
<1>5. \A i \in 1 .. casePos : caseOut'[i] = CaseMeaning(caseLine)[i]
  BY <1>2, <1>3, <1>4
<1>6. casePos' - 1 = casePos
  BY <1>1, <1>2
<1> QED
  BY <1>1, <1>2, <1>3, <1>5, <1>6

\* upper_sanitize leaves the capitals at the beginnings of words, and no other,
\* in every line.
THEOREM CaseTheorem == CaseSpec => []CaseSanitized
<1>1. CaseInit => CaseInv
  <2> SUFFICES ASSUME CaseInit
               PROVE  CaseInv
    OBVIOUS
  <2>1. ~BlankSince(caseLine, 1)
    BY DEF BlankSince
  <2>2. caseLine \in Seq(CaseChar) /\ casePos = 1 /\ caseOut = <<>> /\ lineBegin = TRUE /\ wordBegin = FALSE
    BY CaseAssumption DEF CaseInit
  <2>3. casePos \in 1 .. Len(caseLine) + 1 /\ Len(caseOut) = casePos - 1 /\ caseOut \in Seq(CaseChar)
        /\ \A i \in 1 .. casePos - 1 : FALSE
    BY <2>2
  <2> QED
    BY <2>1, <2>2, <2>3, Zenon DEF CaseInv
<1>2. CaseInv /\ [CaseNext]_caseVars => CaseInv'
  <2> SUFFICES ASSUME CaseInv, [CaseNext]_caseVars
               PROVE  CaseInv'
    OBVIOUS
  <2>1. CASE UNCHANGED caseVars
    BY <2>1 DEF CaseInv, caseVars
  <2>2. CASE CaseNext
    <3> DEFINE l == caseLine
               p == casePos
               c == caseLine[casePos]
    <3>1. p <= Len(l) /\ l \in Seq(CaseChar) /\ p \in Nat \ {0} /\ c \in CaseChar /\ p \in DOMAIN l
          /\ (lineBegin <=> p = 1) /\ wordBegin \in BOOLEAN /\ (wordBegin <=> BlankSince(l, p))
      BY <2>2 DEF CaseNext, CaseInv
    <3>2. CaseMeaning(l)[p] = IF c \in Upper /\ ~KeepsCapital(l, p) THEN ToLower(c) ELSE c
      BY <3>1 DEF CaseMeaning
    <3>3. KeepsCapital(l, p) <=> p = 1 \/ BlankSince(l, p)
      BY DEF KeepsCapital, BlankSince
    <3>4. BlankSince(l, p + 1) <=>
            c \notin Upper \cup Lower /\ (BlankSince(l, p) \/ (p # 1 /\ c \in Blank))
      BY <3>1, BlankStep
    <3>5. SUFFICES ASSUME NEW d \in CaseChar, Push(d), d = CaseMeaning(l)[p],
                          lineBegin' = FALSE, wordBegin' \in BOOLEAN, wordBegin' <=> BlankSince(l, p + 1)
                   PROVE  CaseInv'
      <4>1. CASE First(c)
        <5>1. p = 1 /\ Push(c) /\ lineBegin' = FALSE /\ wordBegin' = wordBegin
          BY <3>1, <4>1 DEF First
        <5>2. ~BlankSince(l, p) /\ ~BlankSince(l, p + 1)
          BY <5>1 DEF BlankSince
        <5>3. c = CaseMeaning(l)[p]
          BY <3>2, <3>3, <5>1
        <5> QED
          BY <3>1, <3>5, <5>1, <5>2, <5>3
      <4>2. CASE Space(c)
        <5>1. p # 1 /\ c \in Blank /\ Push(c) /\ lineBegin' = FALSE /\ wordBegin' = TRUE
          BY <3>1, <4>2 DEF Space
        <5>2. c \notin Upper \cup Lower
          BY <5>1, CharKinds
        <5> QED
          BY <3>1, <3>2, <3>4, <3>5, <5>1, <5>2
      <4>3. CASE WordBegin(c)
        <5>1. p # 1 /\ c \notin Blank /\ BlankSince(l, p) /\ Push(c)
              /\ lineBegin' = FALSE /\ wordBegin' = (c \notin Upper \cup Lower)
          BY <3>1, <4>3 DEF WordBegin
        <5> QED
          BY <3>1, <3>2, <3>3, <3>4, <3>5, <5>1
      <4>4. CASE Inside(c)
        <5> DEFINE d == IF c \in Upper THEN ToLower(c) ELSE c
        <5>1. p # 1 /\ c \notin Blank /\ ~BlankSince(l, p) /\ Push(d)
              /\ lineBegin' = FALSE /\ wordBegin' = FALSE
          BY <3>1, <4>4 DEF Inside
        <5>2. d \in CaseChar /\ d = CaseMeaning(l)[p]
          BY <3>1, <3>2, <3>3, <5>1, CharKinds
        <5> QED
          BY <3>4, <3>5, <5>1, <5>2
      <4> QED
        BY <2>2, <4>1, <4>2, <4>3, <4>4 DEF CaseNext
    <3>6. l' = l /\ p' = p + 1
      BY <3>5 DEF Push
    <3>7. ~lineBegin' /\ p' # 1 /\ (wordBegin' <=> BlankSince(l', p'))
      BY <3>1, <3>5, <3>6
    <3> QED
      BY <3>1, <3>5, <3>7, PushOK DEF CaseInv
  <2> QED
    BY <2>1, <2>2
<1>3. CaseInv => CaseSanitized
  <2> SUFFICES ASSUME CaseInv, casePos > Len(caseLine)
               PROVE  caseOut = CaseMeaning(caseLine)
    BY DEF CaseSanitized
  <2>1. Len(caseOut) = Len(caseLine) /\ caseOut \in Seq(CaseChar) /\ caseLine \in Seq(CaseChar)
        /\ \A i \in 1 .. Len(caseLine) : caseOut[i] = CaseMeaning(caseLine)[i]
    BY DEF CaseInv
  <2>2. DOMAIN caseOut = DOMAIN caseLine /\ DOMAIN caseLine = 1 .. Len(caseLine)
        /\ caseOut = [i \in DOMAIN caseOut |-> caseOut[i]]
    BY <2>1
  <2> QED
    BY <2>1, <2>2 DEF CaseMeaning
<1> QED
  BY <1>1, <1>2, <1>3, PTL DEF CaseSpec

=============================================================================
