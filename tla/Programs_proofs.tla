--------------------------- MODULE Programs_proofs ---------------------------
(***************************************************************************)
(* Theorems about the programs that look something up or set something up: *)
(* for directories, session lists and keys of every length, for all users  *)
(* and groups, and for any number of devices and blocked paths.            *)
(***************************************************************************)
EXTENDS AecramUtil, LoginSessions, BacklightLookup, DaemonStart, Container, AccessBlocker,
        KdumpTransfer, TLAPS

-----------------------------------------------------------------------------
(* aecram_util *)

UtilInv ==
    /\ dump \in Dumps
    /\ request \in [offset: Int, length: Int, buffer: [0 .. BufferLength - 1 -> Int]]
    /\ printed \in Seq(Int)
    /\ utilPc \in {"open", "read", "print", "done"} => InBounds(dump)
    /\ utilPc \in {"read", "print", "done"} =>
          request.offset = UnknownOffset + dump.offset /\ request.length = dump.length
    /\ utilPc \in {"print", "done"} =>
          \A i \in 0 .. dump.length - 1 : request.buffer[i] = UnknownOffset + dump.offset + i
    /\ utilPc \notin {"print", "done"} => printed = <<>>
    /\ Len(printed) <= dump.length
    /\ DumpExact

\* The fields of the request hold what is asked for, whatever their widths.
LEMMA FieldsSuffice ==
    ASSUME NEW d \in Dumps, InBounds(d)
    PROVE  /\ d.offset \in Nat /\ d.length \in 0 .. BufferLength
           /\ (UnknownOffset + d.offset) % (OffsetMax + 1) = UnknownOffset + d.offset
           /\ d.length % (LengthMax + 1) = d.length
<1>1. d.offset \in Nat /\ d.length \in Nat /\ OffsetMax \in Nat /\ LengthMax \in Nat
      /\ UnknownOffset \in Nat /\ BufferLength \in Nat /\ BufferLength <= LengthMax
  BY UtilAssumption
<1>2. UnknownOffset + d.offset \in 0 .. OffsetMax /\ d.length \in 0 .. LengthMax
  BY <1>1 DEF InBounds
<1> QED
  BY <1>1, <1>2 DEF InBounds

\* A dump that succeeds has printed each byte from its own address, for every
\* width of the fields and every size of the buffer.
THEOREM DumpTheorem == UtilSpec => []DumpExact
<1>1. UtilInit => UtilInv
  BY UtilAssumption DEF UtilInit, UtilInv, NothingRead, DumpExact
<1>2. UtilInv /\ [UtilNext]_utilVars => UtilInv'
  <2> SUFFICES ASSUME UtilInv, [UtilNext]_utilVars PROVE UtilInv'
    OBVIOUS
  <2>0. /\ dump.offset \in Nat /\ dump.length \in Nat
        /\ BufferLength \in Nat /\ UnknownOffset \in Nat
    BY UtilAssumption DEF UtilInv
  <2>1. CASE CheckDump
    BY <2>1 DEF CheckDump, UtilGoto, UtilInv, DumpExact
  <2>2. CASE OpenDevice
    <3>1. CASE utilPc' = "failed" /\ UNCHANGED request
      BY <2>2, <3>1 DEF OpenDevice, UtilInv, DumpExact
    <3>2. CASE /\ utilPc' = "read"
               /\ request' = [request EXCEPT
                                 !.offset = (UnknownOffset + dump.offset) % (OffsetMax + 1),
                                 !.length = dump.length % (LengthMax + 1)]
      <4>1. InBounds(dump) /\ printed = <<>> /\ UNCHANGED <<dump, printed>>
        BY <2>2 DEF OpenDevice, UtilInv
      <4>f. /\ (UnknownOffset + dump.offset) % (OffsetMax + 1) = UnknownOffset + dump.offset
            /\ dump.length % (LengthMax + 1) = dump.length
        BY <4>1, FieldsSuffice DEF UtilInv
      <4>2. request' = [offset |-> UnknownOffset + dump.offset, length |-> dump.length,
                        buffer |-> request.buffer]
        BY <3>2, <4>f DEF UtilInv
      <4>3. /\ request'.offset = UnknownOffset + dump.offset
            /\ request'.length = dump.length
            /\ request' \in [offset: Int, length: Int, buffer: [0 .. BufferLength - 1 -> Int]]
        BY <2>0, <4>2 DEF UtilInv
      <4> QED
        BY <3>2, <4>1, <4>3 DEF UtilInv, DumpExact, InBounds
    <3> QED
      BY <2>2, <3>1, <3>2 DEF OpenDevice, UtilGoto
  <2>3. CASE ReadAecram
    <3>1. CASE utilPc' = "failed" /\ UNCHANGED request
      BY <2>3, <3>1 DEF ReadAecram, UtilInv, DumpExact
    <3>2. CASE /\ utilPc' = "print"
               /\ request' = [request EXCEPT !.buffer =
                    [i \in DOMAIN NothingRead |->
                        IF i < request.length THEN request.offset + i ELSE -1]]
      <4>1. /\ InBounds(dump) /\ printed = <<>> /\ UNCHANGED <<dump, printed>>
            /\ request.offset = UnknownOffset + dump.offset /\ request.length = dump.length
        BY <2>3 DEF ReadAecram, UtilInv
      <4>2. DOMAIN NothingRead = 0 .. BufferLength - 1 /\ dump.length <= BufferLength
        BY <4>1 DEF NothingRead, InBounds
      <4>3. request'.offset = request.offset /\ request'.length = request.length
        BY <3>2 DEF UtilInv
      <4>4. request'.buffer = [i \in 0 .. BufferLength - 1 |->
                                  IF i < dump.length THEN UnknownOffset + dump.offset + i ELSE -1]
        BY <3>2, <4>1, <4>2 DEF UtilInv
      <4>5. \A i \in 0 .. dump.length - 1 : request'.buffer[i] = UnknownOffset + dump.offset + i
        BY <2>0, <4>2, <4>4
      <4>6. request' \in [offset: Int, length: Int, buffer: [0 .. BufferLength - 1 -> Int]]
        <5>1. request'.buffer \in [0 .. BufferLength - 1 -> Int]
          BY <2>0, <4>4
        <5>2. request' = [offset |-> request.offset, length |-> request.length,
                          buffer |-> request'.buffer]
          BY <3>2 DEF UtilInv
        <5> QED
          BY <5>1, <5>2 DEF UtilInv
      <4> QED
        BY <2>0, <3>2, <4>1, <4>3, <4>5, <4>6 DEF UtilInv, DumpExact, InBounds
    <3> QED
      BY <2>3, <3>1, <3>2 DEF ReadAecram, UtilGoto
  <2>4. CASE PrintByte
    <3>0. UNCHANGED <<dump, request>> /\ utilPc = "print" /\ Len(printed) \in Nat
      BY <2>4 DEF PrintByte, UtilInv
    <3>1. CASE Len(printed) < dump.length
      <4>1. printed' = Append(printed, request.buffer[Len(printed)]) /\ utilPc' = "print"
        BY <2>4, <3>0, <3>1 DEF PrintByte
      <4>2. request.buffer[Len(printed)] = UnknownOffset + dump.offset + Len(printed)
        <5>1. Len(printed) \in 0 .. dump.length - 1
          BY <2>0, <3>0, <3>1
        <5> QED
          BY <3>0, <5>1 DEF UtilInv
      <4>3. /\ printed' \in Seq(Int) /\ Len(printed') = Len(printed) + 1
            /\ printed'[Len(printed) + 1] = UnknownOffset + dump.offset + Len(printed)
            /\ \A k \in 1 .. Len(printed) : printed'[k] = printed[k]
        BY <2>0, <3>0, <4>1, <4>2 DEF UtilInv
      <4>4. \A k \in 1 .. Len(printed') : printed'[k] = UnknownOffset + dump.offset + k - 1
        <5> SUFFICES ASSUME NEW k \in 1 .. Len(printed) + 1
                     PROVE  printed'[k] = UnknownOffset + dump.offset + k - 1
          BY <4>3
        <5>1. CASE k = Len(printed) + 1
          BY <2>0, <3>0, <4>3, <5>1
        <5>2. CASE k \in 1 .. Len(printed)
          <6>1. k \in DOMAIN printed /\ printed'[k] = printed[k]
            BY <4>3, <5>2 DEF UtilInv
          <6> QED
            BY <6>1 DEF UtilInv, DumpExact
        <5> QED
          BY <3>0, <5>1, <5>2
      <4>5. DOMAIN printed' = 1 .. Len(printed')
        BY <4>3
      <4> QED
        BY <3>0, <3>1, <4>1, <4>3, <4>4, <4>5 DEF UtilInv, DumpExact, InBounds
    <3>2. CASE ~(Len(printed) < dump.length)
      BY <2>0, <2>4, <3>0, <3>2 DEF PrintByte, UtilGoto, UtilInv, DumpExact, InBounds
    <3> QED
      BY <3>1, <3>2
  <2>5. CASE UNCHANGED utilVars
    BY <2>5 DEF utilVars, UtilInv, DumpExact, InBounds
  <2> QED
    BY <2>1, <2>2, <2>3, <2>4, <2>5 DEF UtilNext
<1>3. UtilInv => DumpExact
  BY DEF UtilInv
<1> QED
  BY <1>1, <1>2, <1>3, PTL DEF UtilSpec

-----------------------------------------------------------------------------
(* active_user, notify_wrapper *)

\* None of the sessions the walk has passed is at the display.
NonePassedBy == ~lost => \A k \in DOMAIN sessions : k < s => ~AtDisplay(sessions[k])

\* The sessions get_active_user does not ask for their user.
PassedOver(x) == x.remote \/ ~x.active

\* ret is the number of the sessions until one of them is asked.
RetSoFar ==
    program = "active_user" /\ sessPc # "found" /\ ~lost =>
        ret = IF \A k \in DOMAIN sessions : k < s => PassedOver(sessions[k])
              THEN Len(sessions) ELSE 0

SessInv ==
    /\ sessPc \in {"walk", "found", "none"}
    /\ program \in {"active_user", "notify_wrapper"}
    /\ sessions \in Seq(Session)
    /\ s \in Nat \ {0}
    /\ userId \in Users \cup {Nobody} /\ euid \in Users
    /\ lost \in BOOLEAN
    /\ NonePassedBy
    /\ RetSoFar
    /\ sessPc # "found" => userId = Nobody
    /\ sessPc = "found" /\ program = "active_user" => ret = 1
    /\ sessPc = "found" =>
          s \in DOMAIN sessions /\ AtDisplay(sessions[s]) /\ userId = sessions[s].uid
    /\ sessPc = "none" /\ ~lost => s > Len(sessions)

\* A session that is passed without an error is not at the display.
LEMMA PassedBy ==
    ASSUME SessInv, s <= Len(sessions), s' = s + 1, UNCHANGED <<program, sessions, euid>>,
           lost' = lost, ~AtDisplay(sessions[s])
    PROVE  NonePassedBy'
<1> SUFFICES ASSUME ~lost, NEW k \in DOMAIN sessions, k < s + 1 PROVE ~AtDisplay(sessions[k])
  BY DEF NonePassedBy, AtDisplay
<1>1. k \in Nat /\ s \in Nat
  BY DEF SessInv
<1>2. CASE k = s
  BY <1>2
<1>3. CASE k < s
  BY <1>3 DEF SessInv, NonePassedBy
<1> QED
  BY <1>1, <1>2, <1>3

\* ret stays when a session is passed over, and is 0 from the first one on that
\* is asked.
LEMMA RetOfPassed ==
    ASSUME SessInv, s <= Len(sessions), s' = s + 1, UNCHANGED <<sessPc, program, sessions>>,
           sessPc # "found", lost' = lost,
           program = "active_user" => ret' = IF PassedOver(sessions[s]) THEN ret ELSE 0
    PROVE  RetSoFar'
<1> SUFFICES ASSUME program = "active_user", ~lost
             PROVE  ret' = IF \A k \in DOMAIN sessions : k < s + 1 => PassedOver(sessions[k])
                           THEN Len(sessions) ELSE 0
  BY DEF RetSoFar, PassedOver
<1>1. s \in DOMAIN sessions /\ s \in Nat /\ \A k \in DOMAIN sessions : k \in Nat
  BY DEF SessInv
<1>2. (\A k \in DOMAIN sessions : k < s + 1 => PassedOver(sessions[k]))
        <=> /\ \A k \in DOMAIN sessions : k < s => PassedOver(sessions[k])
            /\ PassedOver(sessions[s])
  <2>1. \A k \in DOMAIN sessions : k < s + 1 <=> k < s \/ k = s
    BY <1>1
  <2> QED
    BY <1>1, <2>1
<1>3. ret = IF \A k \in DOMAIN sessions : k < s => PassedOver(sessions[k])
            THEN Len(sessions) ELSE 0
  BY DEF SessInv, RetSoFar
<1> QED
  BY <1>2, <1>3

\* For every list of sessions: who is reported or notified is at a display, and
\* the first one there; and the number get_active_user returns says so or counts
\* the sessions.
THEOREM SessionTheorem == SessSpec => []UserAtDisplay
<1>1. SessInit => SessInv
  <2> SUFFICES ASSUME SessInit PROVE SessInv
    OBVIOUS
  <2>1. sessions \in Seq(Session) /\ s = 1
    BY SessionAssumption DEF SessInit
  <2>2. NonePassedBy
    <3>1. \A k \in DOMAIN sessions : ~(k < s)
      BY <2>1
    <3> QED
      BY <3>1 DEF NonePassedBy
  <2>3. lost \in BOOLEAN /\ userId = Nobody /\ sessPc = "walk" /\ ret = Len(sessions)
    BY DEF SessInit
  <2>4. s \in Nat \ {0}
    BY <2>1
  <2>5. RetSoFar
    <3>1. \A k \in DOMAIN sessions : ~(k < s)
      BY <2>1
    <3> QED
      BY <2>3, <3>1 DEF RetSoFar
  <2> QED
    BY <2>1, <2>2, <2>3, <2>4, <2>5 DEF SessInit, SessInv
<1>2. SessInv /\ [SessNext]_sessVars => SessInv'
  <2> SUFFICES ASSUME SessInv, [SessNext]_sessVars PROVE SessInv'
    OBVIOUS
  <2>1. CASE EndOfList
    <3>1. UNCHANGED <<program, sessions, s, userId, euid>> /\ sessPc' = "none" /\ sessPc = "walk"
      BY <2>1 DEF EndOfList
    <3>2. \/ lost' = TRUE
          \/ lost' = lost /\ ret' = ret /\ s > Len(sessions)
      BY <2>1 DEF EndOfList
    <3>3. NonePassedBy' /\ RetSoFar'
      BY <3>1, <3>2 DEF SessInv, NonePassedBy, AtDisplay, RetSoFar, PassedOver
    <3> QED
      BY <3>1, <3>2, <3>3 DEF SessInv
  <2>2. CASE PassOver \/ OtherType
    <3>1. /\ UNCHANGED <<sessPc, program, sessions, userId, euid>> /\ s' = s + 1
          /\ sessPc = "walk" /\ s <= Len(sessions)
      BY <2>2 DEF PassOver, OtherType, Continue
    <3>2. lost' = lost
      BY <2>2 DEF PassOver, OtherType, Continue, SessInv
    <3>3. ~AtDisplay(sessions[s])
      BY <2>2 DEF PassOver, OtherType, Candidate, AtDisplay, SessInv
    <3>4. NonePassedBy'
      BY <3>1, <3>2, <3>3, PassedBy
    <3>5. program = "active_user" => ret' = IF PassedOver(sessions[s]) THEN ret ELSE 0
      BY <2>2 DEF PassOver, OtherType, Continue, Candidate, PassedOver
    <3>6. RetSoFar'
      BY <3>1, <3>2, <3>5, RetOfPassed
    <3> QED
      BY <3>1, <3>2, <3>4, <3>6 DEF SessInv
  <2>3. CASE Gone
    <3>1. /\ UNCHANGED <<sessPc, program, sessions, userId, euid>> /\ s' = s + 1
          /\ sessPc = "walk" /\ lost' = TRUE
      BY <2>3 DEF Gone, Continue
    <3> QED
      BY <3>1 DEF SessInv, NonePassedBy, RetSoFar
  <2>4. CASE Found
    <3>1. /\ UNCHANGED <<program, sessions, s, euid, lost>> /\ sessPc' = "found"
          /\ s \in DOMAIN sessions
          /\ userId' = IF program = "active_user" THEN sessions[s].uid ELSE euid
          /\ program = "active_user" => ret' = 1
      BY <2>4 DEF Found, SessInv
    <3>2. sessions[s] \in Session
      BY <3>1 DEF SessInv
    <3>3. AtDisplay(sessions[s])
      BY <2>4 DEF Found, Candidate, AtDisplay
    <3>4. userId' = sessions[s].uid /\ userId' \in Users
      BY <2>4, <3>1, <3>2 DEF Found, Candidate, Session
    <3>5. NonePassedBy' /\ AtDisplay(sessions[s])'
      BY <3>1, <3>3 DEF SessInv, NonePassedBy, AtDisplay
    <3>6. RetSoFar'
      BY <3>1 DEF RetSoFar
    <3> QED
      BY <3>1, <3>4, <3>5, <3>6 DEF SessInv
  <2>5. CASE UNCHANGED sessVars
    BY <2>5 DEF sessVars, SessInv, NonePassedBy, AtDisplay, RetSoFar, PassedOver
  <2> QED
    BY <2>1, <2>2, <2>3, <2>4, <2>5 DEF SessNext
<1>3. SessInv => UserAtDisplay
  <2> SUFFICES ASSUME SessInv PROVE UserAtDisplay
    OBVIOUS
  <2>1. program = "active_user" /\ sessPc = "none" /\ ~lost =>
          ret = IF \A k \in DOMAIN sessions : sessions[k].remote \/ ~sessions[k].active
                THEN Len(sessions) ELSE 0
    <3> SUFFICES ASSUME program = "active_user", sessPc = "none", ~lost
                 PROVE  ret = IF \A k \in DOMAIN sessions : PassedOver(sessions[k])
                              THEN Len(sessions) ELSE 0
      BY DEF PassedOver
    <3>1. \A k \in DOMAIN sessions : k < s
      BY DEF SessInv
    <3> QED
      BY <3>1 DEF SessInv, RetSoFar
  <2>2. DOMAIN sessions = 1 .. Len(sessions) /\ Len(sessions) \in Nat
    BY DEF SessInv
  <2>3. sessPc = "found" /\ ~lost => \A k \in 1 .. s - 1 : ~AtDisplay(sessions[k])
    BY <2>2 DEF SessInv, NonePassedBy
  <2>4. sessPc = "none" /\ ~lost => \A k \in DOMAIN sessions : ~AtDisplay(sessions[k])
    BY <2>2 DEF SessInv, NonePassedBy
  <2> QED
    BY <2>1, <2>3, <2>4 DEF SessInv, UserAtDisplay
<1> QED
  BY <1>1, <1>2, <1>3, PTL DEF SessSpec

-----------------------------------------------------------------------------
(* lookup_backlight_node *)

NoneBelongs == ~vanished => \A k \in DOMAIN dir : k < at => ~Belongs(dir[k])

LookInv ==
    /\ dir \in Seq(Node)
    /\ \A k \in DOMAIN dir : dir[k].path # <<>>
    /\ at \in 0 .. Len(dir)
    /\ vanished \in BOOLEAN
    /\ NoneBelongs
    /\ lookPc \in {"next", "climb", "identify", "found", "none"}
    /\ lookPc \in {"climb", "identify", "found"} =>
          /\ at # 0 /\ dir[at].link /\ dir[at].prefix
          /\ climb \in DOMAIN dir[at].path
          /\ \A k \in 1 .. climb - 1 : dir[at].path[k] = "bus"
    /\ lookPc = "identify" => dir[at].path[climb] # "bus"
    /\ lookPc = "found" => dir[at].path[climb] = "ours"
    /\ lookPc \in {"next", "none"} /\ at # 0 /\ ~vanished => ~Belongs(dir[at])
    /\ lookPc = "none" => at = Len(dir)

\* A node that fails to be identified does not belong to the device.
LEMMA OtherDevice ==
    ASSUME NEW node \in Node, NEW l \in DOMAIN node.path, node.path[l] # "ours",
           \A k \in 1 .. l - 1 : node.path[k] = "bus",
           node.path[l] # "bus" \/ l = Len(node.path)
    PROVE  ~Belongs(node)
<1> SUFFICES ASSUME NEW m \in DOMAIN node.path, node.path[m] = "ours",
                    \A k \in 1 .. m - 1 : node.path[k] = "bus"
             PROVE  FALSE
  BY DEF Belongs
<1>1. node.path \in Seq(Level)
  BY DEF Node
<1>2. l \in Nat /\ m \in Nat /\ l \in 1 .. Len(node.path) /\ m \in 1 .. Len(node.path)
  BY <1>1
<1>3. CASE m < l
  BY <1>2, <1>3
<1>4. CASE m = l
  BY <1>4
<1>5. CASE m > l
  BY <1>2, <1>5
<1> QED
  BY <1>2, <1>3, <1>4, <1>5

\* For all directories and chains of devices: the backlight that is found is
\* the first that belongs to the configured device.
THEOREM LookupTheorem == LookSpec => []LookupFindsFirst
<1>1. LookInit => LookInv
  <2> SUFFICES ASSUME LookInit PROVE LookInv
    OBVIOUS
  <2>1. dir \in Seq(Node) /\ (\A k \in DOMAIN dir : dir[k].path # <<>>) /\ at = 0
    BY LookupAssumption DEF LookInit
  <2>2. NoneBelongs
    <3>1. \A k \in DOMAIN dir : ~(k < at)
      BY <2>1
    <3> QED
      BY <3>1 DEF NoneBelongs
  <2>3. vanished \in BOOLEAN /\ lookPc = "next"
    BY DEF LookInit
  <2>4. at \in 0 .. Len(dir)
    BY <2>1
  <2> QED
    BY <2>1, <2>2, <2>3, <2>4 DEF LookInv
<1>2. LookInv /\ [LookNext]_lookVars => LookInv'
  <2> SUFFICES ASSUME LookInv, [LookNext]_lookVars PROVE LookInv'
    OBVIOUS
  <2>0. /\ DOMAIN dir = 1 .. Len(dir) /\ Len(dir) \in Nat /\ at \in Nat
        /\ \A k \in DOMAIN dir : dir[k] \in Node /\ dir[k].path \in Seq(Level)
    <3>1. dir \in Seq(Node) /\ at \in 0 .. Len(dir)
      BY DEF LookInv
    <3>2. \A n \in Node : n.path \in Seq(Level)
      BY DEF Node
    <3> QED
      BY <3>1, <3>2
  <2>1. CASE NextNode
    <3>0. UNCHANGED <<dir, vanished>> /\ climb' = 1 /\ lookPc = "next"
      BY <2>1 DEF NextNode
    <3>1. CASE at = Len(dir)
      BY <2>1, <3>0, <3>1 DEF NextNode, LookInv, NoneBelongs, Belongs
    <3>2. CASE at # Len(dir)
      <4>1. /\ at' = at + 1 /\ at + 1 \in DOMAIN dir
            /\ lookPc' = IF dir[at + 1].link /\ dir[at + 1].prefix THEN "climb" ELSE "next"
        <5>1. at' = at + 1 /\ lookPc' = IF dir[at + 1].link /\ dir[at + 1].prefix THEN "climb" ELSE "next"
          BY <2>1, <3>2 DEF NextNode
        <5>2. at \in 0 .. Len(dir)
          BY DEF LookInv
        <5>3. \A n \in Nat : \A a \in 0 .. n : a # n => a + 1 \in 1 .. n
          OBVIOUS
        <5>4. Len(dir) \in Nat /\ DOMAIN dir = 1 .. Len(dir)
          BY <2>0
        <5>5. at + 1 \in DOMAIN dir
          BY <3>2, <5>2, <5>3, <5>4, Zenon
        <5> QED
          BY <5>1, <5>5
      <4>2. ~vanished => \A k \in DOMAIN dir : k < at + 1 => ~Belongs(dir[k])
        <5> SUFFICES ASSUME ~vanished, NEW k \in DOMAIN dir, k < at + 1 PROVE ~Belongs(dir[k])
          OBVIOUS
        <5>1. k = at \/ k < at
          BY <2>0
        <5> QED
          BY <2>0, <3>0, <5>1 DEF LookInv, NoneBelongs
      <4>3. NoneBelongs'
        BY <3>0, <4>1, <4>2 DEF NoneBelongs, Belongs
      <4>4. dir[at + 1].path \in Seq(Level) /\ dir[at + 1].path # <<>>
        BY <2>0, <4>1 DEF LookInv
      <4>5. 1 \in DOMAIN dir[at + 1].path
        BY <4>4
      <4>6. lookPc' = "next" => ~Belongs(dir[at + 1])
        BY <4>1 DEF Belongs
      <4>7. at' \in 0 .. Len(dir) /\ at' # 0
        BY <2>0, <4>1
      <4>8. lookPc' \in {"next", "climb"} /\ (lookPc' = "climb" => dir[at + 1].link /\ dir[at + 1].prefix)
        BY <4>1
      <4> QED
        BY <3>0, <4>1, <4>3, <4>5, <4>6, <4>7, <4>8 DEF LookInv, Belongs
    <3> QED
      BY <3>1, <3>2
  <2>2. CASE Climb
    <3>0. /\ UNCHANGED <<dir, at, vanished>> /\ lookPc = "climb" /\ at \in DOMAIN dir
          /\ climb \in DOMAIN dir[at].path /\ dir[at].path \in Seq(Level)
      BY <2>0, <2>2 DEF Climb, LookInv
    <3>1. climb \in Nat /\ climb <= Len(dir[at].path) /\ climb >= 1
      BY <3>0
    <3>2. NoneBelongs'
      BY <3>0 DEF LookInv, NoneBelongs, Belongs
    <3>3. CASE dir[at].path[climb] # "bus" /\ lookPc' = "identify" /\ UNCHANGED climb
      BY <3>0, <3>2, <3>3 DEF LookInv, Belongs
    <3>4. CASE /\ dir[at].path[climb] = "bus" /\ climb < Len(dir[at].path)
               /\ climb' = climb + 1 /\ UNCHANGED lookPc
      <4>1. climb + 1 \in DOMAIN dir[at].path
        BY <3>0, <3>1, <3>4
      <4>2. \A k \in 1 .. climb : dir[at].path[k] = "bus"
        BY <3>0, <3>1, <3>4 DEF LookInv
      <4>3. climb' - 1 = climb
        BY <3>1, <3>4
      <4> QED
        BY <3>0, <3>2, <3>4, <4>1, <4>2, <4>3 DEF LookInv, Belongs
    <3>5. CASE /\ dir[at].path[climb] = "bus" /\ climb = Len(dir[at].path)
               /\ lookPc' = "next" /\ UNCHANGED climb
      <4>1. ~Belongs(dir[at])
        <5>1. dir[at] \in Node /\ \A k \in 1 .. climb - 1 : dir[at].path[k] = "bus"
          BY <2>0, <3>0 DEF LookInv
        <5> QED
          BY <3>0, <3>5, <5>1, OtherDevice
      <4> QED
        BY <3>0, <3>2, <3>5, <4>1 DEF LookInv, Belongs
    <3> QED
      BY <2>2, <3>3, <3>4, <3>5 DEF Climb
  <2>3. CASE Identify
    <3>0. /\ UNCHANGED <<dir, at, climb>> /\ lookPc = "identify" /\ at \in DOMAIN dir
          /\ climb \in DOMAIN dir[at].path /\ dir[at].path[climb] # "bus"
          /\ dir[at] \in Node /\ \A k \in 1 .. climb - 1 : dir[at].path[k] = "bus"
      BY <2>0, <2>3 DEF Identify, LookInv
    <3>1. CASE lookPc' = "found" /\ dir[at].path[climb] = "ours" /\ UNCHANGED vanished
      BY <3>0, <3>1 DEF LookInv, NoneBelongs, Belongs
    <3>2. CASE lookPc' = "next" /\ dir[at].path[climb] # "ours" /\ UNCHANGED vanished
      <4>1. ~Belongs(dir[at])
        BY <3>0, <3>2, OtherDevice
      <4> QED
        BY <3>0, <3>2, <4>1 DEF LookInv, NoneBelongs, Belongs
    <3>3. CASE lookPc' = "next" /\ vanished' = TRUE
      BY <3>0, <3>3 DEF LookInv, NoneBelongs
    <3> QED
      BY <2>3, <3>1, <3>2, <3>3 DEF Identify
  <2>4. CASE UNCHANGED lookVars
    BY <2>4 DEF lookVars, LookInv, NoneBelongs, Belongs
  <2> QED
    BY <2>1, <2>2, <2>3, <2>4 DEF LookNext
<1>3. LookInv => LookupFindsFirst
  <2> SUFFICES ASSUME LookInv PROVE LookupFindsFirst
    OBVIOUS
  <2>0. DOMAIN dir = 1 .. Len(dir) /\ Len(dir) \in Nat /\ at \in Nat
    BY DEF LookInv
  <2>1. lookPc = "found" => Belongs(dir[at])
    BY DEF LookInv, Belongs
  <2>2. lookPc = "found" /\ ~vanished => \A k \in 1 .. at - 1 : ~Belongs(dir[k])
    BY <2>0 DEF LookInv, NoneBelongs
  <2>3. lookPc = "none" /\ ~vanished => \A k \in DOMAIN dir : ~Belongs(dir[k])
    <3> SUFFICES ASSUME lookPc = "none", ~vanished, NEW k \in DOMAIN dir PROVE ~Belongs(dir[k])
      OBVIOUS
    <3>1. k = at \/ k < at
      BY <2>0 DEF LookInv
    <3>2. k # 0
      BY <2>0
    <3> QED
      BY <3>1, <3>2 DEF LookInv, NoneBelongs
  <2> QED
    BY <2>1, <2>2, <2>3 DEF LookupFindsFirst
<1> QED
  BY <1>1, <1>2, <1>3, PTL DEF LookSpec

-----------------------------------------------------------------------------
(* The start of brightness_daemon *)

\* What root has to find before it gives anything up, and the socket it has
\* handed over by then.
Configured ==
    /\ hasUser /\ passwd # None /\ passwd.uid # 0
    /\ hasGroup /\ group # None /\ group # 0
    /\ socket = [uid |-> passwd.uid, gid |-> group]

StartInv ==
    /\ begun \in Credentials /\ cred \in Credentials
    /\ hasUser \in BOOLEAN /\ hasGroup \in BOOLEAN
    /\ startPc \in {"config", "backlight", "socket", "chown", "drop"} => cred = begun
    /\ startPc = "drop" /\ hasUser =>
          hasGroup /\ passwd # None /\ group # None /\ socket = [uid |-> passwd.uid, gid |-> group]
    /\ startPc \in {"setgid", "setgroups", "initgroups", "setuid"} => Configured
    /\ startPc \in {"setgroups", "initgroups", "setuid"} => cred.gid = group
    /\ startPc = "initgroups" => cred.groups = {}
    /\ startPc = "setuid" => cred.groups \subseteq passwd.groups \cup {group}
    /\ startPc = "loop" /\ begun.uid = 0 =>
          /\ Configured
          /\ cred.uid = passwd.uid /\ cred.gid = group
          /\ cred.groups \subseteq passwd.groups \cup {group}

\* A field that is assigned leaves the others as they are.
LEMMA CredChange ==
    ASSUME NEW c \in Credentials, NEW n \in Nat, NEW g \in SUBSET Nat
    PROVE  /\ [c EXCEPT !.gid = n] = [uid |-> c.uid, gid |-> n, groups |-> c.groups]
           /\ [c EXCEPT !.uid = n] = [uid |-> n, gid |-> c.gid, groups |-> c.groups]
           /\ [c EXCEPT !.groups = g] = [uid |-> c.uid, gid |-> c.gid, groups |-> g]
  BY DEF Credentials

\* Where the users and groups come from.
Database == passwd \in Passwds \cup {None} /\ group \in Gids \cup {None}

\* What the database of users and groups holds.
LEMMA DatabaseTypes ==
    ASSUME Database, passwd # None, group # None
    PROVE  passwd.uid \in Nat /\ passwd.groups \in SUBSET Nat /\ group \in Nat
  BY StartAssumption DEF Database

\* For all users, groups and credentials: who was started as root serves as the
\* configured user, whatever failed before.
THEOREM StartTheorem == StartSpec => []ServesAsUser
<1>1. StartInit => StartInv /\ Database
  BY StartAssumption DEF StartInit, StartInv, Database
<1>2. StartInv /\ Database /\ [StartNext]_startVars => StartInv' /\ Database'
  <2> SUFFICES ASSUME StartInv, Database, [StartNext]_startVars PROVE StartInv' /\ Database'
    OBVIOUS
  <2> USE DEF StartGoto, database
  <2>0. Database' /\ UNCHANGED <<hasUser, hasGroup, passwd, group, begun>>
    <3>1. UNCHANGED <<hasUser, hasGroup, passwd, group, begun>>
      BY DEF StartNext, Prepare, Bind, HandOver, LookUpIds, SetGid, SetGroups, InitGroups,
             SetUid, Call, Restart, startVars
    <3> QED
      BY <3>1 DEF Database
  <2>f. ASSUME UNCHANGED cred, startPc' \in {"failed", "no group"} PROVE StartInv'
    BY <2>0, <2>f DEF StartInv
  <2>1. CASE Prepare
    BY <2>0, <2>1 DEF Prepare, StartInv
  <2>2. CASE Bind
    BY <2>0, <2>2 DEF Bind, StartInv
  <2>3. CASE HandOver
    <3>1. startPc = "chown" /\ UNCHANGED cred
      BY <2>3 DEF HandOver
    <3>2. CASE ~hasUser /\ startPc' = "drop"
      BY <2>0, <3>1, <3>2 DEF StartInv
    <3>3. CASE startPc' \in {"failed", "no group"}
      BY <2>0, <2>f, <3>1, <3>3
    <3>4. CASE /\ hasUser /\ ~NoGroup /\ User # None /\ startPc' = "drop"
               /\ socket' = [uid |-> User.uid, gid |-> group]
      BY <2>0, <3>1, <3>4 DEF User, NoGroup, StartInv
    <3> QED
      BY <2>3, <3>2, <3>3, <3>4 DEF HandOver
  <2>4. CASE LookUpIds
    <3>1. startPc = "drop" /\ UNCHANGED <<cred, socket>> /\ cred = begun
      BY <2>4 DEF LookUpIds, StartInv
    <3>2. CASE cred.uid # 0 /\ startPc' = "loop"
      BY <2>0, <3>1, <3>2 DEF StartInv
    <3>3. CASE startPc' \in {"failed", "no group"}
      BY <2>0, <2>f, <3>1, <3>3
    <3>4. CASE ~NoGroup /\ User # None /\ User.uid # 0 /\ group # 0 /\ startPc' = "setgid"
      <4>1. Configured
        BY <3>1, <3>4 DEF Configured, User, NoGroup, StartInv
      <4> QED
        BY <2>0, <3>1, <3>4, <4>1 DEF Configured, StartInv
    <3> QED
      BY <2>4, <3>2, <3>3, <3>4 DEF LookUpIds
  <2>5. CASE SetGid \/ SetGroups \/ InitGroups \/ SetUid
    <3>1. CASE startPc' = "failed" /\ UNCHANGED cred
      BY <2>0, <2>f, <3>1
    <3>2. /\ Configured /\ Configured' /\ cred \in Credentials
          /\ passwd.uid \in Nat /\ passwd.groups \in SUBSET Nat /\ group \in Nat
      <4>1. Configured /\ UNCHANGED socket
        BY <2>5 DEF SetGid, SetGroups, InitGroups, SetUid, Call, StartInv
      <4> QED
        BY <2>0, <4>1, DatabaseTypes DEF Configured, StartInv
    <3>3. CASE SetGid /\ startPc' = "setgroups" /\ cred' = [cred EXCEPT !.gid = group]
      <4>1. cred' = [uid |-> cred.uid, gid |-> group, groups |-> cred.groups]
        BY <3>2, <3>3, CredChange
      <4>2. cred' \in Credentials /\ cred'.gid = group
        BY <3>2, <4>1 DEF Credentials
      <4> QED
        BY <2>0, <3>2, <3>3, <4>2 DEF StartInv
    <3>4. CASE SetGroups /\ startPc' = "initgroups" /\ cred' = [cred EXCEPT !.groups = {}]
      <4>1. cred' = [uid |-> cred.uid, gid |-> cred.gid, groups |-> {}]
        BY <3>2, <3>4, CredChange
      <4>2. cred.gid = group
        BY <3>4 DEF SetGroups, Call, StartInv
      <4> QED
        BY <2>0, <3>2, <3>4, <4>1, <4>2 DEF StartInv, Credentials
    <3>5. CASE InitGroups
      <4>1. startPc = "initgroups" /\ startPc' = "setuid" /\ cred.gid = group /\ cred.groups = {}
        BY <3>5 DEF InitGroups, StartInv
      <4>2. passwd.groups \cup {group} \in SUBSET Nat
        BY <3>2
      <4>3. cred' = cred \/ cred' = [cred EXCEPT !.groups = passwd.groups \cup {group}]
        BY <3>5 DEF InitGroups
      <4>4. cred' = cred \/ cred' = [uid |-> cred.uid, gid |-> cred.gid,
                                     groups |-> passwd.groups \cup {group}]
        BY <3>2, <4>2, <4>3, CredChange
      <4>5. /\ cred' \in Credentials /\ cred'.gid = group
            /\ cred'.groups \subseteq passwd.groups \cup {group}
        BY <3>2, <4>1, <4>2, <4>4 DEF Credentials
      <4> QED
        BY <2>0, <3>2, <4>1, <4>5 DEF StartInv
    <3>6. CASE SetUid /\ startPc' = "loop" /\ cred' = [cred EXCEPT !.uid = passwd.uid]
      <4>1. cred' = [uid |-> passwd.uid, gid |-> cred.gid, groups |-> cred.groups]
        BY <3>2, <3>6, CredChange
      <4>2. cred.gid = group /\ cred.groups \subseteq passwd.groups \cup {group}
        BY <3>6 DEF SetUid, Call, StartInv
      <4>3. /\ cred' \in Credentials /\ cred'.uid = passwd.uid /\ cred'.gid = group
            /\ cred'.groups \subseteq passwd.groups \cup {group}
        BY <3>2, <4>1, <4>2 DEF Credentials
      <4> QED
        BY <2>0, <3>2, <3>6, <4>3 DEF StartInv
    <3> QED
      BY <2>5, <3>1, <3>3, <3>4, <3>5, <3>6 DEF SetGid, SetGroups, SetUid, Call
  <2>6. CASE Restart
    BY <2>0, <2>6 DEF Restart, StartInv
  <2>7. CASE UNCHANGED startVars
    BY <2>0, <2>7 DEF startVars, StartInv, Configured
  <2> QED
    BY <2>0, <2>1, <2>2, <2>3, <2>4, <2>5, <2>6, <2>7 DEF StartNext
<1>3. StartInv => ServesAsUser
  BY DEF StartInv, ServesAsUser, Configured
<1> QED
  BY <1>1, <1>2, <1>3, PTL DEF StartSpec

-----------------------------------------------------------------------------
(* container *)

\* While it is still there, cryptsetup has all of the key or nothing in its input,
\* and what it did is what the mode asks for.
ConInv ==
    /\ mapping \in [Names -> Uuids \cup {NoUuid}]
    /\ name \in Names /\ uuid \in Uuids /\ mode \in Modes
    /\ conPc \in {"spawn", "write"} /\ mode = "open" => key = Chunks
    /\ conPc = "write" => mode = "open"
    /\ mode = "open" /\ conPc = "wait" /\ crypt = "reading" => stdin = Chunks
    /\ mode = "open" /\ crypt = "ok" => stdin = Chunks
    /\ crypt = "reading" => conPc \in {"write", "wait"}
    /\ conPc \in {"exists", "fetch", "spawn"} => crypt = "none"
    /\ crypt = "ok" => mapping[name] = IF mode = "open" THEN uuid ELSE NoUuid
    /\ crypt = "ok" => conPc \in {"wait", "done"}
    /\ conPc = "done" => crypt = "ok"

\* For any names, devices and keys: cryptsetup never takes a part of a key for
\* one, although nobody notices a broken pipe, and success means that the container is mapped, or is not mapped any more.
THEOREM ContainerTheorem == ContainerSpec => []ExitMeansMapped
<1>1. ContainerInit => ConInv
  BY DEF ContainerInit, ConInv
<1>2. ConInv /\ [ContainerNext]_conVars => ConInv'
  <2> SUFFICES ASSUME ConInv, [ContainerNext]_conVars PROVE ConInv'
    OBVIOUS
  <2> USE DEF Goes, spec, child
  <2>1. CASE Begin
    BY <2>1 DEF Begin, ConInv
  <2>2. CASE DeviceExists \/ WriteCb \/ Fetched \/ Spawn
    BY <2>2 DEF DeviceExists, WriteCb, Fetched, Spawn, ConInv, Modes
  <2>3. CASE Feed
    BY <2>3 DEF Feed, ConInv
  <2>4. CASE WaitChild
    BY <2>4 DEF WaitChild, ConInv
  <2>5. CASE Cryptsetup
    <3>1. UNCHANGED <<conPc, mode, name, uuid, key, stdin>> /\ crypt = "reading"
      BY <2>5 DEF Cryptsetup
    <3>2. CASE crypt' = "bad" /\ UNCHANGED mapping
      BY <3>1, <3>2 DEF ConInv
    <3>3. CASE /\ conPc = "wait" /\ crypt' = "ok"
               /\ mapping' = [mapping EXCEPT ![name] = IF mode = "open" THEN uuid ELSE NoUuid]
      BY <3>1, <3>3 DEF ConInv
    <3> QED
      BY <2>5, <3>2, <3>3 DEF Cryptsetup, Modes
  <2>6. CASE Hotplug \/ UNCHANGED conVars
    BY <2>6 DEF Hotplug, conVars, ConInv
  <2> QED
    BY <2>1, <2>2, <2>3, <2>4, <2>5, <2>6 DEF ContainerNext
<1>3. ConInv => ExitMeansMapped
  BY DEF ConInv, ExitMeansMapped
<1> QED
  BY <1>1, <1>2, <1>3, PTL DEF ContainerSpec

-----------------------------------------------------------------------------
(* access_blocker *)

HookInv ==
    /\ hookAt \in 0 .. Paths
    /\ made \in Seq(0 .. Paths)
    /\ blocked \in [Table -> Nat] /\ nodes \in [Table -> Nat \cup {NoInode}]
    /\ seen \in [Table -> Nat \cup {NoInode}]
    /\ \A i \in Table : nodes[i] # NoInode => nodes[i] \in DOMAIN made /\ made[nodes[i]] = i
    /\ \A i \in Table : seen[i] # NoInode =>
          seen[i] \in DOMAIN made /\ made[seen[i]] = i /\ blocked[i] = seen[i]
    /\ \A i \in Table : seen[i] = NoInode => blocked[i] = 0
    /\ call.ino # 0 => hookAt = 0 /\ call.ino \in DOMAIN made
    /\ SameNodesBlocked

\* A new inode leaves the nodes it has nothing to do with as they are.
LEMMA OneMore ==
    ASSUME NEW m \in Seq(0 .. Paths), NEW i \in 0 .. Paths
    PROVE  /\ Append(m, i) \in Seq(0 .. Paths)
           /\ DOMAIN Append(m, i) = DOMAIN m \cup {Len(m) + 1}
           /\ \A n \in DOMAIN m : Append(m, i)[n] = m[n]
           /\ Append(m, i)[Len(m) + 1] = i
           /\ Len(m) + 1 \in Nat
  OBVIOUS

\* An inode that was given out is a positive number.
LEMMA InodeOf ==
    ASSUME NEW T, NEW m \in Seq(T), NEW n \in DOMAIN m
    PROVE  n \in Nat /\ n # 0 /\ m[n] \in T
  OBVIOUS

\* What a call is told only depends on the constructor's table.
LEMMA HookedCallStep ==
    ASSUME NEW fn \in Functions, HookInv, HookedCall(fn)
    PROVE  HookInv'
<1> PICK n \in DOMAIN made, fs \in {"dev", "other"}, stat \in BOOLEAN :
       call' = [fn |-> fn, fs |-> fs, ino |-> n, stat |-> stat,
                real |-> realFunc[fn] /\ ~(stat /\ IsBlocked(n))]
  BY DEF HookedCall
<1>1. UNCHANGED <<hookAt, blocked, made, nodes, seen, realFunc>> /\ hookAt = 0
  BY DEF HookedCall
<1>2. n \in Nat /\ n # 0 /\ made[n] \in 0 .. Paths
  BY InodeOf DEF HookInv
<1>3. IsBlocked(n) <=> \E i \in Table : seen[i] = n
  <2>1. ASSUME NEW i \in Table PROVE blocked[i] = n <=> seen[i] = n
    BY <1>2, <2>1, BlockerAssumption DEF HookInv
  <2> QED
    BY <2>1 DEF IsBlocked
<1>4. (\E i \in Table : seen[i] = n) <=> (made[n] # 0 /\ n = seen[made[n]])
  <2>1. ASSUME NEW i \in Table, seen[i] = n PROVE made[n] = i /\ i # 0
    BY <1>2, <2>1, BlockerAssumption DEF HookInv, Table
  <2>2. made[n] # 0 => made[n] \in Table
    BY <1>2, BlockerAssumption DEF Table
  <2> QED
    BY <2>1, <2>2
<1>5. /\ call'.ino = n /\ call'.fn = fn /\ call'.stat = stat
      /\ call'.real <=> realFunc[fn] /\ ~(stat /\ IsBlocked(n))
  OBVIOUS
<1>6. SameNodesBlocked'
  BY <1>1, <1>3, <1>4, <1>5 DEF SameNodesBlocked
<1> QED
  BY <1>1, <1>5, <1>6 DEF HookInv

\* However nodes come and go, a call gets through unless it is for a node that
\* was there when the library was loaded, or there is no real function.
THEOREM BlockerTheorem == HookSpec => []SameNodesBlocked
<1>1. HookInit => HookInv
  <2> SUFFICES ASSUME HookInit PROVE HookInv
    OBVIOUS
  <2>1. made \in Seq(0 .. Paths) /\ DOMAIN made = Table
    BY BlockerAssumption DEF HookInit, Table
  <2>2. \A i \in Table : i \in Nat /\ made[i] = i
    BY BlockerAssumption DEF HookInit, Table
  <2>3. /\ nodes \in [Table -> Nat \cup {NoInode}]
        /\ \A i \in Table : nodes[i] \in {i, NoInode}
    BY <2>2 DEF HookInit
  <2>4. /\ blocked \in [Table -> Nat] /\ seen \in [Table -> Nat \cup {NoInode}]
        /\ \A i \in Table : seen[i] = NoInode /\ blocked[i] = 0
    BY DEF HookInit
  <2>5. hookAt \in 0 .. Paths /\ call.ino = 0
    BY BlockerAssumption DEF HookInit
  <2> QED
    BY <2>1, <2>2, <2>3, <2>4, <2>5 DEF HookInv, SameNodesBlocked
<1>2. HookInv /\ [HookNext]_hookVars => HookInv'
  <2> SUFFICES ASSUME HookInv, [HookNext]_hookVars PROVE HookInv'
    OBVIOUS
  <2>1. CASE NoteInode
    <3>1. hookAt \in Table /\ UNCHANGED <<made, nodes, realFunc, call>> /\ call.ino = 0
      BY <2>1, BlockerAssumption DEF NoteInode, HookInv, Table
    <3>2. CASE nodes[hookAt] = NoInode
      <4>1. hookAt' = 0 /\ UNCHANGED <<blocked, seen>>
        BY <2>1, <3>2 DEF NoteInode
      <4>2. 0 \in 0 .. Paths
        BY BlockerAssumption
      <4> QED
        BY <3>1, <4>1, <4>2 DEF HookInv, SameNodesBlocked
    <3>3. CASE nodes[hookAt] # NoInode
      <4>1. /\ blocked' = [blocked EXCEPT ![hookAt] = nodes[hookAt]]
            /\ seen' = [seen EXCEPT ![hookAt] = nodes[hookAt]]
            /\ hookAt' = (hookAt + 1) % (Paths + 1)
        BY <2>1, <3>3 DEF NoteInode
      <4>2. hookAt' \in 0 .. Paths
        BY <3>1, <4>1, BlockerAssumption DEF Table
      <4>3. nodes[hookAt] \in Nat /\ nodes[hookAt] \in DOMAIN made /\ made[nodes[hookAt]] = hookAt
        BY <3>1, <3>3 DEF HookInv
      <4>4. blocked' \in [Table -> Nat] /\ seen' \in [Table -> Nat \cup {NoInode}]
        BY <3>1, <4>1, <4>3 DEF HookInv
      <4>5. \A i \in Table : /\ seen'[i] = IF i = hookAt THEN nodes[i] ELSE seen[i]
                             /\ blocked'[i] = IF i = hookAt THEN nodes[i] ELSE blocked[i]
        BY <3>1, <4>1 DEF HookInv
      <4>6. \A i \in Table : seen'[i] # NoInode =>
                seen'[i] \in DOMAIN made /\ made[seen'[i]] = i /\ blocked'[i] = seen'[i]
        BY <4>3, <4>5 DEF HookInv
      <4>7. \A i \in Table : seen'[i] = NoInode => blocked'[i] = 0
        BY <3>3, <4>5 DEF HookInv
      <4>8. SameNodesBlocked'
        BY <3>1 DEF SameNodesBlocked
      <4> QED
        BY <3>1, <4>2, <4>4, <4>6, <4>7, <4>8 DEF HookInv
    <3> QED
      BY <3>2, <3>3
  <2>2. ASSUME NEW fn \in Functions, HookedCall(fn) PROVE HookInv'
    BY <2>2, HookedCallStep
  <2>3. ASSUME NEW i \in 0 .. Paths, made' = Append(made, i),
               nodes' = nodes \/ (i \in Table /\ nodes' = [nodes EXCEPT ![i] = Len(made) + 1]),
               UNCHANGED <<hookAt, blocked, seen, realFunc, call>>
        PROVE  HookInv'
    <3>1. /\ made' \in Seq(0 .. Paths) /\ DOMAIN made' = DOMAIN made \cup {Len(made) + 1}
          /\ \A n \in DOMAIN made : made'[n] = made[n]
          /\ made'[Len(made) + 1] = i /\ Len(made) + 1 \in Nat
      BY <2>3, OneMore DEF HookInv
    <3>2. nodes' \in [Table -> Nat \cup {NoInode}]
      BY <2>3, <3>1 DEF HookInv
    <3>3. \A k \in Table : nodes'[k] # NoInode =>
              nodes'[k] \in DOMAIN made' /\ made'[nodes'[k]] = k
      BY <2>3, <3>1 DEF HookInv
    <3>4. \A k \in Table : seen[k] # NoInode =>
              seen[k] \in DOMAIN made' /\ made'[seen[k]] = k /\ blocked[k] = seen[k]
      BY <3>1 DEF HookInv
    <3>5. call.ino # 0 => call.ino \in DOMAIN made' /\ made'[call.ino] = made[call.ino]
      BY <3>1 DEF HookInv
    <3>6. SameNodesBlocked'
      BY <2>3, <3>5 DEF HookInv, SameNodesBlocked
    <3> QED
      BY <2>3, <3>1, <3>2, <3>3, <3>4, <3>5, <3>6 DEF HookInv
  <2>4. ASSUME NEW i \in Table, Replug(i) PROVE HookInv'
    <3>1. CASE nodes' = [nodes EXCEPT ![i] = NoInode] /\ UNCHANGED made
      BY <2>4, <3>1 DEF Replug, HookInv, SameNodesBlocked
    <3>2. CASE made' = Append(made, i) /\ nodes' = [nodes EXCEPT ![i] = Len(made) + 1]
      <4>1. i \in 0 .. Paths
        BY BlockerAssumption DEF Table
      <4> QED
        BY <2>3, <2>4, <3>2, <4>1 DEF Replug
    <3> QED
      BY <2>4, <3>1, <3>2 DEF Replug
  <2>5. CASE OtherFile
    <3>1. 0 \in 0 .. Paths
      BY BlockerAssumption
    <3> QED
      BY <2>3, <2>5, <3>1 DEF OtherFile
  <2>6. CASE UNCHANGED hookVars
    BY <2>6 DEF hookVars, HookInv, SameNodesBlocked
  <2> QED
    BY <2>1, <2>2, <2>4, <2>5, <2>6 DEF HookNext
<1>3. HookInv => SameNodesBlocked
  BY DEF HookInv
<1> QED
  BY <1>1, <1>2, <1>3, PTL DEF HookSpec

-----------------------------------------------------------------------------
(* kdump *)

Second     == Seconds \cup {0}
Connection == [from: Machines, at: Second, name: Second, sent: Nat, got: Nat,
               feed: {"open", "eof", "cut"}, done: BOOLEAN]

KdTypes ==
    /\ kernel \in [Machines -> {"up", "ping", "connect", "send"}]
    /\ now \in Seconds
    /\ recv \in Seq(Connection)
    /\ dumps \in [Seconds -> [of: Nat, pieces: Nat]]

\* A connection and its file: a file that is closed got all that was sent.
Stored(c) ==
    /\ c.name = c.at
    /\ c.at = 0 => c.got = 0
    /\ c.got <= c.sent
    /\ c.done => c.got = c.sent /\ c.feed = "eof"

\* The last connection of machine m.
LastOf(m, i) == recv[i].from = m /\ \A k \in i + 1 .. Len(recv) : recv[k].from # m

Sending == \A m \in Machines : kernel[m] = "send" =>
    \E i \in DOMAIN recv : LastOf(m, i) /\ recv[i].feed = "open"

FilesKept == \A i \in DOMAIN recv : recv[i].at # 0 /\ Alone(i) =>
    dumps[recv[i].at] = [of |-> i, pieces |-> recv[i].got]

KdInv ==
    /\ KdTypes
    /\ \A i \in DOMAIN recv : Stored(recv[i])
    /\ Sending
    /\ FilesKept

\* One element of a sequence is replaced.
LEMMA OneReplaced ==
    ASSUME NEW T, NEW q \in Seq(T), NEW i \in DOMAIN q, NEW r \in T
    PROVE  /\ [q EXCEPT ![i] = r] \in Seq(T)
           /\ DOMAIN [q EXCEPT ![i] = r] = DOMAIN q
           /\ Len([q EXCEPT ![i] = r]) = Len(q)
           /\ \A k \in DOMAIN q : [q EXCEPT ![i] = r][k] = IF k = i THEN r ELSE q[k]
           /\ i \in Nat /\ i # 0 /\ q[i] \in T
  OBVIOUS

\* A machine that sends does so on one connection, which is open.
LEMMA SendingConn ==
    ASSUME KdInv, NEW m \in Machines, kernel[m] = "send"
    PROVE  /\ Conn(m) \in DOMAIN recv /\ LastOf(m, Conn(m))
           /\ recv[Conn(m)].feed = "open" /\ recv[Conn(m)].from = m
<1>1. PICK i \in DOMAIN recv : LastOf(m, i) /\ recv[i].feed = "open"
  BY DEF KdInv, Sending
<1>2. \A k \in DOMAIN recv : LastOf(m, k) => k = i
  BY <1>1 DEF LastOf, KdInv, KdTypes
<1>3. Conn(m) \in DOMAIN recv /\ LastOf(m, Conn(m))
  BY <1>1 DEF Conn, LastOf
<1> QED
  BY <1>1, <1>2, <1>3 DEF LastOf

\* What replaces one connection, and leaves the files, keeps the invariant.
LEMMA ConnectionStep ==
    ASSUME KdInv, KdTypes', NEW i \in DOMAIN recv, NEW r \in Connection,
           recv' = [recv EXCEPT ![i] = r], Stored(r),
           r.from = recv[i].from, r.at = recv[i].at, r.got = recv[i].got, dumps' = dumps,
           \A m \in Machines : kernel'[m] = "send" =>
              kernel[m] = "send" /\ (LastOf(m, i) /\ recv[i].feed = "open" => r.feed = "open")
    PROVE  KdInv'
<1>1. /\ DOMAIN recv' = DOMAIN recv /\ Len(recv') = Len(recv)
      /\ \A k \in DOMAIN recv : recv'[k] = IF k = i THEN r ELSE recv[k]
  BY OneReplaced DEF KdInv, KdTypes
<1>2. \A k \in DOMAIN recv' : Stored(recv'[k])
  BY <1>1 DEF KdInv
<1>3. \A k \in DOMAIN recv : /\ recv'[k].from = recv[k].from
                              /\ recv'[k].at = recv[k].at /\ recv'[k].got = recv[k].got
  BY <1>1
<1>4. Sending'
  <2> SUFFICES ASSUME NEW m \in Machines, kernel'[m] = "send"
               PROVE  \E k \in DOMAIN recv' : LastOf(m, k)' /\ recv'[k].feed = "open"
    BY DEF Sending
  <2>1. PICK k \in DOMAIN recv : LastOf(m, k) /\ recv[k].feed = "open"
    BY DEF KdInv, Sending
  <2>2. recv'[k].feed = "open"
    BY <1>1, <2>1
  <2>3. \A l \in k + 1 .. Len(recv) : l \in DOMAIN recv
    BY DEF KdInv, KdTypes
  <2>4. LastOf(m, k)'
    BY <1>1, <1>3, <2>1, <2>3 DEF LastOf
  <2> QED
    BY <1>1, <2>2, <2>4
<1>5. FilesKept'
  BY <1>1, <1>3 DEF KdInv, FilesKept, Alone
<1> QED
  BY <1>2, <1>4, <1>5 DEF KdInv

\* Steps that leave the connections and files alone.
LEMMA ElsewhereStep ==
    ASSUME KdInv, KdTypes', recv' = recv, dumps' = dumps,
           \A m \in Machines : kernel'[m] = "send" => kernel[m] = "send"
    PROVE  KdInv'
  BY DEF KdInv, Sending, LastOf, FilesKept, Alone

\* nc has connected: one connection more, of which there is no file.
LEMMA ConnectStep ==
    ASSUME KdInv, NEW m \in Machines, kernel[m] = "connect", Boots(m, "send"),
           recv' = Append(recv, Opened(m)), UNCHANGED <<pong, online, now, dumps>>
    PROVE  KdInv'
<1> DEFINE n == Len(recv) + 1
<1>1. recv \in Seq(Connection) /\ Opened(m) \in Connection
  BY DEF KdInv, KdTypes, Connection, Second, Opened
<1>2. /\ recv' \in Seq(Connection) /\ Len(recv') = n
      /\ DOMAIN recv' = DOMAIN recv \cup {n} /\ n \notin DOMAIN recv
      /\ recv'[n] = Opened(m) /\ \A k \in DOMAIN recv : recv'[k] = recv[k]
  BY <1>1
<1>3. KdTypes' /\ \A o \in Machines : kernel'[o] = IF o = m THEN "send" ELSE kernel[o]
  BY <1>2 DEF KdInv, KdTypes, Boots
<1>4. \A k \in DOMAIN recv' : Stored(recv'[k])
  BY <1>2 DEF KdInv, Stored, Opened
<1>5. Sending'
  <2> SUFFICES ASSUME NEW o \in Machines, kernel'[o] = "send"
               PROVE  \E k \in DOMAIN recv' : LastOf(o, k)' /\ recv'[k].feed = "open"
    BY DEF Sending
  <2>1. CASE o = m
    <3>1. recv'[n].from = m /\ recv'[n].feed = "open" /\ n + 1 .. Len(recv') = {}
      BY <1>1, <1>2 DEF Opened
    <3> QED
      BY <1>2, <2>1, <3>1 DEF LastOf
  <2>2. CASE o # m
    <3>1. PICK k \in DOMAIN recv : LastOf(o, k) /\ recv[k].feed = "open"
      BY <1>3, <2>2 DEF KdInv, Sending
    <3>2. \A l \in k + 1 .. Len(recv') : l = n \/ (l \in k + 1 .. Len(recv) /\ l \in DOMAIN recv)
      BY <1>1, <1>2
    <3>3. recv'[n].from # o
      BY <1>2, <2>2 DEF Opened
    <3>4. LastOf(o, k)'
      BY <1>2, <3>1, <3>2, <3>3 DEF LastOf
    <3> QED
      BY <1>2, <3>1, <3>4
  <2> QED
    BY <2>1, <2>2
<1>6. FilesKept'
  <2>1. recv'[n].at = 0
    BY <1>2 DEF Opened
  <2>2. \A k \in DOMAIN recv : Alone(k)' => Alone(k)
    BY <1>2 DEF Alone
  <2> QED
    BY <1>2, <2>1, <2>2 DEF KdInv, FilesKept
<1> QED
  BY <1>3, <1>4, <1>5, <1>6 DEF KdInv

\* The file of one connection is opened, or gets a piece more.
LEMMA FileStep ==
    ASSUME KdInv, NEW i \in DOMAIN recv, OpenFile(i) \/ WriteFile(i)
    PROVE  KdInv'
<1> DEFINE c == recv[i]
<1>1. c \in Connection /\ Stored(c) /\ now \in Seconds
  BY OneReplaced DEF KdInv, KdTypes
<1>2. PICK r \in Connection :
        /\ recv' = [recv EXCEPT ![i] = r]
        /\ Stored(r) /\ r.from = c.from /\ r.feed = c.feed /\ r.at # 0
        /\ dumps' \in [Seconds -> [of: Nat, pieces: Nat]]
        /\ c.at # 0 => r.at = c.at
        /\ \A t \in Seconds \ {r.at} : dumps'[t] = dumps[t]
        /\ c.at = 0 \/ dumps[r.at] = [of |-> i, pieces |-> c.got] =>
              dumps'[r.at] = [of |-> i, pieces |-> r.got]
  <2>1. CASE OpenFile(i)
    <3> DEFINE r == [c EXCEPT !.at = now, !.name = now]
    <3>1. c.at = 0 /\ c.got = 0
      BY <1>1, <2>1 DEF OpenFile, Stored
    <3>2. r \in Connection /\ r.at = now /\ r.got = c.got /\ r.from = c.from /\ r.feed = c.feed
      BY <1>1 DEF Connection, Second
    <3>3. Stored(r)
      BY <1>1, <3>1, KdumpAssumption DEF Stored, Connection
    <3>4. recv' = [recv EXCEPT ![i] = r]
      BY <2>1 DEF OpenFile, FileName
    <3>5. dumps' = [dumps EXCEPT ![now] = [of |-> i, pieces |-> 0]] /\ i \in Nat
      BY <2>1, OneReplaced DEF OpenFile, FileName, KdInv, KdTypes
    <3>6. /\ dumps' \in [Seconds -> [of: Nat, pieces: Nat]]
          /\ \A t \in Seconds : dumps'[t] = IF t = now THEN [of |-> i, pieces |-> 0] ELSE dumps[t]
      BY <1>1, <3>5 DEF KdInv, KdTypes
    <3>7. now # 0
      BY <1>1, KdumpAssumption
    <3> HIDE DEF r
    <3> QED
      BY <1>1, <3>1, <3>2, <3>3, <3>4, <3>6, <3>7
  <2>2. CASE WriteFile(i)
    <3> DEFINE r == [c EXCEPT !.got = @ + 1]
    <3>1. c.at # 0 /\ c.at = c.name /\ c.at \in Seconds /\ c.got < c.sent /\ c.got \in Nat /\ c.sent \in Nat
      BY <1>1, <2>2 DEF WriteFile, Stored, Connection, Second
    <3>2. /\ r \in Connection /\ r.at = c.at /\ r.got = c.got + 1 /\ r.from = c.from
          /\ r.feed = c.feed /\ r.name = c.name /\ r.done = c.done /\ r.sent = c.sent
      BY <1>1, <3>1 DEF Connection
    <3>3. ~c.done
      BY <1>1, <3>1 DEF Stored
    <3>4. Stored(r)
      BY <3>1, <3>2, <3>3 DEF Stored
    <3>5. recv' = [recv EXCEPT ![i] = r]
      BY <2>2 DEF WriteFile
    <3>6. dumps \in [Seconds -> [of: Nat, pieces: Nat]]
      BY DEF KdInv, KdTypes
    <3>7. /\ dumps' \in [Seconds -> [of: Nat, pieces: Nat]]
          /\ \A t \in Seconds \ {c.at} : dumps'[t] = dumps[t]
          /\ dumps[c.at].of = i => dumps'[c.at] = [of |-> i, pieces |-> dumps[c.at].pieces + 1]
      <4>1. CASE dumps[c.at].of = i
        <5>1. dumps' = [dumps EXCEPT ![c.at].pieces = @ + 1]
          BY <2>2, <3>1, <4>1 DEF WriteFile
        <5>2. dumps[c.at] \in [of: Nat, pieces: Nat]
          BY <3>1, <3>6
        <5> QED
          BY <3>1, <3>6, <4>1, <5>1, <5>2
      <4>2. CASE dumps[c.at].of # i
        <5>1. dumps' = [dumps EXCEPT ![c.at] = NoFile]
          BY <2>2, <3>1, <4>2 DEF WriteFile
        <5> QED
          BY <3>1, <3>6, <4>2, <5>1 DEF NoFile
      <4> QED
        BY <4>1, <4>2
    <3>8. dumps[c.at] = [of |-> i, pieces |-> c.got] =>
              dumps'[c.at] = [of |-> i, pieces |-> c.got + 1]
      BY <3>7
    <3> HIDE DEF r
    <3> QED
      BY <3>1, <3>2, <3>4, <3>5, <3>7, <3>8
  <2> QED
    BY <2>1, <2>2
<1>3. /\ recv' \in Seq(Connection)
      /\ DOMAIN recv' = DOMAIN recv /\ Len(recv') = Len(recv)
      /\ \A k \in DOMAIN recv : recv'[k] = IF k = i THEN r ELSE recv[k]
  BY <1>2, OneReplaced DEF KdInv, KdTypes
<1>4. UNCHANGED <<kernel, now>>
  BY DEF OpenFile, WriteFile
<1>5. KdTypes'
  BY <1>2, <1>3, <1>4 DEF KdInv, KdTypes
<1>6. \A k \in DOMAIN recv' : Stored(recv'[k])
  BY <1>2, <1>3 DEF KdInv
<1>7. \A k \in DOMAIN recv : recv'[k].from = recv[k].from /\ recv'[k].feed = recv[k].feed
  BY <1>2, <1>3
<1>8. Sending'
  <2> SUFFICES ASSUME NEW m \in Machines, kernel'[m] = "send"
               PROVE  \E k \in DOMAIN recv' : LastOf(m, k)' /\ recv'[k].feed = "open"
    BY DEF Sending
  <2>1. PICK k \in DOMAIN recv : LastOf(m, k) /\ recv[k].feed = "open"
    BY <1>4 DEF KdInv, Sending
  <2>2. \A l \in k + 1 .. Len(recv) : l \in DOMAIN recv
    BY DEF KdInv, KdTypes
  <2> QED
    BY <1>3, <1>7, <2>1, <2>2 DEF LastOf
<1>9. FilesKept'
  <2> SUFFICES ASSUME NEW k \in DOMAIN recv, recv'[k].at # 0, Alone(k)'
               PROVE  dumps'[recv'[k].at] = [of |-> k, pieces |-> recv'[k].got]
    BY <1>3 DEF FilesKept
  <2>1. CASE k = i
    <3>1. c.at # 0 => Alone(i)
      BY <1>2, <1>3, <2>1 DEF Alone
    <3>2. c.at # 0 => dumps[c.at] = [of |-> i, pieces |-> c.got]
      BY <3>1 DEF KdInv, FilesKept
    <3> QED
      BY <1>2, <1>3, <2>1, <3>2
  <2>2. CASE k # i
    <3>1. recv'[k] = recv[k] /\ recv[k].at # r.at
      BY <1>3, <2>2 DEF Alone
    <3>2. Alone(k)
      BY <1>2, <1>3, <2>2, <3>1 DEF Alone
    <3>3. recv[k].at \in Seconds
      <4>1. recv[k] \in Connection /\ recv[k].at # 0
        BY <3>1, OneReplaced DEF KdInv, KdTypes
      <4> QED
        BY <4>1 DEF Connection, Second
    <3> QED
      BY <1>2, <3>1, <3>2, <3>3 DEF KdInv, FilesKept
  <2> QED
    BY <2>1, <2>2
<1> QED
  BY <1>5, <1>6, <1>8, <1>9 DEF KdInv

\* Every dump that was stored stays as it was sent, for any number of machines
\* and dumps of any size, but for two files of one second (kdump_recv.sh).
THEOREM DumpsTheorem == KdumpSpec => []DumpsKept
<1>1. KdumpInit => KdInv
  BY DEF KdumpInit, KdInv, KdTypes, Sending, FilesKept, NoFile
<1>2. KdInv /\ [KdumpNext]_kdumpVars => KdInv'
  <2> SUFFICES ASSUME KdInv, [KdumpNext]_kdumpVars PROVE KdInv'
    OBVIOUS
  <2>1. KdTypes
    BY DEF KdInv
  <2>2. ASSUME NEW m \in Machines, Crash(m) \/ PingReceiver(m) \/ LinkChanges(m) PROVE KdInv'
    <3>1. recv' = recv /\ dumps' = dumps /\ now' = now
      BY <2>2 DEF Crash, PingReceiver, LinkChanges
    <3>2. kernel' = kernel \/ kernel' = [kernel EXCEPT ![m] = "ping"] \/ kernel' = [kernel EXCEPT ![m] = "connect"]
      BY <2>2 DEF Crash, PingReceiver, LinkChanges, Boots
    <3>3. KdTypes' /\ \A o \in Machines : kernel'[o] = "send" => kernel[o] = "send"
      BY <2>1, <3>1, <3>2 DEF KdTypes
    <3> QED
      BY <3>1, <3>3, ElsewhereStep
  <2>3. ASSUME NEW m \in Machines, Connect(m) PROVE KdInv'
    <3>1. CASE Boots(m, "up") /\ UNCHANGED recv
      <4>1. KdTypes' /\ \A o \in Machines : kernel'[o] = "send" => kernel[o] = "send"
        BY <2>1, <2>3, <3>1 DEF KdTypes, Connect, Boots
      <4> QED
        BY <2>3, <3>1, <4>1, ElsewhereStep DEF Connect
    <3>2. CASE Boots(m, "send") /\ recv' = Append(recv, Opened(m))
      BY <2>3, <3>2, ConnectStep DEF Connect
    <3> QED
      BY <2>3, <3>1, <3>2 DEF Connect
  <2>4. ASSUME NEW m \in Machines, SendPiece(m) PROVE KdInv'
    <3> DEFINE i == Conn(m)
               r == [recv[i] EXCEPT !.sent = @ + 1]
    <3>1. i \in DOMAIN recv /\ recv[i].feed = "open" /\ recv[i].from = m
      BY <2>4, SendingConn DEF SendPiece
    <3>2. recv[i] \in Connection /\ Stored(recv[i])
      BY <3>1, OneReplaced DEF KdInv, KdTypes
    <3>3. /\ r \in Connection /\ r.from = recv[i].from /\ r.at = recv[i].at
          /\ r.got = recv[i].got /\ r.feed = "open" /\ Stored(r)
      BY <3>1, <3>2 DEF Connection, Stored
    <3>4. recv' = [recv EXCEPT ![i] = r] /\ UNCHANGED <<kernel, now, dumps>>
      BY <2>4 DEF SendPiece
    <3> HIDE DEF i, r
    <3>5. KdTypes'
      BY <2>1, <3>1, <3>3, <3>4, OneReplaced DEF KdTypes
    <3> QED
      BY <3>1, <3>3, <3>4, <3>5, ConnectionStep
  <2>5. ASSUME NEW m \in Machines, HangUp(m) PROVE KdInv'
    <3> DEFINE i == Conn(m)
               r == [recv[i] EXCEPT !.feed = IF m \in online THEN "eof" ELSE "cut"]
    <3>1. i \in DOMAIN recv /\ recv[i].feed = "open" /\ recv[i].from = m
      BY <2>5, SendingConn DEF HangUp
    <3>2. recv[i] \in Connection /\ Stored(recv[i])
      BY <3>1, OneReplaced DEF KdInv, KdTypes
    <3>3. /\ r \in Connection /\ r.from = recv[i].from /\ r.at = recv[i].at
          /\ r.got = recv[i].got /\ Stored(r)
      BY <3>1, <3>2 DEF Connection, Stored
    <3>4. recv' = [recv EXCEPT ![i] = r] /\ UNCHANGED <<now, dumps>>
      BY <2>5 DEF HangUp
    <3> HIDE DEF i, r
    <3>5. KdTypes'
      <4>1. recv' \in Seq(Connection)
        BY <2>1, <3>1, <3>3, <3>4, OneReplaced DEF KdTypes
      <4>2. kernel' \in [Machines -> {"up", "ping", "connect", "send"}]
        BY <2>1, <2>5 DEF KdTypes, HangUp, Boots
      <4> QED
        BY <2>1, <3>4, <4>1, <4>2 DEF KdTypes
    <3>6. \A o \in Machines : kernel'[o] = "send" => kernel[o] = "send" /\ o # m
      BY <2>1, <2>5 DEF KdTypes, HangUp, Boots
    <3>7. \A o \in Machines : o # m => ~LastOf(o, i)
      BY <3>1 DEF LastOf
    <3> QED
      BY <3>1, <3>3, <3>4, <3>5, <3>6, <3>7, ConnectionStep
  <2>6. ASSUME NEW i \in DOMAIN recv, CloseFile(i) PROVE KdInv'
    <3> DEFINE r == [recv[i] EXCEPT !.done = TRUE]
    <3>1. recv[i] \in Connection /\ Stored(recv[i])
      BY <2>6, OneReplaced DEF KdInv, KdTypes
    <3>2. /\ r \in Connection /\ r.from = recv[i].from /\ r.at = recv[i].at
          /\ r.got = recv[i].got /\ r.feed = recv[i].feed /\ Stored(r)
      BY <2>6, <3>1 DEF Connection, Stored, CloseFile
    <3>3. recv' = [recv EXCEPT ![i] = r] /\ UNCHANGED <<kernel, now, dumps>>
      BY <2>6 DEF CloseFile
    <3>4. \A m \in Machines : LastOf(m, i) /\ recv[i].feed = "open" => r.feed = "open"
      BY <3>2
    <3> HIDE DEF r
    <3>5. KdTypes'
      BY <2>1, <2>6, <3>2, <3>3, OneReplaced DEF KdTypes
    <3> QED
      BY <2>6, <3>2, <3>3, <3>4, <3>5, ConnectionStep
  <2>7. CASE ClockChanges \/ UNCHANGED kdumpVars
    <3>1. recv' = recv /\ dumps' = dumps /\ kernel' = kernel /\ now' \in Seconds
      BY <2>1, <2>7 DEF ClockChanges, kdumpVars, KdTypes
    <3>2. KdTypes'
      BY <2>1, <3>1 DEF KdTypes
    <3> QED
      BY <3>1, <3>2, ElsewhereStep
  <2> QED
    BY <2>2, <2>3, <2>4, <2>5, <2>6, <2>7, FileStep DEF KdumpNext
<1>3. KdInv => DumpsKept
  BY DEF KdInv, FilesKept, Stored, DumpsKept
<1> QED
  BY <1>1, <1>2, <1>3, PTL DEF KdumpSpec

=============================================================================
