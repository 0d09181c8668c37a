----------------------- MODULE AecramRefinement_proofs -----------------------
(***************************************************************************)
(* The proof that AecramDriver implements AecramBytes: a step of the       *)
(* driver is a step of AecramBytes or leaves its variables unchanged.  The *)
(* mutex, the port accesses before the value and the release of the mutex  *)
(* are invisible there; the value access is where a byte moves.            *)
(***************************************************************************)
EXTENDS AecramDriver_proofs

xferBar == [t \in Thread |-> AbstractTransfer(call[t])]
ramBar  == [a \in Addr |-> ec.ram[CellOf(a)]]

\* The abstract transfers when one call changes.
LEMMA XferSet ==
    ASSUME IInv, NEW t \in Thread, NEW r, Set(t, r)
    PROVE  /\ xferBar \in [Thread -> {AbstractTransfer(call[u]) : u \in Thread}]
           /\ xferBar[t] = AbstractTransfer(call[t])
           /\ xferBar' = [xferBar EXCEPT ![t] = AbstractTransfer(r)]
BY DEF xferBar, Set, IInv, TypeOK

\* Cells of different addresses differ.
LEMMA CellInjective ==
    ASSUME NEW a \in Addr, NEW b \in Addr, CellOf(a) = CellOf(b)
    PROVE  a = b
<1>1. HighByte(a) = HighByte(b) /\ LowByte(a) = LowByte(b)
  BY SplitAddress
<1> QED BY <1>1, SplitAddress

\* The two modules agree on the indices and on the empty buffer.
LEMMA AddrIndex == Bytes!Index = Index /\ Bytes!ZeroBuffer = ZeroBuffer
BY DEF Bytes!Index, Index, Bytes!ZeroBuffer, ZeroBuffer

\* A driver that is not loaded yet has no transfer.
LEMMA InitRefines == Init => Bytes!Init
<1> SUFFICES ASSUME Init PROVE Bytes!Init
  OBVIOUS
<1>1. \A a \in Addr : CellOf(a) \in High \X Low
  BY SplitAddress
<1>2. ramBar \in [0 .. AddrSize - 1 -> Byte]
  BY <1>1 DEF Init, ramBar, Addr
<1>3. AbstractTransfer(Idle) = Bytes!NoTransfer
  BY AddrIndex DEF AbstractTransfer, Project, AbstractPc, Idle, Bytes!NoTransfer
<1>4. xferBar = [t \in Thread |-> Bytes!NoTransfer]
  BY <1>3 DEF Init, xferBar
<1> QED BY <1>2, <1>4, AddrIndex DEF Init, Bytes!Init, xferBar, ramBar

\* Steps of the driver that AecramBytes does not see.
LEMMA HiddenSteps ==
    ASSUME IInv, NEW t \in Thread,
           Lock(t) \/ SelectReg(t) \/ OutType(t) \/ OutOffset(t) \/ Unlock(t)
    PROVE  UNCHANGED <<buffer, ramBar, xferBar>>
<1> DEFINE c == call[t]
<1>1. c \in Call /\ CallInv(c)
  BY CallTypes
<1>2. ec'.ram = ec.ram /\ buffer' = buffer
  BY PortsKeepRam DEF Lock, SelectReg, OutType, OutOffset, Unlock
<1>3. ASSUME NEW r, Set(t, r), AbstractTransfer(r) = AbstractTransfer(c)
      PROVE  xferBar' = xferBar
  BY <1>3, XferSet
<1>4. xferBar' = xferBar
  <2>1. CASE Lock(t)
    <3>1. Set(t, [c EXCEPT !.pc = "port"]) /\ c.pc = "lock"
      BY <2>1 DEF Lock
    <3>2. AbstractTransfer([c EXCEPT !.pc = "port"]) = AbstractTransfer(c)
      BY <1>1, <3>1 DEF AbstractTransfer, Project, AbstractPc, Call
    <3> QED BY <1>3, <3>1, <3>2
  <2>2. CASE SelectReg(t) \/ OutType(t) \/ OutOffset(t)
    <3>1. \E r : Set(t, r) /\ c.pc = "port" /\ r.pc = "port" /\ Project(r) = Project(c)
      <4>1. \A p \in {"selType", "type", "selArg", "arg"} : \A k \in {"high", "low", "value"} :
              /\ [c EXCEPT !.cmd = k, !.port = p].pc = c.pc
              /\ Project([c EXCEPT !.cmd = k, !.port = p]) = Project(c)
        BY <1>1 DEF Call, Project, AbstractPc
      <4>2. \A p \in {"selType", "type", "selArg", "arg"} :
              [c EXCEPT !.port = p] = [c EXCEPT !.cmd = c.cmd, !.port = p]
        BY <1>1 DEF Call
      <4>3. c.cmd \in {"high", "low", "value"}
        BY <1>1 DEF Call
      <4>4. c.pc = "port" /\ \E p \in {"selType", "type", "selArg", "arg"} :
              \E k \in {"high", "low", "value"} : Set(t, [c EXCEPT !.cmd = k, !.port = p])
        <5>1. CASE SelectReg(t)
          BY <4>2, <4>3, <5>1 DEF SelectReg
        <5>2. CASE OutType(t)
          BY <4>2, <4>3, <5>2 DEF OutType
        <5>3. CASE OutOffset(t)
          BY <5>3 DEF OutOffset
        <5> QED BY <2>2, <5>1, <5>2, <5>3
      <4>5. PICK p \in {"selType", "type", "selArg", "arg"}, k \in {"high", "low", "value"} :
              Set(t, [c EXCEPT !.cmd = k, !.port = p])
        BY <4>4
      <4> WITNESS [c EXCEPT !.cmd = k, !.port = p]
      <4> QED BY <4>1, <4>4, <4>5
    <3> QED BY <1>3, <3>1 DEF AbstractTransfer
  <2>3. CASE Unlock(t)
    <3>1. Set(t, NextByte(c)) /\ c.pc = "unlock"
      BY <2>3 DEF Unlock
    <3>2. NextByte(c).pc # "unlock"
      BY <1>1 DEF NextByte, Call
    <3> QED BY <1>3, <3>1, <3>2 DEF AbstractTransfer
  <2> QED BY <2>1, <2>2, <2>3
<1> QED BY <1>2, <1>4 DEF ramBar

-----------------------------------------------------------------------------
(* Steps that AecramBytes sees *)

\* Away from the mutex, the abstract transfer is a projection of the call.
LEMMA Fields ==
    ASSUME NEW c \in Call, c.pc # "unlock"
    PROVE  LET x == AbstractTransfer(c) IN
           /\ x = Project(c)
           /\ x.pc = AbstractPc(c) /\ x.op = c.op /\ x.off = c.off /\ x.len = c.len
           /\ x.i = c.i /\ x.val = c.val /\ x.ubuf = c.ubuf
           /\ c.pc # "typed" => x.ret = c.ret
BY DEF AbstractTransfer, Project

\* Two fields of an abstract transfer replaced at once.
LEMMA ReplaceTwo ==
    ASSUME NEW c, NEW p, NEW w
    PROVE  /\ [Project(c) EXCEPT !.pc = p, !.ret = w] =
                [pc |-> p, op |-> c.op, off |-> c.off, len |-> c.len,
                 i |-> c.i, val |-> c.val, ret |-> w, ubuf |-> c.ubuf]
           /\ [Project(c) EXCEPT !.val = w, !.pc = p] =
                [pc |-> p, op |-> c.op, off |-> c.off, len |-> c.len,
                 i |-> c.i, val |-> w, ret |-> Project(c).ret, ubuf |-> c.ubuf]
<1> DEFINE x == Project(c)
           Rec(q, v, e) == [pc |-> q, op |-> c.op, off |-> c.off, len |-> c.len,
                            i |-> c.i, val |-> v, ret |-> e, ubuf |-> c.ubuf]
<1>1. x = Rec(x.pc, x.val, x.ret) /\ x.val = c.val
  BY DEF Project
<1> HIDE DEF x
<1>2. [x EXCEPT !.pc = p] = Rec(p, x.val, x.ret) /\ [x EXCEPT !.val = w] = Rec(x.pc, w, x.ret)
  BY <1>1
<1>3. /\ [Rec(p, x.val, x.ret) EXCEPT !.ret = w] = Rec(p, x.val, w)
      /\ [Rec(x.pc, w, x.ret) EXCEPT !.pc = p] = Rec(p, w, x.ret)
  OBVIOUS
<1>4. /\ [x EXCEPT !.pc = p, !.ret = w] = [[x EXCEPT !.pc = p] EXCEPT !.ret = w]
      /\ [x EXCEPT !.val = w, !.pc = p] = [[x EXCEPT !.val = w] EXCEPT !.pc = p]
  OBVIOUS
<1>5. /\ [x EXCEPT !.pc = p, !.ret = w] = Rec(p, x.val, w)
      /\ [x EXCEPT !.val = w, !.pc = p] = Rec(p, w, x.ret)
  <2> HIDE DEF Rec
  <2> QED BY <1>2, <1>3, <1>4
<1> QED BY <1>1, <1>5 DEF x

\* What AecramBytes makes of a call whose byte has moved.
NextIndex(c) == IF c.i + 1 < c.len THEN c.i + 1 ELSE 0
NextPc(c) == IF c.i + 1 < c.len THEN (IF c.op = "write" THEN "load" ELSE "byte")
                                ELSE (IF c.op = "write" THEN "done" ELSE "copyout")

\* What becomes of an abstract transfer when its byte has moved.
LEMMA AdvanceFields ==
    ASSUME NEW c
    PROVE  Bytes!Advance(Project(c)) =
             [pc |-> NextPc(c), op |-> c.op, off |-> c.off, len |-> c.len, i |-> NextIndex(c),
              val |-> ZeroByte, ret |-> Project(c).ret, ubuf |-> c.ubuf]
<1> DEFINE x == Project(c)
           n == NextIndex(c)
           p == NextPc(c)
           Rec(q, m, v) == [pc |-> q, op |-> c.op, off |-> c.off, len |-> c.len,
                            i |-> m, val |-> v, ret |-> x.ret, ubuf |-> c.ubuf]
<1>1. x = Rec(x.pc, x.i, x.val) /\ x.i = c.i /\ x.len = c.len /\ x.op = c.op
  BY DEF Project
<1> HIDE DEF x
<1>2. Bytes!Advance(x) = [x EXCEPT !.i = n, !.val = ZeroByte, !.pc = p]
  BY <1>1 DEF Bytes!Advance, NextIndex, NextPc
<1> HIDE DEF n, p
<1>3. [x EXCEPT !.i = n] = Rec(x.pc, n, x.val)
  BY <1>1
<1>4. /\ [Rec(x.pc, n, x.val) EXCEPT !.val = ZeroByte] = Rec(x.pc, n, ZeroByte)
      /\ [Rec(x.pc, n, ZeroByte) EXCEPT !.pc = p] = Rec(p, n, ZeroByte)
  OBVIOUS
<1>5. [x EXCEPT !.i = n, !.val = ZeroByte, !.pc = p] =
        [[[x EXCEPT !.i = n] EXCEPT !.val = ZeroByte] EXCEPT !.pc = p]
  OBVIOUS
<1>6. [x EXCEPT !.i = n, !.val = ZeroByte, !.pc = p] = Rec(p, n, ZeroByte)
  <2> HIDE DEF Rec
  <2> QED BY <1>3, <1>4, <1>5
<1> QED BY <1>2, <1>6 DEF x, n, p

\* While bytes are copied in, a new index and a new place show as they are.
LEMMA CopyInProjects ==
    ASSUME NEW c \in Call, c.pc = "copyin", NEW n
    PROVE  /\ AbstractTransfer([c EXCEPT !.i = n]) = [Project(c) EXCEPT !.i = n]
           /\ AbstractTransfer([c EXCEPT !.i = n, !.pc = "load"]) =
                [Project(c) EXCEPT !.i = n, !.pc = "load"]
<1> DEFINE d == [c EXCEPT !.i = n]
           e == [c EXCEPT !.i = n, !.pc = "load"]
           Rec(q) == [pc |-> q, op |-> c.op, off |-> c.off, len |-> c.len,
                      i |-> n, val |-> c.val, ret |-> c.ret, ubuf |-> c.ubuf]
<1>1. /\ d.pc = "copyin" /\ d.op = c.op /\ d.off = c.off /\ d.len = c.len /\ d.i = n
      /\ d.val = c.val /\ d.ret = c.ret /\ d.ubuf = c.ubuf
  BY DEF Call
<1>2. /\ e.pc = "load" /\ e.op = c.op /\ e.off = c.off /\ e.len = c.len /\ e.i = n
      /\ e.val = c.val /\ e.ret = c.ret /\ e.ubuf = c.ubuf
  BY DEF Call
<1> HIDE DEF d, e
<1>3. AbstractTransfer(d) = Rec("copyin")
  BY <1>1 DEF AbstractTransfer, Project, AbstractPc
<1>4. AbstractTransfer(e) = Rec("load")
  BY <1>2 DEF AbstractTransfer, Project, AbstractPc
<1>5. Project(c) = [pc |-> "copyin", op |-> c.op, off |-> c.off, len |-> c.len,
                    i |-> c.i, val |-> c.val, ret |-> c.ret, ubuf |-> c.ubuf]
  BY DEF Project, AbstractPc
<1>6. [Project(c) EXCEPT !.i = n] = Rec("copyin")
  BY <1>5
<1>7. [Project(c) EXCEPT !.i = n, !.pc = "load"] = Rec("load")
  <2> DEFINE x == Project(c)
  <2> HIDE DEF x
  <2>1. [x EXCEPT !.i = n, !.pc = "load"] = [[x EXCEPT !.i = n] EXCEPT !.pc = "load"]
    OBVIOUS
  <2>2. [x EXCEPT !.i = n] = Rec("copyin")
    BY <1>6 DEF x
  <2>3. [Rec("copyin") EXCEPT !.pc = "load"] = Rec("load")
    OBVIOUS
  <2> HIDE DEF Rec
  <2>4. [x EXCEPT !.i = n, !.pc = "load"] = Rec("load")
    BY <2>1, <2>2, <2>3
  <2> QED BY <2>4 DEF x
<1> QED BY <1>3, <1>4, <1>6, <1>7 DEF d, e

\* Copying a byte from user space is the same step in both modules.
LEMMA CopyInRefines ==
    ASSUME IInv, NEW t \in Thread, CopyIn(t)
    PROVE  Bytes!CopyIn(t)
<1> DEFINE c == call[t]
           x == AbstractTransfer(c)
           r == IF c.i + 1 < c.len THEN [c EXCEPT !.i = c.i + 1]
                                   ELSE [c EXCEPT !.i = 0, !.pc = "load"]
           y == IF x.i + 1 < x.len THEN [x EXCEPT !.i = x.i + 1]
                                   ELSE [x EXCEPT !.i = 0, !.pc = "load"]
<1>1. c \in Call /\ c.pc = "copyin" /\ Set(t, r)
      /\ buffer' = [buffer EXCEPT ![c.i] = c.ubuf[c.i]] /\ ec' = ec
  BY CallTypes DEF CopyIn
<1>2. x.pc = "copyin" /\ x.i = c.i /\ x.ubuf = c.ubuf
  BY <1>1, Fields DEF AbstractPc
<1>3. AbstractTransfer(r) = y
  <2>1. x = Project(c) /\ x.i = c.i /\ x.len = c.len
    BY <1>1, Fields
  <2>2. CASE c.i + 1 < c.len
    <3>1. r = [c EXCEPT !.i = c.i + 1] /\ y = [x EXCEPT !.i = c.i + 1]
      BY <2>1, <2>2
    <3>2. AbstractTransfer([c EXCEPT !.i = c.i + 1]) = [Project(c) EXCEPT !.i = c.i + 1]
      BY <1>1, CopyInProjects
    <3> HIDE DEF r, y, x
    <3> QED BY <2>1, <3>1, <3>2
  <2>3. CASE ~(c.i + 1 < c.len)
    <3>1. r = [c EXCEPT !.i = 0, !.pc = "load"] /\ y = [x EXCEPT !.i = 0, !.pc = "load"]
      BY <2>1, <2>3
    <3>2. AbstractTransfer([c EXCEPT !.i = 0, !.pc = "load"]) =
            [Project(c) EXCEPT !.i = 0, !.pc = "load"]
      BY <1>1, CopyInProjects
    <3> HIDE DEF r, y, x
    <3> QED BY <2>1, <3>1, <3>2
  <2> QED BY <2>2, <2>3
<1>4. xferBar[t] = x /\ xferBar' = [xferBar EXCEPT ![t] = y] /\ ramBar' = ramBar
  BY <1>1, <1>3, XferSet DEF ramBar
<1> QED BY <1>1, <1>2, <1>4 DEF Bytes!CopyIn, Bytes!Set, xferBar, ramBar

\* So is taking the byte to write from the buffer ...
LEMMA LoadRefines ==
    ASSUME IInv, NEW t \in Thread, Load(t)
    PROVE  Bytes!Load(t)
<1> DEFINE c == call[t]
           x == AbstractTransfer(c)
           b == buffer[c.i]
           r == [c EXCEPT !.val = b, !.pc = "lock"]
           y == [x EXCEPT !.val = b, !.pc = "byte"]
<1>1. c \in Call /\ c.pc = "load" /\ Set(t, r) /\ UNCHANGED <<buffer, ec>>
  BY CallTypes DEF Load
<1>2. x.pc = "load" /\ x.i = c.i
  BY <1>1, Fields DEF AbstractPc
<1>3. AbstractTransfer(r) = y
  <2> HIDE DEF b
  <2>1. y = [pc |-> "byte", op |-> c.op, off |-> c.off, len |-> c.len,
             i |-> c.i, val |-> b, ret |-> c.ret, ubuf |-> c.ubuf]
    <3>1. x = Project(c) /\ Project(c).ret = c.ret
      BY <1>1, Fields
    <3> HIDE DEF x
    <3>2. y = [Project(c) EXCEPT !.val = b, !.pc = "byte"]
      BY <3>1
    <3>3. [Project(c) EXCEPT !.val = b, !.pc = "byte"] =
            [pc |-> "byte", op |-> c.op, off |-> c.off, len |-> c.len,
             i |-> c.i, val |-> b, ret |-> Project(c).ret, ubuf |-> c.ubuf]
      BY ReplaceTwo
    <3> HIDE DEF y, c
    <3> QED BY <3>1, <3>2, <3>3
  <2> HIDE DEF y
  <2> QED BY <1>1, <2>1 DEF AbstractTransfer, Project, AbstractPc, Call
<1>4. xferBar[t] = x /\ xferBar' = [xferBar EXCEPT ![t] = y] /\ ramBar' = ramBar
  BY <1>1, <1>3, XferSet DEF ramBar
<1> QED BY <1>1, <1>2, <1>4 DEF Bytes!Load, Bytes!Set, xferBar, ramBar

\* ... and copying a byte to user space.
LEMMA CopyOutRefines ==
    ASSUME IInv, NEW t \in Thread, CopyOut(t)
    PROVE  Bytes!CopyOut(t)
<1> DEFINE c == call[t]
           x == AbstractTransfer(c)
           u == [c.ubuf EXCEPT ![c.i] = buffer[c.i]]
           r == IF c.i + 1 < c.len THEN [c EXCEPT !.ubuf = u, !.i = c.i + 1]
                                   ELSE [c EXCEPT !.ubuf = u, !.i = 0, !.pc = "done"]
           v == [x.ubuf EXCEPT ![x.i] = buffer[x.i]]
           y == IF x.i + 1 < x.len THEN [x EXCEPT !.ubuf = v, !.i = x.i + 1]
                                   ELSE [x EXCEPT !.ubuf = v, !.i = 0, !.pc = "done"]
<1>1. c \in Call /\ c.pc = "copyout" /\ Set(t, r) /\ UNCHANGED <<buffer, ec>>
  BY CallTypes DEF CopyOut
<1>2. x.pc = "copyout" /\ v = u
  BY <1>1, Fields DEF AbstractPc
<1>3. AbstractTransfer(r) = y
  <2> HIDE DEF u, v
  <2> QED BY <1>1, <1>2 DEF AbstractTransfer, Project, AbstractPc, Call
<1>4. xferBar[t] = x /\ xferBar' = [xferBar EXCEPT ![t] = y] /\ ramBar' = ramBar
  BY <1>1, <1>3, XferSet DEF ramBar
<1> QED BY <1>1, <1>2, <1>4 DEF Bytes!CopyOut, Bytes!Set, xferBar, ramBar

\* The ways a running transfer ends early, and the return of a call.  A call
\* that only set the type is no transfer: its return is not seen.
LEMMA EndRefines ==
    ASSUME IInv, NEW t \in Thread
    PROVE  /\ CopyFault(t) => Bytes!CopyFault(t)
           /\ Interrupted(t) => Bytes!Interrupted(t)
           /\ Return(t) => Bytes!Return(t) \/ UNCHANGED <<buffer, ramBar, xferBar>>
<1> DEFINE c == call[t]
           x == AbstractTransfer(c)
<1>1. c \in Call /\ CallInv(c)
  BY CallTypes
<1>2. ASSUME NEW e \in {"EFAULT", "EINTR"}, c.pc \in {"copyin", "copyout", "lock"},
             Set(t, [c EXCEPT !.ret = e, !.pc = "done"]), UNCHANGED <<buffer, ec>>
      PROVE  /\ x.pc = AbstractPc(c)
             /\ xferBar[t] = x /\ ramBar' = ramBar
             /\ xferBar' = [xferBar EXCEPT ![t] = [x EXCEPT !.pc = "done", !.ret = e]]
  <2> DEFINE r == [c EXCEPT !.ret = e, !.pc = "done"]
  <2>1. AbstractTransfer(r) = [x EXCEPT !.pc = "done", !.ret = e]
    <3>1. /\ r.pc = "done" /\ r.ret = e /\ r.op = c.op /\ r.off = c.off /\ r.len = c.len
          /\ r.i = c.i /\ r.val = c.val /\ r.ubuf = c.ubuf
      BY <1>1 DEF Call
    <3>2. x = Project(c)
      BY <1>1, <1>2, Fields
    <3>3. AbstractTransfer(r) = [pc |-> "done", op |-> c.op, off |-> c.off, len |-> c.len,
                                 i |-> c.i, val |-> c.val, ret |-> e, ubuf |-> c.ubuf]
      BY <3>1 DEF AbstractTransfer, Project, AbstractPc
    <3>4. [Project(c) EXCEPT !.pc = "done", !.ret = e] =
            [pc |-> "done", op |-> c.op, off |-> c.off, len |-> c.len,
             i |-> c.i, val |-> c.val, ret |-> e, ubuf |-> c.ubuf]
      BY ReplaceTwo
    <3> QED BY <3>2, <3>3, <3>4
  <2> QED BY <1>1, <1>2, <2>1, Fields, XferSet DEF ramBar
<1>3. CopyFault(t) => Bytes!CopyFault(t)
  BY <1>2 DEF CopyFault, Bytes!CopyFault, Bytes!Set, AbstractPc, xferBar, ramBar
<1>4. Interrupted(t) => Bytes!Interrupted(t)
  BY <1>2 DEF Interrupted, Bytes!Interrupted, Bytes!Set, AbstractPc, xferBar, ramBar
<1>5. ASSUME Return(t)
      PROVE  Bytes!Return(t) \/ UNCHANGED <<buffer, ramBar, xferBar>>
  <2>1. Set(t, Idle) /\ UNCHANGED <<buffer, ec>> /\ c.pc \in {"done", "typed"}
    BY <1>5 DEF Return
  <2>2. AbstractTransfer(Idle) = Bytes!NoTransfer
    BY AddrIndex DEF AbstractTransfer, Project, AbstractPc, Idle, Bytes!NoTransfer
  <2>3. xferBar[t] = x /\ ramBar' = ramBar /\ xferBar' = [xferBar EXCEPT ![t] = Bytes!NoTransfer]
    BY <2>1, <2>2, XferSet DEF ramBar
  <2>4. CASE c.pc = "done"
    <3>1. x.pc = "done"
      BY <1>1, <2>4, Fields DEF AbstractPc
    <3> QED BY <2>1, <2>3, <3>1 DEF Bytes!Return, Bytes!Set, xferBar, ramBar
  <2>5. CASE c.pc = "typed"
    <3>1. c = [Idle EXCEPT !.pc = "typed", !.fd = c.fd, !.ret = c.ret]
      BY <1>1, <2>5 DEF CallInv
    <3>2. /\ c.op = "read" /\ c.off = 0 /\ c.len = 0 /\ c.i = 0 /\ c.val = ZeroByte
          /\ c.ubuf = ZeroBuffer
      BY <3>1 DEF Idle
    <3>3. x = Bytes!NoTransfer
      BY <2>5, <3>2, AddrIndex DEF AbstractTransfer, Project, AbstractPc, Bytes!NoTransfer
    <3> QED BY <2>1, <2>3, <3>3, XferSet
  <2> QED BY <2>1, <2>4, <2>5
<1> QED BY <1>3, <1>4, <1>5

\* SET_TYPE is no transfer, and a request is accepted or refused at once.
LEMMA CallRefines ==
    ASSUME IInv, NEW t \in Thread, NEW f \in File
    PROVE  /\ \A known \in BOOLEAN :
                SetType(t, f, known) => UNCHANGED <<buffer, ramBar, xferBar>>
           /\ \A r \in Request, accessOk \in BOOLEAN :
                BeginTransfer(t, f, r, accessOk) => Bytes!Accept(t, r) \/ Bytes!Refuse(t)
<1> DEFINE c == call[t]
<1>1. c \in Call /\ CallInv(c)
  BY CallTypes
<1>2. AbstractTransfer(Idle) = Bytes!NoTransfer
  BY AddrIndex DEF AbstractTransfer, Project, AbstractPc, Idle, Bytes!NoTransfer
<1>3. ASSUME NEW known \in BOOLEAN, SetType(t, f, known)
      PROVE  UNCHANGED <<buffer, ramBar, xferBar>>
  <2> DEFINE r == [c EXCEPT !.pc = "typed", !.fd = f, !.ret = IF known THEN "ok" ELSE "EINVAL"]
  <2>1. c = Idle /\ Set(t, r) /\ UNCHANGED <<buffer, ec>>
    BY <1>1, <1>3 DEF SetType, CallInv
  <2>2. /\ r.pc = "typed" /\ r.op = "read" /\ r.off = 0 /\ r.len = 0 /\ r.i = 0
        /\ r.val = ZeroByte /\ r.ubuf = ZeroBuffer
    BY <2>1 DEF Idle
  <2> HIDE DEF r
  <2>3. AbstractTransfer(r) = Bytes!NoTransfer
    BY <2>2, AddrIndex DEF AbstractTransfer, Project, AbstractPc, Bytes!NoTransfer
  <2> QED BY <1>2, <2>1, <2>3, XferSet DEF ramBar
<1>4. ASSUME NEW r \in Request, NEW accessOk \in BOOLEAN, BeginTransfer(t, f, r, accessOk)
      PROVE  Bytes!Accept(t, r) \/ Bytes!Refuse(t)
  <2> DEFINE err == Checked(f, r.off, r.len, accessOk)
  <2>1. c = Idle /\ UNCHANGED <<buffer, ec>>
    BY <1>1, <1>4 DEF BeginTransfer, CallInv
  <2>2. xferBar[t] = Bytes!NoTransfer /\ xferBar[t].pc = "idle" /\ ramBar' = ramBar
    BY <1>2, <2>1 DEF xferBar, ramBar, Bytes!NoTransfer
  <2>3. err \in {"ok", "EINVAL", "ENODEV", "EFAULT"}
    BY DEF Checked
  <2>4. CASE err # "ok" \/ r.len = 0
    <3> DEFINE q == [c EXCEPT !.pc = "done", !.fd = f, !.ret = err]
    <3>1. Set(t, q)
      BY <1>4, <2>4 DEF BeginTransfer
    <3>2. /\ q.pc = "done" /\ q.op = "read" /\ q.off = 0 /\ q.len = 0 /\ q.i = 0
          /\ q.val = ZeroByte /\ q.ret = err /\ q.ubuf = ZeroBuffer
      BY <2>1 DEF Idle
    <3> HIDE DEF q, err
    <3>3. AbstractTransfer(q) = [Bytes!NoTransfer EXCEPT !.pc = "done", !.ret = err]
      <4>1. AbstractTransfer(q) = [pc |-> "done", op |-> "read", off |-> 0, len |-> 0,
                                   i |-> 0, val |-> ZeroByte, ret |-> err, ubuf |-> ZeroBuffer]
        BY <3>2 DEF AbstractTransfer, Project, AbstractPc
      <4>2. [Project(Idle) EXCEPT !.pc = "done", !.ret = err] =
              [pc |-> "done", op |-> Idle.op, off |-> Idle.off, len |-> Idle.len,
               i |-> Idle.i, val |-> Idle.val, ret |-> err, ubuf |-> Idle.ubuf]
        BY ReplaceTwo
      <4>3. Project(Idle) = Bytes!NoTransfer
        BY <1>2 DEF AbstractTransfer, Idle
      <4>4. [pc |-> "done", op |-> Idle.op, off |-> Idle.off, len |-> Idle.len,
             i |-> Idle.i, val |-> Idle.val, ret |-> err, ubuf |-> Idle.ubuf] = AbstractTransfer(q)
        BY <4>1 DEF Idle
      <4> QED BY <4>2, <4>3, <4>4
    <3>4. xferBar' = [xferBar EXCEPT ![t] = [Bytes!NoTransfer EXCEPT !.pc = "done", !.ret = err]]
      BY <3>1, <3>3, XferSet
    <3>5. Bytes!Refuse(t)
      BY <2>1, <2>2, <2>3, <3>4 DEF Bytes!Refuse, Bytes!Set, xferBar, ramBar
    <3> QED BY <3>5
  <2>5. CASE ~(err # "ok" \/ r.len = 0)
    <3> DEFINE q == [c EXCEPT !.pc = IF r.op = "write" THEN "copyin" ELSE "lock",
                       !.fd = f, !.op = r.op, !.off = r.off, !.len = r.len, !.ubuf = r.buf]
    <3>1. Set(t, q)
      BY <1>4, <2>5 DEF BeginTransfer
    <3>2. /\ q.pc = IF r.op = "write" THEN "copyin" ELSE "lock"
          /\ q.op = r.op /\ q.off = r.off /\ q.len = r.len /\ q.i = 0
          /\ q.val = ZeroByte /\ q.ret = "ok" /\ q.ubuf = r.buf
      BY <2>1 DEF Idle
    <3>3. r \in AecramRequest
      BY ValueAssumption
    <3>4. r.len \in 1 .. BufferSize /\ r.off + r.len <= AddrSize
      <4>1. IsValidParam(r.off, r.len)
        BY <2>5 DEF Checked
      <4> QED BY <2>5, <3>3, <4>1, ValidRange, SizeAssumption DEF AecramRequest
    <3> HIDE DEF q, err
    <3>5. AbstractTransfer(q) =
            [pc |-> IF r.op = "write" THEN "copyin" ELSE "byte", op |-> r.op,
             off |-> r.off, len |-> r.len, i |-> 0, val |-> ZeroByte,
             ret |-> "ok", ubuf |-> r.buf]
      BY <3>2 DEF AbstractTransfer, Project, AbstractPc
    <3>6. xferBar' = [xferBar EXCEPT ![t] = AbstractTransfer(q)]
      BY <3>1, XferSet
    <3>7. Bytes!Accept(t, r)
      BY <2>1, <2>2, <3>4, <3>5, <3>6 DEF Bytes!Accept, Bytes!Set, xferBar, ramBar
    <3> QED BY <3>7
  <2> QED BY <2>4, <2>5
<1> QED BY <1>3, <1>4

\* The value access is where a byte moves, between the buffer and the RAM at
\* exactly offset + i.
LEMMA MoveByteRefines ==
    ASSUME IInv, NEW t \in Thread, OutValue(t) \/ InValue(t)
    PROVE  Bytes!MoveByte(t)
<1> DEFINE c == call[t]
           x == AbstractTransfer(c)
           r == [c EXCEPT !.pc = "unlock"]
<1>1. c \in Call /\ c.pc = "port" /\ c.port = "arg" /\ c.cmd = "value" /\ Set(t, r)
  BY CallTypes DEF OutValue, InValue
<1>2. /\ x = Project(c) /\ x.pc = "byte" /\ x.op = c.op /\ x.off = c.off
      /\ x.i = c.i /\ x.val = c.val /\ x.len = c.len
  BY <1>1, Fields DEF AbstractPc
<1>3. AbstractTransfer(r) = Bytes!Advance(x)
  <2>1. r \in Call /\ r.pc = "unlock" /\ r.op = c.op /\ r.off = c.off /\ r.len = c.len /\ r.i = c.i
        /\ r.ret = c.ret /\ r.ubuf = c.ubuf
    BY <1>1 DEF Call, Transfer
  <2>2. AbstractTransfer(r) = Project(NextByte(r))
    BY <2>1 DEF AbstractTransfer
  <2> HIDE DEF r
  <2>3. Project(NextByte(r)) =
          [pc |-> NextPc(c), op |-> c.op, off |-> c.off, len |-> c.len, i |-> NextIndex(c),
           val |-> ZeroByte, ret |-> c.ret, ubuf |-> c.ubuf]
    <3>1. CASE c.i + 1 < c.len
      BY <2>1, <3>1 DEF NextByte, Project, AbstractPc, NextPc, NextIndex, Call
    <3>2. CASE ~(c.i + 1 < c.len)
      BY <2>1, <3>2 DEF NextByte, Project, AbstractPc, NextPc, NextIndex, Call
    <3> QED BY <3>1, <3>2
  <2>4. Project(c).ret = c.ret
    BY <1>1 DEF Project
  <2> QED BY <1>2, <2>2, <2>3, <2>4, AdvanceFields
<1>4. xferBar[t] = x /\ xferBar' = [xferBar EXCEPT ![t] = Bytes!Advance(x)]
  BY <1>1, <1>3, XferSet
<1>5. /\ EcState(c, ec) /\ Offset(c) = c.off + c.i /\ c.off + c.i \in Addr
      /\ ec \in EcType
  BY <1>1, AtPorts DEF EcType
<1>6. <<ec.hi, ec.lo>> = CellOf(c.off + c.i)
  BY <1>1, <1>5, SplitAddress DEF EcState
<1>7. CASE OutValue(t)
  <2>1. ec'.ram = [ec.ram EXCEPT ![CellOf(c.off + c.i)] = c.val]
    BY <1>7, OutValueEffect
  <2>2. ramBar' = [ramBar EXCEPT ![c.off + c.i] = c.val]
    <3>1. \A a \in Addr : CellOf(a) \in High \X Low
      BY SplitAddress
    <3>2. \A a \in Addr : ec'.ram[CellOf(a)] = IF a = c.off + c.i THEN c.val ELSE ec.ram[CellOf(a)]
      BY <1>5, <2>1, <3>1, CellInjective DEF EcType
    <3> QED BY <1>5, <3>2 DEF ramBar
  <2>3. c.op = "write" /\ buffer' = buffer
    BY <1>7 DEF OutValue
  <2> QED BY <1>2, <1>4, <2>2, <2>3 DEF Bytes!MoveByte, Bytes!Set, xferBar, ramBar
<1>8. CASE InValue(t)
  <2>1. c.op = "read" /\ ec' = ec /\ buffer' = [buffer EXCEPT ![c.i] = ec.ram[<<ec.hi, ec.lo>>]]
    BY <1>8 DEF InValue, EcIn
  <2>2. ramBar' = ramBar /\ ec.ram[<<ec.hi, ec.lo>>] = ramBar[c.off + c.i]
    BY <1>5, <1>6, <2>1 DEF ramBar
  <2> QED BY <1>2, <1>4, <2>1, <2>2 DEF Bytes!MoveByte, Bytes!Set, xferBar, ramBar
<1> QED BY <1>7, <1>8

\* Loading and unloading, with no ioctl in progress.
LEMMA ModuleRefines ==
    ASSUME IInv, ModuleInit \/ ModuleExit
    PROVE  Bytes!Reset
<1>1. \A t \in Thread : call[t] = Idle
  BY DEF IInv, SessionAlive, ModuleInit, ModuleExit, CallsInv, CallInv
<1>2. AbstractTransfer(Idle) = Bytes!NoTransfer
  BY AddrIndex DEF AbstractTransfer, Project, AbstractPc, Idle, Bytes!NoTransfer
<1>3. UNCHANGED <<call, ec>> /\ buffer' = ZeroBuffer
  BY DEF ModuleInit, ModuleExit
<1>4. /\ \A t \in Thread : xferBar[t] = Bytes!NoTransfer
      /\ xferBar' = xferBar /\ ramBar' = ramBar
  BY <1>1, <1>2, <1>3 DEF xferBar, ramBar
<1> QED BY <1>3, <1>4, AddrIndex DEF Bytes!Reset, xferBar, ramBar

\* Every step of the driver is a step of AecramBytes or changes nothing there.
LEMMA NextRefines == IInv /\ [Next]_vars => [Bytes!Next]_(Bytes!vars)
<1> SUFFICES ASSUME IInv, [Next]_vars PROVE [Bytes!Next]_(Bytes!vars)
  OBVIOUS
<1> USE DEF Bytes!vars
<1>1. ASSUME UNCHANGED <<buffer, ramBar, xferBar>> PROVE UNCHANGED Bytes!vars
  BY <1>1 DEF ramBar, xferBar
<1>2. CASE UNCHANGED vars
  BY <1>2 DEF vars
<1>3. CASE ModuleInit \/ ModuleExit
  BY <1>3, ModuleRefines DEF Bytes!Next
<1>4. ASSUME NEW f \in File, Open(f) \/ Close(f) PROVE UNCHANGED Bytes!vars
  BY <1>4 DEF Open, Close
<1>5. ASSUME NEW t \in Thread, NEW f \in File, NEW known \in BOOLEAN, SetType(t, f, known)
      PROVE  UNCHANGED Bytes!vars
  BY <1>1, <1>5, CallRefines
<1>6. ASSUME NEW t \in Thread, NEW f \in File, NEW r \in Request, NEW accessOk \in BOOLEAN,
             BeginTransfer(t, f, r, accessOk)
      PROVE  Bytes!Next
  BY <1>6, CallRefines DEF Bytes!Next
<1>7. ASSUME NEW t \in Thread, CopyFault(t) \/ Interrupted(t) PROVE Bytes!Next
  BY <1>7, EndRefines DEF Bytes!Next
<1>8. ASSUME NEW t \in Thread, Step(t) PROVE Bytes!Next \/ UNCHANGED Bytes!vars
  <2>1. CASE CopyIn(t)
    BY <2>1, CopyInRefines DEF Bytes!Next
  <2>2. CASE Load(t)
    BY <2>2, LoadRefines DEF Bytes!Next
  <2>3. CASE CopyOut(t)
    BY <2>3, CopyOutRefines DEF Bytes!Next
  <2>4. CASE Lock(t) \/ SelectReg(t) \/ OutType(t) \/ OutOffset(t) \/ Unlock(t)
    BY <1>1, <2>4, HiddenSteps
  <2>5. CASE OutValue(t) \/ InValue(t)
    BY <2>5, MoveByteRefines DEF Bytes!Next
  <2>6. CASE Return(t)
    BY <1>1, <2>6, EndRefines DEF Bytes!Next
  <2> QED BY <1>8, <2>1, <2>2, <2>3, <2>4, <2>5, <2>6 DEF Step
<1> QED BY <1>2, <1>3, <1>4, <1>5, <1>6, <1>7, <1>8 DEF Next, Action

\* The driver implements AecramBytes.
THEOREM Refinement == Spec => ImplementsBytes
BY InitRefines, NextRefines, Invariance, PTL DEF Spec, ImplementsBytes, Bytes!Spec

-----------------------------------------------------------------------------
(* What AecramBytes promises, from the abstract specification alone *)

\* An abstract transfer, and the range that one in progress has been granted.
AbsTransfer == [pc: {"idle", "copyin", "load", "byte", "copyout", "done"}, op: {"read", "write"},
                off: Nat, len: Nat, i: Nat, val: Byte,
                ret: {"ok", "EINVAL", "ENODEV", "EFAULT", "EINTR"}, ubuf: [Index -> Byte]]

Granted(x) ==
    /\ x \in AbsTransfer
    /\ x.pc \in {"copyin", "load", "byte", "copyout"} =>
         x.len <= BufferSize /\ x.off + x.len <= AddrSize /\ x.i < x.len
    /\ x.pc \in {"copyin", "load"} => x.op = "write"

AbsInv ==
    /\ \A t \in Thread : Granted(xferBar[t])
    /\ buffer \in [Index -> Byte]
    /\ ramBar \in [Addr -> Byte]

\* A byte of the RAM changes only by a write transfer in progress, inside the
\* range it was granted, and to the byte it has loaded.
AbsChange ==
    \A a \in Addr : ramBar'[a] # ramBar[a] =>
        \E t \in Thread :
            /\ xferBar[t].op = "write" /\ xferBar[t].pc = "byte"
            /\ a \in xferBar[t].off .. xferBar[t].off + xferBar[t].len - 1
            /\ a = xferBar[t].off + xferBar[t].i
            /\ ramBar'[a] = xferBar[t].val

\* No transfer is in progress at first, and the RAM holds bytes.
LEMMA AbsInit == Bytes!Init => AbsInv
<1> SUFFICES ASSUME Bytes!Init PROVE AbsInv
  OBVIOUS
<1>1. /\ buffer = ZeroBuffer /\ ramBar \in [Addr -> Byte]
      /\ xferBar = [t \in Thread |-> Bytes!NoTransfer]
  BY AddrIndex DEF Bytes!Init, xferBar, ramBar, Addr
<1>2. ZeroBuffer \in [Index -> Byte]
  BY ValueAssumption DEF ZeroBuffer
<1>3. Granted(Bytes!NoTransfer)
  BY <1>2, AddrIndex, ValueAssumption DEF Granted, AbsTransfer, Bytes!NoTransfer
<1> QED BY <1>1, <1>2, <1>3 DEF AbsInv

\* A step that changes one transfer, to one that keeps to its range.
LEMMA AbsSet ==
    ASSUME AbsInv, NEW t \in Thread, NEW r, Granted(r),
           xferBar' = [xferBar EXCEPT ![t] = r],
           buffer' \in [Index -> Byte], ramBar' \in [Addr -> Byte]
    PROVE  AbsInv'
<1>1. xferBar = [u \in Thread |-> xferBar[u]]
  BY DEF xferBar
<1>2. \A u \in Thread : xferBar'[u] = IF u = t THEN r ELSE xferBar[u]
  BY <1>1
<1> QED BY <1>2 DEF AbsInv

\* A transfer begins with the range it asked for, or ends.
LEMMA AbsEnds ==
    ASSUME AbsInv, NEW t \in Thread,
           \/ \E r \in Request : Bytes!Accept(t, r)
           \/ Bytes!Refuse(t) \/ Bytes!Interrupted(t) \/ Bytes!CopyFault(t) \/ Bytes!Return(t)
    PROVE  AbsInv' /\ ramBar' = ramBar
<1> DEFINE x == xferBar[t]
<1>1. Granted(x) /\ buffer \in [Index -> Byte] /\ ramBar \in [Addr -> Byte]
  BY DEF AbsInv
<1>2. Granted(Bytes!NoTransfer) /\ Bytes!NoTransfer.pc = "idle" /\ Bytes!NoTransfer \in AbsTransfer
  <2>1. ZeroBuffer \in [Index -> Byte]
    BY ValueAssumption DEF ZeroBuffer
  <2> QED BY <2>1, AddrIndex, ValueAssumption DEF Granted, AbsTransfer, Bytes!NoTransfer
<1>3. ASSUME NEW r \in Request, Bytes!Accept(t, r) PROVE AbsInv' /\ ramBar' = ramBar
  <2> DEFINE q == [pc |-> IF r.op = "write" THEN "copyin" ELSE "byte", op |-> r.op,
                   off |-> r.off, len |-> r.len, i |-> 0, val |-> ZeroByte,
                   ret |-> "ok", ubuf |-> r.buf]
  <2>1. /\ r.len \in 1 .. BufferSize /\ r.off + r.len <= AddrSize
        /\ xferBar' = [xferBar EXCEPT ![t] = q]
        /\ buffer' = buffer /\ ramBar' = ramBar
    BY <1>3 DEF Bytes!Accept, Bytes!Set, xferBar, ramBar
  <2>2. r \in AecramRequest
    BY ValueAssumption
  <2>3. Granted(q)
    BY <2>1, <2>2, ValueAssumption, SizeAssumption
       DEF Granted, AbsTransfer, AecramRequest, Addr
  <2> QED BY <1>1, <2>1, <2>3, AbsSet
<1>4. CASE Bytes!Refuse(t)
  <2>1. PICK e \in {"ok", "EINVAL", "ENODEV", "EFAULT"} :
          /\ xferBar' = [xferBar EXCEPT ![t] = [Bytes!NoTransfer EXCEPT !.pc = "done", !.ret = e]]
          /\ buffer' = buffer /\ ramBar' = ramBar
    BY <1>4 DEF Bytes!Refuse, Bytes!Set, xferBar, ramBar
  <2>2. Granted([Bytes!NoTransfer EXCEPT !.pc = "done", !.ret = e])
    BY <1>2 DEF Granted, AbsTransfer
  <2> QED BY <1>1, <2>1, <2>2, AbsSet
<1>5. CASE Bytes!Interrupted(t) \/ Bytes!CopyFault(t)
  <2>1. PICK e \in {"EINTR", "EFAULT"} :
          /\ xferBar' = [xferBar EXCEPT ![t] = [x EXCEPT !.pc = "done", !.ret = e]]
          /\ buffer' = buffer /\ ramBar' = ramBar
    BY <1>5 DEF Bytes!Interrupted, Bytes!CopyFault, Bytes!Set, xferBar, ramBar
  <2>2. Granted([x EXCEPT !.pc = "done", !.ret = e])
    BY <1>1 DEF Granted, AbsTransfer
  <2> QED BY <1>1, <2>1, <2>2, AbsSet
<1>6. CASE Bytes!Return(t)
  <2>1. /\ xferBar' = [xferBar EXCEPT ![t] = Bytes!NoTransfer]
        /\ buffer' = buffer /\ ramBar' = ramBar
    BY <1>6 DEF Bytes!Return, Bytes!Set, xferBar, ramBar
  <2> QED BY <1>1, <1>2, <2>1, AbsSet
<1> QED BY <1>3, <1>4, <1>5, <1>6

\* Copying to and from user space and loading a byte leave the RAM alone.
LEMMA AbsCopies ==
    ASSUME AbsInv, NEW t \in Thread, Bytes!CopyIn(t) \/ Bytes!Load(t) \/ Bytes!CopyOut(t)
    PROVE  AbsInv' /\ ramBar' = ramBar
<1> DEFINE x == xferBar[t]
<1>1. /\ Granted(x) /\ x \in AbsTransfer
      /\ buffer \in [Index -> Byte] /\ ramBar \in [Addr -> Byte]
  BY DEF AbsInv, Granted
<1>2. x.pc \in {"copyin", "load", "copyout"} =>
        x.i \in Index /\ x.i < x.len /\ x.len <= BufferSize /\ x.off + x.len <= AddrSize
  BY <1>1, SizeAssumption DEF Granted, AbsTransfer, Index
<1>3. CASE Bytes!CopyIn(t)
  <2> DEFINE q == IF x.i + 1 < x.len THEN [x EXCEPT !.i = x.i + 1]
                                     ELSE [x EXCEPT !.i = 0, !.pc = "load"]
  <2>1. /\ x.pc = "copyin" /\ buffer' = [buffer EXCEPT ![x.i] = x.ubuf[x.i]]
        /\ xferBar' = [xferBar EXCEPT ![t] = q] /\ ramBar' = ramBar
    BY <1>3 DEF Bytes!CopyIn, Bytes!Set, xferBar, ramBar
  <2>2. buffer' \in [Index -> Byte]
    BY <1>1, <1>2, <2>1 DEF AbsTransfer
  <2>3. /\ q \in AbsTransfer /\ q.len = x.len /\ q.off = x.off /\ q.op = x.op
        /\ q.pc \in {"copyin", "load"} /\ q.i < x.len
    <3>1. CASE x.i + 1 < x.len
      BY <1>1, <1>2, <2>1, <3>1 DEF AbsTransfer
    <3>2. CASE ~(x.i + 1 < x.len)
      <4>1. q = [x EXCEPT !.i = 0, !.pc = "load"] /\ 0 < x.len /\ x \in AbsTransfer
        BY <1>1, <1>2, <2>1, <3>2 DEF Index, AbsTransfer
      <4> HIDE DEF q, x
      <4> QED BY <4>1 DEF AbsTransfer
    <3> HIDE DEF q
    <3> QED BY <3>1, <3>2
  <2> HIDE DEF q
  <2>4. Granted(q)
    BY <1>1, <1>2, <2>1, <2>3 DEF Granted
  <2> QED BY <1>1, <2>1, <2>2, <2>4, AbsSet
<1>4. CASE Bytes!Load(t)
  <2> DEFINE q == [x EXCEPT !.val = buffer[x.i], !.pc = "byte"]
  <2>1. /\ x.pc = "load" /\ xferBar' = [xferBar EXCEPT ![t] = q]
        /\ buffer' = buffer /\ ramBar' = ramBar
    BY <1>4 DEF Bytes!Load, Bytes!Set, xferBar, ramBar
  <2>2. buffer[x.i] \in Byte
    BY <1>1, <1>2, <2>1
  <2>3. /\ q \in AbsTransfer /\ q.len = x.len /\ q.off = x.off /\ q.i = x.i /\ q.pc = "byte"
    BY <1>1, <2>2 DEF AbsTransfer
  <2> HIDE DEF q
  <2>4. Granted(q)
    BY <1>1, <1>2, <2>1, <2>3 DEF Granted
  <2> QED BY <1>1, <2>1, <2>4, AbsSet
<1>5. CASE Bytes!CopyOut(t)
  <2> DEFINE q == IF x.i + 1 < x.len
                  THEN [x EXCEPT !.ubuf[x.i] = buffer[x.i], !.i = x.i + 1]
                  ELSE [x EXCEPT !.ubuf[x.i] = buffer[x.i], !.i = 0, !.pc = "done"]
  <2>1. /\ x.pc = "copyout" /\ xferBar' = [xferBar EXCEPT ![t] = q]
        /\ buffer' = buffer /\ ramBar' = ramBar
    BY <1>5 DEF Bytes!CopyOut, Bytes!Set, xferBar, ramBar
  <2>2. buffer[x.i] \in Byte
    BY <1>1, <1>2, <2>1
  <2>3. /\ q \in AbsTransfer /\ q.len = x.len /\ q.off = x.off
        /\ q.pc \in {"copyout", "done"} /\ (q.pc = "copyout" => q.i < x.len)
    <3> DEFINE b == buffer[x.i]
               u == [x.ubuf EXCEPT ![x.i] = b]
               n == x.i + 1
    <3>3. x \in AbsTransfer /\ u \in [Index -> Byte] /\ n \in Nat
      BY <1>1, <1>2, <2>1, <2>2 DEF AbsTransfer, Index
    <3>1. CASE x.i + 1 < x.len
      <4>1. q = [x EXCEPT !.ubuf = u, !.i = n] /\ x.pc = "copyout"
        BY <2>1, <3>1
      <4> HIDE DEF q, x, u, n
      <4>2. /\ q \in AbsTransfer /\ q.len = x.len /\ q.off = x.off
            /\ q.pc = "copyout" /\ q.i = n
        BY <3>3, <4>1 DEF AbsTransfer
      <4> QED BY <3>1, <4>2 DEF n
    <3>2. CASE ~(x.i + 1 < x.len)
      <4>1. q = [x EXCEPT !.ubuf = u, !.i = 0, !.pc = "done"]
        BY <3>2
      <4> HIDE DEF q, x, u
      <4> QED BY <3>3, <4>1 DEF AbsTransfer
    <3> HIDE DEF q
    <3> QED BY <3>1, <3>2
  <2> HIDE DEF q
  <2>4. Granted(q)
    BY <1>1, <1>2, <2>1, <2>3 DEF Granted
  <2> QED BY <1>1, <2>1, <2>4, AbsSet
<1> QED BY <1>3, <1>4, <1>5

\* A byte moves where the transfer is, which is inside its range.
LEMMA AbsMoves ==
    ASSUME AbsInv, NEW t \in Thread, Bytes!MoveByte(t)
    PROVE  AbsInv' /\ AbsChange
<1> DEFINE x == xferBar[t]
           q == Bytes!Advance(x)
<1>1. /\ Granted(x) /\ x \in AbsTransfer /\ x.pc = "byte"
      /\ buffer \in [Index -> Byte] /\ ramBar \in [Addr -> Byte]
  BY DEF AbsInv, Granted, Bytes!MoveByte, xferBar
<1>2. /\ x.i \in Index /\ x.i < x.len /\ x.len <= BufferSize /\ x.off + x.len <= AddrSize
      /\ x.off + x.i \in Addr /\ x.off + x.i \in x.off .. x.off + x.len - 1
  <2>1. /\ x.i \in Nat /\ x.off \in Nat /\ x.len \in Nat
        /\ x.i < x.len /\ x.len <= BufferSize /\ x.off + x.len <= AddrSize
    BY <1>1 DEF Granted, AbsTransfer
  <2> HIDE DEF x
  <2> QED BY <2>1, AddrSizeType, SizeAssumption DEF Index, Addr
<1>3. xferBar' = [xferBar EXCEPT ![t] = q]
  BY DEF Bytes!MoveByte, Bytes!Set, xferBar
<1>4. Granted(q)
  <2>1. CASE x.i + 1 < x.len
    <3> DEFINE p == IF x.op = "write" THEN "load" ELSE "byte"
    <3>1. q = [x EXCEPT !.i = x.i + 1, !.val = ZeroByte, !.pc = p] /\ x.i + 1 \in Nat
      BY <1>2, <2>1 DEF Bytes!Advance, Index
    <3>2. p \in {"load", "byte"} /\ (p = "load" => x.op = "write")
      OBVIOUS
    <3> DEFINE n == x.i + 1
    <3>4. x \in AbsTransfer /\ n \in Nat /\ q = [x EXCEPT !.i = n, !.val = ZeroByte, !.pc = p]
      BY <1>1, <3>1
    <3> HIDE DEF p, q, n, x
    <3>3. /\ q \in AbsTransfer /\ q.pc = p /\ q.i = n
          /\ q.len = x.len /\ q.off = x.off /\ q.op = x.op
      BY <3>2, <3>4, ValueAssumption DEF AbsTransfer
    <3> USE DEF n
    <3> QED BY <1>2, <2>1, <3>2, <3>3 DEF Granted
  <2>2. CASE ~(x.i + 1 < x.len)
    <3> DEFINE p == IF x.op = "write" THEN "done" ELSE "copyout"
    <3>1. q = [x EXCEPT !.i = 0, !.val = ZeroByte, !.pc = p]
      BY <2>2 DEF Bytes!Advance
    <3>2. p \in {"done", "copyout"}
      OBVIOUS
    <3>4. 0 < x.len /\ x \in AbsTransfer
      BY <1>1, <1>2 DEF Index, AbsTransfer
    <3> HIDE DEF p, q, x
    <3>3. /\ q \in AbsTransfer /\ q.pc = p /\ q.i = 0
          /\ q.len = x.len /\ q.off = x.off /\ q.op = x.op
      BY <3>1, <3>2, <3>4, ValueAssumption DEF AbsTransfer
    <3> QED BY <1>2, <3>2, <3>3, <3>4 DEF Granted
  <2> QED BY <2>1, <2>2
<1> HIDE DEF q
<1>5. CASE x.op = "write" /\ ramBar' = [ramBar EXCEPT ![x.off + x.i] = x.val] /\ buffer' = buffer
  <2>1. ramBar' \in [Addr -> Byte]
    BY <1>1, <1>2, <1>5 DEF AbsTransfer
  <2>2. \A a \in Addr : ramBar'[a] = IF a = x.off + x.i THEN x.val ELSE ramBar[a]
    BY <1>1, <1>2, <1>5
  <2>3. AbsChange
    BY <1>1, <1>2, <1>5, <2>2 DEF AbsChange
  <2> QED BY <1>1, <1>3, <1>4, <1>5, <2>1, <2>3, AbsSet
<1>6. CASE buffer' = [buffer EXCEPT ![x.i] = ramBar[x.off + x.i]] /\ ramBar' = ramBar
  <2>1. buffer' \in [Index -> Byte]
    BY <1>1, <1>2, <1>6
  <2> QED BY <1>1, <1>3, <1>4, <1>6, <2>1, AbsSet DEF AbsChange
<1>7. \/ x.op = "write" /\ ramBar' = [ramBar EXCEPT ![x.off + x.i] = x.val] /\ buffer' = buffer
      \/ buffer' = [buffer EXCEPT ![x.i] = ramBar[x.off + x.i]] /\ ramBar' = ramBar
  BY DEF Bytes!MoveByte, xferBar, ramBar
<1> QED BY <1>5, <1>6, <1>7

\* Every step of AecramBytes.
LEMMA AbsNext == AbsInv /\ [Bytes!Next]_(Bytes!vars) => AbsInv' /\ AbsChange
<1> SUFFICES ASSUME AbsInv, [Bytes!Next]_(Bytes!vars) PROVE AbsInv' /\ AbsChange
  OBVIOUS
<1>1. ASSUME ramBar' = ramBar PROVE AbsChange
  BY <1>1 DEF AbsChange
<1>2. CASE UNCHANGED Bytes!vars
  <2>1. UNCHANGED <<buffer, ramBar, xferBar>>
    BY <1>2 DEF Bytes!vars, ramBar, xferBar
  <2> QED BY <1>1, <2>1 DEF AbsInv
<1>3. CASE Bytes!Reset
  <2>1. UNCHANGED <<ramBar, xferBar>> /\ buffer' = ZeroBuffer
    BY <1>3, AddrIndex DEF Bytes!Reset, ramBar, xferBar
  <2>2. ZeroBuffer \in [Index -> Byte]
    BY ValueAssumption DEF ZeroBuffer
  <2> QED BY <1>1, <2>1, <2>2 DEF AbsInv
<1>4. ASSUME NEW t \in Thread,
             \/ \E r \in Request : Bytes!Accept(t, r)
             \/ Bytes!Refuse(t) \/ Bytes!Interrupted(t) \/ Bytes!CopyFault(t) \/ Bytes!Return(t)
             \/ Bytes!CopyIn(t) \/ Bytes!Load(t) \/ Bytes!CopyOut(t) \/ Bytes!MoveByte(t)
      PROVE  AbsInv' /\ AbsChange
  BY <1>1, <1>4, AbsEnds, AbsCopies, AbsMoves
<1> QED BY <1>2, <1>3, <1>4 DEF Bytes!Next

\* The promise of AecramBytes, and so of every driver that implements it,
\* whatever its mutex and ports: the RAM outside the ranges of the write
\* transfers in progress keeps its bytes, and inside them a byte only becomes
\* the one its transfer has loaded.
THEOREM BytesPromise == ImplementsBytes => [][AbsChange]_(Bytes!vars)
<1>1. AbsInv /\ [Bytes!Next]_(Bytes!vars) => [AbsChange]_(Bytes!vars)
  BY AbsNext
<1> QED BY <1>1, AbsInit, AbsNext, PTL DEF ImplementsBytes, Bytes!Spec

=============================================================================
