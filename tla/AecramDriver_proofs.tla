------------------------- MODULE AecramDriver_proofs -------------------------
(***************************************************************************)
(* Proofs about AecramDriver, for every number of threads and files, every *)
(* address space, buffer and set of requests.                              *)
(***************************************************************************)
EXTENDS AecramDriver, TLAPS

-----------------------------------------------------------------------------
(* Arithmetic *)

\* There is at least one address.
LEMMA AddrSizeType == AddrSize \in Nat /\ AddrSize > 0
<1> DEFINE Times(m, n) == m * n
<1>1. \A m, n \in Nat : m > 0 /\ n > 0 => Times(m, n) \in Nat /\ Times(m, n) > 0
  BY Z3
<1> QED BY <1>1, SizeAssumption DEF AddrSize

\* A number below the modulus is its own remainder.
LEMMA SmallMod ==
    ASSUME NEW n \in Nat, NEW m \in Nat, n < m
    PROVE  n % m = n
BY Z3

\* is_valid_param accepts only ranges inside the buffer and the address space.
LEMMA ValidRange ==
    ASSUME NEW offset \in Addr, NEW length \in 0 .. LenMax, length # 0,
           IsValidParam(offset, length)
    PROVE  length <= BufferSize /\ offset + length <= AddrSize
<1>1. offset + length - 1 \in Nat /\ offset + length - 1 < UIntMod
  BY AddrSizeType, SizeAssumption DEF Addr
<1>2. Unsigned(offset + length - 1) = offset + length - 1
  BY <1>1, SmallMod, SizeAssumption DEF Unsigned
<1> QED BY <1>1, <1>2, AddrSizeType, SizeAssumption DEF IsValidParam, Addr

\* The two offset bytes the code sends select the cell of the address.
LEMMA SplitAddress ==
    ASSUME NEW a \in Addr
    PROVE  /\ HighByte(a) \in High /\ LowByte(a) \in Low
           /\ LowSize * HighByte(a) + LowByte(a) = a
           /\ CellOf(a) = <<HighByte(a), LowByte(a)>>
<1>1. /\ a \in Nat /\ a < HighSize * LowSize
      /\ LowSize \in Nat /\ LowSize > 0 /\ HighSize \in Nat /\ HighSize > 0
  BY AddrSizeType, SizeAssumption DEF Addr, AddrSize
<1>2. /\ a \div LowSize \in Nat /\ a % LowSize \in 0 .. LowSize - 1
      /\ a = LowSize * (a \div LowSize) + (a % LowSize)
  BY <1>1, Z3
<1>3. a \div LowSize < HighSize
  <2>1. \A q, h, l \in Nat : q >= h => l * q >= h * l
    BY Z3
  <2> QED BY <1>1, <1>2, <2>1, Z3
<1>4. HighByte(a) = a \div LowSize
  BY <1>1, <1>2, <1>3, SmallMod DEF HighByte
<1> QED BY <1>1, <1>2, <1>3, <1>4 DEF LowByte, CellOf, High, Low

-----------------------------------------------------------------------------
(* The inductive invariant *)

Working == {"copyin", "load", "lock", "port", "unlock", "copyout"}

\* What holds of a call wherever it is: an idle thread keeps nothing of its
\* last call; a working transfer is in bounds; and outside the mutex the next
\* command is the first one.
CallInv(c) ==
    /\ c.pc = "user" => c = Idle
    /\ c.pc = "typed" => c = [Idle EXCEPT !.pc = "typed", !.fd = c.fd, !.ret = c.ret]
    /\ c.pc # "user" => c.fd \in File
    /\ c.pc \in Working => c.i < c.len /\ c.len <= BufferSize /\ c.off + c.len <= AddrSize
    /\ c.pc \in {"copyin", "load"} => c.op = "write"
    /\ c.pc = "copyout" => c.op = "read"
    /\ c.pc \notin {"port", "unlock"} => c.cmd = "high" /\ c.port = "selType"
    /\ c.pc = "unlock" => c.cmd = "value" /\ c.port = "arg"

CallsInv == \A t \in Thread : CallInv(call[t])

\* The holder of the mutex is the one thread at the ports.
MutexInv == \A t \in Thread : (mtx = t) <=> (call[t].pc \in {"port", "unlock"})

\* What the port accesses of c so far have left in the EC's registers.
EcState(c, e) ==
    /\ c.cmd \in {"low", "value"} => e.hi = HighByte(Offset(c))
    /\ c.cmd = "value" => e.lo = LowByte(Offset(c))
    /\ c.port = "type" => e.latch = "type"
    /\ c.port = "selArg" => e.type = c.cmd
    /\ c.port = "arg" => e.latch = "arg" /\ e.type = c.cmd

EcInv == \A t \in Thread : call[t].pc \in {"port", "unlock"} => EcState(call[t], ec)

\* There are no sessions without the module.
FilesInv == \A f \in File : config[f] # "closed" => loaded

IInv == TypeOK /\ CallsInv /\ SessionAlive /\ FilesInv /\ MutexInv /\ EcInv

\* The initial states satisfy the invariant.
LEMMA InitIInv == Init => IInv
<1> SUFFICES ASSUME Init PROVE IInv
  OBVIOUS
<1>1. ZeroBuffer \in [Index -> Byte]
  BY ValueAssumption DEF ZeroBuffer
<1>2. 0 \in Addr /\ 0 \in Index /\ 0 \in 0 .. LenMax /\ 0 \in High /\ 0 \in Low
  BY AddrSizeType, SizeAssumption DEF Addr, Index, High, Low
<1>3. Idle \in Call
  BY <1>1, <1>2, ValueAssumption DEF Idle, Call
<1>4. TypeOK
  BY <1>1, <1>2, <1>3 DEF Init, TypeOK
<1>5. CallsInv
  BY DEF Init, CallsInv, CallInv, Idle, Working
<1>6. SessionAlive
  BY DEF Init, SessionAlive, Idle
<1>7. MutexInv
  BY ValueAssumption DEF Init, MutexInv, Idle
<1>8. EcInv
  BY DEF Init, EcInv, Idle
<1>9. FilesInv
  BY DEF Init, FilesInv
<1> QED BY <1>4, <1>5, <1>6, <1>7, <1>8, <1>9 DEF IInv

-----------------------------------------------------------------------------
(* Steps of one thread *)

\* When thread t's call becomes r and the sessions stay as they are, the parts
\* of the invariant about calls and sessions carry over.
LEMMA CallStep ==
    ASSUME IInv, NEW t \in Thread, NEW r \in Call, Set(t, r), CallInv(r),
           UNCHANGED <<loaded, config>>,
           \/ r.pc = "user"
           \/ /\ call[t].pc # "user"
              /\ r.fd = call[t].fd
              /\ r.pc \in Working => call[t].pc \in Working
    PROVE  /\ call' \in [Thread -> Call]
           /\ call'[t] = r
           /\ \A u \in Thread \ {t} : call'[u] = call[u]
           /\ CallsInv'
           /\ SessionAlive' /\ FilesInv'
<1>1. call \in [Thread -> Call]
  BY DEF IInv, TypeOK
<1>2. /\ call' \in [Thread -> Call]
      /\ call'[t] = r
      /\ \A u \in Thread \ {t} : call'[u] = call[u]
  BY <1>1 DEF Set
<1>3. CallsInv'
  BY <1>2 DEF IInv, CallsInv
<1>4. SessionAlive'
  <2> SUFFICES ASSUME NEW u \in Thread, call'[u].pc # "user"
               PROVE  /\ loaded
                      /\ config[call'[u].fd] # "closed"
                      /\ Active(u)' => config[call'[u].fd] = "ayaneo"
    BY DEF SessionAlive
  <2>1. CASE u = t
    BY <1>2, <2>1 DEF IInv, SessionAlive, Active, Transfer, Working
  <2>2. CASE u # t
    BY <1>2, <2>2 DEF IInv, SessionAlive, Active
  <2> QED BY <2>1, <2>2
<1>5. FilesInv'
  BY DEF IInv, FilesInv
<1> QED BY <1>2, <1>3, <1>4, <1>5

\* A step of t that neither takes nor releases the mutex nor reaches the ports.
LEMMA OutsideStep ==
    ASSUME IInv, NEW t \in Thread, NEW r \in Call, Set(t, r), CallInv(r),
           UNCHANGED <<loaded, config, mtx, ec>>, buffer' \in [Index -> Byte],
           call[t].pc \notin {"port", "unlock"}, r.pc \notin {"port", "unlock"},
           \/ r.pc = "user"
           \/ /\ call[t].pc # "user"
              /\ r.fd = call[t].fd
              /\ r.pc \in Working => call[t].pc \in Working
    PROVE  IInv'
<1>1. /\ call' \in [Thread -> Call]
      /\ call'[t] = r
      /\ \A u \in Thread \ {t} : call'[u] = call[u]
      /\ CallsInv' /\ SessionAlive' /\ FilesInv'
  BY CallStep
<1>2. TypeOK'
  BY <1>1 DEF IInv, TypeOK
<1>3. MutexInv'
  BY <1>1 DEF IInv, MutexInv
<1>4. EcInv'
  BY <1>1 DEF IInv, EcInv
<1> QED BY <1>1, <1>2, <1>3, <1>4 DEF IInv

\* A port access of the holder t: the other threads are not at the ports.
LEMMA PortStep ==
    ASSUME IInv, NEW t \in Thread, NEW r \in Call, Set(t, r), CallInv(r),
           UNCHANGED <<loaded, config, mtx>>, buffer' \in [Index -> Byte],
           call[t].pc = "port", r.pc \in {"port", "unlock"}, r.fd = call[t].fd,
           ec' \in [latch: {"type", "arg"}, type: {"high", "low", "value"},
                    hi: High, lo: Low, ram: [High \X Low -> Byte]],
           EcState(r, ec')
    PROVE  IInv'
<1>1. /\ call' \in [Thread -> Call]
      /\ call'[t] = r
      /\ \A u \in Thread \ {t} : call'[u] = call[u]
      /\ CallsInv' /\ SessionAlive' /\ FilesInv'
  BY CallStep DEF Working
<1>2. TypeOK'
  BY <1>1 DEF IInv, TypeOK
<1>3. MutexInv'
  BY <1>1 DEF IInv, MutexInv
<1>4. EcInv'
  <2>1. \A u \in Thread \ {t} : call[u].pc \notin {"port", "unlock"}
    BY DEF IInv, MutexInv
  <2> QED BY <1>1, <2>1 DEF EcInv
<1> QED BY <1>1, <1>2, <1>3, <1>4 DEF IInv

-----------------------------------------------------------------------------
(* Every action preserves the invariant *)

\* The calls are typed whenever the invariant holds.
LEMMA CallTypes ==
    ASSUME IInv, NEW t \in Thread
    PROVE  call[t] \in Call /\ CallInv(call[t]) /\ buffer \in [Index -> Byte]
BY DEF IInv, TypeOK, CallsInv

\* aecram_init and aecram_exit run without an ioctl, so the mutex is free.
LEMMA ModuleSteps ==
    ASSUME IInv, ModuleInit \/ ModuleExit
    PROVE  IInv'
<1>1. \A t \in Thread : call[t].pc = "user"
  BY DEF IInv, SessionAlive, ModuleInit, ModuleExit, CallsInv, CallInv
<1>2. mtx = NoOne /\ mtx' = NoOne
  BY <1>1 DEF IInv, TypeOK, MutexInv, ModuleInit, ModuleExit
<1>3. ZeroBuffer \in [Index -> Byte]
  BY ValueAssumption DEF ZeroBuffer
<1>4. UNCHANGED <<config, call, ec>> /\ loaded' \in BOOLEAN /\ buffer' = ZeroBuffer
  BY DEF ModuleInit, ModuleExit
<1>5. TypeOK' /\ CallsInv' /\ MutexInv' /\ EcInv'
  BY <1>2, <1>3, <1>4 DEF IInv, TypeOK, CallsInv, MutexInv, EcInv
<1>6. SessionAlive' /\ FilesInv'
  BY <1>1, <1>4 DEF SessionAlive, IInv, FilesInv, ModuleInit, ModuleExit
<1> QED BY <1>5, <1>6 DEF IInv

\* aecram_open gives a closed file a session; aecram_close takes the session
\* of a file that no call is on.
LEMMA FileSteps ==
    ASSUME IInv, NEW f \in File, Open(f) \/ Close(f)
    PROVE  IInv'
<1>1. UNCHANGED <<loaded, buffer, mtx, call, ec>>
  BY DEF Open, Close
<1>2. config' \in [File -> {"closed", "none", "ayaneo"}]
  BY DEF IInv, TypeOK, Open, Close
<1>3. \A t \in Thread : call[t].pc # "user" => call[t].fd \in File \ {f}
  BY DEF Open, Close, IInv, SessionAlive, CallsInv, CallInv
<1>4. \A g \in File \ {f} : config'[g] = config[g]
  BY DEF Open, Close, IInv, TypeOK
<1>5. TypeOK' /\ CallsInv' /\ MutexInv' /\ EcInv'
  BY <1>1, <1>2 DEF IInv, TypeOK, CallsInv, MutexInv, EcInv
<1>6. SessionAlive' /\ FilesInv'
  <2>1. SessionAlive'
    BY <1>1, <1>3, <1>4 DEF IInv, SessionAlive, Active
  <2>2. FilesInv'
    BY <1>1, <1>4 DEF IInv, FilesInv, Open, Close
  <2> QED BY <2>1, <2>2
<1> QED BY <1>5, <1>6 DEF IInv

\* SET_TYPE only ever gives a session a config.
LEMMA SetTypeStep ==
    ASSUME IInv, NEW t \in Thread, NEW f \in File, NEW known \in BOOLEAN,
           SetType(t, f, known)
    PROVE  IInv'
<1> DEFINE r == [call[t] EXCEPT !.pc = "typed", !.fd = f,
                                !.ret = IF known THEN "ok" ELSE "EINVAL"]
<1>1. call[t] = Idle /\ Idle \in Call
  BY CallTypes DEF SetType, CallInv
<1>2. /\ r \in Call /\ r.pc = "typed" /\ r.fd = f /\ r.cmd = "high" /\ r.port = "selType"
      /\ r = [Idle EXCEPT !.pc = "typed", !.fd = r.fd, !.ret = r.ret]
  BY <1>1 DEF Call, Idle
<1>3. /\ call' \in [Thread -> Call] /\ call'[t] = r
      /\ \A u \in Thread \ {t} : call'[u] = call[u]
  BY <1>2 DEF SetType, Set, IInv, TypeOK
<1>4. /\ config' \in [File -> {"closed", "none", "ayaneo"}]
      /\ \A g \in File : config[g] # "closed" => config'[g] # "closed"
      /\ \A g \in File : config[g] = "ayaneo" => config'[g] = "ayaneo"
      /\ config'[f] # "closed"
  BY DEF SetType, IInv, TypeOK
<1>5. loaded /\ UNCHANGED <<loaded, buffer, mtx, ec>>
  BY DEF SetType, IInv, FilesInv
<1> HIDE DEF r
<1>6. TypeOK'
  BY <1>3, <1>4, <1>5 DEF IInv, TypeOK
<1>7. CallsInv'
  <2>1. CallInv(r)
    BY <1>2 DEF CallInv, Working
  <2> QED BY <1>3, <2>1 DEF IInv, CallsInv
<1>8. SessionAlive' /\ FilesInv'
  <2> SUFFICES ASSUME NEW u \in Thread, call'[u].pc # "user"
               PROVE  /\ config'[call'[u].fd] # "closed"
                      /\ Active(u)' => config'[call'[u].fd] = "ayaneo"
    BY <1>5 DEF SessionAlive, FilesInv
  <2>1. CASE u = t
    BY <1>2, <1>3, <1>4, <2>1 DEF Active, Transfer
  <2>2. CASE u # t
    <3>1. call'[u] = call[u]
      BY <1>3, <2>2
    <3>2. call[u].fd \in File
      BY <3>1 DEF IInv, CallsInv, CallInv
    <3>3. config[call[u].fd] # "closed" /\ (Active(u) => config[call[u].fd] = "ayaneo")
      BY <3>1 DEF IInv, SessionAlive
    <3> QED BY <1>4, <3>1, <3>2, <3>3 DEF Active
  <2> QED BY <2>1, <2>2
<1>9. MutexInv' /\ EcInv'
  BY <1>2, <1>3, <1>5 DEF IInv, MutexInv, EcInv, SetType
<1> QED BY <1>6, <1>7, <1>8, <1>9 DEF IInv

\* A transfer that passes the checks of the ioctl is in bounds.
LEMMA BeginStep ==
    ASSUME IInv, NEW t \in Thread, NEW f \in File, NEW q \in Request,
           NEW accessOk \in BOOLEAN, BeginTransfer(t, f, q, accessOk)
    PROVE  IInv'
<1> DEFINE err == Checked(f, q.off, q.len, accessOk)
           r == IF err # "ok" \/ q.len = 0
                THEN [call[t] EXCEPT !.pc = "done", !.fd = f, !.ret = err]
                ELSE [call[t] EXCEPT !.pc = IF q.op = "write" THEN "copyin" ELSE "lock",
                        !.fd = f, !.op = q.op, !.off = q.off, !.len = q.len, !.ubuf = q.buf]
<1>1. q \in AecramRequest
  BY ValueAssumption
<1>2. call[t] = Idle /\ Idle \in Call
  BY CallTypes DEF BeginTransfer, CallInv
<1>3. UNCHANGED <<loaded, config, buffer, mtx, ec>> /\ config[f] # "closed" /\ loaded
  BY DEF BeginTransfer, IInv, FilesInv
<1>4. err \in {"ok", "EINVAL", "ENODEV", "EFAULT"}
  BY DEF Checked
<1>5. err = "ok" /\ q.len # 0 =>
        /\ q.len <= BufferSize /\ q.off + q.len <= AddrSize
        /\ config[f] = "ayaneo"
  <2>1. err = "ok" => IsValidParam(q.off, q.len) /\ config[f] # "none"
    BY DEF Checked
  <2>2. config[f] \in {"closed", "none", "ayaneo"}
    BY DEF IInv, TypeOK
  <2> QED BY <1>1, <1>3, <2>1, <2>2, ValidRange DEF AecramRequest
<1> HIDE DEF err
<1>6. /\ r \in Call /\ CallInv(r) /\ r.fd = f
      /\ r.pc \in {"done", "copyin", "lock"}
      /\ r.pc \in Working => config[f] = "ayaneo"
  <2>1. CASE err # "ok" \/ q.len = 0
    <3>1. r = [Idle EXCEPT !.pc = "done", !.fd = f, !.ret = err]
      BY <1>2, <2>1
    <3> HIDE DEF r
    <3>2. r \in Call
      BY <1>2, <1>4, <3>1 DEF Call, Idle, Transfer
    <3> QED BY <3>1, <3>2 DEF CallInv, Idle, Working
  <2>2. CASE ~(err # "ok" \/ q.len = 0)
    <3>1. r = [Idle EXCEPT !.pc = IF q.op = "write" THEN "copyin" ELSE "lock",
                 !.fd = f, !.op = q.op, !.off = q.off, !.len = q.len, !.ubuf = q.buf]
      BY <1>2, <2>2
    <3> HIDE DEF r
    <3>2. r \in Call
      <4>1. r = [pc |-> IF q.op = "write" THEN "copyin" ELSE "lock", fd |-> f, op |-> q.op,
                 off |-> q.off, len |-> q.len, i |-> Idle.i, val |-> Idle.val, cmd |-> Idle.cmd,
                 port |-> Idle.port, ret |-> Idle.ret, ubuf |-> q.buf]
        BY <3>1 DEF Idle
      <4>2. q.op \in {"read", "write"} /\ q.off \in Addr /\ q.len \in 0 .. LenMax
            /\ q.buf \in [Index -> Byte]
        BY <1>1 DEF AecramRequest
      <4>3. Idle.i \in Index /\ Idle.val \in Byte /\ Idle.cmd = "high"
            /\ Idle.port = "selType" /\ Idle.ret = "ok"
        BY <1>2 DEF Call, Idle
      <4> QED BY <4>1, <4>2, <4>3 DEF Call, Transfer
    <3>3. q.len \in Nat /\ q.op \in {"read", "write"}
      BY <1>1, SizeAssumption DEF AecramRequest
    <3> QED BY <3>3, <1>5, <2>2, <3>1, <3>2 DEF CallInv, Idle, Working
  <2> QED BY <2>1, <2>2
<1>7. Set(t, r)
  BY DEF BeginTransfer, err
<1> HIDE DEF r
<1>8. /\ call' \in [Thread -> Call] /\ call'[t] = r
      /\ \A u \in Thread \ {t} : call'[u] = call[u]
  BY <1>6, <1>7 DEF Set, IInv, TypeOK
<1>9. TypeOK' /\ CallsInv' /\ FilesInv'
  BY <1>3, <1>6, <1>8 DEF IInv, TypeOK, CallsInv, FilesInv
<1>10. SessionAlive'
  <2> SUFFICES ASSUME NEW u \in Thread, call'[u].pc # "user"
               PROVE  /\ config[call'[u].fd] # "closed"
                      /\ Active(u)' => config[call'[u].fd] = "ayaneo"
    BY <1>3 DEF SessionAlive
  <2>1. CASE u = t
    BY <1>3, <1>6, <1>8, <2>1 DEF Active, Transfer, Working
  <2>2. CASE u # t
    BY <1>8, <2>2 DEF IInv, SessionAlive, Active
  <2> QED BY <2>1, <2>2
<1>11. MutexInv' /\ EcInv'
  BY <1>2, <1>3, <1>6, <1>8 DEF IInv, MutexInv, EcInv, Idle
<1> QED BY <1>9, <1>10, <1>11 DEF IInv

\* A loop that copies bytes stays inside the buffer.
LEMMA CopyInStep ==
    ASSUME IInv, NEW t \in Thread, CopyIn(t)
    PROVE  IInv'
<1> DEFINE c == call[t]
           r == IF c.i + 1 < c.len THEN [c EXCEPT !.i = c.i + 1]
                                   ELSE [c EXCEPT !.i = 0, !.pc = "load"]
<1>1. c \in Call /\ CallInv(c) /\ c.pc = "copyin" /\ buffer \in [Index -> Byte]
  BY CallTypes DEF CopyIn
<1>2. buffer' \in [Index -> Byte]
  BY <1>1 DEF CopyIn, Call
<1>3. Set(t, r) /\ UNCHANGED <<loaded, config, mtx, ec>>
  BY DEF CopyIn
<1>4. r \in Call /\ CallInv(r) /\ r.fd = c.fd /\ r.pc \in {"copyin", "load"}
  <2> HIDE DEF c
  <2>1. CASE c.i + 1 < c.len
    <3>1. r = [c EXCEPT !.i = c.i + 1] /\ c.i + 1 \in Index
      BY <1>1, <2>1, SizeAssumption DEF Call, CallInv, Working, Index
    <3> HIDE DEF r
    <3>2. r \in Call
      BY <1>1, <3>1 DEF Call
    <3> QED BY <1>1, <2>1, <3>1, <3>2 DEF Call, CallInv, Working
  <2>2. CASE ~(c.i + 1 < c.len)
    <3>1. r = [c EXCEPT !.i = 0, !.pc = "load"] /\ 0 \in Index
      BY <2>2, SizeAssumption DEF Index
    <3> HIDE DEF r
    <3>2. r \in Call
      BY <1>1, <3>1 DEF Call, Transfer
    <3>3. 0 < c.len
      BY <1>1, SizeAssumption DEF Call, CallInv, Working, Index
    <3> QED BY <1>1, <2>2, <3>1, <3>2, <3>3 DEF Call, CallInv, Working
  <2> QED BY <2>1, <2>2
<1> HIDE DEF r
<1> QED BY <1>1, <1>2, <1>3, <1>4, OutsideStep DEF Working

\* The argument val is a byte of the buffer.
LEMMA LoadStep ==
    ASSUME IInv, NEW t \in Thread, Load(t)
    PROVE  IInv'
<1> DEFINE c == call[t]
           r == [c EXCEPT !.val = buffer[c.i], !.pc = "lock"]
<1>1. c \in Call /\ CallInv(c) /\ c.pc = "load" /\ buffer \in [Index -> Byte]
  BY CallTypes DEF Load
<1>2. Set(t, r) /\ UNCHANGED <<loaded, config, buffer, mtx, ec>>
  BY DEF Load
<1>3. r \in Call /\ CallInv(r) /\ r.fd = c.fd /\ r.pc = "lock"
  BY <1>1 DEF Call, CallInv, Working, Transfer
<1> HIDE DEF r
<1> QED BY <1>1, <1>2, <1>3, OutsideStep DEF Working

\* A call that ends early, and one that returns.
LEMMA EndSteps ==
    ASSUME IInv, NEW t \in Thread, CopyFault(t) \/ Interrupted(t) \/ Return(t)
    PROVE  IInv'
<1> DEFINE c == call[t]
<1>1. c \in Call /\ CallInv(c) /\ buffer \in [Index -> Byte]
  BY CallTypes
<1>2. ASSUME NEW e \in {"EFAULT", "EINTR"}, Set(t, [c EXCEPT !.ret = e, !.pc = "done"]),
             c.pc \in {"copyin", "copyout", "lock"},
             UNCHANGED <<loaded, config, buffer, mtx, ec>>
      PROVE  IInv'
  <2> DEFINE r == [c EXCEPT !.ret = e, !.pc = "done"]
  <2>1. r \in Call /\ CallInv(r) /\ r.fd = c.fd /\ r.pc = "done"
    BY <1>1, <1>2 DEF Call, CallInv, Working, Transfer
  <2> HIDE DEF r
  <2>2. Set(t, r)
    BY <1>2 DEF r
  <2> QED BY <1>1, <1>2, <2>1, <2>2, OutsideStep DEF Working
<1>3. CASE CopyFault(t)
  BY <1>2, <1>3 DEF CopyFault
<1>4. CASE Interrupted(t)
  BY <1>2, <1>4 DEF Interrupted
<1>5. CASE Return(t)
  <2>1. Idle \in Call /\ CallInv(Idle) /\ Idle.pc = "user"
    <3>1. ZeroBuffer \in [Index -> Byte]
      BY ValueAssumption DEF ZeroBuffer
    <3>2. 0 \in Addr /\ 0 \in Index /\ 0 \in 0 .. LenMax
      BY AddrSizeType, SizeAssumption DEF Addr, Index
    <3> QED BY <3>1, <3>2, ValueAssumption DEF Call, CallInv, Idle, Working, Transfer
  <2>2. c.pc \in {"done", "typed"} /\ Set(t, Idle) /\ UNCHANGED <<loaded, config, buffer, mtx, ec>>
    BY <1>5 DEF Return
  <2> QED BY <1>1, <2>1, <2>2, OutsideStep
<1> QED BY <1>3, <1>4, <1>5

\* The copy to user space stays inside the buffer, and ends the transfer.
LEMMA CopyOutStep ==
    ASSUME IInv, NEW t \in Thread, CopyOut(t)
    PROVE  IInv'
<1> DEFINE c == call[t]
           u == [c.ubuf EXCEPT ![c.i] = buffer[c.i]]
           r == IF c.i + 1 < c.len THEN [c EXCEPT !.ubuf = u, !.i = c.i + 1]
                                   ELSE [c EXCEPT !.ubuf = u, !.i = 0, !.pc = "done"]
<1>1. c \in Call /\ CallInv(c) /\ c.pc = "copyout" /\ buffer \in [Index -> Byte]
  BY CallTypes DEF CopyOut
<1>2. u \in [Index -> Byte]
  BY <1>1 DEF Call
<1>3. Set(t, r) /\ UNCHANGED <<loaded, config, buffer, mtx, ec>>
  BY DEF CopyOut
<1> HIDE DEF u
<1>4. r \in Call /\ CallInv(r) /\ r.fd = c.fd /\ r.pc \in {"copyout", "done"}
  <2> HIDE DEF c
  <2>1. CASE c.i + 1 < c.len
    <3>1. r = [c EXCEPT !.ubuf = u, !.i = c.i + 1] /\ c.i + 1 \in Index
      BY <1>1, <2>1, SizeAssumption DEF Call, CallInv, Working, Index
    <3> HIDE DEF r
    <3>2. r \in Call
      BY <1>1, <3>1, <1>2 DEF Call
    <3> QED BY <1>1, <2>1, <3>1, <3>2, <1>2 DEF Call, CallInv, Working
  <2>2. CASE ~(c.i + 1 < c.len)
    <3>1. r = [c EXCEPT !.ubuf = u, !.i = 0, !.pc = "done"] /\ 0 \in Index
      BY <2>2, SizeAssumption DEF Index
    <3> HIDE DEF r
    <3>2. r \in Call
      BY <1>1, <3>1, <1>2 DEF Call, Transfer
    <3>3. 0 < c.len
      BY <1>1, SizeAssumption DEF Call, CallInv, Working, Index
    <3> QED BY <1>1, <2>2, <3>1, <3>2, <3>3, <1>2 DEF Call, CallInv, Working
  <2> QED BY <2>1, <2>2
<1> HIDE DEF r
<1> QED BY <1>1, <1>3, <1>4, OutsideStep DEF Working

\* Taking the mutex: no thread was at the ports, and t starts with the first
\* access of the first command, which relies on nothing in the EC.
LEMMA LockStep ==
    ASSUME IInv, NEW t \in Thread, Lock(t)
    PROVE  IInv'
<1> DEFINE c == call[t]
           r == [c EXCEPT !.pc = "port"]
<1>1. c \in Call /\ CallInv(c) /\ c.pc = "lock"
  BY CallTypes DEF Lock
<1>2. Set(t, r) /\ mtx = NoOne /\ mtx' = t /\ UNCHANGED <<loaded, config, buffer, ec>>
  BY DEF Lock
<1>3. r \in Call /\ CallInv(r) /\ r.fd = c.fd /\ r.pc = "port"
      /\ r.cmd = "high" /\ r.port = "selType"
  BY <1>1 DEF Call, CallInv, Working, Transfer
<1> HIDE DEF r
<1>4. /\ call' \in [Thread -> Call] /\ call'[t] = r
      /\ \A u \in Thread \ {t} : call'[u] = call[u]
      /\ CallsInv' /\ SessionAlive' /\ FilesInv'
  BY <1>1, <1>2, <1>3, CallStep DEF Working
<1>5. \A u \in Thread : call[u].pc \notin {"port", "unlock"}
  BY <1>2, ValueAssumption DEF IInv, MutexInv
<1>6. TypeOK'
  BY <1>2, <1>4 DEF IInv, TypeOK
<1>7. MutexInv'
  BY <1>2, <1>3, <1>4, <1>5 DEF MutexInv
<1>8. EcInv'
  BY <1>3, <1>4, <1>5 DEF EcInv, EcState
<1> QED BY <1>4, <1>6, <1>7, <1>8 DEF IInv

\* Releasing it.
LEMMA UnlockStep ==
    ASSUME IInv, NEW t \in Thread, Unlock(t)
    PROVE  IInv'
<1> DEFINE c == call[t]
           r == NextByte(c)
<1>1. c \in Call /\ CallInv(c) /\ c.pc = "unlock"
  BY CallTypes DEF Unlock
<1>2. Set(t, r) /\ mtx' = NoOne /\ UNCHANGED <<loaded, config, buffer, ec>>
  BY DEF Unlock
<1>3. r \in Call /\ CallInv(r) /\ r.fd = c.fd /\ r.pc \in {"load", "lock", "done", "copyout"}
  <2> HIDE DEF c
  <2>1. CASE c.i + 1 < c.len
    <3>1. /\ r = [c EXCEPT !.i = c.i + 1, !.pc = IF c.op = "write" THEN "load" ELSE "lock",
                   !.val = ZeroByte, !.cmd = "high", !.port = "selType"]
          /\ c.i + 1 \in Index
      BY <1>1, <2>1, SizeAssumption DEF NextByte, Call, CallInv, Working, Index
    <3> HIDE DEF r
    <3>2. r \in Call
      BY <1>1, <3>1, ValueAssumption DEF Call, Transfer
    <3> QED BY <1>1, <2>1, <3>1, <3>2 DEF Call, CallInv, Working
  <2>2. CASE ~(c.i + 1 < c.len)
    <3>1. /\ r = [c EXCEPT !.i = 0, !.pc = IF c.op = "write" THEN "done" ELSE "copyout",
                   !.val = ZeroByte, !.cmd = "high", !.port = "selType"]
          /\ 0 \in Index /\ 0 < c.len
      BY <1>1, <2>2, SizeAssumption DEF NextByte, Call, CallInv, Working, Index
    <3> HIDE DEF r
    <3>2. r \in Call
      BY <1>1, <3>1, ValueAssumption DEF Call, Transfer
    <3> QED BY <1>1, <2>2, <3>1, <3>2 DEF Call, CallInv, Working
  <2> QED BY <2>1, <2>2
<1> HIDE DEF r
<1>4. /\ call' \in [Thread -> Call] /\ call'[t] = r
      /\ \A u \in Thread \ {t} : call'[u] = call[u]
      /\ CallsInv' /\ SessionAlive' /\ FilesInv'
  BY <1>1, <1>2, <1>3, CallStep DEF Working
<1>5. \A u \in Thread \ {t} : call[u].pc \notin {"port", "unlock"}
  BY <1>1 DEF IInv, MutexInv
<1>6. TypeOK'
  BY <1>2, <1>4 DEF IInv, TypeOK
<1>7. MutexInv'
  BY <1>2, <1>3, <1>4, <1>5, ValueAssumption DEF MutexInv
<1>8. EcInv'
  BY <1>3, <1>4, <1>5 DEF EcInv
<1> QED BY <1>4, <1>6, <1>7, <1>8 DEF IInv

\* What a thread at the ports can rely on.
LEMMA AtPorts ==
    ASSUME IInv, NEW t \in Thread, call[t].pc = "port"
    PROVE  /\ call[t] \in Call /\ CallInv(call[t]) /\ EcState(call[t], ec)
           /\ buffer \in [Index -> Byte]
           /\ Offset(call[t]) = call[t].off + call[t].i
           /\ Offset(call[t]) \in Addr
           /\ ec \in [latch: {"type", "arg"}, type: {"high", "low", "value"},
                      hi: High, lo: Low, ram: [High \X Low -> Byte]]
<1>1. /\ call[t] \in Call /\ CallInv(call[t]) /\ EcState(call[t], ec)
      /\ buffer \in [Index -> Byte]
      /\ ec \in [latch: {"type", "arg"}, type: {"high", "low", "value"},
                 hi: High, lo: Low, ram: [High \X Low -> Byte]]
  BY CallTypes DEF IInv, EcInv, TypeOK
<1>2. /\ call[t].off + call[t].i \in Nat
      /\ call[t].off + call[t].i < AddrSize
  <2>1. call[t].off \in Nat /\ call[t].i \in Nat /\ call[t].len \in Nat
    BY <1>1, SizeAssumption, AddrSizeType DEF Call, Addr, Index
  <2>2. call[t].i < call[t].len /\ call[t].off + call[t].len <= AddrSize
    BY <1>1 DEF CallInv, Working
  <2> QED BY <2>1, <2>2, AddrSizeType
<1>3. Offset(call[t]) = call[t].off + call[t].i
  BY <1>2, SmallMod, AddrSizeType DEF Offset
<1> QED BY <1>1, <1>2, <1>3, AddrSizeType DEF Addr

EcType == [latch: {"type", "arg"}, type: {"high", "low", "value"},
           hi: High, lo: Low, ram: [High \X Low -> Byte]]

\* The four accesses of a command, in the order of cmd_out and cmd_in.
LEMMA SelectStep ==
    ASSUME IInv, NEW t \in Thread, SelectReg(t)
    PROVE  IInv'
<1> DEFINE c == call[t]
<1>1. /\ c \in Call /\ CallInv(c) /\ EcState(c, ec) /\ c.pc = "port"
      /\ buffer \in [Index -> Byte] /\ ec \in EcType
      /\ UNCHANGED <<loaded, config, buffer, mtx>>
  BY AtPorts DEF SelectReg, EcType
<1>2. ASSUME NEW r \in Call, NEW reg \in {"type", "arg"},
             r = [c EXCEPT !.port = reg], Set(t, r), ec' = EcSelect(ec, reg),
             reg = "arg" => ec.type = c.cmd
      PROVE  IInv'
  <2>1. CallInv(r) /\ r.fd = c.fd /\ r.pc = "port" /\ Offset(r) = Offset(c)
    BY <1>1, <1>2 DEF Call, CallInv, Working, Offset
  <2>2. ec' \in EcType
    BY <1>1, <1>2 DEF EcSelect, EcType
  <2>3. EcState(r, ec')
    BY <1>1, <1>2, <2>1 DEF EcState, EcSelect, EcType, Call
  <2> QED BY <1>1, <1>2, <2>1, <2>2, <2>3, PortStep DEF EcType
<1>3. [c EXCEPT !.port = "type"] \in Call /\ [c EXCEPT !.port = "arg"] \in Call
  BY <1>1 DEF Call
<1>4. CASE c.port = "selType"
  BY <1>2, <1>3, <1>4 DEF SelectReg
<1>5. CASE c.port = "selArg"
  BY <1>1, <1>2, <1>3, <1>5 DEF SelectReg, EcState
<1> QED BY <1>4, <1>5 DEF SelectReg

\* The command type reaches the EC, which then waits for the argument.
LEMMA OutTypeStep ==
    ASSUME IInv, NEW t \in Thread, OutType(t)
    PROVE  IInv'
<1> DEFINE c == call[t]
           r == [c EXCEPT !.port = "selArg"]
<1>1. /\ c \in Call /\ CallInv(c) /\ EcState(c, ec) /\ c.pc = "port" /\ c.port = "type"
      /\ buffer \in [Index -> Byte] /\ ec \in EcType
      /\ Set(t, r) /\ UNCHANGED <<loaded, config, buffer, mtx>>
  BY AtPorts DEF OutType, EcType
<1>2. ec' = [ec EXCEPT !.type = c.cmd]
  BY <1>1 DEF OutType, EcOut, EcState
<1>3. r \in Call /\ CallInv(r) /\ r.fd = c.fd /\ r.pc = "port" /\ Offset(r) = Offset(c)
  BY <1>1 DEF Call, CallInv, Working, Offset
<1>4. ec' \in EcType
  BY <1>1, <1>2 DEF EcType, Call
<1>5. EcState(r, ec')
  BY <1>1, <1>2, <1>3 DEF EcState, EcType, Call
<1> HIDE DEF r
<1> QED BY <1>1, <1>3, <1>4, <1>5, PortStep DEF EcType

\* The two offset commands leave the bytes of offset + i in the EC.
LEMMA OutOffsetStep ==
    ASSUME IInv, NEW t \in Thread, OutOffset(t)
    PROVE  IInv'
<1> DEFINE c == call[t]
<1>1. /\ c \in Call /\ CallInv(c) /\ EcState(c, ec) /\ c.pc = "port" /\ c.port = "arg"
      /\ buffer \in [Index -> Byte] /\ ec \in EcType
      /\ UNCHANGED <<loaded, config, buffer, mtx>>
      /\ Offset(c) \in Addr
  BY AtPorts DEF OutOffset, EcType
<1>2. HighByte(Offset(c)) \in High /\ LowByte(Offset(c)) \in Low
  BY <1>1, SplitAddress
<1>3. CASE c.cmd = "high"
  <2> DEFINE r == [c EXCEPT !.cmd = "low", !.port = "selType"]
  <2>1. ec' = [ec EXCEPT !.hi = HighByte(Offset(c))] /\ Set(t, r)
    BY <1>1, <1>3 DEF OutOffset, EcOut, EcState
  <2>2. r \in Call /\ CallInv(r) /\ r.fd = c.fd /\ r.pc = "port" /\ Offset(r) = Offset(c)
    BY <1>1 DEF Call, CallInv, Working, Offset
  <2>3. ec' \in EcType
    BY <1>1, <1>2, <2>1 DEF EcType
  <2>4. EcState(r, ec')
    BY <1>1, <2>1, <2>2 DEF EcState, EcType, Call
  <2> HIDE DEF r
  <2> QED BY <1>1, <2>1, <2>2, <2>3, <2>4, PortStep DEF EcType
<1>4. CASE c.cmd = "low"
  <2> DEFINE r == [c EXCEPT !.cmd = "value", !.port = "selType"]
  <2>1. ec' = [ec EXCEPT !.lo = LowByte(Offset(c))] /\ Set(t, r)
    BY <1>1, <1>4 DEF OutOffset, EcOut, EcState
  <2>2. r \in Call /\ CallInv(r) /\ r.fd = c.fd /\ r.pc = "port" /\ Offset(r) = Offset(c)
    BY <1>1 DEF Call, CallInv, Working, Offset
  <2>3. ec' \in EcType
    BY <1>1, <1>2, <2>1 DEF EcType
  <2>4. EcState(r, ec')
    BY <1>1, <1>4, <2>1, <2>2 DEF EcState, EcType, Call
  <2> HIDE DEF r
  <2> QED BY <1>1, <2>1, <2>2, <2>3, <2>4, PortStep DEF EcType
<1> QED BY <1>3, <1>4 DEF OutOffset

\* write_value and read_value.
LEMMA ValueSteps ==
    ASSUME IInv, NEW t \in Thread, OutValue(t) \/ InValue(t)
    PROVE  IInv'
<1> DEFINE c == call[t]
           r == [c EXCEPT !.pc = "unlock"]
<1>1. /\ c \in Call /\ CallInv(c) /\ EcState(c, ec) /\ c.pc = "port" /\ c.port = "arg"
      /\ c.cmd = "value" /\ buffer \in [Index -> Byte] /\ ec \in EcType
      /\ Set(t, r) /\ UNCHANGED <<loaded, config, mtx>>
  BY AtPorts DEF OutValue, InValue, EcType
<1>2. ec.latch = "arg" /\ ec.type = "value"
  BY <1>1 DEF EcState
<1>3. r \in Call /\ CallInv(r) /\ r.fd = c.fd /\ r.pc = "unlock" /\ Offset(r) = Offset(c)
  BY <1>1 DEF Call, CallInv, Working, Offset, Transfer
<1>4. CASE OutValue(t)
  <2>1. ec' = [ec EXCEPT !.ram = [ec.ram EXCEPT ![<<ec.hi, ec.lo>>] = c.val]] /\ buffer' = buffer
    BY <1>2, <1>4 DEF OutValue, EcOut
  <2>2. [ec.ram EXCEPT ![<<ec.hi, ec.lo>>] = c.val] \in [High \X Low -> Byte]
    BY <1>1 DEF EcType, Call
  <2>3. ec' \in EcType
    BY <1>1, <2>1, <2>2 DEF EcType
  <2>4. EcState(r, ec')
    BY <1>1, <2>1, <1>3 DEF EcState, EcType, Call
  <2> HIDE DEF r
  <2> QED BY <1>1, <1>3, <2>1, <2>3, <2>4, PortStep DEF EcType
<1>5. CASE InValue(t)
  <2>1. buffer' \in [Index -> Byte] /\ ec' = ec
    BY <1>1, <1>5 DEF InValue, EcIn, EcType
  <2>2. EcState(r, ec')
    BY <1>1, <2>1, <1>3 DEF EcState, Call
  <2> HIDE DEF r
  <2> QED BY <1>1, <1>3, <2>1, <2>2, PortStep DEF EcType
<1> QED BY <1>4, <1>5

-----------------------------------------------------------------------------
(* The theorems *)

\* The invariant is inductive: every step of the driver preserves it.
LEMMA NextIInv == IInv /\ [Next]_vars => IInv'
<1> SUFFICES ASSUME IInv, [Next]_vars PROVE IInv'
  OBVIOUS
<1>1. CASE UNCHANGED vars
  BY <1>1 DEF vars, IInv, TypeOK, CallsInv, SessionAlive, Active, FilesInv, MutexInv, EcInv
<1>2. CASE ModuleInit \/ ModuleExit
  BY <1>2, ModuleSteps
<1>3. ASSUME NEW f \in File, Open(f) \/ Close(f) PROVE IInv'
  BY <1>3, FileSteps
<1>4. ASSUME NEW t \in Thread, NEW f \in File, NEW known \in BOOLEAN, SetType(t, f, known)
      PROVE  IInv'
  BY <1>4, SetTypeStep
<1>5. ASSUME NEW t \in Thread, NEW f \in File, NEW r \in Request, NEW accessOk \in BOOLEAN,
             BeginTransfer(t, f, r, accessOk)
      PROVE  IInv'
  BY <1>5, BeginStep
<1>6. ASSUME NEW t \in Thread, Step(t) PROVE IInv'
  BY <1>6, CopyInStep, LoadStep, CopyOutStep, LockStep, UnlockStep, SelectStep, OutTypeStep,
     OutOffsetStep, ValueSteps, EndSteps DEF Step
<1>7. ASSUME NEW t \in Thread, CopyFault(t) \/ Interrupted(t) PROVE IInv'
  BY <1>7, EndSteps
<1> QED BY <1>1, <1>2, <1>3, <1>4, <1>5, <1>6, <1>7 DEF Next, Action

\* The inductive invariant holds in every state the driver can reach.
THEOREM Invariance == Spec => []IInv
BY InitIInv, NextIInv, PTL DEF Spec

\* The driver's state keeps its type.
THEOREM TypeCorrect == Spec => []TypeOK
BY Invariance, PTL DEF IInv

\* A transfer the ioctl accepted never leaves the buffer or the address space.
THEOREM BoundsTheorem == Spec => []TransferInBounds
<1>1. IInv => TransferInBounds
  BY DEF IInv, CallsInv, CallInv, TransferInBounds, Active, Transfer, Working
<1> QED BY <1>1, Invariance, PTL

\* No ioctl runs on a freed session or an unloaded module.
THEOREM SessionTheorem == Spec => []SessionAlive
BY Invariance, PTL DEF IInv

\* Every value access reaches the EC with the caller's own address set up.
THEOREM AccessTheorem == Spec => []AccessHitsTarget
<1>1. ASSUME IInv, NEW t \in Thread, call[t].pc = "port", call[t].cmd = "value",
             call[t].port = "arg"
      PROVE  /\ ec.latch = "arg" /\ ec.type = "value"
             /\ LowSize * ec.hi + ec.lo = call[t].off + call[t].i
  <2>1. EcState(call[t], ec) /\ Offset(call[t]) \in Addr /\ Offset(call[t]) = call[t].off + call[t].i
    BY <1>1, AtPorts
  <2>2. ec.hi = HighByte(Offset(call[t])) /\ ec.lo = LowByte(Offset(call[t]))
        /\ ec.latch = "arg" /\ ec.type = "value"
    BY <1>1, <2>1 DEF EcState
  <2> QED BY <2>1, <2>2, SplitAddress
<1>2. IInv => AccessHitsTarget
  BY <1>1 DEF AccessHitsTarget
<1> QED BY <1>2, Invariance, PTL

\* The value access of a write stores at the cell of offset + i.
LEMMA OutValueEffect ==
    ASSUME IInv, NEW t \in Thread, OutValue(t)
    PROVE  /\ call[t].off + call[t].i \in Addr
           /\ ec'.ram = [ec.ram EXCEPT ![CellOf(call[t].off + call[t].i)] = call[t].val]
<1>1. call[t].pc = "port" /\ call[t].port = "arg" /\ call[t].cmd = "value"
  BY DEF OutValue
<1>2. /\ EcState(call[t], ec) /\ Offset(call[t]) = call[t].off + call[t].i
      /\ Offset(call[t]) \in Addr /\ ec \in EcType
  BY <1>1, AtPorts DEF EcType
<1>3. ec.latch = "arg" /\ ec.type = "value" /\ <<ec.hi, ec.lo>> = CellOf(call[t].off + call[t].i)
  BY <1>1, <1>2, SplitAddress DEF EcState
<1>4. ec' = [ec EXCEPT !.ram = [ec.ram EXCEPT ![<<ec.hi, ec.lo>>] = call[t].val]]
  BY <1>3 DEF OutValue, EcOut
<1> QED BY <1>2, <1>3, <1>4 DEF EcType

\* The accesses before the value leave the RAM alone.
LEMMA PortsKeepRam ==
    ASSUME IInv, NEW t \in Thread, SelectReg(t) \/ OutType(t) \/ OutOffset(t)
    PROVE  ec'.ram = ec.ram
<1>1. ec \in EcType /\ EcState(call[t], ec)
  BY AtPorts DEF SelectReg, OutType, OutOffset, EcType
<1>2. CASE SelectReg(t)
  BY <1>1, <1>2 DEF SelectReg, EcSelect, EcType
<1>3. CASE OutType(t)
  <2>1. ec.latch = "type"
    BY <1>1, <1>3 DEF OutType, EcState
  <2> QED BY <1>1, <1>3, <2>1 DEF OutType, EcOut, EcType
<1>4. CASE OutOffset(t)
  <2>1. ec.latch = "arg" /\ ec.type = call[t].cmd
    BY <1>1, <1>4 DEF OutOffset, EcState
  <2>2. \/ ec' = [ec EXCEPT !.hi = HighByte(Offset(call[t]))]
        \/ ec' = [ec EXCEPT !.lo = LowByte(Offset(call[t]))]
    BY <1>4, <2>1 DEF OutOffset, EcOut
  <2> QED BY <1>1, <2>2 DEF EcType
<1> QED BY <1>2, <1>3, <1>4

\* No step but a value access of a write changes the RAM.
LEMMA RamFrame ==
    ASSUME IInv, Action, \A t \in Thread : ~OutValue(t)
    PROVE  ec'.ram = ec.ram
<1>1. CASE \E t \in Thread : SelectReg(t) \/ OutType(t) \/ OutOffset(t)
  BY <1>1, PortsKeepRam
<1>2. CASE ModuleInit \/ ModuleExit \/ \E f \in File : Open(f) \/ Close(f)
  BY <1>2 DEF ModuleInit, ModuleExit, Open, Close
<1>3. ASSUME NEW t \in Thread,
             \/ \E f \in File, known \in BOOLEAN : SetType(t, f, known)
             \/ \E f \in File, r \in Request, accessOk \in BOOLEAN :
                   BeginTransfer(t, f, r, accessOk)
      PROVE  ec' = ec
  BY <1>3 DEF SetType, BeginTransfer
<1>4. ASSUME NEW t \in Thread,
             CopyIn(t) \/ Load(t) \/ CopyOut(t) \/ Lock(t) \/ Unlock(t) \/ InValue(t)
               \/ Return(t) \/ CopyFault(t) \/ Interrupted(t)
      PROVE  ec' = ec
  BY <1>4 DEF CopyIn, Load, CopyOut, Lock, Unlock, InValue, Return, CopyFault, Interrupted
<1> QED BY <1>1, <1>2, <1>3, <1>4 DEF Action, Step

\* The RAM changes only by the holder of the mutex, only at the byte its write
\* transfer is at, and to the byte it loaded.
THEOREM RamTheorem == Spec => RamChangesOnlyAtTarget
<1>1. ASSUME IInv, [Next]_vars PROVE [RamChange]_vars
  <2>1. CASE UNCHANGED vars
    BY <2>1
  <2>2. ASSUME NEW t \in Thread, OutValue(t) PROVE RamChange
    <3>1. mtx = t /\ call[t].op = "write"
      BY <1>1, <2>2 DEF OutValue, IInv, MutexInv
    <3> QED BY <1>1, <2>2, <3>1, OutValueEffect DEF RamChange
  <2>3. ASSUME Action, \A t \in Thread : ~OutValue(t) PROVE RamChange
    BY <1>1, <2>3, RamFrame DEF RamChange
  <2> QED BY <1>1, <2>1, <2>2, <2>3 DEF Next
<1> QED BY <1>1, Invariance, PTL DEF Spec, RamChangesOnlyAtTarget

-----------------------------------------------------------------------------
(* A transfer that nothing overlaps *)

\* The first n bytes of a transfer: in the RAM as the user has them, in the
\* buffer as the user has them, in the buffer as the RAM has them.
InRam(c, e, n)      == \A j \in 0 .. n - 1 : e.ram[CellOf(c.off + j)] = c.ubuf[j]
InBuffer(c, b, n)   == \A j \in 0 .. n - 1 : b[j] = c.ubuf[j]
Fetched(c, b, e, n) == \A j \in 0 .. n - 1 : b[j] = e.ram[CellOf(c.off + j)]

\* How far a write has come.
WriteDone(c, b, e) ==
    /\ c.pc = "copyin" => InBuffer(c, b, c.i)
    /\ c.pc \in {"load", "lock", "port", "unlock"} => InBuffer(c, b, c.len) /\ InRam(c, e, c.i)
    /\ c.pc \in {"lock", "port"} => c.val = c.ubuf[c.i]
    /\ c.pc = "unlock" => InRam(c, e, c.i + 1)

\* How far a read has come.
ReadDone(c, b, e) ==
    /\ c.pc \in {"lock", "port"} => Fetched(c, b, e, c.i)
    /\ c.pc = "unlock" => Fetched(c, b, e, c.i + 1)
    /\ c.pc = "copyout" => Fetched(c, b, e, c.len) /\ InRam(c, e, c.i)

Exact(c, b, e) ==
    /\ c.op = "write" => WriteDone(c, b, e)
    /\ c.op = "read" => ReadDone(c, b, e)
    /\ c.ret # "EINTR"
    /\ c.pc = "done" /\ c.ret = "ok" => InRam(c, e, c.len)

SoloInv(t) ==
    call[t].pc \in Transfer /\ ~overlapped[t] =>
        /\ \A u \in Thread \ {t} : call[u].pc \notin Transfer
        /\ Exact(call[t], buffer, ec)

\* Two addresses have two cells.
LEMMA CellsDiffer ==
    ASSUME NEW a \in Addr, NEW b \in Addr, CellOf(a) = CellOf(b)
    PROVE  a = b
<1>1. /\ CellOf(a) = <<HighByte(a), LowByte(a)>> /\ CellOf(b) = <<HighByte(b), LowByte(b)>>
      /\ LowSize * HighByte(a) + LowByte(a) = a
      /\ LowSize * HighByte(b) + LowByte(b) = b
  BY SplitAddress
<1>2. HighByte(a) = HighByte(b) /\ LowByte(a) = LowByte(b)
  BY <1>1 DEF CellOf
<1> QED BY <1>1, <1>2, Zenon

\* What holds of a working call's numbers.
LEMMA WorkingCall ==
    ASSUME IInv, NEW t \in Thread, call[t].pc \in Working
    PROVE  /\ call[t].i \in Nat /\ call[t].len \in Nat /\ call[t].off \in Nat
           /\ call[t].i < call[t].len /\ call[t].len <= BufferSize
           /\ \A j \in 0 .. call[t].len - 1 : j \in Index /\ call[t].off + j \in Addr
<1>1. call[t] \in Call /\ CallInv(call[t])
  BY CallTypes
<1>2. /\ call[t].i \in Nat /\ call[t].len \in Nat /\ call[t].off \in Nat
      /\ BufferSize \in Nat /\ AddrSize \in Nat
  BY <1>1, SizeAssumption, AddrSizeType DEF Call, Addr, Index
<1>3. /\ call[t].i < call[t].len /\ call[t].len <= BufferSize
      /\ call[t].off + call[t].len <= AddrSize
  BY <1>1 DEF CallInv
<1> QED BY <1>2, <1>3 DEF Index, Addr

\* The copies between user memory and the buffer.
LEMMA CopySteps ==
    ASSUME IInv, NEW t \in Thread, Exact(call[t], buffer, ec), CopyIn(t) \/ Load(t) \/ CopyOut(t)
    PROVE  Exact(call'[t], buffer', ec')
<1> DEFINE c == call[t]
<1>1. /\ c \in Call /\ CallInv(c) /\ buffer \in [Index -> Byte] /\ call \in [Thread -> Call]
      /\ c.pc \in Working /\ ec' = ec
  BY CallTypes DEF CopyIn, Load, CopyOut, Working, IInv, TypeOK
<1>2. /\ c.i \in Nat /\ c.len \in Nat /\ c.off \in Nat /\ c.i < c.len
      /\ \A j \in 0 .. c.len - 1 : j \in Index
  BY <1>1, WorkingCall
<1>3. CASE CopyIn(t)
  <2>1. c.op = "write" /\ InBuffer(c, buffer, c.i) /\ c.ret # "EINTR" /\ c.pc = "copyin"
    BY <1>1, <1>3 DEF CopyIn, CallInv, Exact, WriteDone
  <2>2. buffer' = [buffer EXCEPT ![c.i] = c.ubuf[c.i]]
    BY <1>3 DEF CopyIn
  <2>3. InBuffer(c, buffer', c.i + 1)
    BY <1>1, <1>2, <2>1, <2>2 DEF InBuffer
  <2>4. CASE c.i + 1 < c.len
    <3>1. call'[t] = [c EXCEPT !.i = c.i + 1]
      BY <1>1, <1>3, <2>4 DEF CopyIn, Set
    <3> QED BY <1>1, <2>1, <2>3, <3>1 DEF Exact, WriteDone, InBuffer, Call
  <2>5. CASE ~(c.i + 1 < c.len)
    <3>1. call'[t] = [c EXCEPT !.i = 0, !.pc = "load"]
      BY <1>1, <1>3, <2>5 DEF CopyIn, Set
    <3>2. c.len = c.i + 1
      BY <1>2, <2>5
    <3> QED BY <1>1, <2>1, <2>3, <3>1, <3>2 DEF Exact, WriteDone, InBuffer, InRam, Call
  <2> QED BY <2>4, <2>5
<1>4. CASE Load(t)
  <2>1. /\ c.op = "write" /\ InBuffer(c, buffer, c.len) /\ InRam(c, ec, c.i)
        /\ c.ret # "EINTR" /\ c.pc = "load"
    BY <1>1, <1>4 DEF Load, CallInv, Exact, WriteDone
  <2>2. call'[t] = [c EXCEPT !.val = buffer[c.i], !.pc = "lock"] /\ buffer' = buffer
    BY <1>1, <1>4 DEF Load, Set
  <2>3. buffer[c.i] = c.ubuf[c.i]
    BY <1>2, <2>1 DEF InBuffer
  <2> QED BY <1>1, <2>1, <2>2, <2>3 DEF Exact, WriteDone, InBuffer, InRam, Call
<1>5. CASE CopyOut(t)
  <2>1. /\ c.op = "read" /\ Fetched(c, buffer, ec, c.len) /\ InRam(c, ec, c.i)
        /\ c.ret # "EINTR" /\ c.pc = "copyout"
    BY <1>1, <1>5 DEF CopyOut, CallInv, Exact, ReadDone
  <2> DEFINE r == [c EXCEPT !.ubuf[c.i] = buffer[c.i]]
  <2>2. /\ r.ubuf = [c.ubuf EXCEPT ![c.i] = buffer[c.i]] /\ r.off = c.off /\ r.len = c.len
        /\ c.ubuf \in [Index -> Byte]
    BY <1>1 DEF Call
  <2>3. InRam(r, ec, c.i + 1)
    BY <1>2, <2>1, <2>2 DEF InRam, Fetched
  <2>4. buffer' = buffer
    BY <1>5 DEF CopyOut
  <2>5. CASE c.i + 1 < c.len
    <3>1. call'[t] = [c EXCEPT !.ubuf[c.i] = buffer[c.i], !.i = c.i + 1]
      BY <1>1, <1>5, <2>5 DEF CopyOut, Set
    <3>2. /\ call'[t].ubuf = r.ubuf /\ call'[t].i = c.i + 1 /\ call'[t].pc = "copyout"
          /\ call'[t].off = c.off /\ call'[t].len = c.len /\ call'[t].op = "read"
          /\ call'[t].ret = c.ret
      BY <1>1, <2>1, <3>1 DEF Call
    <3> HIDE DEF r
    <3> QED BY <1>1, <2>1, <2>2, <2>3, <2>4, <3>2 DEF Exact, ReadDone, InRam, Fetched
  <2>6. CASE ~(c.i + 1 < c.len)
    <3>1. call'[t] = [c EXCEPT !.ubuf[c.i] = buffer[c.i], !.i = 0, !.pc = "done"]
      BY <1>1, <1>5, <2>6 DEF CopyOut, Set
    <3>2. /\ call'[t].ubuf = r.ubuf /\ call'[t].i = 0 /\ call'[t].pc = "done"
          /\ call'[t].off = c.off /\ call'[t].len = c.len /\ call'[t].op = "read"
          /\ call'[t].ret = c.ret
      BY <1>1, <2>1, <3>1 DEF Call
    <3>3. c.len = c.i + 1
      BY <1>2, <2>6
    <3> HIDE DEF r
    <3> QED BY <1>1, <2>1, <2>2, <2>3, <3>2, <3>3 DEF Exact, ReadDone, InRam
  <2> QED BY <2>5, <2>6
<1> QED BY <1>3, <1>4, <1>5

\* The mutex, and the port accesses before the value.
LEMMA QuietSteps ==
    ASSUME IInv, NEW t \in Thread, Exact(call[t], buffer, ec),
           Lock(t) \/ SelectReg(t) \/ OutType(t) \/ OutOffset(t)
    PROVE  Exact(call'[t], buffer', ec')
<1> DEFINE c == call[t]
<1>1. c \in Call /\ CallInv(c) /\ call \in [Thread -> Call]
  BY CallTypes DEF IInv, TypeOK
<1>2. ec'.ram = ec.ram
  BY PortsKeepRam DEF Lock
<1>3. buffer' = buffer /\ c.pc \in {"lock", "port"}
  BY DEF Lock, SelectReg, OutType, OutOffset
<1>4. /\ call'[t].pc = "port" /\ call'[t].op = c.op /\ call'[t].off = c.off
      /\ call'[t].len = c.len /\ call'[t].i = c.i /\ call'[t].val = c.val
      /\ call'[t].ret = c.ret /\ call'[t].ubuf = c.ubuf
  <2>1. CASE Lock(t)
    BY <1>1, <2>1 DEF Lock, Set, Call
  <2>2. CASE SelectReg(t)
    BY <1>1, <2>2 DEF SelectReg, Set, Call
  <2>3. CASE OutType(t)
    BY <1>1, <2>3 DEF OutType, Set, Call
  <2>4. CASE OutOffset(t)
    <3>1. /\ c.pc = "port"
          /\ \/ call'[t] = [c EXCEPT !.cmd = "low", !.port = "selType"]
             \/ call'[t] = [c EXCEPT !.cmd = "value", !.port = "selType"]
      BY <1>1, <2>4 DEF OutOffset, Set
    <3> QED BY <1>1, <3>1 DEF Call
  <2> QED BY <2>1, <2>2, <2>3, <2>4
<1> QED BY <1>2, <1>3, <1>4 DEF Exact, WriteDone, ReadDone, InRam, InBuffer, Fetched

\* The value access moves byte i between the RAM and the buffer.
LEMMA MoveSteps ==
    ASSUME IInv, NEW t \in Thread, Exact(call[t], buffer, ec), OutValue(t) \/ InValue(t)
    PROVE  Exact(call'[t], buffer', ec')
<1> DEFINE c == call[t]
<1>1. /\ c \in Call /\ call \in [Thread -> Call] /\ buffer \in [Index -> Byte]
      /\ c.pc = "port" /\ c.port = "arg" /\ c.cmd = "value"
  BY CallTypes DEF IInv, TypeOK, OutValue, InValue
<1>2. /\ c.i \in Nat /\ c.len \in Nat /\ c.off \in Nat /\ c.i < c.len
      /\ \A j \in 0 .. c.len - 1 : j \in Index /\ c.off + j \in Addr
  BY <1>1, WorkingCall DEF Working
<1>3. /\ call'[t].pc = "unlock" /\ call'[t].op = c.op /\ call'[t].off = c.off
      /\ call'[t].len = c.len /\ call'[t].i = c.i
      /\ call'[t].ret = c.ret /\ call'[t].ubuf = c.ubuf
  BY <1>1 DEF OutValue, InValue, Set, Call
<1>4. CASE OutValue(t)
  <2>1. /\ c.op = "write" /\ c.val = c.ubuf[c.i] /\ c.ret # "EINTR"
        /\ InBuffer(c, buffer, c.len) /\ InRam(c, ec, c.i) /\ buffer' = buffer
    BY <1>1, <1>4 DEF OutValue, Exact, WriteDone
  <2>2. ec'.ram = [ec.ram EXCEPT ![CellOf(c.off + c.i)] = c.val]
    BY <1>4, OutValueEffect
  <2>3. /\ ec.ram \in [High \X Low -> Byte]
        /\ \A a \in Addr : CellOf(a) \in High \X Low
    BY SplitAddress DEF IInv, TypeOK
  <2>4. ASSUME NEW j \in 0 .. c.i PROVE ec'.ram[CellOf(c.off + j)] = c.ubuf[j]
    <3>1. c.off + j \in Addr /\ c.off + c.i \in Addr
      BY <1>2
    <3>2. CASE j = c.i
      BY <2>1, <2>2, <2>3, <3>1, <3>2
    <3>3. CASE j # c.i
      <4>1. CellOf(c.off + j) # CellOf(c.off + c.i)
        BY <1>2, <3>1, <3>3, CellsDiffer
      <4>2. j \in 0 .. c.i - 1
        BY <1>2, <3>3
      <4> QED BY <2>1, <2>2, <2>3, <3>1, <4>1, <4>2 DEF InRam
    <3> QED BY <3>2, <3>3
  <2>5. InRam(c, ec', c.i + 1) /\ InRam(c, ec', c.i)
    BY <1>2, <2>4 DEF InRam
  <2> QED BY <1>3, <2>1, <2>5 DEF Exact, WriteDone, InRam, InBuffer
<1>5. CASE InValue(t)
  <2>1. c.op = "read" /\ Fetched(c, buffer, ec, c.i) /\ c.ret # "EINTR" /\ ec' = ec
    BY <1>1, <1>5 DEF InValue, Exact, ReadDone
  <2>2. buffer' = [buffer EXCEPT ![c.i] = ec.ram[CellOf(c.off + c.i)]]
    <3>1. /\ EcState(c, ec) /\ Offset(c) = c.off + c.i /\ Offset(c) \in Addr
      BY <1>1, AtPorts
    <3>2. <<ec.hi, ec.lo>> = CellOf(c.off + c.i)
      BY <1>1, <3>1, SplitAddress DEF EcState
    <3> QED BY <1>5, <3>2 DEF InValue, EcIn
  <2>3. Fetched(c, buffer', ec, c.i + 1)
    BY <1>1, <1>2, <2>1, <2>2 DEF Fetched
  <2> QED BY <1>3, <2>1, <2>3 DEF Exact, ReadDone, Fetched
<1> QED BY <1>4, <1>5

\* The end of an iteration, and the ends of a transfer.
LEMMA IterationSteps ==
    ASSUME IInv, NEW t \in Thread, Exact(call[t], buffer, ec), Unlock(t) \/ CopyFault(t)
    PROVE  Exact(call'[t], buffer', ec')
<1> DEFINE c == call[t]
<1>1. /\ c \in Call /\ call \in [Thread -> Call] /\ buffer' = buffer /\ ec' = ec
      /\ c.pc \in Working
  BY CallTypes DEF IInv, TypeOK, Unlock, CopyFault, Working
<1>2. c.i \in Nat /\ c.len \in Nat /\ c.i < c.len
  BY <1>1, WorkingCall
<1>3. CASE CopyFault(t)
  <2>1. call'[t].pc = "done" /\ call'[t].ret = "EFAULT"
    BY <1>1, <1>3 DEF CopyFault, Set, Call
  <2> QED BY <2>1 DEF Exact, WriteDone, ReadDone
<1>4. CASE Unlock(t)
  <2>1. call'[t] = NextByte(c) /\ c.pc = "unlock"
    BY <1>1, <1>4 DEF Unlock, Set
  <2>2. /\ c.ret # "EINTR" /\ c.op \in {"read", "write"}
        /\ c.op = "write" => InBuffer(c, buffer, c.len) /\ InRam(c, ec, c.i + 1)
        /\ c.op = "read" => Fetched(c, buffer, ec, c.i + 1)
    BY <1>1, <2>1 DEF Exact, WriteDone, ReadDone, Call
  <2>3. /\ call'[t].op = c.op /\ call'[t].off = c.off /\ call'[t].len = c.len
        /\ call'[t].ret = c.ret /\ call'[t].ubuf = c.ubuf
    BY <1>1, <2>1 DEF NextByte, Call
  <2>4. CASE c.i + 1 < c.len
    <3>1. call'[t].i = c.i + 1 /\ call'[t].pc = IF c.op = "write" THEN "load" ELSE "lock"
      BY <1>1, <2>1, <2>4 DEF NextByte, Call
    <3> QED BY <1>1, <2>2, <2>3, <3>1 DEF Exact, WriteDone, ReadDone, InRam, InBuffer, Fetched
  <2>5. CASE ~(c.i + 1 < c.len)
    <3>1. call'[t].i = 0 /\ call'[t].pc = IF c.op = "write" THEN "done" ELSE "copyout"
      BY <1>1, <2>1, <2>5 DEF NextByte, Call
    <3>2. c.len = c.i + 1
      BY <1>2, <2>5
    <3> QED BY <1>1, <2>2, <2>3, <3>1, <3>2 DEF Exact, WriteDone, ReadDone, InRam, Fetched
  <2> QED BY <2>4, <2>5
<1> QED BY <1>3, <1>4

\* A transfer starts with nothing done.
LEMMA BeginExact ==
    ASSUME IInv, NEW t \in Thread, NEW f \in File, NEW q \in Request,
           NEW accessOk \in BOOLEAN, BeginTransfer(t, f, q, accessOk)
    PROVE  Exact(call'[t], buffer', ec')
<1>1. call[t] = Idle /\ call \in [Thread -> Call]
  BY CallTypes DEF BeginTransfer, CallInv, IInv, TypeOK
<1> DEFINE err == Checked(f, q.off, q.len, accessOk)
<1>2. err \in {"ok", "EINVAL", "ENODEV", "EFAULT"}
  BY DEF Checked
<1>3. q.op \in {"read", "write"}
  BY ValueAssumption DEF AecramRequest
<1>4. call'[t] = IF err # "ok" \/ q.len = 0
                 THEN [Idle EXCEPT !.pc = "done", !.fd = f, !.ret = err]
                 ELSE [Idle EXCEPT !.pc = IF q.op = "write" THEN "copyin" ELSE "lock",
                         !.fd = f, !.op = q.op, !.off = q.off, !.len = q.len, !.ubuf = q.buf]
  BY <1>1 DEF BeginTransfer, Set
<1> HIDE DEF err
<1>5. CASE err # "ok" \/ q.len = 0
  BY <1>2, <1>4, <1>5 DEF Idle, Exact, WriteDone, ReadDone, InRam
<1>6. CASE ~(err # "ok" \/ q.len = 0)
  <2>1. /\ call'[t].pc = IF q.op = "write" THEN "copyin" ELSE "lock"
        /\ call'[t].op = q.op /\ call'[t].i = 0 /\ call'[t].ret = "ok"
    BY <1>4, <1>6 DEF Idle
  <2> QED BY <1>3, <2>1 DEF Exact, WriteDone, ReadDone, InBuffer, Fetched
<1> QED BY <1>5, <1>6

\* A transfer that nothing has overlapped is exact so far.
LEMMA NextSolo ==
    ASSUME IInv, \A t \in Thread : SoloInv(t), [Next]_vars, NEW t \in Thread
    PROVE  SoloInv(t)'
<1>1. CASE UNCHANGED vars
  BY <1>1 DEF SoloInv, vars
<1>2. CASE Next
  <2> SUFFICES ASSUME call'[t].pc \in Transfer, ~overlapped'[t]
               PROVE  /\ \A u \in Thread \ {t} : call'[u].pc \notin Transfer
                      /\ Exact(call'[t], buffer', ec')
    BY DEF SoloInv
  <2>1. Action /\ RecordOverlap
    BY <1>2 DEF Next
  <2>2. ~overlapped[t] /\ \A u \in Thread \ {t} : call'[u].pc \notin Transfer
    BY <2>1 DEF RecordOverlap
  <2>3. call \in [Thread -> Call]
    BY DEF IInv, TypeOK
  <2>4. CASE call[t].pc \in Transfer
    <3>1. /\ \A u \in Thread \ {t} : call[u].pc \notin Transfer
          /\ Exact(call[t], buffer, ec)
      BY <2>2, <2>4 DEF SoloInv
    <3>2. loaded /\ config[call[t].fd] # "closed" /\ call[t].fd \in File
      BY <2>4, CallTypes DEF IInv, SessionAlive, Transfer, CallInv
    <3>3. CASE ModuleInit \/ ModuleExit
      BY <3>2, <3>3 DEF ModuleInit, ModuleExit
    <3>4. CASE \E f \in File : Open(f) \/ Close(f)
      BY <3>1, <3>4 DEF Open, Close
    <3>5. ASSUME NEW u \in Thread, NEW f \in File, NEW known \in BOOLEAN, SetType(u, f, known)
          PROVE  Exact(call'[t], buffer', ec')
      <4>1. u # t
        BY <2>4, <3>5 DEF SetType, Transfer
      <4> QED BY <2>3, <3>1, <3>5, <4>1 DEF SetType, Set
    <3>6. ASSUME NEW u \in Thread, NEW f \in File, NEW q \in Request, NEW accessOk \in BOOLEAN,
                 BeginTransfer(u, f, q, accessOk)
          PROVE  FALSE
      <4>1. u # t
        BY <2>4, <3>6 DEF BeginTransfer, Transfer
      <4>2. call'[u].pc \in Transfer
        BY <2>3, <3>6, CallTypes DEF BeginTransfer, Set, Transfer, Call
      <4> QED BY <2>2, <4>1, <4>2
    <3>7. ASSUME NEW u \in Thread, u # t, Step(u) \/ CopyFault(u) \/ Interrupted(u)
          PROVE  Exact(call'[t], buffer', ec')
      <4>1. Return(u)
        BY <3>1, <3>7 DEF Step, CopyIn, Load, CopyOut, Lock, Unlock, SelectReg, OutType,
           OutOffset, OutValue, InValue, CopyFault, Interrupted, Transfer
      <4> QED BY <2>3, <3>1, <3>7, <4>1 DEF Return, Set
    <3>8. CASE Step(t) \/ CopyFault(t)
      <4>1. ~Return(t)
        <5>1. Return(t) => call'[t].pc = "user"
          BY <2>3 DEF Return, Set, Idle
        <5> QED BY <5>1 DEF Transfer
      <4> QED BY <2>2, <3>1, <3>8, <4>1, CopySteps, QuietSteps, MoveSteps, IterationSteps DEF Step
    <3>9. CASE Interrupted(t)
      <4>1. mtx \in Thread /\ call[t].pc = "lock"
        BY <3>9 DEF Interrupted, IInv, TypeOK
      <4>2. call[mtx].pc \in {"port", "unlock"}
        BY <4>1 DEF IInv, MutexInv
      <4> QED BY <3>1, <4>1, <4>2 DEF Transfer
    <3>10. ASSUME NEW u \in Thread, Step(u) \/ CopyFault(u) \/ Interrupted(u)
           PROVE  Exact(call'[t], buffer', ec')
      BY <3>7, <3>8, <3>9, <3>10
    <3>11. Exact(call'[t], buffer', ec')
      BY <2>1, <3>3, <3>4, <3>5, <3>6, <3>10 DEF Action
    <3> QED BY <2>2, <3>11
  <2>5. CASE call[t].pc \notin Transfer
    <3>1. call'[t] # call[t]
      BY <2>5
    <3>2. ~(ModuleInit \/ ModuleExit \/ \E f \in File : Open(f) \/ Close(f))
      BY <3>1 DEF ModuleInit, ModuleExit, Open, Close
    <3>3. ASSUME NEW u \in Thread, NEW f \in File, NEW known \in BOOLEAN, SetType(u, f, known)
          PROVE  FALSE
      <4>1. u = t
        BY <2>3, <3>1, <3>3 DEF SetType, Set
      <4>2. call'[t].pc = "typed"
        BY <2>3, <3>3, <4>1, CallTypes DEF SetType, Set, Call
      <4> QED BY <4>2 DEF Transfer
    <3>4. ASSUME NEW u \in Thread, NEW f \in File, NEW q \in Request, NEW accessOk \in BOOLEAN,
                 BeginTransfer(u, f, q, accessOk)
          PROVE  Exact(call'[t], buffer', ec')
      <4>1. u = t
        BY <2>3, <3>1, <3>4 DEF BeginTransfer, Set
      <4> QED BY <3>4, <4>1, BeginExact
    <3>5. ASSUME NEW u \in Thread, Step(u) \/ CopyFault(u) \/ Interrupted(u) PROVE FALSE
      <4>1. CASE u # t
        BY <2>3, <3>1, <3>5, <4>1 DEF Step, CopyIn, Load, CopyOut, Lock, Unlock, SelectReg,
           OutType, OutOffset, OutValue, InValue, Return, CopyFault, Interrupted, Set
      <4>2. CASE u = t
        <5>1. Return(t)
          BY <2>5, <3>5, <4>2 DEF Step, CopyIn, Load, CopyOut, Lock, Unlock, SelectReg, OutType,
             OutOffset, OutValue, InValue, CopyFault, Interrupted, Transfer
        <5>2. call'[t].pc = "user"
          BY <2>3, <5>1 DEF Return, Set, Idle
        <5> QED BY <5>2 DEF Transfer
      <4> QED BY <4>1, <4>2
    <3> QED BY <2>1, <2>2, <3>2, <3>3, <3>4, <3>5 DEF Action
  <2> QED BY <2>4, <2>5
<1> QED BY <1>1, <1>2

\* A transfer that no other overlaps is exact: it is not interrupted, and a
\* success has moved every byte, through the shared buffer and the port
\* accesses (aecram_write_buffer, aecram_read_buffer).
THEOREM SoloTheorem == Spec => []SoloTransferExact
<1>1. Init => \A t \in Thread : SoloInv(t)
  BY DEF Init, SoloInv, Idle, Transfer
<1>2. (\A t \in Thread : SoloInv(t)) /\ IInv /\ [Next]_vars => (\A t \in Thread : SoloInv(t))'
  BY NextSolo
<1>3. (\A t \in Thread : SoloInv(t)) => SoloTransferExact
  BY DEF SoloInv, SoloTransferExact, Exact, InRam, Transfer
<1> QED BY <1>1, <1>2, <1>3, Invariance, PTL DEF Spec

-----------------------------------------------------------------------------
(* A transfer does not run for ever *)

\* Port accesses up to and with the value, and the release of the mutex.
PortsLeft(c) ==
    (CASE c.cmd = "high" -> 8 [] c.cmd = "low" -> 4 [] OTHER -> 0)
    + (CASE c.port = "selType" -> 4 [] c.port = "type" -> 3 [] c.port = "selArg" -> 2 [] OTHER -> 1)
    + 1

\* What is left of the byte a call is at: loading it and taking the mutex, too.
ByteLeft(c) ==
    CASE c.pc = "load" -> 15 [] c.pc = "lock" -> 14 [] c.pc = "port" -> PortsLeft(c) [] OTHER -> 1

\* A bound for the steps a call has left, the return included: 18 for each byte,
\* and one.
Work(c) ==
    CASE c.pc = "copyin"  -> 17 * c.len + (c.len - c.i) + 1
      [] c.pc \in {"load", "lock", "port", "unlock"} -> 16 * (c.len - c.i - 1) + ByteLeft(c) + c.len + 1
      [] c.pc = "copyout" -> (c.len - c.i) + 1
      [] c.pc \in {"done", "typed"} -> 1
      [] OTHER -> 0

\* Call d is call c, or nearer to its end.
Nearer(c, d) == d = c \/ Work(d) < Work(c)

\* The bound is a number, and no call has none.
LEMMA WorkType ==
    ASSUME NEW c \in Call, CallInv(c)
    PROVE  Work(c) \in 0 .. 18 * c.len + 1 /\ (c.pc # "user" => Work(c) > 0)
<1>1. c.i \in Nat /\ c.len \in Nat
  BY SizeAssumption DEF Call, Index
<1>2. PortsLeft(c) \in 2 .. 13
  BY DEF PortsLeft
<1>3. ByteLeft(c) \in 1 .. 15
  BY <1>2 DEF ByteLeft
<1>4. c.pc \in Working => c.i < c.len
  BY DEF CallInv
<1> QED BY <1>1, <1>3, <1>4 DEF Work, Working, Call, Transfer

\* Every step of the driver on a call brings it nearer to its end.
LEMMA StepNearer ==
    ASSUME IInv, NEW t \in Thread, Step(t) \/ CopyFault(t) \/ Interrupted(t)
    PROVE  Work(call'[t]) < Work(call[t]) /\ \A u \in Thread \ {t} : call'[u] = call[u]
<1> DEFINE c == call[t]
           d == call'[t]
<1>1. c \in Call /\ CallInv(c) /\ call \in [Thread -> Call]
  BY CallTypes DEF IInv, TypeOK
<1>2. \A u \in Thread \ {t} : call'[u] = call[u]
  BY <1>1 DEF Step, CopyFault, Interrupted, CopyIn, Load, CopyOut, Lock, Unlock, SelectReg,
              OutType, OutOffset, OutValue, InValue, Return, Set
<1>3. c.i \in Nat /\ c.len \in Nat /\ (c.pc \in Working => c.i < c.len)
  BY <1>1, SizeAssumption DEF Call, Index, CallInv
<1>4. c.pc # "user" => Work(c) > 0
  BY <1>1, WorkType
<1>0. ASSUME NEW r, Set(t, r) PROVE d = r
  BY <1>0, <1>1 DEF Set
<1>5. CASE CopyFault(t) \/ Interrupted(t)
  <2>0. c.pc \in {"copyin", "copyout", "lock"} /\ \E e : d = [c EXCEPT !.ret = e, !.pc = "done"]
    BY <1>0, <1>5 DEF CopyFault, Interrupted
  <2>1. d.pc = "done" /\ c.pc \in {"copyin", "copyout", "lock"}
    BY <1>1, <2>0 DEF Call
  <2>2. Work(d) = 1 /\ Work(c) > 1
    BY <1>3, <2>1 DEF Work, ByteLeft, Working
  <2> QED BY <1>2, <2>2
<1>6. CASE CopyIn(t)
  <2>1. /\ c.pc = "copyin" /\ d.len = c.len
        /\ \/ d.pc = "copyin" /\ d.i = c.i + 1
           \/ d.pc = "load" /\ d.i = 0
    BY <1>1, <1>6 DEF CopyIn, Set, Call
  <2> QED BY <1>2, <1>3, <2>1 DEF Work, ByteLeft, Working
<1>7. CASE Load(t) \/ Lock(t)
  <2>0. \/ c.pc = "load" /\ d = [c EXCEPT !.val = buffer[c.i], !.pc = "lock"]
        \/ c.pc = "lock" /\ d = [c EXCEPT !.pc = "port"]
    BY <1>0, <1>7 DEF Load, Lock
  <2>1. /\ d.len = c.len /\ d.i = c.i /\ d.cmd = c.cmd /\ d.port = c.port
        /\ \/ c.pc = "load" /\ d.pc = "lock"
           \/ c.pc = "lock" /\ d.pc = "port"
    BY <1>1, <2>0 DEF Call
  <2>2. PortsLeft(d) \in 2 .. 13
    BY DEF PortsLeft
  <2> QED BY <1>2, <1>3, <2>1, <2>2 DEF Work, ByteLeft, Working
<1>8. CASE SelectReg(t) \/ OutType(t) \/ OutOffset(t)
  <2>0. /\ c.pc = "port"
        /\ \/ c.port = "selType" /\ d = [c EXCEPT !.port = "type"]
           \/ c.port = "type" /\ d = [c EXCEPT !.port = "selArg"]
           \/ c.port = "selArg" /\ d = [c EXCEPT !.port = "arg"]
           \/ c.port = "arg" /\ c.cmd = "high" /\ d = [c EXCEPT !.cmd = "low", !.port = "selType"]
           \/ c.port = "arg" /\ c.cmd = "low" /\ d = [c EXCEPT !.cmd = "value", !.port = "selType"]
    BY <1>0, <1>8 DEF SelectReg, OutType, OutOffset
  <2> HIDE DEF c, d
  <2>1. c.pc = "port" /\ d.pc = "port" /\ d.len = c.len /\ d.i = c.i
    BY <1>1, <2>0 DEF Call
  <2>4. \/ c.port = "selType" /\ d.port = "type" /\ d.cmd = c.cmd
        \/ c.port = "type" /\ d.port = "selArg" /\ d.cmd = c.cmd
        \/ c.port = "selArg" /\ d.port = "arg" /\ d.cmd = c.cmd
        \/ c.port = "arg" /\ c.cmd = "high" /\ d.cmd = "low" /\ d.port = "selType"
        \/ c.port = "arg" /\ c.cmd = "low" /\ d.cmd = "value" /\ d.port = "selType"
    BY <1>1, <2>0 DEF Call
  <2>2. PortsLeft(d) < PortsLeft(c)
    BY <2>4 DEF PortsLeft
  <2>3. PortsLeft(d) \in 2 .. 13 /\ PortsLeft(c) \in 2 .. 13
    BY DEF PortsLeft
  <2>5. Work(d) < Work(c)
    BY <1>3, <2>1, <2>2, <2>3 DEF Work, ByteLeft, Working
  <2> QED BY <1>2, <2>5, Zenon DEF c, d
<1>9. CASE OutValue(t) \/ InValue(t)
  <2>1. c.pc = "port" /\ d.pc = "unlock" /\ d.len = c.len /\ d.i = c.i
    BY <1>1, <1>9 DEF OutValue, InValue, Set, Call
  <2>2. PortsLeft(c) \in 2 .. 13
    BY DEF PortsLeft
  <2> QED BY <1>2, <1>3, <2>1, <2>2 DEF Work, ByteLeft, Working
<1>10. CASE Unlock(t)
  <2>1. c.pc = "unlock" /\ d = NextByte(c)
    BY <1>1, <1>10 DEF Unlock, Set
  <2>2. \/ d.pc \in {"load", "lock"} /\ d.i = c.i + 1 /\ d.len = c.len /\ c.i + 1 < c.len
        \/ d.pc = "copyout" /\ d.i = 0 /\ d.len = c.len
        \/ d.pc = "done"
    BY <1>1, <1>3, <2>1 DEF NextByte, Call
  <2> QED BY <1>2, <1>3, <2>1, <2>2 DEF Work, ByteLeft, Working
<1>11. CASE CopyOut(t)
  <2>1. /\ c.pc = "copyout"
        /\ \/ d.pc = "copyout" /\ d.i = c.i + 1 /\ d.len = c.len
           \/ d.pc = "done"
    BY <1>1, <1>11 DEF CopyOut, Set, Call
  <2> QED BY <1>2, <1>3, <2>1 DEF Work, Working
<1>12. CASE Return(t)
  <2>1. c.pc # "user" /\ d = Idle
    BY <1>1, <1>12 DEF Return, Set
  <2>2. Work(d) = 0
    BY <2>1 DEF Work, Idle
  <2> QED BY <1>2, <1>4, <2>1, <2>2
<1> QED BY <1>5, <1>6, <1>7, <1>8, <1>9, <1>10, <1>11, <1>12 DEF Step

\* The safety half of TransferReturns, from aecram_write_buffer down to the ports:
\* a call that has begun has at most 18 steps for each of its bytes, and whatever
\* else happens none of them is ever taken back: no loop of the driver is endless.
THEOREM StepsRunOut ==
    Spec => /\ [](\A t \in Thread : Work(call[t]) \in 0 .. 18 * call[t].len + 1)
            /\ [][\A t \in Thread : call[t].pc # "user" => Nearer(call[t], call'[t])]_vars
<1>1. ASSUME IInv, [Next]_vars
      PROVE  [\A t \in Thread : call[t].pc # "user" => Nearer(call[t], call'[t])]_vars
  <2> SUFFICES ASSUME Action, NEW t \in Thread, call[t].pc # "user"
               PROVE  Nearer(call[t], call'[t])
    BY <1>1 DEF Next
  <2>1. CASE ModuleInit \/ ModuleExit \/ \E f \in File : Open(f) \/ Close(f)
    BY <2>1 DEF ModuleInit, ModuleExit, Open, Close, Nearer
  <2>2. ASSUME NEW u \in Thread,
               \/ \E f \in File, known \in BOOLEAN : SetType(u, f, known)
               \/ \E f \in File, r \in Request, accessOk \in BOOLEAN :
                     BeginTransfer(u, f, r, accessOk)
        PROVE  Nearer(call[t], call'[t])
    <3>1. call[u].pc = "user" /\ \E r : Set(u, r)
      BY <2>2 DEF SetType, BeginTransfer
    <3> QED BY <1>1, <3>1 DEF Set, Nearer, IInv, TypeOK
  <2>3. ASSUME NEW u \in Thread, Step(u) \/ CopyFault(u) \/ Interrupted(u)
        PROVE  Nearer(call[t], call'[t])
    BY <1>1, <2>3, StepNearer DEF Nearer
  <2> QED BY <2>1, <2>2, <2>3 DEF Action
<1>2. IInv => \A t \in Thread : Work(call[t]) \in 0 .. 18 * call[t].len + 1
  BY CallTypes, WorkType
<1> QED BY <1>1, <1>2, Invariance, PTL DEF Spec

\* A thread that cannot take the mutex waits for one that is at the ports or
\* about to release it.
WaitsForPorts ==
    \A t \in Thread : call[t].pc = "lock" /\ mtx # NoOne =>
        mtx \in Thread /\ mtx # t /\ call[mtx].pc \in {"port", "unlock"}

\* Who waits, waits for the mutex alone, and who has it waits for nothing: the
\* threads of the driver never wait for each other in a circle.
THEOREM NoCircularWait == Spec => []WaitsForPorts
<1>1. IInv => WaitsForPorts
  BY DEF IInv, TypeOK, MutexInv, WaitsForPorts
<1> QED BY <1>1, Invariance, PTL

=============================================================================
