----------------------------- MODULE AecramBytes -----------------------------
(***************************************************************************)
(* What the aecram driver promises, without mutex, ports or sessions: a    *)
(* transfer moves its bytes one at a time, and each byte moves atomically  *)
(* between the shared buffer and the RAM at exactly offset + i.  Nothing   *)
(* is promised about a transfer as a whole: the buffer is shared, so the   *)
(* bytes of transfers in progress at the same time mix.                    *)
(***************************************************************************)
EXTENDS Integers

CONSTANTS Thread, AddrSize, BufferSize, Byte, ZeroByte, Request

VARIABLES
    buffer,     \* the bytes in transit
    ram,        \* the EC's RAM, by address
    xfer        \* per thread: the transfer it is in

vars == <<buffer, ram, xfer>>

Index == 0 .. BufferSize - 1
ZeroBuffer == [j \in Index |-> ZeroByte]

NoTransfer == [pc |-> "idle", op |-> "read", off |-> 0, len |-> 0, i |-> 0,
               val |-> ZeroByte, ret |-> "ok", ubuf |-> ZeroBuffer]

Set(t, r) == xfer' = [xfer EXCEPT ![t] = r]

Init ==
    /\ buffer = ZeroBuffer
    /\ ram \in [0 .. AddrSize - 1 -> Byte]
    /\ xfer = [t \in Thread |-> NoTransfer]

\* The driver is loaded or unloaded, with no transfer in progress.
Reset ==
    /\ \A t \in Thread : xfer[t] = NoTransfer
    /\ buffer' = ZeroBuffer
    /\ UNCHANGED <<ram, xfer>>

\* A request for a non-empty range inside the address space is accepted ...
Accept(t, r) ==
    /\ xfer[t].pc = "idle"
    /\ r.len \in 1 .. BufferSize
    /\ r.off + r.len <= AddrSize
    /\ Set(t, [pc |-> IF r.op = "write" THEN "copyin" ELSE "byte", op |-> r.op,
               off |-> r.off, len |-> r.len, i |-> 0, val |-> ZeroByte,
               ret |-> "ok", ubuf |-> r.buf])
    /\ UNCHANGED <<buffer, ram>>

\* ... and any call may end at once, without touching anything.
Refuse(t) ==
    /\ xfer[t].pc = "idle"
    /\ \E e \in {"ok", "EINVAL", "ENODEV", "EFAULT"} :
         Set(t, [NoTransfer EXCEPT !.pc = "done", !.ret = e])
    /\ UNCHANGED <<buffer, ram>>

CopyIn(t) ==
    LET x == xfer[t] IN
    /\ x.pc = "copyin"
    /\ buffer' = [buffer EXCEPT ![x.i] = x.ubuf[x.i]]
    /\ Set(t, IF x.i + 1 < x.len THEN [x EXCEPT !.i = x.i + 1]
                                 ELSE [x EXCEPT !.i = 0, !.pc = "load"])
    /\ UNCHANGED ram

Load(t) ==
    LET x == xfer[t] IN
    /\ x.pc = "load"
    /\ Set(t, [x EXCEPT !.val = buffer[x.i], !.pc = "byte"])
    /\ UNCHANGED <<buffer, ram>>

\* Where a transfer is once its byte i has moved.
Advance(x) ==
    IF x.i + 1 < x.len
    THEN [x EXCEPT !.i = x.i + 1, !.val = ZeroByte,
                   !.pc = IF x.op = "write" THEN "load" ELSE "byte"]
    ELSE [x EXCEPT !.i = 0, !.val = ZeroByte,
                   !.pc = IF x.op = "write" THEN "done" ELSE "copyout"]

MoveByte(t) ==
    LET x == xfer[t] IN
    /\ x.pc = "byte"
    /\ \/ /\ x.op = "write"
          /\ ram' = [ram EXCEPT ![x.off + x.i] = x.val]
          /\ UNCHANGED buffer
       \/ /\ x.op = "read"
          /\ buffer' = [buffer EXCEPT ![x.i] = ram[x.off + x.i]]
          /\ UNCHANGED ram
    /\ Set(t, Advance(x))

\* A transfer may end between two bytes.
Interrupted(t) ==
    /\ xfer[t].pc = "byte"
    /\ Set(t, [xfer[t] EXCEPT !.pc = "done", !.ret = "EINTR"])
    /\ UNCHANGED <<buffer, ram>>

CopyOut(t) ==
    LET x == xfer[t] IN
    /\ x.pc = "copyout"
    /\ Set(t, IF x.i + 1 < x.len
                THEN [x EXCEPT !.ubuf[x.i] = buffer[x.i], !.i = x.i + 1]
                ELSE [x EXCEPT !.ubuf[x.i] = buffer[x.i], !.i = 0, !.pc = "done"])
    /\ UNCHANGED <<buffer, ram>>

CopyFault(t) ==
    /\ xfer[t].pc \in {"copyin", "copyout"}
    /\ Set(t, [xfer[t] EXCEPT !.pc = "done", !.ret = "EFAULT"])
    /\ UNCHANGED <<buffer, ram>>

Return(t) ==
    /\ xfer[t].pc = "done"
    /\ Set(t, NoTransfer)
    /\ UNCHANGED <<buffer, ram>>

Next ==
    \/ Reset
    \/ \E t \in Thread :
         \/ \E r \in Request : Accept(t, r)
         \/ Refuse(t)
         \/ CopyIn(t) \/ Load(t) \/ MoveByte(t) \/ Interrupted(t)
         \/ CopyOut(t) \/ CopyFault(t) \/ Return(t)

Spec == Init /\ [][Next]_vars

=============================================================================
