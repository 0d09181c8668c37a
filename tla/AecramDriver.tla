---------------------------- MODULE AecramDriver ----------------------------
(***************************************************************************)
(* The aecram kernel driver: a misc device through which user space reads  *)
(* and writes the RAM of an auxiliary embedded controller (EC).            *)
(*                                                                         *)
(* Threads issue ioctls on open files.  A transfer goes through ONE buffer *)
(* shared by all files, copied from or to user space without any lock, and *)
(* accesses the EC byte by byte; each byte takes the driver's mutex and    *)
(* performs three commands (high offset, low offset, value) of four port   *)
(* accesses each.  Every port access, every byte copied and every lock     *)
(* operation is one step, so the steps of two ioctls interleave as they do *)
(* on two CPUs.                                                            *)
(*                                                                         *)
(* A RAM cell is named by its high and low offset byte, as the EC sees it. *)
(* The widths are constants (256 values of each offset byte, 8-bit lengths,*)
(* a 64-byte buffer and 32-bit unsigned arithmetic in the code).           *)
(***************************************************************************)
EXTENDS Integers

CONSTANTS
    Thread,     \* the user space threads that call into the driver
    File,       \* the open file descriptions of /dev/aecram
    HighSize,   \* number of values of the high offset byte (256 in the code)
    LowSize,    \* number of values of the low offset byte (256)
    BufferSize, \* AECRAM_BUFFER_SIZE (64)
    LenMax,     \* largest value of the length field, a u8 (255)
    UIntMod,    \* unsigned arithmetic is modulo this (2^32)
    Byte,       \* the values of a byte
    ZeroByte,   \* the byte 0
    Request,    \* what user space passes to IOCTL_AECRAM_READ and _WRITE
    NoOne       \* the owner of a free mutex, the file of an idle thread

AddrSize == HighSize * LowSize

ASSUME SizeAssumption ==
    /\ HighSize \in Nat \ {0}
    /\ LowSize \in Nat \ {0}
    /\ BufferSize \in Nat \ {0}
    /\ LenMax \in Nat
    /\ UIntMod \in Nat
    /\ UIntMod > AddrSize + LenMax

High  == 0 .. HighSize - 1
Low   == 0 .. LowSize - 1
Addr  == 0 .. AddrSize - 1
Index == 0 .. BufferSize - 1

\* The ioctl and its struct aecram_request.
AecramRequest == [op: {"read", "write"}, off: Addr, len: 0 .. LenMax, buf: [Index -> Byte]]

ASSUME ValueAssumption ==
    /\ ZeroByte \in Byte
    /\ Request \subseteq AecramRequest
    /\ NoOne \notin Thread
    /\ NoOne \notin File

VARIABLES
    loaded,     \* the module is loaded and its device registered
    config,     \* per file: "closed", "none" (config is NULL) or "ayaneo"
    buffer,     \* data.buffer, the bounce buffer of every transfer
    mtx,        \* the thread that holds data.mtx, or NoOne
    call,       \* per thread: the ioctl it is in
    ec,         \* the EC: selected register, command type, offsets, RAM
    overlapped  \* history, per thread: another transfer has been in progress
                \* since this thread's transfer began

vars == <<loaded, config, buffer, mtx, call, ec, overlapped>>

ZeroBuffer == [j \in Index |-> ZeroByte]

\* The part of an ioctl in which it runs a transfer.
Transfer == {"copyin", "load", "lock", "port", "unlock", "copyout", "done"}

\* A thread that is in no ioctl.  Its fields: where it is; the file; the kind
\* of transfer; the locals offset and length; the loop variable; the argument
\* val of aecram_write; the command and the port access of it that come next;
\* the result; req->buffer in user memory.
Idle == [pc |-> "user", fd |-> NoOne, op |-> "read", off |-> 0, len |-> 0,
         i |-> 0, val |-> ZeroByte, cmd |-> "high", port |-> "selType",
         ret |-> "ok", ubuf |-> ZeroBuffer]

Set(t, r) == call' = [call EXCEPT ![t] = r]

-----------------------------------------------------------------------------
(* Arithmetic of the code *)

\* The value of an expression of type unsigned.
Unsigned(n) == n % UIntMod

\* Mutant of is_valid_param: the end one too far.
EndOffByOneMutant(offset, length) ==
    /\ ~(Unsigned(offset + length - 1) > AddrSize)
    /\ ~(length > BufferSize)

\* is_valid_param.  Offset 0 with length 0 wraps around and is refused; any
\* other offset accepts length 0.
IsValidParam(offset, length) ==
    /\ ~(Unsigned(offset + length - 1) > AddrSize - 1)
    /\ ~(length > BufferSize)

\* The u16 argument offset + i of aecram_write and aecram_read.
Offset(c) == (c.off + c.i) % AddrSize

\* Mutant: the low bits of the offset.
UnshiftedMutant(a) == a % HighSize

HighByte(a) == (a \div LowSize) % HighSize
LowByte(a)  == a % LowSize

-----------------------------------------------------------------------------
(* The EC behind the address and the data port, as the driver uses it *)

\* outb(reg, addr_port)
EcSelect(e, reg) == [e EXCEPT !.latch = reg]

\* outb(v, data_port): sets the command type, or runs the command on v
EcOut(e, v) ==
    CASE e.latch = "type" -> [e EXCEPT !.type = v]
      [] e.latch = "arg" /\ e.type = "high"  -> [e EXCEPT !.hi = v]
      [] e.latch = "arg" /\ e.type = "low"   -> [e EXCEPT !.lo = v]
      [] e.latch = "arg" /\ e.type = "value" -> [e EXCEPT !.ram[<<e.hi, e.lo>>] = v]

\* inb(data_port)
EcIn(e) == e.ram[<<e.hi, e.lo>>]

-----------------------------------------------------------------------------
(* Loading and unloading, opening and closing *)

Init ==
    /\ loaded = FALSE
    /\ config = [f \in File |-> "closed"]
    /\ buffer = ZeroBuffer
    /\ mtx = NoOne
    /\ call = [t \in Thread |-> Idle]
    /\ ec \in [latch: {"arg"}, type: {"value"}, hi: {0}, lo: {0},
               ram: [High \X Low -> Byte]]
    /\ overlapped = [t \in Thread |-> FALSE]

\* aecram_init: clears data, then registers the device, which may fail.
ModuleInit ==
    /\ ~loaded
    /\ buffer' = ZeroBuffer
    /\ mtx' = NoOne
    /\ loaded' \in BOOLEAN
    /\ UNCHANGED <<config, call, ec>>

\* aecram_exit: an open file holds a reference on the module (fops.owner), so
\* it runs only when every file is closed.
ModuleExit ==
    /\ loaded
    /\ \A f \in File : config[f] = "closed"
    /\ mtx = NoOne
    /\ loaded' = FALSE
    /\ buffer' = ZeroBuffer
    /\ UNCHANGED <<config, mtx, call, ec>>

\* aecram_open: a new session has no config.  (A failing kzalloc opens nothing.)
Open(f) ==
    /\ loaded
    /\ config[f] = "closed"
    /\ config' = [config EXCEPT ![f] = "none"]
    /\ UNCHANGED <<loaded, buffer, mtx, call, ec>>

\* Mutant: a file is released under a running ioctl.
ReleaseBusyMutant(f) ==
    /\ config[f] # "closed"
    /\ config' = [config EXCEPT ![f] = "closed"]
    /\ UNCHANGED <<loaded, buffer, mtx, call, ec>>

\* aecram_close: release runs once no ioctl on the file is in progress.
Close(f) ==
    /\ config[f] # "closed"
    /\ \A t \in Thread : call[t].fd # f
    /\ config' = [config EXCEPT ![f] = "closed"]
    /\ UNCHANGED <<loaded, buffer, mtx, call, ec>>

-----------------------------------------------------------------------------
(* aecram_unlocked_ioctl *)

\* IOCTL_AECRAM_SET_TYPE with AECRAM_TYPE_AYANEO (known), and what returns
\* -EINVAL at once: any other type and any unknown command.
SetType(t, f, known) ==
    /\ call[t].pc = "user"
    /\ config[f] # "closed"
    /\ config' = IF known THEN [config EXCEPT ![f] = "ayaneo"] ELSE config
    /\ Set(t, [call[t] EXCEPT !.pc = "typed", !.fd = f,
                              !.ret = IF known THEN "ok" ELSE "EINVAL"])
    /\ UNCHANGED <<loaded, buffer, mtx, ec>>

\* The checks of READ and WRITE.  A fault of __get_user is not checked: it
\* yields 0, which is among the values of offset and length.
Checked(f, offset, length, accessOk) ==
    IF config[f] = "none" THEN "ENODEV"
    ELSE IF ~accessOk THEN "EFAULT"
    ELSE IF ~IsValidParam(offset, length) THEN "EINVAL"
    ELSE "ok"

\* IOCTL_AECRAM_READ and IOCTL_AECRAM_WRITE up to the first access to the
\* shared buffer or the EC, if the checks pass and there are bytes to move.
BeginTransfer(t, f, r, accessOk) ==
    LET err == Checked(f, r.off, r.len, accessOk) IN
    /\ call[t].pc = "user"
    /\ config[f] # "closed"
    /\ Set(t, IF err # "ok" \/ r.len = 0
                THEN [call[t] EXCEPT !.pc = "done", !.fd = f, !.ret = err]
                ELSE [call[t] EXCEPT !.pc = IF r.op = "write" THEN "copyin" ELSE "lock",
                        !.fd = f, !.op = r.op, !.off = r.off, !.len = r.len, !.ubuf = r.buf])
    /\ UNCHANGED <<loaded, config, buffer, mtx, ec>>

\* __copy_from_user, one byte.
CopyIn(t) ==
    LET c == call[t] IN
    /\ c.pc = "copyin"
    /\ buffer' = [buffer EXCEPT ![c.i] = c.ubuf[c.i]]
    /\ Set(t, IF c.i + 1 < c.len THEN [c EXCEPT !.i = c.i + 1]
                                 ELSE [c EXCEPT !.i = 0, !.pc = "load"])
    /\ UNCHANGED <<loaded, config, mtx, ec>>

\* __copy_from_user or __copy_to_user faults; the bytes before stay copied.
CopyFault(t) ==
    /\ call[t].pc \in {"copyin", "copyout"}
    /\ Set(t, [call[t] EXCEPT !.ret = "EFAULT", !.pc = "done"])
    /\ UNCHANGED <<loaded, config, buffer, mtx, ec>>

\* The argument d->buffer[i] of aecram_write, read before the mutex is taken.
Load(t) ==
    LET c == call[t] IN
    /\ c.pc = "load"
    /\ Set(t, [c EXCEPT !.val = buffer[c.i], !.pc = "lock"])
    /\ UNCHANGED <<loaded, config, buffer, mtx, ec>>

\* Mutant: -EINTR from a mutex that is free.
EagerInterruptMutant(t) ==
    /\ call[t].pc = "lock"
    /\ Set(t, [call[t] EXCEPT !.ret = "EINTR", !.pc = "done"])
    /\ UNCHANGED <<loaded, config, buffer, mtx, ec>>

\* mutex_lock_interruptible takes a free mutex, signal or not ...
Lock(t) ==
    /\ call[t].pc = "lock"
    /\ mtx = NoOne
    /\ mtx' = t
    /\ Set(t, [call[t] EXCEPT !.pc = "port"])
    /\ UNCHANGED <<loaded, config, buffer, ec>>

\* ... and returns -EINTR if a signal arrives while it waits, which ends the
\* transfer after the i bytes done so far.
Interrupted(t) ==
    /\ call[t].pc = "lock"
    /\ mtx # NoOne
    /\ Set(t, [call[t] EXCEPT !.ret = "EINTR", !.pc = "done"])
    /\ UNCHANGED <<loaded, config, buffer, mtx, ec>>

-----------------------------------------------------------------------------
(* offset_high, offset_low, write_value and read_value: three commands, each *)
(* the four port accesses of cmd_out or cmd_in                               *)

\* outb(cmd_reg + 0, addr_port) and outb(cmd_reg + 1, addr_port)
SelectReg(t) ==
    LET c == call[t] IN
    /\ c.pc = "port"
    /\ \/ /\ c.port = "selType"
          /\ ec' = EcSelect(ec, "type")
          /\ Set(t, [c EXCEPT !.port = "type"])
       \/ /\ c.port = "selArg"
          /\ ec' = EcSelect(ec, "arg")
          /\ Set(t, [c EXCEPT !.port = "arg"])
    /\ UNCHANGED <<loaded, config, buffer, mtx>>

\* outb(cmd_type, data_port)
OutType(t) ==
    LET c == call[t] IN
    /\ c.pc = "port" /\ c.port = "type"
    /\ ec' = EcOut(ec, c.cmd)
    /\ Set(t, [c EXCEPT !.port = "selArg"])
    /\ UNCHANGED <<loaded, config, buffer, mtx>>

\* outb(cmd_arg, data_port) of the two offset commands
OutOffset(t) ==
    LET c == call[t] IN
    /\ c.pc = "port" /\ c.port = "arg"
    /\ \/ /\ c.cmd = "high"
          /\ ec' = EcOut(ec, HighByte(Offset(c)))
          /\ Set(t, [c EXCEPT !.cmd = "low", !.port = "selType"])
       \/ /\ c.cmd = "low"
          /\ ec' = EcOut(ec, LowByte(Offset(c)))
          /\ Set(t, [c EXCEPT !.cmd = "value", !.port = "selType"])
    /\ UNCHANGED <<loaded, config, buffer, mtx>>

\* Mutant: the value is read from the shared buffer again.
LateLoadMutant(t) ==
    LET c == call[t] IN
    /\ c.pc = "port" /\ c.port = "arg" /\ c.cmd = "value" /\ c.op = "write"
    /\ ec' = EcOut(ec, buffer[c.i])
    /\ Set(t, [c EXCEPT !.pc = "unlock"])
    /\ UNCHANGED <<loaded, config, buffer, mtx>>

\* write_value: outb(val, data_port)
OutValue(t) ==
    LET c == call[t] IN
    /\ c.pc = "port" /\ c.port = "arg" /\ c.cmd = "value" /\ c.op = "write"
    /\ ec' = EcOut(ec, c.val)
    /\ Set(t, [c EXCEPT !.pc = "unlock"])
    /\ UNCHANGED <<loaded, config, buffer, mtx>>

\* read_value: inb(data_port), into the shared buffer
InValue(t) ==
    LET c == call[t] IN
    /\ c.pc = "port" /\ c.port = "arg" /\ c.cmd = "value" /\ c.op = "read"
    /\ buffer' = [buffer EXCEPT ![c.i] = EcIn(ec)]
    /\ Set(t, [c EXCEPT !.pc = "unlock"])
    /\ UNCHANGED <<loaded, config, mtx, ec>>

-----------------------------------------------------------------------------
\* Mutant: the argument val is not evaluated anew.
StaleValueMutant(c) ==
    IF c.i + 1 < c.len
    THEN [c EXCEPT !.i = c.i + 1, !.pc = "lock", !.cmd = "high", !.port = "selType"]
    ELSE [c EXCEPT !.i = 0, !.pc = IF c.op = "write" THEN "done" ELSE "copyout",
                   !.val = ZeroByte, !.cmd = "high", !.port = "selType"]

\* The next iteration of aecram_write_buffer or aecram_read_buffer, or what
\* follows the loop.
NextByte(c) ==
    IF c.i + 1 < c.len
    THEN [c EXCEPT !.i = c.i + 1, !.pc = IF c.op = "write" THEN "load" ELSE "lock",
                   !.val = ZeroByte, !.cmd = "high", !.port = "selType"]
    ELSE [c EXCEPT !.i = 0, !.pc = IF c.op = "write" THEN "done" ELSE "copyout",
                   !.val = ZeroByte, !.cmd = "high", !.port = "selType"]

\* Mutant: the mutex stays locked.
ForgottenUnlockMutant(t) ==
    /\ call[t].pc = "unlock"
    /\ Set(t, NextByte(call[t]))
    /\ UNCHANGED <<loaded, config, buffer, mtx, ec>>

\* mutex_unlock
Unlock(t) ==
    /\ call[t].pc = "unlock"
    /\ mtx' = NoOne
    /\ Set(t, NextByte(call[t]))
    /\ UNCHANGED <<loaded, config, buffer, ec>>

\* __copy_to_user, one byte.
CopyOut(t) ==
    LET c == call[t] IN
    /\ c.pc = "copyout"
    /\ Set(t, IF c.i + 1 < c.len
                THEN [c EXCEPT !.ubuf[c.i] = buffer[c.i], !.i = c.i + 1]
                ELSE [c EXCEPT !.ubuf[c.i] = buffer[c.i], !.i = 0, !.pc = "done"])
    /\ UNCHANGED <<loaded, config, buffer, mtx, ec>>

\* The ioctl returns to user space.
Return(t) ==
    /\ call[t].pc \in {"done", "typed"}
    /\ Set(t, Idle)
    /\ UNCHANGED <<loaded, config, buffer, mtx, ec>>

\* What the driver does by itself once an ioctl runs.
Step(t) ==
    \/ CopyIn(t) \/ Load(t) \/ CopyOut(t)
    \/ Lock(t) \/ Unlock(t)
    \/ SelectReg(t) \/ OutType(t) \/ OutOffset(t) \/ OutValue(t) \/ InValue(t)
    \/ Return(t)

Action ==
    \/ ModuleInit \/ ModuleExit
    \/ \E f \in File : Open(f) \/ Close(f)
    \/ \E t \in Thread :
         \/ \E f \in File, known \in BOOLEAN : SetType(t, f, known)
         \/ \E f \in File, r \in Request, accessOk \in BOOLEAN : BeginTransfer(t, f, r, accessOk)
         \/ Step(t)
         \/ CopyFault(t) \/ Interrupted(t)

\* The history variable, which no action reads.
RecordOverlap ==
    overlapped' = [t \in Thread |->
        /\ call'[t].pc \in Transfer
        /\ overlapped[t] \/ \E u \in Thread \ {t} : call'[u].pc \in Transfer]

Next == Action /\ RecordOverlap

Spec == Init /\ [][Next]_vars

\* A running ioctl goes on, and the kernel's mutex starves no waiter.
Fairness == \A t \in Thread :
    /\ WF_vars(Step(t) /\ RecordOverlap)
    /\ SF_vars(Lock(t) /\ RecordOverlap)

FairSpec == Spec /\ Fairness

-----------------------------------------------------------------------------
(* Properties *)

Call == [pc: Transfer \cup {"user", "typed"}, fd: File \cup {NoOne}, op: {"read", "write"},
         off: Addr, len: 0 .. LenMax, i: Index, val: Byte,
         cmd: {"high", "low", "value"}, port: {"selType", "type", "selArg", "arg"},
         ret: {"ok", "EINVAL", "ENODEV", "EFAULT", "EINTR"},
         ubuf: [Index -> Byte]]

\* Every variable keeps its type; in particular the loop variable stays inside
\* the 64-byte buffer in every loop of the driver.
TypeOK ==
    /\ loaded \in BOOLEAN
    /\ config \in [File -> {"closed", "none", "ayaneo"}]
    /\ buffer \in [Index -> Byte]
    /\ mtx \in Thread \cup {NoOne}
    /\ call \in [Thread -> Call]
    /\ ec \in [latch: {"type", "arg"}, type: {"high", "low", "value"},
               hi: High, lo: Low, ram: [High \X Low -> Byte]]

Active(t) == call[t].pc \in Transfer \ {"done"}

\* A transfer that passed the checks of the ioctl stays in the address space
\* and in the buffer: offset + i never wraps around 16 bits.
TransferInBounds ==
    \A t \in Thread : Active(t) =>
        /\ call[t].i < call[t].len
        /\ call[t].len <= BufferSize
        /\ call[t].off + call[t].len <= AddrSize

\* No session is freed and no module unloaded under a running ioctl, and a
\* transfer dereferences a config that is set.
SessionAlive ==
    \A t \in Thread : call[t].pc # "user" =>
        /\ loaded
        /\ config[call[t].fd] # "closed"
        /\ Active(t) => config[call[t].fd] = "ayaneo"

\* When a thread is about to read or write the value register, the EC
\* addresses the byte that this iteration of the thread's transfer is about,
\* whatever the other threads did since it sent the offsets.
AccessHitsTarget ==
    \A t \in Thread :
        call[t].pc = "port" /\ call[t].cmd = "value" /\ call[t].port = "arg" =>
            /\ ec.latch = "arg"
            /\ ec.type = "value"
            /\ LowSize * ec.hi + ec.lo = call[t].off + call[t].i

\* The RAM cell of an address, independent of how the code splits it.
CellOf(a) == <<a \div LowSize, a % LowSize>>

\* The RAM changes only by a write transfer whose thread holds the mutex, only
\* at the byte that transfer is at, and to the byte it took from the buffer.
RamChange ==
    ec'.ram # ec.ram =>
        \E t \in Thread :
            /\ mtx = t
            /\ call[t].op = "write"
            /\ ec'.ram = [ec.ram EXCEPT ![CellOf(call[t].off + call[t].i)] = call[t].val]

RamChangesOnlyAtTarget == [][RamChange]_vars

\* The transfer a call performs, as AecramBytes sees it: waiting for the mutex
\* and the port accesses up to the value are one state, and a byte has moved
\* once its value has, before the mutex is released.
AbstractPc(c) ==
    CASE c.pc \in {"user", "typed"} -> "idle"
      [] c.pc \in {"lock", "port", "unlock"} -> "byte"
      [] OTHER -> c.pc

Project(c) == [pc |-> AbstractPc(c), op |-> c.op, off |-> c.off, len |-> c.len,
               i |-> c.i, val |-> c.val,
               ret |-> IF c.pc = "typed" THEN "ok" ELSE c.ret, ubuf |-> c.ubuf]

AbstractTransfer(c) ==
    IF c.pc = "unlock" THEN Project(NextByte(c)) ELSE Project(c)

Bytes == INSTANCE AecramBytes WITH
    ram <- [a \in Addr |-> ec.ram[CellOf(a)]],
    xfer <- [t \in Thread |-> AbstractTransfer(call[t])]

\* The driver implements AecramBytes: under the mutex, the twelve port accesses
\* of a byte amount to one atomic access to the RAM at offset + i, and every
\* request the ioctl accepts is a range inside the address space.
ImplementsBytes == Bytes!Spec

\* A transfer that no other transfer overlaps is exact: it is never
\* interrupted, a write that succeeds leaves the user's bytes in the RAM, and
\* a read that succeeds returns the bytes the RAM holds.
SoloTransferExact ==
    \A t \in Thread :
        LET c == call[t] IN
        c.pc = "done" /\ ~overlapped[t] =>
            /\ c.ret # "EINTR"
            /\ c.ret = "ok" =>
                 \A j \in 0 .. c.len - 1 : c.ubuf[j] = ec.ram[CellOf(c.off + j)]

\* An ioctl that begins a transfer returns.
TransferReturns == \A t \in Thread : call[t].pc \in Transfer ~> call[t].pc = "user"

\* What aecram_util promises ("Read at offset", "Read length bytes"): a read
\* that succeeds returns the bytes at the offset.
ReadReturnsRequestedBytes ==
    \A t \in Thread :
        LET c == call[t] IN
        c.pc = "done" /\ c.op = "read" /\ c.ret = "ok" =>
            \A j \in 0 .. c.len - 1 : c.ubuf[j] = ec.ram[CellOf(c.off + j)]

=============================================================================
