----------------------------- MODULE AecramUtil -----------------------------
(***************************************************************************)
(* aecram_util: reads some bytes of the EC's RAM through the aecram driver *)
(* and prints them.  The fields of a request are narrower than what is     *)
(* asked for, and the buffer in it is shorter than a length can be.        *)
(***************************************************************************)
EXTENDS Integers, Sequences

CONSTANTS
    OffsetMax,      \* the largest value of the offset field, an u16
    LengthMax,      \* and of the length field, an u8
    UnknownOffset,  \* kUnknownOffset
    BufferLength,   \* AECRAM_BUFFER_SIZE
    Dumps           \* what users ask for

ASSUME UtilAssumption ==
    /\ OffsetMax \in Nat /\ LengthMax \in Nat
    /\ UnknownOffset \in 0 .. OffsetMax
    /\ BufferLength \in 0 .. LengthMax
    /\ Dumps \subseteq [offset: Nat, length: Nat]

VARIABLES
    utilPc,     \* where dump is; "done" and "failed" are over
    dump,       \* its arguments
    request,    \* req: offset, length, and for each byte of the buffer the
                \* address it was read from, or -1
    printed     \* the same of what was printed

utilVars == <<utilPc, dump, request, printed>>

NothingRead == [i \in 0 .. BufferLength - 1 |-> -1]

UtilInit ==
    /\ utilPc = "check"
    /\ dump \in Dumps
    /\ request = [offset |-> 0, length |-> 0, buffer |-> NothingRead]
    /\ printed = <<>>

UtilGoto(label) == utilPc' = label

\* Mutant: the offset is compared with the range of its field.
WideOffsetMutant(d) == d.offset <= OffsetMax /\ d.length <= BufferLength

InBounds(d) == d.offset <= OffsetMax - UnknownOffset /\ d.length <= BufferLength

CheckDump ==
    /\ utilPc = "check"
    /\ UtilGoto(IF InBounds(dump) THEN "open" ELSE "failed")
    /\ UNCHANGED <<dump, request, printed>>

\* open and IOCTL_AECRAM_SET_TYPE; then the request is put together.
OpenDevice ==
    /\ utilPc = "open"
    /\ \/ UtilGoto("failed") /\ UNCHANGED request
       \/ /\ UtilGoto("read")
          /\ request' = [request EXCEPT
                            !.offset = (UnknownOffset + dump.offset) % (OffsetMax + 1),
                            !.length = dump.length % (LengthMax + 1)]
    /\ UNCHANGED <<dump, printed>>

\* IOCTL_AECRAM_READ, while nobody else reads: the driver refuses what leaves
\* the address space or the buffer, and may fail.
ReadAecram ==
    /\ utilPc = "read"
    /\ \/ UtilGoto("failed") /\ UNCHANGED request
       \/ /\ request.offset + request.length - 1 \in 0 .. OffsetMax
          /\ request.length <= BufferLength
          /\ UtilGoto("print")
          /\ request' = [request EXCEPT !.buffer =
                [i \in DOMAIN NothingRead |-> IF i < request.length THEN request.offset + i ELSE -1]]
    /\ UNCHANGED <<dump, printed>>

PrintByte ==
    /\ utilPc = "print"
    /\ IF Len(printed) < dump.length
       THEN printed' = Append(printed, request.buffer[Len(printed)]) /\ UNCHANGED utilPc
       ELSE UtilGoto("done") /\ UNCHANGED printed
    /\ UNCHANGED <<dump, request>>

UtilNext == CheckDump \/ OpenDevice \/ ReadAecram \/ PrintByte

UtilSpec == UtilInit /\ [][UtilNext]_utilVars

-----------------------------------------------------------------------------
(* Properties *)

\* A dump that succeeds has printed as many bytes as it was asked for, each
\* read from its own address, and no byte that was not read.
DumpExact ==
    /\ \A k \in DOMAIN printed : printed[k] = UnknownOffset + dump.offset + k - 1
    /\ utilPc = "done" => Len(printed) = dump.length

=============================================================================
