--------------------------- MODULE MicrocodeWalk ---------------------------
(***************************************************************************)
(* amd_microcode: the walk over a microcode container.  An outer header, a *)
(* table of processors, and for each processor in it an inner header and a *)
(* patch.  What the file holds is chosen where it is read; what counts is  *)
(* how much of it is left.                                                 *)
(***************************************************************************)
EXTENDS Integers

CONSTANTS
    OuterSize,  \* sizeof(OuterHeader)
    EntrySize,  \* sizeof(EquivCPUEntry)
    InnerSize,  \* sizeof(InnerHeader)
    PatchSize,  \* sizeof(MicrocodeHeader)
    FileSizes,  \* the sizes of files
    Words       \* the values of a field of 32 bits

ASSUME WalkAssumption ==
    /\ {OuterSize, EntrySize, InnerSize, PatchSize} \subseteq Nat \ {0}
    /\ FileSizes \subseteq Nat
    /\ Words \subseteq Nat

VARIABLES
    walkPc,     \* how far main is; "error" when it has thrown
    size,       \* the size of the file
    pos,        \* buffer, as an offset into the file
    available,  \* available_bytes
    tableLeft,  \* entries of the table that are still to be read
    tableRead,  \* history: entries that have been read, with the last one
    entries,    \* the number of processors in the table
    patches     \* the number of them whose patch has been printed

walkVars == <<walkPc, size, pos, available, tableLeft, tableRead, entries, patches>>

WalkInit ==
    /\ walkPc = "outer"
    /\ size \in FileSizes
    /\ pos = 0
    /\ available = size
    /\ tableLeft = 0
    /\ tableRead = 0
    /\ entries = 0
    /\ patches = 0

\* Skip n bytes that have been read.
Skip(n) == pos' = pos + n /\ available' = available - n

Throw == walkPc' = "error" /\ UNCHANGED <<size, pos, available, tableLeft, tableRead, entries, patches>>

\* An empty file is too short for the header, too.  The table's length comes
\* from the header; it need not fit the file.
Outer ==
    /\ walkPc = "outer"
    /\ \/ available < OuterSize /\ Throw
       \/ /\ available >= OuterSize
          /\ \/ Throw \* wrong magic, type, or length of the table
             \/ \E tableLen \in Words :
                  /\ tableLen % EntrySize = 0
                  /\ tableLeft' = tableLen \div EntrySize
                  /\ walkPc' = "table"
                  /\ Skip(OuterSize)
                  /\ UNCHANGED <<size, tableRead, entries, patches>>

\* The loop over the table ends with it, or behind an entry of processor 0.
Entry ==
    /\ walkPc = "table"
    /\ \/ /\ tableLeft = 0
          /\ walkPc' = "inner"
          /\ UNCHANGED <<size, pos, available, tableLeft, tableRead, entries, patches>>
       \/ tableLeft > 0 /\ available < EntrySize /\ Throw
       \/ /\ tableLeft > 0 /\ available >= EntrySize
          /\ Skip(EntrySize)
          /\ tableRead' = tableRead + 1
          /\ \/ /\ walkPc' = "inner"
                /\ UNCHANGED <<tableLeft, entries>>
             \/ /\ tableLeft' = tableLeft - 1
                /\ entries' = entries + 1
                /\ UNCHANGED walkPc
          /\ UNCHANGED <<size, patches>>

\* Mutant: the inner header is not taken off what is left.
InnerKeptMutant ==
    /\ walkPc = "inner" /\ patches < entries
    /\ \/ available < InnerSize /\ Throw
       \/ /\ available >= InnerSize
          /\ walkPc' \in {"payload", "error"}
          /\ pos' = pos + InnerSize
          /\ UNCHANGED <<size, available, tableLeft, tableRead, entries, patches>>

\* An inner header; "error" if it is not that of a patch.
Inner ==
    /\ walkPc = "inner" /\ patches < entries
    /\ \/ available < InnerSize /\ Throw
       \/ /\ available >= InnerSize
          /\ walkPc' \in {"payload", "error"}
          /\ Skip(InnerSize)
          /\ UNCHANGED <<size, tableLeft, tableRead, entries, patches>>

\* A patch of any size that is left, if a header is left.  The header of the
\* patch is read from it; behind the end of a patch that is shorter, which is
\* undefined: the program prints something, or crashes.
Payload ==
    /\ walkPc = "payload"
    /\ \/ available < PatchSize /\ Throw
       \/ /\ available >= PatchSize
          /\ \E n \in Words :
                \/ (available < n \/ n < PatchSize) /\ Throw
                \/ /\ available >= n
                   /\ Skip(n)
                   /\ walkPc' = "inner"
                   /\ patches' = patches + 1
                   /\ UNCHANGED <<size, tableLeft, tableRead, entries>>

Printed ==
    /\ walkPc = "inner" /\ patches = entries
    /\ walkPc' = "done"
    /\ UNCHANGED <<size, pos, available, tableLeft, tableRead, entries, patches>>

WalkNext == Outer \/ Entry \/ Inner \/ Payload \/ Printed

WalkSpec == WalkInit /\ [][WalkNext]_walkVars

-----------------------------------------------------------------------------
(* Properties *)

\* The walk stays in the file: what it takes to be left is what is left, so
\* that each check of a length is a check against the file, and each header and
\* patch it has passed was in it, whatever the lengths in the file say.
WalkInBounds ==
    /\ pos \in Nat /\ available \in Nat
    /\ pos + available = size
    /\ walkPc # "outer" /\ walkPc # "error" => pos >= OuterSize + EntrySize * tableRead + InnerSize * patches

=============================================================================
