--------------------------- MODULE MCAecramDriver ---------------------------
(***************************************************************************)
(* Model checking instances of AecramDriver: an address space of four      *)
(* bytes, with two values of each offset byte, and a buffer of two.        *)
(***************************************************************************)
EXTENDS AecramDriver, TLC

\* Threads are interchangeable, and so are files.
Symmetry == Permutations(Thread) \cup Permutations(File)

Read(o, n) == [op |-> "read", off |-> o, len |-> n, buf |-> ZeroBuffer]
Write(o, n, b0, b1) ==
    [op |-> "write", off |-> o, len |-> n, buf |-> [j \in Index |-> IF j = 0 THEN b0 ELSE b1]]

\* Transfers that cross from one high byte to the next, that end at the last
\* address, and every way of failing the checks: behind the last address, too
\* long, and offset 0 with length 0; and a length 0 that is accepted.
EdgeRequests ==
    {Read(1, 2), Write(1, 2, 1, 0), Write(3, 1, 1, 0),
     Read(3, 2), Write(0, 3, 1, 1), Read(0, 0), Write(1, 0, 1, 1)}

\* Reads of different bytes, and no writes.
ReadRequests == {Read(0, 2), Read(2, 2)}

\* One read and one write that share a byte.
LiveRequests == {Read(0, 2), Write(1, 1, 1, 0)}

=============================================================================
