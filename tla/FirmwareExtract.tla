-------------------------- MODULE FirmwareExtract --------------------------
(***************************************************************************)
(* extract_bmi260_fw: the search for a firmware blob in a file, which is   *)
(* read into a buffer of bytes.  Of its bytes, the model has where the     *)
(* first identifier is, and where the whole header is.                     *)
(***************************************************************************)
EXTENDS Integers

CONSTANTS
    BlobSize,    \* kBlobSize
    HeaderSize,  \* kHeaderSize
    IdentSize,   \* the size of kIdent0, in bytes
    Lengths      \* the sizes of files

ASSUME ExtractAssumption ==
    /\ IdentSize \in Nat \ {0}
    /\ HeaderSize \in Nat /\ HeaderSize >= IdentSize
    /\ BlobSize \in Nat /\ BlobSize >= HeaderSize
    /\ Lengths \subseteq Nat

VARIABLES
    extractPc,  \* where ExtractBMI260FW is, or how it ended
    len,        \* the size of the file, and of the buffer
    idents,     \* the offsets of kIdent0 in it
    headers,    \* those of them where kHeader matches
    it          \* the iterator, as an offset

extractVars == <<extractPc, len, idents, headers, it>>

\* The identifier does not overlap itself.
ExtractInit ==
    /\ extractPc = "locate"
    /\ len \in Lengths
    /\ idents \in SUBSET {b \in 0 .. len : b + IdentSize <= len}
    /\ \A a, b \in idents : a < b => a + IdentSize <= b
    /\ headers \in SUBSET {b \in idents : b + HeaderSize <= len}
    /\ it = 0

\* The first identifier from the iterator on, or none.
Locate ==
    /\ extractPc = "locate"
    /\ \/ /\ \A b \in idents : b < it
          /\ extractPc' = "not found"
          /\ UNCHANGED it
       \/ /\ it' \in idents /\ it' >= it
          /\ \A a \in idents : a >= it => it' <= a
          /\ extractPc' = "check"
    /\ UNCHANGED <<len, idents, headers>>

\* Mutant: the iterator stays where it is.
StuckMutant ==
    /\ extractPc = "check"
    /\ \/ len - it < BlobSize /\ extractPc' = "no space"
       \/ len - it >= BlobSize /\ it \in headers /\ extractPc' \in {"done", "failed"}
       \/ len - it >= BlobSize /\ it \notin headers /\ extractPc' = "locate"
    /\ UNCHANGED <<len, idents, headers, it>>

\* Mutant: the header is not checked.
UncheckedMutant ==
    /\ extractPc = "check"
    /\ extractPc' \in IF len - it < BlobSize THEN {"no space"} ELSE {"done", "failed"}
    /\ UNCHANGED <<len, idents, headers, it>>

\* The blob is written, or that fails.
Check ==
    /\ extractPc = "check"
    /\ \/ /\ len - it < BlobSize
          /\ extractPc' = "no space" /\ UNCHANGED it
       \/ /\ len - it >= BlobSize /\ it \in headers
          /\ extractPc' \in {"done", "failed"} /\ UNCHANGED it
       \/ /\ len - it >= BlobSize /\ it \notin headers
          /\ extractPc' = "locate" /\ it' = it + 1
    /\ UNCHANGED <<len, idents, headers>>

ExtractNext == Locate \/ Check

ExtractSpec == ExtractInit /\ [][ExtractNext]_extractVars

-----------------------------------------------------------------------------
(* Properties *)

\* What is extracted is in the file as a whole and begins with the first header
\* there is; and it is not said that there is none, or no space, when a whole
\* blob is there, whatever identifiers without a header are before it or cut off
\* behind it.
FirstBlobFound ==
    /\ extractPc = "done" =>
          it \in headers /\ it + BlobSize <= len /\ \A h \in headers : it <= h
    /\ extractPc \in {"not found", "no space"} => \A h \in headers : h + BlobSize > len

=============================================================================
