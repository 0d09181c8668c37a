--------------------------- MODULE AccessBlocker ---------------------------
(***************************************************************************)
(* access_blocker: a preloaded library that answers for drmGetVersion and  *)
(* gbm_create_device.  Its constructor notes the inodes of the blocked     *)
(* device nodes; a call for a file with one of these inodes gets NULL, and *)
(* so does every call of a function that is not in the libraries behind.   *)
(* Nodes come and go with their devices, with a new inode each time.       *)
(***************************************************************************)
EXTENDS Integers, Sequences

CONSTANTS
    Paths,      \* the number of entries of __blocked_paths
    MaxInode,   \* bound: no more inodes than these are given out
    NoInode     \* no node at the path

ASSUME BlockerAssumption == Paths \in Nat \ {0} /\ MaxInode \in Nat /\ NoInode \notin Nat

VARIABLES
    hookAt,     \* the entry __hook_init is at; 0 when it is done
    blocked,    \* __blocked_inodes
    made,       \* for each inode given out in /dev: the path of the node, or 0
                \* for any other file
    nodes,      \* the inode at each of the paths now, or NoInode
    seen,       \* history: what the constructor found at each path, or NoInode
    realFunc,   \* __real_func0 and __real_func1: whether dlsym found them
    call        \* the last call: of which function, the file system and the inode
                \* of its file, whether fstat answered for it, and whether it got
                \* through to the real function

hookVars == <<hookAt, blocked, made, nodes, seen, realFunc, call>>

Table     == 1 .. Paths
Functions == {"drmGetVersion", "gbm_create_device"}

HookInit ==
    /\ hookAt = 1
    /\ blocked = [i \in Table |-> 0]
    /\ made = [i \in Table |-> i]
    /\ \E there \in SUBSET Table : nodes = [i \in Table |-> IF i \in there THEN i ELSE NoInode]
    /\ seen = [i \in Table |-> NoInode]
    /\ realFunc \in [Functions -> BOOLEAN]
    /\ call = [fn |-> "drmGetVersion", fs |-> "dev", ino |-> 0, stat |-> TRUE, real |-> TRUE]

\* stat() of the next path; the first that fails ends the loop.
NoteInode ==
    /\ hookAt \in Table
    /\ IF nodes[hookAt] = NoInode
       THEN hookAt' = 0 /\ UNCHANGED <<blocked, seen>>
       ELSE /\ blocked' = [blocked EXCEPT ![hookAt] = nodes[hookAt]]
            /\ seen' = [seen EXCEPT ![hookAt] = nodes[hookAt]]
            /\ hookAt' = (hookAt + 1) % (Paths + 1)
    /\ UNCHANGED <<made, nodes, realFunc, call>>

\* Mutant: the last entry is not compared.
LastSkippedMutant(node) == \E i \in 1 .. Paths - 1 : blocked[i] = node

IsBlocked(node) == \E i \in Table : blocked[i] = node

\* drmGetVersion or gbm_create_device, for a file that was opened before, maybe
\* long ago.  Another file system gives out the same numbers, and only these are
\* compared; a file whose number is not to be had is not blocked.
HookedCall(fn) ==
    /\ hookAt = 0
    /\ \E n \in DOMAIN made, fs \in {"dev", "other"}, stat \in BOOLEAN :
          call' = [fn |-> fn, fs |-> fs, ino |-> n, stat |-> stat,
                   real |-> realFunc[fn] /\ ~(stat /\ IsBlocked(n))]
    /\ UNCHANGED <<hookAt, blocked, made, nodes, seen, realFunc>>

\* A device goes, or comes back, with a node of a new inode.
Replug(i) ==
    /\ \/ nodes[i] # NoInode /\ nodes' = [nodes EXCEPT ![i] = NoInode] /\ UNCHANGED made
       \/ /\ nodes[i] = NoInode /\ Len(made) < MaxInode
          /\ made' = Append(made, i)
          /\ nodes' = [nodes EXCEPT ![i] = Len(made) + 1]
    /\ UNCHANGED <<hookAt, blocked, seen, realFunc, call>>

OtherFile ==
    /\ Len(made) < MaxInode
    /\ made' = Append(made, 0)
    /\ UNCHANGED <<hookAt, blocked, nodes, seen, realFunc, call>>

HookNext ==
    \/ NoteInode
    \/ \E fn \in Functions : HookedCall(fn)
    \/ \E i \in Table : Replug(i)
    \/ OtherFile

HookSpec == HookInit /\ [][HookNext]_hookVars

-----------------------------------------------------------------------------
(* Properties *)

\* A call for a node that was there, with those before it, when the library was
\* loaded never gets through once fstat has given its inode, whatever became of
\* the path; and no other call for a file in /dev is held up, unless there is no
\* real function to call.
SameNodesBlocked ==
    call.ino # 0 /\ call.fs = "dev" =>
        (~call.real <=>
            \/ ~realFunc[call.fn]
            \/ call.stat /\ made[call.ino] # 0 /\ call.ino = seen[made[call.ino]])

=============================================================================
