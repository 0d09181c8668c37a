-------------------------- MODULE BacklightLookup --------------------------
(***************************************************************************)
(* lookup_backlight_node of the brightness daemon: which of the backlights *)
(* in sysfs is the one of the configured device.  From each candidate, the *)
(* links called "device" lead from one device to the next, up to the first *)
(* one with a class, a vendor and a device of its own; its ids decide.     *)
(***************************************************************************)
EXTENDS Integers, Sequences

CONSTANT Directories  \* contents of /sys/class/backlight, in readdir's order

\* A level of a path: a device without ids, ours, or another one.
Level == {"bus", "ours", "other"}

\* path: the node itself and what the links lead to, one after the other.
Node == [link: BOOLEAN, prefix: BOOLEAN, path: Seq(Level)]

ASSUME LookupAssumption ==
    /\ Directories \subseteq Seq(Node)
    /\ \A d \in Directories : \A k \in DOMAIN d : d[k].path # <<>>

VARIABLES
    lookPc,     \* where the lookup is; "found" and "none" are its results
    dir,        \* the directory; empty also when it does not exist
    at,         \* dir_entry, as an index
    climb,      \* current_path, as a level of the entry's path
    vanished    \* history: the ids of a parent could not be read any more

lookVars == <<lookPc, dir, at, climb, vanished>>

LookInit ==
    /\ lookPc = "next"
    /\ dir \in Directories
    /\ at = 0
    /\ climb = 1
    /\ vanished = FALSE

\* The next entry, if it is a link with the prefix; else the one behind it.
NextNode ==
    /\ lookPc = "next"
    /\ IF at = Len(dir)
       THEN lookPc' = "none" /\ UNCHANGED at
       ELSE /\ at' = at + 1
            /\ lookPc' = IF dir[at + 1].link /\ dir[at + 1].prefix THEN "climb" ELSE "next"
    /\ climb' = 1
    /\ UNCHANGED <<dir, vanished>>

\* Mutant: a parent that is not the device looked for is passed.
PassOthersMutant ==
    /\ lookPc = "climb"
    /\ LET path == dir[at].path IN
       \/ path[climb] = "ours" /\ lookPc' = "identify" /\ UNCHANGED climb
       \/ path[climb] # "ours" /\ climb < Len(path) /\ climb' = climb + 1 /\ UNCHANGED lookPc
       \/ path[climb] # "ours" /\ climb = Len(path) /\ lookPc' = "next" /\ UNCHANGED climb
    /\ UNCHANGED <<dir, at, vanished>>

\* get_parent_device: the first device with ids, or none where there is no
\* further link.
Climb ==
    /\ lookPc = "climb"
    /\ LET path == dir[at].path IN
       \/ path[climb] # "bus" /\ lookPc' = "identify" /\ UNCHANGED climb
       \/ path[climb] = "bus" /\ climb < Len(path) /\ climb' = climb + 1 /\ UNCHANGED lookPc
       \/ path[climb] = "bus" /\ climb = Len(path) /\ lookPc' = "next" /\ UNCHANGED climb
    /\ UNCHANGED <<dir, at, vanished>>

\* identify_backlight: what cannot be read, or is no number, is not the device.
Identify ==
    /\ lookPc = "identify"
    /\ \/ /\ lookPc' = IF dir[at].path[climb] = "ours" THEN "found" ELSE "next"
          /\ UNCHANGED vanished
       \/ lookPc' = "next" /\ vanished' = TRUE
    /\ UNCHANGED <<dir, at, climb>>

LookNext == NextNode \/ Climb \/ Identify

LookSpec == LookInit /\ [][LookNext]_lookVars

-----------------------------------------------------------------------------
(* Properties *)

\* The first device with ids above the node, itself included, is ours.
Belongs(node) ==
    /\ node.link /\ node.prefix
    /\ \E l \in DOMAIN node.path :
          node.path[l] = "ours" /\ \A k \in 1 .. l - 1 : node.path[k] = "bus"

\* The backlight that is dimmed hangs on the configured device, and on no other
\* between the two; it is the first such one, and none is said to exist only
\* when there is none, unless a device went away while it was looked at.
LookupFindsFirst ==
    /\ lookPc = "found" => Belongs(dir[at])
    /\ lookPc = "found" /\ ~vanished => \A k \in 1 .. at - 1 : ~Belongs(dir[k])
    /\ lookPc = "none" /\ ~vanished => \A k \in DOMAIN dir : ~Belongs(dir[k])

=============================================================================
