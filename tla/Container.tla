------------------------------ MODULE Container ------------------------------
(***************************************************************************)
(* container: "open" fetches a key with libcurl, pipes it to cryptsetup,   *)
(* and thereby maps an encrypted device under a name; "close" takes the    *)
(* mapping away.  systemd runs it, one after the other, to start and stop  *)
(* unlock-container@.  What fails is an exception that main reports, but   *)
(* for a write to a pipe nobody reads any more: that kills the program, or *)
(* where SIGPIPE is ignored, as systemd has it, goes unnoticed.            *)
(***************************************************************************)
EXTENDS Integers

CONSTANTS
    Names,      \* the names of containers
    Uuids,      \* the devices there may be
    Chunks,     \* the pieces in which libcurl hands over a key
    NoUuid      \* not mapped

ASSUME ContainerAssumption == Chunks \in Nat \ {0} /\ NoUuid \notin Uuids

Modes == {"open", "close"}

VARIABLES
    conPc,      \* where the program is; "idle", "done", "failed", "killed" without one
    mode,       \* --mode
    name, uuid, \* --specification
    key,        \* how many pieces of the key are in key_content
    crypt,      \* the child: "none", "reading", or how it ended, "ok" or "bad"
    stdin,      \* how many pieces of the key went into its input
    mapping,    \* what each name is mapped to
    devices     \* the devices that are present

conVars == <<conPc, mode, name, uuid, key, crypt, stdin, mapping, devices>>
child   == <<crypt, stdin>>
spec    == <<mode, name, uuid>>

ContainerInit ==
    /\ conPc = "idle"
    /\ mode \in Modes /\ name \in Names /\ uuid \in Uuids
    /\ key = 0
    /\ crypt = "none" /\ stdin = 0
    /\ mapping = [n \in Names |-> NoUuid]
    /\ devices \in SUBSET Uuids

Goes(label) == conPc' = label

\* A malformed specification, another mode or a bad configuration end the
\* program before it has done anything.
Begin ==
    /\ conPc \in {"idle", "done", "failed", "killed"}
    /\ mode' \in Modes /\ name' \in Names /\ uuid' \in Uuids
    /\ Goes(IF mode' = "open" THEN "exists" ELSE "spawn")
    /\ key' = 0 /\ crypt' = "none" /\ stdin' = 0
    /\ UNCHANGED <<mapping, devices>>

DeviceExists ==
    /\ conPc = "exists"
    /\ Goes(IF uuid \in devices THEN "fetch" ELSE "failed")
    /\ UNCHANGED <<spec, key, child, mapping, devices>>

\* curl_write_cb: one piece more.
WriteCb ==
    /\ conPc = "fetch" /\ key < Chunks
    /\ key' = key + 1
    /\ UNCHANGED <<conPc, spec, child, mapping, devices>>

\* Mutant: the result of the transfer is not looked at.
ResultIgnoredMutant ==
    /\ conPc = "fetch"
    /\ Goes("spawn")
    /\ UNCHANGED <<spec, key, child, mapping, devices>>

\* curl_easy_perform returns, at any time with an error.
Fetched ==
    /\ conPc = "fetch"
    /\ Goes("failed") \/ (key = Chunks /\ Goes("spawn"))
    /\ UNCHANGED <<spec, key, child, mapping, devices>>

Spawn ==
    /\ conPc = "spawn"
    /\ \/ Goes("failed") /\ UNCHANGED crypt
       \/ Goes(IF mode = "open" THEN "write" ELSE "wait") /\ crypt' = "reading"
    /\ UNCHANGED <<spec, key, stdin, mapping, devices>>

\* write, flush and close of the pipe.  When cryptsetup has ended before, the
\* rest of the key is lost: SIGPIPE, or in_stream is bad, which nobody looks at.
Feed ==
    /\ conPc = "write"
    /\ \/ crypt = "reading" /\ stdin' = key /\ Goes("wait")
       \/ crypt = "bad" /\ stdin' \in 0 .. key /\ (Goes("killed") \/ Goes("wait"))
    /\ UNCHANGED <<spec, key, crypt, mapping, devices>>

WaitChild ==
    /\ conPc = "wait" /\ crypt # "reading"
    /\ Goes(IF crypt = "ok" THEN "done" ELSE "failed")
    /\ UNCHANGED <<spec, key, child, mapping, devices>>

\* cryptsetup: maps a device that is there under a free name, with what came
\* before the end of its input for a key, whatever that is; and removes the
\* mapping of a name; or fails, at any time.
Cryptsetup ==
    /\ crypt = "reading"
    /\ \/ crypt' = "bad" /\ UNCHANGED mapping
       \/ /\ conPc = "wait" /\ mode = "open"
          /\ uuid \in devices /\ mapping[name] = NoUuid
          /\ crypt' = "ok" /\ mapping' = [mapping EXCEPT ![name] = uuid]
       \/ /\ conPc = "wait" /\ mode = "close" /\ mapping[name] # NoUuid
          /\ crypt' = "ok" /\ mapping' = [mapping EXCEPT ![name] = NoUuid]
    /\ UNCHANGED <<conPc, spec, key, stdin, devices>>

\* A device comes or goes; a mapping stays.
Hotplug ==
    /\ devices' \in SUBSET Uuids
    /\ UNCHANGED <<conPc, spec, key, child, mapping>>

ContainerNext ==
    \/ Begin \/ DeviceExists \/ WriteCb \/ Fetched \/ Spawn \/ Feed \/ WaitChild
    \/ Cryptsetup \/ Hotplug

ContainerSpec == ContainerInit /\ [][ContainerNext]_conVars

-----------------------------------------------------------------------------
(* Properties *)

\* cryptsetup never takes the beginning of a key for a key, however the transfer
\* ended and whatever became of the pipe: when it meets the end of its input, and
\* when it has succeeded, the whole key was in it.  And the exit code 0, by which
\* systemd mounts what is in the container or takes it for locked, means just
\* that.
ExitMeansMapped ==
    /\ mode = "open" /\ (crypt = "ok" \/ (crypt = "reading" /\ conPc = "wait")) => stdin = Chunks
    /\ conPc = "done" => mapping[name] = IF mode = "open" THEN uuid ELSE NoUuid

=============================================================================
