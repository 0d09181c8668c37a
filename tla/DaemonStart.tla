---------------------------- MODULE DaemonStart ----------------------------
(***************************************************************************)
(* How brightness_daemon gets from main to its loop: the configuration,    *)
(* the files it opens while it is root, the socket and its owner, and the  *)
(* calls that drop the privileges, each of which may fail.  Whatever is    *)
(* thrown ends the process; a socket file stays behind, and the next start *)
(* finds it.  Users and groups are numbers, 0 is root.                     *)
(***************************************************************************)
EXTENDS Integers

CONSTANTS
    Creds,      \* what a process may be started with
    Passwds,    \* entries of the configured user, with its supplementary groups
    Gids,       \* entries of the configured group
    None        \* no entry, no file

Credentials == [uid: Nat, gid: Nat, groups: SUBSET Nat]

ASSUME StartAssumption ==
    /\ Creds \subseteq Credentials
    /\ Passwds \subseteq [uid: Nat, groups: SUBSET Nat]
    /\ Gids \subseteq Nat
    /\ None \notin Nat \cup Passwds \cup [uid: Nat, gid: Nat]

VARIABLES
    startPc,    \* where main is; "loop" runs, "failed" and "no group" are over
    hasUser,    \* the configuration has a user
    hasGroup,   \* and a group
    passwd,     \* the user's entry, or None
    group,      \* the group's entry, or None
    begun,      \* the credentials the process was started with
    cred,       \* and those it has
    socket      \* the owner of the file at the path of the socket, or None

database  == <<hasUser, hasGroup, passwd, group>>
startVars == <<startPc, database, begun, cred, socket>>

StartInit ==
    /\ startPc = "config"
    /\ hasUser \in BOOLEAN /\ hasGroup \in BOOLEAN
    /\ passwd \in Passwds \cup {None}
    /\ group \in Gids \cup {None}
    /\ begun \in Creds
    /\ cred = begun
    /\ socket = None

StartGoto(label) == startPc' = label /\ UNCHANGED <<database, begun>>

-----------------------------------------------------------------------------
(* main, and the two init() *)

\* Config::read, and BacklightContext::init: the backlight is looked up, its
\* file and the state file are opened.
Prepare ==
    /\ startPc \in {"config", "backlight"}
    /\ \/ StartGoto("failed")
       \/ StartGoto(IF startPc = "config" THEN "backlight" ELSE "socket")
    /\ UNCHANGED <<cred, socket>>

\* SocketContext::init removes what is at the path, or throws, and binds.
Bind ==
    /\ startPc = "socket"
    /\ \/ StartGoto("failed") /\ socket' \in {socket, None}
       \/ StartGoto("chown") /\ socket' = [uid |-> cred.uid, gid |-> cred.gid]
    /\ UNCHANGED cred

\* Without a name, getpwnam and getgrnam are asked for "": there is no such
\* entry, for a group that is not configured either.
User == IF hasUser THEN passwd ELSE None

NoGroup == ~hasGroup \/ group = None

\* get_uid_gid is only asked when there is a user.  Only root may give the
\* socket away.
HandOver ==
    /\ startPc = "chown"
    /\ \/ ~hasUser /\ StartGoto("drop") /\ UNCHANGED socket
       \/ hasUser /\ NoGroup /\ StartGoto("no group") /\ UNCHANGED socket
       \/ hasUser /\ ~NoGroup /\ StartGoto("failed") /\ UNCHANGED socket
       \/ /\ hasUser /\ ~NoGroup /\ User # None
          /\ cred.uid = 0 \/ (User.uid = cred.uid /\ group \in cred.groups \cup {cred.gid})
          /\ socket' = [uid |-> User.uid, gid |-> group]
          /\ StartGoto("drop")
    /\ UNCHANGED cred

-----------------------------------------------------------------------------
(* drop_root_privileges *)

\* Who is not root keeps what it has.  Root needs a user and a group, neither
\* of them root.
LookUpIds ==
    /\ startPc = "drop"
    /\ \/ cred.uid # 0 /\ StartGoto("loop")
       \/ cred.uid = 0 /\ NoGroup /\ StartGoto("no group")
       \/ cred.uid = 0 /\ ~NoGroup /\ User = None /\ StartGoto("failed")
       \/ /\ cred.uid = 0 /\ ~NoGroup /\ User # None
          /\ StartGoto(IF User.uid = 0 \/ group = 0 THEN "failed" ELSE "setgid")
    /\ UNCHANGED <<cred, socket>>

\* A system call that succeeds, or makes drop_root_privileges throw.
Call(label, next, changed) ==
    /\ startPc = label
    /\ \/ StartGoto("failed") /\ UNCHANGED cred
       \/ StartGoto(next) /\ cred' = changed
    /\ UNCHANGED socket

SetGid == Call("setgid", "setgroups", [cred EXCEPT !.gid = group])

\* Mutant: the groups are left to initgroups.
KeepGroupsMutant == Call("setgroups", "initgroups", cred)

SetGroups == Call("setgroups", "initgroups", [cred EXCEPT !.groups = {}])

\* The result of initgroups is ignored.
InitGroups ==
    /\ startPc = "initgroups"
    /\ StartGoto("setuid")
    /\ cred' \in {cred, [cred EXCEPT !.groups = passwd.groups \cup {group}]}
    /\ UNCHANGED socket

\* chdir and setuid: what fails in either ends the process.
SetUid == Call("setuid", "loop", [cred EXCEPT !.uid = passwd.uid])

-----------------------------------------------------------------------------

\* The process ends, if it has not, and systemd starts another one.  The
\* destructor removes the socket, if the user it has become may do so.
Restart ==
    /\ startPc \in {"failed", "no group", "loop"}
    /\ StartGoto("config")
    /\ cred' = begun
    /\ socket' \in IF startPc = "loop" THEN {socket, None} ELSE {socket}

StartNext ==
    \/ Prepare \/ Bind \/ HandOver
    \/ LookUpIds \/ SetGid \/ SetGroups \/ InitGroups \/ SetUid
    \/ Restart

StartSpec == StartInit /\ [][StartNext]_startVars

-----------------------------------------------------------------------------
(* Properties *)

\* Whatever failed on the way and in the starts before: a daemon that was
\* started as root handles datagrams as the configured user and group, it has
\* kept no group of root's but one that is the user's own, and the socket its
\* clients find belongs to the very same user and group.
ServesAsUser ==
    startPc = "loop" /\ begun.uid = 0 =>
        /\ hasUser /\ cred.uid = passwd.uid /\ cred.uid # 0
        /\ hasGroup /\ cred.gid = group /\ cred.gid # 0
        /\ cred.groups \subseteq passwd.groups \cup {group}
        /\ socket = [uid |-> cred.uid, gid |-> cred.gid]

=============================================================================
