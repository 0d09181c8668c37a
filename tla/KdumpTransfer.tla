--------------------------- MODULE KdumpTransfer ---------------------------
(***************************************************************************)
(* How the dump of a crashed machine gets to a file: the end of the crash  *)
(* kernel's linuxrc, which waits until the receiver has answered some      *)
(* pings in a row, pipes makedumpfile to nc and reboots, whatever became   *)
(* of it; and kdump_recv.sh, which socat starts for each connection.       *)
(*                                                                         *)
(* A link that is down when a crash kernel gives up or ends its connection *)
(* leaves the receiver with one that never ends.                           *)
(***************************************************************************)
EXTENDS Integers, Sequences

CONSTANTS
    Machines,       \* machines that send their dumps to the receiver
    Pongs,          \* the answers in a row that linuxrc waits for (5)
    Pieces,         \* the pieces of a dump
    Seconds,        \* what the receiver's clock may show
    MaxDumps        \* bound: how many connections are made

ASSUME KdumpAssumption == Pongs \in Nat \ {0} /\ Pieces \in Nat /\ 0 \notin Seconds

VARIABLES
    kernel,     \* each machine: "up", or where its crash kernel is
    pong,       \* kdump_receiver_pong
    online,     \* the machines that reach the receiver
    now,        \* date +%s
    recv,       \* the connections, one after the other
    dumps       \* for each second, the file kdump-<second>.dmp.xz: the connection
                \* it is of, and how many pieces of the dump it holds

kdumpVars == <<kernel, pong, online, now, recv, dumps>>

NoFile == [of |-> 0, pieces |-> 0]

\* A connection: at: the second in which its file was opened, name: the second in
\* the file's name, both 0 before; sent by nc and got by xz, in pieces; feed: "open", "eof",
\* or "cut" if the receiver will never hear of its end.
Opened(m) == [from |-> m, at |-> 0, name |-> 0, sent |-> 0, got |-> 0, feed |-> "open", done |-> FALSE]

KdumpInit ==
    /\ kernel = [m \in Machines |-> "up"]
    /\ pong = [m \in Machines |-> 0]
    /\ online = Machines
    /\ now \in Seconds
    /\ recv = <<>>
    /\ dumps = [t \in Seconds |-> NoFile]

-----------------------------------------------------------------------------
(* The crash kernel *)

Boots(m, label) == kernel' = [kernel EXCEPT ![m] = label]

Crash(m) ==
    /\ kernel[m] = "up" /\ Len(recv) < MaxDumps
    /\ Boots(m, "ping")
    /\ pong' = [pong EXCEPT ![m] = 0]
    /\ UNCHANGED <<online, now, recv, dumps>>

\* A ping that is not answered starts the count again.
PingReceiver(m) ==
    /\ kernel[m] = "ping"
    /\ \E answered \in BOOLEAN :
          /\ answered => m \in online
          /\ pong' = [pong EXCEPT ![m] = IF answered THEN @ + 1 ELSE 0]
    /\ IF pong'[m] = Pongs THEN Boots(m, "connect") ELSE UNCHANGED kernel
    /\ UNCHANGED <<online, now, recv, dumps>>

\* nc connects, or fails, and the machine reboots without a dump.
Connect(m) ==
    /\ kernel[m] = "connect"
    /\ \/ Boots(m, "up") /\ UNCHANGED recv
       \/ m \in online /\ Len(recv) < MaxDumps /\ Boots(m, "send") /\ recv' = Append(recv, Opened(m))
    /\ UNCHANGED <<pong, online, now, dumps>>

\* The connection of a machine that sends: its last one.
Conn(m) == CHOOSE i \in DOMAIN recv :
    recv[i].from = m /\ \A k \in i + 1 .. Len(recv) : recv[k].from # m

SendPiece(m) ==
    /\ kernel[m] = "send" /\ m \in online
    /\ recv[Conn(m)].sent < Pieces
    /\ recv' = [recv EXCEPT ![Conn(m)].sent = @ + 1]
    /\ UNCHANGED <<kernel, pong, online, now, dumps>>

\* makedumpfile is done, or nc gives up after 5 s without data or answers; the
\* machine is cleaned up and reboots.
HangUp(m) ==
    /\ kernel[m] = "send"
    /\ Boots(m, "up")
    /\ recv' = [recv EXCEPT ![Conn(m)].feed = IF m \in online THEN "eof" ELSE "cut"]
    /\ UNCHANGED <<pong, online, now, dumps>>

-----------------------------------------------------------------------------
(* kdump_recv.sh *)

\* Mutant: the name of the file is always the same.
OneNameMutant == CHOOSE t \in Seconds : TRUE

FileName == now

\* The shell asks for the date and truncates the file of that name.
OpenFile(i) ==
    /\ recv[i].name = 0
    /\ recv' = [recv EXCEPT ![i].at = now, ![i].name = FileName]
    /\ dumps' = [dumps EXCEPT ![FileName] = [of |-> i, pieces |-> 0]]
    /\ UNCHANGED <<kernel, pong, online, now>>

\* xz takes a piece; two of them at one file write over each other.
WriteFile(i) ==
    /\ recv[i].name # 0 /\ recv[i].got < recv[i].sent
    /\ recv' = [recv EXCEPT ![i].got = @ + 1]
    /\ dumps' = IF dumps[recv[i].name].of = i
                THEN [dumps EXCEPT ![recv[i].name].pieces = @ + 1]
                ELSE [dumps EXCEPT ![recv[i].name] = NoFile]
    /\ UNCHANGED <<kernel, pong, online, now>>

CloseFile(i) ==
    /\ recv[i].name # 0 /\ recv[i].feed = "eof" /\ recv[i].got = recv[i].sent
    /\ ~recv[i].done
    /\ recv' = [recv EXCEPT ![i].done = TRUE]
    /\ UNCHANGED <<kernel, pong, online, now, dumps>>

-----------------------------------------------------------------------------

\* The network, and the receiver's clock, which may be set back.
LinkChanges(m) ==
    /\ online' = IF m \in online THEN online \ {m} ELSE online \cup {m}
    /\ UNCHANGED <<kernel, pong, now, recv, dumps>>

ClockChanges ==
    /\ now' \in Seconds
    /\ UNCHANGED <<kernel, pong, online, recv, dumps>>

KdumpNext ==
    \/ \E m \in Machines : \/ Crash(m) \/ PingReceiver(m) \/ Connect(m)
                           \/ SendPiece(m) \/ HangUp(m) \/ LinkChanges(m)
    \/ \E i \in DOMAIN recv : OpenFile(i) \/ WriteFile(i) \/ CloseFile(i)
    \/ ClockChanges

KdumpSpec == KdumpInit /\ [][KdumpNext]_kdumpVars

-----------------------------------------------------------------------------
(* Properties *)

\* No other file was opened while the clock showed this second.
Alone(i) == \A k \in DOMAIN recv : k # i => recv[k].at # recv[i].at

\* A dump that was stored stays: the file of a connection holds what has arrived
\* on it and nothing else, whatever other machines send and however often this
\* one crashes again, unless two were opened in one second; and once it is
\* closed it holds all that was sent.  (That this is the whole dump, nobody
\* knows: nc may have given up.)
DumpsKept ==
    \A i \in DOMAIN recv : recv[i].name # 0 /\ Alone(i) =>
        /\ dumps[recv[i].name] = [of |-> i, pieces |-> recv[i].got]
        /\ recv[i].done => recv[i].got = recv[i].sent

=============================================================================
