--------------------------- MODULE PingKeepAlive ---------------------------
(***************************************************************************)
(* net_ps2: keeps the link to a game console up.  It sends pings in rounds *)
(* and counts the answers; after a round with few of them it restarts the  *)
(* network interface.  A signal ends it after the round.                   *)
(*                                                                         *)
(* The round runs in a subshell: the signal handler is not inherited, and  *)
(* alive_loop is a copy, which stays 1.                                    *)
(***************************************************************************)
EXTENDS Integers

CONSTANTS
    Pings,      \* the pings of a round (15)
    MinReplies  \* the answers an interface needs to be left alone (3)

VARIABLES
    ps2Pc,      \* where the program is; "ended" is over
    aliveLoop,  \* alive_loop
    count,      \* the pings of this round so far
    replies,    \* those counted as answered
    answered    \* history: those that were

ps2Vars == <<ps2Pc, aliveLoop, count, replies, answered>>

NewRound(label) == ps2Pc' = label /\ count' = 0 /\ replies' = 0 /\ answered' = 0

PingInit ==
    /\ ps2Pc = "start"
    /\ aliveLoop = 0
    /\ count = 0 /\ replies = 0 /\ answered = 0

BeginPs2 ==
    /\ ps2Pc = "start"
    /\ aliveLoop' = 1
    /\ NewRound("ping")

\* $? is the status of the "if" before it, which is 0: that of ping is gone.
Ping ==
    /\ ps2Pc = "ping"
    /\ answered' \in {answered, answered + 1}
    /\ replies' = replies + 1
    /\ count' = count + 1
    /\ ps2Pc' = IF count' = Pings THEN "judge" ELSE "ping"
    /\ UNCHANGED aliveLoop

JudgeRound ==
    /\ ps2Pc = "judge"
    /\ UNCHANGED aliveLoop
    /\ \/ /\ aliveLoop = 0 /\ ps2Pc' = "ended"
          /\ UNCHANGED <<count, replies, answered>>
       \/ /\ aliveLoop = 1
          /\ NewRound(IF replies < MinReplies THEN "restart" ELSE "ping")

\* ip link set down, networkctl reconfigure.
RestartInterface ==
    /\ ps2Pc = "restart"
    /\ ps2Pc' = "ping"
    /\ UNCHANGED <<aliveLoop, count, replies, answered>>

\* A signal to the program, or to its subshell, too, which it ends.
SignalPs2 ==
    /\ ps2Pc \notin {"start", "ended"} /\ aliveLoop = 1
    /\ aliveLoop' = 0
    /\ ps2Pc' \in {ps2Pc} \cup {l \in {"judge"} : ps2Pc = "ping"}
    /\ UNCHANGED <<count, replies, answered>>

PingNext == BeginPs2 \/ Ping \/ JudgeRound \/ RestartInterface \/ SignalPs2

PingSpec == PingInit /\ [][PingNext]_ps2Vars

-----------------------------------------------------------------------------
(* Properties *)

\* "info: high ping loss, restarting interface...": a round with fewer than
\* MinReplies answers, after which no signal has come, is followed by a restart.
LossRestarts ==
    [][ps2Pc = "judge" /\ aliveLoop = 1 /\ aliveLoop' = 1 /\ answered < MinReplies
        => ps2Pc' = "restart"]_ps2Vars

=============================================================================
