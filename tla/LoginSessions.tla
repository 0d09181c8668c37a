--------------------------- MODULE LoginSessions ---------------------------
(***************************************************************************)
(* active_user and notify_wrapper: two programs that walk over the login   *)
(* sessions.  get_active_user looks for the user at the display;           *)
(* notify_wrapper for a Wayland session of the user it runs as, to whom it *)
(* then shows a notification.  A session may end while they walk; from     *)
(* then on every question about it fails.                                  *)
(***************************************************************************)
EXTENDS Integers, Sequences

CONSTANTS
    SessionLists,  \* what sd_get_sessions may return
    Users,         \* user ids
    Nobody         \* what *user_id was before the call

Session == [remote: BOOLEAN, active: BOOLEAN, uid: Users, wayland: BOOLEAN]

ASSUME SessionAssumption == SessionLists \subseteq Seq(Session) /\ Nobody \notin Users

VARIABLES
    sessPc,     \* "walk" in the loop; "found" and "none" are over
    program,    \* "active_user" or "notify_wrapper"
    sessions,   \* the list
    s,          \* the session the loop is at
    ret,        \* ret, which get_active_user returns: -1 stands for every error
    userId,     \* *user_id, or the user a notification is shown to
    euid,       \* geteuid() of notify_wrapper
    lost        \* history: the list, or an answer, was an error

sessVars == <<sessPc, program, sessions, s, ret, userId, euid, lost>>

SessInit ==
    /\ sessPc = "walk"
    /\ program \in {"active_user", "notify_wrapper"}
    /\ sessions \in SessionLists
    /\ s = 1
    /\ ret = Len(sessions)
    /\ userId = Nobody
    /\ euid \in Users
    /\ lost = FALSE

\* sd_get_sessions fails, or the walk is over (at once if there are none).
EndOfList ==
    /\ sessPc = "walk" /\ sessPc' = "none"
    /\ \/ s = 1 /\ ret' = -1 /\ lost' = TRUE
       \/ s > Len(sessions) /\ UNCHANGED <<ret, lost>>
    /\ UNCHANGED <<program, sessions, s, userId, euid>>

\* Mutant: the first session of the user's will do, at whatever display.
AnySessionMutant(x) == IF program = "active_user" THEN ~x.remote ELSE x.uid = euid

\* The sessions whose type is asked for.
Candidate(x) == IF program = "active_user" THEN ~x.remote /\ x.active ELSE x.uid = euid

Continue(result, error) ==
    /\ s' = s + 1
    /\ ret' = result
    /\ lost' = (lost \/ error)
    /\ UNCHANGED <<sessPc, program, sessions, userId, euid>>

\* Only the question for the user id assigns ret: get_active_user goes on to the
\* next session without it, and ret stays what it was, at first their number.
PassOver ==
    /\ sessPc = "walk" /\ s <= Len(sessions) /\ ~Candidate(sessions[s])
    /\ Continue(IF program = "active_user" THEN ret ELSE 0, FALSE)

\* The session has ended.  sd_session_is_remote's error counts as remote; that
\* of sd_session_is_active does not count as inactive, but the next one is
\* noticed.
Gone ==
    /\ sessPc = "walk" /\ s <= Len(sessions)
    /\ \/ program = "active_user" /\ Continue(ret, TRUE)
       \/ (program = "active_user" => ~sessions[s].remote) /\ Continue(-1, TRUE)

OtherType ==
    /\ sessPc = "walk" /\ s <= Len(sessions) /\ Candidate(sessions[s])
    /\ ~sessions[s].wayland
    /\ Continue(0, FALSE)

\* notify_wrapper's notify-send gets the runtime directory of euid; its ret is
\* the answer to the question for the type.
Found ==
    /\ sessPc = "walk" /\ s <= Len(sessions) /\ Candidate(sessions[s])
    /\ sessions[s].wayland
    /\ sessPc' = "found"
    /\ ret' = IF program = "active_user" THEN 1 ELSE 0
    /\ userId' = IF program = "active_user" THEN sessions[s].uid ELSE euid
    /\ UNCHANGED <<program, sessions, s, euid, lost>>

SessNext == EndOfList \/ PassOver \/ Gone \/ OtherType \/ Found

SessSpec == SessInit /\ [][SessNext]_sessVars

-----------------------------------------------------------------------------
(* Properties *)

AtDisplay(x) ==
    x.wayland /\ IF program = "active_user" THEN ~x.remote /\ x.active ELSE x.uid = euid

\* The user that is reported sits at a local, active Wayland session, and the
\* user that is notified has a Wayland session; it is the first one listed, and
\* nobody is found only when nobody is there, unless a question failed.  What
\* get_active_user returns is 1 when it has found the user; otherwise it is the
\* number of the sessions, if all of them were passed over as remote or
\* inactive, or 0.
UserAtDisplay ==
    /\ sessPc = "found" => /\ AtDisplay(sessions[s]) /\ userId = sessions[s].uid
                           /\ ~lost => \A k \in 1 .. s - 1 : ~AtDisplay(sessions[k])
    /\ sessPc = "none" => /\ userId = Nobody
                          /\ ~lost => \A k \in DOMAIN sessions : ~AtDisplay(sessions[k])
    /\ program = "active_user" =>
          /\ sessPc = "found" => ret = 1
          /\ sessPc = "none" /\ ~lost =>
                ret = IF \A k \in DOMAIN sessions : sessions[k].remote \/ ~sessions[k].active
                      THEN Len(sessions) ELSE 0

\* "*user_id = session_uid; ret = 1;": get_active_user returns a positive number
\* when *user_id is set, and only then.
PositiveMeansFound ==
    program = "active_user" /\ sessPc \in {"found", "none"} => (ret > 0 <=> userId # Nobody)

=============================================================================
