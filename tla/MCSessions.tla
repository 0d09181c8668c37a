----------------------------- MODULE MCSessions -----------------------------
(* Model checking instance of LoginSessions. *)
EXTENDS LoginSessions

\* Up to two sessions of two users, everything else at will.
MCSessionLists ==
    UNION {[1 .. n -> [remote: BOOLEAN, active: BOOLEAN, uid: {1000, 1001}, wayland: BOOLEAN]] :
              n \in 0 .. 2}

=============================================================================
