\* The result of get_active_user, when no session is asked for its user.
CONSTANTS
    SessionLists <- MCSessionLists
    Users = {1000, 1001}
    Nobody = Nobody
SPECIFICATION SessSpec
INVARIANTS PositiveMeansFound
CHECK_DEADLOCK FALSE
