\* Rounds of four pings, of which two have to be answered.
CONSTANTS
    Pings = 4
    MinReplies = 2
SPECIFICATION PingSpec
PROPERTY LossRestarts
CHECK_DEADLOCK FALSE
