\* Polls, suspends and a charger that comes and goes.
CONSTANTS
    Threshold = 50
    Interval = 3
    Cooldown = 2
    Full = 8
SPECIFICATION Spec
INVARIANTS RespondsInTime SuspendJustified AwakeBetweenSuspends
