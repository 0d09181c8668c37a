\* Two programs, every mode, failing transfers and kills anywhere.
CONSTANTS
    Proc = {p1, p2}
    MaxRuns = 3
    Arguments = {7, 20}
    UnsignedRange = 16
    Directories <- MCDirectories
    Garbage = {9}
    Leftover = {3, 77}
    PowerOn <- MCPowerOn
SPECIFICATION Spec
SYMMETRY Symmetry
INVARIANTS LookupExact SuccessExact NoMadeUpValue
PROPERTIES OnlyWholeEffectsHeard
CHECK_DEADLOCK FALSE
