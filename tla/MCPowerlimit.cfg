\* Two processes with every kind of job, failures, kills, orphans and reboots.
CONSTANTS
    Process = {p1, p2}
    Profile = {"default", "turbo"}
    Limits <- MCLimits
    Default = "default"
    Tdp = {7000, 45000, 46000}
    Fast <- MCFast
    Slow <- MCSlow
    TdpMin = 8000
    TdpMax = 54000
    UIntMod = 131072
    BootLimits <- Boot
    None = None
SPECIFICATION FairSpec
INVARIANTS OneAdjuster ProfileInForce LimitsRestored
PROPERTIES SignalledEnds ImplementsLease
