\* A TDP inside the bounds.
CONSTANTS
    Process = {p1, p2}
    Profile = {"default", "turbo"}
    Limits <- MCLimits
    Default = "default"
    Tdp = {30000}
    Fast <- MCFast
    Slow <- MCSlow
    TdpMin = 8000
    TdpMax = 54000
    UIntMod = 131072
    BootLimits <- Boot
    None = None
SPECIFICATION Spec
INVARIANT TdpInForce
