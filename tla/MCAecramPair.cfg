\* Two threads on one file, transfers at the edges of the address space.
CONSTANTS
    Thread = {t1, t2}
    File = {f1}
    HighSize = 2
    LowSize = 2
    BufferSize = 2
    LenMax = 3
    UIntMod = 16
    Byte = {0, 1}
    ZeroByte = 0
    Request <- EdgeRequests
    NoOne = NoOne
SPECIFICATION Spec
SYMMETRY Symmetry
INVARIANTS TransferInBounds SessionAlive AccessHitsTarget SoloTransferExact
PROPERTIES RamChangesOnlyAtTarget ImplementsBytes
