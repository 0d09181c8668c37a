\* Two threads that only read.
CONSTANTS
    Thread = {t1, t2}
    File = {f1}
    HighSize = 2
    LowSize = 2
    BufferSize = 2
    LenMax = 3
    UIntMod = 16
    Byte = {0, 1}
    ZeroByte = 0
    Request <- ReadRequests
    NoOne = NoOne
SPECIFICATION Spec
INVARIANT ReadReturnsRequestedBytes
