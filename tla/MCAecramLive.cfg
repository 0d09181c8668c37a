\* Progress of two threads that contend for the mutex.
CONSTANTS
    Thread = {t1, t2}
    File = {f1}
    HighSize = 2
    LowSize = 2
    BufferSize = 2
    LenMax = 3
    UIntMod = 16
    Byte = {0, 1}
    ZeroByte = 0
    Request <- LiveRequests
    NoOne = NoOne
SPECIFICATION FairSpec
PROPERTY TransferReturns
