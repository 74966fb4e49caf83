\* Bits of 11 edges, so that half a bit is more than the receiver's latency.
SPECIFICATION FairUartSpec
CONSTANTS
    period = 10
    Skew = 2
    Byte <- MCByte
INVARIANT
    UartTypeOK
PROPERTIES
    KeepsBytes
    BytesArrive
