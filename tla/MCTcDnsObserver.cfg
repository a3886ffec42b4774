CONSTANTS
    c1 = c1
    c2 = c2
    m = m
    CPUs <- MCCPUs
    Messages <- MCMessages
    Skbs <- MCSkbs
    NoSkb = NoSkb
    NoEvent = NoEvent
    DnsRingCap = 2
    MaxPackets = 4
SPECIFICATION TcSpec
INVARIANT TcTypeOK
INVARIANT ReservationSettled
INVARIANT ReadableWellFormed
INVARIANT ShortPayloadWhole
PROPERTY RingDrains
CHECK_DEADLOCK FALSE
