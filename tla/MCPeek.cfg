CONSTANTS
    Hellos <- MCHellos
    Records <- MCRecords
    CR = CR
    LF = LF
    SP = SP
    Key = Key
    Raw = Raw
    Short = Short
    Long = Long
    Cont = Cont
    ch1 = ch1
    ch2 = ch2
    Lines <- MCLines
    Bodies <- MCBodies
    MaxLines = 3
    httpReadBufSize = 6
    httpMaxHeaderBuf = 12
SPECIFICATION peekSpec
INVARIANT TypeOK
INVARIANT InBounds
INVARIANT FindsName
PROPERTY Terminates
INVARIANT HostOfHead
INVARIANT CutHostIsPrefix
INVARIANT PanicNeedsGrowth
CHECK_DEADLOCK FALSE
