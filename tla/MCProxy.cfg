CONSTANTS
    Requests <- MCRequests
    MaxAnswer = 2
    httpReadBufSize = 2
    httpMaxHeaderBuf = 4
SPECIFICATION Spec
INVARIANT TypeOK
INVARIANT InOrder
INVARIANT CutOnlyAtTheEnd
INVARIANT EndsByPeer
INVARIANT ClosingSideDelivered
PROPERTY PeekEnds
PROPERTY NoGoroutineLeft
CHECK_DEADLOCK FALSE
