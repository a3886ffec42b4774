CONSTANTS
    s1 = s1
    s2 = s2
    Slots <- MCSlots
    Names <- MCNames
    Hostname64 <- MCHostname64
    MaxMessages = 1
    AIDomains <- MCAIDomains
    Answers <- MCAnswers
    NoKey = NoKey
    NoHost = NoHost
    NoIP = NoIP
    BigEndian = FALSE
SPECIFICATION svcSpec
INVARIANT AnyOrderComplete
CHECK_DEADLOCK FALSE
