CONSTANTS
    c1 = c1
    s1 = s1
    s2 = s2
    mAlias = mAlias
    mApex = mApex
    mOther = mOther
    CPUs <- MCCPUs
    Messages <- MCMessages
    Skbs <- MCSkbs
    NoSkb = NoSkb
    NoEvent = NoEvent
    DnsRingCap = 2
    MaxPackets = 2
    Slots <- MCSlots
    Names <- MCNames
    Hostname64 <- MCHostname64
    NoKey = NoKey
    NoHost = NoHost
    BigEndian = FALSE
    AIDomains <- MCAIDomains
    Answers <- MCAnswers
    NoIP = NoIP
    MaxMessages = 2
    Threads <- MCThreads
    TgidOf <- MCTgidOf
    Targets <- MCTargets
    ProxyIP <- MCProxyIP
    ProxyPort = 8443
    RedirectRingCap = 1
    MaxConnects = 2
    NoCall = NoCall
    Torn = Torn
    Contents <- MCContents
SPECIFICATION Spec
INVARIANT LoggedHostMatchesIP
CHECK_DEADLOCK FALSE
