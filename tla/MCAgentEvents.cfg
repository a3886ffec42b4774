CONSTANTS
    dns = dns
    redirect = redirect
    Readers <- MCReaders
    RedirectReader = redirect
    MaxFaults = 3
    MaxEvents = 2
SPECIFICATION eventsSpec
INVARIANT TypeOK
INVARIANT RunningIsHooked
INVARIANT HookedIsSeeded
INVARIANT StaleOnlyIfAbrupt
PROPERTY RecoversUnlessStale
PROPERTY NeverMute
