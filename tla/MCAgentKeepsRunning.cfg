CONSTANTS
    dns = dns
    redirect = redirect
    Readers <- MCReaders
    RedirectReader = redirect
    MaxFaults = 3
    MaxEvents = 2
SPECIFICATION eventsSpec
PROPERTY KeepsRunning
