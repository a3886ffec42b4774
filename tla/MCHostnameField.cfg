CONSTANTS
    MAX_HOSTNAME_LEN = 3
    Hosts <- MCHosts
SPECIFICATION Spec
INVARIANT TypeOK
INVARIANT LoggedIsName
