SPECIFICATION Spec
CONSTANTS
    hub = hub
    lobby = lobby
    ServerNames = {hub, lobby}
    Null = Null
INVARIANTS
    TypeOK
    LookupsSeeAllServers
    NullOnlyInShutdown
PROPERTIES
    ShutdownEnds
