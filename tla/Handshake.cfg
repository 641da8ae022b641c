SPECIFICATION Spec
CONSTANTS
    ClientOptions <- AllOptions
    ServerOptions <- AllOptions
    ClientProtocols <- ClientLists
    ServerProtocols <- ServerLists
    NoProtocol = ""
INVARIANTS WindowsMatch SubprotocolAgrees
PROPERTY HandshakeEnds
CHECK_DEADLOCK FALSE
