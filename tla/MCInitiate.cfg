\* Four connections, two instance slots, one DNS name resolving to P1; the
\* addresses are ip_address values, and the address operations they go
\* through are checked against their references.
CONSTANTS
    A = A  B = B  C = C  D = D  F = F  S1 = S1  S2 = S2
    N1 = N1  NULL = NULL
    Conns = {A, B, C, D, F}
    Slots = {S1, S2}
    Local <- MCLocal
    Peers <- MCPeers
    DnsNames = {N1}
    Config <- MCConfig
    Ends0 <- MCEnds
    Kind0 <- MCKind
    Resolve <- MCResolve
    Interfaces0 <- MCInterfaces
    AddOrder <- MCAddOrder
SPECIFICATION Spec
INVARIANTS
    TypeOK
    OrientMatchesReference
    OrientedOnThisEnd
    InstancesAreUp
    BlitMatchesReference
    AddressKindsPartition
PROPERTIES
    DdnsResolves
