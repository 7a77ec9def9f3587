CONSTANTS
    P = P
    T = T
    I = I
    Conns <- PermConns
    Config <- PermV2
    MaxSA = 3
    BROKEN_TRANSITION = TRUE
    KernelCanFail = {}
    Admin = TRUE
SPECIFICATION Spec
INVARIANTS
    TypeOK
    OwnersAreLive
    TunnelHasNewestChild
PROPERTIES
    RoutedPermanentStaysRouted
