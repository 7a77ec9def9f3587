\* An IKEv1 permanent connection with a failure shunt beside an IKEv2
\* routable template and its instance; the IKEv1 connection's kernel
\* calls may fail.
CONSTANTS
    P = P
    T = T
    I = I
    Conns <- MixConns
    Config <- V1TemplateInstance
    MaxSA = 3
    BROKEN_TRANSITION = TRUE
    KernelCanFail = {P}
    Admin = FALSE
SPECIFICATION Spec
INVARIANTS
    TypeOK
    OwnersAreLive
    TunnelHasNewestChild
PROPERTIES
    RoutedPermanentStaysRouted
