\* No kernel failures: every connection removes its address before it is
\* given back.  ipsec-interface=0 is remapped to if_id 3 ("ipsec0").
\* i1 is an instance cloned from c1.
CONSTANTS
    c1 = c1  c2 = c2  c3 = c3  i1 = i1  x1 = x1  x2 = x2  noCidr = noCidr
    Conns <- MCInstConns
    Cidrs <- MCCidrs
    NoCidr = noCidr
    ConnCidr <- MCConnCidrInst
    Values <- MCValuesMapped
    UINT32_MAX = 4
    MapIfIdZero = 3
    PreDevices = {2}
    PreIps <- MCPreIps
    BadDevices = {}
    KernelCanFail = FALSE
    MaxRefcnt = 3
    TemplateOf <- MCTemplateOf
SPECIFICATION Spec
INVARIANTS
    TypeOK
    InterfaceRefsAreAttachments
    AddressRefsAreHolders
    AddedConnHasAddress
    NoUntrackedKernelAddress
PROPERTY
    DevicesRefined
