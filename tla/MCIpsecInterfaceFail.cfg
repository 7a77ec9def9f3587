\* ip_link_add, ip_addr_add and ip_link_set_up may fail; device ipsec2
\* exists but is not an XFRMi device; ipsec-interface=0 is not remapped.
CONSTANTS
    c1 = c1  c2 = c2  c3 = c3  i1 = i1  x1 = x1  x2 = x2  noCidr = noCidr
    Conns <- MCConns
    Cidrs <- MCCidrs
    NoCidr = noCidr
    ConnCidr <- MCConnCidr
    Values <- MCValues
    UINT32_MAX = 4
    MapIfIdZero = 0
    PreDevices = {2}
    PreIps <- MCPreIps
    BadDevices = {2}
    KernelCanFail = TRUE
    MaxRefcnt = 3
    TemplateOf <- MCNoInstances
SPECIFICATION Spec
INVARIANTS
    TypeOK
    InterfaceRefsAreAttachments
PROPERTY
    DevicesRefined
