\* A connection whose add failed before it took its address reference is
\* removed while another connection on the same interface and CIDR is up.
CONSTANTS
    c1 = c1  c2 = c2  c3 = c3  i1 = i1  x1 = x1  x2 = x2  noCidr = noCidr
    Conns <- MCConns
    Cidrs <- MCCidrs
    NoCidr = noCidr
    ConnCidr <- MCConnCidr
    Values <- MCValues
    UINT32_MAX = 4
    MapIfIdZero = 3
    PreDevices = {2}
    PreIps <- MCPreIps
    BadDevices = {}
    KernelCanFail = TRUE
    MaxRefcnt = 3
    TemplateOf <- MCNoInstances
SPECIFICATION Spec
INVARIANT AddedConnHasAddress
