CONSTANTS
    P = P
    T = T
    I = I
    Conns <- PermConns
    Config <- PermV2
    MaxSA = 3
    BROKEN_TRANSITION = TRUE
    KernelCanFail = {}
    Admin = FALSE
SPECIFICATION Spec
INVARIANT NoNullDeref
