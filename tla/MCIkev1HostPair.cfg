\* Every database of two connections and every message: Main Mode's loop
\* agrees with its declarative reading.
CONSTANTS
    N = 2
    ConnSpace <- MCConnSpace
    MdSpace <- MCMdSpace
    Sender <- MCSender
SPECIFICATION Spec
INVARIANTS
    TypeOK
    MainModeMatchesReference
