\* Aggressive Mode over the same databases: an exact-peer template is
\* returned with connection_addref(), not instantiated.
CONSTANTS
    N = 2
    ConnSpace <- MCConnSpace
    MdSpace <- MCMdSpace
    Sender <- MCSender
SPECIFICATION Spec
INVARIANT AggrModeNeverOnTemplate
