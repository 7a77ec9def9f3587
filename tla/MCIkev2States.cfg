\* One SA in every state, receiving every message built from the table.
CONSTANT MsgSpace <- MCMsgSpace
SPECIFICATION Spec
INVARIANT TypeOK
INVARIANT DispatchConformsToTransition
INVARIANT SecuredFailureFlagged
INVARIANT EstablishOnlyAuthenticated
INVARIANT RekeyDisambiguation
