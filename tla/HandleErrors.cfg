SPECIFICATION Spec
CONSTANTS
    MaxRecipients = 2
    MaxDevices = 2
INVARIANTS
    VerdictFollowsCause
    RetiredTokensRemoved
CHECK_DEADLOCK FALSE
