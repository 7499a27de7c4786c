SPECIFICATION FairSpec
CONSTANTS
    p1 = p1
    Phones = {p1}
    MaxToken = 5
    MaxPassword = 0
    MaxCalls = 2
    Callers <- MCCallers
    None = none
    Threshold = 2
    Grace = 120
    Timeout = 120
    Limited = {"login", "refresh"}
    MaxLosses = 2
    MaxFailures = 0
    Users = {"login", "ask"}
    Silent = TRUE
    Elsewhere = FALSE
CHECK_DEADLOCK FALSE
INVARIANT SignedInHoldsToken
PROPERTY LaunchRecovers
