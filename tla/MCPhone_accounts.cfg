SPECIFICATION Spec
CONSTANTS
    p1 = p1
    Phones = {p1}
    MaxToken = 4
    MaxPassword = 1
    MaxCalls = 2
    Callers <- MCCallers
    None = none
    Threshold = 1
    Grace = 120
    Timeout = 120
    Limited = {"login", "signup"}
    MaxLosses = 1
    MaxFailures = 0
    Users = {"login", "signup", "logout", "change", "ask"}
    Silent = TRUE
    Elsewhere = TRUE
CHECK_DEADLOCK FALSE
INVARIANTS TypeOK RotationStrandsNobody OneRenewalPerToken
PROPERTY LostAnswerForgiven
