SPECIFICATION Spec
CONSTANTS
    s1 = s1
    s2 = s2
    s3 = s3
    p1 = p1
    p2 = p2
    Stays = {s1, s2, s3}
    Procs = {p1}
    None = none
    FirstDay = 2
    MaxDay = 4
    MaxMishaps = 0
    MaxCalls = 1
CHECK_DEADLOCK FALSE
SYMMETRY Alike
INVARIANT MonthStartCatchesAll
