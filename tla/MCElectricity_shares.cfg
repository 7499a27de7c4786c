SPECIFICATION Spec
CONSTANTS
    s1 = s1
    s2 = s2
    r1 = r1
    r2 = r2
    w1 = w1
    w2 = w2
    Stays = {s1, s2}
    Rooms = {r1, r2}
    Workers = {w1, w2}
    Job = job
    None = none
    Histories <- MCHistories
    Amounts = {4}
    MaxCalls = 3
    MaxMishaps = 1
CHECK_DEADLOCK FALSE
SYMMETRY Alike
INVARIANTS TypeOK ReadingsFormChains BillsFollowReadings
PROPERTY SharesAreExact
