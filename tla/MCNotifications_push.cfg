SPECIFICATION Spec
CONSTANTS
    u1 = u1
    u2 = u2
    d1 = d1
    d2 = d2
    p1 = p1
    p2 = p2
    t1 = t1
    Users = {u1, u2}
    Devices = {d1, d2}
    Topics = {t1}
    Procs = {p1, p2}
    None = none
    MaxRegistrations = 2
    MaxMishaps = 2
CHECK_DEADLOCK FALSE
SYMMETRY Alike
INVARIANTS PushedAtMostOnce StatusIsEarned
