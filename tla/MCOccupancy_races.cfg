SPECIFICATION Spec
CONSTANTS
    w1 = w1
    w2 = w2
    u1 = u1
    u2 = u2
    Users = {u1}
    Stays = {s1, s2}
    Rooms = {r1}
    Beds = {b1, b2}
    AllocationIds = {a1, a2, a3}
    Workers = {w1, w2}
    Nightly = job
    None = none
    Gone = gone
    Days = {1}
    Periods = {2}
    Capacities = {1, 2}
    Ops = {"create", "move", "exit", "room", "resize", "unroom"}
    MaxInFlight = 2
CHECK_DEADLOCK FALSE
SYMMETRY WorkerSymmetry
INVARIANTS TypeOK OccupiedBedsAreHeld AllocatedBedsExist
PROPERTY ImplementsRegister
