SPECIFICATION Spec
CONSTANTS
    rent = rent
    deposit = deposit
    w1 = w1
    w2 = w2
    job = job
    k1 = k1
    none = none
    Invoices <- TwoBills
    Category <- MCCategory
    Due <- MCDue
    Opening <- OneEach
    Workers = {w1, w2}
    Nightly = job
    Keys = {k1}
    NoKey = none
    Ops = {"pay", "settle"}
    Amounts = {1}
    Forgives = {}
    Deltas <- PlusMinusOne
    Corrections = {2}
    GraceDays = 2
    PerDay = 1
    Cap = 0
    NewYear = 2
    MaxDay = 2
    MaxPayments = 1
    MaxSettlements = 1
    MaxCharges = 3
    MaxInFlight = 2
    LastAbort = 0
CHECK_DEADLOCK FALSE
SYMMETRY WorkerSymmetry
INVARIANTS KeySpentOnce ReceiptsGapless SettlementsGapless DepositReadHolds
