SPECIFICATION Spec
CONSTANTS
    rent = rent
    deposit = deposit
    w1 = w1
    w2 = w2
    job = job
    k1 = k1
    none = none
    Invoices <- OneBill
    Category <- MCCategory
    Due <- MCDue
    Opening <- MCOpening
    Workers = {w1, w2}
    Nightly = job
    Keys = {}
    NoKey = none
    Ops = {"pay", "settle", "fee"}
    Amounts = {1, 2}
    Forgives = {1, 2}
    Deltas <- PlusMinusOne
    Corrections = {}
    GraceDays = 0
    PerDay = 1
    Cap = 2
    NewYear = 2
    MaxDay = 2
    MaxPayments = 1
    MaxSettlements = 1
    MaxCharges = 3
    MaxInFlight = 2
    LastAbort = 2
CHECK_DEADLOCK FALSE
SYMMETRY WorkerSymmetry
INVARIANTS CheckedUnderLock TypeOK PaidIsAllocated
PROPERTIES ImplementsLedger SettlementLeavesPaidPart
