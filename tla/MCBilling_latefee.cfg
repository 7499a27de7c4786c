SPECIFICATION Spec
CONSTANTS
    rent = rent
    deposit = deposit
    w1 = w1
    w2 = w2
    job = job
    k1 = k1
    none = none
    Invoices <- OneBill
    Category <- MCCategory
    Due <- MCDue
    Opening <- MCOpening
    Workers = {w1}
    Nightly = job
    Keys = {}
    NoKey = none
    Ops = {"pay", "settle", "fee"}
    Amounts = {1, 2}
    Forgives = {1, 2}
    Deltas <- PlusMinusOne
    Corrections = {}
    GraceDays = 0
    PerDay = 1
    Cap = 2
    NewYear = 3
    MaxDay = 4
    MaxPayments = 2
    MaxSettlements = 1
    MaxCharges = 3
    MaxInFlight = 1
    LastAbort = 4
CHECK_DEADLOCK FALSE
INVARIANTS StatusIsDerived ForgivenStaysForgiven
PROPERTIES ClearedFeeStopsGrowing MissedNightSelfHeals
