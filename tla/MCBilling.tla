----------------------------- MODULE MCBilling -----------------------------
EXTENDS BillingProperties, TLC

CONSTANTS rent, deposit, w1, w2, job, k1, none

OneBill   == {rent}
TwoBills  == {rent, deposit}
MCCategory == [i \in Invoices |-> IF i = deposit THEN "DEPOSIT" ELSE "RENT"]
MCDue      == [i \in Invoices |-> 1]
MCOpening  == [i \in Invoices |-> 2]
OneEach    == [i \in Invoices |-> 1]
WorkerSymmetry == Permutations(Workers)

PlusMinusOne == {-1, 1}
=============================================================================
