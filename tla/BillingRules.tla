---------------------------- MODULE BillingRules ----------------------------
(***************************************************************************)
(* The arithmetic of a bill: late fee, total and status.                   *)
(* apps/api/src/modules/billing/billing.calculations.ts and the figures    *)
(* that recomputeInvoice (invoice.service.ts) writes.                      *)
(*                                                                         *)
(* Days are positive integers and NoDay stands for a null date.  Money is  *)
(* an integer number of paise.                                             *)
(***************************************************************************)
EXTENDS Integers

CONSTANTS
    GraceDays,  \* settings.graceDays
    PerDay,     \* settings.lateFeePerDayPaise
    Cap         \* settings.lateFeeCapPaise

ASSUME SettingsAssumption ==
    /\ GraceDays \in Nat
    /\ PerDay \in Nat
    /\ Cap \in Nat

NoDay == 0

AtLeast(a, b) == IF a >= b THEN a ELSE b
AtMost(a, b)  == IF a <= b THEN a ELSE b

Categories == {"RENT", "ELECTRICITY", "DEPOSIT"}
Payable    == {"ISSUED", "PARTIALLY_PAID", "OVERDUE"}
Statuses   == Payable \cup {"PAID"}

(* Mutant: measured to today although the bill is settled.                 *)
calculateLateFee_ToToday(due, asOf, settledOn, waived, owed) ==
    IF waived \/ (owed <= 0 /\ settledOn = NoDay) \/ asOf <= due + GraceDays THEN 0
    ELSE AtMost((asOf - due - GraceDays) * PerDay, Cap)

(* The late fee of a bill: nothing until due + grace has passed, measured  *)
(* to the settling day when there is one, else to asOf, at most Cap.       *)
calculateLateFee(due, asOf, settledOn, waived, owed) ==
    LET measureTo   == IF settledOn = NoDay THEN asOf ELSE settledOn
        overdueDays == measureTo - (due + GraceDays)
    IN  IF \/ waived
           \/ owed <= 0 /\ settledOn = NoDay
           \/ overdueDays <= 0
        THEN 0
        ELSE AtMost(overdueDays * PerDay, Cap)

(* Mutant: a bill paid to the paisa is not PAID.                           *)
deriveInvoiceStatus_Strict(total, paid, due, asOf, canBeOverdue) ==
    IF paid > total THEN "PAID"
    ELSE IF canBeOverdue /\ asOf > due THEN "OVERDUE"
    ELSE IF paid > 0 THEN "PARTIALLY_PAID" ELSE "ISSUED"

deriveInvoiceStatus(total, paid, due, asOf, canBeOverdue) ==
    IF paid >= total THEN "PAID"
    ELSE IF canBeOverdue /\ asOf > due THEN "OVERDUE"
    ELSE IF paid > 0 THEN "PARTIALLY_PAID"
    ELSE "ISSUED"

(* What a bill's own lines add up to, its LATE_FEE line left out. Charges  *)
(* is the sum of the rent, electricity, deposit, OTHER and DISCOUNT lines, *)
(* settled what its SETTLEMENT lines take off.                             *)
principal(b) == b.charges - b.settled

cleared(b) == b.paid >= principal(b)

(* The day the balance was cleared: the later of the last payment and the  *)
(* last settlement, NoDay when neither cleared it.                         *)
clearedOn(b, latestPayment) ==
    LET paidOn     == IF cleared(b) /\ b.paid > 0 THEN latestPayment ELSE NoDay
        settledDay == IF cleared(b) THEN b.settledOn ELSE NoDay
    IN  AtLeast(paidOn, settledDay)

(* Mutant: the forgiven part is charged again.                             *)
chargedFee_Unforgiven(category, due, b, latestPayment, today) ==
    IF category # "RENT" THEN 0
    ELSE calculateLateFee(due, today, clearedOn(b, latestPayment), b.waived,
                          AtLeast(0, principal(b) - b.paid))

(* Mutant: one more day's fee is appended each time.                       *)
chargedFee_Appended(category, due, b, latestPayment, today) ==
    IF category # "RENT" \/ today <= due + GraceDays \/ cleared(b) THEN b.fee
    ELSE AtMost(b.fee + PerDay, Cap)

(* Mutant: a fee below what was forgiven goes negative.                    *)
chargedFee_Negative(category, due, b, latestPayment, today) ==
    IF category # "RENT" THEN 0
    ELSE calculateLateFee(due, today, clearedOn(b, latestPayment), b.waived,
                          AtLeast(0, principal(b) - b.paid)) - b.forgiven

(* The fee that recomputeInvoice puts on the bill's one LATE_FEE line; 0   *)
(* means that the line does not exist.                                     *)
chargedFee(category, due, b, latestPayment, today) ==
    IF category # "RENT" THEN 0
    ELSE AtLeast(0, calculateLateFee(due, today, clearedOn(b, latestPayment), b.waived,
                                     AtLeast(0, principal(b) - b.paid))
                    - b.forgiven)

(* The bill as recomputeInvoice leaves it.                                 *)
recomputed(category, due, b, latestPayment, today) ==
    LET fee   == chargedFee(category, due, b, latestPayment, today)
        total == principal(b) + fee
    IN  [b EXCEPT !.fee = fee,
                  !.total = total,
                  !.status = deriveInvoiceStatus(total, b.paid, due, today,
                                                 category # "ELECTRICITY")]

(* What payments.service.ts and the views call outstandingPaise.           *)
outstanding(b) == AtLeast(0, b.total - b.paid)

(* Mutant: what was already paid is not taken off.                         *)
outstandingPrincipal_Unpaid(b) == AtLeast(0, principal(b))

(* settlements.service.ts: still owed on the bill itself, fee left out.    *)
outstandingPrincipal(b) == AtLeast(0, principal(b) - b.paid)
=============================================================================
