------------------------------ MODULE Billing ------------------------------
(***************************************************************************)
(* The bills of one resident and the transactions that change them:        *)
(* payments, settlements, ad-hoc charges and discounts, late-fee waivers,  *)
(* the nightly late-fee job and the overdue refresh of the bills screen.   *)
(*                                                                         *)
(* A request runs in one database transaction under READ COMMITTED.  inv   *)
(* and the tables hold committed rows only; what a transaction has read or *)
(* written so far is in pc, req, seen, feeLine and number.  The row locks  *)
(* it holds follow from where it is, so they are operators:                *)
(*   - SELECT ... FOR UPDATE on a bill (payments and settlements),         *)
(*   - FOR NO KEY UPDATE on a bill (any UPDATE of its row),                *)
(*   - FOR KEY SHARE on a bill (the foreign key of an inserted line),      *)
(*   - the row lock of the bill's LATE_FEE line and of a number sequence.  *)
(***************************************************************************)
EXTENDS BillingRules, Sequences, FiniteSets, Functions

CONSTANTS
    Invoices,       \* bills of the resident
    Category,       \* [Invoices -> Categories]
    Due,            \* [Invoices -> Nat], the due day
    Opening,        \* [Invoices -> Nat], what the bill was issued for
    Workers,        \* requests the server can be handling at once
    Nightly,        \* the nightly job, which runs its bills one at a time
    Keys, NoKey,    \* idempotency keys, and the absence of one
    Ops,            \* kinds of request this instance makes
    Amounts,        \* amounts a payment or settlement line may carry
    Forgives,       \* late fees a settlement line may forgive
    Deltas,         \* amounts an ad-hoc line may carry; negative: a discount
    Corrections,    \* amounts the owner may write as the deposit held
    NewYear,        \* first day of the second financial year
    MaxDay,         \* bound: the clock stops here
    MaxPayments,    \* bound: committed payments
    MaxSettlements, \* bound: committed settlements
    MaxCharges,     \* bound: what ad-hoc charges may raise a bill to
    MaxInFlight,    \* bound: transactions open at the same time
    LastAbort       \* bound: the last day on which the environment fails

ASSUME BillsAssumption ==
    /\ IsFiniteSet(Invoices)
    /\ Category \in [Invoices -> Categories]
    /\ Due \in [Invoices -> Nat]
    /\ Opening \in [Invoices -> Nat]
    /\ \A i, j \in Invoices : Category[i] = "DEPOSIT" /\ Category[j] = "DEPOSIT" => i = j

ASSUME RequestsAssumption ==
    /\ Nightly \notin Workers
    /\ NoKey \notin Keys
    /\ Amounts \subseteq Nat
    /\ Forgives \subseteq Nat
    /\ Deltas \subseteq Int
    /\ Corrections \subseteq Nat
    /\ MaxDay \in Nat \ {0}
    /\ MaxPayments \in Nat
    /\ MaxSettlements \in Nat
    /\ MaxCharges \in Nat
    /\ MaxInFlight \in Nat
    /\ LastAbort \in Nat
    /\ NewYear \in Nat

VARIABLES
    today,          \* the day in the property's timezone
    inv,            \* Invoice rows, each with the sums over its lines
    payments,       \* Payment rows with their allocations, oldest first
    receipts,       \* Receipt rows
    receiptSeq,     \* ReceiptSequence.lastNumber, per financial year
    settlements,    \* Settlement rows, oldest first
    settlementSeq,  \* SettlementSequence.lastNumber, per financial year
    depositHeld,    \* Tenancy.securityDepositPaise
    night,          \* the nightly job: bills still to do, the day it last started
    pc,             \* where each transaction is
    req,            \* the request it serves
    seen,           \* the bill as it read it, then as it will write it
    feeLine,        \* what it does to the LATE_FEE line
    number,         \* the last number it read from its locked sequence
    held            \* the deposit held as it read it, and whether the owner has
                    \* corrected it since

store == <<inv, payments, receipts, receiptSeq, settlements, settlementSeq, depositHeld>>
trans == <<pc, req, seen, feeLine, number, held>>
vars  == <<today, inv, payments, receipts, receiptSeq, settlements, settlementSeq,
           depositHeld, night, pc, req, seen, feeLine, number, held>>

Procs == Workers \cup {Nightly}
Days  == 1..MaxDay
FYs   == {1, 2}

fiscalYearOf(day) == IF day < NewYear THEN 1 ELSE 2

NoBill == [charges |-> 0, settled |-> 0, fee |-> 0, paid |-> 0, total |-> 0,
           status |-> "ISSUED", waived |-> FALSE, forgiven |-> 0, settledOn |-> NoDay]

(* latestPaymentDate: the newest paidAt among the bill's allocations.      *)
latestPaymentDate(i, made, fallback) ==
    LET dates == {made[n].day : n \in {m \in DOMAIN made : i \in DOMAIN made[m].amount}}
    IN  IF dates = {} THEN fallback
        ELSE CHOOSE d \in dates : \A e \in dates : e <= d

recomputeInvoice(i, b, made, asOf) ==
    recomputed(Category[i], Due[i], b, latestPaymentDate(i, made, asOf), asOf)

(* A bill as it is issued on day 1: its lines are inserted and the bill is *)
(* recomputed in the same transaction, so a bill for nothing is PAID.      *)
IssuedBill(i) == recomputeInvoice(i, [NoBill EXCEPT !.charges = Opening[i]], <<>>, 1)

NotRead   == [paise |-> 0, corrected |-> FALSE]

NoLines   == [i \in {} |-> 0]
NoRequest == [op |-> "none", amount |-> NoLines, forgive |-> NoLines, flag |-> FALSE,
              key |-> NoKey, day |-> NoDay, asOf |-> NoDay]

Bills(p) == DOMAIN req[p].amount

Init ==
    /\ today = 1
    /\ inv = [i \in Invoices |-> IssuedBill(i)]
    /\ payments = <<>>
    /\ receipts = {}
    /\ receiptSeq = [y \in FYs |-> 0]
    /\ settlements = <<>>
    /\ settlementSeq = [y \in FYs |-> 0]
    /\ depositHeld = IF \E i \in Invoices : Category[i] = "DEPOSIT"
                     THEN Opening[CHOOSE i \in Invoices : Category[i] = "DEPOSIT"]
                     ELSE 0
    /\ night = [queue |-> {}, day |-> NoDay]
    /\ pc = [p \in Procs |-> "idle"]
    /\ req = [p \in Procs |-> NoRequest]
    /\ seen = [p \in Procs |-> NoBill]
    /\ feeLine = [p \in Procs |-> "keep"]
    /\ number = [p \in Procs |-> 0]
    /\ held = [p \in Procs |-> NotRead]
-----------------------------------------------------------------------------
(* Row locks.                                                              *)

LocksForUpdate(p, i) ==
    /\ req[p].op \in {"pay", "settle"}
    /\ pc[p] \in {"check", "apply", "commit"}
    /\ i \in Bills(p)

LocksKeyShare(p, i) ==
    /\ i \in Bills(p)
    /\ \/ req[p].op = "item" /\ pc[p] \in {"readRow", "readLines", "writeFee", "writeRow"}
       \/ pc[p] = "writeRow" /\ feeLine[p] = "create"

LocksNoKeyUpdate(p, i) ==
    /\ i \in Bills(p)
    /\ req[p].op = "waive"
    /\ pc[p] \in {"readRow", "readLines", "writeFee", "writeRow"}

LocksFeeLine(p, i) ==
    /\ i \in Bills(p)
    /\ \/ pc[p] = "writeRow" /\ feeLine[p] # "keep"
       \/ pc[p] = "commit"

(* The lock can be granted to p: no other transaction holds one that       *)
(* conflicts with it.                                                      *)
MayLockForUpdate(p, i) ==
    \A q \in Procs \ {p} :
        ~LocksForUpdate(q, i) /\ ~LocksNoKeyUpdate(q, i) /\ ~LocksKeyShare(q, i)
MayLockNoKeyUpdate(p, i) ==
    \A q \in Procs \ {p} : ~LocksForUpdate(q, i) /\ ~LocksNoKeyUpdate(q, i)
MayLockKeyShare(p, i) == \A q \in Procs \ {p} : ~LocksForUpdate(q, i)
MayLockFeeLine(p, i)  == \A q \in Procs \ {p} : ~LocksFeeLine(q, i)

(* Mutant: the sequence row is read without FOR UPDATE.                    *)
NumbersFree_Unlocked(p, op, fy) == TRUE

(* The last number of a sequence, or a pending idempotency key, is held    *)
(* by one transaction from "apply" until it ends.                          *)
NumbersFree(p, op, fy) ==
    \A q \in Procs \ {p} :
        pc[q] = "commit" /\ req[q].op = op => fiscalYearOf(req[q].day) # fy
KeyFree(p) ==
    \A q \in Procs \ {p} :
        pc[q] = "commit" /\ req[q].op = req[p].op =>
            req[p].key = NoKey \/ req[q].key # req[p].key
-----------------------------------------------------------------------------
(* End of p's transaction, by commit or rollback: its locks are released.  *)
Finish(p) ==
    /\ pc' = [pc EXCEPT ![p] = "idle"]
    /\ req' = [req EXCEPT ![p] = NoRequest]
    /\ seen' = [seen EXCEPT ![p] = NoBill]
    /\ feeLine' = [feeLine EXCEPT ![p] = "keep"]
    /\ number' = [number EXCEPT ![p] = 0]
    /\ held' = [held EXCEPT ![p] = NotRead]

Begin(p, label, r) ==
    /\ pc[p] = "idle"
    /\ Cardinality({q \in Procs : pc[q] # "idle"}) < MaxInFlight
    /\ pc' = [pc EXCEPT ![p] = label]
    /\ req' = [req EXCEPT ![p] = r]
    /\ UNCHANGED <<today, store, night, seen, feeLine, number, held>>

Goto(p, label) == pc' = [pc EXCEPT ![p] = label]

KeyUsed(rows, k) == k # NoKey /\ \E n \in DOMAIN rows : rows[n].key = k
-----------------------------------------------------------------------------
(* recordManualPayment and settlePayment.                                  *)

(* The key is looked up before the transaction starts; a request whose key *)
(* is found returns the original payment and starts none.                  *)
StartPayment(p, amount, day, key) ==
    /\ "pay" \in Ops
    /\ Len(payments) < MaxPayments
    /\ ~KeyUsed(payments, key)
    /\ Begin(p, "lock", [NoRequest EXCEPT !.op = "pay", !.amount = amount, !.key = key,
                                          !.day = day, !.asOf = today])

(* Mutant: the bills are read without FOR UPDATE.                          *)
LockBills_Unlocked(p) ==
    /\ pc[p] = "lock"
    /\ Goto(p, "check")
    /\ UNCHANGED <<today, store, night, req, seen, feeLine, number, held>>

(* SELECT ... FOR UPDATE on every bill of the request, in order of id.     *)
LockBills(p) ==
    /\ pc[p] = "lock"
    /\ \A i \in Bills(p) : MayLockForUpdate(p, i)
    /\ Goto(p, "check")
    /\ UNCHANGED <<today, store, night, req, seen, feeLine, number, held>>

(* Mutant: the amount is taken from the client unchecked.                  *)
PaymentFits_Unchecked(r) ==
    \A i \in DOMAIN r.amount : inv[i].status \in Payable /\ r.amount[i] > 0

PaymentFits(r) ==
    \A i \in DOMAIN r.amount :
        /\ inv[i].status \in Payable
        /\ r.amount[i] > 0
        /\ r.amount[i] <= outstanding(inv[i])

CheckPayment(p) ==
    /\ pc[p] = "check" /\ req[p].op = "pay"
    /\ PaymentFits(req[p])
    /\ Goto(p, "apply")
    /\ UNCHANGED <<today, store, night, req, seen, feeLine, number, held>>

(* INVOICE_NOT_PAYABLE or VALIDATION_FAILED.                               *)
RefusePayment(p) ==
    /\ pc[p] = "check" /\ req[p].op = "pay"
    /\ ~PaymentFits(req[p])
    /\ Finish(p)
    /\ UNCHANGED <<today, store, night>>

(* Mutant: the amount replaces what was paid before.                       *)
PaidBill_Replaced(i, r) ==
    recomputeInvoice(i, [inv[i] EXCEPT !.paid = r.amount[i]],
                     Append(payments, [key |-> r.key, amount |-> r.amount, day |-> r.day]),
                     r.asOf)

(* The payment's bills once it is applied.                                 *)
PaidBill(i, r) ==
    recomputeInvoice(i, [inv[i] EXCEPT !.paid = @ + r.amount[i]],
                     Append(payments, [key |-> r.key, amount |-> r.amount, day |-> r.day]),
                     r.asOf)

(* Mutant: no unique index on the idempotency key.                         *)
ApplyPayment_NoUniqueKey(p) ==
    /\ pc[p] = "apply" /\ req[p].op = "pay"
    /\ number' = [number EXCEPT ![p] = receiptSeq[fiscalYearOf(req[p].day)]]
    /\ Goto(p, "commit")
    /\ UNCHANGED <<today, store, night, req, seen, feeLine, held>>

(* The payment row, its fee lines and nextReceiptNumber: every row lock    *)
(* the rest of the transaction needs.                                      *)
ApplyPayment(p) ==
    LET r == req[p] IN
    /\ pc[p] = "apply" /\ r.op = "pay"
    /\ ~KeyUsed(payments, r.key)
    /\ KeyFree(p)
    /\ \A i \in Bills(p) : PaidBill(i, r).fee # inv[i].fee => MayLockFeeLine(p, i)
    /\ NumbersFree(p, "pay", fiscalYearOf(r.day))
    /\ number' = [number EXCEPT ![p] = receiptSeq[fiscalYearOf(r.day)]]
    /\ Goto(p, "commit")
    /\ UNCHANGED <<today, store, night, req, seen, feeLine, held>>

(* Payment.idempotencyKey is unique: the insert fails and so does the      *)
(* request; nothing catches the error.                                     *)
PaymentKeyTaken(p) ==
    /\ pc[p] = "apply" /\ req[p].op = "pay"
    /\ KeyUsed(payments, req[p].key)
    /\ Finish(p)
    /\ UNCHANGED <<today, store, night>>

(* One receipt per bill, numbered on from the locked sequence.  A total    *)
(* below zero would violate the CHECK constraint of the bill.              *)
CommitPayment(p) ==
    LET r  == req[p]
        fy == fiscalYearOf(r.day)
        n  == Cardinality(Bills(p))
    IN
    /\ pc[p] = "commit" /\ r.op = "pay"
    /\ \A i \in Bills(p) : PaidBill(i, r).total >= 0
    /\ payments' = Append(payments, [key |-> r.key, amount |-> r.amount, day |-> r.day])
    /\ inv' = [i \in Invoices |-> IF i \in Bills(p) THEN PaidBill(i, r) ELSE inv[i]]
    /\ \E place \in Bijection(Bills(p), 1..n) :
           receipts' = receipts \cup
               {[fy |-> fy, n |-> number[p] + place[i], bill |-> i,
                 payment |-> Len(payments) + 1] : i \in Bills(p)}
    /\ receiptSeq' = [receiptSeq EXCEPT ![fy] = number[p] + n]
    /\ Finish(p)
    /\ UNCHANGED <<today, settlements, settlementSeq, depositHeld, night>>
-----------------------------------------------------------------------------
(* settleBalance.                                                          *)

StartSettlement(p, amount, forgive, key) ==
    /\ "settle" \in Ops
    /\ Len(settlements) < MaxSettlements
    /\ ~KeyUsed(settlements, key)
    /\ Begin(p, "lock", [NoRequest EXCEPT !.op = "settle", !.amount = amount,
                                          !.forgive = forgive, !.key = key,
                                          !.day = today, !.asOf = today])

(* Lines left at zero are skipped.                                         *)
planned(r) == {i \in DOMAIN r.amount : r.amount[i] > 0 \/ r.forgive[i] > 0}

planSettlement(r) ==
    /\ \A i \in DOMAIN r.amount :
           /\ inv[i].status \in Payable
           /\ r.amount[i] <= outstandingPrincipal(inv[i])
           /\ r.forgive[i] > 0 => Category[i] = "RENT" /\ r.forgive[i] <= inv[i].fee
    /\ planned(r) # {}

CheckSettlement(p) ==
    /\ pc[p] = "check" /\ req[p].op = "settle"
    /\ planSettlement(req[p])
    /\ Goto(p, "apply")
    /\ UNCHANGED <<today, store, night, req, seen, feeLine, number, held>>

RefuseSettlement(p) ==
    /\ pc[p] = "check" /\ req[p].op = "settle"
    /\ ~planSettlement(req[p])
    /\ Finish(p)
    /\ UNCHANGED <<today, store, night>>

SettledBill(i, r) ==
    recomputeInvoice(i, [inv[i] EXCEPT !.settled = @ + r.amount[i],
                                       !.forgiven = @ + r.forgive[i],
                                       !.settledOn = r.asOf],
                     payments, r.asOf)

(* A settled deposit was never collected: the deposit held, as it was read,*)
(* comes down.                                                             *)
SettlesDeposit(r) == \E i \in planned(r) : Category[i] = "DEPOSIT"
depositAfter(p) ==
    LET r == req[p]
    IN  IF SettlesDeposit(r)
        THEN AtLeast(0, held[p].paise -
                          r.amount[CHOOSE i \in planned(r) : Category[i] = "DEPOSIT"])
        ELSE depositHeld

ApplySettlement(p) ==
    LET r == req[p] IN
    /\ pc[p] = "apply" /\ r.op = "settle"
    /\ ~KeyUsed(settlements, r.key)
    /\ KeyFree(p)
    /\ \A i \in planned(r) : SettledBill(i, r).fee # inv[i].fee => MayLockFeeLine(p, i)
    /\ NumbersFree(p, "settle", fiscalYearOf(r.asOf))
    /\ number' = [number EXCEPT ![p] = settlementSeq[fiscalYearOf(r.asOf)]]
    /\ held' = [held EXCEPT ![p] = [paise |-> depositHeld, corrected |-> FALSE]]
    /\ Goto(p, "commit")
    /\ UNCHANGED <<today, store, night, req, seen, feeLine>>

(* The unique key is caught here, and the winner's receipt returned.       *)
SettlementKeyTaken(p) ==
    /\ pc[p] = "apply" /\ req[p].op = "settle"
    /\ KeyUsed(settlements, req[p].key)
    /\ Finish(p)
    /\ UNCHANGED <<today, store, night>>

CommitSettlement(p) ==
    LET r  == req[p]
        fy == fiscalYearOf(r.asOf)
    IN
    /\ pc[p] = "commit" /\ r.op = "settle"
    /\ \A i \in planned(r) : SettledBill(i, r).total >= 0
    /\ settlements' = Append(settlements, [key |-> r.key, amount |-> r.amount,
                                           forgive |-> r.forgive, fy |-> fy,
                                           n |-> number[p] + 1])
    /\ inv' = [i \in Invoices |-> IF i \in planned(r) THEN SettledBill(i, r) ELSE inv[i]]
    /\ settlementSeq' = [settlementSeq EXCEPT ![fy] = number[p] + 1]
    /\ depositHeld' = depositAfter(p)
    /\ Finish(p)
    /\ UNCHANGED <<today, payments, receipts, receiptSeq, night>>

(* updateResident writes the deposit held over, and touches no bill; a     *)
(* settlement that has read it takes its own part from what it read.       *)
updateResident(paise) ==
    /\ depositHeld' = paise
    /\ held' = [p \in Procs |-> IF pc[p] = "commit" THEN [held[p] EXCEPT !.corrected = TRUE]
                                ELSE held[p]]
    /\ UNCHANGED <<today, inv, payments, receipts, receiptSeq, settlements, settlementSeq,
                   night, pc, req, seen, feeLine, number>>
-----------------------------------------------------------------------------
(* addInvoiceItem, setLateFeeWaiver and the nightly recompute: none of     *)
(* them locks the bill before recomputeInvoice reads it.                   *)

StartItem(p, i, delta) ==
    /\ "item" \in Ops
    /\ inv[i].charges + delta <= MaxCharges
    /\ Begin(p, "begin", [NoRequest EXCEPT !.op = "item", !.amount = [j \in {i} |-> delta],
                                           !.asOf = today])

StartWaiver(p, i, waived) ==
    /\ "waive" \in Ops
    /\ Begin(p, "begin", [NoRequest EXCEPT !.op = "waive", !.amount = [j \in {i} |-> 0],
                                           !.flag = waived, !.asOf = today])

(* The inserted line's foreign key locks the bill FOR KEY SHARE.           *)
InsertItem(p) ==
    /\ pc[p] = "begin" /\ req[p].op = "item"
    /\ \A i \in Bills(p) : MayLockKeyShare(p, i)
    /\ Goto(p, "readRow")
    /\ UNCHANGED <<today, store, night, req, seen, feeLine, number, held>>

(* UPDATE "Invoice" SET "lateFeeWaivedAt".                                 *)
WriteWaiver(p) ==
    /\ pc[p] = "begin" /\ req[p].op = "waive"
    /\ \A i \in Bills(p) : MayLockNoKeyUpdate(p, i)
    /\ Goto(p, "readRow")
    /\ UNCHANGED <<today, store, night, req, seen, feeLine, number, held>>

(* Mutant: bills already OVERDUE are not listed.                           *)
recomputeLateFees_NotOverdue ==
    /\ "fee" \in Ops
    /\ night.queue = {} /\ pc[Nightly] = "idle"
    /\ night.day < today \/ today = MaxDay
    /\ night' = [queue |-> {i \in Invoices : inv[i].status \in {"ISSUED", "PARTIALLY_PAID"}},
                 day |-> today]
    /\ UNCHANGED <<today, store, trans>>

(* recomputeLateFees lists the unpaid bills once, then takes each of them  *)
(* in a transaction of its own; a run is per day.  The last day stands for *)
(* all the later ones, so the job may run on it again.                     *)
recomputeLateFees ==
    /\ "fee" \in Ops
    /\ night.queue = {} /\ pc[Nightly] = "idle"
    /\ night.day < today \/ today = MaxDay
    /\ night' = [queue |-> {i \in Invoices : inv[i].status \in Payable},
                 day |-> today]
    /\ UNCHANGED <<today, store, trans>>

StartRecompute(i) ==
    /\ i \in night.queue
    /\ pc[Nightly] = "idle"
    /\ Cardinality({q \in Procs : pc[q] # "idle"}) < MaxInFlight
    /\ Goto(Nightly, "readRow")
    /\ req' = [req EXCEPT ![Nightly] = [NoRequest EXCEPT !.op = "fee",
                                        !.amount = [j \in {i} |-> 0], !.asOf = night.day]]
    /\ night' = [night EXCEPT !.queue = @ \ {i}]
    /\ UNCHANGED <<today, store, seen, feeLine, number, held>>

(* recomputeInvoice reads the bill's row first ...                         *)
ReadRow(p) ==
    \E i \in Bills(p) :
        /\ pc[p] = "readRow"
        /\ seen' = [seen EXCEPT ![p] =
                       [NoBill EXCEPT !.paid = inv[i].paid,
                                      !.forgiven = inv[i].forgiven,
                                      !.settledOn = inv[i].settledOn,
                                      !.waived = IF req[p].op = "waive" THEN req[p].flag
                                                 ELSE inv[i].waived]]
        /\ Goto(p, "readLines")
        /\ UNCHANGED <<today, store, night, req, feeLine, number, held>>

(* ... then its lines and the newest payment, and works out what to write. *)
(* The same fee may be retold: the line's text has the days in it.         *)
ReadLines(p) ==
    \E i \in Bills(p) :
        LET own  == IF req[p].op = "item" THEN req[p].amount[i] ELSE 0
            read == [seen[p] EXCEPT !.charges = inv[i].charges + own,
                                    !.settled = inv[i].settled,
                                    !.fee = inv[i].fee]
            plan == recomputeInvoice(i, read, payments, req[p].asOf)
        IN \E retold \in BOOLEAN :
        /\ pc[p] = "readLines"
        /\ retold => plan.fee = read.fee /\ read.fee > 0
        /\ seen' = [seen EXCEPT ![p] = plan]
        /\ feeLine' = [feeLine EXCEPT ![p] =
                          IF plan.fee = read.fee /\ ~retold THEN "keep"
                          ELSE IF read.fee = 0 THEN "create"
                          ELSE IF plan.fee = 0 THEN "delete" ELSE "update"]
        /\ Goto(p, "writeFee")
        /\ UNCHANGED <<today, store, night, req, number, held>>

(* The LATE_FEE line: one per bill (a second insert violates the unique    *)
(* index), and it must still be there to be updated or deleted.            *)
WriteFee(p) ==
    \E i \in Bills(p) :
        /\ pc[p] = "writeFee"
        /\ feeLine[p] # "keep" => MayLockFeeLine(p, i)
        /\ feeLine[p] = "create" => MayLockKeyShare(p, i) /\ inv[i].fee = 0
        /\ feeLine[p] \in {"update", "delete"} => inv[i].fee > 0
        /\ Goto(p, "writeRow")
        /\ UNCHANGED <<today, store, night, req, seen, feeLine, number, held>>

(* The bill with the total, status, fee line and own change p has planned. *)
written(p, i) ==
    [inv[i] EXCEPT
        !.total   = seen[p].total,
        !.status  = seen[p].status,
        !.fee     = IF feeLine[p] = "keep" THEN inv[i].fee ELSE seen[p].fee,
        !.charges = inv[i].charges + (IF req[p].op = "item" THEN req[p].amount[i] ELSE 0),
        !.waived  = IF req[p].op = "waive" THEN req[p].flag ELSE inv[i].waived]

(* UPDATE "Invoice" SET "totalPaise", "status" and commit; a negative      *)
(* total violates the CHECK constraint.                                    *)
WriteRow(p) ==
    \E i \in Bills(p) :
        /\ pc[p] = "writeRow"
        /\ MayLockNoKeyUpdate(p, i)
        /\ seen[p].total >= 0
        /\ inv' = [inv EXCEPT ![i] = written(p, i)]
        /\ Finish(p)
        /\ UNCHANGED <<today, payments, receipts, receiptSeq, settlements, settlementSeq,
                       depositHeld, night>>
-----------------------------------------------------------------------------
(* Nothing catches an error in recomputeLateFees: a transaction of it that *)
(* rolls back loses the rest of the night.                                 *)
Rollback(p) ==
    /\ Finish(p)
    /\ night' = IF p = Nightly THEN [night EXCEPT !.queue = {}] ELSE night
    /\ UNCHANGED <<today, store>>

(* The statement violates a constraint: a second LATE_FEE line, a line     *)
(* that is gone, a total below zero.                                       *)
ConstraintError(p) ==
    /\ \E i \in Bills(p) :
          \/ /\ pc[p] = "writeFee" /\ MayLockFeeLine(p, i)
             /\ \/ feeLine[p] = "create" /\ inv[i].fee > 0
                \/ feeLine[p] \in {"update", "delete"} /\ inv[i].fee = 0
          \/ pc[p] = "writeRow" /\ MayLockNoKeyUpdate(p, i) /\ seen[p].total < 0
          \/ pc[p] = "commit" /\ req[p].op = "pay" /\ PaidBill(i, req[p]).total < 0
          \/ pc[p] = "commit" /\ req[p].op = "settle" /\ i \in planned(req[p])
             /\ SettledBill(i, req[p]).total < 0
    /\ Rollback(p)

(* p's next statement may wait for a row that q has locked: a fee line     *)
(* that stays, too, as it may be retold.                                   *)
WaitsFor(p, q) ==
    /\ p # q
    /\ \E i \in Bills(p) :
          \/ /\ pc[p] = "apply" /\ LocksFeeLine(q, i)
             /\ \/ req[p].op = "pay" /\ {inv[i].fee, PaidBill(i, req[p]).fee} # {0}
                \/ req[p].op = "settle" /\ i \in planned(req[p])
                   /\ {inv[i].fee, SettledBill(i, req[p]).fee} # {0}
          \/ pc[p] = "writeFee" /\ feeLine[p] # "keep" /\ LocksFeeLine(q, i)
          \/ pc[p] = "writeFee" /\ feeLine[p] = "create" /\ LocksForUpdate(q, i)
          \/ pc[p] = "writeRow" /\ (LocksForUpdate(q, i) \/ LocksNoKeyUpdate(q, i))

(* Two transactions wait for each other: the database rolls one back.      *)
DeadlockVictim ==
    \E p, q \in Procs : WaitsFor(p, q) /\ WaitsFor(q, p) /\ Rollback(p)

(* A transaction may roll back wherever it is: its timeout, a lost         *)
(* connection, a crash of the server.                                      *)
Abort(p) ==
    /\ pc[p] # "idle"
    /\ today <= LastAbort
    /\ Rollback(p)

(* One UPDATE statement of the bills screen; it waits for locked rows and  *)
(* looks at them again.                                                    *)
refreshOverdueStatuses ==
    LET late == {i \in Invoices : /\ inv[i].status \in {"ISSUED", "PARTIALLY_PAID"}
                                  /\ Category[i] # "ELECTRICITY"
                                  /\ Due[i] < today}
    IN
    /\ late # {}
    /\ \A i \in late, p \in Procs : ~LocksForUpdate(p, i) /\ ~LocksNoKeyUpdate(p, i)
    /\ inv' = [i \in Invoices |-> IF i \in late THEN [inv[i] EXCEPT !.status = "OVERDUE"]
                                  ELSE inv[i]]
    /\ UNCHANGED <<today, payments, receipts, receiptSeq, settlements, settlementSeq,
                   depositHeld, night, trans>>

NextDay ==
    /\ today < MaxDay
    /\ today' = today + 1
    /\ UNCHANGED <<store, night, trans>>

Lines(S) == UNION {[B -> S] : B \in (SUBSET Invoices) \ {{}}}

Request(p) ==
    \/ \E amount \in Lines(Amounts), day \in 1..today, key \in Keys \cup {NoKey} :
           StartPayment(p, amount, day, key)
    \/ \E amount \in Lines(Amounts \cup {0}), key \in Keys \cup {NoKey} :
           \E forgive \in [DOMAIN amount -> Forgives \cup {0}] :
               StartSettlement(p, amount, forgive, key)
    \/ \E i \in Invoices, delta \in Deltas : StartItem(p, i, delta)
    \/ \E i \in Invoices, waived \in BOOLEAN : StartWaiver(p, i, waived)

Progress(p) ==
    \/ LockBills(p)
    \/ CheckPayment(p)    \/ RefusePayment(p)
    \/ ApplyPayment(p)    \/ PaymentKeyTaken(p)    \/ CommitPayment(p)
    \/ CheckSettlement(p) \/ RefuseSettlement(p)
    \/ ApplySettlement(p) \/ SettlementKeyTaken(p) \/ CommitSettlement(p)
    \/ InsertItem(p)      \/ WriteWaiver(p)
    \/ ReadRow(p) \/ ReadLines(p) \/ WriteFee(p) \/ WriteRow(p)
    \/ ConstraintError(p)

Job == recomputeLateFees \/ \E i \in Invoices : StartRecompute(i)

Next ==
    \/ NextDay
    \/ refreshOverdueStatuses
    \/ \E paise \in Corrections : updateResident(paise)
    \/ Job
    \/ \E p \in Workers : Request(p)
    \/ \E p \in Procs : Progress(p) \/ Abort(p)
    \/ DeadlockVictim

Spec == Init /\ [][Next]_vars
=============================================================================
