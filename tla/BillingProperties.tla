------------------------- MODULE BillingProperties -------------------------
(* What the billing module must guarantee, and its refinement of Ledger.   *)
EXTENDS Billing

BillRecords ==
    [charges : Int, settled : Nat, fee : Nat, paid : Nat, total : Int, status : Statuses,
     waived : BOOLEAN, forgiven : Nat, settledOn : Days \cup {NoDay}]

PaymentRows    == [key : Keys \cup {NoKey}, amount : Lines(Nat), day : Days]
ReceiptRows    == [fy : FYs, n : Nat, bill : Invoices, payment : Nat]
SettlementRows == [key : Keys \cup {NoKey}, amount : Lines(Nat), forgive : Lines(Nat),
                   fy : FYs, n : Nat]
Requests       == [op : {"none", "pay", "settle", "item", "waive", "fee"},
                   amount : {NoLines} \cup Lines(Int), forgive : {NoLines} \cup Lines(Nat),
                   flag : BOOLEAN, key : Keys \cup {NoKey}, day : Days \cup {NoDay},
                   asOf : Days \cup {NoDay}]

PayLabels  == {"lock", "check", "apply", "commit"}
EditLabels == {"begin", "readRow", "readLines", "writeFee", "writeRow"}

StoreOK ==
    /\ today \in Days
    /\ inv \in [Invoices -> BillRecords]
    /\ payments \in Seq(PaymentRows)
    /\ receipts \in SUBSET ReceiptRows
    /\ receiptSeq \in [FYs -> Nat]
    /\ settlements \in Seq(SettlementRows)
    /\ settlementSeq \in [FYs -> Nat]
    /\ depositHeld \in Nat
    /\ night \in [queue : SUBSET Invoices, day : Days \cup {NoDay}]

(* A transaction is at a label of its own operation, and its request has   *)
(* what that operation needs.                                              *)
RequestOK(p) ==
    LET r == req[p] IN
    /\ pc[p] = "idle" => r = NoRequest
    /\ pc[p] \in PayLabels =>
          /\ r.op \in {"pay", "settle"}
          /\ r.amount \in Lines(Nat)
          /\ r.day \in Days
          /\ r.op = "settle" => /\ r.forgive \in Lines(Nat)
                                /\ DOMAIN r.forgive = DOMAIN r.amount
                                /\ r.asOf = r.day
    /\ pc[p] \in EditLabels =>
          /\ r.op \in {"item", "waive", "fee"}
          /\ \E i \in Invoices : DOMAIN r.amount = {i}

DepositReads == [paise : Nat, corrected : BOOLEAN]

TransOK ==
    /\ pc \in [Procs -> {"idle"} \cup PayLabels \cup EditLabels]
    /\ req \in [Procs -> Requests]
    /\ seen \in [Procs -> BillRecords]
    /\ feeLine \in [Procs -> {"keep", "create", "update", "delete"}]
    /\ number \in [Procs -> Nat]
    /\ held \in [Procs -> DepositReads]
    /\ \A p \in Procs : RequestOK(p)

(* Every variable has its type, and every transaction serves the request   *)
(* its label belongs to.                                                   *)
TypeOK == StoreOK /\ TransOK

(* What payment rows allocate to a bill, added up in order.                *)
Part(i, row) == IF i \in DOMAIN row.amount THEN row.amount[i] ELSE 0
Allocated(i, rows) ==
    LET upTo[n \in 0..Len(rows)] == IF n = 0 THEN 0 ELSE upTo[n - 1] + Part(i, rows[n])
    IN  upTo[Len(rows)]

(* A bill's amountPaidPaise is the sum of the payment allocations on it,   *)
(* however payments interleave with each other and with recomputes.        *)
PaidIsAllocated == \A i \in Invoices : inv[i].paid = Allocated(i, payments)

(* The receipts of a financial year carry the numbers 1, 2, 3, ... with no *)
(* gap and no duplicate, one receipt per payment and bill it paid.         *)
ReceiptsGapless ==
    /\ \A y \in FYs : {r.n : r \in {s \in receipts : s.fy = y}} = 1..receiptSeq[y]
    /\ \A r, s \in receipts : r.fy = s.fy /\ r.n = s.n => r = s
    /\ \A n \in DOMAIN payments : \A i \in DOMAIN payments[n].amount :
           Cardinality({r \in receipts : r.payment = n /\ r.bill = i}) = 1

(* Settlements have a gapless series of their own.                         *)
SettlementsGapless ==
    \A y \in FYs :
        LET of == {n \in DOMAIN settlements : settlements[n].fy = y}
        IN  /\ {settlements[n].n : n \in of} = 1..settlementSeq[y]
            /\ Cardinality(of) = settlementSeq[y]

(* An idempotency key is spent once: no second payment or settlement has   *)
(* the key of an earlier one, also when both requests were in flight.      *)
KeySpentOnce ==
    /\ \A m, n \in DOMAIN payments :
           payments[m].key = payments[n].key /\ m # n => payments[m].key = NoKey
    /\ \A m, n \in DOMAIN settlements :
           settlements[m].key = settlements[n].key /\ m # n => settlements[m].key = NoKey

(* What was checked under the bill's lock still holds when it is applied:  *)
(* no transaction changes what a locked bill owes behind the payment.      *)
CheckedUnderLock ==
    \A p \in Procs : pc[p] \in {"apply", "commit"} =>
        IF req[p].op = "pay" THEN PaymentFits(req[p]) ELSE planSettlement(req[p])

(* A settlement never takes a bill below what was already paid on it.      *)
SettlementLeavesPaidPart ==
    [][\A p \in Procs : CommitSettlement(p) =>
          \A i \in planned(req[p]) :
              req[p].amount[i] > 0 => inv'[i].paid <= principal(inv'[i])]_vars

(* A settlement of the deposit takes its part from the deposit held as it  *)
(* is when it commits: two settlements in flight never take theirs from    *)
(* one reading, so neither is lost.  Only a correction by the owner may    *)
(* come between the reading and the commit.                                *)
DepositReadHolds ==
    \A p \in Procs :
        pc[p] = "commit" /\ req[p].op = "settle" /\ SettlesDeposit(req[p])
            => held[p].corrected \/ held[p].paise = depositHeld

(* Total and status agree with the bill's lines and with what was paid.    *)
NumbersAgree(i) ==
    /\ inv[i].total = principal(inv[i]) + inv[i].fee
    /\ inv[i].status = "PAID" <=> inv[i].paid >= inv[i].total
StatusIsDerived == \A i \in Invoices : NumbersAgree(i)

(* What was forgiven of a late fee stays forgiven: fee and forgiven part   *)
(* together never pass the cap.                                            *)
ForgivenStaysForgiven == \A i \in Invoices : inv[i].fee + inv[i].forgiven <= Cap

(* Once a bill is cleared its late fee does not grow, whatever day the job *)
(* runs, unless money, a settlement or a waiver changes the bill again.    *)
ClearedFeeStopsGrowing ==
    [][\A i \in Invoices :
          /\ cleared(inv[i]) /\ cleared(inv'[i])
          /\ inv'[i].paid = inv[i].paid
          /\ inv'[i].forgiven = inv[i].forgiven /\ inv'[i].settled = inv[i].settled
          /\ inv'[i].waived = inv[i].waived
          => inv'[i].fee <= inv[i].fee]_vars

(* However the nights before went - run, missed or rolled back - the fee   *)
(* that a night leaves on an unpaid rent bill is the one its day calls     *)
(* for, less what was forgiven.                                            *)
MissedNightSelfHeals ==
    [][\A i \in Invoices :
          /\ WriteRow(Nightly) /\ i \in Bills(Nightly)
          /\ Category[i] = "RENT" /\ ~inv[i].waived /\ ~cleared(inv[i])
          => inv'[i].fee = LET late == req[Nightly].asOf - Due[i] - GraceDays
                           IN  AtLeast(0, AtMost(Cap, PerDay * AtLeast(0, late))
                                          - inv[i].forgiven)]_vars
-----------------------------------------------------------------------------
(* Days pass, the job starts every night, each of its steps is taken if it *)
(* keeps coming up, and the requests in flight go on.                      *)
Fairness ==
    /\ WF_vars(NextDay) /\ WF_vars(recomputeLateFees)
    /\ \A i \in Invoices : SF_vars(StartRecompute(i))
    /\ SF_vars(ReadRow(Nightly)) /\ SF_vars(ReadLines(Nightly))
    /\ SF_vars(WriteFee(Nightly)) /\ SF_vars(WriteRow(Nightly))
    /\ WF_vars(ConstraintError(Nightly)) /\ WF_vars(DeadlockVictim)
    /\ \A p \in Workers : SF_vars(Progress(p))

FairSpec == Spec /\ Fairness

(* A bill the job lists is put right, or leaves the list: it is shown as   *)
(* PAID or CANCELLED.                                                      *)
UnpaidBillsHeal ==
    \A i \in Invoices :
        (inv[i].status \in Payable /\ ~NumbersAgree(i))
            ~> (NumbersAgree(i) \/ inv[i].status \notin Payable)
-----------------------------------------------------------------------------
L == INSTANCE Ledger WITH
        asked     <- [i \in Invoices |-> inv[i].total],
        collected <- [i \in Invoices |-> inv[i].paid],
        forgiven  <- [i \in Invoices |-> inv[i].settled + inv[i].forgiven],
        slips     <- receiptSeq[1] + receiptSeq[2]

(* Every transaction, at its commit, is one step of the ledger.            *)
ImplementsLedger == L!Spec
=============================================================================
