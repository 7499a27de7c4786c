---------------------------- MODULE LedgerProofs ----------------------------
(***************************************************************************)
(* Receipt numbers, idempotency keys, the deposit held and what a bill     *)
(* counts as paid, whatever overlaps; and with them that the billing       *)
(* module implements the ledger.                                           *)
(***************************************************************************)
EXTENDS BillingProofs

-----------------------------------------------------------------------------
(* A transaction at "commit" holds its number sequence and its key.        *)

Row(p)      == req[p].op
Sequence(p) == IF Row(p) = "pay" THEN receiptSeq ELSE settlementSeq
Rows(p)     == IF Row(p) = "pay" THEN payments ELSE settlements
Year(p)     == fiscalYearOf(req[p].day)

(* The number read under the lock is still the last one given out.         *)
NumberHeld ==
    \A p \in Procs : pc[p] = "commit" => number[p] = Sequence(p)[Year(p)]

(* No other transaction is about to commit on the same sequence.           *)
SequenceHeld ==
    \A p, q \in Procs :
        p # q /\ pc[p] = "commit" /\ pc[q] = "commit" /\ Row(p) = Row(q) => Year(p) # Year(q)

(* The key is unused, and no other transaction is about to use it.         *)
KeyHeld ==
    /\ \A p \in Procs : pc[p] = "commit" => ~KeyUsed(Rows(p), req[p].key)
    /\ \A p, q \in Procs :
          p # q /\ pc[p] = "commit" /\ pc[q] = "commit" /\ Row(p) = Row(q) =>
              req[p].key = NoKey \/ req[p].key # req[q].key

Held == NumberHeld /\ SequenceHeld /\ KeyHeld

StillHeld(q) == pc'[q] = pc[q] /\ req'[q] = req[q] /\ number'[q] = number[q]

LEMMA OthersStillHold ==
    ASSUME TypeOK, NEW p \in Procs, Starts(p) \/ Ends(p) \/ Moves(p) \/ Commits(p)
    PROVE  \A q \in Procs \ {p} : StillHeld(q)
<1> SUFFICES ASSUME NEW q \in Procs \ {p} PROVE StillHeld(q)
  OBVIOUS
<1>1. Still(q)
  BY OthersStill
<1> USE DEF TypeOK, TransOK
<1>2. CASE Starts(p)
  BY <1>1, <1>2 DEF Starts, Still, StillHeld
<1>3. ASSUME Finish(p) PROVE StillHeld(q)
  BY <1>1, <1>3 DEF Finish, Still, StillHeld
<1>4. CASE Moves(p)
  <2>1. number'[q] = number[q]
    BY <1>4 DEF Moves, LockBills, CheckPayment, CheckSettlement, ApplyPayment,
         ApplySettlement, InsertItem, WriteWaiver, ReadRow, ReadLines, WriteFee
  <2> QED
    BY <1>1, <2>1 DEF Still, StillHeld
<1> QED
  BY <1>2, <1>3, <1>4 DEF Ends, Commits, CommitPayment, CommitSettlement, WriteRow

(* Only a payment or a settlement that commits adds rows and numbers.      *)
LEMMA RowsKept ==
    ASSUME TypeOK, TypeOK', [Next]_vars,
           ~\E p \in Procs : CommitPayment(p) \/ CommitSettlement(p)
    PROVE  UNCHANGED <<payments, receipts, receiptSeq, settlements, settlementSeq>>
<1>1. CASE Quiet
  BY <1>1 DEF Quiet
<1>2. ASSUME NEW p \in Procs, Starts(p) \/ Ends(p) \/ Moves(p)
      PROVE  UNCHANGED <<payments, receipts, receiptSeq, settlements, settlementSeq>>
  BY <1>2 DEF Starts, Ends, Moves, store, LockBills, CheckPayment, CheckSettlement,
       ApplyPayment, ApplySettlement, InsertItem, WriteWaiver, ReadRow, ReadLines, WriteFee
<1>3. ASSUME NEW p \in Procs, WriteRow(p)
      PROVE  UNCHANGED <<payments, receipts, receiptSeq, settlements, settlementSeq>>
  BY <1>3 DEF WriteRow
<1> QED
  BY <1>1, <1>2, <1>3, StepKinds DEF Commits

(* Who is at "commit" after a step was there before, or has just applied.  *)
LEMMA WhoCommits ==
    ASSUME TypeOK, TypeOK', [Next]_vars, NEW p \in Procs, pc'[p] = "commit"
    PROVE  \/ pc[p] = "commit" /\ StillHeld(p)
           \/ ApplyPayment(p) \/ ApplySettlement(p)
<1>1. CASE Quiet
  BY <1>1 DEF Quiet, trans, StillHeld
<1>2. ASSUME NEW q \in Procs \ {p}, Starts(q) \/ Ends(q) \/ Moves(q) \/ Commits(q)
      PROVE  pc[p] = "commit" /\ StillHeld(p)
  BY <1>2, OthersStillHold DEF StillHeld
<1>3. CASE Starts(p)
  BY <1>3 DEF Starts, TypeOK, TransOK
<1>4. CASE Ends(p) \/ Commits(p)
  <2>1. Finish(p)
    BY <1>4 DEF Ends, Commits, CommitPayment, CommitSettlement, WriteRow
  <2> QED
    BY <2>1, FinishLocks
<1>5. CASE Moves(p)
  BY <1>5 DEF Moves, LockBills, CheckPayment, CheckSettlement, InsertItem, WriteWaiver,
       ReadRow, ReadLines, WriteFee, Goto, TypeOK, TransOK
<1> QED
  BY <1>1, <1>2, <1>3, <1>4, <1>5, StepKinds

(* The step in which p applies its payment or settlement.                  *)
LEMMA Applies ==
    ASSUME TypeOK, NEW p \in Procs, ApplyPayment(p) \/ ApplySettlement(p)
    PROVE  /\ UNCHANGED store /\ req' = req /\ Rows(p)' = Rows(p) /\ Sequence(p)' = Sequence(p)
           /\ number'[p] = Sequence(p)[Year(p)]
           /\ ~KeyUsed(Rows(p), req[p].key)
           /\ \A q \in Procs \ {p} : pc[q] = "commit" /\ Row(q) = Row(p) =>
                 /\ Year(q) # Year(p)
                 /\ req[p].key = NoKey \/ req[q].key # req[p].key
           /\ \A q \in Procs \ {p} : pc'[q] = pc[q] /\ number'[q] = number[q]
<1>1. pc[p] \in PayLabels
  BY DEF ApplyPayment, ApplySettlement, PayLabels
<1>2. Row(p) = "settle" => req[p].asOf = req[p].day
  BY <1>1 DEF TypeOK, TransOK, RequestOK, Row
<1>3. CASE ApplyPayment(p)
  BY <1>3 DEF ApplyPayment, store, Rows, Row, Sequence, Year, KeyFree, NumbersFree, Goto,
       TypeOK, TransOK
<1>4. CASE ApplySettlement(p)
  BY <1>2, <1>4 DEF ApplySettlement, store, Rows, Row, Sequence, Year, KeyFree, NumbersFree,
       Goto, TypeOK, TransOK
<1> QED
  BY <1>3, <1>4

(* A commit gives out numbers of its own year, and adds a row.             *)
LEMMA PaymentAddsARow ==
    ASSUME TypeOK, NEW p \in Procs, CommitPayment(p)
    PROVE  /\ pc[p] = "commit" /\ Row(p) = "pay"
           /\ \A y \in FYs \ {Year(p)} : receiptSeq'[y] = receiptSeq[y]
           /\ \E row \in PaymentRows : row.key = req[p].key /\ payments' = Append(payments, row)
           /\ UNCHANGED <<settlements, settlementSeq>>
<1> DEFINE row == [key |-> req[p].key, amount |-> req[p].amount, day |-> req[p].day]
<1>1. row.key = req[p].key /\ payments' = Append(payments, row)
  BY DEF CommitPayment
<1>2. row \in PaymentRows
  BY PaidBillTypes DEF CommitPayment, PayLabels
<1> HIDE DEF row
<1> QED
  BY <1>1, <1>2 DEF CommitPayment, Row, Year, TypeOK, StoreOK

LEMMA SettlementAddsARow ==
    ASSUME TypeOK, NEW p \in Procs, CommitSettlement(p)
    PROVE  /\ pc[p] = "commit" /\ Row(p) = "settle"
           /\ \A y \in FYs \ {Year(p)} : settlementSeq'[y] = settlementSeq[y]
           /\ \E row \in SettlementRows :
                 row.key = req[p].key /\ settlements' = Append(settlements, row)
           /\ UNCHANGED <<payments, receipts, receiptSeq>>
<1> DEFINE row == [key |-> req[p].key, amount |-> req[p].amount, forgive |-> req[p].forgive,
                   fy |-> fiscalYearOf(req[p].asOf), n |-> number[p] + 1]
<1>1. row.key = req[p].key /\ settlements' = Append(settlements, row)
  BY DEF CommitSettlement
<1>2. row \in SettlementRows
  <2>1. req[p].amount \in Lines(Nat) /\ req[p].forgive \in Lines(Nat)
        /\ req[p].key \in Keys \cup {NoKey} /\ number[p] + 1 \in Nat
    BY DEF CommitSettlement, TypeOK, TransOK, RequestOK, PayLabels, Requests
  <2> QED
    BY <2>1 DEF SettlementRows, fiscalYearOf, FYs
<1>3. req[p].asOf = req[p].day
  BY DEF CommitSettlement, TypeOK, TransOK, RequestOK, PayLabels
<1> HIDE DEF row
<1> QED
  BY <1>1, <1>2, <1>3 DEF CommitSettlement, Row, Year, TypeOK, StoreOK

(* A key that is not the new row's stays unused.                           *)
LEMMA UnusedKey ==
    ASSUME NEW S, NEW rows \in Seq(S), NEW row \in S, NEW k,
           ~KeyUsed(rows, k), k = NoKey \/ k # row.key
    PROVE  ~KeyUsed(Append(rows, row), k)
<1> SUFFICES ASSUME k # NoKey, NEW n \in DOMAIN Append(rows, row),
                    Append(rows, row)[n].key = k
             PROVE  FALSE
  BY DEF KeyUsed
<1>1. CASE n = Len(rows) + 1
  BY <1>1
<1>2. CASE n # Len(rows) + 1
  BY <1>2 DEF KeyUsed
<1> QED
  BY <1>1, <1>2

LEMMA SequenceStep ==
    ASSUME TypeOK, TypeOK', Held, [Next]_vars
    PROVE  NumberHeld' /\ SequenceHeld'
<1>1. ASSUME NEW p \in Procs, pc'[p] = "commit" PROVE (number[p] = Sequence(p)[Year(p)])'
  <2>1. CASE ApplyPayment(p) \/ ApplySettlement(p)
    <3>1. Sequence(p)' = Sequence(p) /\ Year(p)' = Year(p)
          /\ number'[p] = Sequence(p)[Year(p)]
      BY <2>1, Applies DEF Year
    <3> QED
      BY <3>1
  <2>2. CASE pc[p] = "commit" /\ StillHeld(p)
    <3>1. number'[p] = Sequence(p)[Year(p)] /\ Year(p)' = Year(p) /\ Row(p)' = Row(p)
      BY <2>2 DEF Held, NumberHeld, StillHeld, Year, Row
    <3>2. Year(p) \in FYs
      BY DEF Year, fiscalYearOf, FYs
    <3>3. ASSUME NEW q \in Procs, CommitPayment(q) \/ CommitSettlement(q)
          PROVE  Sequence(p)'[Year(p)] = Sequence(p)[Year(p)]
      <4>1. p # q
        <5>1. Finish(q)
          BY <3>3 DEF CommitPayment, CommitSettlement
        <5> QED
          BY <1>1, <5>1, FinishLocks
      <4>2. Row(q) = Row(p) => Year(q) # Year(p)
        BY <2>2, <3>3, <4>1, PaymentAddsARow, SettlementAddsARow DEF Held, SequenceHeld
      <4>3. Row(p) \in {"pay", "settle"}
        BY <2>2 DEF Row, TypeOK, TransOK, RequestOK, PayLabels
      <4>4. CASE CommitPayment(q)
        BY <3>1, <3>2, <4>2, <4>3, <4>4, PaymentAddsARow DEF Sequence
      <4>5. CASE CommitSettlement(q)
        BY <3>1, <3>2, <4>2, <4>3, <4>5, SettlementAddsARow DEF Sequence
      <4> QED
        BY <3>3, <4>4, <4>5
    <3>4. CASE ~\E q \in Procs : CommitPayment(q) \/ CommitSettlement(q)
      BY <3>1, <3>4, RowsKept DEF Sequence
    <3> QED
      BY <3>1, <3>3, <3>4
  <2> QED
    BY <1>1, <2>1, <2>2, WhoCommits
<1>2. ASSUME NEW p \in Procs, NEW q \in Procs, p # q, pc'[p] = "commit", pc'[q] = "commit",
             Row(p)' = Row(q)'
      PROVE  Year(p)' # Year(q)'
  <2>1. ASSUME ApplyPayment(p) \/ ApplySettlement(p) PROVE Year(p)' # Year(q)'
    BY <1>2, <2>1, Applies DEF Year, Row
  <2>2. ASSUME ApplyPayment(q) \/ ApplySettlement(q) PROVE Year(p)' # Year(q)'
    BY <1>2, <2>2, Applies DEF Year, Row
  <2>3. CASE pc[p] = "commit" /\ StillHeld(p) /\ pc[q] = "commit" /\ StillHeld(q)
    BY <1>2, <2>3 DEF Held, SequenceHeld, StillHeld, Year, Row
  <2> QED
    BY <1>2, <2>1, <2>2, <2>3, WhoCommits
<1> QED
  BY <1>1, <1>2 DEF NumberHeld, SequenceHeld

LEMMA KeyStep ==
    ASSUME TypeOK, TypeOK', Held, [Next]_vars
    PROVE  KeyHeld'
<1>1. ASSUME NEW p \in Procs, pc'[p] = "commit" PROVE ~KeyUsed(Rows(p), req[p].key)'
  <2>1. CASE ApplyPayment(p) \/ ApplySettlement(p)
    <3>1. Rows(p)' = Rows(p) /\ req'[p] = req[p] /\ ~KeyUsed(Rows(p), req[p].key)
      BY <2>1, Applies
    <3> QED
      BY <3>1 DEF KeyUsed
  <2>2. CASE pc[p] = "commit" /\ StillHeld(p)
    <3>1. ~KeyUsed(Rows(p), req[p].key) /\ req'[p] = req[p] /\ Row(p)' = Row(p)
      BY <2>2 DEF Held, KeyHeld, StillHeld, Row
    <3>2. ASSUME NEW q \in Procs, CommitPayment(q) \/ CommitSettlement(q)
          PROVE  ~KeyUsed(Rows(p)', req[p].key)
      <4>1. p # q
        <5>1. Finish(q)
          BY <3>2 DEF CommitPayment, CommitSettlement
        <5> QED
          BY <1>1, <5>1, FinishLocks
      <4>2. Row(q) = Row(p) => req[p].key = NoKey \/ req[p].key # req[q].key
        BY <2>2, <3>2, <4>1, PaymentAddsARow, SettlementAddsARow DEF Held, KeyHeld
      <4>3. Row(p) \in {"pay", "settle"} /\ payments \in Seq(PaymentRows)
            /\ settlements \in Seq(SettlementRows)
        BY <2>2 DEF Row, TypeOK, StoreOK, TransOK, RequestOK, PayLabels
      <4>4. CASE CommitPayment(q)
        <5>1. PICK row \in PaymentRows : row.key = req[q].key /\ payments' = Append(payments, row)
          BY <4>4, PaymentAddsARow
        <5>2. Row(q) = "pay" /\ settlements' = settlements
          BY <4>4, PaymentAddsARow
        <5>3. CASE Row(p) = "pay"
          <6>1. Rows(p) = payments /\ Rows(p)' = Append(payments, row)
            BY <3>1, <5>1, <5>3 DEF Rows
          <6> QED
            BY <3>1, <4>2, <4>3, <5>1, <5>2, <5>3, <6>1, UnusedKey
        <5>4. CASE Row(p) = "settle"
          BY <3>1, <5>2, <5>4 DEF Rows
        <5> QED
          BY <4>3, <5>3, <5>4
      <4>5. CASE CommitSettlement(q)
        <5>1. PICK row \in SettlementRows :
                row.key = req[q].key /\ settlements' = Append(settlements, row)
          BY <4>5, SettlementAddsARow
        <5>2. Row(q) = "settle" /\ payments' = payments
          BY <4>5, SettlementAddsARow
        <5>3. CASE Row(p) = "settle"
          <6>1. Rows(p) = settlements /\ Rows(p)' = Append(settlements, row)
            BY <3>1, <5>1, <5>3 DEF Rows
          <6> QED
            BY <3>1, <4>2, <4>3, <5>1, <5>2, <5>3, <6>1, UnusedKey
        <5>4. CASE Row(p) = "pay"
          BY <3>1, <5>2, <5>4 DEF Rows
        <5> QED
          BY <4>3, <5>3, <5>4
      <4> QED
        BY <3>2, <4>4, <4>5
    <3>3. CASE ~\E q \in Procs : CommitPayment(q) \/ CommitSettlement(q)
      BY <3>1, <3>3, RowsKept DEF Rows
    <3> QED
      BY <3>1, <3>2, <3>3 DEF KeyUsed
  <2> QED
    BY <1>1, <2>1, <2>2, WhoCommits
<1>2. ASSUME NEW p \in Procs, NEW q \in Procs, p # q, pc'[p] = "commit", pc'[q] = "commit",
             Row(p)' = Row(q)'
      PROVE  req'[p].key = NoKey \/ req'[p].key # req'[q].key
  <2>1. ASSUME ApplyPayment(p) \/ ApplySettlement(p)
        PROVE  req'[p].key = NoKey \/ req'[p].key # req'[q].key
    BY <1>2, <2>1, Applies DEF Row
  <2>2. ASSUME ApplyPayment(q) \/ ApplySettlement(q)
        PROVE  req'[p].key = NoKey \/ req'[p].key # req'[q].key
    BY <1>2, <2>2, Applies DEF Row
  <2>3. CASE pc[p] = "commit" /\ StillHeld(p) /\ pc[q] = "commit" /\ StillHeld(q)
    BY <1>2, <2>3 DEF Held, KeyHeld, StillHeld, Row
  <2> QED
    BY <1>2, <2>1, <2>2, <2>3, WhoCommits
<1> QED
  BY <1>1, <1>2 DEF KeyHeld
-----------------------------------------------------------------------------
(* Idempotency keys.                                                       *)

(* No two rows carry the same key.                                         *)
KeysDiffer(rows) ==
    \A m, n \in DOMAIN rows : rows[m].key = rows[n].key /\ m # n => rows[m].key = NoKey

LEMMA KeysStillDiffer ==
    ASSUME NEW S, NEW rows \in Seq(S), NEW row \in S, KeysDiffer(rows), ~KeyUsed(rows, row.key)
    PROVE  KeysDiffer(Append(rows, row))
<1> DEFINE longer == Append(rows, row)
<1>1. /\ DOMAIN longer = DOMAIN rows \cup {Len(rows) + 1} /\ longer[Len(rows) + 1] = row
      /\ \A n \in DOMAIN rows : longer[n] = rows[n]
  OBVIOUS
<1> HIDE DEF longer
<1>2. \A n \in DOMAIN rows : row.key = NoKey \/ rows[n].key # row.key
  BY DEF KeyUsed
<1>3. KeysDiffer(longer)
  BY <1>1, <1>2 DEF KeysDiffer
<1> QED
  BY <1>3 DEF longer

LEMMA HeldInit == Init => Held
BY DEF Init, Held, NumberHeld, SequenceHeld, KeyHeld

LEMMA HeldStep ==
    ASSUME TypeOK, TypeOK', Held, [Next]_vars
    PROVE  Held'
BY SequenceStep, KeyStep DEF Held

(* An idempotency key is spent by one payment and by one settlement at     *)
(* most, whatever the interleaving of requests that carry it.              *)
THEOREM KeysSpentOnce == Spec => []KeySpentOnce
<1> DEFINE IInv == TypeOK /\ Held /\ KeySpentOnce
<1>1. Init => IInv
  <2>1. Init => KeySpentOnce
    BY DEF Init, KeySpentOnce
  <2> QED
    BY <2>1, InitTypes, HeldInit
<1>2. ASSUME IInv, [Next]_vars PROVE IInv'
  <2>1. TypeOK' /\ Held'
    BY <1>2, TypeStep, HeldStep
  <2>2. payments \in Seq(PaymentRows) /\ settlements \in Seq(SettlementRows)
    BY <1>2 DEF TypeOK, StoreOK
  <2>3. KeysDiffer(payments) /\ KeysDiffer(settlements)
    BY <1>2 DEF KeySpentOnce, KeysDiffer
  <2>4. KeysDiffer(payments') /\ KeysDiffer(settlements')
    <3>1. ASSUME NEW p \in Procs, CommitPayment(p)
          PROVE  KeysDiffer(payments') /\ KeysDiffer(settlements')
      <4>1. PICK row \in PaymentRows : row.key = req[p].key /\ payments' = Append(payments, row)
        BY <1>2, <3>1, PaymentAddsARow
      <4>2. ~KeyUsed(payments, row.key) /\ settlements' = settlements
        BY <1>2, <3>1, <4>1, PaymentAddsARow DEF Held, KeyHeld, Rows
      <4> QED
        BY <2>2, <2>3, <4>1, <4>2, KeysStillDiffer
    <3>2. ASSUME NEW p \in Procs, CommitSettlement(p)
          PROVE  KeysDiffer(payments') /\ KeysDiffer(settlements')
      <4>1. PICK row \in SettlementRows :
              row.key = req[p].key /\ settlements' = Append(settlements, row)
        BY <1>2, <3>2, SettlementAddsARow
      <4>2. ~KeyUsed(settlements, row.key) /\ payments' = payments
        BY <1>2, <3>2, <4>1, SettlementAddsARow DEF Held, KeyHeld, Rows
      <4> QED
        BY <2>2, <2>3, <4>1, <4>2, KeysStillDiffer
    <3>3. CASE ~\E p \in Procs : CommitPayment(p) \/ CommitSettlement(p)
      BY <1>2, <2>1, <2>3, <3>3, RowsKept
    <3> QED
      BY <3>1, <3>2, <3>3
  <2> QED
    BY <2>1, <2>4 DEF KeySpentOnce, KeysDiffer
<1>3. IInv => KeySpentOnce
  OBVIOUS
<1> QED
  BY <1>1, <1>2, <1>3, PTL DEF Spec
-----------------------------------------------------------------------------
(* Receipt numbers.                                                        *)

SlipsFor(n, i) == {r \in receipts : r.payment = n /\ r.bill = i}

(* Every receipt belongs to a payment that was committed.                  *)
ReceiptsHavePayments == \A r \in receipts : r.payment <= Len(payments)

(* The receipts that one payment adds.                                     *)
LEMMA PaymentAddsReceipts ==
    ASSUME TypeOK, NumberHeld, NEW p \in Procs, CommitPayment(p)
    PROVE  LET n == Cardinality(Bills(p))
               slip(place, i) == [fy |-> Year(p), n |-> receiptSeq[Year(p)] + place[i],
                                  bill |-> i, payment |-> Len(payments) + 1]
           IN  /\ n \in Nat /\ Year(p) \in FYs /\ Bills(p) \in SUBSET Invoices
               /\ receiptSeq' = [receiptSeq EXCEPT ![Year(p)] = @ + n]
               /\ Len(payments') = Len(payments) + 1
               /\ payments'[Len(payments) + 1].amount = req[p].amount
               /\ \A m \in DOMAIN payments : payments'[m] = payments[m]
               /\ \E place \in Bijection(Bills(p), 1..n) :
                     receipts' = receipts \cup {slip(place, i) : i \in Bills(p)}
<1> DEFINE n == Cardinality(Bills(p))
           row == [key |-> req[p].key, amount |-> req[p].amount, day |-> req[p].day]
<1>1. Bills(p) \in SUBSET Invoices /\ n \in Nat
  <2>1. req[p].amount \in Lines(Nat)
    BY DEF CommitPayment, TypeOK, TransOK, RequestOK, PayLabels
  <2>2. Bills(p) \in SUBSET Invoices
    BY <2>1, LinesAreBills DEF Bills
  <2> QED
    BY <2>2, BillsAssumption, FS_Subset, FS_CardinalityType
<1>2. Year(p) \in FYs /\ number[p] = receiptSeq[Year(p)]
  BY DEF CommitPayment, NumberHeld, Sequence, Row, Year, fiscalYearOf, FYs
<1>3. receiptSeq' = [receiptSeq EXCEPT ![Year(p)] = @ + n]
  BY <1>2 DEF CommitPayment, Year
<1>4. payments' = Append(payments, row) /\ payments \in Seq(PaymentRows)
  BY DEF CommitPayment, TypeOK, StoreOK
<1>5. \E place \in Bijection(Bills(p), 1..n) :
        receipts' = receipts \cup {[fy |-> Year(p), n |-> receiptSeq[Year(p)] + place[i],
                                   bill |-> i, payment |-> Len(payments) + 1] : i \in Bills(p)}
  BY <1>2 DEF CommitPayment, Year
<1>6. row.amount = req[p].amount
  OBVIOUS
<1> HIDE DEF row, n
<1>7. /\ Len(payments') = Len(payments) + 1 /\ payments'[Len(payments) + 1] = row
      /\ \A m \in DOMAIN payments : payments'[m] = payments[m]
  BY <1>4
<1> QED
  BY <1>1, <1>2, <1>3, <1>5, <1>6, <1>7 DEF n

LEMMA ReceiptsStep ==
    ASSUME TypeOK, TypeOK', NumberHeld, ReceiptsGapless, ReceiptsHavePayments,
           NEW p \in Procs, CommitPayment(p)
    PROVE  ReceiptsGapless' /\ ReceiptsHavePayments'
<1> DEFINE n == Cardinality(Bills(p))
           y == Year(p)
           last == receiptSeq[y]
           next == Len(payments) + 1
<1>1. PICK place \in Bijection(Bills(p), 1..n) :
        receipts' = receipts \cup {[fy |-> y, n |-> last + place[i], bill |-> i,
                                   payment |-> next] : i \in Bills(p)}
  BY PaymentAddsReceipts
<1> DEFINE slip(i) == [fy |-> y, n |-> last + place[i], bill |-> i, payment |-> next]
<1>2. /\ n \in Nat /\ y \in FYs /\ last \in Nat /\ next \in Nat /\ Bills(p) \in SUBSET Invoices
      /\ receiptSeq' = [receiptSeq EXCEPT ![y] = last + n]
      /\ Len(payments') = next
  BY PaymentAddsReceipts DEF TypeOK, StoreOK
<1>3. /\ \A i \in Bills(p) : place[i] \in 1..n
      /\ \A i, j \in Bills(p) : place[i] = place[j] => i = j
      /\ \A k \in 1..n : \E i \in Bills(p) : place[i] = k
  BY <1>1 DEF Bijection, Injection, Surjection, IsInjective
<1>4. /\ \A i : /\ slip(i).fy = y /\ slip(i).n = last + place[i] /\ slip(i).bill = i
                 /\ slip(i).payment = next
      /\ receipts' = receipts \cup {slip(i) : i \in Bills(p)}
  BY <1>1
<1>5. \A r \in receipts : /\ r \in ReceiptRows /\ r.n \in Nat /\ r.payment \in Nat
                          /\ r.payment < next
  BY <1>2 DEF TypeOK, StoreOK, ReceiptRows, ReceiptsHavePayments
<1>6. \A r \in receipts : r.fy = y => r.n \in 1..last
  <2>1. \A z \in FYs : {r.n : r \in {s \in receipts : s.fy = z}} = 1..receiptSeq[z]
    BY DEF ReceiptsGapless
  <2> HIDE DEF y
  <2>2. {r.n : r \in {s \in receipts : s.fy = y}} = 1..last
    BY <1>2, <2>1
  <2> QED
    BY <2>2
<1> HIDE DEF slip, n, y, last, next
<1>7. ASSUME NEW z \in FYs
      PROVE  {r.n : r \in {s \in receipts' : s.fy = z}} = 1..receiptSeq'[z]
  <2>1. {r.n : r \in {s \in receipts : s.fy = z}} = 1..receiptSeq[z]
    BY DEF ReceiptsGapless
  <2>2. CASE z # y
    <3>1. {s \in receipts' : s.fy = z} = {s \in receipts : s.fy = z}
      BY <1>4, <2>2
    <3>2. receiptSeq'[z] = receiptSeq[z]
      BY <1>2, <2>2 DEF TypeOK, StoreOK
    <3> QED
      BY <2>1, <3>1, <3>2
  <2>3. CASE z = y
    <3>1. receiptSeq[z] = last /\ receiptSeq'[z] = last + n
      BY <1>2, <2>3 DEF TypeOK, StoreOK, last
    <3>2. ASSUME NEW k \in {r.n : r \in {s \in receipts' : s.fy = z}} PROVE k \in 1..(last + n)
      <4>1. PICK r \in receipts' : r.fy = z /\ k = r.n
        BY <3>2
      <4>2. CASE r \in receipts
        BY <1>2, <1>6, <2>3, <4>1, <4>2
      <4>3. CASE \E i \in Bills(p) : r = slip(i)
        BY <1>2, <1>3, <1>4, <4>1, <4>3
      <4> QED
        BY <1>4, <4>1, <4>2, <4>3
    <3>3. ASSUME NEW k \in 1..(last + n)
          PROVE  \E r \in receipts' : r.fy = z /\ k = r.n
      <4>1. CASE k <= last
        <5>1. k \in {r.n : r \in {s \in receipts : s.fy = z}}
          BY <1>2, <2>1, <3>1, <4>1
        <5> QED
          BY <1>4, <5>1
      <4>2. CASE k > last
        <5>1. k - last \in 1..n
          BY <1>2, <4>2
        <5>2. PICK i \in Bills(p) : place[i] = k - last
          BY <1>3, <5>1
        <5>3. slip(i) \in receipts' /\ slip(i).fy = z /\ slip(i).n = last + (k - last)
          BY <1>4, <2>3, <5>2
        <5> QED
          BY <1>2, <5>3
      <4> QED
        BY <1>2, <4>1, <4>2
    <3> QED
      BY <3>1, <3>2, <3>3
  <2> QED
    BY <2>2, <2>3
<1>8. ASSUME NEW r \in receipts', NEW s \in receipts', r.fy = s.fy, r.n = s.n
      PROVE  r = s
  <2>1. CASE r \in receipts /\ s \in receipts
    BY <1>8, <2>1 DEF ReceiptsGapless
  <2>2. ASSUME NEW old \in receipts, NEW i \in Bills(p), old.fy = slip(i).fy,
               old.n = slip(i).n
        PROVE  FALSE
    BY <1>2, <1>3, <1>4, <1>6, <2>2
  <2>3. CASE \E i, j \in Bills(p) : r = slip(i) /\ s = slip(j)
    <3>1. PICK i \in Bills(p), j \in Bills(p) : r = slip(i) /\ s = slip(j)
      BY <2>3
    <3>2. last + place[i] = last + place[j]
      BY <1>4, <1>8, <3>1
    <3>3. i = j
      BY <1>2, <1>3, <3>2
    <3> QED
      BY <3>1, <3>3
  <2> QED
    BY <1>4, <1>8, <2>1, <2>2, <2>3
<1>9. ASSUME NEW m \in DOMAIN payments', NEW i \in DOMAIN payments'[m].amount
      PROVE  Cardinality(SlipsFor(m, i)') = 1
  <2>1. CASE m = next
    <3>1. i \in Bills(p)
      BY <2>1, PaymentAddsReceipts DEF Bills, next
    <3>2. SlipsFor(m, i)' = {slip(i)}
      BY <1>2, <1>4, <1>5, <2>1, <3>1 DEF SlipsFor
    <3> QED
      BY <3>2, FS_Singleton
  <2>2. CASE m # next
    <3>1. m \in DOMAIN payments /\ payments'[m] = payments[m]
      <4>1. m \in DOMAIN payments
        BY <1>2, <2>2 DEF TypeOK, StoreOK, next
      <4> QED
        BY <4>1, PaymentAddsReceipts
    <3>2. SlipsFor(m, i)' = SlipsFor(m, i)
      BY <1>4, <2>2 DEF SlipsFor
    <3> QED
      BY <3>1, <3>2 DEF ReceiptsGapless, SlipsFor
  <2> QED
    BY <2>1, <2>2
<1>10. ReceiptsHavePayments'
  BY <1>2, <1>4, <1>5 DEF ReceiptsHavePayments
<1>11. ReceiptsGapless'
  BY <1>7, <1>8, <1>9 DEF ReceiptsGapless, SlipsFor
<1> QED
  BY <1>10, <1>11

(* Whatever requests run at the same time and whichever roll back, the     *)
(* receipts of a financial year carry 1, 2, 3, ..., and each payment has   *)
(* exactly one receipt for each bill it paid.                              *)
THEOREM ReceiptNumbersGapless == Spec => []ReceiptsGapless
<1> DEFINE IInv == TypeOK /\ Held /\ ReceiptsGapless /\ ReceiptsHavePayments
<1>1. Init => IInv
  <2>1. Init => ReceiptsGapless /\ ReceiptsHavePayments
    BY DEF Init, ReceiptsGapless, ReceiptsHavePayments
  <2> QED
    BY <2>1, InitTypes, HeldInit
<1>2. ASSUME IInv, [Next]_vars PROVE IInv'
  <2>1. TypeOK' /\ Held'
    BY <1>2, TypeStep, HeldStep
  <2>2. ASSUME NEW p \in Procs, CommitPayment(p) PROVE ReceiptsGapless' /\ ReceiptsHavePayments'
    BY <1>2, <2>1, <2>2, ReceiptsStep DEF Held
  <2>3. ASSUME UNCHANGED <<payments, receipts, receiptSeq>>
        PROVE  ReceiptsGapless' /\ ReceiptsHavePayments'
    BY <1>2, <2>3 DEF ReceiptsGapless, ReceiptsHavePayments
  <2>4. ASSUME NEW p \in Procs, CommitSettlement(p)
        PROVE  UNCHANGED <<payments, receipts, receiptSeq>>
    BY <1>2, <2>4, SettlementAddsARow
  <2> QED
    BY <1>2, <2>1, <2>2, <2>3, <2>4, RowsKept
<1>3. IInv => ReceiptsGapless
  OBVIOUS
<1> QED
  BY <1>1, <1>2, <1>3, PTL DEF Spec
-----------------------------------------------------------------------------
(* Settlement numbers.                                                     *)

Settled(y) == {n \in DOMAIN settlements : settlements[n].fy = y}

LEMMA SettledFinite ==
    ASSUME TypeOK, NEW y
    PROVE  IsFiniteSet(Settled(y)) /\ Cardinality(Settled(y)) \in Nat
<1>1. DOMAIN settlements = 1..Len(settlements) /\ Len(settlements) \in Nat
  BY DEF TypeOK, StoreOK
<1>2. IsFiniteSet(1..Len(settlements))
  BY <1>1, FS_Interval
<1>3. Settled(y) \subseteq 1..Len(settlements)
  BY <1>1 DEF Settled
<1> QED
  BY <1>2, <1>3, FS_Subset, FS_CardinalityType

LEMMA SettlementsStep ==
    ASSUME TypeOK, NumberHeld, SettlementsGapless, NEW p \in Procs, CommitSettlement(p)
    PROVE  SettlementsGapless'
<1>1. pc[p] = "commit" /\ req[p].op = "settle" /\ Year(p) \in FYs
      /\ fiscalYearOf(req[p].asOf) = Year(p)
  BY DEF CommitSettlement, TypeOK, TransOK, RequestOK, PayLabels, Year, fiscalYearOf, FYs
<1>2. PICK year : year = Year(p)
  OBVIOUS
<1>3. PICK last : last = settlementSeq[year]
  OBVIOUS
<1>4. last \in Nat /\ year \in FYs /\ number[p] = last
  BY <1>1, <1>2, <1>3 DEF TypeOK, StoreOK, NumberHeld, Sequence, Row
<1>5. settlementSeq' = [settlementSeq EXCEPT ![year] = last + 1]
  BY <1>1, <1>2, <1>4 DEF CommitSettlement
<1>6. PICK row : row.fy = year /\ row.n = last + 1 /\ settlements' = Append(settlements, row)
  <2> DEFINE new == [key |-> req[p].key, amount |-> req[p].amount, forgive |-> req[p].forgive,
                     fy |-> fiscalYearOf(req[p].asOf), n |-> number[p] + 1]
  <2>1. new.fy = year /\ new.n = last + 1 /\ settlements' = Append(settlements, new)
    BY <1>1, <1>2, <1>4 DEF CommitSettlement
  <2> HIDE DEF new
  <2> QED
    BY <2>1
<1>7. PICK next : next = Len(settlements) + 1
  OBVIOUS
<1>8. /\ next \in Nat /\ next \notin DOMAIN settlements
      /\ DOMAIN settlements' = DOMAIN settlements \cup {next}
      /\ settlements'[next] = row
      /\ \A n \in DOMAIN settlements : settlements'[n] = settlements[n]
  BY <1>6, <1>7 DEF TypeOK, StoreOK
<1>9. ASSUME NEW y \in FYs
      PROVE  /\ {settlements'[n].n : n \in Settled(y)'} = 1..settlementSeq'[y]
             /\ Cardinality(Settled(y)') = settlementSeq'[y]
  <2>1. /\ {settlements[n].n : n \in Settled(y)} = 1..settlementSeq[y]
        /\ Cardinality(Settled(y)) = settlementSeq[y]
    BY DEF SettlementsGapless, Settled
  <2>2. CASE y # year
    <3>1. Settled(y)' = Settled(y)
      BY <1>6, <1>8, <2>2 DEF Settled
    <3>2. settlementSeq'[y] = settlementSeq[y]
      BY <1>5, <2>2 DEF TypeOK, StoreOK
    <3>3. \A n \in Settled(y) : settlements'[n] = settlements[n]
      BY <1>8 DEF Settled
    <3> QED
      BY <2>1, <3>1, <3>2, <3>3
  <2>3. CASE y = year
    <3>1. Settled(y)' = Settled(y) \cup {next} /\ next \notin Settled(y)
      BY <1>6, <1>8, <2>3 DEF Settled
    <3>2. settlementSeq[y] = last /\ settlementSeq'[y] = last + 1
      BY <1>3, <1>4, <1>5, <2>3 DEF TypeOK, StoreOK
    <3>3. \A n \in Settled(y) : settlements'[n] = settlements[n]
      BY <1>8 DEF Settled
    <3>4. {settlements'[n].n : n \in Settled(y)'} = 1..last \cup {last + 1}
      <4>1. settlements'[next].n = last + 1
        BY <1>6, <1>8
      <4>2. {settlements'[n].n : n \in Settled(y)'} = {settlements'[n].n : n \in Settled(y)} \cup {last + 1}
        BY <3>1, <4>1
      <4>3. {settlements'[n].n : n \in Settled(y)} = {settlements[n].n : n \in Settled(y)}
        BY <3>3
      <4> QED
        BY <2>1, <3>2, <4>2, <4>3
    <3>5. 1..last \cup {last + 1} = 1..(last + 1)
      BY <1>4
    <3>6. Cardinality(Settled(y) \cup {next}) = Cardinality(Settled(y)) + 1
      BY <3>1, SettledFinite, FS_AddElement
    <3> QED
      BY <2>1, <3>1, <3>2, <3>4, <3>5, <3>6
  <2> QED
    BY <2>2, <2>3
<1> QED
  BY <1>9 DEF SettlementsGapless, Settled

(* The settlements of a financial year carry 1, 2, 3, ..., whatever        *)
(* settleBalance, payments and jobs run at the same time.                  *)
THEOREM SettlementNumbersGapless == Spec => []SettlementsGapless
<1> DEFINE IInv == TypeOK /\ Held /\ SettlementsGapless
<1>1. Init => IInv
  <2>1. ASSUME Init  PROVE SettlementsGapless
    <3>1. \A y \in FYs : {n \in DOMAIN settlements : settlements[n].fy = y} = {}
          /\ settlementSeq[y] = 0
      BY <2>1 DEF Init
    <3> QED
      BY <3>1, FS_EmptySet DEF SettlementsGapless
  <2> QED
    BY <2>1, InitTypes, HeldInit
<1>2. ASSUME IInv, [Next]_vars PROVE IInv'
  <2>1. TypeOK' /\ Held'
    BY <1>2, TypeStep, HeldStep
  <2>2. ASSUME NEW p \in Procs, CommitSettlement(p)  PROVE SettlementsGapless'
    BY <1>2, <2>2, SettlementsStep DEF Held
  <2>3. ASSUME UNCHANGED <<settlements, settlementSeq>>  PROVE SettlementsGapless'
    BY <1>2, <2>3 DEF SettlementsGapless
  <2>4. ASSUME NEW p \in Procs, CommitPayment(p)  PROVE UNCHANGED <<settlements, settlementSeq>>
    BY <1>2, <2>4, PaymentAddsARow
  <2> QED
    BY <1>2, <2>1, <2>2, <2>3, <2>4, RowsKept
<1>3. IInv => SettlementsGapless
  OBVIOUS
<1> QED
  BY <1>1, <1>2, <1>3, PTL DEF Spec
-----------------------------------------------------------------------------
(* What makes every commit a step of the ledger.                           *)
Lockstep == TypeOK /\ LocksExclusive /\ CheckedUnderLock /\ Held

LEMMA LockstepStep == Lockstep /\ [Next]_vars => Lockstep'
BY TypeStep, LocksStep, CheckedStep, HeldStep DEF Lockstep

LEMMA LockstepInit == Init => Lockstep
<1>1. Init => LocksExclusive /\ CheckedUnderLock
  BY DEF Init, LocksExclusive, CheckedUnderLock, LocksForUpdate
<1> QED
  BY <1>1, InitTypes, HeldInit DEF Lockstep
-----------------------------------------------------------------------------
LEMMA LedgerInit == Init => L!Init
<1> SUFFICES ASSUME Init PROVE L!Init
  OBVIOUS
<1>1. \A i \in Invoices : /\ inv[i].total \in Nat /\ inv[i].paid = 0
                          /\ inv[i].settled + inv[i].forgiven = 0
  <2> SUFFICES ASSUME NEW i \in Invoices
               PROVE  /\ inv[i].total \in Nat /\ inv[i].paid = 0
                      /\ inv[i].settled + inv[i].forgiven = 0
    OBVIOUS
  <2>1. inv[i] = IssuedBill(i)
    BY DEF Init
  <2>2. /\ IssuedBill(i).total \in Nat /\ IssuedBill(i).paid = 0
        /\ IssuedBill(i).settled = 0 /\ IssuedBill(i).forgiven = 0
    BY IssuedBillTypes
  <2> QED
    BY <2>1, <2>2
<1>2. receiptSeq[1] + receiptSeq[2] = 0
  BY DEF Init, FYs
<1> QED
  BY <1>1, <1>2, BillsAssumption DEF L!Init

(* A committed payment collects: more than before, no more than is asked,  *)
(* one receipt per bill.                                                   *)
LEMMA PaymentCollects ==
    ASSUME Lockstep, TypeOK', NEW p \in Procs, CommitPayment(p)
    PROVE  \E B \in (SUBSET Invoices) \ {{}} : L!Collect(B)
<1> DEFINE r == req[p]
           n == Cardinality(Bills(p))
<1>1. TypeOK /\ pc[p] \in PayLabels /\ r.amount \in Lines(Nat)
  BY DEF Lockstep, CommitPayment, TypeOK, TransOK, RequestOK, PayLabels
<1>2. Bills(p) \in (SUBSET Invoices) \ {{}} /\ \A i \in Bills(p) : r.amount[i] \in Nat
  BY <1>1, LinesAreBills DEF Bills
<1>3. \A i \in Invoices \ Bills(p) : inv'[i] = inv[i]
  BY DEF CommitPayment
<1>4. ASSUME NEW i \in Bills(p)
      PROVE  /\ inv'[i].paid = inv[i].paid + r.amount[i]
             /\ inv'[i].settled = inv[i].settled /\ inv'[i].forgiven = inv[i].forgiven
             /\ r.amount[i] > 0 /\ inv[i].paid + r.amount[i] <= inv[i].total
  <2>1. inv'[i] = PaidBill(i, r)
    BY <1>2 DEF CommitPayment
  <2>2. PaymentFits(r)
    BY DEF Lockstep, CheckedUnderLock, CommitPayment
  <2>3. r.amount[i] > 0 /\ r.amount[i] <= outstanding(inv[i])
    BY <2>2 DEF PaymentFits, Bills
  <2>4. inv[i].total \in Int /\ inv[i].paid \in Nat
    BY <1>1, <1>2 DEF TypeOK, StoreOK, BillRecords
  <2>5. inv[i].paid + r.amount[i] <= inv[i].total
    BY <1>2, <2>3, <2>4 DEF outstanding, AtLeast
  <2> QED
    BY <1>1, <2>1, <2>3, <2>5, PaidBillTypes
<1>5. receiptSeq'[1] + receiptSeq'[2] = receiptSeq[1] + receiptSeq[2] + n
  <2>1. /\ n \in Nat /\ Year(p) \in FYs
        /\ receiptSeq' = [receiptSeq EXCEPT ![Year(p)] = @ + n]
    BY <1>1, PaymentAddsReceipts DEF Lockstep, Held
  <2>2. receiptSeq[1] \in Nat /\ receiptSeq[2] \in Nat /\ DOMAIN receiptSeq = {1, 2}
    BY <1>1 DEF TypeOK, StoreOK, FYs
  <2> HIDE DEF n
  <2> QED
    BY <2>1, <2>2 DEF FYs
<1>6. \A i \in Invoices : inv'[i].total \in Int /\ inv[i].paid \in Nat
  BY <1>1 DEF TypeOK, StoreOK, BillRecords
<1>7. \A i \in Bills(p) : inv'[i].paid > inv[i].paid /\ inv'[i].paid <= inv[i].total
  BY <1>2, <1>4, <1>6
<1>8. \A i \in Invoices : inv'[i].settled + inv'[i].forgiven = inv[i].settled + inv[i].forgiven
  BY <1>3, <1>4
<1>9. PICK B : B = Bills(p)
  OBVIOUS
<1>10. \A i \in Invoices \ B : inv'[i].paid = inv[i].paid /\ inv'[i].total = inv[i].total
  BY <1>3, <1>9
<1> HIDE DEF r, n
<1>11. L!Collect(B)
  <2>1. \A i \in B : i \in Invoices
    BY <1>2, <1>9
  <2>2. n = Cardinality(B)
    BY <1>9 DEF n
  <2>3. \A i \in Invoices : inv'[i].paid = IF i \in B THEN inv'[i].paid ELSE inv[i].paid
    BY <1>10
  <2>4. [i \in Invoices |-> inv'[i].total] \in [Invoices -> Int]
    BY <1>6
  <2>5. \A i \in B : /\ [j \in Invoices |-> inv'[j].paid][i] > [j \in Invoices |-> inv[j].paid][i]
                     /\ [j \in Invoices |-> inv'[j].paid][i] <= [j \in Invoices |-> inv[j].total][i]
    BY <1>7, <1>9, <2>1
  <2>6. [i \in Invoices |-> inv'[i].paid]
          = [i \in Invoices |-> IF i \in B THEN [j \in Invoices |-> inv'[j].paid][i]
                                          ELSE [j \in Invoices |-> inv[j].paid][i]]
    BY <2>3
  <2>7. \A i \in Invoices \ B :
          [j \in Invoices |-> inv'[j].total][i] = [j \in Invoices |-> inv[j].total][i]
    BY <1>10
  <2>8. receiptSeq'[1] + receiptSeq'[2] = receiptSeq[1] + receiptSeq[2] + L!Cardinality(B)
    <3>1. L!Cardinality(B) = Cardinality(B)
      BY Zenon DEF L!Cardinality, Cardinality
    <3> QED
      BY <1>5, <2>2, <3>1
  <2>9. [i \in Invoices |-> inv'[i].settled + inv'[i].forgiven]
          = [i \in Invoices |-> inv[i].settled + inv[i].forgiven]
    BY <1>8
  <2> QED
    BY <2>4, <2>5, <2>6, <2>7, <2>8, <2>9 DEF L!Collect
<1> QED
  BY <1>2, <1>9, <1>11

(* A committed settlement forgives on every bill it plans, and collects    *)
(* nothing.                                                                *)
LEMMA SettlementForgives ==
    ASSUME Lockstep, TypeOK', NEW p \in Procs, CommitSettlement(p)
    PROVE  \E B \in (SUBSET Invoices) \ {{}} : L!Forgive(B)
<1> DEFINE r == req[p]
<1>0. PICK B : B = planned(r)
  OBVIOUS
<1>1. /\ TypeOK /\ pc[p] \in PayLabels /\ r.op = "settle"
      /\ r.amount \in Lines(Nat) /\ r.forgive \in Lines(Nat)
      /\ DOMAIN r.forgive = DOMAIN r.amount
  BY DEF Lockstep, CommitSettlement, TypeOK, TransOK, RequestOK, PayLabels
<1>2. planSettlement(r)
  BY DEF Lockstep, CheckedUnderLock, CommitSettlement
<1>3. B \in (SUBSET Invoices) \ {{}}
      /\ \A i \in B : r.amount[i] \in Nat /\ r.forgive[i] \in Nat
  BY <1>0, <1>1, <1>2, LinesAreBills DEF planned, planSettlement
<1>4. \A i \in Invoices \ B : inv'[i] = inv[i]
  BY <1>0 DEF CommitSettlement
<1>5. ASSUME NEW i \in B
      PROVE  /\ inv'[i].paid = inv[i].paid
             /\ inv'[i].settled + inv'[i].forgiven > inv[i].settled + inv[i].forgiven
  <2>1. inv'[i] = SettledBill(i, r)
    BY <1>0, <1>3 DEF CommitSettlement
  <2>2. /\ inv'[i].paid = inv[i].paid /\ inv'[i].settled = inv[i].settled + r.amount[i]
        /\ inv'[i].forgiven = inv[i].forgiven + r.forgive[i]
    BY <1>0, <1>1, <2>1, SettledBillTypes
  <2>3. r.amount[i] > 0 \/ r.forgive[i] > 0
    BY <1>0 DEF planned
  <2>4. inv[i].settled \in Nat /\ inv[i].forgiven \in Nat
    BY <1>1, <1>3 DEF TypeOK, StoreOK, BillRecords
  <2> QED
    BY <1>3, <2>2, <2>3, <2>4
<1>6. \A i \in Invoices : inv'[i].total \in Int
  BY DEF TypeOK, StoreOK, BillRecords
<1>7. receiptSeq' = receiptSeq
  BY DEF CommitSettlement
<1>8. L!Forgive(B)
  BY <1>3, <1>4, <1>5, <1>6, <1>7 DEF L!Forgive
<1> QED
  BY <1>3, <1>8

(* A recompute that writes its bill reprices it.                           *)
LEMMA WriteRowReprices ==
    ASSUME TypeOK, TypeOK', NEW p \in Procs, WriteRow(p)
    PROVE  L!Reprice
<1>1. PICK j \in Bills(p) : inv' = [inv EXCEPT ![j] = written(p, j)]
  BY DEF WriteRow
<1>2. \A i \in Invoices : /\ inv'[i].paid = inv[i].paid /\ inv'[i].settled = inv[i].settled
                          /\ inv'[i].forgiven = inv[i].forgiven /\ inv'[i].total \in Int
  BY <1>1 DEF written, TypeOK, StoreOK, BillRecords
<1>3. receiptSeq' = receiptSeq
  BY DEF WriteRow
<1> QED
  BY <1>2, <1>3 DEF L!Reprice

LEMMA LedgerStep ==
    ASSUME Lockstep, Lockstep', [Next]_vars
    PROVE  [L!Next]_L!vars
<1>1. TypeOK /\ TypeOK'
  BY DEF Lockstep
<1>2. CASE Quiet
  <2>1. \A i \in Invoices : /\ inv'[i].total = inv[i].total /\ inv'[i].paid = inv[i].paid
                            /\ inv'[i].settled = inv[i].settled
                            /\ inv'[i].forgiven = inv[i].forgiven
    <3>1. CASE refreshOverdueStatuses
      <4> DEFINE late == {j \in Invoices : /\ inv[j].status \in {"ISSUED", "PARTIALLY_PAID"}
                                           /\ Category[j] # "ELECTRICITY"
                                           /\ Due[j] < today}
      <4>1. inv' = [j \in Invoices |-> IF j \in late THEN [inv[j] EXCEPT !.status = "OVERDUE"]
                                       ELSE inv[j]]
        BY <3>1 DEF refreshOverdueStatuses
      <4>2. \A j \in Invoices : inv[j] \in BillRecords
        BY <1>1 DEF TypeOK, StoreOK
      <4> HIDE DEF late
      <4> QED
        BY <4>1, <4>2 DEF BillRecords
    <3> QED
      BY <1>2, <3>1 DEF Quiet
  <2>2. receiptSeq' = receiptSeq
    BY <1>2 DEF Quiet
  <2> QED
    BY <2>1, <2>2 DEF L!vars
<1>3. ASSUME NEW p \in Procs, Starts(p) \/ Ends(p) \/ Moves(p) PROVE UNCHANGED L!vars
  <2>1. inv' = inv /\ receiptSeq' = receiptSeq
    BY <1>3 DEF Starts, Ends, Moves, store, LockBills, CheckPayment, CheckSettlement,
         ApplyPayment, ApplySettlement, InsertItem, WriteWaiver, ReadRow, ReadLines, WriteFee
  <2> QED
    BY <2>1 DEF L!vars
<1>4. ASSUME NEW p \in Procs, Commits(p) PROVE L!Next
  <2>1. CASE CommitPayment(p)
    BY <1>1, <2>1, PaymentCollects DEF L!Next
  <2>2. CASE CommitSettlement(p)
    BY <1>1, <2>2, SettlementForgives DEF L!Next
  <2>3. CASE WriteRow(p)
    BY <1>1, <2>3, WriteRowReprices DEF L!Next
  <2> QED
    BY <1>4, <2>1, <2>2, <2>3 DEF Commits
<1> QED
  BY <1>1, <1>2, <1>3, <1>4, StepKinds

(* Statement by statement, with its locks, keys, numbers and rollbacks,    *)
(* the billing code implements the ledger: money is collected only by a    *)
(* committed payment, never more on a bill than it asks at that moment,    *)
(* with one receipt per bill; a settlement never collects; a recompute     *)
(* only reprices.                                                          *)
THEOREM LedgerImplemented == Spec => ImplementsLedger
<1>1. Lockstep /\ Lockstep' /\ [Next]_vars => [L!Next]_L!vars
  BY LedgerStep
<1> QED
  BY LockstepInit, LockstepStep, LedgerInit, <1>1, PTL DEF Spec, ImplementsLedger, L!Spec
-----------------------------------------------------------------------------
(* Settlements: what was paid, and the deposit held.                       *)

LEMMA PaidPartLeft ==
    ASSUME Lockstep, NEW p \in Procs, CommitSettlement(p),
           NEW i \in planned(req[p]), req[p].amount[i] > 0
    PROVE  inv'[i].paid <= principal(inv'[i])
<1> DEFINE r == req[p]
<1>1. /\ TypeOK /\ pc[p] \in PayLabels /\ r.op = "settle" /\ r.amount \in Lines(Nat)
  BY DEF Lockstep, CommitSettlement, TypeOK, TransOK, RequestOK, PayLabels
<1>2. i \in Bills(p) /\ i \in Invoices /\ i \in DOMAIN r.amount /\ r.amount[i] \in Nat
  BY <1>1, LinesAreBills DEF planned, Bills
<1>3. r.amount[i] <= outstandingPrincipal(inv[i])
  BY <1>2 DEF Lockstep, CheckedUnderLock, CommitSettlement, planSettlement
<1>4. /\ inv'[i].paid = inv[i].paid /\ inv'[i].charges = inv[i].charges
      /\ inv'[i].settled = inv[i].settled + r.amount[i]
  BY <1>1, <1>2, SettledBillTypes DEF CommitSettlement
<1>5. inv[i].paid \in Nat /\ inv[i].charges \in Int /\ inv[i].settled \in Nat
  BY <1>1, <1>2 DEF TypeOK, StoreOK, BillRecords
<1> QED
  BY <1>2, <1>3, <1>4, <1>5 DEF outstandingPrincipal, principal, AtLeast

(* A settlement forgives only what is still unpaid: planned under the      *)
(* lock, it leaves no bill asking for less than was already paid on it.    *)
THEOREM SettlementsLeavePaid == Spec => SettlementLeavesPaidPart
<1>1. ASSUME Lockstep, [Next]_vars
      PROVE  \A p \in Procs : CommitSettlement(p) =>
                \A i \in planned(req[p]) :
                   req[p].amount[i] > 0 => inv'[i].paid <= principal(inv'[i])
  BY <1>1, PaidPartLeft
<1> QED
  BY LockstepInit, LockstepStep, <1>1, PTL DEF Spec, SettlementLeavesPaidPart

(* Two settlements of the deposit hold one bill: it is the only deposit    *)
(* bill, and both have locked it.                                          *)
LEMMA OneDepositSettled ==
    ASSUME TypeOK, LocksExclusive, NEW p \in Procs, NEW q \in Procs, p # q,
           pc[p] = "commit", req[p].op = "settle", SettlesDeposit(req[p]),
           pc[q] = "commit", req[q].op = "settle", SettlesDeposit(req[q])
    PROVE  FALSE
<1>1. PICK i \in planned(req[p]) : Category[i] = "DEPOSIT"
  BY DEF SettlesDeposit
<1>2. PICK j \in planned(req[q]) : Category[j] = "DEPOSIT"
  BY DEF SettlesDeposit
<1>3. req[p].amount \in Lines(Nat) /\ req[q].amount \in Lines(Nat)
  BY DEF TypeOK, TransOK, RequestOK, PayLabels
<1>4. i \in Bills(p) /\ i \in Invoices /\ j \in Bills(q) /\ j \in Invoices
  BY <1>1, <1>2, <1>3, LinesAreBills DEF planned, Bills
<1>5. i = j
  BY <1>1, <1>2, <1>4, BillsAssumption
<1>6. LocksForUpdate(p, i) /\ LocksForUpdate(q, i)
  BY <1>4, <1>5 DEF LocksForUpdate
<1> QED
  BY <1>4, <1>6 DEF LocksExclusive

(* Besides a correction, only a settlement of the deposit writes it.       *)
LEMMA DepositKept ==
    ASSUME TypeOK, NEW q \in Procs, Starts(q) \/ Ends(q) \/ Moves(q) \/ Commits(q)
    PROVE  /\ \A p \in Procs \ {q} : held'[p] = held[p]
           /\ \/ depositHeld' = depositHeld
              \/ CommitSettlement(q) /\ SettlesDeposit(req[q])
<1> USE DEF TypeOK, TransOK
<1>1. CASE Starts(q)
  BY <1>1 DEF Starts, store
<1>2. CASE Ends(q)
  BY <1>2 DEF Ends, Finish, store
<1>3. CASE Moves(q)
  BY <1>3 DEF Moves, LockBills, CheckPayment, CheckSettlement, ApplyPayment, ApplySettlement,
       InsertItem, WriteWaiver, ReadRow, ReadLines, WriteFee, store
<1>4. CASE Commits(q)
  <2>1. Finish(q)
    BY <1>4 DEF Commits, CommitPayment, CommitSettlement, WriteRow
  <2>2. \A p \in Procs \ {q} : held'[p] = held[p]
    BY <2>1 DEF Finish
  <2> QED
    BY <1>4, <2>2 DEF Commits, CommitPayment, CommitSettlement, WriteRow, depositAfter
<1> QED
  BY <1>1, <1>2, <1>3, <1>4

LEMMA DepositReadStep ==
    ASSUME TypeOK, TypeOK', LocksExclusive, DepositReadHolds, [Next]_vars
    PROVE  DepositReadHolds'
<1> SUFFICES ASSUME NEW p \in Procs, pc'[p] = "commit", req'[p].op = "settle",
                    SettlesDeposit(req'[p])
             PROVE  held'[p].corrected \/ held'[p].paise = depositHeld'
  BY DEF DepositReadHolds, SettlesDeposit, planned
<1>1. CASE Quiet
  <2>1. pc'[p] = pc[p] /\ req'[p] = req[p]
    BY <1>1 DEF Quiet
  <2>2. held[p].corrected \/ held[p].paise = depositHeld
    BY <2>1 DEF DepositReadHolds
  <2>3. CASE UNCHANGED <<depositHeld, held>>
    BY <2>2, <2>3
  <2>4. CASE \E paise \in Corrections : updateResident(paise)
    BY <2>1, <2>4 DEF updateResident, TypeOK, TransOK, DepositReads
  <2> QED
    BY <1>1, <2>3, <2>4 DEF Quiet
<1>2. ASSUME NEW q \in Procs \ {p}, Starts(q) \/ Ends(q) \/ Moves(q) \/ Commits(q)
      PROVE  held'[p].corrected \/ held'[p].paise = depositHeld'
  <2>1. pc[p] = "commit" /\ req'[p] = req[p] /\ held'[p] = held[p]
    BY <1>2, OthersStill, DepositKept DEF Still
  <2>2. held[p].corrected \/ held[p].paise = depositHeld
    BY <2>1 DEF DepositReadHolds
  <2>3. ~(CommitSettlement(q) /\ SettlesDeposit(req[q]))
    BY <2>1, OneDepositSettled DEF CommitSettlement
  <2> QED
    BY <1>2, <2>1, <2>2, <2>3, DepositKept
<1>3. CASE Starts(p) \/ Ends(p) \/ Commits(p)
  BY <1>3, StepLabels
<1>4. CASE Moves(p)
  <2>1. ApplyPayment(p) \/ ApplySettlement(p)
    BY <1>4 DEF Moves, LockBills, CheckPayment, CheckSettlement, InsertItem, WriteWaiver,
         ReadRow, ReadLines, WriteFee, Goto, TypeOK, TransOK
  <2>2. ApplySettlement(p)
    BY <2>1 DEF ApplyPayment
  <2> QED
    BY <2>2 DEF ApplySettlement, store, TypeOK, TransOK
<1> QED
  BY <1>1, <1>2, <1>3, <1>4, StepKinds

(* No settlement of the deposit is lost against another: what it takes its *)
(* part from is the deposit held as it is at the commit, whatever other    *)
(* settlements are in flight, as long as the owner does not write the      *)
(* amount over in between.                                                 *)
THEOREM DepositReadsHold == Spec => []DepositReadHolds
<1> DEFINE IInv == TypeOK /\ LocksExclusive /\ DepositReadHolds
<1>1. Init => IInv
  <2>1. Init => LocksExclusive /\ DepositReadHolds
    BY DEF Init, LocksExclusive, DepositReadHolds, LocksForUpdate
  <2> QED
    BY <2>1, InitTypes
<1>2. IInv /\ [Next]_vars => IInv'
  BY TypeStep, LocksStep, DepositReadStep
<1>3. IInv => DepositReadHolds
  OBVIOUS
<1> QED
  BY <1>1, <1>2, <1>3, PTL DEF Spec
-----------------------------------------------------------------------------
(* What was paid on a bill is what its payments allocate to it.            *)

(* f is the running sum of x, up to N.                                     *)
SumsTo(f, x, N) == f = [n \in 0..N |-> IF n = 0 THEN 0 ELSE f[n - 1] + x[n]]

LEMMA SumExists ==
    ASSUME NEW x, NEW N \in Nat
    PROVE  \E f : SumsTo(f, x, N)
<1> DEFINE Bad == {M \in Nat : ~\E f : SumsTo(f, x, M)}
<1>1. SUFFICES ASSUME Bad # {} PROVE FALSE
  OBVIOUS
<1>2. PICK M \in Bad : \A K \in Bad : ~(<<K, M>> \in OpToRel(<, Nat))
  <2>1. Bad \subseteq Nat
    OBVIOUS
  <2> HIDE DEF Bad
  <2> QED
    BY <1>1, <2>1, NatLessThanWellFounded, WFMin
<1>0. M \in Nat
  OBVIOUS
<1>3. CASE M = 0
  <2> DEFINE zero == [n \in 0..0 |-> 0]
  <2>1. zero = [n \in 0..0 |-> IF n = 0 THEN 0 ELSE zero[n - 1] + x[n]]
    OBVIOUS
  <2>2. SumsTo(zero, x, 0)
    BY <2>1 DEF SumsTo
  <2> QED
    BY <1>2, <1>3, <2>2
<1>4. CASE M # 0
  <2>1. M - 1 \in Nat /\ M - 1 < M
    BY <1>0, <1>4
  <2>2. <<M - 1, M>> \in OpToRel(<, Nat)
    BY <1>2, <2>1 DEF OpToRel
  <2>3. PICK f : SumsTo(f, x, M - 1)
    BY <1>2, <2>1, <2>2
  <2> DEFINE g == [n \in 0..M |-> IF n = M THEN f[M - 1] + x[M] ELSE f[n]]
  <2>4. ASSUME NEW n \in 0..M
        PROVE  g[n] = IF n = 0 THEN 0 ELSE g[n - 1] + x[n]
    <3>1. CASE n = M
      <4>1. M - 1 \in 0..M /\ M - 1 # M
        BY <1>0, <2>1
      <4> QED
        BY <1>4, <3>1, <4>1
    <3>2. CASE n # M
      <4>1. n \in 0..(M - 1) /\ M \in Nat
        BY <1>0, <3>2
      <4>2. f[n] = IF n = 0 THEN 0 ELSE f[n - 1] + x[n]
        BY <2>3, <4>1 DEF SumsTo
      <4>3. n # 0 => n - 1 \in 0..M /\ n - 1 # M
        BY <4>1
      <4> QED
        BY <3>2, <4>2, <4>3
    <3> QED
      BY <3>1, <3>2
  <2>5. g = [n \in 0..M |-> IF n = 0 THEN 0 ELSE g[n - 1] + x[n]]
    <3>1. g = [n \in 0..M |-> g[n]]
      OBVIOUS
    <3> HIDE DEF g
    <3> QED
      BY <2>4, <3>1
  <2>6. SumsTo(g, x, M)
    BY <2>5 DEF SumsTo
  <2> QED
    BY <1>2, <2>6
<1> QED
  BY <1>3, <1>4

Agree(x, y, N) == \A n \in 1..N : x[n] = y[n]

LEMMA SumUnique ==
    ASSUME NEW x, NEW y, NEW N \in Nat, NEW M \in Nat, N <= M,
           NEW f, NEW g, SumsTo(f, x, N), SumsTo(g, y, M), Agree(x, y, N)
    PROVE  f[N] = g[N]
<1> DEFINE Bad == {n \in 0..N : f[n] # g[n]}
<1>1. SUFFICES ASSUME Bad # {} PROVE FALSE
  OBVIOUS
<1>2. PICK m \in Bad : \A k \in Bad : ~(<<k, m>> \in OpToRel(<, Nat))
  <2>1. Bad \subseteq Nat
    OBVIOUS
  <2> HIDE DEF Bad
  <2> QED
    BY <1>1, <2>1, NatLessThanWellFounded, WFMin
<1>3. /\ f[m] = IF m = 0 THEN 0 ELSE f[m - 1] + x[m]
      /\ g[m] = IF m = 0 THEN 0 ELSE g[m - 1] + y[m]
  <2>1. m \in 0..N /\ m \in 0..M
    OBVIOUS
  <2> QED
    BY <2>1 DEF SumsTo
<1>4. m # 0
  BY <1>3
<1>5. m - 1 \in 0..N /\ <<m - 1, m>> \in OpToRel(<, Nat) /\ m \in 1..N
  BY <1>4 DEF OpToRel
<1>6. f[m - 1] = g[m - 1]
  BY <1>2, <1>5
<1> QED
  BY <1>2, <1>3, <1>4, <1>5, <1>6 DEF Agree

Parts(i, rows) == [n \in 1..Len(rows) |-> Part(i, rows[n])]

LEMMA AllocatedSum ==
    ASSUME NEW i, NEW rows \in Seq(PaymentRows)
    PROVE  \E f : SumsTo(f, Parts(i, rows), Len(rows)) /\ Allocated(i, rows) = f[Len(rows)]
<1> DEFINE N == Len(rows)
           IsSum(f) == f = [n \in 0..N |-> IF n = 0 THEN 0 ELSE f[n - 1] + Part(i, rows[n])]
<1>1. N \in Nat
  OBVIOUS
<1>2. \A f : IsSum(f) <=> SumsTo(f, Parts(i, rows), N)
  <2>1. \A n \in 0..N : n # 0 => Parts(i, rows)[n] = Part(i, rows[n])
    BY <1>1 DEF Parts
  <2>2. ASSUME NEW f
        PROVE  [n \in 0..N |-> IF n = 0 THEN 0 ELSE f[n - 1] + Parts(i, rows)[n]]
                 = [n \in 0..N |-> IF n = 0 THEN 0 ELSE f[n - 1] + Part(i, rows[n])]
    BY <2>1
  <2> QED
    BY <2>2 DEF SumsTo
<1>3. \E f : IsSum(f)
  BY <1>1, <1>2, SumExists
<1>4. Allocated(i, rows) = (CHOOSE f : IsSum(f))[N]
  BY DEF Allocated
<1>5. IsSum(CHOOSE f : IsSum(f))
  <2> HIDE DEF IsSum
  <2> QED
    BY <1>3
<1> QED
  BY <1>2, <1>4, <1>5

(* One more payment adds its part.                                         *)
LEMMA AllocatedLonger ==
    ASSUME NEW i, NEW rows \in Seq(PaymentRows), NEW row \in PaymentRows
    PROVE  Allocated(i, Append(rows, row)) = Allocated(i, rows) + Part(i, row)
<1> DEFINE longer == Append(rows, row)
           N == Len(rows)
<1>1. /\ longer \in Seq(PaymentRows) /\ Len(longer) = N + 1 /\ N \in Nat
      /\ longer[N + 1] = row /\ \A n \in 1..N : longer[n] = rows[n]
  OBVIOUS
<1> HIDE DEF longer
<1>2. PICK f : SumsTo(f, Parts(i, rows), N) /\ Allocated(i, rows) = f[N]
  BY AllocatedSum
<1>3. PICK g : SumsTo(g, Parts(i, longer), N + 1) /\ Allocated(i, longer) = g[N + 1]
  BY <1>1, AllocatedSum
<1>4. \A n \in 1..N : Parts(i, rows)[n] = Parts(i, longer)[n]
  BY <1>1 DEF Parts
<1>5. f[N] = g[N]
  <2> DEFINE M == N + 1
             x == Parts(i, rows)
             y == Parts(i, longer)
  <2>1. N \in Nat /\ M \in Nat /\ N <= M
    BY <1>1
  <2>2. SumsTo(f, x, N) /\ SumsTo(g, y, M) /\ Agree(x, y, N)
    BY <1>2, <1>3, <1>4 DEF Agree
  <2> HIDE DEF N, M, x, y
  <2> QED
    BY <2>1, <2>2, SumUnique
<1>6. g[N + 1] = g[N] + Part(i, row)
  <2>1. Parts(i, longer)[N + 1] = Part(i, row)
    BY <1>1 DEF Parts
  <2>2. g[N + 1] = g[N + 1 - 1] + Parts(i, longer)[N + 1]
    BY <1>1, <1>3 DEF SumsTo
  <2> QED
    BY <1>1, <2>1, <2>2
<1> QED
  BY <1>2, <1>3, <1>5, <1>6 DEF longer

LEMMA NothingAllocated == ASSUME NEW i PROVE Allocated(i, <<>>) = 0
<1>1. <<>> \in Seq(PaymentRows) /\ Len(<<>>) = 0
  OBVIOUS
<1>2. PICK f : SumsTo(f, Parts(i, <<>>), Len(<<>>)) /\ Allocated(i, <<>>) = f[Len(<<>>)]
  BY <1>1, AllocatedSum
<1>3. f[0] = 0
  BY <1>1, <1>2 DEF SumsTo
<1> QED
  BY <1>1, <1>2, <1>3

(* A payment adds what it allocates, and no other step changes what was    *)
(* paid on a bill.                                                         *)
LEMMA PaidStep ==
    ASSUME TypeOK, TypeOK', NEW i \in Invoices, inv[i].paid = Allocated(i, payments), [Next]_vars
    PROVE  inv'[i].paid = Allocated(i, payments')
<1>0. inv \in [Invoices -> BillRecords] /\ payments \in Seq(PaymentRows)
  BY DEF TypeOK, StoreOK
<1>1. CASE Quiet
  BY <1>0, <1>1, RefreshKeeps DEF Quiet, BillRecords
<1>2. ASSUME NEW p \in Procs, Starts(p) \/ Ends(p) \/ Moves(p)
      PROVE  inv' = inv /\ payments' = payments
  BY <1>2 DEF Starts, Ends, Moves, store, LockBills, CheckPayment, CheckSettlement,
       ApplyPayment, ApplySettlement, InsertItem, WriteWaiver, ReadRow, ReadLines, WriteFee
<1>3. ASSUME NEW p \in Procs, CommitPayment(p) PROVE inv'[i].paid = Allocated(i, payments')
  <2> DEFINE r == req[p]
             row == [key |-> r.key, amount |-> r.amount, day |-> r.day]
  <2>1. pc[p] \in PayLabels /\ payments' = Append(payments, row) /\ row.amount = r.amount
    BY <1>3 DEF CommitPayment, PayLabels
  <2>2. row \in PaymentRows
    BY <2>1, PaidBillTypes
  <2>3. inv'[i].paid = inv[i].paid + Part(i, row)
    <3>1. inv'[i] = IF i \in Bills(p) THEN PaidBill(i, r) ELSE inv[i]
      BY <1>3 DEF CommitPayment
    <3>2. CASE i \in Bills(p)
      BY <2>1, <3>1, <3>2, PaidBillTypes DEF Part, Bills
    <3>3. CASE i \notin Bills(p)
      BY <1>0, <2>1, <3>1, <3>3 DEF Part, Bills, BillRecords
    <3> QED
      BY <3>2, <3>3
  <2> HIDE DEF row
  <2> QED
    BY <1>0, <2>1, <2>2, <2>3, AllocatedLonger
<1>4. ASSUME NEW p \in Procs, CommitSettlement(p)
      PROVE  inv'[i].paid = inv[i].paid /\ payments' = payments
  <2>1. pc[p] \in PayLabels /\ req[p].op = "settle" /\ payments' = payments
    BY <1>4 DEF CommitSettlement, PayLabels
  <2>2. inv'[i] = IF i \in planned(req[p]) THEN SettledBill(i, req[p]) ELSE inv[i]
    BY <1>4 DEF CommitSettlement
  <2> QED
    BY <2>1, <2>2, SettledBillTypes
<1>5. ASSUME NEW p \in Procs, WriteRow(p)
      PROVE  inv'[i].paid = inv[i].paid /\ payments' = payments
  <2>1. PICK j \in Bills(p) : inv' = [inv EXCEPT ![j] = written(p, j)]
    BY <1>5 DEF WriteRow
  <2> QED
    BY <1>0, <1>5, <2>1 DEF WriteRow, written, BillRecords
<1> QED
  BY <1>1, <1>2, <1>3, <1>4, <1>5, StepKinds DEF Commits

(* What a bill counts as paid is the sum of the payments allocated to it:  *)
(* no interleaving of payments, settlements, edits and recomputes loses    *)
(* one or counts it twice.                                                 *)
THEOREM PaidAllocated == Spec => []PaidIsAllocated
<1>1. Init => PaidIsAllocated
  <2>1. ASSUME Init, NEW i \in Invoices PROVE inv[i].paid = Allocated(i, payments)
    <3>1. inv[i] = IssuedBill(i) /\ payments = <<>>
      BY <2>1 DEF Init
    <3>2. IssuedBill(i).paid = 0 /\ Allocated(i, <<>>) = 0
      BY IssuedBillTypes, NothingAllocated
    <3> QED
      BY <3>1, <3>2
  <2> QED
    BY <2>1 DEF PaidIsAllocated
<1>2. ASSUME TypeOK, TypeOK', PaidIsAllocated, [Next]_vars PROVE PaidIsAllocated'
  <2> SUFFICES ASSUME NEW i \in Invoices PROVE inv'[i].paid = Allocated(i, payments')
    BY DEF PaidIsAllocated, Allocated
  <2> QED
    BY <1>2, PaidStep DEF PaidIsAllocated
<1> QED
  BY <1>1, <1>2, InitTypes, TypeStep, PTL DEF Spec
=============================================================================
