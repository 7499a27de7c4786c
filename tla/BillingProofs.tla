---------------------------- MODULE BillingProofs ----------------------------
(***************************************************************************)
(* What holds of the transactions on bills, whatever overlaps: rows stay   *)
(* well formed, and a check made under the lock still holds at the commit. *)
(* And with one transaction at a time: totals, statuses and late fees.     *)
(***************************************************************************)
EXTENDS BillingProperties, FiniteSetTheorems, WellFoundedInduction, TLAPS

-----------------------------------------------------------------------------
(* Request lines, days and the figures of a bill.                          *)

(* What a request names are bills, and each gets a value.                  *)
LEMMA LinesAreBills ==
    ASSUME NEW S, NEW f \in Lines(S)
    PROVE  /\ DOMAIN f \in SUBSET Invoices /\ DOMAIN f # {}
           /\ \A i \in DOMAIN f : f[i] \in S
BY DEF Lines

LEMMA LinesWiden ==
    ASSUME NEW S, NEW T, S \subseteq T
    PROVE  Lines(S) \subseteq Lines(T)
<1> SUFFICES ASSUME NEW f \in Lines(S) PROVE f \in Lines(T)
  OBVIOUS
<1>1. PICK B \in (SUBSET Invoices) \ {{}} : f \in [B -> S]
  BY DEF Lines
<1>2. f \in [B -> T]
  BY <1>1
<1> QED
  BY <1>2 DEF Lines

(* A request for one bill.                                                 *)
LEMMA OneLine ==
    ASSUME NEW S, NEW i \in Invoices, NEW x \in S
    PROVE  [j \in {i} |-> x] \in Lines(S)
<1>1. {i} \in (SUBSET Invoices) \ {{}} /\ [j \in {i} |-> x] \in [{i} -> S]
  OBVIOUS
<1> QED
  BY <1>1 DEF Lines

(* A non-empty set of days has a last one.                                 *)
LEMMA LastDay ==
    ASSUME NEW D \in SUBSET Days, D # {}
    PROVE  \E d \in D : \A e \in D : e <= d
<1> DEFINE T == {MaxDay - d : d \in D}
<1>1. MaxDay \in Nat
  BY RequestsAssumption
<1>2. T \subseteq Nat /\ T # {}
  <2>1. \A d \in D : d \in Int /\ 1 <= d /\ d <= MaxDay
    BY <1>1 DEF Days
  <2>2. \A d \in D : MaxDay - d \in Nat
    BY <1>1, <2>1
  <2> QED
    BY <2>2
<1>3. PICK x \in T : \A y \in T : ~(<<y, x>> \in OpToRel(<, Nat))
  BY <1>2, NatLessThanWellFounded, WFMin
<1>4. PICK d \in D : x = MaxDay - d
  BY <1>3
<1>5. ASSUME NEW e \in D PROVE e <= d
  <2>1. MaxDay - e \in Nat /\ MaxDay - d \in Nat
    BY <1>1 DEF Days
  <2>2. <<MaxDay - e, MaxDay - d>> \notin OpToRel(<, Nat)
    BY <1>3, <1>4
  <2>3. ~(MaxDay - e < MaxDay - d)
    BY <2>1, <2>2 DEF OpToRel
  <2> QED
    BY <1>1, <2>3 DEF Days
<1> QED
  BY <1>5

(* The newest payment of a bill is a day, when there is one.               *)
LEMMA LatestPaymentIsADay ==
    ASSUME NEW i, NEW made \in Seq(PaymentRows), NEW fallback \in Days \cup {NoDay}
    PROVE  latestPaymentDate(i, made, fallback) \in Days \cup {NoDay}
<1> DEFINE dates == {made[n].day : n \in {m \in DOMAIN made : i \in DOMAIN made[m].amount}}
<1>1. dates \in SUBSET Days
  <2>1. \A n \in DOMAIN made : made[n] \in PaymentRows
    OBVIOUS
  <2> QED
    BY <2>1 DEF PaymentRows
<1>2. CASE dates = {}
  BY <1>2 DEF latestPaymentDate
<1>3. CASE dates # {}
  <2>1. \E d \in dates : \A e \in dates : e <= d
    BY <1>1, <1>3, LastDay
  <2>2. (CHOOSE d \in dates : \A e \in dates : e <= d) \in dates
    BY <2>1
  <2>3. latestPaymentDate(i, made, fallback) = CHOOSE d \in dates : \A e \in dates : e <= d
    BY <1>3 DEF latestPaymentDate
  <2> QED
    BY <1>1, <2>2, <2>3
<1> QED
  BY <1>2, <1>3

(* recomputeInvoice keeps what it does not recompute, puts a fee of at     *)
(* least zero on the bill and writes the total that its lines add up to.   *)
LEMMA RecomputedBill ==
    ASSUME NEW i \in Invoices, NEW b \in BillRecords, NEW made \in Seq(PaymentRows),
           NEW asOf \in Days \cup {NoDay}
    PROVE  LET c == recomputeInvoice(i, b, made, asOf) IN
           /\ c \in BillRecords
           /\ c.paid = b.paid /\ c.settled = b.settled /\ c.forgiven = b.forgiven
           /\ c.charges = b.charges
           /\ c.total = principal(b) + c.fee
<1> DEFINE latest == latestPaymentDate(i, made, asOf)
           fee == chargedFee(Category[i], Due[i], b, latest, asOf)
<1>1. latest \in Int /\ asOf \in Int /\ Due[i] \in Nat
  <2>1. Days \cup {NoDay} \subseteq Int
    BY RequestsAssumption DEF Days, NoDay
  <2>2. latest \in Days \cup {NoDay}
    BY LatestPaymentIsADay
  <2> QED
    BY <2>1, <2>2, BillsAssumption
<1>2. fee \in Nat
  <2>1. principal(b) \in Int /\ b.paid \in Int /\ b.forgiven \in Int
    BY DEF principal, BillRecords
  <2>2. clearedOn(b, latest) \in Int
    BY <1>1, RequestsAssumption DEF clearedOn, cleared, BillRecords, Days, NoDay, AtLeast
  <2>3. AtLeast(0, principal(b) - b.paid) \in Int
    BY <2>1 DEF AtLeast
  <2>4. \A measured, owed \in Int, waived \in BOOLEAN :
          calculateLateFee(Due[i], asOf, measured, waived, owed) \in Int
    BY <1>1, SettingsAssumption DEF calculateLateFee, AtMost, NoDay
  <2>5. b.waived \in BOOLEAN
    BY DEF BillRecords
  <2>6. calculateLateFee(Due[i], asOf, clearedOn(b, latest), b.waived,
                         AtLeast(0, principal(b) - b.paid)) \in Int
    BY <2>2, <2>3, <2>4, <2>5
  <2> QED
    BY <2>1, <2>6 DEF chargedFee, AtLeast
<1>3. principal(b) \in Int
  BY DEF principal, BillRecords
<1>4. deriveInvoiceStatus(principal(b) + fee, b.paid, Due[i], asOf,
                          Category[i] # "ELECTRICITY") \in Statuses
  BY DEF deriveInvoiceStatus, Statuses, Payable
<1> DEFINE status == deriveInvoiceStatus(principal(b) + fee, b.paid, Due[i], asOf,
                                         Category[i] # "ELECTRICITY")
<1>5. recomputeInvoice(i, b, made, asOf)
        = [b EXCEPT !.fee = fee, !.total = principal(b) + fee, !.status = status]
  BY DEF recomputeInvoice, recomputed
<1> HIDE DEF fee, status
<1>6. status \in Statuses /\ principal(b) + fee \in Int
  BY <1>2, <1>3, <1>4 DEF status
<1>7. [b EXCEPT !.fee = fee, !.total = principal(b) + fee, !.status = status] \in BillRecords
  BY <1>2, <1>6 DEF BillRecords
<1> QED
  BY <1>5, <1>7 DEF BillRecords
-----------------------------------------------------------------------------
(* Type correctness.                                                       *)

LEMMA NoRequestTypes == NoRequest \in Requests /\ NoBill \in BillRecords
BY DEF NoRequest, Requests, NoBill, BillRecords, Statuses, Payable, NoDay

LEMMA NotReadType == NotRead \in DepositReads
BY DEF NotRead, DepositReads

(* A transaction that ends leaves no trace of its request.                 *)
LEMMA FinishTypes ==
    ASSUME TransOK, NEW p \in Procs, Finish(p)
    PROVE  TransOK'
<1>1. \A q \in Procs : RequestOK(q)'
  <2> SUFFICES ASSUME NEW q \in Procs PROVE RequestOK(q)'
    OBVIOUS
  <2>1. CASE q = p
    BY <2>1 DEF Finish, TransOK, RequestOK, PayLabels, EditLabels
  <2>2. CASE q # p
    <3>1. pc'[q] = pc[q] /\ req'[q] = req[q]
      BY <2>2 DEF Finish, TransOK
    <3> QED
      BY <3>1 DEF TransOK, RequestOK
  <2> QED
    BY <2>1, <2>2
<1> QED
  BY <1>1, NoRequestTypes, NotReadType DEF Finish, TransOK

(* A transaction that goes on stays among the labels of its operation.     *)
LEMMA GotoTypes ==
    ASSUME TransOK, NEW p \in Procs, NEW labels \in {PayLabels, EditLabels},
           pc[p] \in labels, NEW label \in labels, Goto(p, label), UNCHANGED req,
           seen' \in [Procs -> BillRecords],
           feeLine' \in [Procs -> {"keep", "create", "update", "delete"}],
           number' \in [Procs -> Nat], held' \in [Procs -> DepositReads]
    PROVE  TransOK'
<1>1. \A q \in Procs : RequestOK(q)'
  <2> SUFFICES ASSUME NEW q \in Procs PROVE RequestOK(q)'
    OBVIOUS
  <2>1. CASE q = p
    <3>1. pc'[p] = label
      BY DEF Goto, TransOK
    <3> QED
      BY <2>1, <3>1 DEF TransOK, RequestOK, PayLabels, EditLabels
  <2>2. CASE q # p
    <3>1. pc'[q] = pc[q] /\ req'[q] = req[q]
      BY <2>2 DEF Goto, TransOK
    <3> QED
      BY <3>1 DEF TransOK, RequestOK
  <2> QED
    BY <2>1, <2>2
<1> QED
  BY <1>1 DEF Goto, TransOK

(* A transaction starts with a well-formed request.                        *)
LEMMA BeginTypes ==
    ASSUME TypeOK, NEW p \in Procs, NEW r \in Requests, NEW label,
           Begin(p, label, r),
           \/ /\ label = "lock" /\ r.op \in {"pay", "settle"}
              /\ r.amount \in Lines(Nat) /\ r.day \in Days
              /\ r.op = "settle" => /\ r.forgive \in Lines(Nat)
                                    /\ DOMAIN r.forgive = DOMAIN r.amount
                                    /\ r.asOf = r.day
           \/ /\ label = "begin" /\ r.op \in {"item", "waive"}
              /\ \E i \in Invoices : DOMAIN r.amount = {i}
    PROVE  TypeOK'
<1>1. StoreOK'
  BY DEF TypeOK, StoreOK, Begin, store
<1>2. \A q \in Procs : RequestOK(q)'
  <2> SUFFICES ASSUME NEW q \in Procs PROVE RequestOK(q)'
    OBVIOUS
  <2>1. CASE q = p
    <3>1. pc'[p] = label /\ req'[p] = r
      BY DEF Begin, TypeOK, TransOK
    <3> QED
      BY <2>1, <3>1 DEF RequestOK, PayLabels, EditLabels
  <2>2. CASE q # p
    <3>1. pc'[q] = pc[q] /\ req'[q] = req[q]
      BY <2>2 DEF Begin, TypeOK, TransOK
    <3> QED
      BY <3>1 DEF TypeOK, TransOK, RequestOK
  <2> QED
    BY <2>1, <2>2
<1>3. TransOK'
  BY <1>2 DEF Begin, TypeOK, TransOK, PayLabels, EditLabels
<1> QED
  BY <1>1, <1>3 DEF TypeOK

(* The rows a payment writes.                                              *)
LEMMA PaidBillTypes ==
    ASSUME TypeOK, NEW p \in Procs, pc[p] \in PayLabels
    PROVE  LET r == req[p]
               row == [key |-> r.key, amount |-> r.amount, day |-> r.day]
           IN  /\ row \in PaymentRows
               /\ \A i \in Bills(p) :
                     LET c == PaidBill(i, r) IN
                     /\ c \in BillRecords
                     /\ c.paid = inv[i].paid + r.amount[i]
                     /\ c.settled = inv[i].settled /\ c.forgiven = inv[i].forgiven
<1> DEFINE r == req[p]
           row == [key |-> r.key, amount |-> r.amount, day |-> r.day]
<1>1. /\ r \in Requests /\ r.amount \in Lines(Nat) /\ r.day \in Days
      /\ r.key \in Keys \cup {NoKey} /\ r.asOf \in Days \cup {NoDay}
  BY DEF TypeOK, TransOK, RequestOK, Requests
<1>2. row \in PaymentRows
  BY <1>1 DEF PaymentRows
<1>3. Append(payments, row) \in Seq(PaymentRows)
  BY <1>2 DEF TypeOK, StoreOK
<1>4. ASSUME NEW i \in Bills(p)
      PROVE  LET c == PaidBill(i, r) IN
             /\ c \in BillRecords
             /\ c.paid = inv[i].paid + r.amount[i]
             /\ c.settled = inv[i].settled /\ c.forgiven = inv[i].forgiven
  <2>1. i \in Invoices /\ r.amount[i] \in Nat
    BY <1>1, LinesAreBills DEF Bills
  <2>2. inv[i] \in BillRecords
    BY <2>1 DEF TypeOK, StoreOK
  <2> DEFINE b == [inv[i] EXCEPT !.paid = @ + r.amount[i]]
  <2>3. /\ b \in BillRecords /\ b.paid = inv[i].paid + r.amount[i]
        /\ b.settled = inv[i].settled /\ b.forgiven = inv[i].forgiven
    BY <2>1, <2>2 DEF BillRecords
  <2> DEFINE made == Append(payments, row)
             asOf == r.asOf
  <2>4. PaidBill(i, r) = recomputeInvoice(i, b, made, asOf)
    BY DEF PaidBill
  <2>5. made \in Seq(PaymentRows) /\ asOf \in Days \cup {NoDay}
    BY <1>1, <1>3
  <2> HIDE DEF b, made, asOf
  <2> QED
    BY <2>1, <2>3, <2>4, <2>5, RecomputedBill
<1> QED
  BY <1>2, <1>4

(* The bills a settlement writes.                                          *)
LEMMA SettledBillTypes ==
    ASSUME TypeOK, NEW p \in Procs, pc[p] \in PayLabels, req[p].op = "settle"
    PROVE  LET r == req[p] IN
           /\ planned(r) \subseteq Bills(p)
           /\ \A i \in Bills(p) :
                 LET c == SettledBill(i, r) IN
                 /\ c \in BillRecords /\ c.paid = inv[i].paid
                 /\ c.settled = inv[i].settled + r.amount[i]
                 /\ c.forgiven = inv[i].forgiven + r.forgive[i]
                 /\ c.charges = inv[i].charges
<1> DEFINE r == req[p]
<1>1. /\ r \in Requests /\ r.amount \in Lines(Nat) /\ r.forgive \in Lines(Nat)
      /\ DOMAIN r.forgive = DOMAIN r.amount /\ r.asOf \in Days
  BY DEF TypeOK, TransOK, RequestOK, Requests
<1>2. planned(r) \subseteq Bills(p)
  BY DEF planned, Bills
<1>3. ASSUME NEW i \in Bills(p)
      PROVE  LET c == SettledBill(i, r) IN
             /\ c \in BillRecords /\ c.paid = inv[i].paid
             /\ c.settled = inv[i].settled + r.amount[i]
             /\ c.forgiven = inv[i].forgiven + r.forgive[i]
             /\ c.charges = inv[i].charges
  <2>1. i \in Invoices /\ r.amount[i] \in Nat /\ r.forgive[i] \in Nat
    BY <1>1, LinesAreBills DEF Bills
  <2>2. inv[i] \in BillRecords
    BY <2>1 DEF TypeOK, StoreOK
  <2> DEFINE b == [inv[i] EXCEPT !.settled = @ + r.amount[i],
                                 !.forgiven = @ + r.forgive[i],
                                 !.settledOn = r.asOf]
  <2>3. /\ b \in BillRecords /\ b.paid = inv[i].paid
        /\ b.settled = inv[i].settled + r.amount[i]
        /\ b.forgiven = inv[i].forgiven + r.forgive[i] /\ b.charges = inv[i].charges
    <3> DEFINE settled == inv[i].settled + r.amount[i]
               forgiven == inv[i].forgiven + r.forgive[i]
               asOf == r.asOf
    <3>1. settled \in Nat /\ forgiven \in Nat /\ asOf \in Days
      BY <1>1, <2>1, <2>2 DEF BillRecords
    <3>2. b = [inv[i] EXCEPT !.settled = settled, !.forgiven = forgiven, !.settledOn = asOf]
      OBVIOUS
    <3>3. b \in BillRecords /\ b.paid = inv[i].paid /\ b.settled = settled
          /\ b.forgiven = forgiven /\ b.charges = inv[i].charges
      <4> HIDE DEF settled, forgiven, asOf, b, r
      <4> QED
        BY <2>2, <3>1, <3>2 DEF BillRecords
    <3> QED
      BY <3>3
  <2>4. SettledBill(i, r) = recomputeInvoice(i, b, payments, r.asOf)
    BY DEF SettledBill
  <2>5. payments \in Seq(PaymentRows)
    BY DEF TypeOK, StoreOK
  <2> HIDE DEF b
  <2> QED
    BY <1>1, <2>1, <2>3, <2>4, <2>5, RecomputedBill
<1> QED
  BY <1>2, <1>3

(* The first state.                                                        *)
LEMMA IssuedBillTypes ==
    ASSUME NEW i \in Invoices
    PROVE  LET b == [NoBill EXCEPT !.charges = Opening[i]] IN
           /\ b \in BillRecords /\ b.paid = 0 /\ b.settled = 0 /\ b.forgiven = 0
           /\ b.charges = Opening[i]
           /\ IssuedBill(i) = recomputeInvoice(i, b, <<>>, 1)
           /\ <<>> \in Seq(PaymentRows) /\ 1 \in Days
           /\ IssuedBill(i) \in BillRecords
           /\ IssuedBill(i).paid = 0 /\ IssuedBill(i).settled = 0
           /\ IssuedBill(i).forgiven = 0 /\ IssuedBill(i).total \in Nat
<1> DEFINE open == Opening[i]
           b == [NoBill EXCEPT !.charges = open]
<1>0. open \in Nat
  BY BillsAssumption
<1> HIDE DEF open
<1>1. /\ b \in BillRecords /\ b.paid = 0 /\ b.settled = 0 /\ b.forgiven = 0
      /\ b.charges = open
  <2>1. b \in BillRecords
    BY <1>0, NoRequestTypes DEF BillRecords
  <2>2. /\ b.paid = 0 /\ b.settled = 0 /\ b.forgiven = 0 /\ b.charges = open
    BY DEF NoBill
  <2> QED
    BY <2>1, <2>2
<1>2. IssuedBill(i) = recomputeInvoice(i, b, <<>>, 1)
  BY DEF IssuedBill, open
<1>3. <<>> \in Seq(PaymentRows) /\ 1 \in Days
  BY RequestsAssumption DEF Days
<1> HIDE DEF b
<1>4. /\ IssuedBill(i) \in BillRecords
      /\ IssuedBill(i).paid = 0 /\ IssuedBill(i).settled = 0 /\ IssuedBill(i).forgiven = 0
      /\ IssuedBill(i).total = principal(b) + IssuedBill(i).fee
  <2> DEFINE made == <<>>
             day == 1
  <2>1. made \in Seq(PaymentRows) /\ day \in Days \cup {NoDay}
    BY <1>3
  <2>2. IssuedBill(i) = recomputeInvoice(i, b, made, day)
    BY <1>2
  <2> HIDE DEF made, day
  <2> QED
    BY <1>1, <2>1, <2>2, RecomputedBill
<1>5. IssuedBill(i).total \in Nat
  BY <1>0, <1>1, <1>4 DEF principal, BillRecords
<1> QED
  BY <1>1, <1>2, <1>3, <1>4, <1>5 DEF b, open

LEMMA InitTypes == Init => TypeOK
<1> SUFFICES ASSUME Init PROVE TypeOK
  OBVIOUS
<1>1. StoreOK
  <2>1. \A i \in Invoices : IssuedBill(i) \in BillRecords
    BY IssuedBillTypes
  <2>2. depositHeld \in Nat
    BY BillsAssumption DEF Init
  <2>3. today \in Days /\ night \in [queue : SUBSET Invoices, day : Days \cup {NoDay}]
    BY RequestsAssumption DEF Init, Days
  <2> QED
    BY <2>1, <2>2, <2>3 DEF Init, StoreOK
<1>2. \A p \in Procs : RequestOK(p)
  BY DEF Init, RequestOK, PayLabels, EditLabels
<1>3. TransOK
  BY <1>2, NoRequestTypes, NotReadType DEF Init, TransOK
<1> QED
  BY <1>1, <1>3 DEF TypeOK

LEMMA AmountSets ==
    /\ Amounts \subseteq Nat /\ Amounts \subseteq Int
    /\ Amounts \cup {0} \subseteq Nat /\ Amounts \cup {0} \subseteq Int
    /\ Forgives \cup {0} \subseteq Nat
BY RequestsAssumption

(* Every new request is well formed.                                       *)
LEMMA RequestTypes ==
    ASSUME TypeOK, NEW p \in Workers, Request(p)
    PROVE  TypeOK'
<1>1. p \in Procs
  BY DEF Procs
<1>2. ASSUME NEW amount \in Lines(Amounts), NEW day \in 1..today, NEW key \in Keys \cup {NoKey},
             StartPayment(p, amount, day, key)
      PROVE  TypeOK'
  <2> DEFINE r == [NoRequest EXCEPT !.op = "pay", !.amount = amount, !.key = key,
                                    !.day = day, !.asOf = today]
  <2>1. amount \in Lines(Nat) /\ amount \in Lines(Int)
    BY AmountSets, LinesWiden
  <2>2. today \in Days /\ day \in Days
    BY RequestsAssumption DEF TypeOK, StoreOK, Days
  <2>3. /\ r \in Requests /\ r.op = "pay" /\ r.amount = amount /\ r.day = day
    BY <2>1, <2>2, NoRequestTypes DEF NoRequest, Requests
  <2>4. Begin(p, "lock", r)
    BY <1>2 DEF StartPayment
  <2> HIDE DEF r
  <2> QED
    BY <1>1, <2>1, <2>2, <2>3, <2>4, BeginTypes
<1>3. ASSUME NEW amount \in Lines(Amounts \cup {0}), NEW key \in Keys \cup {NoKey},
             NEW forgive \in [DOMAIN amount -> Forgives \cup {0}],
             StartSettlement(p, amount, forgive, key)
      PROVE  TypeOK'
  <2> DEFINE r == [NoRequest EXCEPT !.op = "settle", !.amount = amount,
                                    !.forgive = forgive, !.key = key,
                                    !.day = today, !.asOf = today]
  <2>1. amount \in Lines(Nat) /\ amount \in Lines(Int)
    BY AmountSets, LinesWiden
  <2>2. forgive \in Lines(Nat) /\ DOMAIN forgive = DOMAIN amount
    <3>1. DOMAIN amount \in (SUBSET Invoices) \ {{}}
      BY <2>1, LinesAreBills
    <3>2. forgive \in [DOMAIN amount -> Nat]
      BY AmountSets
    <3> QED
      BY <3>1, <3>2 DEF Lines
  <2>3. today \in Days
    BY DEF TypeOK, StoreOK
  <2>4. /\ r \in Requests /\ r.op = "settle" /\ r.amount = amount /\ r.day = today
        /\ r.asOf = today /\ r.forgive = forgive
    BY <2>1, <2>2, <2>3, NoRequestTypes DEF NoRequest, Requests
  <2>5. Begin(p, "lock", r)
    BY <1>3 DEF StartSettlement
  <2> HIDE DEF r
  <2> QED
    BY <1>1, <2>1, <2>2, <2>3, <2>4, <2>5, BeginTypes
<1>4. ASSUME NEW i \in Invoices, NEW delta \in Deltas, StartItem(p, i, delta)
      PROVE  TypeOK'
  <2> DEFINE r == [NoRequest EXCEPT !.op = "item", !.amount = [j \in {i} |-> delta],
                                    !.asOf = today]
  <2>1. [j \in {i} |-> delta] \in Lines(Int)
    BY OneLine, RequestsAssumption
  <2>2. r \in Requests /\ r.op = "item" /\ DOMAIN r.amount = {i}
    BY <2>1, NoRequestTypes DEF NoRequest, Requests, TypeOK, StoreOK
  <2>3. Begin(p, "begin", r)
    BY <1>4 DEF StartItem
  <2> HIDE DEF r
  <2> QED
    BY <1>1, <2>2, <2>3, BeginTypes
<1>5. ASSUME NEW i \in Invoices, NEW waived \in BOOLEAN, StartWaiver(p, i, waived)
      PROVE  TypeOK'
  <2> DEFINE r == [NoRequest EXCEPT !.op = "waive", !.amount = [j \in {i} |-> 0],
                                    !.flag = waived, !.asOf = today]
  <2>1. [j \in {i} |-> 0] \in Lines(Int)
    <3>1. 0 \in Int
      OBVIOUS
    <3> QED
      BY <3>1, OneLine
  <2>2. r \in Requests /\ r.op = "waive" /\ DOMAIN r.amount = {i}
    BY <2>1, NoRequestTypes DEF NoRequest, Requests, TypeOK, StoreOK
  <2>3. Begin(p, "begin", r)
    BY <1>5 DEF StartWaiver
  <2> HIDE DEF r
  <2> QED
    BY <1>1, <2>2, <2>3, BeginTypes
<1> QED
  BY <1>2, <1>3, <1>4, <1>5 DEF Request

(* The nightly job takes a bill from its list.                             *)
LEMMA StartRecomputeTypes ==
    ASSUME TypeOK, NEW i \in Invoices, StartRecompute(i)
    PROVE  TypeOK'
<1> DEFINE r == [NoRequest EXCEPT !.op = "fee", !.amount = [j \in {i} |-> 0],
                                  !.asOf = night.day]
<1>1. [j \in {i} |-> 0] \in Lines(Int)
  <2>1. 0 \in Int
    OBVIOUS
  <2> QED
    BY <2>1, OneLine
<1>2. r \in Requests /\ r.op = "fee" /\ DOMAIN r.amount = {i}
  BY <1>1, NoRequestTypes DEF NoRequest, Requests, TypeOK, StoreOK
<1>3. Nightly \in Procs
  BY DEF Procs
<1>4. req' = [req EXCEPT ![Nightly] = r] /\ pc' = [pc EXCEPT ![Nightly] = "readRow"]
  BY DEF StartRecompute, Goto
<1> HIDE DEF r
<1>5. \A q \in Procs : RequestOK(q)'
  <2> SUFFICES ASSUME NEW q \in Procs PROVE RequestOK(q)'
    OBVIOUS
  <2>1. CASE q = Nightly
    <3>1. pc'[q] = "readRow" /\ req'[q] = r
      BY <1>3, <1>4, <2>1 DEF TypeOK, TransOK
    <3> QED
      BY <1>2, <3>1 DEF RequestOK, PayLabels, EditLabels
  <2>2. CASE q # Nightly
    <3>1. pc'[q] = pc[q] /\ req'[q] = req[q]
      BY <1>4, <2>2 DEF TypeOK, TransOK
    <3> QED
      BY <3>1 DEF TypeOK, TransOK, RequestOK
  <2> QED
    BY <2>1, <2>2
<1>6. TransOK'
  BY <1>2, <1>4, <1>5 DEF StartRecompute, TypeOK, TransOK, EditLabels
<1>7. StoreOK'
  BY DEF StartRecompute, TypeOK, StoreOK, store
<1> QED
  BY <1>6, <1>7 DEF TypeOK

(* A transaction that commits a payment writes typed rows.                 *)
LEMMA CommitPaymentTypes ==
    ASSUME TypeOK, NEW p \in Procs, CommitPayment(p)
    PROVE  TypeOK'
<1> DEFINE r == req[p]
           fy == fiscalYearOf(r.day)
           n == Cardinality(Bills(p))
           row == [key |-> r.key, amount |-> r.amount, day |-> r.day]
<1>1. pc[p] \in PayLabels
  BY DEF CommitPayment, PayLabels
<1>2. row \in PaymentRows
      /\ \A i \in Bills(p) : PaidBill(i, r) \in BillRecords
  BY <1>1, PaidBillTypes
<1>3. fy \in FYs /\ number[p] \in Nat
  BY DEF fiscalYearOf, FYs, TypeOK, TransOK
<1>4. Bills(p) \in SUBSET Invoices /\ n \in Nat
  <2>1. r.amount \in Lines(Nat)
    BY <1>1 DEF TypeOK, TransOK, RequestOK
  <2>2. Bills(p) \in SUBSET Invoices
    BY <2>1, LinesAreBills DEF Bills
  <2> QED
    BY <2>2, BillsAssumption, FS_Subset, FS_CardinalityType
<1>5. payments' \in Seq(PaymentRows)
  BY <1>2 DEF CommitPayment, TypeOK, StoreOK
<1>6. inv' \in [Invoices -> BillRecords]
  BY <1>2 DEF CommitPayment, TypeOK, StoreOK
<1>7. receipts' \in SUBSET ReceiptRows
  <2>1. PICK place \in Bijection(Bills(p), 1..n) :
          receipts' = receipts \cup
              {[fy |-> fy, n |-> number[p] + place[i], bill |-> i,
                payment |-> Len(payments) + 1] : i \in Bills(p)}
    BY DEF CommitPayment
  <2>2. place \in [Bills(p) -> 1..n]
    BY <2>1 DEF Bijection, Injection
  <2>3. Len(payments) + 1 \in Nat
    BY DEF TypeOK, StoreOK
  <2>4. \A i \in Bills(p) : number[p] + place[i] \in Nat
    BY <1>3, <1>4, <2>2
  <2> HIDE DEF fy, n
  <2> QED
    BY <1>3, <1>4, <2>1, <2>3, <2>4 DEF TypeOK, StoreOK, ReceiptRows
<1>8. receiptSeq' \in [FYs -> Nat]
  <2>1. number[p] + n \in Nat
    BY <1>3, <1>4
  <2> QED
    BY <2>1 DEF CommitPayment, TypeOK, StoreOK
<1>9. StoreOK'
  BY <1>5, <1>6, <1>7, <1>8 DEF CommitPayment, TypeOK, StoreOK
<1>10. TransOK'
  BY FinishTypes DEF CommitPayment, TypeOK
<1> QED
  BY <1>9, <1>10 DEF TypeOK

(* So does one that commits a settlement.                                  *)
LEMMA CommitSettlementTypes ==
    ASSUME TypeOK, NEW p \in Procs, CommitSettlement(p)
    PROVE  TypeOK'
<1> DEFINE r == req[p]
           fy == fiscalYearOf(r.asOf)
           row == [key |-> r.key, amount |-> r.amount, forgive |-> r.forgive,
                   fy |-> fy, n |-> number[p] + 1]
<1>1. pc[p] \in PayLabels /\ r.op = "settle"
  BY DEF CommitSettlement, PayLabels
<1>2. planned(r) \subseteq Bills(p) /\ \A i \in Bills(p) : SettledBill(i, r) \in BillRecords
  BY <1>1, SettledBillTypes
<1>3. fy \in FYs /\ number[p] + 1 \in Nat
  BY DEF fiscalYearOf, FYs, TypeOK, TransOK
<1>4. /\ r \in Requests /\ r.amount \in Lines(Nat) /\ r.forgive \in Lines(Nat)
  BY <1>1 DEF TypeOK, TransOK, RequestOK
<1>5. row \in SettlementRows
  BY <1>3, <1>4 DEF SettlementRows, Requests
<1>6. settlements' \in Seq(SettlementRows)
  BY <1>5 DEF CommitSettlement, TypeOK, StoreOK
<1>7. inv' \in [Invoices -> BillRecords]
  BY <1>2 DEF CommitSettlement, TypeOK, StoreOK
<1>8. settlementSeq' \in [FYs -> Nat]
  BY <1>3 DEF CommitSettlement, TypeOK, StoreOK
<1>9. depositHeld' \in Nat
  <2>1. CASE SettlesDeposit(r)
    <3> DEFINE i == CHOOSE j \in planned(r) : Category[j] = "DEPOSIT"
    <3>1. i \in planned(r)
      BY <2>1 DEF SettlesDeposit
    <3>2. r.amount[i] \in Nat
      BY <1>2, <1>4, <3>1, LinesAreBills DEF Bills
    <3>3. depositAfter(p) = AtLeast(0, held[p].paise - r.amount[i])
      BY <2>1 DEF depositAfter
    <3>4. held[p].paise \in Nat
      BY DEF TypeOK, TransOK, DepositReads
    <3> HIDE DEF i
    <3> QED
      BY <3>2, <3>3, <3>4 DEF CommitSettlement, AtLeast
  <2>2. CASE ~SettlesDeposit(r)
    BY <2>2 DEF CommitSettlement, depositAfter, TypeOK, StoreOK
  <2> QED
    BY <2>1, <2>2
<1>10. StoreOK'
  BY <1>6, <1>7, <1>8, <1>9 DEF CommitSettlement, TypeOK, StoreOK
<1>11. TransOK'
  BY FinishTypes DEF CommitSettlement, TypeOK
<1> QED
  BY <1>10, <1>11 DEF TypeOK

(* A recompute reads, plans and writes typed bills.                        *)
LEMMA RecomputeTypes ==
    ASSUME TypeOK, NEW p \in Procs,
           ReadRow(p) \/ ReadLines(p) \/ WriteFee(p) \/ WriteRow(p)
    PROVE  TypeOK'
<1>1. \A i \in Bills(p) : i \in Invoices /\ inv[i] \in BillRecords
                          /\ req[p].amount[i] \in Int
  <2>1. req[p].amount \in {NoLines} \cup Lines(Int)
    BY DEF TypeOK, TransOK, Requests
  <2>2. CASE req[p].amount = NoLines
    BY <2>2 DEF Bills, NoLines
  <2>3. CASE req[p].amount \in Lines(Int)
    BY <2>3, LinesAreBills DEF Bills, TypeOK, StoreOK
  <2> QED
    BY <2>1, <2>2, <2>3
<1>2. ASSUME ReadRow(p) PROVE TypeOK'
  <2>1. PICK i \in Bills(p) :
          seen' = [seen EXCEPT ![p] =
                     [NoBill EXCEPT !.paid = inv[i].paid, !.forgiven = inv[i].forgiven,
                                    !.settledOn = inv[i].settledOn,
                                    !.waived = IF req[p].op = "waive" THEN req[p].flag
                                               ELSE inv[i].waived]]
    BY <1>2 DEF ReadRow
  <2>2. req[p].flag \in BOOLEAN
    BY DEF TypeOK, TransOK, Requests
  <2>3. [NoBill EXCEPT !.paid = inv[i].paid, !.forgiven = inv[i].forgiven,
                       !.settledOn = inv[i].settledOn,
                       !.waived = IF req[p].op = "waive" THEN req[p].flag
                                  ELSE inv[i].waived] \in BillRecords
    BY <1>1, <2>2, NoRequestTypes DEF NoBill, BillRecords
  <2>4. seen' \in [Procs -> BillRecords]
    BY <2>1, <2>3 DEF TypeOK, TransOK
  <2>5. /\ pc[p] \in EditLabels /\ "readLines" \in EditLabels /\ Goto(p, "readLines")
        /\ UNCHANGED <<req, feeLine, number, held>> /\ StoreOK'
    BY <1>2 DEF ReadRow, EditLabels, TypeOK, StoreOK, store
  <2> QED
    BY <2>4, <2>5, GotoTypes DEF TypeOK, TransOK
<1>3. ASSUME ReadLines(p) PROVE TypeOK'
  <2> DEFINE own(i) == IF req[p].op = "item" THEN req[p].amount[i] ELSE 0
             read(i) == [seen[p] EXCEPT !.charges = inv[i].charges + own(i),
                                        !.settled = inv[i].settled, !.fee = inv[i].fee]
             plan(i) == recomputeInvoice(i, read(i), payments, req[p].asOf)
  <2>1. PICK i \in Bills(p), retold \in BOOLEAN :
          /\ seen' = [seen EXCEPT ![p] = plan(i)]
          /\ feeLine' = [feeLine EXCEPT ![p] =
                            IF plan(i).fee = read(i).fee /\ ~retold THEN "keep"
                            ELSE IF read(i).fee = 0 THEN "create"
                            ELSE IF plan(i).fee = 0 THEN "delete" ELSE "update"]
    BY <1>3 DEF ReadLines
  <2>2. read(i) \in BillRecords
    <3>1. inv[i].charges + own(i) \in Int
      BY <1>1 DEF BillRecords
    <3>2. seen[p] \in BillRecords
      BY DEF TypeOK, TransOK
    <3> HIDE DEF own
    <3> QED
      BY <1>1, <3>1, <3>2 DEF BillRecords
  <2>3. payments \in Seq(PaymentRows) /\ req[p].asOf \in Days \cup {NoDay}
    BY DEF TypeOK, StoreOK, TransOK, Requests
  <2>4. plan(i) \in BillRecords
    <3> HIDE DEF read
    <3> QED
      BY <1>1, <2>2, <2>3, RecomputedBill
  <2> HIDE DEF own, read, plan
  <2>5. /\ seen' \in [Procs -> BillRecords]
        /\ feeLine' \in [Procs -> {"keep", "create", "update", "delete"}]
    BY <2>1, <2>4 DEF TypeOK, TransOK
  <2>6. /\ pc[p] \in EditLabels /\ "writeFee" \in EditLabels /\ Goto(p, "writeFee")
        /\ UNCHANGED <<req, number, held>> /\ StoreOK'
    BY <1>3 DEF ReadLines, EditLabels, TypeOK, StoreOK, store
  <2> QED
    BY <2>5, <2>6, GotoTypes DEF TypeOK, TransOK
<1>4. ASSUME WriteFee(p) PROVE TypeOK'
  <2>1. /\ pc[p] \in EditLabels /\ "writeRow" \in EditLabels /\ Goto(p, "writeRow")
        /\ UNCHANGED <<req, seen, feeLine, number, held>> /\ StoreOK'
    BY <1>4 DEF WriteFee, EditLabels, TypeOK, StoreOK, store
  <2> QED
    BY <2>1, GotoTypes DEF TypeOK, TransOK
<1>5. ASSUME WriteRow(p) PROVE TypeOK'
  <2>1. PICK i \in Bills(p) : inv' = [inv EXCEPT ![i] = written(p, i)]
    BY <1>5 DEF WriteRow
  <2>2. seen[p] \in BillRecords /\ req[p].flag \in BOOLEAN
    BY DEF TypeOK, TransOK, Requests
  <2> DEFINE fee == IF feeLine[p] = "keep" THEN inv[i].fee ELSE seen[p].fee
             charges == inv[i].charges + (IF req[p].op = "item" THEN req[p].amount[i] ELSE 0)
             waived == IF req[p].op = "waive" THEN req[p].flag ELSE inv[i].waived
  <2>3. fee \in Nat /\ charges \in Int /\ waived \in BOOLEAN
    BY <1>1, <2>2 DEF BillRecords
  <2>4. written(p, i) \in BillRecords
    <3>1. written(p, i) = [inv[i] EXCEPT !.total = seen[p].total, !.status = seen[p].status,
                                         !.fee = fee, !.charges = charges, !.waived = waived]
      BY DEF written
    <3> HIDE DEF fee, charges, waived
    <3> QED
      BY <1>1, <2>2, <2>3, <3>1 DEF BillRecords
  <2>5. StoreOK'
    BY <1>5, <2>1, <2>4 DEF WriteRow, TypeOK, StoreOK
  <2> QED
    BY <1>5, <2>5, FinishTypes DEF WriteRow, TypeOK
<1> QED
  BY <1>2, <1>3, <1>4, <1>5
(* A transaction that goes on without writing.                             *)
LEMMA MoveTypes ==
    ASSUME TypeOK, NEW p \in Procs,
           \/ LockBills(p) \/ CheckPayment(p) \/ CheckSettlement(p)
           \/ ApplyPayment(p) \/ ApplySettlement(p) \/ InsertItem(p) \/ WriteWaiver(p)
    PROVE  TypeOK'
<1> USE DEF PayLabels, EditLabels
<1>1. StoreOK'
  BY DEF LockBills, CheckPayment, CheckSettlement, ApplyPayment, ApplySettlement,
         InsertItem, WriteWaiver, store, TypeOK, StoreOK
<1>2. /\ UNCHANGED <<req, seen, feeLine>>
      /\ \/ /\ pc[p] \in PayLabels
            /\ Goto(p, "check") \/ Goto(p, "apply") \/ Goto(p, "commit")
         \/ pc[p] \in EditLabels /\ Goto(p, "readRow")
  BY DEF LockBills, CheckPayment, CheckSettlement, ApplyPayment, ApplySettlement,
         InsertItem, WriteWaiver
<1>3. number' \in [Procs -> Nat]
  <2>1. \A day : fiscalYearOf(day) \in FYs
    BY DEF fiscalYearOf, FYs
  <2>2. \A day : receiptSeq[fiscalYearOf(day)] \in Nat
                /\ settlementSeq[fiscalYearOf(day)] \in Nat
    BY <2>1 DEF TypeOK, StoreOK
  <2>3. number \in [Procs -> Nat]
    BY DEF TypeOK, TransOK
  <2> QED
    BY <2>2, <2>3 DEF LockBills, CheckPayment, CheckSettlement, ApplyPayment,
         ApplySettlement, InsertItem, WriteWaiver
<1>4. TransOK /\ seen' \in [Procs -> BillRecords]
      /\ feeLine' \in [Procs -> {"keep", "create", "update", "delete"}]
  BY <1>2 DEF TypeOK, TransOK
<1>5. held' \in [Procs -> DepositReads]
  <2>1. held \in [Procs -> DepositReads] /\ depositHeld \in Nat
    BY DEF TypeOK, TransOK, StoreOK
  <2>2. [paise |-> depositHeld, corrected |-> FALSE] \in DepositReads
    BY <2>1 DEF DepositReads
  <2> QED
    BY <2>1, <2>2 DEF LockBills, CheckPayment, CheckSettlement, ApplyPayment,
         ApplySettlement, InsertItem, WriteWaiver
<1>6. TransOK'
  BY <1>2, <1>3, <1>4, <1>5, GotoTypes
<1> QED
  BY <1>1, <1>6 DEF TypeOK

(* The owner writes an amount, and no transaction moves.                   *)
LEMMA CorrectionTypes ==
    ASSUME TypeOK, NEW paise \in Corrections, updateResident(paise)
    PROVE  TypeOK'
<1>1. paise \in Nat
  BY RequestsAssumption
<1>2. held' \in [Procs -> DepositReads]
  <2>1. \A p \in Procs : [held[p] EXCEPT !.corrected = TRUE] \in DepositReads
    BY DEF TypeOK, TransOK, DepositReads
  <2> QED
    BY <2>1 DEF updateResident, TypeOK, TransOK
<1>3. TransOK'
  BY <1>2 DEF updateResident, TypeOK, TransOK, RequestOK
<1>4. StoreOK'
  BY <1>1 DEF updateResident, TypeOK, StoreOK
<1> QED
  BY <1>3, <1>4 DEF TypeOK

(* No transaction leaves its operation, no row loses its type.             *)
LEMMA TypeStep ==
    ASSUME TypeOK, [Next]_vars
    PROVE  TypeOK'
<1>1. CASE UNCHANGED vars
  BY <1>1 DEF vars, TypeOK, StoreOK, TransOK, RequestOK
<1>2. ASSUME UNCHANGED trans PROVE TransOK'
  BY <1>2 DEF trans, TypeOK, TransOK, RequestOK
<1>3. CASE NextDay
  BY <1>2, <1>3, RequestsAssumption DEF NextDay, store, Days, TypeOK, StoreOK
<1>4. CASE refreshOverdueStatuses
  <2> DEFINE late == {i \in Invoices : /\ inv[i].status \in {"ISSUED", "PARTIALLY_PAID"}
                                       /\ Category[i] # "ELECTRICITY"
                                       /\ Due[i] < today}
  <2>1. inv' = [i \in Invoices |-> IF i \in late THEN [inv[i] EXCEPT !.status = "OVERDUE"]
                                   ELSE inv[i]]
    BY <1>4 DEF refreshOverdueStatuses
  <2>2. \A i \in Invoices : [inv[i] EXCEPT !.status = "OVERDUE"] \in BillRecords
    BY DEF TypeOK, StoreOK, BillRecords, Statuses, Payable
  <2> HIDE DEF late
  <2>3. inv' \in [Invoices -> BillRecords]
    BY <2>1, <2>2 DEF TypeOK, StoreOK
  <2> QED
    BY <1>2, <1>4, <2>3 DEF refreshOverdueStatuses, TypeOK, StoreOK
<1>5. CASE recomputeLateFees
  BY <1>2, <1>5 DEF recomputeLateFees, store, TypeOK, StoreOK
<1>6. ASSUME NEW i \in Invoices, StartRecompute(i) PROVE TypeOK'
  BY <1>6, StartRecomputeTypes
<1>7. ASSUME NEW p \in Workers, Request(p) PROVE TypeOK'
  BY <1>7, RequestTypes
<1>8. ASSUME NEW p \in Procs, Rollback(p) PROVE TypeOK'
  <2>1. TransOK'
    BY <1>8, FinishTypes DEF Rollback, TypeOK
  <2>2. night' \in [queue : SUBSET Invoices, day : Days \cup {NoDay}]
    BY <1>8 DEF Rollback, TypeOK, StoreOK
  <2> QED
    BY <1>8, <2>1, <2>2 DEF Rollback, store, TypeOK, StoreOK
<1>9. ASSUME NEW p \in Procs, Progress(p) PROVE TypeOK'
  <2>1. CASE LockBills(p) \/ CheckPayment(p) \/ CheckSettlement(p) \/ ApplyPayment(p)
             \/ ApplySettlement(p) \/ InsertItem(p) \/ WriteWaiver(p)
    BY <2>1, MoveTypes
  <2>2. CASE RefusePayment(p) \/ PaymentKeyTaken(p) \/ RefuseSettlement(p)
             \/ SettlementKeyTaken(p)
    BY <2>2, FinishTypes DEF RefusePayment, PaymentKeyTaken, RefuseSettlement,
         SettlementKeyTaken, store, TypeOK, StoreOK
  <2>3. CASE CommitPayment(p)
    BY <2>3, CommitPaymentTypes
  <2>4. CASE CommitSettlement(p)
    BY <2>4, CommitSettlementTypes
  <2>5. CASE ReadRow(p) \/ ReadLines(p) \/ WriteFee(p) \/ WriteRow(p)
    BY <2>5, RecomputeTypes
  <2>6. CASE ConstraintError(p)
    BY <1>8, <2>6 DEF ConstraintError
  <2> QED
    BY <1>9, <2>1, <2>2, <2>3, <2>4, <2>5, <2>6 DEF Progress
<1>10. ASSUME NEW p \in Procs, Abort(p) PROVE TypeOK'
  BY <1>8, <1>10 DEF Abort
<1>11. CASE DeadlockVictim
  BY <1>8, <1>11 DEF DeadlockVictim
<1>12. ASSUME NEW paise \in Corrections, updateResident(paise) PROVE TypeOK'
  BY <1>12, CorrectionTypes
<1> QED
  BY <1>1, <1>3, <1>4, <1>5, <1>6, <1>7, <1>9, <1>10, <1>11, <1>12 DEF Next, Job

(* Every variable keeps its type and every transaction the request its     *)
(* label belongs to, whatever the bills, settings and requests.            *)
THEOREM TypeCorrect == Spec => []TypeOK
<1>1. TypeOK /\ [Next]_vars => TypeOK'
  BY TypeStep
<1> QED
  BY InitTypes, <1>1, PTL DEF Spec
-----------------------------------------------------------------------------
(* The kinds of step.  The clock, the job's list, the overdue refresh and  *)
(* a correction of the deposit held move no transaction; a transaction     *)
(* starts, ends without a trace, goes on, or commits.                      *)

Quiet ==
    /\ UNCHANGED <<pc, req, seen, feeLine, number, payments, receipts, receiptSeq,
                   settlements, settlementSeq>>
    /\ \/ inv' = inv
       \/ refreshOverdueStatuses
    /\ \/ UNCHANGED <<depositHeld, held>>
       \/ \E paise \in Corrections : updateResident(paise)

Starts(p) ==
    /\ pc[p] = "idle"
    /\ Cardinality({q \in Procs : pc[q] # "idle"}) < MaxInFlight
    /\ UNCHANGED <<store, seen, feeLine, number, held>>
    /\ \E r \in Requests, label \in {"lock", "begin", "readRow"} :
          /\ pc' = [pc EXCEPT ![p] = label]
          /\ req' = [req EXCEPT ![p] = r]
          /\ label = "readRow" \/ p = Nightly => r.op = "fee"

Ends(p) == Finish(p) /\ UNCHANGED store

Moves(p) ==
    \/ LockBills(p) \/ CheckPayment(p) \/ CheckSettlement(p)
    \/ ApplyPayment(p) \/ ApplySettlement(p)
    \/ InsertItem(p) \/ WriteWaiver(p)
    \/ ReadRow(p) \/ ReadLines(p) \/ WriteFee(p)

Commits(p) == CommitPayment(p) \/ CommitSettlement(p) \/ WriteRow(p)

LEMMA StepKinds ==
    ASSUME TypeOK, TypeOK', [Next]_vars
    PROVE  Quiet \/ \E p \in Procs : Starts(p) \/ Ends(p) \/ Moves(p) \/ Commits(p)
<1>1. CASE UNCHANGED vars
  BY <1>1 DEF vars, Quiet, trans
<1>2. CASE NextDay
  BY <1>2 DEF NextDay, Quiet, store, trans
<1>3. CASE refreshOverdueStatuses
  BY <1>3 DEF refreshOverdueStatuses, Quiet, trans
<1>4. CASE recomputeLateFees
  BY <1>4 DEF recomputeLateFees, Quiet, store, trans
<1>5. ASSUME NEW i \in Invoices, StartRecompute(i) PROVE Starts(Nightly) /\ Nightly \in Procs
  <2> DEFINE r == [NoRequest EXCEPT !.op = "fee", !.amount = [j \in {i} |-> 0],
                                    !.asOf = night.day]
  <2>1. req' = [req EXCEPT ![Nightly] = r] /\ pc' = [pc EXCEPT ![Nightly] = "readRow"]
    BY <1>5 DEF StartRecompute, Goto
  <2>2. Nightly \in Procs
    BY DEF Procs
  <2>3. r \in Requests
    BY <2>1, <2>2 DEF TypeOK, TransOK
  <2>4. r.op = "fee"
    BY DEF NoRequest
  <2> HIDE DEF r
  <2> QED
    BY <1>5, <2>1, <2>2, <2>3, <2>4 DEF StartRecompute, Starts
<1>6. ASSUME NEW p \in Workers, Request(p) PROVE Starts(p) /\ p \in Procs
  <2>1. p \in Procs
    BY DEF Procs
  <2>2. \E r, label : label \in {"lock", "begin"} /\ Begin(p, label, r)
    BY <1>6 DEF Request, StartPayment, StartSettlement, StartItem, StartWaiver
  <2>3. PICK r, label : label \in {"lock", "begin"} /\ Begin(p, label, r)
    BY <2>2
  <2>4. r \in Requests
    BY <2>1, <2>3 DEF Begin, TypeOK, TransOK
  <2> QED
    BY <2>1, <2>3, <2>4, RequestsAssumption DEF Begin, Starts
<1>7. ASSUME NEW p \in Procs, Progress(p) PROVE Ends(p) \/ Moves(p) \/ Commits(p)
  BY <1>7 DEF Progress, Moves, Commits, Ends, RefusePayment, PaymentKeyTaken,
       RefuseSettlement, SettlementKeyTaken, ConstraintError, Rollback
<1>8. ASSUME NEW p \in Procs, Abort(p) PROVE Ends(p)
  BY <1>8 DEF Abort, Rollback, Ends
<1>9. ASSUME DeadlockVictim PROVE \E p \in Procs : Ends(p)
  BY <1>9 DEF DeadlockVictim, Rollback, Ends
<1>10. ASSUME NEW paise \in Corrections, updateResident(paise) PROVE Quiet
  BY <1>10 DEF updateResident, Quiet
<1> QED
  BY <1>1, <1>2, <1>3, <1>4, <1>5, <1>6, <1>7, <1>8, <1>9, <1>10 DEF Next, Job
-----------------------------------------------------------------------------
(* Row locks.                                                              *)

(* The row locks on a bill conflict: while one transaction holds it FOR    *)
(* UPDATE no other transaction holds any lock on it.                       *)
LocksExclusive ==
    \A p, q \in Procs : p # q =>
        \A i \in Invoices : LocksForUpdate(p, i) =>
            ~LocksForUpdate(q, i) /\ ~LocksNoKeyUpdate(q, i) /\ ~LocksKeyShare(q, i)

(* What a transaction locks depends on its own label, request and plan.    *)
Still(q) == pc'[q] = pc[q] /\ req'[q] = req[q] /\ feeLine'[q] = feeLine[q]

LEMMA StillLocks ==
    ASSUME NEW q \in Procs, Still(q), NEW i \in Invoices
    PROVE  /\ LocksForUpdate(q, i)' <=> LocksForUpdate(q, i)
           /\ LocksNoKeyUpdate(q, i)' <=> LocksNoKeyUpdate(q, i)
           /\ LocksKeyShare(q, i)' <=> LocksKeyShare(q, i)
BY DEF Still, LocksForUpdate, LocksNoKeyUpdate, LocksKeyShare, Bills

(* A step of one transaction that takes no lock it may not take.           *)
LEMMA LockStep ==
    ASSUME LocksExclusive, NEW p \in Procs, \A q \in Procs \ {p} : Still(q),
           \A i \in Invoices :
              /\ LocksForUpdate(p, i)' => LocksForUpdate(p, i) \/ MayLockForUpdate(p, i)
              /\ LocksNoKeyUpdate(p, i)' =>
                    LocksNoKeyUpdate(p, i) \/ MayLockNoKeyUpdate(p, i)
              /\ LocksKeyShare(p, i)' => LocksKeyShare(p, i) \/ MayLockKeyShare(p, i)
    PROVE  LocksExclusive'
<1> SUFFICES ASSUME NEW q \in Procs, NEW s \in Procs, q # s, NEW i \in Invoices,
                    LocksForUpdate(q, i)'
             PROVE  /\ ~LocksForUpdate(s, i)' /\ ~LocksNoKeyUpdate(s, i)'
                    /\ ~LocksKeyShare(s, i)'
  BY DEF LocksExclusive
<1>1. CASE q = p
  <2>1. /\ LocksForUpdate(s, i)' <=> LocksForUpdate(s, i)
        /\ LocksNoKeyUpdate(s, i)' <=> LocksNoKeyUpdate(s, i)
        /\ LocksKeyShare(s, i)' <=> LocksKeyShare(s, i)
    BY <1>1, StillLocks
  <2>2. CASE LocksForUpdate(p, i)
    BY <1>1, <2>1, <2>2 DEF LocksExclusive
  <2>3. CASE MayLockForUpdate(p, i)
    BY <1>1, <2>1, <2>3 DEF MayLockForUpdate
  <2> QED
    BY <1>1, <2>2, <2>3
<1>2. CASE q # p
  <2>1. LocksForUpdate(q, i)
    BY <1>2, StillLocks
  <2>2. CASE s = p
    BY <1>2, <2>1, <2>2 DEF LocksExclusive, MayLockForUpdate, MayLockNoKeyUpdate,
         MayLockKeyShare
  <2>3. CASE s # p
    <3>1. /\ LocksForUpdate(s, i)' <=> LocksForUpdate(s, i)
          /\ LocksNoKeyUpdate(s, i)' <=> LocksNoKeyUpdate(s, i)
          /\ LocksKeyShare(s, i)' <=> LocksKeyShare(s, i)
      BY <2>3, StillLocks
    <3> QED
      BY <2>1, <3>1 DEF LocksExclusive
  <2> QED
    BY <2>2, <2>3
<1> QED
  BY <1>1, <1>2

(* Each kind of step leaves every other transaction where it is.           *)
LEMMA OthersStill ==
    ASSUME TypeOK, NEW p \in Procs, Starts(p) \/ Ends(p) \/ Moves(p) \/ Commits(p)
    PROVE  \A q \in Procs \ {p} : Still(q)
<1> SUFFICES ASSUME NEW q \in Procs \ {p} PROVE Still(q)
  OBVIOUS
<1> USE DEF TypeOK, TransOK, Still
<1>1. CASE Starts(p)
  BY <1>1 DEF Starts
<1>2. ASSUME Finish(p) PROVE Still(q)
  BY <1>2 DEF Finish
<1>3. CASE Moves(p)
  BY <1>3 DEF Moves, LockBills, CheckPayment, CheckSettlement, ApplyPayment,
       ApplySettlement, InsertItem, WriteWaiver, ReadRow, ReadLines, WriteFee, Goto
<1> QED
  BY <1>1, <1>2, <1>3 DEF Ends, Commits, CommitPayment, CommitSettlement, WriteRow

(* A transaction that has ended holds no lock.                             *)
LEMMA FinishLocks ==
    ASSUME TypeOK, NEW p \in Procs, Finish(p)
    PROVE  /\ pc'[p] = "idle"
           /\ \A i \in Invoices : /\ ~LocksForUpdate(p, i)' /\ ~LocksNoKeyUpdate(p, i)'
                                  /\ ~LocksKeyShare(p, i)'
<1>1. pc'[p] = "idle"
  BY DEF Finish, TypeOK, TransOK
<1> QED
  BY <1>1 DEF LocksForUpdate, LocksNoKeyUpdate, LocksKeyShare

LEMMA LocksStep ==
    ASSUME TypeOK, TypeOK', LocksExclusive, [Next]_vars
    PROVE  LocksExclusive'
<1>1. CASE Quiet
  <2>1. \A q \in Procs : Still(q)
    BY <1>1 DEF Quiet, trans, Still
  <2> QED
    BY <2>1, StillLocks DEF LocksExclusive
<1>2. ASSUME NEW p \in Procs, Starts(p) PROVE LocksExclusive'
  <2>1. PICK r \in Requests, label \in {"lock", "begin", "readRow"} :
          pc'[p] = label /\ req'[p] = r /\ (label = "readRow" => r.op = "fee")
    BY <1>2 DEF Starts, TypeOK, TransOK
  <2>2. \A i \in Invoices : /\ ~LocksForUpdate(p, i)' /\ ~LocksNoKeyUpdate(p, i)'
                            /\ ~LocksKeyShare(p, i)'
    BY <2>1 DEF LocksForUpdate, LocksNoKeyUpdate, LocksKeyShare
  <2> QED
    BY <1>2, <2>2, OthersStill, LockStep
<1>3. ASSUME NEW p \in Procs, Ends(p) \/ Commits(p) PROVE LocksExclusive'
  <2>1. Finish(p)
    BY <1>3 DEF Ends, Commits, CommitPayment, CommitSettlement, WriteRow
  <2> QED
    BY <1>3, <2>1, FinishLocks, OthersStill, LockStep
<1>4. ASSUME NEW p \in Procs, Moves(p) PROVE LocksExclusive'
  <2>1. req'[p] = req[p] /\ Bills(p)' = Bills(p)
    BY <1>4 DEF Moves, LockBills, CheckPayment, CheckSettlement, ApplyPayment,
         ApplySettlement, InsertItem, WriteWaiver, ReadRow, ReadLines, WriteFee, Bills
  <2> USE DEF LocksForUpdate, LocksNoKeyUpdate, LocksKeyShare
  <2>2. ASSUME NEW i \in Invoices
        PROVE  /\ LocksForUpdate(p, i)' => LocksForUpdate(p, i) \/ MayLockForUpdate(p, i)
               /\ LocksNoKeyUpdate(p, i)' =>
                     LocksNoKeyUpdate(p, i) \/ MayLockNoKeyUpdate(p, i)
               /\ LocksKeyShare(p, i)' => LocksKeyShare(p, i) \/ MayLockKeyShare(p, i)
    <3>1. CASE LockBills(p)
      <4>1. pc'[p] = "check" /\ (i \in Bills(p) => MayLockForUpdate(p, i))
        BY <3>1 DEF LockBills, Goto, TypeOK, TransOK
      <4> QED
        BY <2>1, <4>1
    <3>2. CASE CheckPayment(p) \/ CheckSettlement(p) \/ ApplyPayment(p)
               \/ ApplySettlement(p)
      <4>1. pc[p] \in {"check", "apply"} /\ pc'[p] \in {"apply", "commit"}
        BY <3>2 DEF CheckPayment, CheckSettlement, ApplyPayment, ApplySettlement, Goto,
             TypeOK, TransOK
      <4> QED
        BY <2>1, <4>1
    <3>3. CASE InsertItem(p)
      <4>1. /\ pc'[p] = "readRow" /\ req[p].op = "item"
            /\ (i \in Bills(p) => MayLockKeyShare(p, i))
        BY <3>3 DEF InsertItem, Goto, TypeOK, TransOK
      <4> QED
        BY <2>1, <4>1
    <3>4. CASE WriteWaiver(p)
      <4>1. /\ pc'[p] = "readRow" /\ req[p].op = "waive"
            /\ (i \in Bills(p) => MayLockNoKeyUpdate(p, i))
        BY <3>4 DEF WriteWaiver, Goto, TypeOK, TransOK
      <4> QED
        BY <2>1, <4>1
    <3>5. CASE ReadRow(p) \/ ReadLines(p)
      <4>1. /\ pc[p] \in {"readRow", "readLines"} /\ pc'[p] \in {"readLines", "writeFee"}
        BY <3>5 DEF ReadRow, ReadLines, Goto, TypeOK, TransOK
      <4> QED
        BY <2>1, <4>1
    <3>6. CASE WriteFee(p)
      <4>1. PICK j \in Bills(p) : feeLine[p] = "create" => MayLockKeyShare(p, j)
        BY <3>6 DEF WriteFee
      <4>2. pc[p] = "writeFee" /\ pc'[p] = "writeRow" /\ feeLine'[p] = feeLine[p]
        BY <3>6 DEF WriteFee, Goto, TypeOK, TransOK
      <4>3. i \in Bills(p) => i = j
        BY <4>1, <4>2 DEF TypeOK, TransOK, RequestOK, EditLabels, Bills
      <4> QED
        BY <2>1, <4>1, <4>2, <4>3
    <3> QED
      BY <1>4, <3>1, <3>2, <3>3, <3>4, <3>5, <3>6 DEF Moves
  <2> QED
    BY <1>4, <2>2, OthersStill, LockStep
<1> QED
  BY <1>1, <1>2, <1>3, <1>4, StepKinds
-----------------------------------------------------------------------------
(* What is checked under the lock still holds at the commit.               *)

Checked(p) == IF req[p].op = "pay" THEN PaymentFits(req[p]) ELSE planSettlement(req[p])

(* The check reads the bills of the request and nothing else.              *)
LEMMA CheckReadsItsBills ==
    ASSUME NEW p \in Procs, pc[p] \in PayLabels, TypeOK, Checked(p),
           req'[p] = req[p], \A i \in Bills(p) : inv'[i] = inv[i]
    PROVE  Checked(p)'
<1>1. CASE req[p].op = "pay"
  BY <1>1 DEF Checked, PaymentFits, Bills, outstanding
<1>2. CASE req[p].op # "pay"
  BY <1>2 DEF Checked, planSettlement, planned, Bills, outstandingPrincipal, principal
<1> QED
  BY <1>1, <1>2

(* A committing step writes no bill that another transaction has locked.   *)
LEMMA LockedBillsKept ==
    ASSUME TypeOK, LocksExclusive, NEW p \in Procs, NEW i \in Invoices, LocksForUpdate(p, i),
           \/ Quiet
           \/ \E q \in Procs : Starts(q) \/ Ends(q) \/ Moves(q)
           \/ \E q \in Procs \ {p} : Commits(q)
    PROVE  inv'[i] = inv[i]
<1>1. CASE Quiet
  <2>1. CASE refreshOverdueStatuses
    <3> DEFINE late == {j \in Invoices : /\ inv[j].status \in {"ISSUED", "PARTIALLY_PAID"}
                                         /\ Category[j] # "ELECTRICITY"
                                         /\ Due[j] < today}
    <3>1. /\ \A j \in late, q \in Procs : ~LocksForUpdate(q, j)
          /\ inv' = [j \in Invoices |-> IF j \in late THEN [inv[j] EXCEPT !.status = "OVERDUE"]
                                         ELSE inv[j]]
      BY <2>1 DEF refreshOverdueStatuses
    <3> HIDE DEF late
    <3> QED
      BY <3>1
  <2> QED
    BY <1>1, <2>1 DEF Quiet
<1>2. ASSUME NEW q \in Procs, Starts(q) \/ Ends(q) \/ Moves(q) PROVE inv' = inv
  BY <1>2 DEF Starts, Ends, Moves, store, LockBills, CheckPayment, CheckSettlement,
       ApplyPayment, ApplySettlement, InsertItem, WriteWaiver, ReadRow, ReadLines, WriteFee
<1>3. ASSUME NEW q \in Procs \ {p}, CommitPayment(q) PROVE inv'[i] = inv[i]
  <2>1. i \notin Bills(q)
    BY <1>3 DEF LocksExclusive, LocksForUpdate, CommitPayment
  <2> QED
    BY <1>3, <2>1 DEF CommitPayment
<1>4. ASSUME NEW q \in Procs \ {p}, CommitSettlement(q) PROVE inv'[i] = inv[i]
  <2>1. i \notin Bills(q)
    BY <1>4 DEF LocksExclusive, LocksForUpdate, CommitSettlement
  <2> QED
    BY <1>4, <2>1 DEF CommitSettlement, planned, Bills
<1>5. ASSUME NEW q \in Procs \ {p}, WriteRow(q) PROVE inv'[i] = inv[i]
  <2>1. PICK j \in Bills(q) : MayLockNoKeyUpdate(q, j) /\ inv' = [inv EXCEPT ![j] = written(q, j)]
    BY <1>5 DEF WriteRow
  <2>2. i # j
    BY <2>1 DEF MayLockNoKeyUpdate
  <2> QED
    BY <2>1, <2>2 DEF TypeOK, StoreOK
<1> QED
  BY <1>1, <1>2, <1>3, <1>4, <1>5 DEF Commits

LEMMA CheckedStep ==
    ASSUME TypeOK, TypeOK', LocksExclusive, CheckedUnderLock, [Next]_vars
    PROVE  CheckedUnderLock'
<1> SUFFICES ASSUME NEW p \in Procs, pc'[p] \in {"apply", "commit"} PROVE Checked(p)'
  BY DEF CheckedUnderLock, Checked
<1>1. ASSUME pc[p] \in {"apply", "commit"}, req'[p] = req[p],
             \A i \in Invoices : LocksForUpdate(p, i) => inv'[i] = inv[i]
      PROVE  Checked(p)'
  <2>1. pc[p] \in PayLabels
    BY <1>1 DEF PayLabels
  <2>2. \A i \in Bills(p) : i \in Invoices /\ LocksForUpdate(p, i)
    BY <1>1, <2>1, LinesAreBills DEF TypeOK, TransOK, RequestOK, Bills, LocksForUpdate
  <2>3. Checked(p)
    BY <1>1 DEF CheckedUnderLock, Checked
  <2> QED
    BY <1>1, <2>1, <2>2, <2>3, CheckReadsItsBills
<1>2. CASE Quiet
  <2>1. pc'[p] = pc[p] /\ req'[p] = req[p]
    BY <1>2 DEF Quiet, trans
  <2> QED
    BY <1>1, <1>2, <2>1, LockedBillsKept
<1>3. ASSUME NEW q \in Procs \ {p}, Starts(q) \/ Ends(q) \/ Moves(q) \/ Commits(q)
      PROVE  Checked(p)'
  <2>1. pc'[p] = pc[p] /\ req'[p] = req[p]
    BY <1>3, OthersStill DEF Still
  <2> QED
    BY <1>1, <1>3, <2>1, LockedBillsKept
<1>4. CASE Starts(p)
  BY <1>4 DEF Starts, TypeOK, TransOK
<1>5. CASE Ends(p) \/ Commits(p)
  <2>1. Finish(p)
    BY <1>5 DEF Ends, Commits, CommitPayment, CommitSettlement, WriteRow
  <2> QED
    BY <2>1, FinishLocks
<1>6. CASE Moves(p)
  <2>1. req'[p] = req[p] /\ inv' = inv /\ pc[p] \in PayLabels
    BY <1>6 DEF Moves, store, LockBills, CheckPayment, CheckSettlement, ApplyPayment, PayLabels,
         ApplySettlement, InsertItem, WriteWaiver, ReadRow, ReadLines, WriteFee, Goto, TypeOK, TransOK
  <2>2. Checked(p)
    <3>1. CASE CheckPayment(p) \/ CheckSettlement(p)
      BY <3>1 DEF CheckPayment, CheckSettlement, Checked
    <3>2. CASE ApplyPayment(p) \/ ApplySettlement(p)
      BY <3>2 DEF ApplyPayment, ApplySettlement, CheckedUnderLock, Checked
    <3>3. ~(LockBills(p) \/ InsertItem(p) \/ WriteWaiver(p) \/ ReadRow(p) \/ ReadLines(p)
            \/ WriteFee(p))
      BY DEF LockBills, InsertItem, WriteWaiver, ReadRow, ReadLines, WriteFee, Goto,
         TypeOK, TransOK
    <3> QED
      BY <1>6, <3>1, <3>2, <3>3 DEF Moves
  <2> QED
    BY <2>1, <2>2, CheckReadsItsBills
<1> QED
  BY <1>2, <1>3, <1>4, <1>5, <1>6, StepKinds

(* What a payment or settlement checked under the bills' locks - the bill  *)
(* is payable and owes the amount - still holds when it commits, whatever  *)
(* other requests and the nightly job do to the same bills meanwhile.      *)
THEOREM ChecksHoldAtCommit == Spec => []CheckedUnderLock
<1> DEFINE IInv == TypeOK /\ LocksExclusive /\ CheckedUnderLock
<1>1. Init => IInv
  <2>1. Init => LocksExclusive /\ CheckedUnderLock
    BY DEF Init, LocksExclusive, CheckedUnderLock, LocksForUpdate
  <2> QED
    BY <2>1, InitTypes
<1>2. IInv /\ [Next]_vars => IInv'
  BY TypeStep, LocksStep, CheckedStep
<1>3. IInv => CheckedUnderLock
  OBVIOUS
<1> QED
  BY <1>1, <1>2, <1>3, PTL DEF Spec
-----------------------------------------------------------------------------
(* What a recompute leaves on a bill.                                      *)

(* The fee never passes the cap, and what was forgiven counts towards it.  *)
LEMMA FeeUnderCap ==
    ASSUME NEW i \in Invoices, NEW b \in BillRecords, NEW made \in Seq(PaymentRows),
           NEW asOf \in Days \cup {NoDay}, b.forgiven <= Cap
    PROVE  LET c == recomputeInvoice(i, b, made, asOf) IN c.fee + b.forgiven <= Cap
<1> DEFINE latest == latestPaymentDate(i, made, asOf)
           on     == clearedOn(b, latest)
           owed   == AtLeast(0, principal(b) - b.paid)
           late   == calculateLateFee(Due[i], asOf, on, b.waived, owed)
           fee    == chargedFee(Category[i], Due[i], b, latest, asOf)
<1>1. recomputeInvoice(i, b, made, asOf).fee = fee
  BY DEF recomputeInvoice, recomputed, BillRecords
<1>2. latest \in Int /\ asOf \in Int /\ Due[i] \in Nat /\ b.forgiven \in Nat
  <2>1. Days \cup {NoDay} \subseteq Int
    BY RequestsAssumption DEF Days, NoDay
  <2>2. latest \in Days \cup {NoDay}
    BY LatestPaymentIsADay
  <2> QED
    BY <2>1, <2>2, BillsAssumption DEF BillRecords
<1>3. on \in Int
  BY <1>2, RequestsAssumption DEF clearedOn, cleared, BillRecords, Days, NoDay, AtLeast
<1>4. \A measured \in Int : \A w, o :
        /\ calculateLateFee(Due[i], asOf, measured, w, o) \in Int
        /\ calculateLateFee(Due[i], asOf, measured, w, o) <= Cap
  BY <1>2, SettingsAssumption DEF calculateLateFee, AtMost, NoDay
<1>5. late \in Int /\ late <= Cap
  BY <1>3, <1>4
<1>6. fee = IF Category[i] # "RENT" THEN 0 ELSE AtLeast(0, late - b.forgiven)
  BY DEF chargedFee
<1> HIDE DEF late, fee
<1> QED
  BY <1>1, <1>2, <1>5, <1>6, SettingsAssumption DEF AtLeast

(* Total and status of a recomputed bill agree with its lines, and its     *)
(* payments, waiver and settling day are as they were.                     *)
LEMMA RecomputedAgrees ==
    ASSUME NEW i \in Invoices, NEW b \in BillRecords, NEW made \in Seq(PaymentRows),
           NEW asOf \in Days \cup {NoDay}
    PROVE  LET c == recomputeInvoice(i, b, made, asOf) IN
           /\ c.total = principal(c) + c.fee
           /\ c.status = "PAID" <=> c.paid >= c.total
           /\ c.waived = b.waived /\ c.settledOn = b.settledOn
<1> DEFINE c == recomputeInvoice(i, b, made, asOf)
<1>1. /\ c \in BillRecords /\ c.paid = b.paid /\ c.settled = b.settled
      /\ c.charges = b.charges /\ c.total = principal(b) + c.fee
  BY RecomputedBill
<1>2. /\ c.waived = b.waived /\ c.settledOn = b.settledOn
      /\ \E d, e, x : c.status = deriveInvoiceStatus(c.total, b.paid, d, e, x)
  BY DEF recomputeInvoice, recomputed, BillRecords
<1>3. c.status = "PAID" <=> b.paid >= c.total
  BY <1>2 DEF deriveInvoiceStatus
<1>4. principal(c) = principal(b)
  BY <1>1 DEF principal
<1> HIDE DEF c
<1>5. /\ c.total = principal(c) + c.fee
      /\ c.status = "PAID" <=> c.paid >= c.total
      /\ c.waived = b.waived /\ c.settledOn = b.settledOn
  BY <1>1, <1>2, <1>3, <1>4
<1> QED
  BY <1>5 DEF c

(* The fee that a cleared bill keeps, whatever day it is looked at.        *)
FixedFee(i, b, made) ==
    chargedFee(Category[i], Due[i], b, latestPaymentDate(i, made, NoDay), NoDay)

(* Of a cleared bill the fee depends on its payments, its settlements, the *)
(* waiver and the forgiven part, and neither on the day nor on the lines.  *)
LEMMA FeeOfCleared ==
    ASSUME NEW i \in Invoices, NEW b \in BillRecords, NEW c \in BillRecords,
           cleared(b), cleared(c),
           b.paid = c.paid, b.settledOn = c.settledOn, b.waived = c.waived,
           b.forgiven = c.forgiven,
           NEW latest \in Int, NEW asOf \in Int, NEW last \in Int, NEW day \in Int,
           b.paid > 0 => latest = last
    PROVE  chargedFee(Category[i], Due[i], b, latest, asOf)
             = chargedFee(Category[i], Due[i], c, last, day)
<1>1. clearedOn(b, latest) = clearedOn(c, last)
  BY DEF clearedOn
<1>2. /\ AtLeast(0, principal(b) - b.paid) = 0
      /\ AtLeast(0, principal(c) - c.paid) = 0
  BY DEF cleared, principal, AtLeast, BillRecords
<1>3. \A on : calculateLateFee(Due[i], asOf, on, b.waived, 0)
                = calculateLateFee(Due[i], day, on, c.waived, 0)
  BY DEF calculateLateFee
<1> QED
  BY <1>1, <1>2, <1>3 DEF chargedFee

(* With a payment on the bill, the day to fall back on is of no account.   *)
LEMMA LatestIsOfPayments ==
    ASSUME NEW i, NEW made, NEW n \in DOMAIN made, i \in DOMAIN made[n].amount,
           NEW asOf, NEW day
    PROVE  latestPaymentDate(i, made, asOf) = latestPaymentDate(i, made, day)
BY DEF latestPaymentDate

(* A payment of other bills does not move the latest payment of this one.  *)
LEMMA LatestKept ==
    ASSUME NEW made \in Seq(PaymentRows), NEW row \in PaymentRows,
           NEW i, i \notin DOMAIN row.amount, NEW day
    PROVE  latestPaymentDate(i, Append(made, row), day) = latestPaymentDate(i, made, day)
<1> DEFINE longer == Append(made, row)
           On(rows) == {m \in DOMAIN rows : i \in DOMAIN rows[m].amount}
           dates(rows) == {rows[n].day : n \in On(rows)}
<1>1. /\ DOMAIN longer = DOMAIN made \cup {Len(made) + 1}
      /\ longer[Len(made) + 1] = row
      /\ \A n \in DOMAIN made : longer[n] = made[n]
  OBVIOUS
<1> HIDE DEF longer
<1>2. On(longer) = On(made)
  BY <1>1
<1>3. dates(longer) = dates(made)
  BY <1>1, <1>2
<1>4. \A rows : latestPaymentDate(i, rows, day)
        = IF dates(rows) = {} THEN day
          ELSE CHOOSE d \in dates(rows) : \A e \in dates(rows) : e <= d
  BY DEF latestPaymentDate
<1> HIDE DEF dates
<1>5. latestPaymentDate(i, longer, day) = latestPaymentDate(i, made, day)
  BY <1>3, <1>4
<1> QED
  BY <1>5 DEF longer

(* A recomputed bill that is cleared has the fee it keeps.                 *)
LEMMA RecomputedFixed ==
    ASSUME NEW i \in Invoices, NEW b \in BillRecords, NEW made \in Seq(PaymentRows),
           NEW asOf \in Days \cup {NoDay},
           b.paid > 0 => \E n \in DOMAIN made : i \in DOMAIN made[n].amount,
           cleared(recomputeInvoice(i, b, made, asOf))
    PROVE  LET c == recomputeInvoice(i, b, made, asOf) IN c.fee = FixedFee(i, c, made)
<1> DEFINE c == recomputeInvoice(i, b, made, asOf)
           latest == latestPaymentDate(i, made, asOf)
           last == latestPaymentDate(i, made, NoDay)
<1>1. /\ c \in BillRecords /\ c.paid = b.paid /\ c.settled = b.settled
      /\ c.forgiven = b.forgiven /\ c.charges = b.charges
      /\ c.waived = b.waived /\ c.settledOn = b.settledOn
  BY RecomputedBill, RecomputedAgrees
<1>2. cleared(c) /\ cleared(b)
  BY <1>1 DEF cleared, principal
<1>3. /\ latest \in Days \cup {NoDay} /\ last \in Days \cup {NoDay}
      /\ Days \cup {NoDay} \subseteq Int
  BY LatestPaymentIsADay, RequestsAssumption DEF Days, NoDay
<1>4. b.paid > 0 => latest = last
  BY LatestIsOfPayments
<1>5. c.fee = chargedFee(Category[i], Due[i], b, latest, asOf)
  BY DEF recomputeInvoice, recomputed, BillRecords
<1>6. c.fee = chargedFee(Category[i], Due[i], c, last, NoDay)
  <2> HIDE DEF c, latest, last
  <2>1. NoDay \in Int /\ asOf \in Int /\ latest \in Int /\ last \in Int
    BY <1>3
  <2> QED
    BY <1>1, <1>2, <1>4, <1>5, <2>1, FeeOfCleared
<1> QED
  BY <1>6 DEF FixedFee

(* The fee of a rent bill that is not cleared: the days past the grace, up *)
(* to the cap, less what was forgiven.                                     *)
LEMMA FeeOfUnpaid ==
    ASSUME NEW i \in Invoices, NEW b \in BillRecords, NEW made \in Seq(PaymentRows),
           NEW asOf \in Days \cup {NoDay},
           Category[i] = "RENT", ~b.waived, ~cleared(b)
    PROVE  LET late == asOf - Due[i] - GraceDays IN
           recomputeInvoice(i, b, made, asOf).fee
             = AtLeast(0, AtMost(Cap, PerDay * AtLeast(0, late)) - b.forgiven)
<1> DEFINE latest == latestPaymentDate(i, made, asOf)
           late == asOf - Due[i] - GraceDays
           owed == AtLeast(0, principal(b) - b.paid)
<1>1. asOf \in Int /\ Due[i] \in Nat /\ GraceDays \in Nat /\ PerDay \in Nat /\ Cap \in Nat
  BY BillsAssumption, SettingsAssumption, RequestsAssumption DEF Days, NoDay
<1>2. clearedOn(b, latest) = NoDay
  BY DEF clearedOn, AtLeast
<1>3. owed \in Int /\ owed > 0
  BY DEF cleared, principal, AtLeast, BillRecords
<1>4. asOf - (Due[i] + GraceDays) = late /\ late \in Int
  BY <1>1
<1>5. calculateLateFee(Due[i], asOf, NoDay, b.waived, owed)
        = IF late <= 0 THEN 0 ELSE AtMost(late * PerDay, Cap)
  <2> HIDE DEF late, owed
  <2> QED
    BY <1>3, <1>4 DEF calculateLateFee
<1>6. (IF late <= 0 THEN 0 ELSE AtMost(late * PerDay, Cap))
        = AtMost(Cap, PerDay * AtLeast(0, late))
  <2> HIDE DEF late
  <2>1. CASE late <= 0
    <3>1. PerDay * AtLeast(0, late) = 0
      BY <1>1, <1>4, <2>1 DEF AtLeast
    <3> QED
      BY <1>1, <2>1, <3>1 DEF AtMost
  <2>2. CASE late > 0
    <3>1. late * PerDay = PerDay * AtLeast(0, late) /\ late * PerDay \in Int
      BY <1>1, <1>4, <2>2 DEF AtLeast
    <3> QED
      BY <1>1, <1>4, <2>2, <3>1 DEF AtMost
  <2> QED
    BY <1>4, <2>1, <2>2
<1>7. recomputeInvoice(i, b, made, asOf).fee = chargedFee(Category[i], Due[i], b, latest, asOf)
  BY DEF recomputeInvoice, recomputed, BillRecords
<1>8. chargedFee(Category[i], Due[i], b, latest, asOf)
        = AtLeast(0, calculateLateFee(Due[i], asOf, NoDay, b.waived, owed) - b.forgiven)
  BY <1>2 DEF chargedFee
<1> QED
  BY <1>5, <1>6, <1>7, <1>8
-----------------------------------------------------------------------------
(* One transaction at a time.  Nobody acts beside the one in flight, so    *)
(* what it has read of a bill is still so when it writes.                  *)

Alone == \A p, q \in Procs : pc[p] # "idle" /\ pc[q] # "idle" => p = q

(* The job recomputes fees and does nothing else.                          *)
JobOnly == Nightly \in Procs /\ (pc[Nightly] # "idle" => req[Nightly].op = "fee")

(* The bill's row, and the bill with its lines, as p reads them.           *)
RowRead(p, i) ==
    [NoBill EXCEPT !.paid = inv[i].paid, !.forgiven = inv[i].forgiven,
                   !.settledOn = inv[i].settledOn,
                   !.waived = IF req[p].op = "waive" THEN req[p].flag ELSE inv[i].waived]
BillRead(p, i) ==
    [RowRead(p, i) EXCEPT !.charges = inv[i].charges
                              + (IF req[p].op = "item" THEN req[p].amount[i] ELSE 0),
                          !.settled = inv[i].settled, !.fee = inv[i].fee]

ReadHolds(p) ==
    \A i \in Bills(p) :
        /\ pc[p] = "readLines" => seen[p] = RowRead(p, i)
        /\ pc[p] \in {"writeFee", "writeRow"} =>
              /\ seen[p] = recomputeInvoice(i, BillRead(p, i), payments, req[p].asOf)
              /\ feeLine[p] = "keep" => seen[p].fee = inv[i].fee
ReadsHold == \A p \in Procs : ReadHolds(p)

(* Every bill is as a recompute left it: total and status follow its lines *)
(* and payments, the fee and what was forgiven of it stay under the cap,   *)
(* and a cleared bill has the fee it keeps.                                *)
PricedBill(i, b, made) ==
    /\ b.total = principal(b) + b.fee
    /\ b.status = "PAID" <=> b.paid >= b.total
    /\ b.fee + b.forgiven <= Cap
    /\ b.paid > 0 => \E n \in DOMAIN made : i \in DOMAIN made[n].amount
    /\ cleared(b) => b.fee = FixedFee(i, b, made)
Priced == \A i \in Invoices : PricedBill(i, inv[i], payments)

Fees ==
    /\ TypeOK /\ LocksExclusive /\ CheckedUnderLock
    /\ Alone /\ JobOnly /\ ReadsHold /\ Priced
-----------------------------------------------------------------------------
LEMMA RecomputedPriced ==
    ASSUME NEW i \in Invoices, NEW b \in BillRecords, NEW made \in Seq(PaymentRows),
           NEW asOf \in Days \cup {NoDay}, b.forgiven <= Cap,
           b.paid > 0 => \E n \in DOMAIN made : i \in DOMAIN made[n].amount
    PROVE  PricedBill(i, recomputeInvoice(i, b, made, asOf), made)
<1> DEFINE c == recomputeInvoice(i, b, made, asOf)
<1>1. c.paid = b.paid /\ c.forgiven = b.forgiven
  BY RecomputedBill
<1>2. c.total = principal(c) + c.fee /\ (c.status = "PAID" <=> c.paid >= c.total)
  BY RecomputedAgrees
<1>3. c.fee + b.forgiven <= Cap
  BY FeeUnderCap
<1>4. cleared(c) => c.fee = FixedFee(i, c, made)
  BY RecomputedFixed
<1> HIDE DEF c
<1>5. PricedBill(i, c, made)
  BY <1>1, <1>2, <1>3, <1>4 DEF PricedBill
<1> QED
  BY <1>5 DEF c

(* A bill stays priced when others are paid, and when it falls overdue.    *)
LEMMA PricedBesidePayment ==
    ASSUME NEW i \in Invoices, NEW b \in BillRecords, NEW made \in Seq(PaymentRows),
           NEW row \in PaymentRows, i \notin DOMAIN row.amount, PricedBill(i, b, made)
    PROVE  PricedBill(i, b, Append(made, row))
<1>1. FixedFee(i, b, Append(made, row)) = FixedFee(i, b, made)
  BY LatestKept DEF FixedFee
<1>2. \A n \in DOMAIN made : /\ n \in DOMAIN Append(made, row)
                             /\ Append(made, row)[n] = made[n]
  OBVIOUS
<1> QED
  BY <1>1, <1>2 DEF PricedBill

LEMMA PricedOverdue ==
    ASSUME NEW i \in Invoices, NEW b \in BillRecords, NEW made, PricedBill(i, b, made),
           b.status \in {"ISSUED", "PARTIALLY_PAID"}
    PROVE  PricedBill(i, [b EXCEPT !.status = "OVERDUE"], made)
<1> DEFINE c == [b EXCEPT !.status = "OVERDUE"]
<1>1. /\ c.total = b.total /\ c.fee = b.fee /\ c.forgiven = b.forgiven
      /\ c.paid = b.paid /\ c.charges = b.charges /\ c.settled = b.settled
      /\ c.waived = b.waived /\ c.settledOn = b.settledOn
      /\ c.status = "OVERDUE"
  BY DEF BillRecords
<1> HIDE DEF c
<1>2. principal(c) = principal(b) /\ (cleared(c) <=> cleared(b))
  BY <1>1 DEF principal, cleared
<1>3. FixedFee(i, c, made) = FixedFee(i, b, made)
  BY <1>1, <1>2 DEF FixedFee, chargedFee, clearedOn
<1>4. PricedBill(i, c, made)
  BY <1>1, <1>2, <1>3 DEF PricedBill
<1> QED
  BY <1>4 DEF c

(* Two bills with the same figures are the same bill.                      *)
LEMMA SameBill ==
    ASSUME NEW b \in BillRecords, NEW c \in BillRecords,
           b.charges = c.charges, b.settled = c.settled, b.fee = c.fee, b.paid = c.paid,
           b.total = c.total, b.status = c.status, b.waived = c.waived,
           b.forgiven = c.forgiven, b.settledOn = c.settledOn
    PROVE  b = c
BY DEF BillRecords
-----------------------------------------------------------------------------
(* What p reads are the figures of a bill.                                 *)
LEMMA BillReadTypes ==
    ASSUME TypeOK, NEW p \in Procs, NEW i \in Bills(p)
    PROVE  LET b == BillRead(p, i) IN
           /\ i \in Invoices /\ inv[i] \in BillRecords
           /\ b \in BillRecords
           /\ b.paid = inv[i].paid /\ b.settled = inv[i].settled
           /\ b.forgiven = inv[i].forgiven /\ b.settledOn = inv[i].settledOn
           /\ b.fee = inv[i].fee
           /\ b.charges = inv[i].charges
                 + (IF req[p].op = "item" THEN req[p].amount[i] ELSE 0)
           /\ b.waived = IF req[p].op = "waive" THEN req[p].flag ELSE inv[i].waived
           /\ payments \in Seq(PaymentRows) /\ req[p].asOf \in Days \cup {NoDay}
<1> DEFINE charges == inv[i].charges + (IF req[p].op = "item" THEN req[p].amount[i] ELSE 0)
           waived == IF req[p].op = "waive" THEN req[p].flag ELSE inv[i].waived
<1>1. i \in Invoices /\ inv[i] \in BillRecords /\ req[p].amount[i] \in Int
  <2>1. req[p].amount \in {NoLines} \cup Lines(Int)
    BY DEF TypeOK, TransOK, Requests
  <2>2. CASE req[p].amount = NoLines
    BY <2>2 DEF Bills, NoLines
  <2>3. CASE req[p].amount \in Lines(Int)
    BY <2>3, LinesAreBills DEF Bills, TypeOK, StoreOK
  <2> QED
    BY <2>1, <2>2, <2>3
<1>2. charges \in Int /\ waived \in BOOLEAN
  BY <1>1 DEF BillRecords, TypeOK, TransOK, Requests
<1>3. payments \in Seq(PaymentRows) /\ req[p].asOf \in Days \cup {NoDay}
  BY DEF TypeOK, StoreOK, TransOK, Requests
<1>4. /\ RowRead(p, i) = [NoBill EXCEPT !.paid = inv[i].paid, !.forgiven = inv[i].forgiven,
                                        !.settledOn = inv[i].settledOn, !.waived = waived]
      /\ BillRead(p, i) = [RowRead(p, i) EXCEPT !.charges = charges,
                                                !.settled = inv[i].settled, !.fee = inv[i].fee]
  BY DEF RowRead, BillRead
<1> HIDE DEF charges, waived
<1>5. /\ RowRead(p, i) \in BillRecords
      /\ RowRead(p, i).paid = inv[i].paid /\ RowRead(p, i).forgiven = inv[i].forgiven
      /\ RowRead(p, i).settledOn = inv[i].settledOn /\ RowRead(p, i).waived = waived
  BY <1>1, <1>2, <1>4, NoRequestTypes DEF BillRecords
<1>6. LET b == BillRead(p, i) IN
      /\ b \in BillRecords
      /\ b.paid = inv[i].paid /\ b.settled = inv[i].settled
      /\ b.forgiven = inv[i].forgiven /\ b.settledOn = inv[i].settledOn
      /\ b.fee = inv[i].fee /\ b.charges = charges /\ b.waived = waived
  <2> DEFINE row == RowRead(p, i)
  <2>1. BillRead(p, i) = [row EXCEPT !.charges = charges, !.settled = inv[i].settled,
                                     !.fee = inv[i].fee]
    BY <1>4
  <2>2. /\ row \in BillRecords /\ row.paid = inv[i].paid /\ row.forgiven = inv[i].forgiven
        /\ row.settledOn = inv[i].settledOn /\ row.waived = waived
    BY <1>5
  <2> HIDE DEF row
  <2> QED
    BY <1>1, <1>2, <2>1, <2>2 DEF BillRecords
<1> QED
  BY <1>1, <1>3, <1>6 DEF charges, waived

(* The row that a recompute writes is the bill it worked out, whole.       *)
LEMMA WrittenIsSeen ==
    ASSUME TypeOK, NEW p \in Procs, NEW i \in Bills(p), ReadHolds(p), pc[p] = "writeRow"
    PROVE  written(p, i) = recomputeInvoice(i, BillRead(p, i), payments, req[p].asOf)
<1> DEFINE b == BillRead(p, i)
           c == recomputeInvoice(i, b, payments, req[p].asOf)
<1>1. seen[p] = c /\ (feeLine[p] = "keep" => c.fee = inv[i].fee)
  BY DEF ReadHolds
<1>2. /\ i \in Invoices /\ inv[i] \in BillRecords /\ b \in BillRecords
      /\ b.paid = inv[i].paid /\ b.settled = inv[i].settled
      /\ b.forgiven = inv[i].forgiven /\ b.settledOn = inv[i].settledOn
      /\ b.charges = inv[i].charges + (IF req[p].op = "item" THEN req[p].amount[i] ELSE 0)
      /\ b.waived = IF req[p].op = "waive" THEN req[p].flag ELSE inv[i].waived
      /\ payments \in Seq(PaymentRows) /\ req[p].asOf \in Days \cup {NoDay}
  BY BillReadTypes
<1>3. /\ c \in BillRecords /\ c.paid = b.paid /\ c.settled = b.settled
      /\ c.forgiven = b.forgiven /\ c.charges = b.charges
      /\ c.waived = b.waived /\ c.settledOn = b.settledOn
  <2> HIDE DEF b
  <2> QED
    BY <1>2, RecomputedBill, RecomputedAgrees
<1>4. written(p, i) = [inv[i] EXCEPT !.total = c.total, !.status = c.status, !.fee = c.fee,
                                     !.charges = b.charges, !.waived = b.waived]
  <2> HIDE DEF b, c
  <2>1. (IF feeLine[p] = "keep" THEN inv[i].fee ELSE seen[p].fee) = c.fee
    BY <1>1
  <2> QED
    BY <1>1, <1>2, <2>1 DEF written
<1> HIDE DEF b, c
<1>5. written(p, i) = c
  <2> DEFINE w == [inv[i] EXCEPT !.total = c.total, !.status = c.status, !.fee = c.fee,
                                 !.charges = b.charges, !.waived = b.waived]
  <2>1. w \in BillRecords
    BY <1>2, <1>3 DEF BillRecords
  <2>2. /\ w.charges = c.charges /\ w.settled = c.settled /\ w.fee = c.fee
        /\ w.paid = c.paid /\ w.total = c.total /\ w.status = c.status
        /\ w.waived = c.waived /\ w.forgiven = c.forgiven /\ w.settledOn = c.settledOn
    BY <1>2, <1>3 DEF BillRecords
  <2> HIDE DEF w
  <2>3. w = c
    BY <1>3, <2>1, <2>2, SameBill
  <2> QED
    BY <1>4, <2>3 DEF w
<1> QED
  BY <1>5 DEF b, c
-----------------------------------------------------------------------------
LEMMA OthersIdle ==
    ASSUME MaxInFlight = 1, Alone, NEW p \in Procs, Starts(p)
    PROVE  \A q \in Procs : pc[q] = "idle"
<1> DEFINE busy == {q \in Procs : pc[q] # "idle"}
<1>1. IsFiniteSet(busy)
  <2>1. CASE busy = {}
    BY <2>1, FS_EmptySet
  <2>2. CASE busy # {}
    <3>1. PICK q \in busy : TRUE
      BY <2>2
    <3>2. busy = {q}
      BY <3>1 DEF Alone
    <3> HIDE DEF busy
    <3> QED
      BY <3>2, FS_Singleton
  <2> QED
    BY <2>1, <2>2
<1>2. Cardinality(busy) < 1
  BY DEF Starts
<1> HIDE DEF busy
<1>3. busy = {}
  BY <1>1, <1>2, FS_CardinalityType, FS_EmptySet
<1> QED
  BY <1>3 DEF busy

(* Where each kind of step leaves its transaction.                         *)
LEMMA StepLabels ==
    ASSUME TypeOK, NEW p \in Procs
    PROVE  /\ Starts(p) => /\ pc'[p] \in {"lock", "begin", "readRow"}
                           /\ p = Nightly => req'[p].op = "fee"
           /\ Ends(p) \/ Commits(p) => pc'[p] = "idle"
           /\ Moves(p) => pc[p] # "idle" /\ req' = req
           /\ Commits(p) => pc[p] # "idle"
<1>1. ASSUME Starts(p)
      PROVE  pc'[p] \in {"lock", "begin", "readRow"} /\ (p = Nightly => req'[p].op = "fee")
  BY <1>1 DEF Starts, TypeOK, TransOK
<1>2. ASSUME Ends(p) \/ Commits(p) PROVE pc'[p] = "idle"
  BY <1>2, FinishLocks DEF Ends, Commits, CommitPayment, CommitSettlement, WriteRow
<1>3. ASSUME Moves(p) PROVE pc[p] # "idle" /\ req' = req
  BY <1>3 DEF Moves, LockBills, CheckPayment, CheckSettlement, ApplyPayment,
       ApplySettlement, InsertItem, WriteWaiver, ReadRow, ReadLines, WriteFee
<1>4. ASSUME Commits(p) PROVE pc[p] # "idle"
  BY <1>4 DEF Commits, CommitPayment, CommitSettlement, WriteRow
<1> QED
  BY <1>1, <1>2, <1>3, <1>4

LEMMA AloneStep ==
    ASSUME MaxInFlight = 1, TypeOK, TypeOK', Alone, JobOnly, [Next]_vars
    PROVE  Alone' /\ JobOnly'
<1>1. CASE Quiet
  BY <1>1 DEF Quiet, trans, Alone, JobOnly
<1>2. ASSUME NEW p \in Procs, Starts(p) \/ Ends(p) \/ Moves(p) \/ Commits(p)
      PROVE  Alone' /\ JobOnly'
  <2>1. \A q \in Procs \ {p} : pc'[q] = pc[q] /\ req'[q] = req[q]
    BY <1>2, OthersStill DEF Still
  <2>2. CASE Starts(p)
    BY <2>1, <2>2, OthersIdle, StepLabels DEF Alone, JobOnly
  <2>3. CASE Ends(p) \/ Commits(p)
    BY <2>1, <2>3, StepLabels DEF Alone, JobOnly
  <2>4. CASE Moves(p)
    BY <2>1, <2>4, StepLabels DEF Alone, JobOnly
  <2> QED
    BY <1>2, <2>2, <2>3, <2>4
<1> QED
  BY <1>1, <1>2, StepKinds

(* The overdue refresh changes statuses and nothing else.                  *)
LEMMA RefreshKeeps ==
    ASSUME TypeOK, refreshOverdueStatuses, NEW i \in Invoices
    PROVE  \/ inv'[i] = inv[i]
           \/ /\ inv[i].status \in {"ISSUED", "PARTIALLY_PAID"}
              /\ inv'[i] = [inv[i] EXCEPT !.status = "OVERDUE"]
<1> DEFINE late == {j \in Invoices : /\ inv[j].status \in {"ISSUED", "PARTIALLY_PAID"}
                                     /\ Category[j] # "ELECTRICITY"
                                     /\ Due[j] < today}
<1>1. inv' = [j \in Invoices |-> IF j \in late THEN [inv[j] EXCEPT !.status = "OVERDUE"]
                                 ELSE inv[j]]
  BY DEF refreshOverdueStatuses
<1>2. \A j \in late : inv[j].status \in {"ISSUED", "PARTIALLY_PAID"}
  OBVIOUS
<1> HIDE DEF late
<1> QED
  BY <1>1, <1>2

(* What p has read holds on while the figures it read stay as they are.    *)
LEMMA ReadStillHolds ==
    ASSUME NEW p \in Procs, ReadHolds(p),
           pc'[p] = pc[p], req'[p] = req[p], seen'[p] = seen[p], feeLine'[p] = feeLine[p],
           payments' = payments,
           \A i \in Bills(p) :
              /\ inv'[i].charges = inv[i].charges /\ inv'[i].settled = inv[i].settled
              /\ inv'[i].fee = inv[i].fee /\ inv'[i].paid = inv[i].paid
              /\ inv'[i].forgiven = inv[i].forgiven /\ inv'[i].waived = inv[i].waived
              /\ inv'[i].settledOn = inv[i].settledOn
    PROVE  ReadHolds(p)'
<1>1. Bills(p)' = Bills(p)
  BY DEF Bills
<1>2. \A i \in Bills(p) : RowRead(p, i)' = RowRead(p, i) /\ BillRead(p, i)' = BillRead(p, i)
  BY DEF RowRead, BillRead
<1> QED
  BY <1>1, <1>2 DEF ReadHolds, recomputeInvoice

LEMMA ReadsStep ==
    ASSUME MaxInFlight = 1, TypeOK, TypeOK', Alone, ReadsHold, [Next]_vars
    PROVE  ReadsHold'
<1> SUFFICES ASSUME NEW q \in Procs PROVE ReadHolds(q)'
  BY DEF ReadsHold
<1>0. ReadHolds(q)
  BY DEF ReadsHold
<1>1. CASE Quiet
  <2>1. \A i \in Bills(q) : i \in Invoices /\ inv[i] \in BillRecords
    BY BillReadTypes
  <2>2. \A i \in Bills(q) : \/ inv'[i] = inv[i]
                            \/ inv'[i] = [inv[i] EXCEPT !.status = "OVERDUE"]
    BY <1>1, <2>1, RefreshKeeps DEF Quiet
  <2>3. \A i \in Bills(q) :
          /\ inv'[i].charges = inv[i].charges /\ inv'[i].settled = inv[i].settled
          /\ inv'[i].fee = inv[i].fee /\ inv'[i].paid = inv[i].paid
          /\ inv'[i].forgiven = inv[i].forgiven /\ inv'[i].waived = inv[i].waived
          /\ inv'[i].settledOn = inv[i].settledOn
    BY <2>1, <2>2 DEF BillRecords
  <2>4. /\ pc'[q] = pc[q] /\ req'[q] = req[q] /\ seen'[q] = seen[q]
        /\ feeLine'[q] = feeLine[q] /\ payments' = payments
    BY <1>1 DEF Quiet, trans
  <2> QED
    BY <1>0, <2>3, <2>4, ReadStillHolds
<1>2. ASSUME pc'[q] \notin {"readLines", "writeFee", "writeRow"} PROVE ReadHolds(q)'
  BY <1>2 DEF ReadHolds
<1>3. ASSUME NEW p \in Procs, Starts(p) \/ Ends(p) \/ Moves(p), p # q
      PROVE  ReadHolds(q)'
  <2>1. inv' = inv /\ payments' = payments
    BY <1>3 DEF Starts, Ends, Moves, store, LockBills, CheckPayment, CheckSettlement,
         ApplyPayment, ApplySettlement, InsertItem, WriteWaiver, ReadRow, ReadLines, WriteFee
  <2>2. Still(q)
    BY <1>3, OthersStill
  <2>3. seen'[q] = seen[q]
    BY <1>3 DEF Starts, Ends, Finish, Moves, LockBills, CheckPayment, CheckSettlement,
         ApplyPayment, ApplySettlement, InsertItem, WriteWaiver, ReadRow, ReadLines, WriteFee,
         TypeOK, TransOK
  <2> QED
    BY <1>0, <2>1, <2>2, <2>3, ReadStillHolds DEF Still
<1>4. ASSUME NEW p \in Procs, Commits(p) PROVE ReadHolds(q)'
  <2>1. pc[p] # "idle" /\ pc'[p] = "idle"
    BY <1>4, StepLabels
  <2>2. CASE p = q
    BY <1>2, <2>1, <2>2
  <2>3. CASE p # q
    <3>1. pc'[q] = pc[q] /\ pc[q] = "idle"
      BY <1>4, <2>1, <2>3, OthersStill DEF Alone, Still
    <3> QED
      BY <1>2, <3>1
  <2> QED
    BY <2>2, <2>3
<1>5. CASE Starts(q) \/ Ends(q)
  BY <1>2, <1>5, StepLabels
<1>6. CASE Moves(q)
  <2> USE DEF TypeOK, TransOK
  <2>1. CASE \/ LockBills(q) \/ CheckPayment(q) \/ CheckSettlement(q) \/ ApplyPayment(q)
             \/ ApplySettlement(q) \/ InsertItem(q) \/ WriteWaiver(q)
    <3>1. pc'[q] \in {"check", "apply", "commit", "readRow"}
      BY <2>1 DEF LockBills, CheckPayment, CheckSettlement, ApplyPayment,
           ApplySettlement, InsertItem, WriteWaiver, Goto
    <3> QED
      BY <1>2, <3>1
  <2>2. CASE ReadRow(q)
    <3>1. PICK i \in Bills(q) : seen' = [seen EXCEPT ![q] = RowRead(q, i)]
      BY <2>2 DEF ReadRow, RowRead
    <3>2. /\ pc[q] = "readRow" /\ pc'[q] = "readLines" /\ req' = req /\ inv' = inv
      BY <2>2 DEF ReadRow, Goto, store
    <3>3. Bills(q) = {i}
      BY <3>1, <3>2 DEF RequestOK, EditLabels, Bills
    <3>4. seen'[q] = RowRead(q, i) /\ RowRead(q, i)' = RowRead(q, i)
      BY <3>1, <3>2 DEF RowRead
    <3>5. Bills(q)' = Bills(q)
      BY <3>2 DEF Bills
    <3> QED
      BY <3>2, <3>3, <3>4, <3>5 DEF ReadHolds
  <2>3. CASE ReadLines(q)
    <3> DEFINE own(i) == IF req[q].op = "item" THEN req[q].amount[i] ELSE 0
               read(i) == [seen[q] EXCEPT !.charges = inv[i].charges + own(i),
                                          !.settled = inv[i].settled, !.fee = inv[i].fee]
               plan(i) == recomputeInvoice(i, read(i), payments, req[q].asOf)
    <3>1. PICK i \in Bills(q), retold \in BOOLEAN :
            /\ seen' = [seen EXCEPT ![q] = plan(i)]
            /\ feeLine' = [feeLine EXCEPT ![q] =
                              IF plan(i).fee = read(i).fee /\ ~retold THEN "keep"
                              ELSE IF read(i).fee = 0 THEN "create"
                              ELSE IF plan(i).fee = 0 THEN "delete" ELSE "update"]
      BY <2>3 DEF ReadLines
    <3>2. /\ pc[q] = "readLines" /\ pc'[q] = "writeFee" /\ req' = req /\ inv' = inv
          /\ payments' = payments
      BY <2>3 DEF ReadLines, Goto, store
    <3>3. Bills(q) = {i}
      BY <3>1, <3>2 DEF RequestOK, EditLabels, Bills
    <3>4. seen[q] = RowRead(q, i)
      BY <1>0, <3>1, <3>2 DEF ReadHolds
    <3>5. read(i) = BillRead(q, i) /\ read(i).fee = inv[i].fee
      <4>1. read(i) = BillRead(q, i)
        BY <3>4 DEF BillRead
      <4>2. BillRead(q, i).fee = inv[i].fee
        BY <3>1, BillReadTypes
      <4> QED
        BY <4>1, <4>2
    <3>6. /\ seen'[q] = recomputeInvoice(i, BillRead(q, i), payments, req[q].asOf)
          /\ feeLine'[q] = "keep" => seen'[q].fee = inv[i].fee
      <4>1. seen'[q] = plan(i)
        BY <3>1
      <4>2. feeLine'[q] = IF plan(i).fee = read(i).fee /\ ~retold THEN "keep"
                          ELSE IF read(i).fee = 0 THEN "create"
                          ELSE IF plan(i).fee = 0 THEN "delete" ELSE "update"
        BY <3>1
      <4>3. plan(i) = recomputeInvoice(i, BillRead(q, i), payments, req[q].asOf)
        BY <3>5
      <4> HIDE DEF plan, read
      <4> QED
        BY <3>5, <4>1, <4>2, <4>3
    <3>7. Bills(q)' = Bills(q) /\ BillRead(q, i)' = BillRead(q, i)
      BY <3>2 DEF Bills, BillRead, RowRead
    <3> QED
      BY <3>2, <3>3, <3>6, <3>7 DEF ReadHolds, recomputeInvoice
  <2>4. CASE WriteFee(q)
    <3>1. /\ pc[q] = "writeFee" /\ pc'[q] = "writeRow" /\ req' = req /\ inv' = inv
          /\ payments' = payments /\ seen' = seen /\ feeLine' = feeLine
      BY <2>4 DEF WriteFee, Goto, store
    <3>2. /\ Bills(q)' = Bills(q)
          /\ \A i \in Bills(q) : BillRead(q, i)' = BillRead(q, i)
      BY <3>1 DEF Bills, BillRead, RowRead
    <3> QED
      BY <1>0, <3>1, <3>2 DEF ReadHolds, recomputeInvoice
  <2> QED
    BY <1>6, <2>1, <2>2, <2>3, <2>4 DEF Moves
<1> QED
  BY <1>1, <1>3, <1>4, <1>5, <1>6, StepKinds
-----------------------------------------------------------------------------
(* A payment leaves its bills priced, and more paid on each of them.       *)
LEMMA PaymentPrices ==
    ASSUME TypeOK, CheckedUnderLock, Priced, NEW p \in Procs, CommitPayment(p),
           NEW i \in Invoices
    PROVE  /\ PricedBill(i, inv'[i], payments')
           /\ i \in Bills(p) => inv'[i].paid > inv[i].paid
           /\ i \notin Bills(p) =>
                 /\ inv'[i] = inv[i]
                 /\ latestPaymentDate(i, payments', NoDay) = latestPaymentDate(i, payments, NoDay)
<1> DEFINE r == req[p]
           row == [key |-> r.key, amount |-> r.amount, day |-> r.day]
           made == Append(payments, row)
<1>1. pc[p] \in PayLabels /\ payments' = made
  BY DEF CommitPayment, PayLabels
<1>2. row \in PaymentRows /\ payments \in Seq(PaymentRows) /\ made \in Seq(PaymentRows)
  <2>1. row \in PaymentRows /\ payments \in Seq(PaymentRows)
    BY <1>1, PaidBillTypes DEF TypeOK, StoreOK
  <2> HIDE DEF row
  <2> QED
    BY <2>1
<1>3. /\ r.amount \in Lines(Nat) /\ r.asOf \in Days \cup {NoDay}
      /\ DOMAIN row.amount = Bills(p)
  BY <1>1 DEF TypeOK, TransOK, RequestOK, Requests, Bills
<1>4. inv[i] \in BillRecords /\ PricedBill(i, inv[i], payments)
  BY DEF TypeOK, StoreOK, Priced
<1>5. CASE i \in Bills(p)
  <2> DEFINE amount == r.amount[i]
             b == [inv[i] EXCEPT !.paid = @ + amount]
             asOf == r.asOf
  <2>1. amount \in Nat /\ amount > 0
    <3>1. PaymentFits(r)
      BY DEF CommitPayment, CheckedUnderLock
    <3> QED
      BY <1>3, <1>5, <3>1, LinesAreBills DEF PaymentFits, Bills
  <2>2. inv'[i] = recomputeInvoice(i, b, made, asOf)
    BY <1>5 DEF CommitPayment, PaidBill
  <2>3. /\ b \in BillRecords /\ b.paid = inv[i].paid + amount
        /\ b.forgiven = inv[i].forgiven
    <3> HIDE DEF amount
    <3> QED
      BY <1>4, <2>1 DEF BillRecords
  <2>4. b.forgiven <= Cap
    BY <1>4, <2>3, SettingsAssumption DEF PricedBill, BillRecords
  <2>5. \E n \in DOMAIN made : i \in DOMAIN made[n].amount
    <3>1. Len(payments) + 1 \in DOMAIN made /\ made[Len(payments) + 1] = row
      <4> HIDE DEF row
      <4> QED
        BY <1>2
    <3>2. i \in DOMAIN row.amount
      BY <1>3, <1>5
    <3> HIDE DEF made, row
    <3> QED
      BY <3>1, <3>2
  <2>6. asOf \in Days \cup {NoDay} /\ made \in Seq(PaymentRows)
    BY <1>2, <1>3
  <2> HIDE DEF b, made, asOf, amount
  <2>7. PricedBill(i, inv'[i], made)
    BY <2>2, <2>3, <2>4, <2>5, <2>6, RecomputedPriced
  <2>8. inv'[i].paid = b.paid
    BY <2>2, <2>3, <2>6, RecomputedBill
  <2>9. inv'[i].paid > inv[i].paid
    BY <1>4, <2>1, <2>3, <2>8 DEF BillRecords
  <2> QED
    BY <1>1, <1>5, <2>7, <2>9
<1>6. CASE i \notin Bills(p)
  <2>1. inv'[i] = inv[i]
    BY <1>6 DEF CommitPayment
  <2>2. i \notin DOMAIN row.amount
    BY <1>3, <1>6
  <2>3. PricedBill(i, inv[i], made)
    <3> HIDE DEF row
    <3> QED
      BY <1>2, <1>4, <2>2, PricedBesidePayment
  <2>4. latestPaymentDate(i, made, NoDay) = latestPaymentDate(i, payments, NoDay)
    <3> HIDE DEF row
    <3> QED
      BY <1>2, <2>2, LatestKept
  <2> HIDE DEF made
  <2> QED
    BY <1>1, <1>6, <2>1, <2>3, <2>4
<1> QED
  BY <1>5, <1>6

(* A settlement leaves its bills priced: it forgives no more than the fee  *)
(* that is on the bill, and takes something off each bill it touches.      *)
LEMMA SettlementPrices ==
    ASSUME TypeOK, CheckedUnderLock, Priced, NEW p \in Procs, CommitSettlement(p),
           NEW i \in Invoices
    PROVE  /\ PricedBill(i, inv'[i], payments')
           /\ i \in planned(req[p]) =>
                 inv'[i].settled + inv'[i].forgiven > inv[i].settled + inv[i].forgiven
           /\ i \notin planned(req[p]) => inv'[i] = inv[i]
<1> DEFINE r == req[p]
<1>1. /\ pc[p] \in PayLabels /\ r.op = "settle" /\ payments' = payments
      /\ r.amount \in Lines(Nat) /\ r.forgive \in Lines(Nat)
      /\ DOMAIN r.forgive = DOMAIN r.amount /\ r.asOf \in Days \cup {NoDay}
      /\ r.asOf \in Days
  BY DEF CommitSettlement, PayLabels, TypeOK, TransOK, RequestOK, Requests
<1>2. /\ inv[i] \in BillRecords /\ PricedBill(i, inv[i], payments)
      /\ payments \in Seq(PaymentRows)
  BY DEF TypeOK, StoreOK, Priced
<1>3. CASE i \in planned(r)
  <2> DEFINE settled == inv[i].settled + r.amount[i]
             forgiven == inv[i].forgiven + r.forgive[i]
             asOf == r.asOf
             b == [inv[i] EXCEPT !.settled = settled, !.forgiven = forgiven,
                                 !.settledOn = asOf]
  <2>1. /\ r.amount[i] \in Nat /\ r.forgive[i] \in Nat
        /\ r.amount[i] > 0 \/ r.forgive[i] > 0
    BY <1>1, <1>3, LinesAreBills DEF planned
  <2>2. r.forgive[i] > 0 => r.forgive[i] <= inv[i].fee
    BY <1>3 DEF CommitSettlement, CheckedUnderLock, planSettlement, planned
  <2>3. inv[i].settled \in Nat /\ inv[i].forgiven \in Nat /\ inv[i].fee \in Nat
    BY <1>2 DEF BillRecords
  <2>4. /\ settled \in Nat /\ forgiven \in Nat /\ forgiven <= Cap
        /\ settled + forgiven > inv[i].settled + inv[i].forgiven
    <3>1. inv[i].fee + inv[i].forgiven <= Cap
      BY <1>2 DEF PricedBill
    <3> HIDE DEF r
    <3> QED
      BY <2>1, <2>2, <2>3, <3>1, SettingsAssumption
  <2>5. inv'[i] = recomputeInvoice(i, b, payments, asOf)
    BY <1>3 DEF CommitSettlement, SettledBill
  <2>6. asOf \in Days
    BY <1>1
  <2> HIDE DEF settled, forgiven, asOf
  <2>7. /\ b \in BillRecords /\ b.paid = inv[i].paid
        /\ b.forgiven = forgiven /\ b.settled = settled
    BY <1>2, <2>4, <2>6 DEF BillRecords
  <2> HIDE DEF b
  <2>8. b.paid > 0 => \E n \in DOMAIN payments : i \in DOMAIN payments[n].amount
    BY <1>2, <2>7 DEF PricedBill
  <2>9. PricedBill(i, inv'[i], payments)
    BY <1>2, <2>4, <2>5, <2>6, <2>7, <2>8, RecomputedPriced
  <2>10. inv'[i].settled = settled /\ inv'[i].forgiven = forgiven
    BY <1>2, <2>5, <2>6, <2>7, RecomputedBill
  <2> QED
    BY <1>1, <1>3, <2>4, <2>9, <2>10
<1>4. CASE i \notin planned(r)
  <2>1. inv'[i] = inv[i]
    BY <1>4 DEF CommitSettlement
  <2> QED
    BY <1>1, <1>2, <1>4, <2>1
<1> QED
  BY <1>3, <1>4

(* A recompute writes the bill it has just worked out.                     *)
LEMMA WriteRowPrices ==
    ASSUME TypeOK, ReadsHold, Priced, NEW p \in Procs, WriteRow(p), NEW i \in Invoices
    PROVE  /\ PricedBill(i, inv'[i], payments')
           /\ payments' = payments
           /\ inv'[i].settledOn = inv[i].settledOn
           /\ i \notin Bills(p) => inv'[i] = inv[i]
           /\ i \in Bills(p) =>
                 inv'[i] = recomputeInvoice(i, BillRead(p, i), payments, req[p].asOf)
<1>1. PICK j \in Bills(p) : inv' = [inv EXCEPT ![j] = written(p, j)]
  BY DEF WriteRow
<1>2. pc[p] = "writeRow" /\ payments' = payments /\ ReadHolds(p)
  BY DEF WriteRow, ReadsHold
<1>3. Bills(p) = {j} /\ j \in Invoices
  BY <1>1, <1>2, BillReadTypes DEF TypeOK, TransOK, RequestOK, EditLabels, Bills
<1>4. PricedBill(i, inv[i], payments)
  BY DEF Priced
<1>5. CASE i = j
  <2> DEFINE b == BillRead(p, i)
             asOf == req[p].asOf
  <2>1. inv'[i] = recomputeInvoice(i, b, payments, asOf)
    BY <1>1, <1>2, <1>5, WrittenIsSeen DEF TypeOK, StoreOK
  <2>2. /\ inv[i] \in BillRecords /\ b \in BillRecords
        /\ b.paid = inv[i].paid /\ b.forgiven = inv[i].forgiven
        /\ b.settledOn = inv[i].settledOn
        /\ payments \in Seq(PaymentRows) /\ asOf \in Days \cup {NoDay}
    BY <1>3, <1>5, BillReadTypes
  <2> HIDE DEF b, asOf
  <2>3. b.forgiven <= Cap
    BY <1>4, <2>2, SettingsAssumption DEF PricedBill, BillRecords
  <2>4. b.paid > 0 => \E n \in DOMAIN payments : i \in DOMAIN payments[n].amount
    BY <1>4, <2>2 DEF PricedBill
  <2>5. PricedBill(i, inv'[i], payments)
    BY <2>1, <2>2, <2>3, <2>4, RecomputedPriced
  <2>6. inv'[i].settledOn = inv[i].settledOn
    BY <2>1, <2>2, RecomputedAgrees
  <2> QED
    BY <1>2, <1>3, <1>5, <2>1, <2>5, <2>6 DEF b, asOf
<1>6. CASE i # j
  <2>1. inv'[i] = inv[i]
    BY <1>1, <1>6 DEF TypeOK, StoreOK
  <2> QED
    BY <1>2, <1>3, <1>4, <1>6, <2>1
<1> QED
  BY <1>5, <1>6

LEMMA PricedStep ==
    ASSUME TypeOK, TypeOK', CheckedUnderLock, ReadsHold, Priced, [Next]_vars
    PROVE  Priced'
<1> SUFFICES ASSUME NEW i \in Invoices PROVE PricedBill(i, inv'[i], payments')
  BY DEF Priced, PricedBill, FixedFee, latestPaymentDate
<1>1. PricedBill(i, inv[i], payments) /\ inv[i] \in BillRecords
  BY DEF Priced, TypeOK, StoreOK
<1>2. CASE Quiet
  <2>1. payments' = payments
    BY <1>2 DEF Quiet
  <2>2. CASE inv'[i] = inv[i]
    BY <1>1, <2>1, <2>2
  <2>3. CASE inv'[i] # inv[i]
    <3>1. /\ inv[i].status \in {"ISSUED", "PARTIALLY_PAID"}
          /\ inv'[i] = [inv[i] EXCEPT !.status = "OVERDUE"]
      BY <1>2, <2>3, RefreshKeeps DEF Quiet
    <3>2. PricedBill(i, [inv[i] EXCEPT !.status = "OVERDUE"], payments)
      BY <1>1, <3>1, PricedOverdue
    <3> QED
      BY <2>1, <3>1, <3>2
  <2> QED
    BY <2>2, <2>3
<1>3. ASSUME NEW p \in Procs, Starts(p) \/ Ends(p) \/ Moves(p)
      PROVE  PricedBill(i, inv'[i], payments')
  <2>1. inv' = inv /\ payments' = payments
    BY <1>3 DEF Starts, Ends, Moves, store, LockBills, CheckPayment, CheckSettlement,
         ApplyPayment, ApplySettlement, InsertItem, WriteWaiver, ReadRow, ReadLines, WriteFee
  <2> QED
    BY <1>1, <2>1
<1>4. ASSUME NEW p \in Procs, Commits(p) PROVE PricedBill(i, inv'[i], payments')
  BY <1>4, PaymentPrices, SettlementPrices, WriteRowPrices DEF Commits
<1> QED
  BY <1>2, <1>3, <1>4, StepKinds
-----------------------------------------------------------------------------
LEMMA FeesInit == Init => Fees
<1> SUFFICES ASSUME Init PROVE Fees
  OBVIOUS
<1>1. TypeOK /\ LocksExclusive /\ CheckedUnderLock
  BY InitTypes DEF Init, LocksExclusive, CheckedUnderLock, LocksForUpdate
<1>2. Alone /\ JobOnly /\ ReadsHold
  BY DEF Init, Alone, JobOnly, Procs, ReadsHold, ReadHolds
<1>3. ASSUME NEW i \in Invoices PROVE PricedBill(i, inv[i], payments)
  <2> DEFINE b == [NoBill EXCEPT !.charges = Opening[i]]
             made == <<>>
             day == 1
  <2>1. /\ b \in BillRecords /\ b.paid = 0 /\ b.forgiven = 0
        /\ made \in Seq(PaymentRows) /\ day \in Days \cup {NoDay}
        /\ IssuedBill(i) = recomputeInvoice(i, b, made, day)
    BY IssuedBillTypes
  <2>2. inv[i] = IssuedBill(i) /\ payments = made
    BY DEF Init
  <2> HIDE DEF b, made, day
  <2> QED
    BY <2>1, <2>2, RecomputedPriced, SettingsAssumption
<1> QED
  BY <1>1, <1>2, <1>3 DEF Fees, Priced

LEMMA FeesStep == MaxInFlight = 1 /\ Fees /\ [Next]_vars => Fees'
BY TypeStep, LocksStep, CheckedStep, AloneStep, ReadsStep, PricedStep DEF Fees

(* Requests that do not overlap leave every bill's total the sum of its    *)
(* lines and its status PAID exactly when that is paid.                    *)
THEOREM TotalsAgree == ASSUME MaxInFlight = 1 PROVE Spec => []StatusIsDerived
<1>1. Fees => StatusIsDerived
  BY DEF Fees, Priced, PricedBill, StatusIsDerived, NumbersAgree
<1>2. Fees /\ [Next]_vars => Fees'
  BY FeesStep
<1> QED
  BY FeesInit, <1>1, <1>2, PTL DEF Spec

(* Requests that do not overlap never charge again what was forgiven of a  *)
(* late fee: the two together stay under the cap.                          *)
THEOREM ForgivenStays == ASSUME MaxInFlight = 1 PROVE Spec => []ForgivenStaysForgiven
<1>1. Fees => ForgivenStaysForgiven
  BY DEF Fees, Priced, PricedBill, ForgivenStaysForgiven
<1>2. Fees /\ [Next]_vars => Fees'
  BY FeesStep
<1> QED
  BY FeesInit, <1>1, <1>2, PTL DEF Spec

(* The day a bill was cleared, as its rows tell it, moves with a payment   *)
(* or a settlement of that bill only.                                      *)
LEMMA ClearingKept ==
    ASSUME Fees, Fees', [Next]_vars, NEW i \in Invoices,
           inv'[i].paid = inv[i].paid, inv'[i].settled = inv[i].settled,
           inv'[i].forgiven = inv[i].forgiven
    PROVE  /\ inv'[i].settledOn = inv[i].settledOn
           /\ latestPaymentDate(i, payments', NoDay) = latestPaymentDate(i, payments, NoDay)
<1>0. /\ TypeOK /\ TypeOK' /\ CheckedUnderLock /\ ReadsHold /\ Priced
      /\ inv[i] \in BillRecords
  BY DEF Fees, TypeOK, StoreOK
<1>1. CASE Quiet
  BY <1>0, <1>1, RefreshKeeps DEF Quiet, BillRecords
<1>2. ASSUME NEW p \in Procs, Starts(p) \/ Ends(p) \/ Moves(p)
      PROVE  inv' = inv /\ payments' = payments
  BY <1>2 DEF Starts, Ends, Moves, store, LockBills, CheckPayment, CheckSettlement,
       ApplyPayment, ApplySettlement, InsertItem, WriteWaiver, ReadRow, ReadLines, WriteFee
<1>3. ASSUME NEW p \in Procs, CommitPayment(p)
      PROVE  /\ inv'[i] = inv[i]
             /\ latestPaymentDate(i, payments', NoDay) = latestPaymentDate(i, payments, NoDay)
  <2>1. i \notin Bills(p)
    BY <1>0, <1>3, PaymentPrices DEF BillRecords
  <2> QED
    BY <1>0, <1>3, <2>1, PaymentPrices
<1>4. ASSUME NEW p \in Procs, CommitSettlement(p)
      PROVE  inv'[i] = inv[i] /\ payments' = payments
  <2>1. i \notin planned(req[p])
    BY <1>0, <1>4, SettlementPrices DEF BillRecords
  <2> QED
    BY <1>0, <1>4, <2>1, SettlementPrices DEF CommitSettlement
<1>5. ASSUME NEW p \in Procs, WriteRow(p)
      PROVE  inv'[i].settledOn = inv[i].settledOn /\ payments' = payments
  BY <1>0, <1>5, WriteRowPrices
<1> QED
  BY <1>0, <1>1, <1>2, <1>3, <1>4, <1>5, StepKinds DEF Commits

(* Requests that do not overlap: the fee of a cleared bill grows no more,  *)
(* however late the job looks at it.                                       *)
THEOREM ClearedFeeStops == ASSUME MaxInFlight = 1 PROVE Spec => ClearedFeeStopsGrowing
<1>1. ASSUME Fees, Fees', [Next]_vars, NEW i \in Invoices,
             cleared(inv[i]), cleared(inv'[i]),
             inv'[i].paid = inv[i].paid, inv'[i].settled = inv[i].settled,
             inv'[i].forgiven = inv[i].forgiven, inv'[i].waived = inv[i].waived
      PROVE  inv'[i].fee <= inv[i].fee
  <2> DEFINE b == inv[i]
             c == inv'[i]
             last == latestPaymentDate(i, payments, NoDay)
  <2>1. /\ b \in BillRecords /\ c \in BillRecords
        /\ payments \in Seq(PaymentRows)
    BY <1>1 DEF Fees, TypeOK, StoreOK
  <2>2. b.settledOn = c.settledOn /\ latestPaymentDate(i, payments', NoDay) = last
    BY <1>1, ClearingKept
  <2>3. b.fee = FixedFee(i, b, payments)
    BY <1>1 DEF Fees, Priced, PricedBill
  <2>4. c.fee = FixedFee(i, c, payments')
    <3>1. Priced'
      BY <1>1 DEF Fees
    <3>2. cleared(c) => c.fee = FixedFee(i, c, payments')
      BY <3>1 DEF Priced, PricedBill, FixedFee, latestPaymentDate
    <3> QED
      BY <1>1, <3>2
  <2>5. c.fee = chargedFee(Category[i], Due[i], c, last, NoDay)
    BY <2>2, <2>4 DEF FixedFee
  <2>6. last \in Int /\ NoDay \in Int
    BY <2>1, LatestPaymentIsADay, RequestsAssumption DEF Days, NoDay
  <2>7. b.fee = c.fee
    <3>1. /\ cleared(b) /\ cleared(c) /\ b.paid = c.paid /\ b.waived = c.waived
          /\ b.forgiven = c.forgiven
      BY <1>1
    <3>2. b.fee = chargedFee(Category[i], Due[i], b, last, NoDay)
      BY <2>3 DEF FixedFee
    <3> HIDE DEF b, c, last
    <3> QED
      BY <2>1, <2>2, <2>5, <2>6, <3>1, <3>2, FeeOfCleared
  <2> QED
    BY <2>1, <2>7 DEF BillRecords
<1>2. Fees /\ [Next]_vars => Fees'
  BY FeesStep
<1>3. Fees /\ Fees' /\ [Next]_vars =>
        \A i \in Invoices :
          /\ cleared(inv[i]) /\ cleared(inv'[i])
          /\ inv'[i].paid = inv[i].paid
          /\ inv'[i].forgiven = inv[i].forgiven /\ inv'[i].settled = inv[i].settled
          /\ inv'[i].waived = inv[i].waived
          => inv'[i].fee <= inv[i].fee
  BY <1>1
<1> QED
  BY FeesInit, <1>2, <1>3, PTL DEF Spec, ClearedFeeStopsGrowing

(* Requests that do not overlap: whatever became of the nights before, the *)
(* night that reaches an unpaid rent bill leaves on it the fee its day     *)
(* calls for, less what was forgiven.                                      *)
THEOREM MissedNightHeals == ASSUME MaxInFlight = 1 PROVE Spec => MissedNightSelfHeals
<1>1. ASSUME Fees, NEW i \in Invoices, WriteRow(Nightly), i \in Bills(Nightly),
             Category[i] = "RENT", ~inv[i].waived, ~cleared(inv[i])
      PROVE  inv'[i].fee = LET late == req[Nightly].asOf - Due[i] - GraceDays
                           IN  AtLeast(0, AtMost(Cap, PerDay * AtLeast(0, late))
                                          - inv[i].forgiven)
  <2> DEFINE b == BillRead(Nightly, i)
             asOf == req[Nightly].asOf
             late == asOf - Due[i] - GraceDays
  <2>1. /\ TypeOK /\ ReadsHold /\ Priced /\ Nightly \in Procs
        /\ req[Nightly].op = "fee"
    BY <1>1 DEF Fees, JobOnly, WriteRow
  <2>2. inv'[i] = recomputeInvoice(i, b, payments, asOf)
    BY <1>1, <2>1, WriteRowPrices
  <2>3. /\ inv[i] \in BillRecords /\ b \in BillRecords
        /\ b.paid = inv[i].paid /\ b.settled = inv[i].settled
        /\ b.charges = inv[i].charges + (IF req[Nightly].op = "item"
                                         THEN req[Nightly].amount[i] ELSE 0)
        /\ b.waived = (IF req[Nightly].op = "waive" THEN req[Nightly].flag ELSE inv[i].waived)
        /\ b.forgiven = inv[i].forgiven
        /\ payments \in Seq(PaymentRows) /\ asOf \in Days \cup {NoDay}
    BY <1>1, <2>1, BillReadTypes
  <2> HIDE DEF b, asOf
  <2>4. b.charges = inv[i].charges /\ b.waived = inv[i].waived
    BY <2>1, <2>3 DEF BillRecords
  <2>5. ~b.waived /\ ~cleared(b)
    BY <1>1, <2>3, <2>4 DEF cleared, principal
  <2>6. recomputeInvoice(i, b, payments, asOf).fee
          = AtLeast(0, AtMost(Cap, PerDay * AtLeast(0, late)) - b.forgiven)
    BY <1>1, <2>3, <2>5, FeeOfUnpaid
  <2> QED
    BY <2>2, <2>3, <2>6 DEF asOf
<1>2. Fees /\ [Next]_vars => Fees'
  BY FeesStep
<1>3. Fees /\ [Next]_vars =>
        \A i \in Invoices :
          /\ WriteRow(Nightly) /\ i \in Bills(Nightly)
          /\ Category[i] = "RENT" /\ ~inv[i].waived /\ ~cleared(inv[i])
          => inv'[i].fee = LET late == req[Nightly].asOf - Due[i] - GraceDays
                           IN  AtLeast(0, AtMost(Cap, PerDay * AtLeast(0, late))
                                          - inv[i].forgiven)
  BY <1>1
<1> QED
  BY FeesInit, <1>2, <1>3, PTL DEF Spec, MissedNightSelfHeals
=============================================================================
