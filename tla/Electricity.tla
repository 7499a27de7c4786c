---------------------------- MODULE Electricity ----------------------------
(***************************************************************************)
(* One month of electricity in one property: meter readings and their      *)
(* corrections, the shares they are split into, amounts the owner enters   *)
(* or edits by hand, and the lines all of these put on the residents'      *)
(* ELECTRICITY bills, which the monthly billing run also raises            *)
(* (electricity.service.ts, invoice.service.ts, allocate.ts).              *)
(*                                                                         *)
(* A bill is its lines.  What it asks in all, and how it is paid, is in    *)
(* Billing; who is billed rent, and bill numbers, in Monthly.              *)
(***************************************************************************)
EXTENDS Integers, FiniteSets, Sequences, Functions

CONSTANTS
    Stays, Rooms,
    Workers,     \* the owner's requests
    Job,         \* the billing run, or the owner's button that does the same
    None,
    Histories,   \* [Rooms -> possible sets of Allocation rows of the month]
    Amounts,     \* of a reading, an entry or an edit, in paise
    MaxCalls, MaxMishaps

Actors == Workers \cup {Job}
AllocationRows == UNION (UNION {Histories[r] : r \in Rooms})

ASSUME ElectricityAssumption ==
    /\ IsFiniteSet(Stays) /\ IsFiniteSet(AllocationRows)
    /\ Job \notin Workers /\ None \notin Stays \cup Rooms \cup Nat
    /\ \A row \in AllocationRows : row.stay \in Stays /\ row.days \in Nat
    /\ \A r \in Rooms : Histories[r] # {}
    /\ Amounts \subseteq Nat
    /\ MaxCalls \in Nat /\ MaxMishaps \in Nat

VARIABLES
    lives,     \* [Rooms -> Allocation rows that touch the month]
    reading,   \* the MeterReading rows, in the order of their insertion
    bill,      \* [Stays -> lines of the ELECTRICITY bill, <<>> = not raised]
    call,      \* [Actors -> what it is doing, and what it has read]
    calls, mishaps

vars == <<lives, reading, bill, call, calls, mishaps>>

NoCall == [at |-> "idle", alone |-> TRUE, room |-> None, stay |-> None, amount |-> 0,
           rows |-> {}, existing |-> 0, charges |-> {}, known |-> {}, count |-> 0, line |-> 0]

Init ==
    /\ lives \in [Rooms -> UNION {Histories[r] : r \in Rooms}]
    /\ \A r \in Rooms : lives[r] \in Histories[r]
    /\ reading = <<>>
    /\ bill = [s \in Stays |-> <<>>]
    /\ call = [w \in Actors |-> NoCall]
    /\ calls = 0 /\ mishaps = 0
-----------------------------------------------------------------------------
(* A reading is ACTIVE until another corrects it.                          *)
Active(i) == reading[i].by = 0
ActiveIn(r) == {i \in DOMAIN reading : reading[i].room = r /\ Active(i)}
SharedBy(i) == {s \in Stays : reading[i].share[s] # None}
Charge(i, s) == [of |-> i, stay |-> s, amount |-> reading[i].share[s]]
AllShares == UNION {{Charge(i, s) : s \in SharedBy(i)} : i \in DOMAIN reading}

ActiveShares == {e \in AllShares : Active(e.of)}

Billed == {s \in Stays : bill[s] # <<>>}
Line(e) == [of |-> e.of, amount |-> e.amount]
BY_HAND == 0

total(rows) == SumFunction([x \in rows |-> x.days])
Floors(amount, rows) == [x \in rows |-> (amount * x.days) \div total(rows)]
Fraction(amount, rows, x) == (amount * x.days) % total(rows)

(* Mutant: each share is rounded down.                                     *)
allocatePaise_Floors(amount, rows) == {Floors(amount, rows)}

(* allocatePaise: the paise that rounding down leaves over go one each to  *)
(* the largest fractions.  Rows come in no order, so any may win a tie.    *)
allocatePaise(amount, rows) ==
    LET floors == Floors(amount, rows)
    IN  {[x \in rows |-> floors[x] + (IF x \in lucky THEN 1 ELSE 0)] :
            lucky \in {S \in SUBSET rows :
                          /\ Cardinality(S) = amount - SumFunction(floors)
                          /\ \A x \in S, y \in rows \ S :
                                Fraction(amount, rows, x) >= Fraction(amount, rows, y)}}

splitElectricity(amount, rows) ==
    IF total(rows) = 0 THEN {[x \in rows |-> 0]} ELSE allocatePaise(amount, rows)
-----------------------------------------------------------------------------
InFlight(w) == call[w].at \notin {"idle", "attached", "done", "failed"}

(* A request arrives; the answer of an earlier one is history.             *)
Begin(w, row) ==
    /\ calls < MaxCalls /\ calls' = calls + 1
    /\ ~InFlight(w)
    /\ LET busy == {v \in Workers : InFlight(v)}
       IN  call' = [v \in Actors |->
                       CASE v = w -> [row EXCEPT !.alone = (busy = {})]
                         [] v \in busy -> [call[v] EXCEPT !.alone = FALSE]
                         [] v = Job -> call[v]
                         [] OTHER -> NoCall]
    /\ UNCHANGED <<lives, reading, bill, mishaps>>

Goto(w, row) == call' = [call EXCEPT ![w] = row]
Fails(w) == Goto(w, [call[w] EXCEPT !.at = "failed"]) /\ UNCHANGED <<reading, bill>>

(* recordReading, up to its transaction: the room's residents are read.    *)
StartReading(w, r, amount) ==
    Begin(w, [NoCall EXCEPT !.at = "find", !.room = r, !.amount = amount, !.rows = lives[r]])

FindReading(w) ==
    /\ call[w].at = "find"
    /\ \E i \in IF ActiveIn(call[w].room) = {} THEN {0} ELSE ActiveIn(call[w].room) :
          Goto(w, [call[w] EXCEPT !.at = "record", !.existing = i])
    /\ UNCHANGED <<lives, reading, bill, calls, mishaps>>

OneRowEach(rows) == \A x, y \in rows : x.stay = y.stay => x = y

(* The rest of the transaction.  Two unique keys may refuse it: one ACTIVE *)
(* reading per room, and one share per reading and stay.                   *)
Recorded(w, paise) ==
    LET c == call[w]
        rows == [s \in Stays |-> {x \in c.rows : x.stay = s}]
        row == [room |-> c.room, amount |-> c.amount, by |-> 0,
                share |-> [s \in Stays |-> IF rows[s] = {} THEN None
                                           ELSE paise[CHOOSE x \in rows[s] : TRUE]],
                days |-> [s \in Stays |-> IF rows[s] = {} THEN 0
                                          ELSE (CHOOSE x \in rows[s] : TRUE).days]]
        corrected == IF c.existing = 0 THEN reading
                     ELSE [reading EXCEPT ![c.existing] = [@ EXCEPT !.by = Len(reading) + 1]]
    IN  Append(corrected, row)

(* Mutant: no index on the ACTIVE reading of a room.                       *)
CommitReading_NoIndex(w) ==
    /\ call[w].at = "record" /\ OneRowEach(call[w].rows)
    /\ \E paise \in splitElectricity(call[w].amount, call[w].rows) :
          reading' = Recorded(w, paise)
    /\ Goto(w, [call[w] EXCEPT !.at = "shares"])
    /\ UNCHANGED <<lives, bill, calls, mishaps>>

CommitReading(w) ==
    /\ call[w].at = "record"
    /\ IF ~OneRowEach(call[w].rows) \/ ~(ActiveIn(call[w].room) \subseteq {call[w].existing})
       THEN Fails(w)
       ELSE /\ \E paise \in splitElectricity(call[w].amount, call[w].rows) :
                  reading' = Recorded(w, paise)
            /\ Goto(w, [call[w] EXCEPT !.at = "shares"])
            /\ UNCHANGED bill
    /\ UNCHANGED <<lives, calls, mishaps>>

Edited(row, s, amount) == [row EXCEPT !.share = [row.share EXCEPT ![s] = amount]]

(* updateElectricityShare: its transaction, then the bills.                *)
UpdateShare(w, i, s, amount) ==
    /\ call[w].at = "share" /\ s \in SharedBy(i)
    /\ call[w].existing = i /\ call[w].stay = s /\ call[w].amount = amount
    /\ reading' = [reading EXCEPT ![i] = Edited(reading[i], s, amount)]
    /\ Goto(w, [call[w] EXCEPT !.at = "shares"])
    /\ UNCHANGED <<lives, bill, calls, mishaps>>

StartShare(w, i, s, amount) ==
    /\ i \in DOMAIN reading /\ s \in SharedBy(i)
    /\ Begin(w, [NoCall EXCEPT !.at = "share", !.existing = i, !.stay = s, !.amount = amount])
-----------------------------------------------------------------------------
(* attachSharesToInvoices, for the whole month: shares, bills and count    *)
(* are read before its transaction.                                        *)
ReadShares(w) ==
    /\ call[w].at = "shares"
    /\ Goto(w, [call[w] EXCEPT !.charges = ActiveShares,
                               !.at = IF ActiveShares = {} THEN "attached" ELSE "bills"])
    /\ UNCHANGED <<lives, reading, bill, calls, mishaps>>

(* Mutant: any bill of the month will do, and everyone has one for rent.   *)
ReadBills_AnyCategory(w) ==
    /\ call[w].at \in {"bills", "entries"}
    /\ Goto(w, [call[w] EXCEPT !.at = IF @ = "bills" THEN "attach" ELSE "enter",
                               !.known = Stays, !.count = Cardinality(Billed)])
    /\ UNCHANGED <<lives, reading, bill, calls, mishaps>>

(* Bills and their count are two reads; a bill raised between them makes   *)
(* the transaction fail if it is one of these, and changes nothing if not. *)
ReadBills(w) ==
    /\ call[w].at \in {"bills", "entries"}
    /\ Goto(w, [call[w] EXCEPT !.at = IF @ = "bills" THEN "attach" ELSE "enter",
                               !.known = Billed, !.count = Cardinality(Billed)])
    /\ UNCHANGED <<lives, reading, bill, calls, mishaps>>

ChargesOf(w, s) == {e \in call[w].charges : e.stay = s}
ToRaise(w) == {e \in call[w].charges : e.stay \notin call[w].known}

(* The number count() + 1 may be taken once another bill was raised; rent  *)
(* bills count too, under a prefix of their own, so it need not be.        *)
MayRaise(w) ==
    /\ \A e \in ToRaise(w) : bill[e.stay] = <<>>
    /\ \A e, f \in ToRaise(w) : e.stay = f.stay => e = f
NumberMayBeTaken(w) == ToRaise(w) # {} /\ Cardinality(Billed) # call[w].count

(* One after the other, each charge overwrites the first line that is      *)
(* found, in no order: at least one line, and each with a charge of its own. *)
Refreshed(lines, charges) ==
    {[k \in DOMAIN lines |-> IF k \in DOMAIN g THEN Line(g[k]) ELSE lines[k]] :
        g \in UNION {Injection(K, charges) : K \in (SUBSET DOMAIN lines) \ {{}}}}

(* Mutant: a bill that exists already is left as it is.                    *)
LinesAfter_NotRefreshed(w, s) ==
    IF ChargesOf(w, s) \cap ToRaise(w) = {} THEN {bill[s]}
    ELSE {<<Line(e)>> : e \in ChargesOf(w, s)}

LinesAfter(w, s) ==
    LET charges == ChargesOf(w, s)
    IN  IF charges = {} THEN {bill[s]}
        ELSE IF charges \cap ToRaise(w) # {} THEN {<<Line(e)>> : e \in charges}
        ELSE IF call[w].at = "attach" THEN Refreshed(bill[s], charges)
        ELSE {Append(bill[s], Line(e)) : e \in charges}

(* One transaction for all of them, or none.                               *)
Charged(w, done) ==
    /\ \/ /\ MayRaise(w)
          /\ bill' \in {b \in [Stays -> UNION {LinesAfter(w, s) : s \in Stays}] :
                           \A s \in Stays : b[s] \in LinesAfter(w, s)}
          /\ Goto(w, [call[w] EXCEPT !.at = done])
          /\ UNCHANGED reading
       \/ (~MayRaise(w) \/ NumberMayBeTaken(w)) /\ Fails(w)
    /\ UNCHANGED <<lives, calls, mishaps>>

(* attachSharesToInvoices raises bills and overwrites lines;               *)
(* recordElectricityBill raises bills and adds lines.                      *)
CommitShares(w) == call[w].at = "attach" /\ Charged(w, "attached")
CommitEntries(w) == call[w].at = "enter" /\ Charged(w, "done")

(* recordElectricityBill: one amount for some of the residents.            *)
StartEntries(w, entries) ==
    Begin(w, [NoCall EXCEPT !.at = "entries", !.charges =
                 {[of |-> BY_HAND, stay |-> s, amount |-> entries[s]] : s \in DOMAIN entries}])

(* updateElectricityInvoiceItem changes the first of the bill's lines, in  *)
(* no order.                                                               *)
StartEdit(w, s, amount) ==
    /\ bill[s] # <<>>
    /\ \E k \in DOMAIN bill[s] :
          Begin(w, [NoCall EXCEPT !.at = "edit", !.stay = s, !.amount = amount, !.line = k])

CommitEdit(w) ==
    /\ call[w].at = "edit"
    /\ bill' = [bill EXCEPT ![call[w].stay][call[w].line].amount = call[w].amount]
    /\ Goto(w, [call[w] EXCEPT !.at = "done"])
    /\ UNCHANGED <<lives, reading, calls, mishaps>>
-----------------------------------------------------------------------------
(* billTenancies or generateInvoicesForPeriod: the shares are read once.   *)
ListStays ==
    /\ ~InFlight(Job) /\ calls < MaxCalls /\ calls' = calls + 1
    /\ Goto(Job, [NoCall EXCEPT !.at = "next", !.charges = ActiveShares])
    /\ UNCHANGED <<lives, reading, bill, mishaps>>

(* generateInvoiceForTenancy, a transaction for each stay: whoever has an  *)
(* electricity bill already is passed over.                                *)
NumberBill ==
    /\ call[Job].at = "next"
    /\ \E s \in {e.stay : e \in call[Job].charges} :
          Goto(Job, IF bill[s] # <<>> THEN [call[Job] EXCEPT !.charges = @ \ ChargesOf(Job, s)]
                    ELSE [call[Job] EXCEPT !.at = "insert", !.stay = s,
                                           !.count = Cardinality(Billed)])
    /\ UNCHANGED <<lives, reading, bill, calls, mishaps>>

InsertBill ==
    LET s == call[Job].stay
        charges == ChargesOf(Job, s)
    IN  /\ call[Job].at = "insert"
        /\ \/ /\ bill[s] = <<>>
              /\ \E f \in Bijection(1..Cardinality(charges), charges) :
                    bill' = [bill EXCEPT ![s] = [k \in DOMAIN f |-> Line(f[k])]]
              /\ Goto(Job, [call[Job] EXCEPT !.at = "next", !.charges = @ \ charges])
              /\ UNCHANGED reading
           \/ /\ bill[s] # <<>> \/ Cardinality(Billed) # call[Job].count
              /\ Fails(Job)
        /\ UNCHANGED <<lives, calls, mishaps>>

Finish ==
    /\ call[Job].at = "next" /\ call[Job].charges = {}
    /\ Goto(Job, NoCall)
    /\ UNCHANGED <<lives, reading, bill, calls, mishaps>>
-----------------------------------------------------------------------------
(* A statement fails, a transaction times out, or the process dies.        *)
Fail(w) ==
    /\ mishaps < MaxMishaps /\ mishaps' = mishaps + 1
    /\ InFlight(w) /\ Fails(w)
    /\ UNCHANGED <<lives, calls>>

(* createResident, moveResident, exitResident.                             *)
Rehouse(r) ==
    /\ \E rows \in Histories[r] : rows # lives[r] /\ lives' = [lives EXCEPT ![r] = rows]
    /\ UNCHANGED <<reading, bill, call, calls, mishaps>>

Start(w) ==
    \/ \E r \in Rooms, a \in Amounts : StartReading(w, r, a)
    \/ \E i \in DOMAIN reading, s \in Stays, a \in Amounts : StartShare(w, i, s, a)
    \/ \E S \in (SUBSET Stays) \ {{}} : \E e \in [S -> Amounts \ {0}] : StartEntries(w, e)
    \/ \E s \in Stays, a \in Amounts \ {0} : StartEdit(w, s, a)

Next ==
    \/ \E w \in Workers :
          \/ Start(w) \/ FindReading(w) \/ CommitReading(w)
          \/ \E i \in DOMAIN reading, s \in Stays, a \in Amounts : UpdateShare(w, i, s, a)
          \/ ReadShares(w) \/ ReadBills(w) \/ CommitShares(w) \/ CommitEntries(w) \/ CommitEdit(w)
    \/ ListStays \/ NumberBill \/ InsertBill \/ Finish
    \/ \E w \in Actors : Fail(w)
    \/ \E r \in Rooms : Rehouse(r)

Spec == Init /\ [][Next]_vars
=============================================================================
