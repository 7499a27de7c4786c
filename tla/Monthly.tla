------------------------------ MODULE Monthly ------------------------------
(***************************************************************************)
(* Who is billed for which month, and under which number: the two monthly  *)
(* runs of jobs/index.ts, the owner's "generate invoices" button and the   *)
(* first bills of a move-in, over the JobRun and Invoice rows they share,  *)
(* with the electricity bills that are numbered in the same count.         *)
(*                                                                         *)
(* A month is two days: the last one, and all that come before it.  A bill *)
(* is its number.  What bills ask, and how they are paid, is in Billing;   *)
(* beds are in Occupancy.  Every stay here has a bed, hence a rent.        *)
(***************************************************************************)
EXTENDS Integers, FiniteSets, Functions

CONSTANTS
    Stays,
    Procs,          \* API processes; a deployment may overlap two
    None,
    FirstDay, MaxDay, \* the clock
    MaxMishaps,     \* crashes and failed statements
    MaxCalls        \* of the owner: edits, exits, readings, presses of the button

Month(d) == d \div 2
IsLastDay(d) == d % 2 = 1
Start(p) == 2 * p

Jobs == {"month-end-billing", "monthly-rollover"}
Owner == <<None, "generate invoices">>
Workers == (Procs \X Jobs) \cup {Owner}
DEPOSIT == 0
Periods == 1..Month(MaxDay + 1)
Series == {DEPOSIT} \cup Periods
Never == Month(MaxDay + 1) + 1

ASSUME MonthlyAssumption ==
    /\ IsFiniteSet(Stays) /\ None \notin Stays \cup Procs
    /\ FirstDay \in Nat \ {0, 1} /\ MaxDay \in Nat /\ FirstDay <= MaxDay
    /\ MaxMishaps \in Nat /\ MaxCalls \in Nat

VARIABLES
    today,
    up,       \* [Procs -> is this process running]
    stay,     \* [Stays -> Tenancy row]
    bill,     \* [Stays -> [Series -> number of its INV bill, 0 = not raised]]
    elec,     \* the same of its INV-ELEC bill
    jobRun,   \* [Jobs \X Periods -> status of the JobRun row, or "none"]
    run,      \* [Workers -> what it is doing]
    share,    \* [Periods -> the stays with a share of a reading]
    reading,  \* the request that records one, and bills its shares
    mishaps, presses, calls

vars == <<today, up, stay, bill, elec, jobRun, run, share, reading,
          mishaps, presses, calls>>

(* rent is the number of a rent bill that is inserted but not committed.   *)
NoRun == [at |-> "idle", period |-> DEPOSIT, queue |-> {}, meters |-> {}, exits |-> {},
          stay |-> None, number |-> 0, rent |-> 0]
NoReading == [at |-> "idle", period |-> DEPOSIT, stays |-> {}, number |-> 0]
(* Dates are months: leaving is the first month that is not stayed into,   *)
(* until the month of actualExitDate.  since is not stored: the day on     *)
(* which the owner last entered, reopened or ended the stay, or put off    *)
(* its end.                                                                *)
NoStay == [status |-> "none", joined |-> 0, since |-> 0,
           leaving |-> Never, until |-> Never]

Init ==
    /\ today = FirstDay
    /\ up = [p \in Procs |-> TRUE]
    /\ stay = [s \in Stays |-> NoStay]
    /\ bill = [s \in Stays |-> [k \in Series |-> 0]]
    /\ elec = [s \in Stays |-> [k \in Series |-> 0]]
    /\ jobRun = [j \in Jobs \X Periods |-> "none"]
    /\ run = [w \in Workers |-> NoRun]
    /\ share = [p \in Periods |-> {}] /\ reading = NoReading
    /\ mishaps = 0 /\ presses = 0 /\ calls = 0
-----------------------------------------------------------------------------
Billed(k) == {s \in Stays : bill[s][k] # 0}
BilledShare(k) == {s \in Stays : elec[s][k] # 0}

(* Mutant: only the bills under one of the two prefixes are counted.       *)
NextNumber_OfRent(k) == Cardinality(Billed(k)) + 1

(* count() + 1 over all bills of the month, whichever their prefix.        *)
NextNumber(k) == Cardinality(Billed(k)) + Cardinality(BilledShare(k)) + 1

(* The unique keys: a number under its prefix, one bill per stay, month    *)
(* and category.  An insert waits for a row that is not committed yet.     *)
Taken(k, n) == \E s \in Stays : bill[s][k] = n
TakenShare(k, n) == \E s \in Stays : elec[s][k] = n
Holds(w, s, k, n) ==
    /\ run[w].rent # 0 /\ run[w].period = k
    /\ run[w].stay = s \/ run[w].rent = n
Held(s, k, n) == \E w \in Workers : Holds(w, s, k, n)

(* calculateRent asks for no money outside the stay.                       *)
Occupied(s, p) == stay[s].joined <= p /\ p <= stay[s].until
staysIntoPeriod(s, p) ==
    stay[s].status = "staying" /\ stay[s].until = Never /\ stay[s].leaving > p
Lives(s) == stay[s].status \in {"staying", "left"}
Matured(p) == {s \in Stays : stay[s].status = "staying" /\ stay[s].leaving <= p}

Idle(w) == run[w].at = "idle"
Goto(w, label) == run' = [run EXCEPT ![w] = [@ EXCEPT !.at = label]]
Stop(w) == run' = [run EXCEPT ![w] = NoRun]
Key(w) == <<w[2], run[w].period>>
(* The catch of runOnce, or the error response of the button.              *)
Failed(w) ==
    /\ Stop(w)
    /\ jobRun' = IF w = Owner THEN jobRun ELSE [jobRun EXCEPT ![Key(w)] = "FAILED"]
-----------------------------------------------------------------------------
(* Mutant: looks before it inserts, in two statements.                     *)
Claim_Unguarded(w) ==
    /\ run[w].at = "claim"
    /\ jobRun' = [jobRun EXCEPT ![Key(w)] = "RUNNING"]
    /\ Goto(w, IF w[2] = "monthly-rollover" THEN "notices" ELSE "list")
    /\ UNCHANGED <<today, up, stay, bill, elec, share, reading, mishaps,
                   presses, calls>>

(* runOnce: the insert is the lock.                                        *)
Claim(w) ==
    /\ run[w].at \in {"claim", "catch-up"}
    /\ IF jobRun[Key(w)] # "none" THEN Stop(w) /\ UNCHANGED jobRun
       ELSE /\ jobRun' = [jobRun EXCEPT ![Key(w)] = "RUNNING"]
            /\ Goto(w, IF w[2] = "monthly-rollover" THEN "notices" ELSE "list")
    /\ UNCHANGED <<today, up, stay, bill, elec, share, reading, mishaps,
                   presses, calls>>

(* exitMaturedNotices: who owes nothing is ended, one by one, on the date  *)
(* that was read with the list, as was whether there is a bed to leave: a  *)
(* stay that was reopened has none.                                        *)
HasBed(s) == stay[s].until = Never
ListNotices(w) ==
    /\ run[w].at = "notices"
    /\ \E settled \in SUBSET Matured(run[w].period) :
          run' = [run EXCEPT ![w] = [@ EXCEPT !.at = "exits",
                      !.exits = {<<s, stay[s].leaving - 1, HasBed(s)>> : s \in settled}]]
    /\ UNCHANGED <<today, up, stay, bill, elec, jobRun, share, reading,
                   mishaps, presses, calls>>

(* The CHECK on the dates of an allocation; within a month, either.        *)
Refused(s, month, bed) == bed /\ month <= stay[s].joined
Accepted(s, month, bed) == bed => stay[s].joined <= month

ExitNext(w) ==
    /\ run[w].at = "exits"
    /\ \/ run[w].exits = {} /\ Goto(w, "list") /\ UNCHANGED <<stay, jobRun>>
       \/ \E e \in run[w].exits :
             /\ stay[e[1]].status = "erased" \/ Refused(e[1], e[2], e[3])
             /\ Failed(w) /\ UNCHANGED stay
       \/ \E e \in run[w].exits :
             /\ stay[e[1]].status # "erased" /\ Accepted(e[1], e[2], e[3])
             /\ stay' = [stay EXCEPT ![e[1]] = [@ EXCEPT !.status = "left", !.until = e[2]]]
             /\ run' = [run EXCEPT ![w] = [@ EXCEPT !.exits = run[w].exits \ {e}]]
             /\ UNCHANGED jobRun
    /\ UNCHANGED <<today, up, bill, elec, share, reading, mishaps, presses,
                   calls>>

(* Mutant: the month-end filter is used by every run.                      *)
ListStays_IntoPeriod(w) ==
    LET p == run[w].period
        listed == {s \in Stays : Lives(s) /\ staysIntoPeriod(s, p)}
    IN  /\ run[w].at = "list"
        /\ run' = [run EXCEPT ![w] = [@ EXCEPT !.at = "next", !.meters = listed \cap share[p],
                                     !.queue = {s \in listed : Occupied(s, p)}]]
        /\ UNCHANGED <<today, up, stay, bill, elec, jobRun, share, reading,
                       mishaps, presses, calls>>

(* billTenancies and generateInvoicesForPeriod list the stays once, with   *)
(* their shares of electricity; what each is asked is worked out from this *)
(* reading: a rent, or a share, or both.                                   *)
ListStays(w) ==
    LET p == run[w].period
        ahead == w # Owner /\ w[2] = "month-end-billing"
        listed == {s \in Stays : Lives(s) /\ (ahead => staysIntoPeriod(s, p))}
    IN  /\ run[w].at = "list"
        /\ run' = [run EXCEPT ![w] = [@ EXCEPT !.at = "next", !.meters = listed \cap share[p],
                                     !.queue = {s \in listed : Occupied(s, p)}]]
        /\ UNCHANGED <<today, up, stay, bill, elec, jobRun, share, reading,
                       mishaps, presses, calls>>

(* generateInvoiceForTenancy, a transaction for each stay: its rent bill   *)
(* is looked for and numbered, then inserted; after it, under the same     *)
(* commit, the bill of its share.                                          *)
NumberBill(w) ==
    LET p == run[w].period
    IN  /\ run[w].at = "next"
        /\ \E s \in run[w].queue \cup run[w].meters :
              LET left == [run[w] EXCEPT !.queue = @ \ {s}]
              IN  run' = [run EXCEPT ![w] =
                      IF s \in run[w].queue /\ bill[s][p] = 0
                      THEN [left EXCEPT !.at = "insert", !.stay = s, !.number = NextNumber(p)]
                      ELSE IF s \in run[w].meters THEN [left EXCEPT !.at = "shares", !.stay = s]
                      ELSE left]
        /\ UNCHANGED <<today, up, stay, bill, elec, jobRun, share, reading,
                       mishaps, presses, calls>>

Done(r) == [r EXCEPT !.at = "next", !.meters = @ \ {r.stay}, !.stay = None,
                     !.number = 0, !.rent = 0]
Bills(s, p, n) == [bill EXCEPT ![s] = [@ EXCEPT ![p] = n]]

InsertBill(w) ==
    LET s == run[w].stay  p == run[w].period  n == run[w].number
    IN  /\ run[w].at = "insert" /\ ~Held(s, p, n)
        /\ \/ /\ stay[s].status = "erased" \/ bill[s][p] # 0 \/ Taken(p, n)
              /\ Failed(w) /\ UNCHANGED bill
           \/ /\ stay[s].status # "erased" /\ bill[s][p] = 0 /\ ~Taken(p, n)
              /\ IF s \in run[w].meters
                 THEN /\ run' = [run EXCEPT ![w] = [@ EXCEPT !.at = "shares", !.rent = n]]
                      /\ UNCHANGED bill
                 ELSE run' = [run EXCEPT ![w] = Done(run[w])] /\ bill' = Bills(s, p, n)
              /\ UNCHANGED jobRun
        /\ UNCHANGED <<today, up, stay, elec, share, reading, mishaps, presses,
                       calls>>

(* The count sees the transaction's own rent bill.                         *)
Own(w) == IF run[w].rent = 0 THEN 0 ELSE 1
Committed(w) ==
    IF run[w].rent = 0 THEN bill ELSE Bills(run[w].stay, run[w].period, run[w].rent)

NumberShare(w) ==
    LET s == run[w].stay  p == run[w].period
    IN  /\ run[w].at = "shares"
        /\ IF elec[s][p] # 0
           THEN run' = [run EXCEPT ![w] = Done(run[w])] /\ bill' = Committed(w)
           ELSE /\ run' = [run EXCEPT ![w] =
                              [@ EXCEPT !.at = "attach", !.number = NextNumber(p) + Own(w)]]
                /\ UNCHANGED bill
        /\ UNCHANGED <<today, up, stay, elec, jobRun, share, reading, mishaps,
                       presses, calls>>

InsertShare(w) ==
    LET s == run[w].stay  p == run[w].period  n == run[w].number
    IN  /\ run[w].at = "attach"
        /\ \/ /\ stay[s].status = "erased" \/ elec[s][p] # 0 \/ TakenShare(p, n)
              /\ Failed(w) /\ UNCHANGED <<bill, elec>>
           \/ /\ stay[s].status # "erased" /\ elec[s][p] = 0 /\ ~TakenShare(p, n)
              /\ elec' = [elec EXCEPT ![s] = [@ EXCEPT ![p] = n]]
              /\ bill' = Committed(w)
              /\ run' = [run EXCEPT ![w] = Done(run[w])]
              /\ UNCHANGED jobRun
        /\ UNCHANGED <<today, up, stay, share, reading, mishaps, presses,
                       calls>>

Finish(w) ==
    /\ run[w].at = "next" /\ run[w].queue \cup run[w].meters = {}
    /\ Stop(w)
    /\ jobRun' = IF w = Owner THEN jobRun ELSE [jobRun EXCEPT ![Key(w)] = "SUCCEEDED"]
    /\ UNCHANGED <<today, up, stay, bill, elec, share, reading, mishaps,
                   presses, calls>>

Work(w) ==
    \/ Claim(w) \/ ListNotices(w) \/ ExitNext(w) \/ ListStays(w)
    \/ NumberBill(w) \/ InsertBill(w) \/ NumberShare(w) \/ InsertShare(w) \/ Finish(w)

(* A statement fails.  Where a catch-up fails to claim its row that is     *)
(* logged; where cron does, nobody handles it and the process ends: Crash. *)
Fail(w) ==
    /\ mishaps < MaxMishaps /\ mishaps' = mishaps + 1
    /\ run[w].at \notin {"idle", "claim"}
    /\ IF run[w].at = "catch-up" THEN Stop(w) /\ UNCHANGED jobRun ELSE Failed(w)
    /\ UNCHANGED <<today, up, stay, bill, elec, share, reading, presses,
                   calls>>

Crash(p) ==
    /\ mishaps < MaxMishaps /\ mishaps' = mishaps + 1
    /\ up[p] /\ up' = [up EXCEPT ![p] = FALSE]
    /\ run' = [w \in Workers |-> IF w \in {p} \X Jobs THEN NoRun ELSE run[w]]
    /\ UNCHANGED <<today, stay, bill, elec, jobRun, share, reading, presses,
                   calls>>
-----------------------------------------------------------------------------
Started(label, p) == [NoRun EXCEPT !.at = label, !.period = p]

(* startScheduledJobs, and its catch-ups.                                  *)
Restart(p) ==
    /\ ~up[p] /\ up' = [up EXCEPT ![p] = TRUE]
    /\ run' = [w \in Workers |->
                  CASE w = <<p, "monthly-rollover">> -> Started("catch-up", Month(today))
                    [] w = <<p, "month-end-billing">> /\ IsLastDay(today) ->
                           Started("catch-up", Month(today) + 1)
                    [] OTHER -> run[w]]
    /\ UNCHANGED <<today, stay, bill, elec, jobRun, share, reading, mishaps,
                   presses, calls>>

(* Mutant: next month's rent is billed ahead, so the first needs no run.   *)
NewDay_MonthEndOnly ==
    /\ today < MaxDay /\ today' = today + 1
    /\ \A w \in Workers : Idle(w)
    /\ run' = [w \in Workers |->
                  IF w # Owner /\ up[w[1]] /\ w[2] = "month-end-billing" /\ ~IsLastDay(today)
                  THEN Started("claim", Month(today) + 1) ELSE run[w]]
    /\ UNCHANGED <<up, stay, bill, elec, jobRun, share, reading, mishaps,
                   presses, calls>>

(* 00:35 on the last day, or on the first.  Nothing still runs from the    *)
(* day before: that takes seconds.                                         *)
NewDay ==
    LET due == IF IsLastDay(today) THEN "monthly-rollover" ELSE "month-end-billing"
    IN  /\ today < MaxDay /\ today' = today + 1
        /\ \A w \in Workers : Idle(w)
        /\ run' = [w \in Workers |-> IF w # Owner /\ up[w[1]] /\ w[2] = due
                                     THEN Started("claim", Month(today) + 1) ELSE run[w]]
        /\ UNCHANGED <<up, stay, bill, elec, jobRun, share, reading, mishaps,
                       presses, calls>>
-----------------------------------------------------------------------------
(* createResident with a deposit and a bed, from a day of any month: one   *)
(* transaction, which bills the month of that day alone, and which a       *)
(* number already taken refuses.                                           *)
MoveIn(s) ==
    /\ stay[s].status = "none"
    /\ ~Taken(DEPOSIT, NextNumber(DEPOSIT))
    /\ \E p \in Periods :
          /\ ~Taken(p, NextNumber(p)) /\ ~Held(s, p, NextNumber(p))
          /\ stay' = [stay EXCEPT ![s] =
                         [@ EXCEPT !.status = "staying", !.joined = p, !.since = today]]
          /\ bill' = [bill EXCEPT ![s] =
                         [@ EXCEPT ![DEPOSIT] = NextNumber(DEPOSIT), ![p] = NextNumber(p)]]
    /\ UNCHANGED <<today, up, elec, jobRun, run, share, reading, mishaps,
                   presses, calls>>

Asks == calls + presses < MaxCalls /\ calls' = calls + 1

(* updateResident writes any expectedExitDate, or none, and may make a     *)
(* stay that ended ACTIVE again: it keeps its actualExitDate.              *)
UpdateResident(s) ==
    /\ Asks /\ Lives(s)
    /\ \E q \in 1..Never, status \in {stay[s].status, "staying"} :
          stay' = [stay EXCEPT ![s] =
              [@ EXCEPT !.leaving = q, !.status = status,
                        !.since = IF status # stay[s].status \/ q > stay[s].leaving
                                  THEN today ELSE stay[s].since]]
    /\ UNCHANGED <<today, up, bill, elec, jobRun, run, share, reading, mishaps,
                   presses>>

(* exitResident, once everything is paid, as of a day of any month.        *)
LeaveNow(s) ==
    /\ Asks /\ stay[s].status = "staying"
    /\ \E q \in Periods :
          /\ Accepted(s, q, HasBed(s))
          /\ stay' = [stay EXCEPT ![s] =
                         [@ EXCEPT !.status = "left", !.until = q, !.since = today]]
    /\ UNCHANGED <<today, up, bill, elec, jobRun, run, share, reading, mishaps,
                   presses>>

(* deleteResidentData: the bills go with the stay, whose row no open       *)
(* transaction may have billed.                                            *)
Erase(s) ==
    /\ stay[s].status = "left"
    /\ \A w \in Workers : run[w].rent # 0 => run[w].stay # s
    /\ stay' = [stay EXCEPT ![s] = [@ EXCEPT !.status = "erased"]]
    /\ bill' = [bill EXCEPT ![s] = [k \in Series |-> 0]]
    /\ elec' = [elec EXCEPT ![s] = [k \in Series |-> 0]]
    /\ share' = [p \in Periods |-> share[p] \ {s}]
    /\ UNCHANGED <<today, up, jobRun, run, reading, mishaps, presses, calls>>

(* Mutant: the button claims a JobRun row it does not have.                *)
Generate_Claims(p) ==
    /\ calls + presses < MaxCalls /\ presses' = presses + 1
    /\ Idle(Owner) /\ p \in {Month(today), Month(today) + 1}
    /\ run' = [run EXCEPT ![Owner] = Started("claim", p)]
    /\ UNCHANGED <<today, up, stay, bill, elec, jobRun, share, reading,
                   mishaps, calls>>

(* generateInvoicesForPeriod: the owner's button, for this month or next.  *)
Generate(p) ==
    /\ calls + presses < MaxCalls /\ presses' = presses + 1
    /\ Idle(Owner) /\ p \in {Month(today), Month(today) + 1}
    /\ run' = [run EXCEPT ![Owner] = Started("list", p)]
    /\ UNCHANGED <<today, up, stay, bill, elec, jobRun, share, reading,
                   mishaps, calls>>

(* recordReading, of a room that some had in the month: its transaction.   *)
RecordReading(p) ==
    /\ Asks /\ reading.at = "idle"
    /\ \E room \in SUBSET {s \in Stays : Lives(s) /\ Occupied(s, p)} :
          room # {} /\ share' = [share EXCEPT ![p] = @ \cup room]
    /\ reading' = [NoReading EXCEPT !.at = "count", !.period = p]
    /\ UNCHANGED <<today, up, stay, bill, elec, jobRun, run, mishaps, presses>>

(* attachSharesToInvoices looks for the bills of the month's shares and    *)
(* counts, then a transaction raises those that are missing under          *)
(* consecutive numbers, or none.                                           *)
CountShares ==
    LET p == reading.period
    IN  /\ reading.at = "count"
        /\ reading' = [at |-> "attach", period |-> p, number |-> NextNumber(p),
                       stays |-> {s \in share[p] : elec[s][p] = 0}]
        /\ UNCHANGED <<today, up, stay, bill, elec, jobRun, run, share,
                       mishaps, presses, calls>>

AttachShares ==
    LET p == reading.period  n == reading.number
        numbers == n..(n + Cardinality(reading.stays) - 1)
    IN  /\ reading.at = "attach" /\ reading' = NoReading
        /\ \/ UNCHANGED elec
           \/ /\ \A s \in reading.stays : stay[s].status # "erased" /\ elec[s][p] = 0
              /\ \A i \in numbers : ~TakenShare(p, i)
              /\ \E number \in Bijection(reading.stays, numbers) :
                    elec' = [s \in Stays |-> IF s \in reading.stays
                                             THEN [elec[s] EXCEPT ![p] = number[s]] ELSE elec[s]]
        /\ UNCHANGED <<today, up, stay, bill, jobRun, run, share, mishaps,
                       presses, calls>>

Next ==
    \/ \E w \in Workers : Work(w) \/ Fail(w)
    \/ \E p \in Procs : Crash(p) \/ Restart(p)
    \/ NewDay
    \/ \E s \in Stays : MoveIn(s) \/ UpdateResident(s) \/ LeaveNow(s) \/ Erase(s)
    \/ \E p \in Periods : Generate(p) \/ RecordReading(p)
    \/ CountShares \/ AttachShares

Spec == Init /\ [][Next]_vars
=============================================================================
