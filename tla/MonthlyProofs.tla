--------------------------- MODULE MonthlyProofs ---------------------------
(***************************************************************************)
(* What holds of the monthly runs for every number of stays, processes,    *)
(* days and mishaps: rows and runs stay well formed, a job is worked on    *)
(* once per month, the next bill number is free until someone is erased, a *)
(* run that reports success has billed everyone it had to, and after one   *)
(* mishap some run does.                                                   *)
(***************************************************************************)
EXTENDS MonthlyProperties, FiniteSetTheorems, TLAPS

JobStates == {"none", "RUNNING", "SUCCEEDED", "FAILED"}

LEMMA Constants ==
    /\ IsFiniteSet(Stays) /\ None \notin Stays /\ None \notin Procs
    /\ FirstDay \in Nat /\ FirstDay >= 2 /\ MaxDay \in Nat /\ FirstDay <= MaxDay
    /\ MaxMishaps \in Nat /\ MaxCalls \in Nat
BY MonthlyAssumption

(* The months that a day can ask for.                                      *)
LEMMA Days ==
    ASSUME NEW d \in FirstDay..MaxDay
    PROVE  /\ Month(d) \in Periods /\ Month(d) \in 0..Never
           /\ IsLastDay(d) => Month(d) + 1 \in Periods
           /\ d < MaxDay => Month(d) + 1 \in Periods
           /\ d \in 0..MaxDay
<1>1. d \in Int /\ d >= 2 /\ d <= MaxDay /\ MaxDay \in Int
  BY Constants
<1>2. \A m, n \in Int : (m >= 2 /\ m <= n) =>
          /\ m \div 2 \in 1..((n + 1) \div 2) /\ m \div 2 \in 0..(((n + 1) \div 2) + 1)
          /\ m % 2 = 1 => (m \div 2) + 1 \in 1..((n + 1) \div 2)
          /\ m < n => (m \div 2) + 1 \in 1..((n + 1) \div 2)
          /\ m \in 0..n
  BY Z3
<1> QED  BY <1>1, <1>2 DEF Month, IsLastDay, Periods, Never

LEMMA SeriesFacts ==
    /\ Periods \subseteq Nat \ {0} /\ Series \subseteq Nat /\ DEPOSIT \in Series
    /\ Periods \subseteq Series /\ Periods \subseteq 1..Never /\ Never \in 1..Never
    /\ Never \in Nat /\ DEPOSIT \notin Periods
<1>1. Month(MaxDay + 1) \in Nat
  BY Constants DEF Month
<1> HIDE DEF Month
<1> QED  BY <1>1 DEF Periods, Series, DEPOSIT, Never

LEMMA CountIsNat ==
    ASSUME NEW k
    PROVE  /\ IsFiniteSet(Billed(k)) /\ Cardinality(Billed(k)) \in Nat
           /\ IsFiniteSet(BilledShare(k)) /\ Cardinality(BilledShare(k)) \in Nat
<1>1. Billed(k) \in SUBSET Stays /\ BilledShare(k) \in SUBSET Stays
  BY DEF Billed, BilledShare
<1> QED  BY <1>1, Constants, FS_Subset, FS_CardinalityType

LEMMA OwnerIsNoJob == Owner \in Workers /\ \A w \in Workers : w # Owner => w \in Procs \X Jobs
BY DEF Workers
LEMMA JobIsNoOwner == \A w \in Procs \X Jobs : w # Owner /\ w \in Workers /\ w[2] \in Jobs
<1> SUFFICES ASSUME NEW p \in Procs, NEW j \in Jobs
             PROVE  <<p, j>> # Owner
  BY DEF Workers
<1>1. p # None
  BY Constants
<1> QED  BY <1>1 DEF Owner

LEMMA NoRunOK == NoRun \in Runs
BY SeriesFacts DEF NoRun, Runs, Labels

ReadingOK == reading \in Readings /\ (reading.at # "idle" => reading.period \in Periods)

LEMMA NoReadingOK == NoReading \in Readings /\ NoReading.at = "idle"
BY SeriesFacts DEF NoReading, Readings

LEMMA StartedOK ==
    ASSUME NEW label \in Labels, NEW p \in Periods
    PROVE  Started(label, p) \in Runs /\ Started(label, p).period = p
           /\ Started(label, p).at = label /\ Started(label, p).rent = 0
BY SeriesFacts DEF Started, NoRun, Runs, Labels

RunOK(w, r) ==
    /\ r \in Runs
    /\ r.at # "idle" => r.period \in Periods
    /\ r.at \in Billing => r.stay \in Stays
    /\ r.at \in {"insert", "attach"} => r.number > 0
    /\ r.rent # 0 => r.at \in {"shares", "attach"}
    /\ w = Owner => r.at \in {"idle", "list", "next"} \cup Billing
AllRunsOK == run \in [Workers -> Runs] /\ \A w \in Workers : RunOK(w, run[w])

LEMMA StartedFits ==
    ASSUME NEW label \in {"claim", "catch-up", "list"}, NEW p \in Periods,
           NEW w, w = Owner => label = "list"
    PROVE  RunOK(w, Started(label, p))
<1>1. label \in Labels /\ label \notin Billing /\ label \notin {"insert", "attach"}
  BY DEF Labels, Billing
<1> QED  BY <1>1, StartedOK DEF RunOK

LEMMA RunsOK == TypeOK => AllRunsOK
BY OwnerIsNoJob DEF TypeOK, AllRunsOK, RunOK

LEMMA Idling == \A w : RunOK(w, NoRun)
BY NoRunOK DEF RunOK, NoRun, Billing

(* One run replaced by another that is well formed.                        *)
LEMMA OneRun ==
    ASSUME AllRunsOK, NEW w \in Workers, NEW r, RunOK(w, r), run' = [run EXCEPT ![w] = r]
    PROVE  AllRunsOK'
BY DEF AllRunsOK, RunOK

LEMMA KeyOK ==
    ASSUME TypeOK, NEW w \in Workers, run[w].at # "idle", w # Owner
    PROVE  Key(w) \in Jobs \X Periods
BY OwnerIsNoJob DEF TypeOK, Key

LEMMA FailedOK ==
    ASSUME TypeOK, NEW w \in Workers, run[w].at # "idle", Failed(w)
    PROVE  AllRunsOK' /\ jobRun' \in [Jobs \X Periods -> JobStates]
<1>1. AllRunsOK'
  BY RunsOK, OneRun, Idling DEF Failed, Stop
<1>2. CASE w = Owner
  BY <1>1, <1>2 DEF Failed, TypeOK, JobStates
<1>3. CASE w # Owner
  BY <1>1, <1>3, KeyOK DEF Failed, TypeOK, JobStates
<1> QED  BY <1>2, <1>3

LEMMA TypeFromRuns ==
    (/\ today \in FirstDay..MaxDay /\ up \in [Procs -> BOOLEAN]
     /\ stay \in [Stays -> StayRows] /\ bill \in [Stays -> [Series -> Nat]]
     /\ elec \in [Stays -> [Series -> Nat]]
     /\ jobRun \in [Jobs \X Periods -> JobStates] /\ share \in [Periods -> SUBSET Stays]
     /\ AllRunsOK /\ ReadingOK
     /\ mishaps \in Nat /\ presses \in Nat /\ calls \in Nat) => TypeOK
BY OwnerIsNoJob DEF TypeOK, AllRunsOK, RunOK, ReadingOK, JobStates

(* The same of the next state.                                             *)
LEMMA TypeNext ==
    ASSUME today' \in FirstDay..MaxDay, up' \in [Procs -> BOOLEAN],
           stay' \in [Stays -> StayRows], bill' \in [Stays -> [Series -> Nat]],
           elec' \in [Stays -> [Series -> Nat]], share' \in [Periods -> SUBSET Stays],
           jobRun' \in [Jobs \X Periods -> JobStates], ReadingOK',
           AllRunsOK', mishaps' \in Nat, presses' \in Nat, calls' \in Nat
    PROVE  TypeOK'
BY OwnerIsNoJob DEF TypeOK, AllRunsOK, RunOK, ReadingOK, JobStates

LEMMA Typed ==
    TypeOK => /\ today \in FirstDay..MaxDay /\ up \in [Procs -> BOOLEAN]
              /\ stay \in [Stays -> StayRows] /\ bill \in [Stays -> [Series -> Nat]]
              /\ elec \in [Stays -> [Series -> Nat]]
              /\ jobRun \in [Jobs \X Periods -> JobStates]
              /\ share \in [Periods -> SUBSET Stays] /\ reading \in Readings /\ ReadingOK
              /\ run \in [Workers -> Runs]
              /\ mishaps \in Nat /\ presses \in Nat /\ calls \in Nat
BY DEF TypeOK, ReadingOK, JobStates

LEMMA ReadingStays == UNCHANGED reading => ReadingOK' = ReadingOK
BY DEF ReadingOK
-----------------------------------------------------------------------------
LEMMA TypeInit == Init => TypeOK
<1> SUFFICES ASSUME Init PROVE TypeOK
  OBVIOUS
<1>1. AllRunsOK
  BY Idling DEF Init, AllRunsOK, RunOK
<1>2. stay \in [Stays -> StayRows]
  <2>1. 0 \in Series /\ 0 \in 0..MaxDay /\ Never \in 1..Never /\ Never \in 0..Never
    BY SeriesFacts, Constants DEF DEPOSIT
  <2>2. NoStay \in StayRows
    BY <2>1 DEF NoStay, StayRows, Statuses
  <2> QED  BY <2>2 DEF Init
<1>3. /\ bill \in [Stays -> [Series -> Nat]] /\ elec \in [Stays -> [Series -> Nat]]
      /\ share \in [Periods -> SUBSET Stays] /\ ReadingOK
  BY NoReadingOK DEF Init, ReadingOK
<1>4. jobRun \in [Jobs \X Periods -> JobStates]
  BY DEF Init, JobStates
<1>5. today \in FirstDay..MaxDay
  BY Constants DEF Init
<1>6. up \in [Procs -> BOOLEAN] /\ mishaps \in Nat /\ presses \in Nat /\ calls \in Nat
  BY DEF Init
<1> QED  BY <1>1, <1>2, <1>3, <1>4, <1>5, <1>6, TypeFromRuns

(* What Done leaves to do.                                                 *)
LEMMA DoneOK ==
    ASSUME NEW w \in Workers, NEW r, RunOK(w, r), r.at \in Billing
    PROVE  /\ RunOK(w, Done(r)) /\ Done(r).at = "next" /\ Done(r).period = r.period
           /\ Done(r).queue = r.queue /\ Done(r).meters \subseteq r.meters
           /\ Done(r).stay = None /\ Done(r).rent = 0
BY DEF RunOK, Runs, Billing, Labels, Done

LEMMA BillsOK ==
    ASSUME TypeOK, NEW s \in Stays, NEW p \in Series, NEW n \in Nat
    PROVE  /\ Bills(s, p, n) \in [Stays -> [Series -> Nat]]
           /\ Bills(s, p, n)[s][p] = n
           /\ \A q \in Stays, k \in Series : (q # s \/ k # p) => Bills(s, p, n)[q][k] = bill[q][k]
           /\ \A q \in Stays \ {s} : Bills(s, p, n)[q] = bill[q]
<1> DEFINE row == [bill[s] EXCEPT ![p] = n]
<1>1. row \in [Series -> Nat] /\ row[p] = n /\ \A k \in Series : k # p => row[k] = bill[s][k]
  BY Typed
<1>2. Bills(s, p, n) = [bill EXCEPT ![s] = row]
  BY DEF Bills
<1> HIDE DEF row
<1> QED  BY <1>1, <1>2, Typed

LEMMA CommittedOK ==
    ASSUME TypeOK, NEW w \in Workers, run[w].at \in Billing
    PROVE  /\ Committed(w) \in [Stays -> [Series -> Nat]]
           /\ \A s \in Stays \ {run[w].stay} : Committed(w)[s] = bill[s]
           /\ \A s \in Stays, k \in Series :
                  (s # run[w].stay \/ k # run[w].period) => Committed(w)[s][k] = bill[s][k]
           /\ Committed(w)[run[w].stay][run[w].period] =
                  IF run[w].rent = 0 THEN bill[run[w].stay][run[w].period] ELSE run[w].rent
<1>1. run[w].stay \in Stays /\ run[w].period \in Series /\ run[w].rent \in Nat
  BY RunsOK DEF AllRunsOK, RunOK, Runs
<1>2. CASE run[w].rent = 0
  BY <1>2, Typed DEF Committed
<1>3. CASE run[w].rent # 0
  <2>1. Committed(w) = Bills(run[w].stay, run[w].period, run[w].rent)
    BY <1>3 DEF Committed
  <2>0. PICK s \in Stays, p \in Series, n \in Nat :
            s = run[w].stay /\ p = run[w].period /\ n = run[w].rent
    BY <1>1
  <2>2. /\ Bills(s, p, n) \in [Stays -> [Series -> Nat]] /\ Bills(s, p, n)[s][p] = n
        /\ \A q \in Stays, k \in Series : (q # s \/ k # p) => Bills(s, p, n)[q][k] = bill[q][k]
        /\ \A q \in Stays \ {s} : Bills(s, p, n)[q] = bill[q]
    BY BillsOK
  <2> QED  BY <1>3, <2>0, <2>1, <2>2
<1> QED  BY <1>2, <1>3

LEMMA NumberIsNat == \A k : NextNumber(k) \in Nat /\ NextNumber(k) > 0
<1> SUFFICES ASSUME NEW k PROVE NextNumber(k) \in Nat /\ NextNumber(k) > 0
  OBVIOUS
<1>1. Cardinality(Billed(k)) \in Nat /\ Cardinality(BilledShare(k)) \in Nat
  BY CountIsNat
<1> QED  BY <1>1 DEF NextNumber

LEMMA NumberStaysNat == \A k : NextNumber(k)' \in Nat /\ NextNumber(k)' > 0
<1> SUFFICES ASSUME NEW k PROVE NextNumber(k)' \in Nat /\ NextNumber(k)' > 0
  OBVIOUS
<1>1. Billed(k)' \in SUBSET Stays /\ BilledShare(k)' \in SUBSET Stays
  BY DEF Billed, BilledShare
<1>2. \A S \in SUBSET Stays : Cardinality(S) \in Nat
  BY Constants, FS_Subset, FS_CardinalityType
<1> QED  BY <1>1, <1>2 DEF NextNumber

(* What NumberBill makes of a run that takes the stay s.                   *)
Skipped(w, s) == [run[w] EXCEPT !.queue = run[w].queue \ {s}]
Inserting(w, s) == [Skipped(w, s) EXCEPT !.at = "insert", !.stay = s,
                                        !.number = NextNumber(run[w].period)]
Metered(w, s) == [Skipped(w, s) EXCEPT !.at = "shares", !.stay = s]
Taking(w, s) ==
    \/ /\ s \in run[w].queue /\ bill[s][run[w].period] = 0
       /\ run' = [run EXCEPT ![w] = Inserting(w, s)]
    \/ /\ s \in run[w].queue => bill[s][run[w].period] # 0
       /\ \/ run' = [run EXCEPT ![w] = Metered(w, s)]
          \/ run' = [run EXCEPT ![w] = Skipped(w, s)]

LEMMA BillTaken ==
    ASSUME NEW w \in Workers, NumberBill(w)
    PROVE  \E s \in run[w].queue \cup run[w].meters : Taking(w, s)
BY DEF NumberBill, Taking, Inserting, Metered, Skipped

LEMMA TakenOK ==
    ASSUME TypeOK, NEW w \in Workers, run[w].at = "next",
           NEW s \in run[w].queue \cup run[w].meters,
           NEW next \in {Inserting(w, s), Metered(w, s), Skipped(w, s)}
    PROVE  /\ RunOK(w, next) /\ next.period = run[w].period /\ next.rent = 0
           /\ next.queue = run[w].queue \ {s} /\ next.meters = run[w].meters
           /\ next = Inserting(w, s) =>
                  next.at = "insert" /\ next.stay = s /\ next.number = NextNumber(run[w].period)
           /\ next = Metered(w, s) => next.at = "shares" /\ next.stay = s
           /\ next = Skipped(w, s) => next.at = "next" /\ next.stay = run[w].stay
<1>0. PICK r \in Runs : r = run[w] /\ RunOK(w, r) /\ r.at = "next" /\ s \in Stays
  BY RunsOK DEF AllRunsOK, RunOK, Runs
<1>1. PICK n \in Nat : n = NextNumber(run[w].period) /\ n > 0
  BY NumberIsNat
<1>2. CASE next = Inserting(w, s)
  <2>1. next = [[r EXCEPT !.queue = r.queue \ {s}] EXCEPT !.at = "insert", !.stay = s, !.number = n]
    BY <1>0, <1>1, <1>2 DEF Inserting, Skipped
  <2>2. next.at = "insert" /\ next.rent = 0
    BY <1>0, <2>1 DEF RunOK, Runs
  <2>3. RunOK(w, next) /\ next.period = r.period
        /\ next.queue = r.queue \ {s} /\ next.meters = r.meters
        /\ next.stay = s /\ next.number = n
    BY <1>0, <1>1, <2>1 DEF RunOK, Runs, Billing, Labels
  <2>4. next # Metered(w, s) /\ next # Skipped(w, s)
    BY <1>0, <2>2 DEF Metered, Skipped, Runs
  <2> QED  BY <1>0, <1>1, <1>2, <2>2, <2>3, <2>4
<1>3. CASE next = Metered(w, s)
  <2>1. next = [[r EXCEPT !.queue = r.queue \ {s}] EXCEPT !.at = "shares", !.stay = s]
    BY <1>0, <1>3 DEF Metered, Skipped
  <2>2. next.at = "shares" /\ next.rent = 0
    BY <1>0, <2>1 DEF RunOK, Runs
  <2>3. RunOK(w, next) /\ next.period = r.period
        /\ next.queue = r.queue \ {s} /\ next.meters = r.meters /\ next.stay = s
    BY <1>0, <2>1 DEF RunOK, Runs, Billing, Labels
  <2>4. next # Inserting(w, s) /\ next # Skipped(w, s)
    <3>1. Inserting(w, s).at = "insert"
      <4> HIDE DEF NextNumber
      <4> QED  BY <1>0 DEF Inserting, Skipped, Runs
    <3> QED  BY <1>0, <2>2, <3>1 DEF Skipped, Runs
  <2> QED  BY <1>0, <1>3, <2>2, <2>3, <2>4
<1>4. CASE next = Skipped(w, s)
  <2>1. next = [r EXCEPT !.queue = r.queue \ {s}]
    BY <1>0, <1>4 DEF Skipped
  <2>2. RunOK(w, next) /\ next.period = r.period /\ next.rent = 0 /\ next.at = "next"
        /\ next.queue = r.queue \ {s} /\ next.meters = r.meters /\ next.stay = r.stay
    BY <1>0, <2>1 DEF RunOK, Runs, Billing, Labels
  <2>3. next # Metered(w, s) /\ next # Inserting(w, s)
    <3>1. Inserting(w, s).at = "insert"
      <4> HIDE DEF NextNumber
      <4> QED  BY <1>0 DEF Inserting, Skipped, Runs
    <3> QED  BY <1>0, <2>2, <3>1 DEF Metered, Skipped, Runs
  <2> QED  BY <1>0, <1>4, <2>2, <2>3
<1> QED  BY <1>2, <1>3, <1>4

(* What is read of a stay that is to be ended.                             *)
LEMMA ExitsOK ==
    ASSUME TypeOK, NEW w \in Workers, NEW e \in run[w].exits
    PROVE  e[1] \in Stays /\ e[2] \in 0..Never /\ e[3] \in BOOLEAN
<1>1. run[w].exits \subseteq Stays \X (0..Never) \X BOOLEAN
  BY Typed DEF Runs
<1>2. \A x \in Stays \X (0..Never) \X BOOLEAN :
          x[1] \in Stays /\ x[2] \in 0..Never /\ x[3] \in BOOLEAN
  OBVIOUS
<1> QED  BY <1>1, <1>2

LEMMA TypeWork ==
    ASSUME TypeOK, NEW w \in Workers, Work(w)
    PROVE  TypeOK'
<1> DEFINE r == run[w]
<1>0. /\ AllRunsOK /\ RunOK(w, r) /\ r \in Runs /\ run \in [Workers -> Runs]
  BY RunsOK DEF AllRunsOK, Runs
<1> USE DEF Labels, Billing
<1>1. CASE Claim(w)
  <2>1. w # Owner
    BY <1>0, <1>1 DEF RunOK, Claim
  <2>2. CASE jobRun[Key(w)] # "none"
    BY <1>0, <1>1, <2>2, OneRun, Idling, TypeNext, ReadingStays, Typed DEF Claim, Stop
  <2>3. CASE jobRun[Key(w)] = "none"
    <3> DEFINE next == [r EXCEPT !.at = IF w[2] = "monthly-rollover" THEN "notices" ELSE "list"]
    <3>1. RunOK(w, next)
      BY <1>0, <1>1, <2>1 DEF RunOK, Runs, Claim
    <3>2. run' = [run EXCEPT ![w] = next]
      BY <1>0, <1>1, <2>3 DEF Claim, Goto
    <3>3. AllRunsOK'
      <4> HIDE DEF next
      <4> QED  BY <1>0, <3>1, <3>2, OneRun
    <3>4. jobRun' \in [Jobs \X Periods -> JobStates]
      BY <1>1, <2>3 DEF Claim, TypeOK, JobStates
    <3> QED  BY <1>1, <3>3, <3>4, TypeNext, ReadingStays, Typed DEF Claim
  <2> QED  BY <2>2, <2>3
<1>2. CASE ListNotices(w)
  <2>1. PICK settled \in SUBSET Matured(r.period) :
            run' = [run EXCEPT ![w] = [r EXCEPT !.at = "exits",
                        !.exits = {<<s, stay[s].leaving - 1, HasBed(s)>> : s \in settled}]]
    BY <1>0, <1>2 DEF ListNotices
  <2> DEFINE E == {<<s, stay[s].leaving - 1, HasBed(s)>> : s \in settled}
             next == [r EXCEPT !.at = "exits", !.exits = E]
  <2>2. RunOK(w, next)
    <3>1. \A s \in Stays : stay[s].leaving - 1 \in 0..Never
      BY SeriesFacts, Typed DEF StayRows
    <3>2. \A s \in settled : s \in Stays /\ HasBed(s) \in BOOLEAN
      BY DEF Matured, HasBed
    <3>3. E \subseteq Stays \X (0..Never) \X BOOLEAN
      BY <3>1, <3>2
    <3> HIDE DEF E
    <3> QED  BY <1>0, <1>2, <3>3 DEF RunOK, Runs, ListNotices
  <2>3. AllRunsOK'
    <3> HIDE DEF next
    <3> QED  BY <1>0, <2>1, <2>2, OneRun DEF next
  <2> QED  BY <1>2, <2>3, TypeNext, ReadingStays, Typed DEF ListNotices
<1>3. CASE ExitNext(w)
  <2>0. UNCHANGED <<today, up, bill, elec, share, reading, mishaps, presses, calls>>
    BY <1>3 DEF ExitNext
  <2>1. CASE r.exits = {} /\ Goto(w, "list") /\ UNCHANGED <<stay, jobRun>>
    <3> DEFINE next == [r EXCEPT !.at = "list"]
    <3>1. RunOK(w, next)
      BY <1>0, <1>3 DEF RunOK, Runs, ExitNext
    <3>2. run' = [run EXCEPT ![w] = next]
      BY <1>0, <2>1 DEF Goto
    <3>3. AllRunsOK'
      <4> HIDE DEF next
      <4> QED  BY <1>0, <3>1, <3>2, OneRun
    <3> QED  BY <1>3, <2>1, <3>3, TypeNext, ReadingStays, Typed DEF ExitNext
  <2>2. CASE Failed(w) /\ UNCHANGED stay
    <3>1. AllRunsOK' /\ jobRun' \in [Jobs \X Periods -> JobStates]
      BY <1>3, <2>2, FailedOK DEF ExitNext
    <3> QED  BY <2>0, <2>2, <3>1, TypeNext, ReadingStays, Typed
  <2>3. ASSUME NEW e \in r.exits, UNCHANGED jobRun,
               stay' = [stay EXCEPT ![e[1]] = [@ EXCEPT !.status = "left", !.until = e[2]]],
               run' = [run EXCEPT ![w] = [r EXCEPT !.exits = r.exits \ {e}]]
        PROVE  TypeOK'
    <3> DEFINE next == [r EXCEPT !.exits = r.exits \ {e}]
               row == [stay[e[1]] EXCEPT !.status = "left", !.until = e[2]]
    <3>1. e[1] \in Stays /\ e[2] \in 0..Never
      BY <2>3, ExitsOK
    <3>2. row \in StayRows
      <4>1. stay[e[1]] \in StayRows
        BY <3>1, Typed
      <4> QED  BY <3>1, <4>1 DEF StayRows, Statuses
    <3>3. stay' \in [Stays -> StayRows]
      <4>1. stay' = [stay EXCEPT ![e[1]] = row]
        BY <2>3
      <4> HIDE DEF row
      <4> QED  BY <3>1, <3>2, <4>1, Typed
    <3>4. RunOK(w, next)
      BY <1>0, <1>3 DEF RunOK, Runs, ExitNext
    <3>5. AllRunsOK'
      <4>1. run' = [run EXCEPT ![w] = next]
        BY <2>3
      <4> HIDE DEF next
      <4> QED  BY <1>0, <3>4, <4>1, OneRun
    <3>6. UNCHANGED jobRun
      BY <2>3
    <3> QED  BY <2>0, <3>3, <3>5, <3>6, TypeNext, ReadingStays, Typed
  <2> QED  BY <1>3, <2>1, <2>2, <2>3 DEF ExitNext
<1>4. CASE ListStays(w)
  <2> DEFINE L == {s \in Stays : Lives(s) /\ ((w # Owner /\ w[2] = "month-end-billing")
                                                => staysIntoPeriod(s, r.period))}
             M == L \cap share[r.period]
             Q == {s \in L : Occupied(s, r.period)}
             next == [r EXCEPT !.at = "next", !.meters = M, !.queue = Q]
  <2>1. run' = [run EXCEPT ![w] = next]
    BY <1>0, <1>4 DEF ListStays
  <2>2. RunOK(w, next)
    <3>1. Q \subseteq Stays /\ M \subseteq Stays
      OBVIOUS
    <3> HIDE DEF Q, M
    <3> QED  BY <1>0, <1>4, <3>1 DEF RunOK, Runs, ListStays
  <2>3. AllRunsOK'
    <3> HIDE DEF next
    <3> QED  BY <1>0, <2>1, <2>2, OneRun
  <2> QED  BY <1>4, <2>3, TypeNext, ReadingStays, Typed DEF ListStays
<1>5. CASE NumberBill(w)
  <2>0. PICK s \in r.queue \cup r.meters : Taking(w, s)
    BY <1>5, BillTaken
  <2>1. PICK next \in {Inserting(w, s), Metered(w, s), Skipped(w, s)} :
            run' = [run EXCEPT ![w] = next]
    BY <2>0 DEF Taking
  <2>2. RunOK(w, next)
    BY <1>5, <2>1, TakenOK DEF NumberBill
  <2>3. AllRunsOK'
    BY <1>0, <2>1, <2>2, OneRun
  <2> QED  BY <1>5, <2>3, TypeNext, ReadingStays, Typed DEF NumberBill
<1>6. CASE InsertBill(w)
  <2>0. r.stay \in Stays /\ r.period \in Series /\ r.number \in Nat /\ r.number > 0
    BY <1>0, <1>6 DEF RunOK, Runs, InsertBill
  <2>1. CASE Failed(w) /\ UNCHANGED bill
    BY <1>0, <1>6, <2>1, FailedOK, TypeNext, ReadingStays, Typed DEF InsertBill
  <2>2. CASE UNCHANGED <<bill, jobRun>>
             /\ run' = [run EXCEPT ![w] = [r EXCEPT !.at = "shares", !.rent = r.number]]
    <3> DEFINE next == [r EXCEPT !.at = "shares", !.rent = r.number]
    <3>1. RunOK(w, next)
      BY <1>0, <1>6, <2>0 DEF RunOK, Runs, InsertBill
    <3>2. AllRunsOK'
      <4> HIDE DEF next
      <4> QED  BY <1>0, <2>2, <3>1, OneRun DEF next
    <3> QED  BY <1>6, <2>2, <3>2, TypeNext, ReadingStays, Typed DEF InsertBill
  <2>3. CASE /\ run' = [run EXCEPT ![w] = Done(r)] /\ UNCHANGED jobRun
             /\ bill' = Bills(r.stay, r.period, r.number)
    <3>1. AllRunsOK' /\ bill' \in [Stays -> [Series -> Nat]]
      BY <1>0, <1>6, <2>0, <2>3, DoneOK, BillsOK, OneRun DEF InsertBill
    <3> QED  BY <1>6, <2>3, <3>1, TypeNext, ReadingStays, Typed DEF InsertBill
  <2> QED  BY <1>0, <1>6, <2>1, <2>2, <2>3 DEF InsertBill
<1>8. CASE NumberShare(w)
  <2>1. CASE run' = [run EXCEPT ![w] = Done(r)] /\ bill' = Committed(w)
    <3>1. AllRunsOK' /\ bill' \in [Stays -> [Series -> Nat]]
      BY <1>0, <1>8, <2>1, DoneOK, CommittedOK, OneRun DEF NumberShare
    <3> QED  BY <1>8, <3>1, TypeNext, ReadingStays, Typed DEF NumberShare
  <2>2. CASE UNCHANGED bill /\ run' = [run EXCEPT ![w] =
                [r EXCEPT !.at = "attach", !.number = NextNumber(r.period) + Own(w)]]
    <3>1. PICK n \in Nat : n = NextNumber(r.period) + Own(w) /\ n > 0
      BY NumberIsNat DEF Own
    <3> DEFINE next == [r EXCEPT !.at = "attach", !.number = n]
    <3>2. RunOK(w, next)
      BY <1>0, <1>8, <3>1 DEF RunOK, Runs, NumberShare
    <3>3. AllRunsOK'
      <4>1. run' = [run EXCEPT ![w] = next]
        BY <2>2, <3>1
      <4> HIDE DEF next
      <4> QED  BY <1>0, <3>2, <4>1, OneRun
    <3> QED  BY <1>8, <2>2, <3>3, TypeNext, ReadingStays, Typed DEF NumberShare
  <2> QED  BY <1>0, <1>8, <2>1, <2>2 DEF NumberShare
<1>9. CASE InsertShare(w)
  <2>1. CASE Failed(w) /\ UNCHANGED <<bill, elec>>
    BY <1>0, <1>9, <2>1, FailedOK, TypeNext, ReadingStays, Typed DEF InsertShare
  <2>2. CASE /\ elec' = [elec EXCEPT ![r.stay] = [@ EXCEPT ![r.period] = r.number]]
             /\ bill' = Committed(w) /\ run' = [run EXCEPT ![w] = Done(r)] /\ UNCHANGED jobRun
    <3>1. AllRunsOK' /\ bill' \in [Stays -> [Series -> Nat]]
      BY <1>0, <1>9, <2>2, DoneOK, CommittedOK, OneRun DEF InsertShare
    <3> DEFINE row == [elec[r.stay] EXCEPT ![r.period] = r.number]
    <3>2. r.stay \in Stays /\ row \in [Series -> Nat]
      BY <1>0, <1>9, Typed DEF RunOK, Runs, InsertShare
    <3>3. elec' \in [Stays -> [Series -> Nat]]
      <4>1. elec' = [elec EXCEPT ![r.stay] = row]
        BY <2>2
      <4> HIDE DEF row
      <4> QED  BY <3>2, <4>1, Typed
    <3> QED  BY <1>9, <2>2, <3>1, <3>3, TypeNext, ReadingStays, Typed DEF InsertShare
  <2> QED  BY <1>0, <1>9, <2>1, <2>2 DEF InsertShare
<1>7. CASE Finish(w)
  <2>1. AllRunsOK'
    BY <1>0, <1>7, OneRun, Idling DEF Finish, Stop
  <2>2. jobRun' \in [Jobs \X Periods -> JobStates]
    BY <1>7 DEF Finish, TypeOK, JobStates
  <2> QED  BY <1>7, <2>1, <2>2, TypeNext, ReadingStays, Typed DEF Finish
<1> QED  BY <1>1, <1>2, <1>3, <1>4, <1>5, <1>6, <1>7, <1>8, <1>9 DEF Work

(* A failed statement, a crash, a restart.                                 *)
LEMMA TypeMishaps ==
    ASSUME TypeOK, \/ \E w \in Workers : Fail(w)
                   \/ \E p \in Procs : Crash(p) \/ Restart(p)
    PROVE  TypeOK'
<1>0. AllRunsOK
  BY RunsOK
<1> USE DEF Labels
<1>1. CASE \E w \in Workers : Fail(w)
  <2>1. PICK w \in Workers : Fail(w)
    BY <1>1
  <2>2. mishaps' \in Nat
    BY <2>1 DEF Fail, TypeOK
  <2>3. CASE run[w].at = "catch-up"
    BY <1>0, <2>1, <2>2, <2>3, OneRun, Idling, TypeNext, ReadingStays, Typed DEF Fail, Stop
  <2>4. CASE run[w].at # "catch-up"
    BY <2>1, <2>2, <2>4, FailedOK, TypeNext, ReadingStays, Typed DEF Fail
  <2> QED  BY <2>3, <2>4
<1>2. ASSUME NEW p \in Procs, Crash(p)
      PROVE  TypeOK'
  <2>1. AllRunsOK'
    BY <1>0, <1>2, Idling, NoRunOK DEF Crash, AllRunsOK
  <2>2. mishaps' \in Nat /\ up' \in [Procs -> BOOLEAN]
    BY <1>2, Typed DEF Crash
  <2> QED  BY <1>2, <2>1, <2>2, TypeNext, ReadingStays, Typed DEF Crash
<1>3. ASSUME NEW p \in Procs, Restart(p)
      PROVE  TypeOK'
  <2> DEFINE m == Month(today)
             next == [w \in Workers |->
                 CASE w = <<p, "monthly-rollover">> -> Started("catch-up", m)
                   [] w = <<p, "month-end-billing">> /\ IsLastDay(today) -> Started("catch-up", m + 1)
                   [] OTHER -> run[w]]
  <2>1. m \in Periods /\ (IsLastDay(today) => m + 1 \in Periods)
    BY Days, Typed
  <2>2. ASSUME NEW w \in Workers PROVE RunOK(w, next[w])
    <3> HIDE DEF m
    <3>1. CASE w = <<p, "monthly-rollover">>
      <4>1. w # Owner /\ next[w] = Started("catch-up", m)
        BY <3>1, JobIsNoOwner DEF Jobs
      <4> HIDE DEF next
      <4> QED  BY <2>1, <4>1, StartedFits
    <3>2. CASE w = <<p, "month-end-billing">> /\ IsLastDay(today)
      <4>1. w # Owner /\ next[w] = Started("catch-up", m + 1)
        BY <3>2, JobIsNoOwner DEF Jobs
      <4> HIDE DEF next
      <4> QED  BY <2>1, <3>2, <4>1, StartedFits
    <3>3. CASE w # <<p, "monthly-rollover">> /\ ~(w = <<p, "month-end-billing">> /\ IsLastDay(today))
      BY <1>0, <3>3 DEF AllRunsOK
    <3> QED  BY <3>1, <3>2, <3>3
  <2>3. run' = next
    BY <1>3 DEF Restart
  <2>4. AllRunsOK'
    <3>1. \A w \in Workers : next[w] \in Runs
      BY <2>2 DEF RunOK
    <3>2. next \in [Workers -> Runs]
      BY <3>1
    <3> HIDE DEF next
    <3> QED  BY <2>2, <2>3, <3>2 DEF AllRunsOK
  <2>5. up' \in [Procs -> BOOLEAN]
    BY <1>3, Typed DEF Restart
  <2> QED  BY <1>3, <2>4, <2>5, TypeNext, ReadingStays, Typed DEF Restart
<1> QED  BY <1>1, <1>2, <1>3

LEMMA RowWritten ==
    ASSUME TypeOK, NEW s \in Stays, UpdateResident(s) \/ LeaveNow(s)
    PROVE  \E row \in StayRows :
               /\ stay' = [stay EXCEPT ![s] = row] /\ row.status \in {"staying", "left"}
               /\ row.joined = stay[s].joined
               /\ row.status = "staying" =>
                      \/ row.since = today
                      \/ /\ row.since = stay[s].since /\ stay[s].status = "staying"
                         /\ row.until = stay[s].until /\ row.leaving <= stay[s].leaving
<1>0. stay[s] \in StayRows /\ today \in 0..MaxDay
  BY Typed, Days
<1>1. CASE UpdateResident(s)
  <2>1. PICK q \in 1..Never, status \in {stay[s].status, "staying"} :
            stay' = [stay EXCEPT ![s] =
                [@ EXCEPT !.leaving = q, !.status = status,
                          !.since = IF status # stay[s].status \/ q > stay[s].leaving
                                    THEN today ELSE stay[s].since]]
    BY <1>1 DEF UpdateResident
  <2> DEFINE row == [stay[s] EXCEPT !.leaving = q, !.status = status,
                          !.since = IF status # stay[s].status \/ q > stay[s].leaving
                                    THEN today ELSE stay[s].since]
  <2>2. stay[s].status \in {"staying", "left"} /\ status \in {"staying", "left"}
    BY <1>1 DEF UpdateResident, Lives
  <2>3. row \in StayRows
    BY <1>0, <2>2 DEF StayRows, Statuses
  <2>4. /\ row.status = status /\ row.joined = stay[s].joined /\ row.until = stay[s].until
        /\ row.leaving = q
        /\ row.since = IF status # stay[s].status \/ q > stay[s].leaving
                       THEN today ELSE stay[s].since
    BY <1>0 DEF StayRows
  <2>5. q \in Int /\ stay[s].leaving \in Int
    <3>1. stay[s].leaving \in 1..Never
      BY <1>0 DEF StayRows
    <3> QED  BY <3>1, SeriesFacts
  <2>6. stay' = [stay EXCEPT ![s] = row]
    BY <2>1
  <2> HIDE DEF row
  <2>7. row.status = "staying" =>
            \/ row.since = today
            \/ /\ row.since = stay[s].since /\ stay[s].status = "staying"
               /\ row.until = stay[s].until /\ row.leaving <= stay[s].leaving
    BY <2>4, <2>5
  <2> QED  BY <2>2, <2>3, <2>4, <2>6, <2>7
<1>2. CASE LeaveNow(s)
  <2>1. PICK q \in Periods : stay' = [stay EXCEPT ![s] =
                         [@ EXCEPT !.status = "left", !.until = q, !.since = today]]
    BY <1>2 DEF LeaveNow
  <2> DEFINE row == [stay[s] EXCEPT !.status = "left", !.until = q, !.since = today]
  <2>2. q \in 0..Never
    BY SeriesFacts
  <2>3. row \in StayRows /\ row.status = "left" /\ row.joined = stay[s].joined
    BY <1>0, <2>2 DEF StayRows, Statuses
  <2>4. stay' = [stay EXCEPT ![s] = row]
    BY <2>1
  <2> HIDE DEF row
  <2> QED  BY <2>3, <2>4
<1> QED  BY <1>1, <1>2

(* The bills that AttachShares raises, if it raises any.                   *)
LEMMA SharesNumbered ==
    ASSUME TypeOK, AttachShares, elec' # elec
    PROVE  /\ elec' \in [Stays -> [Series -> Nat]]
           /\ \A s \in Stays, k \in Series :
                  IF s \in reading.stays /\ k = reading.period
                  THEN /\ elec[s][k] = 0
                       /\ elec'[s][k] \in
                              reading.number..(reading.number + Cardinality(reading.stays) - 1)
                  ELSE elec'[s][k] = elec[s][k]
<1> DEFINE p == reading.period  n == reading.number  S == reading.stays
           last == n + Cardinality(S) - 1
<1>1. p \in Series /\ n \in Nat /\ S \subseteq Stays
  BY Typed DEF Readings
<1>2. last \in Int
  BY <1>1, Constants, FS_Subset, FS_CardinalityType
<1>3. PICK number \in Bijection(S, n..last) :
            elec' = [s \in Stays |-> IF s \in S THEN [elec[s] EXCEPT ![p] = number[s]] ELSE elec[s]]
  BY DEF AttachShares
<1>4. \A s \in S : elec[s][p] = 0
  BY DEF AttachShares
<1> HIDE DEF last, p, n, S
<1>5. \A s \in S : number[s] \in n..last
  BY <1>3 DEF Bijection, Injection
<1>6. \A s \in S : number[s] \in Nat
  BY <1>1, <1>2, <1>5
<1>7. \A s \in S : /\ [elec[s] EXCEPT ![p] = number[s]] \in [Series -> Nat]
                   /\ [elec[s] EXCEPT ![p] = number[s]][p] = number[s]
                   /\ \A k \in Series : k # p => [elec[s] EXCEPT ![p] = number[s]][k] = elec[s][k]
  BY <1>1, <1>6, Typed
<1>8. elec' \in [Stays -> [Series -> Nat]]
  BY <1>3, <1>7, Typed
<1>9. \A s \in Stays, k \in Series :
          IF s \in S /\ k = p THEN elec[s][k] = 0 /\ elec'[s][k] \in n..last
          ELSE elec'[s][k] = elec[s][k]
  BY <1>3, <1>4, <1>5, <1>7
<1> QED  BY <1>8, <1>9 DEF last, p, n, S

(* The clock and the owner.                                                *)
LEMMA TypeCalls ==
    ASSUME TypeOK, \/ NewDay
                   \/ \E s \in Stays : MoveIn(s) \/ UpdateResident(s) \/ LeaveNow(s) \/ Erase(s)
                   \/ \E p \in Periods : Generate(p) \/ RecordReading(p)
                   \/ CountShares \/ AttachShares
    PROVE  TypeOK'
<1>0. AllRunsOK
  BY RunsOK
<1> USE DEF Labels, Billing
<1>1. CASE NewDay
  <2> DEFINE m == Month(today)
             due == IF IsLastDay(today) THEN "monthly-rollover" ELSE "month-end-billing"
             next == [w \in Workers |-> IF w # Owner /\ up[w[1]] /\ w[2] = due
                                        THEN Started("claim", m + 1) ELSE run[w]]
  <2>1. m + 1 \in Periods
    BY <1>1, Days, Typed DEF NewDay
  <2>2. ASSUME NEW w \in Workers PROVE RunOK(w, next[w])
    <3> HIDE DEF m, due
    <3>1. CASE w # Owner /\ up[w[1]] /\ w[2] = due
      <4>1. next[w] = Started("claim", m + 1)
        BY <3>1
      <4> HIDE DEF next
      <4> QED  BY <2>1, <3>1, <4>1, StartedFits
    <3>2. CASE ~(w # Owner /\ up[w[1]] /\ w[2] = due)
      BY <1>0, <3>2 DEF AllRunsOK
    <3> QED  BY <3>1, <3>2
  <2>3. run' = next
    BY <1>1 DEF NewDay
  <2>4. AllRunsOK'
    <3>1. \A w \in Workers : next[w] \in Runs
      BY <2>2 DEF RunOK
    <3>2. next \in [Workers -> Runs]
      BY <3>1
    <3> HIDE DEF next
    <3> QED  BY <2>2, <2>3, <3>2 DEF AllRunsOK
  <2>5. today' \in FirstDay..MaxDay
    BY <1>1, Constants, Typed DEF NewDay
  <2> QED  BY <1>1, <2>4, <2>5, TypeNext, ReadingStays, Typed DEF NewDay
<1>2. ASSUME NEW s \in Stays, MoveIn(s)
      PROVE  TypeOK'
  <2>0. PICK m \in Periods :
            /\ stay' = [stay EXCEPT ![s] =
                          [@ EXCEPT !.status = "staying", !.joined = m, !.since = today]]
            /\ bill' = [bill EXCEPT ![s] =
                          [@ EXCEPT ![DEPOSIT] = NextNumber(DEPOSIT), ![m] = NextNumber(m)]]
    BY <1>2 DEF MoveIn
  <2> DEFINE a == NextNumber(DEPOSIT)  b == NextNumber(m)
             row == [stay[s] EXCEPT !.status = "staying", !.joined = m, !.since = today]
             bills == [bill[s] EXCEPT ![DEPOSIT] = a, ![m] = b]
  <2>1. a \in Nat /\ b \in Nat
    BY NumberIsNat
  <2>2. row \in StayRows
    <3>1. today \in 0..MaxDay /\ m \in Series /\ stay[s] \in StayRows
      BY Days, SeriesFacts, Typed
    <3> QED  BY <3>1 DEF StayRows, Statuses
  <2>3. bills \in [Series -> Nat]
    <3> HIDE DEF a, b
    <3> QED  BY <2>1, Typed
  <2>4. stay' = [stay EXCEPT ![s] = row] /\ bill' = [bill EXCEPT ![s] = bills]
    BY <2>0
  <2>5. stay' \in [Stays -> StayRows] /\ bill' \in [Stays -> [Series -> Nat]]
    <3> HIDE DEF row, bills
    <3> QED  BY <2>2, <2>3, <2>4, Typed
  <2>6. UNCHANGED <<today, up, elec, jobRun, run, share, reading, mishaps, presses, calls>>
    BY <1>2 DEF MoveIn
  <2>7. AllRunsOK'
    BY <1>0, <2>6 DEF AllRunsOK, RunOK
  <2> QED  BY <2>5, <2>6, <2>7, TypeNext, ReadingStays, Typed
<1>3. ASSUME NEW s \in Stays, UpdateResident(s) \/ LeaveNow(s)
      PROVE  TypeOK'
  <2>1. PICK row \in StayRows : stay' = [stay EXCEPT ![s] = row]
    BY <1>3, RowWritten
  <2>2. calls' \in Nat
    <3>1. calls' = calls + 1
      BY <1>3 DEF UpdateResident, LeaveNow, Asks
    <3> QED  BY <3>1, Typed
  <2>4. stay' \in [Stays -> StayRows]
    BY <2>1, Typed
  <2>3. UNCHANGED <<today, up, bill, elec, jobRun, run, share, reading, mishaps, presses>>
    BY <1>3 DEF UpdateResident, LeaveNow
  <2> QED  BY <1>0, <2>2, <2>3, <2>4, TypeNext, ReadingStays, Typed DEF AllRunsOK, RunOK
<1>5. ASSUME NEW s \in Stays, Erase(s)
      PROVE  TypeOK'
  <2> DEFINE row == [stay[s] EXCEPT !.status = "erased"]  bills == [k \in Series |-> 0]
  <2>1. row \in StayRows /\ bills \in [Series -> Nat]
    BY Typed DEF StayRows, Statuses
  <2>2. /\ stay' = [stay EXCEPT ![s] = row] /\ bill' = [bill EXCEPT ![s] = bills]
        /\ elec' = [elec EXCEPT ![s] = bills]
    BY <1>5 DEF Erase
  <2>3. /\ stay' \in [Stays -> StayRows] /\ bill' \in [Stays -> [Series -> Nat]]
        /\ elec' \in [Stays -> [Series -> Nat]]
    <3> HIDE DEF row, bills
    <3> QED  BY <2>1, <2>2, Typed
  <2>4. share' \in [Periods -> SUBSET Stays]
    BY <1>5, Typed DEF Erase
  <2> QED  BY <1>0, <1>5, <2>3, <2>4, TypeNext, ReadingStays, Typed DEF Erase, AllRunsOK, RunOK
<1>6. ASSUME NEW p \in Periods, Generate(p)
      PROVE  TypeOK'
  <2>1. AllRunsOK'
    <3>1. RunOK(Owner, Started("list", p))
      BY StartedFits
    <3> QED  BY <1>0, <1>6, <3>1, OwnerIsNoJob, OneRun DEF Generate
  <2> QED  BY <1>6, <2>1, TypeNext, ReadingStays, Typed DEF Generate
<1>7. ASSUME NEW p \in Periods, RecordReading(p)
      PROVE  TypeOK'
  <2>1. PICK room \in SUBSET Stays : share' = [share EXCEPT ![p] = @ \cup room]
    BY <1>7 DEF RecordReading
  <2>2. share' \in [Periods -> SUBSET Stays]
    BY <2>1, Typed
  <2>4. calls' \in Nat
    <3>1. calls' = calls + 1
      BY <1>7 DEF RecordReading, Asks
    <3> QED  BY <3>1, Typed
  <2>3. ReadingOK'
    BY <1>7, SeriesFacts DEF RecordReading, NoReading, Readings, ReadingOK
  <2> QED  BY <1>0, <1>7, <2>2, <2>3, <2>4, TypeNext, Typed DEF RecordReading, AllRunsOK, RunOK
<1>8. CASE CountShares
  <2>1. reading.period \in Periods /\ reading.period \in Series
    BY <1>8, SeriesFacts, Typed DEF ReadingOK, CountShares
  <2>2. PICK n \in Nat, S \in SUBSET Stays :
            reading' = [at |-> "attach", period |-> reading.period, number |-> n, stays |-> S]
    <3>1. {s \in share[reading.period] : elec[s][reading.period] = 0} \in SUBSET Stays
      BY <2>1, Typed
    <3> QED  BY <1>8, <3>1, NumberIsNat DEF CountShares
  <2>3. ReadingOK'
    BY <2>1, <2>2 DEF ReadingOK, Readings
  <2> QED  BY <1>0, <1>8, <2>3, TypeNext, Typed DEF CountShares, AllRunsOK, RunOK
<1>9. CASE AttachShares
  <2>1. elec' \in [Stays -> [Series -> Nat]]
    <3>1. CASE elec' = elec
      BY <3>1, Typed
    <3>2. CASE elec' # elec
      BY <1>9, <3>2, SharesNumbered
    <3> QED  BY <3>1, <3>2
  <2>2. ReadingOK'
    BY <1>9, NoReadingOK DEF AttachShares, ReadingOK
  <2> QED  BY <1>0, <1>9, <2>1, <2>2, TypeNext, Typed DEF AttachShares, AllRunsOK, RunOK
<1> QED  BY <1>1, <1>2, <1>3, <1>5, <1>6, <1>7, <1>8, <1>9

(* Rows and runs stay well formed, and the button never claims a JobRun    *)
(* row.                                                                    *)
THEOREM MonthsWellFormed == Spec => []TypeOK
<1>1. TypeOK /\ [Next]_vars => TypeOK'
  <2> SUFFICES ASSUME TypeOK, [Next]_vars PROVE TypeOK'
    OBVIOUS
  <2>1. CASE UNCHANGED vars
    BY <2>1 DEF vars, TypeOK
  <2>2. CASE Next
    BY <2>2, TypeWork, TypeMishaps, TypeCalls DEF Next
  <2> QED  BY <2>1, <2>2
<1> QED  BY <1>1, TypeInit, PTL DEF Spec
-----------------------------------------------------------------------------
Works(w, r) == w # Owner /\ r.at \notin {"idle", "claim", "catch-up"}

(* Nobody starts to work, and no JobRun row changes.                       *)
LEMMA JobsUndisturbed ==
    ASSUME JobRunsOnce, jobRun' = jobRun,
           \A w \in Workers : Works(w, run'[w]) =>
               Works(w, run[w]) /\ run'[w].period = run[w].period
    PROVE  JobRunsOnce'
BY DEF JobRunsOnce, Working, Works, Key

(* One worker goes on with what it was doing.                              *)
LEMMA JobGoesOn ==
    ASSUME TypeOK, JobRunsOnce, NEW w \in Workers, NEW r, run' = [run EXCEPT ![w] = r],
           Works(w, r) => Works(w, run[w]) /\ r.period = run[w].period, jobRun' = jobRun
    PROVE  JobRunsOnce'
<1>1. \A v \in Workers : Works(v, run'[v]) =>
               Works(v, run[v]) /\ run'[v].period = run[v].period
  BY Typed
<1> QED  BY <1>1, JobsUndisturbed

(* A worker ends, and says so in its row, which is nobody else's.          *)
LEMMA JobEnds ==
    ASSUME TypeOK, JobRunsOnce, NEW w \in Workers, NEW status, Stop(w),
           w = Owner \/ Working(w),
           jobRun' = IF w = Owner THEN jobRun ELSE [jobRun EXCEPT ![Key(w)] = status]
    PROVE  JobRunsOnce'
<1>1. ~Works(w, run'[w]) /\ \A v \in Workers : v # w => run'[v] = run[v]
  BY Typed DEF Stop, NoRun, Works
<1>2. CASE w = Owner
  BY <1>1, <1>2, JobsUndisturbed DEF Works
<1>3. CASE w # Owner
  <2>1. \A v \in Workers : (v # w /\ Working(v)) => Key(v) # Key(w)
    BY <1>3 DEF JobRunsOnce
  <2>2. \A v \in Workers : (v # w /\ Working(v)) => jobRun'[Key(v)] = "RUNNING"
    BY <1>3, <2>1, Typed, KeyOK DEF JobRunsOnce, Working
  <2> QED  BY <1>1, <2>2 DEF JobRunsOnce, Working, Works, Key
<1> QED  BY <1>2, <1>3

LEMMA OnceInit == Init => JobRunsOnce
BY DEF Init, JobRunsOnce, Working, NoRun

LEMMA OnceWork ==
    ASSUME TypeOK, JobRunsOnce, NEW w \in Workers, Work(w)
    PROVE  JobRunsOnce'
<1> DEFINE r == run[w]
<1>0. r \in Runs /\ RunOK(w, r)
  BY RunsOK DEF AllRunsOK
<1>1. CASE Claim(w)
  <2>1. w # Owner /\ Key(w) \in Jobs \X Periods
    BY <1>0, <1>1, KeyOK DEF Claim, RunOK, Billing
  <2>2. CASE jobRun[Key(w)] # "none"
    BY <1>1, <2>2, JobGoesOn DEF Claim, Stop, Works, NoRun
  <2>3. CASE jobRun[Key(w)] = "none"
    <3>1. \A v \in Workers : Working(v) => Key(v) # Key(w) /\ v # w
      BY <1>1, <2>3 DEF JobRunsOnce, Claim, Working
    <3>2. /\ jobRun' = [jobRun EXCEPT ![Key(w)] = "RUNNING"]
          /\ \A v \in Workers : v # w => run'[v] = run[v]
          /\ run'[w].period = run[w].period
      BY <1>0, <1>1, <2>3, Typed DEF Claim, Goto, Runs
    <3>3. Key(w)' = Key(w) /\ jobRun'[Key(w)] = "RUNNING"
      BY <2>1, <3>2, Typed DEF Key
    <3>4. ASSUME NEW v \in Workers, v # w, Works(v, run'[v])
          PROVE  jobRun'[<<v[2], run'[v].period>>] = "RUNNING"
                 /\ <<v[2], run'[v].period>> # Key(w)
      <4>1. Working(v) /\ <<v[2], run'[v].period>> = Key(v) /\ Key(v) \in Jobs \X Periods
        BY <3>2, <3>4, KeyOK DEF Works, Working, Key
      <4> QED  BY <3>1, <3>2, <4>1, Typed DEF JobRunsOnce
    <3> QED  BY <3>1, <3>2, <3>3, <3>4 DEF JobRunsOnce, Working, Works, Key
  <2> QED  BY <2>2, <2>3
<1>2. CASE ListNotices(w)
  <2>1. PICK E : run' = [run EXCEPT ![w] = [r EXCEPT !.at = "exits", !.exits = E]]
    BY <1>2 DEF ListNotices
  <2> QED  BY <1>0, <1>2, <2>1, JobGoesOn DEF ListNotices, Works, Runs
<1>3. CASE ExitNext(w)
  <2>1. w # Owner
    BY <1>0, <1>3 DEF RunOK, ExitNext, Billing
  <2>2. CASE Failed(w)
    BY <1>3, <2>1, <2>2, JobEnds DEF Failed, ExitNext, Working
  <2>3. CASE ~Failed(w)
    <3>1. PICK next \in {[r EXCEPT !.at = "list"]} \cup {[r EXCEPT !.exits = r.exits \ {e}] : e \in r.exits} :
              run' = [run EXCEPT ![w] = next] /\ jobRun' = jobRun
      BY <1>3, <2>3 DEF ExitNext, Goto
    <3>2. next.period = r.period
      BY <1>0, <3>1 DEF Runs
    <3> QED  BY <1>3, <2>1, <3>1, <3>2, JobGoesOn DEF ExitNext, Works
  <2> QED  BY <2>2, <2>3
<1>4. CASE ListStays(w)
  <2>1. PICK Q, M : run' = [run EXCEPT ![w] = [r EXCEPT !.at = "next", !.meters = M, !.queue = Q]]
    BY <1>4 DEF ListStays
  <2> QED  BY <1>0, <1>4, <2>1, JobGoesOn DEF ListStays, Works, Runs
<1>5. CASE NumberBill(w)
  <2>1. PICK s \in r.queue \cup r.meters : Taking(w, s)
    BY <1>5, BillTaken
  <2>2. PICK next \in {Inserting(w, s), Metered(w, s), Skipped(w, s)} :
            run' = [run EXCEPT ![w] = next]
    BY <2>1 DEF Taking
  <2>3. next.period = r.period /\ jobRun' = jobRun
    BY <1>5, TakenOK DEF NumberBill
  <2> QED  BY <1>5, <2>2, <2>3, JobGoesOn DEF NumberBill, Works
<1>6. CASE InsertBill(w)
  <2>1. CASE Failed(w)
    BY <1>6, <2>1, JobEnds DEF Failed, InsertBill, Working
  <2>2. CASE ~Failed(w)
    <3>1. PICK next \in {[r EXCEPT !.at = "shares", !.rent = r.number], Done(r)} :
              run' = [run EXCEPT ![w] = next] /\ jobRun' = jobRun
      BY <1>6, <2>2 DEF InsertBill
    <3>2. next.period = r.period
      BY <1>0, <1>6, <3>1, DoneOK DEF Runs, InsertBill, Billing
    <3> QED  BY <1>6, <3>1, <3>2, JobGoesOn DEF InsertBill, Works
  <2> QED  BY <2>1, <2>2
<1>7. CASE Finish(w)
  BY <1>7, JobEnds DEF Finish, Working
<1>8. CASE NumberShare(w)
  <2>1. \/ run' = [run EXCEPT ![w] = Done(r)]
        \/ run' = [run EXCEPT ![w] = [r EXCEPT !.at = "attach",
                                              !.number = NextNumber(r.period) + Own(w)]]
    BY <1>8 DEF NumberShare
  <2> DEFINE n == NextNumber(r.period) + Own(w)
             next == [r EXCEPT !.at = "attach", !.number = n]
  <2>2. next.period = r.period /\ Done(r).period = r.period
    <3> HIDE DEF n
    <3> QED  BY <1>0, <1>8, DoneOK DEF Runs, NumberShare, Billing
  <2>3. run' = [run EXCEPT ![w] = Done(r)] \/ run' = [run EXCEPT ![w] = next]
    BY <2>1
  <2>4. r.at = "shares" /\ jobRun' = jobRun
    BY <1>8 DEF NumberShare
  <2> HIDE DEF next
  <2> QED  BY <2>2, <2>3, <2>4, JobGoesOn DEF Works
<1>9. CASE InsertShare(w)
  <2>1. CASE Failed(w)
    BY <1>9, <2>1, JobEnds DEF Failed, InsertShare, Working
  <2>2. CASE ~Failed(w)
    <3>1. run' = [run EXCEPT ![w] = Done(r)] /\ jobRun' = jobRun /\ r.at = "attach"
      BY <1>9, <2>2 DEF InsertShare
    <3>2. Done(r).period = r.period
      BY <1>0, <3>1, DoneOK DEF Billing
    <3> QED  BY <3>1, <3>2, JobGoesOn DEF Works
  <2> QED  BY <2>1, <2>2
<1> QED  BY <1>1, <1>2, <1>3, <1>4, <1>5, <1>6, <1>7, <1>8, <1>9 DEF Work

LEMMA OnceRest ==
    ASSUME TypeOK, JobRunsOnce,
           \/ \E w \in Workers : Fail(w)
           \/ \E p \in Procs : Crash(p) \/ Restart(p)
           \/ NewDay
           \/ \E s \in Stays : MoveIn(s) \/ UpdateResident(s) \/ LeaveNow(s) \/ Erase(s)
           \/ \E p \in Periods : Generate(p) \/ RecordReading(p)
           \/ CountShares \/ AttachShares
    PROVE  JobRunsOnce'
<1>1. ASSUME NEW w \in Workers, Fail(w)
      PROVE  JobRunsOnce'
  <2>1. CASE run[w].at = "catch-up"
    BY <1>1, <2>1, JobGoesOn DEF Fail, Stop, Works, NoRun
  <2>2. CASE run[w].at # "catch-up"
    BY <1>1, <2>2, JobEnds DEF Fail, Failed, Working
  <2> QED  BY <2>1, <2>2
<1>2. ASSUME NEW p \in Procs, Crash(p)
      PROVE  JobRunsOnce'
  BY <1>2, JobsUndisturbed DEF Crash, Works, NoRun
<1>3. ASSUME NEW p \in Procs, Restart(p)
      PROVE  JobRunsOnce'
  <2>1. \A w \in Workers : run'[w] = run[w] \/ run'[w].at = "catch-up"
    BY <1>3 DEF Restart, Started, NoRun
  <2> QED  BY <1>3, <2>1, JobsUndisturbed DEF Restart, Works
<1>4. CASE NewDay
  <2>1. \A w \in Workers : run'[w] = run[w] \/ run'[w].at = "claim"
    BY <1>4 DEF NewDay, Started, NoRun
  <2> QED  BY <1>4, <2>1, JobsUndisturbed DEF NewDay, Works
<1>5. CASE UNCHANGED <<run, jobRun>>
  BY <1>5, JobsUndisturbed
<1>6. ASSUME NEW p \in Periods, Generate(p)
      PROVE  JobRunsOnce'
  BY <1>6, OwnerIsNoJob, JobGoesOn DEF Generate, Works
<1>7. ASSUME NEW s \in Stays, MoveIn(s) \/ UpdateResident(s) \/ LeaveNow(s) \/ Erase(s)
      PROVE  UNCHANGED <<run, jobRun>>
  BY <1>7 DEF MoveIn, UpdateResident, LeaveNow, Erase
<1>8. ASSUME (\E p \in Periods : RecordReading(p)) \/ CountShares \/ AttachShares
      PROVE  UNCHANGED <<run, jobRun>>
  BY <1>8 DEF RecordReading, CountShares, AttachShares
<1> QED  BY <1>1, <1>2, <1>3, <1>4, <1>5, <1>6, <1>7, <1>8

(* "Runs a job at most once per (name, period)": of all processes, one     *)
(* works on a month, under a row that says so.                             *)
THEOREM JobsRunOnce == Spec => []JobRunsOnce
<1>1. TypeOK /\ JobRunsOnce /\ [Next]_vars => JobRunsOnce'
  <2> SUFFICES ASSUME TypeOK, JobRunsOnce, [Next]_vars PROVE JobRunsOnce'
    OBVIOUS
  <2>1. CASE UNCHANGED vars
    BY <2>1, JobsUndisturbed DEF vars
  <2>2. CASE Next
    BY <2>2, OnceWork, OnceRest DEF Next
  <2> QED  BY <2>1, <2>2
<1> QED  BY <1>1, OnceInit, MonthsWellFormed, PTL DEF Spec
-----------------------------------------------------------------------------
(* What a step of a run leaves to do, and does to the bills: nothing; a    *)
(* stay is taken up; its rent is held back, inserted, committed; its share *)
(* is numbered, inserted.                                                  *)
Holding(w) == [run[w] EXCEPT !.at = "shares", !.rent = run[w].number]
Attaching(w) == [run[w] EXCEPT !.at = "attach", !.number = NextNumber(run[w].period) + Own(w)]
Known(w, r) ==
    \A s \in Stays : (s \in r.queue \cup r.meters \/ s = r.stay) =>
        s \in run[w].queue \cup run[w].meters \/ s = run[w].stay \/ stay[s].status # "none"
Goes(w, r) == run' = [run EXCEPT ![w] = r]
Free(w) ==
    /\ run[w].at = "insert" /\ bill[run[w].stay][run[w].period] = 0
    /\ ~Held(run[w].stay, run[w].period, run[w].number)

Aside(w) ==
    UNCHANGED <<bill, elec>> /\ \E r : Goes(w, r) /\ r.at \notin Billing /\ Known(w, r)
Takes(w) ==
    /\ UNCHANGED <<bill, elec>> /\ run[w].at = "next"
    /\ \E s \in run[w].queue \cup run[w].meters :
          Goes(w, Inserting(w, s)) \/ Goes(w, Metered(w, s))
HoldsBill(w) == UNCHANGED <<bill, elec>> /\ Free(w) /\ Goes(w, Holding(w))
PutsBill(w) ==
    /\ Free(w) /\ Goes(w, Done(run[w])) /\ elec' = elec
    /\ bill' = Bills(run[w].stay, run[w].period, run[w].number)
Commits(w) ==
    run[w].at = "shares" /\ Goes(w, Done(run[w])) /\ elec' = elec /\ bill' = Committed(w)
Attaches(w) == UNCHANGED <<bill, elec>> /\ run[w].at = "shares" /\ Goes(w, Attaching(w))
PutsShare(w) ==
    /\ run[w].at = "attach" /\ Goes(w, Done(run[w])) /\ bill' = Committed(w)
    /\ elec[run[w].stay][run[w].period] = 0
    /\ elec' = [elec EXCEPT ![run[w].stay] = [@ EXCEPT ![run[w].period] = run[w].number]]

LEMMA Stopped == \A w : NoRun.at \notin Billing /\ Known(w, NoRun)
BY Constants DEF NoRun, Billing, Known

LEMMA HoldingOK ==
    ASSUME TypeOK, NEW w \in Workers
    PROVE  /\ Holding(w).at = "shares" /\ Holding(w).rent = run[w].number
           /\ Holding(w).stay = run[w].stay /\ Holding(w).period = run[w].period
           /\ Holding(w).queue = run[w].queue /\ Holding(w).meters = run[w].meters
BY Typed DEF Holding, Runs

LEMMA AttachingOK ==
    ASSUME TypeOK, NEW w \in Workers
    PROVE  /\ Attaching(w).at = "attach" /\ Attaching(w).rent = run[w].rent
           /\ Attaching(w).number = NextNumber(run[w].period) + Own(w)
           /\ Attaching(w).stay = run[w].stay /\ Attaching(w).period = run[w].period
           /\ Attaching(w).queue = run[w].queue /\ Attaching(w).meters = run[w].meters
<1> DEFINE n == NextNumber(run[w].period) + Own(w)
<1>1. Attaching(w) = [run[w] EXCEPT !.at = "attach", !.number = n]
  BY DEF Attaching
<1> HIDE DEF n
<1>2. /\ Attaching(w).at = "attach" /\ Attaching(w).rent = run[w].rent
      /\ Attaching(w).number = n
      /\ Attaching(w).stay = run[w].stay /\ Attaching(w).period = run[w].period
      /\ Attaching(w).queue = run[w].queue /\ Attaching(w).meters = run[w].meters
  BY <1>1, Typed DEF Runs
<1> QED  BY <1>2 DEF n

LEMMA WorkKinds ==
    ASSUME TypeOK, NEW w \in Workers, Work(w)
    PROVE  \/ Aside(w) \/ Takes(w) \/ HoldsBill(w) \/ PutsBill(w)
           \/ Commits(w) \/ Attaches(w) \/ PutsShare(w)
<1> DEFINE r == run[w]
<1>0. r \in Runs /\ RunOK(w, r)
  BY RunsOK DEF AllRunsOK
<1>1. CASE UNCHANGED <<bill, elec>> /\ Stop(w)
  BY <1>1, Stopped DEF Stop, Aside, Goes
<1>2. CASE Claim(w)
  <2>1. CASE ~Stop(w)
    <3>1. PICK label \in {"notices", "list"} : run' = [run EXCEPT ![w] = [r EXCEPT !.at = label]]
      BY <1>2, <2>1 DEF Claim, Goto
    <3>2. Known(w, [r EXCEPT !.at = label]) /\ [r EXCEPT !.at = label].at \notin Billing
      BY <1>0 DEF Runs, Known, Billing
    <3> QED  BY <1>2, <3>1, <3>2 DEF Claim, Aside, Goes
  <2> QED  BY <1>1, <1>2, <2>1 DEF Claim
<1>3. CASE ListNotices(w)
  <2>1. PICK E : run' = [run EXCEPT ![w] = [r EXCEPT !.at = "exits", !.exits = E]]
    BY <1>3 DEF ListNotices
  <2> DEFINE next == [r EXCEPT !.at = "exits", !.exits = E]
  <2>2. Known(w, next) /\ next.at \notin Billing
    BY <1>0 DEF Runs, Known, Billing
  <2> QED  BY <1>3, <2>1, <2>2 DEF ListNotices, Aside, Goes
<1>4. CASE ExitNext(w)
  <2>1. CASE ~Failed(w)
    <3>1. PICK next \in {[r EXCEPT !.at = "list"]} \cup {[r EXCEPT !.exits = r.exits \ {e}] : e \in r.exits} :
              run' = [run EXCEPT ![w] = next]
      BY <1>4, <2>1 DEF ExitNext, Goto
    <3>2. Known(w, next) /\ next.at \notin Billing
      BY <1>0, <1>4, <3>1 DEF Runs, Known, Billing, ExitNext
    <3> QED  BY <1>4, <3>1, <3>2 DEF ExitNext, Aside, Goes
  <2> QED  BY <1>1, <1>4, <2>1 DEF ExitNext, Failed
<1>5. CASE ListStays(w)
  <2> DEFINE L == {s \in Stays : Lives(s) /\ ((w # Owner /\ w[2] = "month-end-billing")
                                                => staysIntoPeriod(s, r.period))}
             M == L \cap share[r.period]
             Q == {s \in L : Occupied(s, r.period)}
             next == [r EXCEPT !.at = "next", !.meters = M, !.queue = Q]
  <2>1. run' = [run EXCEPT ![w] = next]
    BY <1>5 DEF ListStays
  <2>2. \A s \in Q \cup M : stay[s].status # "none"
    BY DEF Lives
  <2>3. next.queue = Q /\ next.meters = M /\ next.stay = r.stay /\ next.at \notin Billing
    <3> HIDE DEF Q, M
    <3> QED  BY <1>0 DEF Runs, Billing
  <2> HIDE DEF next, Q, M
  <2>4. Known(w, next)
    BY <2>2, <2>3 DEF Known
  <2> QED  BY <1>5, <2>1, <2>3, <2>4 DEF ListStays, Aside, Goes
<1>6. CASE NumberBill(w)
  <2>1. PICK s \in r.queue \cup r.meters : Taking(w, s)
    BY <1>6, BillTaken
  <2>2. r.at = "next" /\ UNCHANGED <<bill, elec>>
    BY <1>6 DEF NumberBill
  <2>3. CASE run' = [run EXCEPT ![w] = Skipped(w, s)]
    <3>1. /\ Skipped(w, s).at = "next" /\ Skipped(w, s).queue = r.queue \ {s}
          /\ Skipped(w, s).meters = r.meters /\ Skipped(w, s).stay = r.stay
      BY <2>2, TakenOK
    <3>2. Known(w, Skipped(w, s)) /\ Skipped(w, s).at \notin Billing
      BY <3>1 DEF Known, Billing
    <3> QED  BY <2>2, <2>3, <3>2 DEF Aside, Goes
  <2> QED  BY <2>1, <2>2, <2>3 DEF Taking, Takes, Goes
<1>7. CASE InsertBill(w)
  <2>1. CASE ~Failed(w)
    BY <1>7, <2>1 DEF InsertBill, Free, HoldsBill, PutsBill, Goes, Holding
  <2> QED  BY <1>1, <1>7, <2>1 DEF InsertBill, Failed, Free, HoldsBill, PutsBill, Goes, Holding
<1>8. CASE NumberShare(w)
  BY <1>8 DEF NumberShare, Commits, Attaches, Goes, Attaching
<1>9. CASE InsertShare(w)
  <2>1. CASE Failed(w) /\ UNCHANGED <<bill, elec>>
    BY <1>1, <2>1 DEF Failed
  <2>2. CASE ~(Failed(w) /\ UNCHANGED <<bill, elec>>)
    BY <1>9, <2>2 DEF InsertShare, PutsShare, Goes
  <2> QED  BY <2>1, <2>2
<1>10. CASE Finish(w)
  BY <1>1, <1>10 DEF Finish
<1> QED  BY <1>2, <1>3, <1>4, <1>5, <1>6, <1>7, <1>8, <1>9, <1>10 DEF Work

(* Erasing is for good, and nobody moves out of having moved in.           *)
NobodyNew == \A s \in Stays : stay'[s].status = "none" => stay[s].status = "none"
NobodyBack == NobodyErased' => NobodyErased

LEMMA OneRow ==
    ASSUME TypeOK, NEW s \in Stays, NEW row, stay' = [stay EXCEPT ![s] = row],
           stay[s].status # "erased", row.status # "none"
    PROVE  NobodyNew /\ NobodyBack
BY Typed DEF NobodyErased, NobodyNew, NobodyBack

LEMMA SameRows == UNCHANGED stay => NobodyNew /\ NobodyBack
BY DEF NobodyErased, NobodyNew, NobodyBack

LEMMA WorkKeeps ==
    ASSUME TypeOK, NEW w \in Workers, Work(w)
    PROVE  UNCHANGED reading /\ NobodyNew /\ NobodyBack
<1>1. CASE ExitNext(w)
  <2>1. CASE stay' # stay
    <3>1. PICK e \in run[w].exits :
              /\ stay[e[1]].status # "erased"
              /\ stay' = [stay EXCEPT ![e[1]] = [@ EXCEPT !.status = "left", !.until = e[2]]]
      BY <1>1, <2>1 DEF ExitNext
    <3> DEFINE row == [stay[e[1]] EXCEPT !.status = "left", !.until = e[2]]
    <3>2. e[1] \in Stays
      BY ExitsOK
    <3>3. row.status = "left" /\ stay' = [stay EXCEPT ![e[1]] = row]
      <4>1. stay[e[1]] \in StayRows
        BY <3>2, Typed
      <4> QED  BY <3>1, <4>1 DEF StayRows
    <3> HIDE DEF row
    <3> QED  BY <1>1, <3>1, <3>2, <3>3, OneRow DEF ExitNext
  <2> QED  BY <1>1, <2>1, SameRows DEF ExitNext
<1>2. CASE Claim(w) \/ ListNotices(w) \/ ListStays(w) \/ NumberBill(w)
  BY <1>2, SameRows DEF Claim, ListNotices, ListStays, NumberBill
<1>3. CASE InsertBill(w) \/ NumberShare(w) \/ InsertShare(w) \/ Finish(w)
  BY <1>3, SameRows DEF InsertBill, NumberShare, InsertShare, Finish
<1> QED  BY <1>1, <1>2, <1>3 DEF Work

(* What goes on without a bill: runs stop or start.                        *)
Fresh(r) == r.at \notin Billing /\ r.queue = {} /\ r.meters = {} /\ r.stay = None
Apart ==
    /\ UNCHANGED <<bill, elec>> /\ NobodyNew /\ NobodyBack
    /\ \A w \in Workers : run'[w] = run[w] \/ Fresh(run'[w])
    /\ reading' = reading \/ reading'.at # "attach"

LEMMA FreshRuns ==
    /\ Fresh(NoRun)
    /\ \A p : \A label \in {"claim", "catch-up", "list"} : Fresh(Started(label, p))
BY DEF Fresh, NoRun, Started, Billing

LEMMA ApartKinds ==
    ASSUME TypeOK,
           \/ \E w \in Workers : Fail(w)
           \/ \E p \in Procs : Crash(p) \/ Restart(p)
           \/ NewDay
           \/ \E s \in Stays : UpdateResident(s) \/ LeaveNow(s)
           \/ \E p \in Periods : Generate(p) \/ RecordReading(p)
           \/ UNCHANGED vars
    PROVE  Apart
<1> USE DEF Apart
<1>1. ASSUME NEW w \in Workers, Fail(w) PROVE Apart
  BY <1>1, FreshRuns, SameRows, Typed DEF Fail, Failed, Stop
<1>2. ASSUME NEW p \in Procs, Crash(p) PROVE Apart
  BY <1>2, FreshRuns, SameRows, Typed DEF Crash
<1>3. ASSUME NEW p \in Procs, Restart(p) PROVE Apart
  <2>1. \A w \in Workers : run'[w] = run[w] \/ \E q : run'[w] = Started("catch-up", q)
    BY <1>3 DEF Restart
  <2> QED  BY <1>3, <2>1, FreshRuns, SameRows DEF Restart
<1>4. CASE NewDay
  <2>1. \A w \in Workers : run'[w] = run[w] \/ \E q : run'[w] = Started("claim", q)
    BY <1>4 DEF NewDay
  <2> QED  BY <1>4, <2>1, FreshRuns, SameRows DEF NewDay
<1>5. ASSUME NEW s \in Stays, UpdateResident(s) \/ LeaveNow(s) PROVE Apart
  <2>1. PICK row \in StayRows : stay' = [stay EXCEPT ![s] = row] /\ row.status \in {"staying", "left"}
    BY <1>5, RowWritten
  <2>2. stay[s].status # "erased"
    BY <1>5 DEF UpdateResident, LeaveNow, Lives
  <2> QED  BY <1>5, <2>1, <2>2, OneRow DEF UpdateResident, LeaveNow
<1>6. ASSUME NEW p \in Periods, Generate(p) PROVE Apart
  BY <1>6, FreshRuns, SameRows, Typed DEF Generate
<1>7. ASSUME NEW p \in Periods, RecordReading(p) PROVE Apart
  <2>1. reading'.at = "count"
    BY <1>7 DEF RecordReading, NoReading
  <2> QED  BY <1>7, <2>1, SameRows DEF RecordReading
<1>8. CASE UNCHANGED vars
  BY <1>8, SameRows DEF vars
<1> QED  BY <1>1, <1>2, <1>3, <1>4, <1>5, <1>6, <1>7, <1>8

LEMMA MovedIn ==
    ASSUME TypeOK, NEW s \in Stays, MoveIn(s)
    PROVE  /\ stay[s].status = "none"
           /\ stay'[s].status = "staying" /\ stay'[s].since = today
           /\ UNCHANGED <<today, elec, jobRun, run, share, reading, mishaps>>
           /\ \A t \in Stays \ {s} : stay'[t] = stay[t] /\ bill'[t] = bill[t]
           /\ \E m \in Periods :
                  /\ ~Held(s, m, NextNumber(m))
                  /\ \A k \in Series : bill'[s][k] = IF k \in {DEPOSIT, m} THEN NextNumber(k)
                                                     ELSE bill[s][k]
<1>1. PICK m \in Periods :
          /\ ~Held(s, m, NextNumber(m))
          /\ stay' = [stay EXCEPT ![s] =
                         [@ EXCEPT !.status = "staying", !.joined = m, !.since = today]]
          /\ bill' = [bill EXCEPT ![s] =
                         [@ EXCEPT ![DEPOSIT] = NextNumber(DEPOSIT), ![m] = NextNumber(m)]]
  BY DEF MoveIn
<1> DEFINE row == [stay[s] EXCEPT !.status = "staying", !.joined = m, !.since = today]
           a == NextNumber(DEPOSIT)  b == NextNumber(m)
           bills == [bill[s] EXCEPT ![DEPOSIT] = a, ![m] = b]
<1>2. row.status = "staying" /\ row.since = today
  BY Typed DEF StayRows
<1>3. \A k \in Series : bills[k] = IF k \in {DEPOSIT, m} THEN NextNumber(k) ELSE bill[s][k]
  <2>1. \A k \in Series : bills[k] = IF k = m THEN b ELSE IF k = DEPOSIT THEN a ELSE bill[s][k]
    <3> HIDE DEF a, b
    <3> QED  BY SeriesFacts, Typed
  <2> QED  BY <2>1
<1>4. stay' = [stay EXCEPT ![s] = row] /\ bill' = [bill EXCEPT ![s] = bills]
  BY <1>1
<1> HIDE DEF row, bills
<1>5. /\ stay'[s] = row /\ bill'[s] = bills
      /\ \A t \in Stays \ {s} : stay'[t] = stay[t] /\ bill'[t] = bill[t]
  BY <1>4, Typed
<1>6. stay[s].status = "none" /\ UNCHANGED <<today, elec, jobRun, run, share, reading, mishaps>>
  BY DEF MoveIn
<1> QED  BY <1>1, <1>2, <1>3, <1>5, <1>6

LEMMA ErasedRow ==
    ASSUME TypeOK, NEW s \in Stays, Erase(s)
    PROVE  /\ stay'[s].status = "erased"
           /\ UNCHANGED <<today, jobRun, run, reading, mishaps>>
           /\ \A t \in Stays \ {s} : stay'[t] = stay[t] /\ bill'[t] = bill[t]
           /\ \A k \in Series : bill'[s][k] = 0
<1>1. stay'[s].status = "erased"
  BY Typed DEF Erase, StayRows
<1>2. /\ \A t \in Stays \ {s} : stay'[t] = stay[t] /\ bill'[t] = bill[t]
      /\ \A k \in Series : bill'[s][k] = 0
  BY Typed DEF Erase
<1>3. UNCHANGED <<today, jobRun, run, reading, mishaps>>
  BY DEF Erase
<1> QED  BY <1>1, <1>2, <1>3
-----------------------------------------------------------------------------
(* Nobody is billed, or known to a run, before moving in.                  *)
NewcomersInv ==
    \A s \in Stays : stay[s].status = "none" =>
        /\ \A k \in Series : bill[s][k] = 0
        /\ \A w \in Workers : s \notin run[w].queue \cup run[w].meters /\ s # run[w].stay

LEMMA NewcomersGoOn ==
    ASSUME TypeOK, NewcomersInv, NEW w \in Workers, NEW r, Goes(w, r), NobodyNew, Known(w, r),
           \A s \in Stays : bill'[s] = bill[s] \/ stay[s].status # "none"
    PROVE  NewcomersInv'
<1>1. run'[w] = r /\ \A v \in Workers : v # w => run'[v] = run[v]
  BY Typed DEF Goes
<1> QED  BY <1>1 DEF NewcomersInv, NobodyNew, Known

LEMMA NewcomersWork ==
    ASSUME TypeOK, NewcomersInv, NEW w \in Workers, Work(w)
    PROVE  NewcomersInv'
<1> DEFINE r == run[w]
<1>0. NobodyNew /\ RunOK(w, r)
  BY WorkKeeps, RunsOK DEF AllRunsOK
<1>1. CASE Aside(w)
  BY <1>0, <1>1, NewcomersGoOn DEF Aside
<1>2. CASE Takes(w)
  <2>1. PICK s \in r.queue \cup r.meters :
            Goes(w, Inserting(w, s)) \/ Goes(w, Metered(w, s))
    BY <1>2 DEF Takes
  <2>2. PICK next \in {Inserting(w, s), Metered(w, s)} : Goes(w, next)
    BY <2>1
  <2>3. next.queue = r.queue \ {s} /\ next.meters = r.meters /\ next.stay = s
    BY <1>2, TakenOK DEF Takes
  <2> QED  BY <1>0, <1>2, <2>2, <2>3, NewcomersGoOn DEF Takes, Known
<1>3. CASE HoldsBill(w)
  <2>1. Known(w, Holding(w))
    BY HoldingOK DEF Known
  <2> QED  BY <1>0, <1>3, <2>1, NewcomersGoOn DEF HoldsBill
<1>4. CASE Attaches(w)
  <2>1. Known(w, Attaching(w))
    BY AttachingOK DEF Known
  <2> QED  BY <1>0, <1>4, <2>1, NewcomersGoOn DEF Attaches
<1>5. CASE PutsBill(w) \/ Commits(w) \/ PutsShare(w)
  <2>1. r.at \in Billing /\ Goes(w, Done(r))
    BY <1>5 DEF PutsBill, Commits, PutsShare, Free, Billing
  <2>2. Known(w, Done(r))
    BY <1>0, <2>1, DoneOK, Constants DEF Known
  <2>3. r.stay \in Stays /\ r.period \in Series /\ r.number \in Nat
    BY <1>0, <2>1 DEF RunOK, Runs
  <2>4. \A s \in Stays \ {r.stay} : bill'[s] = bill[s]
    <3>1. CASE PutsBill(w)
      BY <2>3, <3>1, BillsOK DEF PutsBill
    <3>2. CASE Commits(w) \/ PutsShare(w)
      BY <2>1, <3>2, CommittedOK DEF Commits, PutsShare
    <3> QED  BY <1>5, <3>1, <3>2
  <2>5. stay[r.stay].status # "none"
    BY <2>3 DEF NewcomersInv
  <2> QED  BY <1>0, <2>1, <2>2, <2>4, <2>5, NewcomersGoOn
<1> QED  BY <1>1, <1>2, <1>3, <1>4, <1>5, WorkKinds

LEMMA NewcomersRest ==
    ASSUME TypeOK, NewcomersInv,
           \/ Apart \/ CountShares \/ AttachShares
           \/ \E s \in Stays : MoveIn(s) \/ Erase(s)
    PROVE  NewcomersInv'
<1>1. CASE Apart
  <2>1. \A s \in Stays, w \in Workers : Fresh(run'[w]) =>
            s \notin run'[w].queue \cup run'[w].meters /\ s # run'[w].stay
    BY Constants DEF Fresh
  <2>2. \A s \in Stays, w \in Workers : stay[s].status = "none" =>
            s \notin run'[w].queue \cup run'[w].meters /\ s # run'[w].stay
    BY <1>1, <2>1 DEF Apart, NewcomersInv
  <2> QED  BY <1>1, <2>2 DEF Apart, NobodyNew, NewcomersInv
<1>2. CASE CountShares \/ AttachShares
  BY <1>2 DEF CountShares, AttachShares, NewcomersInv
<1>3. ASSUME NEW s \in Stays, MoveIn(s) \/ Erase(s)
      PROVE  NewcomersInv'
  <2>1. /\ stay'[s].status # "none" /\ run' = run
        /\ \A t \in Stays \ {s} : stay'[t] = stay[t] /\ bill'[t] = bill[t]
    BY <1>3, MovedIn, ErasedRow
  <2> QED  BY <2>1 DEF NewcomersInv
<1> QED  BY <1>1, <1>2, <1>3

(* A rent bill that is not committed yet is the only one of its stay and   *)
(* month.                                                                  *)
HeldInv ==
    /\ \A w \in Workers : run[w].rent # 0 => bill[run[w].stay][run[w].period] = 0
    /\ \A v, w \in Workers :
          (/\ run[v].rent # 0 /\ run[w].rent # 0
           /\ run[v].stay = run[w].stay /\ run[v].period = run[w].period) => v = w

LEMMA HeldKept ==
    ASSUME HeldInv,
           \A w \in Workers : run'[w].rent # 0 =>
               /\ run[w].rent # 0 /\ run'[w].stay = run[w].stay /\ run'[w].period = run[w].period
               /\ bill'[run[w].stay][run[w].period] = 0
    PROVE  HeldInv'
BY DEF HeldInv

LEMMA HeldWork ==
    ASSUME TypeOK, TypeOK', HeldInv, NEW w \in Workers, Work(w)
    PROVE  HeldInv'
<1> DEFINE r == run[w]
<1>0. RunOK(w, r) /\ \A v \in Workers : RunOK(v, run'[v])
  BY RunsOK DEF AllRunsOK, TypeOK, RunOK
<1>1. CASE Aside(w)
  <2>1. PICK next : Goes(w, next) /\ next.at \notin Billing
    BY <1>1 DEF Aside
  <2>2. run'[w] = next /\ \A v \in Workers \ {w} : run'[v] = run[v]
    BY <2>1, Typed DEF Goes
  <2>3. run'[w].rent = 0
    BY <1>0, <2>1, <2>2 DEF RunOK, Billing
  <2> QED  BY <1>1, <2>2, <2>3, HeldKept DEF Aside, HeldInv
<1>2. CASE Takes(w)
  <2>0. PICK s \in r.queue \cup r.meters :
            Goes(w, Inserting(w, s)) \/ Goes(w, Metered(w, s))
    BY <1>2 DEF Takes
  <2>1. PICK next \in {Inserting(w, s), Metered(w, s)} : Goes(w, next)
    BY <2>0
  <2>2. next.rent = 0
    BY <1>2, <2>1, TakenOK DEF Takes
  <2>3. run'[w] = next /\ \A v \in Workers \ {w} : run'[v] = run[v]
    BY <2>1, Typed DEF Goes
  <2> QED  BY <1>2, <2>2, <2>3, HeldKept DEF Takes, HeldInv
<1>3. CASE HoldsBill(w)
  <2>1. run'[w] = Holding(w) /\ \A v \in Workers \ {w} : run'[v] = run[v]
    BY <1>3, Typed DEF Goes, HoldsBill
  <2>2. run'[w].stay = r.stay /\ run'[w].period = r.period
    BY <2>1, HoldingOK
  <2>3. \A v \in Workers : (run[v].rent # 0 /\ run[v].stay = r.stay) => run[v].period # r.period
    BY <1>3 DEF HoldsBill, Free, Held, Holds
  <2>4. bill' = bill /\ bill[r.stay][r.period] = 0
    BY <1>3 DEF HoldsBill, Free
  <2> QED  BY <2>1, <2>2, <2>3, <2>4 DEF HeldInv
<1>4. CASE Attaches(w)
  <2>1. run'[w] = Attaching(w) /\ \A v \in Workers \ {w} : run'[v] = run[v]
    BY <1>4, Typed DEF Goes, Attaches
  <2>2. run'[w].stay = r.stay /\ run'[w].period = r.period /\ run'[w].rent = r.rent
    BY <2>1, AttachingOK
  <2>3. bill' = bill
    BY <1>4 DEF Attaches
  <2> QED  BY <2>1, <2>2, <2>3, HeldKept DEF HeldInv
<1>5. CASE PutsBill(w) \/ Commits(w) \/ PutsShare(w)
  <2>1. r.at \in Billing /\ Goes(w, Done(r))
    BY <1>5 DEF PutsBill, Commits, PutsShare, Free, Billing
  <2>2. run'[w].rent = 0 /\ \A v \in Workers \ {w} : run'[v] = run[v]
    BY <1>0, <2>1, DoneOK, Typed DEF Goes
  <2>3. r.stay \in Stays /\ r.period \in Series /\ r.number \in Nat
    BY <1>0, <2>1 DEF RunOK, Runs
  <2>4. ASSUME NEW v \in Workers, v # w, run[v].rent # 0
        PROVE  bill'[run[v].stay][run[v].period] = 0
    <3>1. run[v].stay \in Stays /\ run[v].period \in Series
      BY <2>4, RunsOK DEF AllRunsOK, RunOK, Runs, Billing
    <3>2. bill[run[v].stay][run[v].period] = 0
      BY <2>4 DEF HeldInv
    <3>3. CASE PutsBill(w)
      <4>1. run[v].stay # r.stay \/ run[v].period # r.period
        BY <2>4, <3>3 DEF PutsBill, Free, Held, Holds
      <4> QED  BY <2>3, <3>1, <3>2, <3>3, <4>1, BillsOK DEF PutsBill
    <3>4. CASE Commits(w) \/ PutsShare(w)
      <4>1. bill' = Committed(w)
        BY <3>4 DEF Commits, PutsShare
      <4>2. CASE r.rent = 0
        BY <3>2, <4>1, <4>2 DEF Committed
      <4>3. CASE r.rent # 0
        <5>1. run[v].stay # r.stay \/ run[v].period # r.period
          BY <2>4, <4>3 DEF HeldInv
        <5> QED  BY <2>1, <3>1, <3>2, <4>1, <5>1, CommittedOK
      <4> QED  BY <4>2, <4>3
    <3> QED  BY <1>5, <3>3, <3>4
  <2> QED  BY <2>2, <2>4, HeldKept
<1> QED  BY <1>1, <1>2, <1>3, <1>4, <1>5, WorkKinds

LEMMA HeldRest ==
    ASSUME TypeOK, TypeOK', HeldInv,
           \/ Apart \/ CountShares \/ AttachShares
           \/ \E s \in Stays : MoveIn(s) \/ Erase(s)
    PROVE  HeldInv'
<1>0. \A w \in Workers : RunOK(w, run'[w])
  BY DEF TypeOK, RunOK
<1>1. CASE Apart
  <2>1. \A w \in Workers : run'[w] = run[w] \/ run'[w].rent = 0
    BY <1>0, <1>1 DEF Apart, Fresh, RunOK, Billing
  <2> QED  BY <1>1, <2>1, HeldKept DEF Apart, HeldInv
<1>2. CASE CountShares \/ AttachShares
  BY <1>2 DEF CountShares, AttachShares, HeldInv
<1>3. ASSUME NEW s \in Stays, MoveIn(s) \/ Erase(s), NEW w \in Workers, run[w].rent # 0
      PROVE  bill'[run[w].stay][run[w].period] = 0
  <2>1. run[w].stay \in Stays /\ run[w].period \in Periods /\ run[w].period \in Series
    BY <1>3, RunsOK, SeriesFacts DEF AllRunsOK, RunOK, Runs, Billing
  <2>2. bill[run[w].stay][run[w].period] = 0
    BY <1>3 DEF HeldInv
  <2>3. CASE Erase(s)
    BY <2>1, <2>2, <2>3, ErasedRow
  <2>4. CASE MoveIn(s)
    <3>1. PICK m \in Periods :
              /\ ~Held(s, m, NextNumber(m))
              /\ \A k \in Series : bill'[s][k] = IF k \in {DEPOSIT, m} THEN NextNumber(k)
                                                  ELSE bill[s][k]
      BY <2>4, MovedIn
    <3>2. CASE run[w].stay # s
      BY <2>1, <2>2, <2>4, <3>2, MovedIn
    <3>3. CASE run[w].stay = s
      <4>1. run[w].period # m /\ run[w].period # DEPOSIT
        BY <1>3, <2>1, <3>1, <3>3, SeriesFacts DEF Held, Holds
      <4> QED  BY <2>1, <2>2, <3>1, <3>3, <4>1
    <3> QED  BY <3>2, <3>3
  <2> QED  BY <1>3, <2>3, <2>4
<1>4. ASSUME NEW s \in Stays, MoveIn(s) \/ Erase(s)
      PROVE  HeldInv'
  <2>1. run' = run
    BY <1>4 DEF MoveIn, Erase
  <2> QED  BY <1>3, <1>4, <2>1, HeldKept
<1> QED  BY <1>1, <1>2, <1>4
-----------------------------------------------------------------------------
(* No number is past the count of its month, whether it is on a bill, held *)
(* back until its run commits, or still to be inserted.                    *)
Room(r) ==
    LET next == NextNumber(r.period)
    IN  /\ r.at = "insert" => r.number <= next
        /\ r.rent <= next
        /\ r.at = "attach" => r.number <= next + IF r.rent = 0 THEN 0 ELSE 1
BillsLow ==
    \A s \in Stays, k \in Series : bill[s][k] < NextNumber(k) /\ elec[s][k] < NextNumber(k)
ReadingLow == reading.at = "attach" => reading.number \in 1..NextNumber(reading.period)
Low == BillsLow /\ (\A w \in Workers : Room(run[w])) /\ ReadingLow
NumbersInv == NobodyErased => Low

(* A month that new bills join.                                            *)
LEMMA SeriesJoined ==
    ASSUME NEW k, NEW B \in SUBSET Stays, NEW E \in SUBSET Stays,
           Billed(k)' = Billed(k) \cup B, Billed(k) \cap B = {},
           BilledShare(k)' = BilledShare(k) \cup E, BilledShare(k) \cap E = {}
    PROVE  /\ Cardinality(B) \in Nat /\ Cardinality(E) \in Nat
           /\ NextNumber(k)' = NextNumber(k) + Cardinality(B) + Cardinality(E)
<1>1. /\ IsFiniteSet(B) /\ Cardinality(B) \in Nat
      /\ IsFiniteSet(E) /\ Cardinality(E) \in Nat
  BY Constants, FS_Subset, FS_CardinalityType
<1>0. \A S, T : (IsFiniteSet(S) /\ IsFiniteSet(T) /\ S \cap T = {}) =>
                 Cardinality(S \cup T) = Cardinality(S) + Cardinality(T)
  <2> SUFFICES ASSUME NEW S, NEW T, IsFiniteSet(S), IsFiniteSet(T), S \cap T = {}
               PROVE  Cardinality(S \cup T) = Cardinality(S) + Cardinality(T)
    OBVIOUS
  <2>1. Cardinality(S \cup T) = Cardinality(S) + Cardinality(T) - Cardinality({})
    BY FS_Union
  <2>2. Cardinality({}) = 0 /\ Cardinality(S) \in Nat /\ Cardinality(T) \in Nat
    BY FS_EmptySet, FS_CardinalityType
  <2> QED  BY <2>1, <2>2
<1>2. Cardinality(Billed(k) \cup B) = Cardinality(Billed(k)) + Cardinality(B)
  BY <1>0, <1>1, CountIsNat
<1>3. Cardinality(BilledShare(k) \cup E) = Cardinality(BilledShare(k)) + Cardinality(E)
  BY <1>0, <1>1, CountIsNat
<1>4. /\ Cardinality(Billed(k))' = Cardinality(Billed(k)) + Cardinality(B)
      /\ Cardinality(BilledShare(k))' = Cardinality(BilledShare(k)) + Cardinality(E)
  BY <1>2, <1>3
<1>5. Cardinality(Billed(k)) \in Nat /\ Cardinality(BilledShare(k)) \in Nat
  BY CountIsNat
<1> QED  BY <1>1, <1>4, <1>5 DEF NextNumber

(* A month that nothing joins, or a bill of one stay, or two.              *)
LEMMA SeriesGrows ==
    ASSUME TypeOK, TypeOK', NEW k \in Series, NEW s \in Stays,
           \A t \in Stays \ {s} : bill'[t][k] = bill[t][k] /\ elec'[t][k] = elec[t][k],
           bill[s][k] # 0 => bill'[s][k] = bill[s][k],
           elec[s][k] # 0 => elec'[s][k] = elec[s][k]
    PROVE  NextNumber(k)' = NextNumber(k) + (IF bill'[s][k] = bill[s][k] THEN 0 ELSE 1)
                                          + (IF elec'[s][k] = elec[s][k] THEN 0 ELSE 1)
<1> DEFINE B == IF bill'[s][k] = bill[s][k] THEN {} ELSE {s}
           E == IF elec'[s][k] = elec[s][k] THEN {} ELSE {s}
<1>1. Billed(k)' = Billed(k) \cup B /\ Billed(k) \cap B = {}
  BY DEF Billed
<1>2. BilledShare(k)' = BilledShare(k) \cup E /\ BilledShare(k) \cap E = {}
  BY DEF BilledShare
<1>3. /\ Cardinality(B) = IF bill'[s][k] = bill[s][k] THEN 0 ELSE 1
      /\ Cardinality(E) = IF elec'[s][k] = elec[s][k] THEN 0 ELSE 1
  BY FS_EmptySet, FS_Singleton
<1>4. B \in SUBSET Stays /\ E \in SUBSET Stays
  OBVIOUS
<1> HIDE DEF B, E
<1>5. NextNumber(k)' = NextNumber(k) + Cardinality(B) + Cardinality(E)
  BY <1>1, <1>2, <1>4, SeriesJoined
<1> QED  BY <1>3, <1>5

LEMMA SeriesSame ==
    ASSUME NEW k, \A s \in Stays : bill'[s][k] = bill[s][k] /\ elec'[s][k] = elec[s][k]
    PROVE  NextNumber(k)' = NextNumber(k)
<1>1. Billed(k)' = Billed(k) /\ BilledShare(k)' = BilledShare(k)
  BY DEF Billed, BilledShare
<1> QED  BY <1>1 DEF NextNumber

(* Counts grow, and what is new is below them.                             *)
LEMMA NumbersGrow ==
    ASSUME TypeOK, TypeOK', Low,
           \A k \in Series : NextNumber(k) <= NextNumber(k)',
           \A s \in Stays, k \in Series : bill'[s][k] = bill[s][k] \/ bill'[s][k] < NextNumber(k)',
           \A s \in Stays, k \in Series : elec'[s][k] = elec[s][k] \/ elec'[s][k] < NextNumber(k)',
           \A w \in Workers : run'[w] = run[w] \/ Room(run[w])',
           reading' = reading \/ ReadingLow'
    PROVE  Low'
<1>1. \A k : NextNumber(k) \in Nat /\ NextNumber(k)' \in Nat
  BY NumberIsNat, NumberStaysNat
<1>2. BillsLow'
  <2> SUFFICES ASSUME NEW s \in Stays, NEW k \in Series
               PROVE  bill'[s][k] < NextNumber(k)' /\ elec'[s][k] < NextNumber(k)'
    BY DEF BillsLow
  <2>1. bill[s][k] < NextNumber(k) /\ elec[s][k] < NextNumber(k)
    BY DEF Low, BillsLow
  <2>2. bill[s][k] \in Nat /\ elec[s][k] \in Nat
    BY Typed
  <2> QED  BY <1>1, <2>1, <2>2
<1>3. ASSUME NEW w \in Workers PROVE Room(run[w])'
  <2>1. CASE run'[w] = run[w]
    <3>1. run[w].period \in Series /\ run[w].number \in Nat /\ run[w].rent \in Nat
      BY Typed DEF Runs
    <3>2. PICK n \in Nat, m \in Nat :
              n = NextNumber(run[w].period) /\ m = NextNumber(run[w].period)' /\ n <= m
      BY <1>1, <2>1, <3>1
    <3>3. /\ run[w].at = "insert" => run[w].number <= n
          /\ run[w].rent <= n
          /\ run[w].at = "attach" => run[w].number <= n + IF run[w].rent = 0 THEN 0 ELSE 1
      BY <3>2 DEF Low, Room
    <3>4. /\ run[w].at = "insert" => run[w].number <= m
          /\ run[w].rent <= m
          /\ run[w].at = "attach" => run[w].number <= m + IF run[w].rent = 0 THEN 0 ELSE 1
      BY <3>1, <3>2, <3>3
    <3> QED  BY <2>1, <3>2, <3>4 DEF Room
  <2> QED  BY <2>1
<1>4. ReadingLow'
  <2>1. CASE reading' = reading /\ reading.at = "attach"
    <3>1. reading.period \in Series /\ reading.number \in 1..NextNumber(reading.period)
      BY <2>1, Typed DEF Readings, Low, ReadingLow
    <3>2. NextNumber(reading.period) <= NextNumber(reading.period)'
      BY <2>1, <3>1
    <3> QED  BY <1>1, <2>1, <3>1, <3>2 DEF ReadingLow
  <2> QED  BY <2>1 DEF ReadingLow
<1> QED  BY <1>2, <1>3, <1>4 DEF Low

LEMMA CountsSame ==
    UNCHANGED <<bill, elec>> => \A k : NextNumber(k)' = NextNumber(k)
BY SeriesSame

(* What a run commits: a rent bill, a share, or both.                      *)
LEMMA RunCommits ==
    ASSUME TypeOK, TypeOK', Low, HeldInv, NEW w \in Workers,
           PutsBill(w) \/ Commits(w) \/ PutsShare(w), UNCHANGED reading
    PROVE  Low'
<1> DEFINE r == run[w]
<1>0. r \in Runs /\ RunOK(w, r) /\ r.at \in Billing
  BY RunsOK DEF AllRunsOK, PutsBill, Commits, PutsShare, Free, Billing
<1>1. PICK s \in Stays, p \in Series, n \in Nat, m \in Nat :
          s = r.stay /\ p = r.period /\ n = r.number /\ m = r.rent
  BY <1>0 DEF RunOK, Runs
<1>2. run'[w] = Done(r) /\ \A v \in Workers \ {w} : run'[v] = run[v]
  BY Typed DEF PutsBill, Commits, PutsShare, Goes
<1>3. Done(r).at = "next" /\ Done(r).rent = 0
  BY <1>0, DoneOK
<1>4. Room(run[w])'
  BY <1>2, <1>3, NumberStaysNat DEF Room
<1>5. /\ \A t \in Stays, k \in Series : (t # s \/ k # p) =>
             bill'[t][k] = bill[t][k] /\ elec'[t][k] = elec[t][k]
      /\ bill[s][p] # 0 => bill'[s][p] = bill[s][p]
      /\ elec[s][p] # 0 => elec'[s][p] = elec[s][p]
      /\ \/ bill'[s][p] = bill[s][p]
         \/ bill'[s][p] <= NextNumber(p)
      /\ \/ elec'[s][p] = elec[s][p]
         \/ /\ bill'[s][p] = bill[s][p] => elec'[s][p] <= NextNumber(p)
            /\ elec'[s][p] <= NextNumber(p) + 1
  <2>0. PICK next \in Nat : next = NextNumber(p)
    BY NumberIsNat
  <2>1. /\ r.at = "insert" => n <= next
        /\ m <= next
        /\ r.at = "attach" => n <= next + IF m = 0 THEN 0 ELSE 1
    BY <1>1, <2>0 DEF Low, Room
  <2>2. CASE PutsBill(w)
    <3>1. /\ bill[s][p] = 0 /\ r.at = "insert" /\ elec' = elec
          /\ bill' = Bills(s, p, n)
      BY <1>1, <2>2 DEF PutsBill, Free
    <3>2. bill'[s][p] = n /\ \A t \in Stays, k \in Series : (t # s \/ k # p) => bill'[t][k] = bill[t][k]
      BY <3>1, BillsOK
    <3> QED  BY <2>0, <2>1, <3>1, <3>2
  <2>3. CASE Commits(w) \/ PutsShare(w)
    <3>1. /\ \A t \in Stays, k \in Series : (t # s \/ k # p) => bill'[t][k] = bill[t][k]
          /\ bill'[s][p] = IF m = 0 THEN bill[s][p] ELSE m
      BY <1>0, <1>1, <2>3, CommittedOK DEF Commits, PutsShare
    <3>2. m # 0 => bill[s][p] = 0
      BY <1>1 DEF HeldInv
    <3>3. CASE Commits(w)
      BY <2>0, <2>1, <3>1, <3>2, <3>3 DEF Commits
    <3>4. CASE PutsShare(w)
      <4> DEFINE row == [elec[s] EXCEPT ![p] = n]
      <4>1. elec[s][p] = 0 /\ r.at = "attach" /\ elec' = [elec EXCEPT ![s] = row]
        BY <1>1, <3>4 DEF PutsShare
      <4>2. row[p] = n /\ \A k \in Series : k # p => row[k] = elec[s][k]
        BY Typed
      <4> HIDE DEF row
      <4>3. elec'[s][p] = n /\ \A t \in Stays, k \in Series : (t # s \/ k # p) => elec'[t][k] = elec[t][k]
        BY <4>1, <4>2, Typed
      <4>4. n <= next + 1 /\ (bill'[s][p] = bill[s][p] => n <= next)
        BY <2>1, <3>1, <3>2, <4>1
      <4>5. bill'[s][p] = bill[s][p] \/ bill'[s][p] <= next
        BY <2>1, <3>1
      <4> QED  BY <2>0, <3>1, <3>2, <4>1, <4>3, <4>4, <4>5
    <3> QED  BY <2>3, <3>3, <3>4
  <2> QED  BY <2>2, <2>3
<1>6. NextNumber(p)' = NextNumber(p) + (IF bill'[s][p] = bill[s][p] THEN 0 ELSE 1)
                                     + (IF elec'[s][p] = elec[s][p] THEN 0 ELSE 1)
  BY <1>5, SeriesGrows
<1>7. \A k \in Series : k # p => NextNumber(k)' = NextNumber(k)
  BY <1>5, SeriesSame
<1>8. /\ NextNumber(p) \in Nat /\ NextNumber(p)' \in Nat
      /\ bill'[s][p] \in Nat /\ elec'[s][p] \in Nat
  BY NumberIsNat, NumberStaysNat DEF TypeOK
<1>9. /\ NextNumber(p) <= NextNumber(p)'
      /\ bill'[s][p] = bill[s][p] \/ bill'[s][p] < NextNumber(p)'
      /\ elec'[s][p] = elec[s][p] \/ elec'[s][p] < NextNumber(p)'
  BY <1>5, <1>6, <1>8
<1>10. \A k \in Series : NextNumber(k) <= NextNumber(k)'
  BY <1>7, <1>9, NumberIsNat
<1> QED  BY <1>2, <1>4, <1>5, <1>9, <1>10, NumbersGrow

LEMMA NumbersWork ==
    ASSUME TypeOK, TypeOK', HeldInv, NumbersInv, NEW w \in Workers, Work(w)
    PROVE  NumbersInv'
<1> DEFINE r == run[w]
<1>0. UNCHANGED reading /\ (NobodyErased' => Low)
  BY WorkKeeps DEF NobodyBack, NumbersInv
<1> SUFFICES ASSUME Low PROVE Low'
  BY <1>0 DEF NumbersInv
<1>1. CASE PutsBill(w) \/ Commits(w) \/ PutsShare(w)
  BY <1>0, <1>1, RunCommits
<1>2. ASSUME UNCHANGED <<bill, elec>>, NEW next, Goes(w, next), Room(next)
      PROVE  Low'
  <2>1. \A k \in Series : NextNumber(k)' = NextNumber(k) /\ NextNumber(k) <= NextNumber(k)'
    BY <1>2, CountsSame, NumberIsNat
  <2>2. run'[w] = next /\ \A v \in Workers \ {w} : run'[v] = run[v]
    BY <1>2, Typed DEF Goes
  <2>3. Room(run[w])'
    <3>1. run'[w].period \in Series
      BY DEF TypeOK, Runs
    <3> QED  BY <1>2, <2>1, <2>2, <3>1 DEF Room
  <2> QED  BY <1>0, <1>2, <2>1, <2>2, <2>3, NumbersGrow
<1>3. CASE Aside(w)
  <2>1. PICK next : Goes(w, next) /\ next.at \notin Billing
    BY <1>3 DEF Aside
  <2>2. run'[w] = next
    BY <2>1, Typed DEF Goes
  <2>3. next.rent = 0
    BY <2>1, <2>2 DEF TypeOK, Billing
  <2>4. Room(next)
    BY <2>1, <2>3, NumberIsNat DEF Room, Billing
  <2> QED  BY <1>2, <1>3, <2>1, <2>4 DEF Aside
<1>4. CASE Takes(w)
  <2>0. PICK s \in r.queue \cup r.meters :
            Goes(w, Inserting(w, s)) \/ Goes(w, Metered(w, s))
    BY <1>4 DEF Takes
  <2>1. PICK next \in {Inserting(w, s), Metered(w, s)} : Goes(w, next)
    BY <2>0
  <2>2. /\ next.rent = 0 /\ next.period = r.period
        /\ next.at = "insert" => next.number = NextNumber(r.period)
        /\ next.at \in {"insert", "shares"}
    BY <1>4, <2>1, TakenOK DEF Takes
  <2>3. Room(next)
    BY <2>2, NumberIsNat DEF Room
  <2> QED  BY <1>2, <1>4, <2>1, <2>3 DEF Takes
<1>5. CASE HoldsBill(w)
  <2>1. Room(Holding(w))
    <3>1. r.number <= NextNumber(r.period)
      BY <1>5 DEF Low, Room, HoldsBill, Free
    <3> QED  BY <3>1, HoldingOK DEF Room
  <2> QED  BY <1>2, <1>5, <2>1 DEF HoldsBill
<1>6. CASE Attaches(w)
  <2>1. Room(Attaching(w))
    <3>1. r.rent <= NextNumber(r.period)
      BY DEF Low, Room
    <3>2. NextNumber(r.period) + Own(w) <= NextNumber(r.period) + IF r.rent = 0 THEN 0 ELSE 1
      BY NumberIsNat DEF Own
    <3> QED  BY <3>1, <3>2, AttachingOK DEF Room
  <2> QED  BY <1>2, <1>6, <2>1 DEF Attaches
<1> QED  BY <1>1, <1>3, <1>4, <1>5, <1>6, WorkKinds

(* The electricity bills that a reading raises.                            *)
LEMMA SharesRaised ==
    ASSUME TypeOK, TypeOK', Low, AttachShares, elec' # elec
    PROVE  Low'
<1> DEFINE S == reading.stays  n == reading.number
<1>1. PICK p \in Series : p = reading.period /\ S \in SUBSET Stays /\ n \in Nat
  BY Typed DEF Readings
<1>2. PICK c \in Nat : c = Cardinality(S)
  BY <1>1, Constants, FS_Subset, FS_CardinalityType
<1>3. \A s \in Stays, k \in Series :
          IF s \in S /\ k = p
          THEN elec[s][k] = 0 /\ elec'[s][k] \in n..(n + c - 1)
          ELSE elec'[s][k] = elec[s][k]
  BY <1>1, <1>2, SharesNumbered
<1>4. n \in 1..NextNumber(p)
  BY <1>1 DEF AttachShares, Low, ReadingLow
<1>5. bill' = bill /\ run' = run /\ reading'.at = "idle"
  BY NoReadingOK DEF AttachShares
<1> HIDE DEF S, n
<1>6. NextNumber(p)' = NextNumber(p) + c
  <2>1. Billed(p)' = Billed(p) \cup {} /\ Billed(p) \cap {} = {}
    BY <1>5 DEF Billed
  <2>2. \A s \in S : elec[s][p] = 0 /\ elec'[s][p] # 0
    BY <1>1, <1>2, <1>3, <1>4
  <2>3. BilledShare(p)' = BilledShare(p) \cup S /\ BilledShare(p) \cap S = {}
    BY <1>1, <1>3, <2>2 DEF BilledShare
  <2>4. NextNumber(p)' = NextNumber(p) + Cardinality({}) + Cardinality(S)
    BY <1>1, <2>1, <2>3, SeriesJoined
  <2> QED  BY <1>2, <2>4, FS_EmptySet, NumberIsNat
<1>7. \A k \in Series : k # p => NextNumber(k)' = NextNumber(k)
  BY <1>3, <1>5, SeriesSame
<1>8. \A k \in Series : NextNumber(k) <= NextNumber(k)'
  BY <1>2, <1>6, <1>7, NumberIsNat
<1>9. ASSUME NEW s \in Stays, NEW k \in Series
      PROVE  elec'[s][k] = elec[s][k] \/ elec'[s][k] < NextNumber(k)'
  <2>1. CASE s \in S /\ k = p
    <3>1. elec'[s][k] \in n..(n + c - 1)
      BY <1>3, <2>1
    <3>2. NextNumber(p) \in Nat
      BY NumberIsNat
    <3> QED  BY <1>2, <1>4, <1>6, <2>1, <3>1, <3>2
  <2> QED  BY <1>3, <2>1
<1> QED  BY <1>5, <1>8, <1>9, NumbersGrow DEF ReadingLow

LEMMA NumbersRest ==
    ASSUME TypeOK, TypeOK', NewcomersInv, NumbersInv,
           \/ Apart \/ CountShares \/ AttachShares
           \/ \E s \in Stays : MoveIn(s) \/ Erase(s)
    PROVE  NumbersInv'
<1>1. ASSUME NEW s \in Stays, Erase(s)
      PROVE  NumbersInv'
  BY <1>1, ErasedRow DEF NumbersInv, NobodyErased
<1>2. ASSUME UNCHANGED <<bill, elec>>, NobodyBack, reading' = reading \/ ReadingLow',
             \A w \in Workers : run'[w] = run[w] \/ run'[w].at \notin Billing
      PROVE  NumbersInv'
  <2> SUFFICES ASSUME Low PROVE Low'
    BY <1>2 DEF NumbersInv, NobodyBack
  <2>1. \A k \in Series : NextNumber(k) <= NextNumber(k)'
    BY <1>2, CountsSame, NumberIsNat
  <2>2. ASSUME NEW w \in Workers, run'[w].at \notin Billing PROVE Room(run[w])'
    <3>1. run'[w].rent = 0
      BY <2>2 DEF TypeOK, Billing
    <3> QED  BY <2>2, <3>1, NumberStaysNat DEF Room, Billing
  <2> QED  BY <1>2, <2>1, <2>2, NumbersGrow
<1>3. CASE Apart
  <2>1. reading' = reading \/ ReadingLow'
    BY <1>3 DEF Apart, ReadingLow
  <2>2. \A w \in Workers : run'[w] = run[w] \/ run'[w].at \notin Billing
    BY <1>3 DEF Apart, Fresh, Billing
  <2>3. UNCHANGED <<bill, elec>> /\ NobodyBack
    BY <1>3 DEF Apart
  <2> QED  BY <1>2, <2>1, <2>2, <2>3
<1>4. CASE CountShares
  <2>1. /\ UNCHANGED <<bill, elec, run, stay>>
        /\ reading'.number = NextNumber(reading.period) /\ reading'.period = reading.period
    BY <1>4 DEF CountShares
  <2>2. ReadingLow'
    BY <2>1, CountsSame, NumberIsNat DEF ReadingLow
  <2> QED  BY <1>2, <2>1, <2>2, SameRows
<1>5. CASE AttachShares
  <2>1. NobodyBack /\ UNCHANGED <<bill, run>> /\ reading'.at = "idle"
    BY <1>5, SameRows, NoReadingOK DEF AttachShares
  <2>2. CASE elec' = elec
    BY <1>2, <2>1, <2>2 DEF ReadingLow
  <2>3. CASE elec' # elec
    BY <1>5, <2>1, <2>3, SharesRaised DEF NumbersInv, NobodyBack
  <2> QED  BY <2>2, <2>3
<1>6. ASSUME NEW s \in Stays, MoveIn(s)
      PROVE  NumbersInv'
  <2>1. PICK m \in Periods :
            \A k \in Series : bill'[s][k] = IF k \in {DEPOSIT, m} THEN NextNumber(k) ELSE bill[s][k]
    BY <1>6, MovedIn
  <2>2. /\ UNCHANGED <<elec, run, reading>> /\ stay[s].status = "none"
        /\ stay'[s].status = "staying"
        /\ \A t \in Stays \ {s} : stay'[t] = stay[t] /\ bill'[t] = bill[t]
    BY <1>6, MovedIn
  <2>3. SUFFICES ASSUME Low PROVE Low'
    BY <2>2 DEF NumbersInv, NobodyErased
  <2>4. ASSUME NEW k \in Series
        PROVE  /\ NextNumber(k) <= NextNumber(k)'
               /\ bill'[s][k] = bill[s][k] \/ bill'[s][k] < NextNumber(k)'
    <3>1. bill[s][k] = 0
      BY <2>2 DEF NewcomersInv
    <3>2. NextNumber(k)' = NextNumber(k) + (IF bill'[s][k] = bill[s][k] THEN 0 ELSE 1) + 0
      BY <2>2, <3>1, SeriesGrows
    <3> QED  BY <2>1, <3>2, NumberIsNat
  <2>5. \A t \in Stays, k \in Series : bill'[t][k] = bill[t][k] \/ bill'[t][k] < NextNumber(k)'
    BY <2>2, <2>4
  <2>6. \A k \in Series : NextNumber(k) <= NextNumber(k)'
    BY <2>4
  <2> QED  BY <2>2, <2>3, <2>5, <2>6, NumbersGrow
<1> QED  BY <1>1, <1>3, <1>4, <1>5, <1>6

LEMMA NumbersInit == Init => NewcomersInv /\ HeldInv /\ NumbersInv
<1> SUFFICES ASSUME Init PROVE NewcomersInv /\ HeldInv /\ Low
  BY DEF NumbersInv
<1>1. \A s \in Stays, k \in Series : bill[s][k] = 0 /\ elec[s][k] = 0
  BY DEF Init
<1>2. \A w \in Workers : run[w] = NoRun
  BY DEF Init
<1>3. BillsLow
  BY <1>1, NumberIsNat DEF BillsLow
<1>4. \A w \in Workers : Room(run[w])
  BY <1>2, NumberIsNat DEF Room, NoRun
<1>5. ReadingLow
  BY NoReadingOK DEF Init, ReadingLow
<1>6. NewcomersInv /\ HeldInv
  BY <1>1, <1>2, Constants DEF NewcomersInv, HeldInv, NoRun
<1> QED  BY <1>3, <1>4, <1>5, <1>6 DEF Low

(* Until someone is erased the number that count() gives is free under     *)
(* both prefixes, for any number of overlapping runs, move-ins and         *)
(* readings; what they counted before one another's commits is refused.    *)
THEOREM NextNumbersAreFree == Spec => []NextNumberIsFree
<1> DEFINE Inv == NewcomersInv /\ HeldInv /\ NumbersInv
<1>1. TypeOK /\ TypeOK' /\ Inv /\ [Next]_vars => Inv'
  <2> SUFFICES ASSUME TypeOK, TypeOK', NewcomersInv, HeldInv, NumbersInv, [Next]_vars
               PROVE  NewcomersInv' /\ HeldInv' /\ NumbersInv'
    OBVIOUS
  <2>1. CASE \E w \in Workers : Work(w)
    BY <2>1, NewcomersWork, HeldWork, NumbersWork
  <2>2. CASE Apart \/ CountShares \/ AttachShares \/ \E s \in Stays : MoveIn(s) \/ Erase(s)
    BY <2>2, NewcomersRest, HeldRest, NumbersRest
  <2> QED  BY <2>1, <2>2, ApartKinds DEF Next
<1>2. TypeOK /\ Inv => NextNumberIsFree
  <2> SUFFICES ASSUME TypeOK, Low PROVE NextNumberIsFree
    BY DEF NumbersInv, NextNumberIsFree
  <2>1. \A k \in Series, s \in Stays :
            /\ bill[s][k] < NextNumber(k) /\ elec[s][k] < NextNumber(k)
            /\ bill[s][k] # NextNumber(k) /\ elec[s][k] # NextNumber(k)
    BY NumberIsNat, Typed DEF Low, BillsLow
  <2> QED  BY <2>1 DEF NextNumberIsFree, Taken, TakenShare
<1> HIDE DEF Inv
<1> QED
  <2>1. Init => Inv
    BY NumbersInit DEF Inv
  <2> QED  BY <1>1, <1>2, <2>1, MonthsWellFormed, PTL DEF Spec
-----------------------------------------------------------------------------
(* Who should have a bill for the month once a run for it succeeds: the    *)
(* rollover works in the month itself, the other on the eve of it and for  *)
(* whoever stays on.                                                       *)
Since(j, p) == IF j = "monthly-rollover" THEN Start(p) ELSE Start(p) - 1
Unbilled(j, p) ==
    {s \in Stays : /\ LivesIn(s, p) /\ stay[s].since < Since(j, p)
                   /\ j = "month-end-billing" => stay[s].until = Never /\ stay[s].leaving > p
                   /\ bill[s][p] = 0}

(* What a run has yet to bill it knows of, and nobody is added to those:   *)
(* who moves in later need not be billed by it.                            *)
Listed == {"next"} \cup Billing
Pending(r) == r.queue \cup (IF r.at = "insert" \/ r.rent # 0 THEN {r.stay} ELSE {})
Scheduled(w) == w # Owner
RunsKnow ==
    \A w \in Workers, p \in Periods :
        (Scheduled(w) /\ run[w].at # "idle" /\ run[w].period = p) =>
            /\ Since(w[2], p) <= today
            /\ run[w].at \in Listed => Unbilled(w[2], p) \subseteq Pending(run[w])
RunsCover ==
    \A j \in Jobs, p \in Periods : jobRun[<<j, p>>] = "SUCCEEDED" =>
        Since(j, p) <= today /\ Unbilled(j, p) = {}
CoverInv == RunsKnow /\ RunsCover

Shrinks ==
    /\ today <= today'
    /\ \A j \in Jobs, p \in Periods :
          Since(j, p) <= today => Unbilled(j, p)' \subseteq Unbilled(j, p)

LEMMA Eves ==
    ASSUME NEW d \in FirstDay..MaxDay
    PROVE  /\ Start(Month(d)) <= d /\ d <= Start(Month(d)) + 1
           /\ Start(Month(d) + 1) - 1 <= d + 1
           /\ IsLastDay(d) => /\ Start(Month(d) + 1) = d + 1
                              /\ Month(d + 1) = Month(d) + 1
           /\ ~IsLastDay(d) => Month(d + 1) = Month(d)
<1>1. \A n \in Nat : /\ 2 * (n \div 2) <= n /\ n <= 2 * (n \div 2) + 1
                     /\ 2 * ((n \div 2) + 1) - 1 <= n + 1
                     /\ n % 2 = 1 => /\ 2 * ((n \div 2) + 1) = n + 1
                                     /\ (n + 1) \div 2 = (n \div 2) + 1
                     /\ n % 2 # 1 => (n + 1) \div 2 = n \div 2
  BY Z3
<1> QED  BY <1>1, Constants DEF Start, Month, IsLastDay

LEMMA JobNamed == \A w \in Workers : Scheduled(w) => w[2] \in Jobs
BY OwnerIsNoJob DEF Scheduled

LEMMA SinceIsInt == \A j, p : p \in Periods => Since(j, p) \in Int
BY SeriesFacts DEF Since, Start

LEMMA Quiet ==
    ASSUME TypeOK, UNCHANGED <<today, stay, bill>>
    PROVE  Shrinks
<1>1. today \in Int
  BY Typed
<1>2. \A j, p : Unbilled(j, p)' = Unbilled(j, p)
  BY DEF Unbilled, LivesIn, Occupied
<1> QED  BY <1>1, <1>2 DEF Shrinks

(* One stay changes, and is not one that a run under way has to bill.      *)
LEMMA OneStay ==
    ASSUME TypeOK, NEW s \in Stays, today' = today,
           \A t \in Stays \ {s} : stay'[t] = stay[t] /\ bill'[t] = bill[t],
           stay'[s].status = "staying" =>
               \/ stay'[s].since = today
               \/ /\ stay'[s].since = stay[s].since /\ stay[s].status = "staying"
                  /\ stay'[s].joined = stay[s].joined /\ stay'[s].until = stay[s].until
                  /\ stay'[s].leaving <= stay[s].leaving /\ bill'[s] = bill[s],
           stay'[s].leaving \in Int
    PROVE  Shrinks
<1>1. today \in Int /\ stay[s].leaving \in Int
  BY Typed, SeriesFacts DEF StayRows
<1>2. ASSUME NEW j \in Jobs, NEW p \in Periods, Since(j, p) <= today,
             NEW t \in Stays, t \in Unbilled(j, p)'
      PROVE  t \in Unbilled(j, p)
  <2>1. CASE t # s
    BY <1>2, <2>1 DEF Unbilled, LivesIn, Occupied
  <2>2. CASE t = s
    <3>1. Since(j, p)' = Since(j, p) /\ Since(j, p) \in Int /\ p \in Int
      BY SinceIsInt, SeriesFacts DEF Since, Start
    <3>2. /\ stay'[s].status = "staying" /\ stay'[s].since < Since(j, p)
          /\ stay'[s].joined <= p /\ p <= stay'[s].until /\ bill'[s][p] = 0
          /\ j = "month-end-billing" => stay'[s].until = Never /\ stay'[s].leaving > p
      BY <1>2, <2>2, <3>1 DEF Unbilled, LivesIn, Occupied
    <3>3. stay'[s].since # today
      BY <1>1, <1>2, <3>1, <3>2
    <3>4. stay'[s].leaving > p => stay[s].leaving > p
      BY <1>1, <3>1, <3>2, <3>3
    <3> QED  BY <2>2, <3>2, <3>3, <3>4 DEF Unbilled, LivesIn, Occupied
  <2> QED  BY <2>1, <2>2
<1>3. \A j \in Jobs, p \in Periods : Unbilled(j, p)' \subseteq Stays
  BY DEF Unbilled
<1> QED  BY <1>1, <1>2, <1>3 DEF Shrinks

(* No run lists its stays, takes a bill or succeeds.                       *)
LEMMA CoverKept ==
    ASSUME TypeOK, TypeOK', CoverInv, Shrinks,
           \A j \in Jobs, p \in Periods : jobRun'[<<j, p>>] = "SUCCEEDED" =>
               jobRun[<<j, p>>] = "SUCCEEDED",
           \A w \in Workers : (Scheduled(w) /\ run'[w].at # "idle") =>
               \/ run'[w] = run[w]
               \/ /\ run'[w].at \notin Listed
                  /\ Since(w[2], run'[w].period) <= today'
    PROVE  CoverInv'
<1>1. today \in Int /\ today' \in Int
  BY Typed, TypeOK' DEF TypeOK
<1>2. ASSUME NEW w \in Workers, NEW p \in Periods,
             Scheduled(w), run'[w].at # "idle", run'[w].period = p
      PROVE  /\ Since(w[2], p) <= today'
             /\ run'[w].at \in Listed => Unbilled(w[2], p)' \subseteq Pending(run'[w])
  <2>1. CASE run'[w] = run[w]
    <3>1. w[2] \in Jobs /\ Since(w[2], p) \in Int
      BY <1>2, SinceIsInt, JobNamed
    <3>2. /\ Since(w[2], p) <= today
          /\ run[w].at \in Listed => Unbilled(w[2], p) \subseteq Pending(run[w])
      BY <1>2, <2>1 DEF CoverInv, RunsKnow
    <3>3. today <= today' /\ Unbilled(w[2], p)' \subseteq Unbilled(w[2], p)
      BY <3>1, <3>2 DEF Shrinks
    <3> QED  BY <1>1, <2>1, <3>1, <3>2, <3>3
  <2>2. CASE run'[w] # run[w]
    BY <1>2, <2>2
  <2> QED  BY <2>1, <2>2
<1>3. RunsKnow'
  BY <1>2 DEF RunsKnow
<1>4. RunsCover'
  BY <1>1, SinceIsInt DEF CoverInv, RunsCover, Shrinks
<1> QED  BY <1>3, <1>4 DEF CoverInv

LEMMA CoverInit == Init => CoverInv
BY DEF Init, CoverInv, RunsKnow, RunsCover, NoRun, Jobs

(* A run fails or is given up.                                             *)
LEMMA CoverStop ==
    ASSUME TypeOK, TypeOK', CoverInv, NEW w \in Workers, run[w].at # "idle", Stop(w),
           UNCHANGED <<today, stay, bill>>, jobRun' = jobRun \/ Failed(w)
    PROVE  CoverInv'
<1>1. Shrinks
  BY Quiet
<1>2. \A v \in Workers : run'[v] = run[v] \/ run'[v].at = "idle"
  BY Typed DEF Stop, NoRun
<1>3. \A j \in Jobs, p \in Periods : jobRun'[<<j, p>>] = "SUCCEEDED" =>
               jobRun[<<j, p>>] = "SUCCEEDED"
  BY Typed, KeyOK DEF Failed, Jobs
<1> QED  BY <1>1, <1>2, <1>3, CoverKept

(* A run that has listed its stays goes on; whom it has no longer to bill  *)
(* has a bill.                                                             *)
LEMMA CoverBills ==
    ASSUME TypeOK, TypeOK', CoverInv, NEW w \in Workers, run[w].at \in Listed,
           UNCHANGED <<today, stay, jobRun>>, NEW next, Goes(w, next),
           next.at \in Listed, next.period = run[w].period,
           \A s \in Stays, k \in Series : bill'[s][k] = 0 => bill[s][k] = 0,
           \A s \in Pending(run[w]) : s \in Pending(next) \/ bill'[s][run[w].period] # 0
    PROVE  CoverInv'
<1>1. \A j, k : k \in Periods => Unbilled(j, k)' \subseteq Unbilled(j, k)
  BY SeriesFacts DEF Unbilled, LivesIn, Occupied, Since, Start
<1>2. run'[w] = next /\ \A v \in Workers : v # w => run'[v] = run[v]
  BY Typed DEF Goes
<1>3. ASSUME NEW v \in Workers, NEW p \in Periods,
             Scheduled(v), run'[v].at # "idle", run'[v].period = p
      PROVE  /\ Since(v[2], p) <= today
             /\ run'[v].at \in Listed => Unbilled(v[2], p)' \subseteq Pending(run'[v])
  <2>1. CASE v # w
    BY <1>1, <1>2, <1>3, <2>1 DEF CoverInv, RunsKnow
  <2>2. CASE v = w
    <3>1. run[w].period = p /\ run[w].at # "idle"
      BY <1>2, <1>3, <2>2 DEF Listed, Billing
    <3>2. Since(v[2], p) <= today /\ Unbilled(v[2], p) \subseteq Pending(run[w])
      BY <1>3, <2>2, <3>1 DEF CoverInv, RunsKnow
    <3>3. \A s \in Unbilled(v[2], p)' : s \in Pending(run[w]) /\ bill'[s][p] = 0
      BY <1>1, <3>2 DEF Unbilled
    <3> QED  BY <1>2, <2>2, <3>1, <3>2, <3>3
  <2> QED  BY <2>1, <2>2
<1>4. RunsKnow'
  BY <1>3 DEF RunsKnow
<1>5. RunsCover'
  BY <1>1 DEF CoverInv, RunsCover
<1> QED  BY <1>4, <1>5 DEF CoverInv

LEMMA CoverWork ==
    ASSUME TypeOK, TypeOK', CoverInv, NEW w \in Workers, Work(w)
    PROVE  CoverInv'
<1> DEFINE r == run[w]
<1>0. /\ r \in Runs /\ RunOK(w, r) /\ run \in [Workers -> Runs]
      /\ RunsKnow /\ RunsCover
      /\ r.at # "idle" => r.period \in Periods
      /\ Scheduled(w) => w[2] \in Jobs
  BY RunsOK, JobNamed DEF AllRunsOK, CoverInv, RunOK
<1>1. CASE Claim(w)
  <2>1. CASE Stop(w) /\ UNCHANGED jobRun
    BY <1>1, <2>1, CoverStop DEF Claim
  <2>2. CASE ~(Stop(w) /\ UNCHANGED jobRun)
    <3>1. PICK label \in {"notices", "list"} : run' = [run EXCEPT ![w] = [r EXCEPT !.at = label]]
      BY <1>1, <2>2 DEF Claim, Goto
    <3>2. \A v \in Workers : Scheduled(v) /\ run'[v].at # "idle" =>
               \/ run'[v] = run[v]
               \/ run'[v].at \notin Listed /\ Since(v[2], run'[v].period) <= today
      BY <1>0, <1>1, <3>1 DEF Runs, RunsKnow, Claim, Listed, Billing
    <3>3. \A j \in Jobs, k \in Periods : jobRun'[<<j, k>>] = "SUCCEEDED" =>
               jobRun[<<j, k>>] = "SUCCEEDED"
      BY <1>0, <1>1, <2>2, Typed DEF Claim
    <3> QED  BY <1>1, <3>2, <3>3, Quiet, CoverKept DEF Claim
  <2> QED  BY <2>1, <2>2
<1>2. CASE ListNotices(w)
  <2>1. PICK E : run' = [run EXCEPT ![w] = [r EXCEPT !.at = "exits", !.exits = E]]
    BY <1>2 DEF ListNotices
  <2>2. \A v \in Workers : Scheduled(v) /\ run'[v].at # "idle" =>
             \/ run'[v] = run[v]
             \/ run'[v].at \notin Listed /\ Since(v[2], run'[v].period) <= today
    BY <1>0, <1>2, <2>1 DEF Runs, RunsKnow, ListNotices, Listed, Billing
  <2> QED  BY <1>2, <2>2, Quiet, CoverKept DEF ListNotices
<1>3. CASE ExitNext(w)
  <2>1. CASE Failed(w) /\ UNCHANGED stay
    BY <1>3, <2>1, CoverStop DEF ExitNext, Failed
  <2>2. CASE ~(Failed(w) /\ UNCHANGED stay)
    <3>1. Shrinks
      <4>1. CASE stay' = stay
        BY <1>3, <4>1, Quiet DEF ExitNext
      <4>2. CASE stay' # stay
        <5>1. PICK e \in r.exits : stay' = [stay EXCEPT ![e[1]] =
                               [stay[e[1]] EXCEPT !.status = "left", !.until = e[2]]]
          BY <1>3, <4>2 DEF ExitNext
        <5>2. PICK s \in Stays : s = e[1]
          BY <5>1, ExitsOK
        <5> DEFINE row == [stay[s] EXCEPT !.status = "left", !.until = e[2]]
        <5>3. row.status = "left" /\ row.leaving \in Int
          <6>1. stay[s] \in StayRows
            BY Typed
          <6> QED  BY <6>1, SeriesFacts DEF StayRows
        <5>4. stay' = [stay EXCEPT ![s] = row]
          BY <5>1, <5>2
        <5> HIDE DEF row
        <5>5. stay'[s] = row /\ \A t \in Stays \ {s} : stay'[t] = stay[t] /\ bill'[t] = bill[t]
          BY <1>3, <5>4, Typed DEF ExitNext
        <5> QED  BY <1>3, <5>3, <5>5, OneStay DEF ExitNext
      <4> QED  BY <4>1, <4>2
    <3>2. PICK next \in {[r EXCEPT !.at = "list"]} \cup {[r EXCEPT !.exits = r.exits \ {e}] : e \in r.exits} :
                run' = [run EXCEPT ![w] = next] /\ jobRun' = jobRun
      BY <1>3, <2>2 DEF ExitNext, Goto
    <3>3. next.at \notin Listed /\ next.at # "idle" /\ next.period = r.period
      BY <1>0, <1>3, <3>2 DEF Runs, ExitNext, Listed, Billing
    <3>4. \A v \in Workers : Scheduled(v) /\ run'[v].at # "idle" =>
               \/ run'[v] = run[v]
               \/ run'[v].at \notin Listed /\ Since(v[2], run'[v].period) <= today
      BY <1>0, <1>3, <3>2, <3>3 DEF RunsKnow, ExitNext
    <3> QED  BY <1>3, <3>1, <3>2, <3>4, CoverKept DEF ExitNext
  <2> QED  BY <2>1, <2>2
<1>4. CASE ListStays(w)
  <2> DEFINE L == {s \in Stays : Lives(s) /\ ((w # Owner /\ w[2] = "month-end-billing")
                                                => staysIntoPeriod(s, r.period))}
             M == L \cap share[r.period]
             Q == {s \in L : Occupied(s, r.period)}
             next == [r EXCEPT !.at = "next", !.meters = M, !.queue = Q]
  <2>0. PICK p \in Periods : p = r.period
    BY <1>0, <1>4 DEF ListStays
  <2>1. run' = [run EXCEPT ![w] = next]
    BY <1>4 DEF ListStays
  <2>2. next.period = p /\ Q \subseteq Pending(next)
    <3> HIDE DEF Q, M
    <3> QED  BY <1>0, <2>0 DEF Runs, Pending
  <2>3. Scheduled(w) => Unbilled(w[2], p) \subseteq Q
    BY <2>0 DEF Unbilled, LivesIn, Lives, staysIntoPeriod, Scheduled
  <2> HIDE DEF next, Q, M, L
  <2>4. UNCHANGED <<today, stay, bill, jobRun>>
    BY <1>4 DEF ListStays
  <2>5. \A j, k : Unbilled(j, k)' = Unbilled(j, k)
    BY <2>4 DEF Unbilled, LivesIn, Occupied
  <2>6. /\ \A v \in Workers \ {w} : run'[v] = run[v]
        /\ run'[w] = next
    BY <1>0, <2>1
  <2>7. Scheduled(w) => Since(w[2], p) <= today
    BY <1>0, <1>4, <2>0 DEF RunsKnow, ListStays
  <2>8. RunsKnow'
    BY <1>0, <2>2, <2>3, <2>4, <2>5, <2>6, <2>7 DEF RunsKnow
  <2> QED  BY <1>0, <2>4, <2>5, <2>8 DEF CoverInv, RunsCover
<1>5. CASE NumberBill(w)
  <2>1. PICK s \in r.queue \cup r.meters : Taking(w, s)
    BY <1>5, BillTaken
  <2>2. r.at = "next" /\ UNCHANGED <<today, stay, bill, jobRun>> /\ r.rent = 0
    BY <1>0, <1>5 DEF NumberBill, RunOK
  <2>3. PICK next \in {Inserting(w, s), Metered(w, s), Skipped(w, s)} :
            /\ Goes(w, next)
            /\ next = Inserting(w, s) \/ (s \in r.queue => bill[s][r.period] # 0)
    BY <2>1 DEF Taking, Goes
  <2>4. /\ next.queue = r.queue \ {s} /\ next.at \in Listed /\ next.period = r.period
        /\ next = Inserting(w, s) => next.at = "insert" /\ next.stay = s
    BY <2>2, TakenOK DEF Listed, Billing
  <2>5. \A t \in Pending(r) : t \in Pending(next) \/ bill'[t][r.period] # 0
    BY <2>2, <2>3, <2>4 DEF Pending
  <2> QED  BY <2>2, <2>3, <2>4, <2>5, CoverBills DEF Listed
<1>6. ASSUME r.at \in Billing, UNCHANGED <<today, stay, bill, jobRun>>,
             NEW next, Goes(w, next), next.at \in Billing, next.period = r.period,
             next.queue = r.queue, next.stay = r.stay,
             r.at = "insert" \/ next.rent = r.rent, r.at = "insert" => next.rent # 0
      PROVE  CoverInv'
  <2>1. \A s \in Pending(r) : s \in Pending(next)
    BY <1>6 DEF Pending
  <2> QED  BY <1>6, <2>1, CoverBills DEF Listed
<1>7. ASSUME r.at \in Billing, UNCHANGED <<today, stay, jobRun>>, Goes(w, Done(r)),
             \A s \in Stays, k \in Series :
                 (s # r.stay \/ k # r.period) => bill'[s][k] = bill[s][k],
             IF r.at # "insert" /\ r.rent = 0 THEN bill'[r.stay][r.period] = bill[r.stay][r.period]
             ELSE bill'[r.stay][r.period] # 0
      PROVE  CoverInv'
  <2>1. /\ Done(r).at \in Listed /\ Done(r).period = r.period /\ Done(r).queue = r.queue
        /\ r.at \in Listed
    BY <1>0, <1>7, DoneOK DEF Listed
  <2>2. \A s \in Stays, k \in Series : bill'[s][k] = 0 => bill[s][k] = 0
    BY <1>7
  <2>3. \A s \in Pending(r) : s \in Pending(Done(r)) \/ bill'[s][r.period] # 0
    BY <1>7, <2>1 DEF Pending
  <2> QED  BY <1>7, <2>1, <2>2, <2>3, CoverBills
<1>8. CASE InsertBill(w)
  <2>1. CASE Failed(w) /\ UNCHANGED bill
    BY <1>8, <2>1, CoverStop DEF InsertBill, Failed
  <2>2. CASE ~(Failed(w) /\ UNCHANGED bill)
    <3>1. /\ r.at = "insert" /\ r.at \in Billing /\ UNCHANGED <<today, stay, jobRun>>
          /\ \/ UNCHANGED bill /\ Goes(w, Holding(w))
             \/ Goes(w, Done(r)) /\ bill' = Bills(r.stay, r.period, r.number)
      BY <1>8, <2>2 DEF InsertBill, Goes, Holding, Billing
    <3>2. PICK s \in Stays, p \in Series, n \in Nat :
              s = r.stay /\ p = r.period /\ n = r.number /\ n # 0
      BY <1>0, <3>1 DEF RunOK, Runs
    <3>3. CASE UNCHANGED bill /\ Goes(w, Holding(w))
      <4>1. /\ Holding(w).at \in Billing /\ Holding(w).period = r.period
            /\ Holding(w).queue = r.queue /\ Holding(w).stay = r.stay /\ Holding(w).rent # 0
        BY <3>2, HoldingOK DEF Billing
      <4> QED  BY <1>6, <3>1, <3>3, <4>1
    <3>4. CASE Goes(w, Done(r)) /\ bill' = Bills(r.stay, r.period, r.number)
      <4>1. /\ bill'[s][p] = n
            /\ \A t \in Stays, k \in Series : (t # s \/ k # p) => bill'[t][k] = bill[t][k]
        <5>1. bill' = Bills(s, p, n)
          BY <3>2, <3>4
        <5> QED  BY <5>1, BillsOK
      <4>2. IF r.at # "insert" /\ r.rent = 0 THEN bill'[r.stay][r.period] = bill[r.stay][r.period]
            ELSE bill'[r.stay][r.period] # 0
        BY <3>1, <3>2, <4>1
      <4>3. \A t \in Stays, k \in Series : (t # r.stay \/ k # r.period) => bill'[t][k] = bill[t][k]
        BY <3>2, <4>1
      <4> QED  BY <1>7, <3>1, <3>4, <4>2, <4>3
    <3> QED  BY <3>1, <3>3, <3>4
  <2> QED  BY <2>1, <2>2
<1>9. ASSUME r.at \in {"shares", "attach"}, UNCHANGED <<today, stay, jobRun>>,
             Goes(w, Done(r)), bill' = Committed(w)
      PROVE  CoverInv'
  <2>1. r.at \in Billing
    BY <1>9 DEF Billing
  <2> QED  BY <1>7, <1>9, <2>1, CommittedOK
<1>10. CASE NumberShare(w)
  <2>1. /\ r.at = "shares" /\ UNCHANGED <<today, stay, jobRun>>
        /\ \/ Goes(w, Done(r)) /\ bill' = Committed(w)
           \/ Goes(w, Attaching(w)) /\ UNCHANGED bill
    BY <1>10 DEF NumberShare, Goes, Attaching
  <2>2. CASE Goes(w, Attaching(w)) /\ UNCHANGED bill
    <3>1. Attaching(w).at \in Billing /\ r.at \in Billing /\ r.at # "insert"
      BY <2>1, AttachingOK DEF Billing
    <3>2. /\ Attaching(w).period = r.period /\ Attaching(w).queue = r.queue
          /\ Attaching(w).stay = r.stay /\ Attaching(w).rent = r.rent
      BY AttachingOK
    <3> QED  BY <1>6, <2>1, <2>2, <3>1, <3>2
  <2> QED  BY <1>9, <2>1, <2>2
<1>11. CASE InsertShare(w)
  <2>1. CASE Failed(w) /\ UNCHANGED bill
    BY <1>11, <2>1, CoverStop DEF InsertShare, Failed
  <2>2. CASE ~(Failed(w) /\ UNCHANGED bill)
    <3>1. r.at = "attach" /\ UNCHANGED <<today, stay>>
      BY <1>11 DEF InsertShare
    <3>2. jobRun' = jobRun /\ Goes(w, Done(r)) /\ bill' = Committed(w)
      BY <1>11, <2>2 DEF InsertShare, Goes
    <3> QED  BY <1>9, <3>1, <3>2
  <2> QED  BY <2>1, <2>2
<1>12. CASE Finish(w)
  <2>0. PICK p \in Periods : p = r.period
    BY <1>0, <1>12 DEF Finish
  <2>1. UNCHANGED <<today, stay, bill>>
    BY <1>12 DEF Finish
  <2>2. \A j, k : Unbilled(j, k)' = Unbilled(j, k)
    BY <2>1 DEF Unbilled, LivesIn, Occupied
  <2>3. Scheduled(w) => Since(w[2], p) <= today /\ Unbilled(w[2], p) = {}
    <3>1. Pending(r) = {} /\ r.at = "next"
      BY <1>0, <1>12 DEF Finish, Pending, RunOK
    <3> QED  BY <1>0, <2>0, <3>1 DEF RunsKnow, Listed
  <2>4. \A j \in Jobs, k \in Periods : jobRun'[<<j, k>>] = "SUCCEEDED" =>
            jobRun[<<j, k>>] = "SUCCEEDED" \/ (Scheduled(w) /\ j = w[2] /\ k = p)
    <3>1. CASE w = Owner
      BY <1>12, <3>1 DEF Finish
    <3>2. CASE w # Owner
      BY <1>0, <1>12, <2>0, <3>2, Typed, KeyOK DEF Finish, Scheduled, Key
    <3> QED  BY <3>1, <3>2
  <2>5. RunsCover'
    BY <1>0, <2>1, <2>2, <2>3, <2>4 DEF RunsCover
  <2>6. \A v \in Workers : run'[v] = run[v] \/ run'[v].at = "idle"
    BY <1>12, Typed DEF Finish, Stop, NoRun
  <2>7. RunsKnow'
    BY <1>0, <2>1, <2>2, <2>6 DEF RunsKnow
  <2> QED  BY <2>5, <2>7 DEF CoverInv
<1> QED  BY <1>1, <1>2, <1>3, <1>4, <1>5, <1>8, <1>10, <1>11, <1>12 DEF Work

LEMMA CoverRest ==
    ASSUME TypeOK, TypeOK', CoverInv,
           \/ \E w \in Workers : Fail(w)
           \/ \E p \in Procs : Crash(p) \/ Restart(p)
           \/ NewDay
           \/ \E s \in Stays : MoveIn(s) \/ UpdateResident(s) \/ LeaveNow(s) \/ Erase(s)
           \/ \E p \in Periods : Generate(p) \/ RecordReading(p)
           \/ CountShares \/ AttachShares
    PROVE  CoverInv'
<1>0. RunsKnow /\ RunsCover /\ today \in FirstDay..MaxDay
  BY Typed DEF CoverInv
<1>1. ASSUME NEW w \in Workers, Fail(w)
      PROVE  CoverInv'
  <2>1. Stop(w) /\ (jobRun' = jobRun \/ Failed(w))
    BY <1>1 DEF Fail, Failed
  <2> QED  BY <1>1, <2>1, CoverStop DEF Fail
<1>2. ASSUME NEW p \in Procs, Crash(p)
      PROVE  CoverInv'
  <2>1. \A w \in Workers : run'[w] = run[w] \/ run'[w].at = "idle"
    BY <1>2 DEF Crash, NoRun
  <2> QED  BY <1>2, <2>1, Quiet, CoverKept DEF Crash
<1>3. ASSUME NEW p \in Procs, Restart(p)
      PROVE  CoverInv'
  <2> DEFINE m == Month(today)
  <2>1. Start(m) <= today /\ Start(m + 1) - 1 <= today + 1 /\ (IsLastDay(today) => Start(m + 1) - 1 <= today)
    BY <1>0, Eves DEF IsLastDay
  <2>2. \A w \in Workers : Scheduled(w) =>
            \/ run'[w] = run[w]
            \/ run'[w].at = "catch-up" /\ Since(w[2], run'[w].period) <= today
    <3>1. PICK n : n = Month(today)
      OBVIOUS
    <3>2. m = n
      BY <3>1
    <3> HIDE DEF m
    <3>3. \A w \in Workers :
              \/ run'[w] = run[w]
              \/ w[2] = "monthly-rollover" /\ run'[w] = Started("catch-up", n)
              \/ w[2] = "month-end-billing" /\ IsLastDay(today) /\ run'[w] = Started("catch-up", n + 1)
      BY <1>3, <3>1 DEF Restart
    <3>4. \A k : Started("catch-up", k).at = "catch-up" /\ Started("catch-up", k).period = k
      BY DEF Started, NoRun
    <3> QED  BY <2>1, <3>2, <3>3, <3>4 DEF Since
  <2>3. \A w \in Workers : (Scheduled(w) /\ run'[w].at # "idle") =>
            \/ run'[w] = run[w]
            \/ run'[w].at \notin Listed /\ Since(w[2], run'[w].period) <= today
    BY <2>2 DEF Listed, Billing
  <2> QED  BY <1>3, <2>3, Quiet, CoverKept DEF Restart
<1>4. CASE NewDay
  <2> DEFINE m == Month(today)
  <2>1. Start(m + 1) - 1 <= today + 1 /\ (IsLastDay(today) => Start(m + 1) <= today + 1)
    BY <1>0, Eves
  <2>2. \A w \in Workers : Scheduled(w) =>
            \/ run'[w] = run[w]
            \/ run'[w].at = "claim" /\ Since(w[2], run'[w].period) <= today + 1
    BY <1>4, <2>1 DEF NewDay, Started, NoRun, Since
  <2>3. Shrinks
    <3>1. today' = today + 1 /\ UNCHANGED <<stay, bill>>
      BY <1>4 DEF NewDay
    <3>2. \A j, k : Unbilled(j, k)' = Unbilled(j, k)
      BY <3>1 DEF Unbilled, LivesIn, Occupied
    <3> QED  BY <1>0, <3>1, <3>2, Constants DEF Shrinks
  <2>4. \A w \in Workers : (Scheduled(w) /\ run'[w].at # "idle") =>
            \/ run'[w] = run[w]
            \/ run'[w].at \notin Listed /\ Since(w[2], run'[w].period) <= today'
    BY <1>4, <2>2 DEF Listed, Billing, NewDay
  <2> QED  BY <1>4, <2>3, <2>4, CoverKept DEF NewDay
<1>5. ASSUME NEW s \in Stays, MoveIn(s) \/ UpdateResident(s) \/ LeaveNow(s) \/ Erase(s)
      PROVE  CoverInv'
  <2>1. today' = today /\ UNCHANGED <<run, jobRun>>
    BY <1>5 DEF MoveIn, UpdateResident, LeaveNow, Erase
  <2>2. stay'[s].leaving \in Int
    BY SeriesFacts DEF TypeOK, StayRows
  <2>3. CASE MoveIn(s) \/ Erase(s)
    <3>1. /\ \A t \in Stays \ {s} : stay'[t] = stay[t] /\ bill'[t] = bill[t]
          /\ stay'[s].status = "staying" => stay'[s].since = today
      BY <2>3, MovedIn, ErasedRow
    <3>2. Shrinks
      BY <2>1, <2>2, <3>1, OneStay
    <3> QED  BY <2>1, <3>2, CoverKept
  <2>4. CASE UpdateResident(s) \/ LeaveNow(s)
    <3>1. PICK row \in StayRows :
               /\ stay' = [stay EXCEPT ![s] = row] /\ row.joined = stay[s].joined
               /\ row.status = "staying" =>
                      \/ row.since = today
                      \/ /\ row.since = stay[s].since /\ stay[s].status = "staying"
                         /\ row.until = stay[s].until /\ row.leaving <= stay[s].leaving
      BY <2>4, RowWritten
    <3>2. UNCHANGED bill /\ stay'[s] = row /\ \A t \in Stays \ {s} : stay'[t] = stay[t]
      BY <2>4, <3>1, Typed DEF UpdateResident, LeaveNow
    <3>3. Shrinks
      BY <2>1, <2>2, <3>1, <3>2, OneStay
    <3> QED  BY <2>1, <3>3, CoverKept
  <2> QED  BY <1>5, <2>3, <2>4
<1>6. ASSUME NEW p \in Periods, Generate(p)
      PROVE  CoverInv'
  <2>1. \A w \in Workers : Scheduled(w) => run'[w] = run[w]
    BY <1>6, Typed DEF Generate, Scheduled
  <2> QED  BY <1>6, <2>1, Quiet, CoverKept DEF Generate
<1>7. ASSUME (\E p \in Periods : RecordReading(p)) \/ CountShares \/ AttachShares
      PROVE  CoverInv'
  <2>1. UNCHANGED <<today, stay, bill, run, jobRun>>
    BY <1>7 DEF RecordReading, CountShares, AttachShares
  <2> QED  BY <2>1, Quiet, CoverKept
<1> QED  BY <1>1, <1>2, <1>3, <1>4, <1>5, <1>6, <1>7

(* Once the rollover of a month reports success, whoever lives in it and   *)
(* was entered before the month has its bill, whatever overlaps or fails.  *)
THEOREM RolloverCovers == Spec => []RolloverCoversEveryone
<1>1. TypeOK /\ TypeOK' /\ CoverInv /\ [Next]_vars => CoverInv'
  <2> SUFFICES ASSUME TypeOK, TypeOK', CoverInv, [Next]_vars PROVE CoverInv'
    OBVIOUS
  <2>1. CASE UNCHANGED vars
    BY <2>1, Quiet, CoverKept DEF vars, CoverInv
  <2>2. CASE Next
    BY <2>2, CoverWork, CoverRest DEF Next
  <2> QED  BY <2>1, <2>2
<1>2. CoverInv => RolloverCoversEveryone
  BY DEF CoverInv, RunsCover, RolloverCoversEveryone, Unbilled, LivesIn, Since, Jobs
<1> QED  BY <1>1, <1>2, CoverInit, MonthsWellFormed, PTL DEF Spec
-----------------------------------------------------------------------------
(* As long as at most one thing went wrong, a month whose rollover nobody  *)
(* has claimed is one in which every process that is up is about to: a     *)
(* process is down, and catches up, only after the one mishap.             *)
Waits(q) ==
    LET r == run[<<q, "monthly-rollover">>]
    IN  r.at \in {"claim", "catch-up"} /\ r.period = Month(today)
Unclaimed == jobRun[<<"monthly-rollover", Month(today)>>] = "none"
RolloverTried ==
    /\ \A q \in Procs : up[q] \/ mishaps > 0
    /\ \A w \in Workers : run[w].at = "catch-up" => mishaps > 0
    /\ (Start(Month(today)) > FirstDay /\ mishaps <= 1 /\ Unclaimed) =>
           \A q \in Procs : up[q] => Waits(q)

LEMMA Rollovers ==
    \A q \in Procs : /\ <<q, "monthly-rollover">> \in Workers
                     /\ <<q, "monthly-rollover">> # Owner
BY JobIsNoOwner DEF Jobs

LEMMA TriedInit == Init => RolloverTried
<1> SUFFICES ASSUME Init PROVE RolloverTried
  OBVIOUS
<1>1. Start(Month(today)) <= FirstDay
  BY Constants, Eves DEF Init
<1>2. Start(Month(today)) \in Int
  BY Constants DEF Init, Start, Month
<1> QED  BY <1>1, <1>2, Constants DEF Init, RolloverTried, NoRun

(* A run that waits for its row goes on waiting, or has found or made it.  *)
LEMMA TriedKept ==
    ASSUME TypeOK, TypeOK', RolloverTried, UNCHANGED <<today, up>>, mishaps <= mishaps',
           \A k \in Jobs \X Periods : jobRun[k] # "none" => jobRun'[k] # "none",
           \A w \in Workers :
               \/ run'[w] = run[w]
               \/ /\ run'[w].at # "catch-up"
                  /\ (w # Owner /\ run[w].at \in {"claim", "catch-up"}) =>
                         mishaps' > 1 \/ jobRun'[Key(w)] # "none"
    PROVE  RolloverTried'
<1>1. mishaps \in Nat /\ mishaps' \in Nat
  BY Typed, TypeOK' DEF TypeOK
<1>2. <<"monthly-rollover", Month(today)>> \in Jobs \X Periods
  BY Typed, Days DEF Jobs
<1>3. (\A q \in Procs : up'[q] \/ mishaps' > 0)
      /\ \A w \in Workers : run'[w].at = "catch-up" => mishaps' > 0
  BY <1>1 DEF RolloverTried
<1>4. ASSUME Start(Month(today)) > FirstDay, mishaps' <= 1,
             jobRun'[<<"monthly-rollover", Month(today)>>] = "none", NEW q \in Procs, up[q]
      PROVE  /\ run'[<<q, "monthly-rollover">>].at \in {"claim", "catch-up"}
             /\ run'[<<q, "monthly-rollover">>].period = Month(today)
  <2>1. Waits(q)
    BY <1>1, <1>2, <1>4 DEF RolloverTried, Unclaimed
  <2>2. PICK w \in Workers : w = <<q, "monthly-rollover">> /\ w # Owner
    BY Rollovers
  <2>3. Key(w) = <<"monthly-rollover", Month(today)>> /\ run[w].at \in {"claim", "catch-up"}
    BY <2>1, <2>2 DEF Waits, Key
  <2>4. run'[w] = run[w]
    BY <1>1, <1>4, <2>2, <2>3
  <2> QED  BY <2>1, <2>2, <2>4 DEF Waits
<1> QED  BY <1>3, <1>4 DEF RolloverTried, Waits, Unclaimed

LEMMA TriedWork ==
    ASSUME TypeOK, TypeOK', RolloverTried, NEW w \in Workers, Work(w)
    PROVE  RolloverTried'
<1>0. /\ run \in [Workers -> Runs] /\ mishaps \in Nat
      /\ jobRun \in [Jobs \X Periods -> JobStates]
      /\ run[w].at # "idle" /\ w # Owner => Key(w) \in Jobs \X Periods
  BY Typed, KeyOK
<1>1. UNCHANGED <<today, up, mishaps>>
  <2>1. CASE Claim(w) \/ ListNotices(w) \/ ExitNext(w) \/ ListStays(w)
    BY <2>1 DEF Claim, ListNotices, ExitNext, ListStays
  <2>2. CASE NumberBill(w) \/ InsertBill(w) \/ NumberShare(w) \/ InsertShare(w) \/ Finish(w)
    BY <2>2 DEF NumberBill, InsertBill, NumberShare, InsertShare, Finish
  <2> QED  BY <2>1, <2>2 DEF Work
<1>2. run[w].at # "idle" /\ (run[w].at \in {"claim", "catch-up"} => Claim(w))
  <2>1. CASE Claim(w) \/ ListNotices(w) \/ ExitNext(w) \/ ListStays(w)
    BY <2>1 DEF Claim, ListNotices, ExitNext, ListStays
  <2>2. CASE NumberBill(w) \/ InsertBill(w) \/ NumberShare(w) \/ InsertShare(w) \/ Finish(w)
    BY <2>2 DEF NumberBill, InsertBill, NumberShare, InsertShare, Finish
  <2> QED  BY <2>1, <2>2 DEF Work
<1>3. \/ jobRun' = jobRun
      \/ w # Owner /\ \E status \in JobStates \ {"none"} :
                          jobRun' = [jobRun EXCEPT ![Key(w)] = status]
  <2>1. Failed(w) => jobRun' = jobRun \/ (w # Owner /\ jobRun' = [jobRun EXCEPT ![Key(w)] = "FAILED"])
    BY DEF Failed
  <2>2. CASE Claim(w)
    <3>1. w # Owner
      BY <2>2, RunsOK DEF Claim, AllRunsOK, RunOK, Billing
    <3> QED  BY <2>2, <3>1 DEF Claim, JobStates
  <2>3. CASE Finish(w)
    BY <2>3 DEF Finish, JobStates
  <2>4. CASE ExitNext(w)
    BY <2>1, <2>4 DEF ExitNext, JobStates
  <2>5. CASE InsertBill(w)
    BY <2>1, <2>5 DEF InsertBill, JobStates
  <2>6. CASE ListNotices(w) \/ ListStays(w) \/ NumberBill(w) \/ NumberShare(w)
    BY <2>6 DEF ListNotices, ListStays, NumberBill, NumberShare
  <2>7. CASE InsertShare(w)
    BY <2>1, <2>7 DEF InsertShare, JobStates
  <2> QED  BY <2>2, <2>3, <2>4, <2>5, <2>6, <2>7 DEF Work
<1>4. \A k \in Jobs \X Periods : jobRun[k] # "none" => jobRun'[k] # "none"
  BY <1>0, <1>2, <1>3
<1>5. \E r : run' = [run EXCEPT ![w] = r]
  <2>1. CASE Claim(w)
    BY <2>1 DEF Claim, Stop, Goto
  <2>2. CASE ~Claim(w)
    <3>1. \/ Aside(w) \/ Takes(w) \/ HoldsBill(w) \/ PutsBill(w)
          \/ Commits(w) \/ Attaches(w) \/ PutsShare(w)
      BY WorkKinds
    <3> QED  BY <3>1 DEF Aside, Takes, HoldsBill, PutsBill, Commits, Attaches, PutsShare, Goes
  <2> QED  BY <2>1, <2>2
<1>6. \A v \in Workers : v # w => run'[v] = run[v]
  BY <1>0, <1>5
<1>7. run'[w].at # "catch-up"
  <2>1. Stop(w) => run'[w].at = "idle"
    BY <1>0 DEF Stop, NoRun
  <2>2. \A label : Goto(w, label) => run'[w].at = label
    <3> SUFFICES ASSUME NEW label, Goto(w, label) PROVE run'[w].at = label
      OBVIOUS
    <3> QED  BY <1>0 DEF Goto, Runs
  <2>3. CASE Claim(w)
    BY <2>1, <2>2, <2>3 DEF Claim
  <2>4. CASE Finish(w)
    BY <2>1, <2>4 DEF Finish
  <2>5. CASE ListNotices(w)
    BY <1>0, <2>5 DEF ListNotices, Runs
  <2>6. CASE ExitNext(w)
    <3>1. CASE Failed(w)
      BY <2>1, <3>1 DEF Failed
    <3>2. CASE ~Failed(w)
      <4>1. PICK next \in {[run[w] EXCEPT !.at = "list"]}
                        \cup {[run[w] EXCEPT !.exits = run[w].exits \ {e}] : e \in run[w].exits} :
                run' = [run EXCEPT ![w] = next]
        BY <2>6, <3>2 DEF ExitNext, Goto
      <4>2. next.at \in {"list", "exits"}
        BY <1>0, <2>6, <4>1 DEF ExitNext, Runs
      <4> QED  BY <1>0, <4>1, <4>2
    <3> QED  BY <3>1, <3>2
  <2>7. CASE ListStays(w)
    BY <1>0, <2>7 DEF ListStays, Runs
  <2>8. CASE Takes(w)
    <3>1. PICK s \in run[w].queue \cup run[w].meters :
              Goes(w, Inserting(w, s)) \/ Goes(w, Metered(w, s))
      BY <2>8 DEF Takes
    <3>2. PICK next \in {Inserting(w, s), Metered(w, s)} : Goes(w, next)
      BY <3>1
    <3>3. next.at \in {"insert", "shares"}
      BY <2>8, TakenOK DEF Takes
    <3> QED  BY <1>0, <3>2, <3>3 DEF Goes
  <2>9. CASE NumberBill(w)
    <3>1. PICK s \in run[w].queue \cup run[w].meters : Taking(w, s)
      BY <2>9, BillTaken
    <3>2. PICK next \in {Inserting(w, s), Metered(w, s), Skipped(w, s)} : Goes(w, next)
      BY <3>1 DEF Taking, Goes
    <3>3. next.at \in {"insert", "shares", "next"}
      BY <2>9, TakenOK DEF NumberBill
    <3> QED  BY <1>0, <3>2, <3>3 DEF Goes
  <2>10. CASE HoldsBill(w) \/ Attaches(w)
    BY <1>0, <2>10, HoldingOK, AttachingOK DEF HoldsBill, Attaches, Goes
  <2>11. CASE PutsBill(w) \/ Commits(w) \/ PutsShare(w)
    <3>1. run[w].at \in Billing /\ Goes(w, Done(run[w]))
      BY <2>11 DEF PutsBill, Commits, PutsShare, Free, Billing
    <3>2. Done(run[w]).at = "next"
      BY <3>1, RunsOK, DoneOK DEF AllRunsOK
    <3> QED  BY <1>0, <3>1, <3>2 DEF Goes
  <2>12. CASE InsertBill(w)
    <3>1. Stop(w) \/ HoldsBill(w) \/ PutsBill(w)
      BY <2>12 DEF InsertBill, Failed, Free, HoldsBill, PutsBill, Goes, Holding
    <3> QED  BY <2>1, <2>10, <2>11, <3>1
  <2>13. CASE NumberShare(w)
    <3>1. Commits(w) \/ Attaches(w)
      BY <2>13 DEF NumberShare, Commits, Attaches, Goes, Attaching
    <3> QED  BY <2>10, <2>11, <3>1
  <2>14. CASE InsertShare(w)
    <3>1. CASE Stop(w)
      BY <2>1, <3>1
    <3>2. CASE ~Stop(w)
      <4>1. PutsShare(w)
        BY <2>14, <3>2 DEF InsertShare, PutsShare, Goes, Failed
      <4> QED  BY <2>11, <4>1
    <3> QED  BY <3>1, <3>2
  <2> QED  BY <2>3, <2>4, <2>5, <2>6, <2>7, <2>9, <2>12, <2>13, <2>14 DEF Work
<1>8. (w # Owner /\ run[w].at \in {"claim", "catch-up"}) => jobRun'[Key(w)] # "none"
  <2> SUFFICES ASSUME w # Owner, run[w].at \in {"claim", "catch-up"}
               PROVE  jobRun'[Key(w)] # "none"
    OBVIOUS
  <2>1. Claim(w)
    BY <1>2
  <2> QED  BY <1>0, <1>2, <2>1 DEF Claim
<1> QED  BY <1>0, <1>1, <1>4, <1>6, <1>7, <1>8, TriedKept

LEMMA TriedRest ==
    ASSUME TypeOK, TypeOK', RolloverTried,
           \/ \E w \in Workers : Fail(w)
           \/ \E p \in Procs : Crash(p) \/ Restart(p)
           \/ NewDay
           \/ \E s \in Stays : MoveIn(s) \/ UpdateResident(s) \/ LeaveNow(s) \/ Erase(s)
           \/ \E p \in Periods : Generate(p) \/ RecordReading(p)
           \/ CountShares \/ AttachShares
    PROVE  RolloverTried'
<1>0. /\ run \in [Workers -> Runs] /\ mishaps \in Nat /\ up \in [Procs -> BOOLEAN]
      /\ jobRun \in [Jobs \X Periods -> JobStates] /\ today \in FirstDay..MaxDay
  BY Typed
<1>1. ASSUME NEW w \in Workers, Fail(w)
      PROVE  RolloverTried'
  <2>1. UNCHANGED <<today, up>> /\ mishaps' = mishaps + 1
    BY <1>1 DEF Fail
  <2>2. (\A v \in Workers : v # w => run'[v] = run[v]) /\ run'[w].at = "idle"
    BY <1>0, <1>1 DEF Fail, Failed, Stop, NoRun
  <2>3. \A k \in Jobs \X Periods : jobRun[k] # "none" => jobRun'[k] # "none"
    BY <1>0, <1>1, Typed, KeyOK DEF Fail, Failed
  <2>4. run[w].at \in {"claim", "catch-up"} => mishaps' > 1
    BY <1>0, <1>1, <2>1 DEF Fail, RolloverTried
  <2> QED  BY <1>0, <2>1, <2>2, <2>3, <2>4, TriedKept
<1>2. ASSUME NEW p \in Procs, Crash(p)
      PROVE  RolloverTried'
  <2>1. /\ UNCHANGED <<today, jobRun>> /\ mishaps' = mishaps + 1
        /\ \A q \in Procs : up'[q] => up[q] /\ q # p
    BY <1>0, <1>2 DEF Crash
  <2>2. \A w \in Workers : run'[w] = run[w] \/ run'[w].at = "idle"
    BY <1>2 DEF Crash, NoRun
  <2>3. \A q \in Procs : q # p => run'[<<q, "monthly-rollover">>] = run[<<q, "monthly-rollover">>]
    BY <1>2, Rollovers DEF Crash
  <2>4. mishaps' > 0 /\ (mishaps' <= 1 => mishaps <= 1)
    BY <1>0, <2>1
  <2> QED  BY <2>1, <2>2, <2>3, <2>4 DEF RolloverTried, Waits, Unclaimed
<1>3. ASSUME NEW p \in Procs, Restart(p)
      PROVE  RolloverTried'
  <2> DEFINE m == Month(today)
  <2>1. /\ UNCHANGED <<today, jobRun, mishaps>> /\ mishaps > 0
        /\ \A q \in Procs : up'[q] => up[q] \/ q = p
    BY <1>0, <1>3 DEF Restart, RolloverTried
  <2>2. /\ run'[<<p, "monthly-rollover">>] = Started("catch-up", m)
        /\ \A q \in Procs : q # p => run'[<<q, "monthly-rollover">>] = run[<<q, "monthly-rollover">>]
    BY <1>3, Rollovers DEF Restart
  <2>3. Started("catch-up", m).at = "catch-up" /\ Started("catch-up", m).period = m
    <3> HIDE DEF m
    <3> QED  BY DEF Started, NoRun
  <2> QED  BY <2>1, <2>2, <2>3 DEF RolloverTried, Waits, Unclaimed
<1>4. CASE NewDay
  <2>1. /\ today' = today + 1 /\ UNCHANGED <<up, jobRun, mishaps>>
        /\ \A w \in Workers : Idle(w)
    BY <1>4 DEF NewDay
  <2>2. \A w \in Workers : run'[w].at # "catch-up"
    BY <1>4, <2>1 DEF NewDay, Started, NoRun, Idle
  <2>3. CASE IsLastDay(today)
    <3> DEFINE m == Month(today) + 1
    <3>1. Month(today') = m
      BY <1>0, <2>1, <2>3, Eves
    <3>2. \A q \in Procs : up[q] => run'[<<q, "monthly-rollover">>] = Started("claim", m)
      BY <1>4, <2>3, Rollovers DEF NewDay
    <3>3. Started("claim", m).at = "claim" /\ Started("claim", m).period = m
      <4> HIDE DEF m
      <4> QED  BY DEF Started, NoRun
    <3> QED  BY <2>1, <2>2, <3>1, <3>2, <3>3 DEF RolloverTried, Waits
  <2>4. CASE ~IsLastDay(today)
    <3>1. Month(today') = Month(today)
      BY <1>0, <2>1, <2>4, Eves
    <3>2. \A q \in Procs : ~Waits(q)
      BY <2>1, Rollovers DEF Waits, Idle
    <3> QED  BY <2>1, <2>2, <3>1, <3>2 DEF RolloverTried, Unclaimed
  <2> QED  BY <2>3, <2>4
<1>5. ASSUME NEW s \in Stays, MoveIn(s) \/ UpdateResident(s) \/ LeaveNow(s) \/ Erase(s)
      PROVE  RolloverTried'
  <2>1. UNCHANGED <<today, up, jobRun, run, mishaps>>
    BY <1>5 DEF MoveIn, UpdateResident, LeaveNow, Erase
  <2> QED  BY <1>0, <2>1, TriedKept
<1>6. ASSUME NEW p \in Periods, Generate(p)
      PROVE  RolloverTried'
  <2>1. UNCHANGED <<today, up, jobRun, mishaps>>
    BY <1>6 DEF Generate
  <2>2. \A w \in Workers : run'[w] = run[w] \/ (w = Owner /\ run'[w].at # "catch-up")
    BY <1>0, <1>6 DEF Generate, Started, NoRun
  <2> QED  BY <1>0, <2>1, <2>2, TriedKept
<1>7. ASSUME (\E p \in Periods : RecordReading(p)) \/ CountShares \/ AttachShares
      PROVE  RolloverTried'
  <2>1. UNCHANGED <<today, up, jobRun, run, mishaps>>
    BY <1>7 DEF RecordReading, CountShares, AttachShares
  <2> QED  BY <1>0, <2>1, TriedKept
<1> QED  BY <1>1, <1>2, <1>3, <1>4, <1>5, <1>6, <1>7

(* After one crash or failure, when a process is up and nothing runs,      *)
(* whoever was there before the eve of a month is billed for it, unless    *)
(* the button, a move-in or a reading made both its runs fail.             *)
THEOREM EveryoneIsBilled == Spec => []EveryoneBilled
<1>1. TypeOK /\ TypeOK' /\ CoverInv /\ RolloverTried /\ [Next]_vars => (CoverInv /\ RolloverTried)'
  <2> SUFFICES ASSUME TypeOK, TypeOK', CoverInv, RolloverTried, [Next]_vars
               PROVE  (CoverInv /\ RolloverTried)'
    OBVIOUS
  <2>1. CASE UNCHANGED vars
    <3>1. RolloverTried'
      BY <2>1 DEF vars, RolloverTried, Waits, Unclaimed
    <3> QED  BY <2>1, <3>1, Quiet, CoverKept DEF vars
  <2>2. CASE Next
    BY <2>2, CoverWork, CoverRest, TriedWork, TriedRest DEF Next
  <2> QED  BY <2>1, <2>2
<1>2. TypeOK /\ CoverInv /\ RolloverTried => EveryoneBilled
  <2> SUFFICES ASSUME TypeOK, CoverInv, RolloverTried, today > FirstDay + 1, mishaps <= 1,
                      NEW q \in Procs, up[q], \A w \in Workers : Idle(w)
               PROVE  \/ \A s \in Stays : Expected(s, Month(today)) => bill[s][Month(today)] # 0
                      \/ /\ jobRun[<<"monthly-rollover", Month(today)>>] \in {"RUNNING", "FAILED"}
                         /\ jobRun[<<"month-end-billing", Month(today)>>] # "SUCCEEDED"
    BY DEF EveryoneBilled
  <2>0. PICK p \in Periods : p = Month(today)
    BY Typed, Days
  <2>1. Start(p) > FirstDay
    <3>1. today \in Int /\ today <= Start(p) + 1 /\ FirstDay \in Int /\ Start(p) \in Int
      BY <2>0, Typed, Eves, Constants, SeriesFacts DEF Start
    <3> QED  BY <3>1
  <2>2. jobRun[<<"monthly-rollover", p>>] # "none"
    BY <2>0, <2>1, Rollovers DEF RolloverTried, Unclaimed, Waits, Idle
  <2>3. \A j \in Jobs : jobRun[<<j, p>>] = "SUCCEEDED" => Unbilled(j, p) = {}
    BY DEF CoverInv, RunsCover
  <2>4. \A j \in Jobs, s \in Stays : (Expected(s, p) /\ bill[s][p] = 0) => s \in Unbilled(j, p)
    <3>1. \A s \in Stays : stay[s].since \in Int
      <4>1. \A n \in 0..MaxDay : n \in Int
        OBVIOUS
      <4> QED  BY <4>1, Typed DEF StayRows
    <3>2. Start(p) \in Int
      BY SeriesFacts DEF Start
    <3> QED  BY <3>1, <3>2 DEF Expected, Unbilled, Since
  <2>5. \A j \in Jobs : jobRun[<<j, p>>] = "SUCCEEDED" =>
                            \A s \in Stays : Expected(s, p) => bill[s][p] # 0
    BY <2>3, <2>4
  <2>6. jobRun[<<"monthly-rollover", p>>] \in JobStates
    BY Typed DEF Jobs
  <2> QED  BY <2>0, <2>2, <2>5, <2>6 DEF JobStates, Jobs
<1> QED  BY <1>1, <1>2, CoverInit, TriedInit, MonthsWellFormed, PTL DEF Spec
=============================================================================
