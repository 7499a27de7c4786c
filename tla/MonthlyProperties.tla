------------------------- MODULE MonthlyProperties -------------------------
(* What monthly billing has to satisfy.                                    *)
EXTENDS Monthly

Statuses == {"none", "staying", "left", "erased"}
StayRows == [status : Statuses, joined : Series, since : 0..MaxDay,
             leaving : 1..Never, until : 0..Never]
Labels == {"idle", "claim", "catch-up", "notices", "exits", "list",
           "next", "insert", "shares", "attach"}
Billing == {"insert", "shares", "attach"}
Runs == [at : Labels, period : Series, queue : SUBSET Stays, meters : SUBSET Stays,
         exits : SUBSET (Stays \X (0..Never) \X BOOLEAN), stay : Stays \cup {None},
         number : Nat, rent : Nat]
Readings == [at : {"idle", "count", "attach"}, period : Series, stays : SUBSET Stays, number : Nat]

(* Rows and runs are well formed; a run that bills has a stay and a month, *)
(* and one that inserts a number; the button has no JobRun row.            *)
TypeOK ==
    /\ today \in FirstDay..MaxDay /\ up \in [Procs -> BOOLEAN]
    /\ stay \in [Stays -> StayRows]
    /\ bill \in [Stays -> [Series -> Nat]] /\ elec \in [Stays -> [Series -> Nat]]
    /\ jobRun \in [Jobs \X Periods -> {"none", "RUNNING", "SUCCEEDED", "FAILED"}]
    /\ run \in [Workers -> Runs] /\ share \in [Periods -> SUBSET Stays]
    /\ reading \in Readings /\ mishaps \in Nat /\ presses \in Nat /\ calls \in Nat
    /\ \A w \in Workers : run[w].at # "idle" => run[w].period \in Periods
    /\ reading.at # "idle" => reading.period \in Periods
    /\ \A w \in Workers : run[w].at \in Billing => run[w].stay \in Stays
    /\ \A w \in Workers : run[w].at \in {"insert", "attach"} => run[w].number > 0
    /\ \A w \in Workers : run[w].rent # 0 => run[w].at \in {"shares", "attach"}
    /\ run[Owner].at \in {"idle", "list", "next"} \cup Billing
-----------------------------------------------------------------------------
(* Rent and electricity bills have a prefix each, but one count.  As long  *)
(* as nobody has been erased no number of a month, under either prefix, is *)
(* past the count of its bills, so the next one is free under both; a run, *)
(* the button, a move-in and a meter reading may all have counted before   *)
(* one another's commits, the first and the last of them for several bills *)
(* at once.                                                                *)
NobodyErased == \A s \in Stays : stay[s].status # "erased"
NextNumberIsFree ==
    NobodyErased =>
        \A k \in Series :
            /\ \A s \in Stays : bill[s][k] < NextNumber(k) /\ elec[s][k] < NextNumber(k)
            /\ ~Taken(k, NextNumber(k)) /\ ~TakenShare(k, NextNumber(k))

(* "Runs a job at most once per (name, period)", with two processes too,   *)
(* and its row says RUNNING while it does.                                 *)
Working(w) == w # Owner /\ run[w].at \notin {"idle", "claim", "catch-up"}
JobRunsOnce ==
    \A v, w \in Workers :
        Working(v) =>
            /\ jobRun[Key(v)] = "RUNNING"
            /\ (Working(w) /\ Key(v) = Key(w)) => v = w

(* Once the rollover of a month reports success, everyone who lives in    *)
(* that month, and was registered, reopened or put off before it began,    *)
(* has its bill: also who was held back for dues, and whatever failed      *)
(* before.  Who is registered later from a day before the month, or is     *)
(* reopened past the exit date the row keeps, is nobody's to bill.         *)
LivesIn(s, p) == stay[s].status = "staying" /\ Occupied(s, p)
RolloverCoversEveryone ==
    \A p \in Periods :
        jobRun[<<"monthly-rollover", p>>] = "SUCCEEDED" =>
            \A s \in Stays :
                (LivesIn(s, p) /\ stay[s].since < Start(p)) => bill[s][p] # 0

Expected(s, p) ==
    /\ LivesIn(s, p) /\ stay[s].until = Never
    /\ stay[s].leaving > p /\ stay[s].since < Start(p) - 1

(* "The month-start run still checks that everyone has a bill, which       *)
(* catches anyone the month-end run missed": after one crash or failure,   *)
(* when a process is up and nothing is running, whoever was there before   *)
(* the last day is billed for the month; only collisions with the button,  *)
(* a move-in or a meter reading can make both runs fail.                   *)
EveryoneBilled ==
    LET p == Month(today)
    IN  (/\ today > FirstDay + 1 /\ mishaps <= 1
         /\ (\E q \in Procs : up[q]) /\ \A w \in Workers : Idle(w))
            => \/ \A s \in Stays : Expected(s, p) => bill[s][p] # 0
               \/ /\ jobRun[<<"monthly-rollover", p>>] \in {"RUNNING", "FAILED"}
                  /\ jobRun[<<"month-end-billing", p>>] # "SUCCEEDED"

(* The same for a month in which nothing fails, nobody presses the button  *)
(* or reads a meter, nobody moves in, gives notice or leaves: the rollover *)
(* leaves everyone with a bill.  But erasing a former resident's data      *)
(* takes a number out of count() and not out of use.                       *)
MonthStartCatchesAll ==
    \A p \in Periods :
        (/\ mishaps = 0 /\ presses = 0 /\ share[p] = {}
         /\ \A s \in Stays : /\ stay[s].since < Start(p) /\ stay[s].leaving = Never
                             /\ stay[s].status \in {"left", "erased"} => stay[s].until < p
         /\ jobRun[<<"monthly-rollover", p>>] # "none" /\ \A w \in Workers : Idle(w))
            => \A s \in Stays : LivesIn(s, p) => bill[s][p] # 0
=============================================================================
