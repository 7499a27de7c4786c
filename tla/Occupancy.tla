----------------------------- MODULE Occupancy -----------------------------
(***************************************************************************)
(* Who lives in which bed: the residents, rooms and matured-notice code,   *)
(* whose transactions meet on the rows of users, stays, allocations, beds  *)
(* and rooms.                                                              *)
(*                                                                         *)
(* A transaction's reads are actions of their own, one per statement: each *)
(* sees what has committed by then.  Its writes are one action, at its     *)
(* commit, since no one sees them before; a write that a constraint        *)
(* refuses leaves the transaction nothing but GiveUp, which also stands    *)
(* for a check that fails, a timeout and a crash.                          *)
(***************************************************************************)
EXTENDS Integers, FiniteSets

CONSTANTS
    Users, Stays, Rooms, Beds, AllocationIds,   \* ids, used once each
    Workers, Nightly,     \* request handlers, and the monthly job
    None, Gone,           \* "undefined"; what a deleted allocation leaves
    Days, Periods,        \* dates a request may carry; first days of months
    Capacities,           \* room sizes a request may ask for
    Ops,                  \* the operations a run allows
    MaxInFlight           \* transactions open at once

Procs == Workers \cup {Nightly}
BedStatuses == {"AVAILABLE", "OCCUPIED", "MAINTENANCE", "BLOCKED"}
NoDay == -1
AllocationRows == [stay : Stays, bed : Beds, from : Days, to : Days \cup {NoDay}]

ASSUME OccupancyAssumption ==
    /\ Nightly \notin Workers
    /\ Days \subseteq Nat /\ Periods \subseteq Nat /\ Capacities \subseteq Nat
    /\ IsFiniteSet(Beds)
    /\ None \notin Users \cup Stays \cup Beds \cup Rooms \cup Procs
    /\ None # Gone /\ {None, Gone} \cap AllocationRows = {}
    /\ MaxInFlight \in Nat

VARIABLES
    user,    \* [Users -> account and standing]
    stay,    \* [Stays -> Tenancy row], "none" before and after its life;
             \* NOTICE_PERIOD is ACTIVE here, no guard tells them apart
    alloc,   \* [AllocationIds -> Allocation row or None]
    bed,     \* [Beds -> Bed row], "unborn", then live, then "deleted"
    room,    \* [Rooms -> Room row]
    period,  \* the month the job last ran for
    queue,   \* what the job listed and has not visited yet
    pc, req  \* [Procs -> ...], the statement reached, what it was asked and read

store == <<user, stay, alloc, bed, room>>
job == <<period, queue>>
vars == <<store, job, pc, req>>

NoRequest == [op |-> "none", user |-> None, stay |-> None, bed |-> None, room |-> None,
              day |-> NoDay, number |-> 0, status |-> "none", flag |-> FALSE,
              rows |-> {}]

(* Some have signed up by themselves before anyone adds them.              *)
Init ==
    /\ \E signedUp \in SUBSET Users :
          user = [u \in Users |-> [known |-> u \in signedUp, role |-> "NON_RESIDENT",
                                   member |-> "NONE"]]
    /\ stay = [s \in Stays |-> [status |-> "none", user |-> None, leaves |-> NoDay, owes |-> FALSE]]
    /\ alloc = [a \in AllocationIds |-> None]
    /\ bed = [b \in Beds |-> [status |-> "unborn", room |-> None, label |-> 0]]
    /\ room = [r \in Rooms |-> [status |-> "none", capacity |-> 0]]
    /\ period = 0 /\ queue = {}
    /\ pc = [p \in Procs |-> "idle"]
    /\ req = [p \in Procs |-> NoRequest]
-----------------------------------------------------------------------------
Live(b) == bed[b].status \in BedStatuses
BedsOf(r) == {b \in Beds : Live(b) /\ bed[b].room = r}
StayExists(s) == stay[s].status \in {"ACTIVE", "VACATED"}
StaysOf(u) == {s \in Stays : StayExists(s) /\ stay[s].user = u}
ActiveStaysOf(u) == {s \in StaysOf(u) : stay[s].status = "ACTIVE"}

(* Allocation rows, in a given version of the table.                       *)
Rows(rows) == {a \in AllocationIds : rows[a] \notin {None, Gone}}
Open(rows) == {a \in Rows(rows) : rows[a].to = NoDay}
OpenOfStay(s) == {a \in Open(alloc) : alloc[a].stay = s}
OpenOnBed(b) == {a \in Open(alloc) : alloc[a].bed = b}
RowsOnBed(b) == {a \in Rows(alloc) : alloc[a].bed = b}

Busy(p) == pc[p] # "idle" \/ (p = Nightly /\ queue # {})
MayStart(p) == Cardinality({q \in Procs \ {p} : Busy(q)}) < MaxInFlight
Finish(p) == pc' = [pc EXCEPT ![p] = "idle"] /\ req' = [req EXCEPT ![p] = NoRequest]
Begin(p, op, label, r) ==
    /\ op \in Ops /\ pc[p] = "idle" /\ MayStart(p)
    /\ pc' = [pc EXCEPT ![p] = label]
    /\ req' = [req EXCEPT ![p] = [r EXCEPT !.op = op]]
    /\ UNCHANGED store
Goto(p, label) == pc' = [pc EXCEPT ![p] = label] /\ UNCHANGED <<store, job>>
At(p, label, op) == pc[p] = label /\ req[p].op = op

(* Update by id: the rows must be there, and a row may not end before it   *)
(* began.                                                                  *)
MayClose(rows, day) == rows \subseteq Rows(alloc) /\ \A a \in rows : alloc[a].from <= day
Closed(rows, day) ==
    [a \in AllocationIds |-> IF a \in rows THEN [alloc[a] EXCEPT !.to = day] ELSE alloc[a]]
BedsIn(rows) == {alloc[a].bed : a \in rows}

(* Mutant: without the partial unique indexes.                             *)
MayOpen_NoIndex(rows, s, b) == Live(b)

(* The two partial unique indexes, and the foreign key on the bed.         *)
MayOpen(rows, s, b) ==
    Live(b) /\ \A a \in Open(rows) : rows[a].stay # s /\ rows[a].bed # b

(* Mutant: the row gets no first day.                                      *)
openAllocation_Undated(rows, s, b, day) ==
    LET new == CHOOSE a \in AllocationIds : rows[a] = None
    IN  [rows EXCEPT ![new] = [stay |-> s, bed |-> b, from |-> NoDay, to |-> NoDay]]

(* A fresh row open from day, and the beds freed and taken with it.        *)
openAllocation(rows, s, b, day) ==
    LET new == CHOOSE a \in AllocationIds : rows[a] = None
    IN  [rows EXCEPT ![new] = [stay |-> s, bed |-> b, from |-> day, to |-> NoDay]]
RoomForARow(rows) == \E a \in AllocationIds : rows[a] = None
(* Mutant: the bed that was left stays OCCUPIED.                           *)
bedsAfter_Kept(freed, taken) ==
    [b \in Beds |-> IF b = taken THEN [bed[b] EXCEPT !.status = "OCCUPIED"] ELSE bed[b]]
bedsAfter(freed, taken) ==
    [b \in Beds |-> IF b = taken THEN [bed[b] EXCEPT !.status = "OCCUPIED"]
                    ELSE IF b \in freed THEN [bed[b] EXCEPT !.status = "AVAILABLE"]
                    ELSE bed[b]]

assertBedAssignable(b) ==
    /\ Live(b) /\ bed[b].status \notin {"MAINTENANCE", "BLOCKED"}
    /\ room[bed[b].room].status = "ACTIVE"

AssertBed(p) ==
    /\ pc[p] = "bed" /\ assertBedAssignable(req[p].bed)
    /\ Goto(p, "write")
    /\ UNCHANGED req
-----------------------------------------------------------------------------
(* createResident: the account, then the person's active stay, then the    *)
(* bed are read; b = None is a resident added without a bed.               *)
StartCreate(p, u, b, day) ==
    /\ Begin(p, "create", "active",
             [NoRequest EXCEPT !.user = u, !.bed = b, !.day = day,
                               !.status = IF user[u].known THEN user[u].role ELSE "none"])
    /\ UNCHANGED job

FindActiveStay(p) ==
    /\ At(p, "active", "create")
    /\ req[p].status # "none" => ActiveStaysOf(req[p].user) = {}
    /\ Goto(p, IF req[p].bed = None THEN "write" ELSE "bed")
    /\ UNCHANGED req

(* An account read as missing is inserted, and its phone is unique; one    *)
(* that was read must still be there.  Bills are raised with the stay.     *)
CommitCreate(p, leaves, owes) ==
    LET r == req[p]
        s == CHOOSE x \in Stays : stay[x].status = "none" /\ stay[x].user = None
        role == IF r.status = "RESIDENT" THEN user[r.user].role ELSE "RESIDENT"
    IN  /\ At(p, "write", "create")
        /\ \E x \in Stays : stay[x].status = "none" /\ stay[x].user = None
        /\ user[r.user].known = (r.status # "none")
        /\ user' = [user EXCEPT ![r.user] = [known |-> TRUE, role |-> role, member |-> "RESIDENT"]]
        /\ stay' = [stay EXCEPT ![s] = [status |-> "ACTIVE", user |-> r.user,
                                        leaves |-> leaves, owes |-> owes]]
        /\ IF r.bed = None
           THEN UNCHANGED <<alloc, bed>>
           ELSE /\ RoomForARow(alloc) /\ MayOpen(alloc, s, r.bed)
                /\ alloc' = openAllocation(alloc, s, r.bed, r.day)
                /\ bed' = bedsAfter({}, r.bed)
        /\ Finish(p) /\ UNCHANGED <<room, job>>
-----------------------------------------------------------------------------
(* Mutant: an ended stay is given a bed.                                   *)
StartMove_AnyStay(p, s, b, day) ==
    /\ StayExists(s) /\ OpenOfStay(s) \cap OpenOnBed(b) = {}
    /\ Begin(p, "move", "bed", [NoRequest EXCEPT !.stay = s, !.bed = b, !.day = day,
                                                 !.rows = OpenOfStay(s)])
    /\ UNCHANGED job

(* moveResident, also the first bed of a stay.                             *)
StartMove(p, s, b, day) ==
    /\ stay[s].status = "ACTIVE" /\ OpenOfStay(s) \cap OpenOnBed(b) = {}
    /\ Begin(p, "move", "bed", [NoRequest EXCEPT !.stay = s, !.bed = b, !.day = day,
                                                 !.rows = OpenOfStay(s)])
    /\ UNCHANGED job

CommitMove(p, owes) ==
    LET r == req[p]
        after == Closed(r.rows, r.day)
    IN  /\ At(p, "write", "move")
        /\ StayExists(r.stay) /\ MayClose(r.rows, r.day)
        /\ RoomForARow(after) /\ MayOpen(after, r.stay, r.bed)
        /\ alloc' = openAllocation(after, r.stay, r.bed, r.day)
        /\ bed' = bedsAfter(BedsIn(r.rows), r.bed)
        /\ owes => r.rows = {}
        /\ stay' = [stay EXCEPT ![r.stay].owes = @ \/ owes]
        /\ Finish(p) /\ UNCHANGED <<user, room, job>>
-----------------------------------------------------------------------------
(* exitResident: refused while anything is owed.                           *)
StartExit(p, s, day) ==
    /\ stay[s].status = "ACTIVE" /\ ~stay[s].owes
    /\ Begin(p, "exit", "other", [NoRequest EXCEPT !.stay = s, !.user = stay[s].user,
                                                   !.day = day, !.rows = OpenOfStay(s)])
    /\ UNCHANGED job

(* Mutant: other stays are not looked at.                                  *)
FindOtherStay_Skipped(p) == pc[p] = "other" /\ Goto(p, "leave") /\ UNCHANGED req
FindOtherStay(p) ==
    /\ pc[p] = "other"
    /\ req' = [req EXCEPT ![p].flag = ActiveStaysOf(req[p].user) \ {req[p].stay} # {}]
    /\ Goto(p, "leave")

demoted(u, op) ==
    [user EXCEPT ![u].member = IF @ = "RESIDENT" THEN "NON_RESIDENT" ELSE @,
                 ![u].role = IF op = "exit" THEN "NON_RESIDENT" ELSE @]

(* Shared by exitResident and the job: the rows that were read are ended   *)
(* and their beds freed; the job leaves the account's own role alone.      *)
CommitExit(p) ==
    LET r == req[p]
    IN  /\ pc[p] = "leave" /\ StayExists(r.stay) /\ MayClose(r.rows, r.day)
        /\ alloc' = Closed(r.rows, r.day)
        /\ bed' = bedsAfter(BedsIn(r.rows), None)
        /\ stay' = [stay EXCEPT ![r.stay].status = "VACATED"]
        /\ user' = IF r.flag THEN user ELSE demoted(r.user, r.op)
        /\ Finish(p) /\ UNCHANGED <<room, job>>

(* exitMaturedNotices: listed once, then ended one by one.                 *)
exitMaturedNotices(first) ==
    /\ "job" \in Ops /\ ~Busy(Nightly) /\ MayStart(Nightly) /\ period < first
    /\ period' = first
    /\ queue' = {[NoRequest EXCEPT !.stay = s, !.user = stay[s].user, !.day = stay[s].leaves,
                                   !.rows = OpenOfStay(s)] :
                    s \in {x \in Stays : /\ stay[x].status = "ACTIVE" /\ ~stay[x].owes
                                         /\ stay[x].leaves # NoDay /\ stay[x].leaves < first}}
    /\ UNCHANGED <<store, pc, req>>

NextMatured(r) ==
    /\ Begin(Nightly, "job", "other", r)
    /\ queue' = queue \ {r} /\ UNCHANGED period
-----------------------------------------------------------------------------
(* updateResident: one statement, whatever the stay's status was; only     *)
(* VACATED cannot be asked for.                                            *)
updateResident(s, leaves) ==
    /\ "edit" \in Ops /\ MayStart(None) /\ StayExists(s)
    /\ \E status \in {"ACTIVE", stay[s].status} :
          stay' = [stay EXCEPT ![s].status = status, ![s].leaves = leaves]
    /\ UNCHANGED <<user, alloc, bed, room, job, pc, req>>

(* deleteResidentData: the stays are read, then deleted with their         *)
(* allocations, then the account, which any other stay keeps.              *)
StartDelete(p, u) ==
    /\ StaysOf(u) # {} /\ ActiveStaysOf(u) = {}
    /\ Begin(p, "delete", "delete", [NoRequest EXCEPT !.user = u, !.rows = StaysOf(u)])
    /\ UNCHANGED job

CommitDelete(p) ==
    LET r == req[p]
    IN  /\ pc[p] = "delete" /\ user[r.user].known /\ StaysOf(r.user) \subseteq r.rows
        /\ stay' = [s \in Stays |-> IF s \in r.rows THEN [stay[s] EXCEPT !.status = "none"]
                                                    ELSE stay[s]]
        /\ alloc' = [a \in AllocationIds |->
                        IF a \in Rows(alloc) /\ alloc[a].stay \in r.rows THEN Gone ELSE alloc[a]]
        /\ user' = [user EXCEPT ![r.user] = [known |-> FALSE, role |-> "NON_RESIDENT",
                                             member |-> "NONE"]]
        /\ Finish(p) /\ UNCHANGED <<bed, room, job>>

(* Bills and payments, as far as they decide whether a stay owes.          *)
BillChanges(s, owes) ==
    /\ "bill" \in Ops /\ MayStart(None) /\ StayExists(s)
    /\ stay' = [stay EXCEPT ![s].owes = owes]
    /\ UNCHANGED <<user, alloc, bed, room, job, pc, req>>
-----------------------------------------------------------------------------
(* Beds from label first to label last are added to room r.                *)
Unborn == {b \in Beds : bed[b].status = "unborn"}
addBeds(r, first, last) ==
    LET new == CHOOSE f \in [first..last -> Unborn] : \A x, y \in first..last : f[x] = f[y] => x = y
    IN  [b \in Beds |-> IF \E x \in first..last : new[x] = b
                        THEN [status |-> "AVAILABLE", room |-> r,
                              label |-> CHOOSE x \in first..last : new[x] = b]
                        ELSE bed[b]]

createRoom(r, size) ==
    /\ "room" \in Ops /\ MayStart(None) /\ room[r].status = "none" /\ size <= Cardinality(Unborn)
    /\ room' = [room EXCEPT ![r] = [status |-> "ACTIVE", capacity |-> size]]
    /\ bed' = addBeds(r, 1, size)
    /\ UNCHANGED <<user, stay, alloc, job, pc, req>>

(* Mutant: one bed too few is cut off.                                     *)
beyond_LastKept(beds, size) ==
    {b \in beds : Cardinality({c \in beds : bed[c].label < bed[b].label}) > size}

(* existing.beds.slice(newCapacity), in label order.                       *)
beyond(beds, size) ==
    {b \in beds : Cardinality({c \in beds : bed[c].label < bed[b].label}) >= size}

(* updateRoom: beds are counted before the transaction.                    *)
StartUpdateRoom(p, r, size, status) ==
    /\ room[r].status \notin {"none", "deleted"}
    /\ \A b \in beyond(BedsOf(r), size) : bed[b].status # "OCCUPIED"
    /\ Begin(p, "resize", "resize", [NoRequest EXCEPT !.room = r, !.number = size,
                                                      !.status = status, !.rows = BedsOf(r)])
    /\ UNCHANGED job

CommitUpdateRoom(p) ==
    LET r == req[p]
        count == Cardinality(r.rows)
        gone == {b \in beyond(r.rows, r.number) : Live(b)}
    IN  /\ pc[p] = "resize" /\ room[r.room].status \notin {"none", "deleted"}
        /\ room' = [room EXCEPT ![r.room] = [status |-> r.status, capacity |-> r.number]]
        /\ IF r.number > count
           THEN /\ r.number - count <= Cardinality(Unborn)
                /\ \A b \in BedsOf(r.room) : bed[b].label \notin (count + 1)..r.number
                /\ bed' = addBeds(r.room, count + 1, r.number)
           ELSE /\ \A b \in gone : RowsOnBed(b) = {}
                /\ bed' = [b \in Beds |-> IF b \in gone THEN [bed[b] EXCEPT !.status = "deleted"]
                                                        ELSE bed[b]]
        /\ Finish(p) /\ UNCHANGED <<user, stay, alloc, job>>

StartDeleteRoom(p, r) ==
    /\ room[r].status \notin {"none", "deleted"}
    /\ \A b \in BedsOf(r) : bed[b].status # "OCCUPIED"
    /\ Begin(p, "unroom", "unroom", [NoRequest EXCEPT !.room = r])
    /\ UNCHANGED job

(* Mutant: allocations do not hold their bed.                              *)
CommitDeleteRoom_Cascade(p) ==
    LET r == req[p].room
    IN  /\ pc[p] = "unroom" /\ room[r].status \notin {"none", "deleted"}
        /\ room' = [room EXCEPT ![r].status = "deleted"]
        /\ bed' = [b \in Beds |-> IF b \in BedsOf(r) THEN [bed[b] EXCEPT !.status = "deleted"]
                                                    ELSE bed[b]]
        /\ Finish(p) /\ UNCHANGED <<user, stay, alloc, job>>
CommitDeleteRoom(p) ==
    LET r == req[p].room
    IN  /\ pc[p] = "unroom" /\ room[r].status \notin {"none", "deleted"}
        /\ \A b \in BedsOf(r) : RowsOnBed(b) = {}
        /\ room' = [room EXCEPT ![r].status = "deleted"]
        /\ bed' = [b \in Beds |-> IF b \in BedsOf(r) THEN [bed[b] EXCEPT !.status = "deleted"]
                                                    ELSE bed[b]]
        /\ Finish(p) /\ UNCHANGED <<user, stay, alloc, job>>

(* Mutant: the open allocation is not looked at.                           *)
StartBedStatus_Unchecked(p, b, status) ==
    /\ Live(b)
    /\ Begin(p, "status", "status", [NoRequest EXCEPT !.bed = b, !.status = status])
    /\ UNCHANGED job

(* updateBedStatus: that the bed is free is read before it is written.     *)
StartBedStatus(p, b, status) ==
    /\ Live(b) /\ OpenOnBed(b) = {}
    /\ Begin(p, "status", "status", [NoRequest EXCEPT !.bed = b, !.status = status])
    /\ UNCHANGED job

WriteBedStatus(p) ==
    /\ pc[p] = "status" /\ Live(req[p].bed)
    /\ bed' = [bed EXCEPT ![req[p].bed].status = req[p].status]
    /\ Finish(p) /\ UNCHANGED <<user, stay, alloc, room, job>>
-----------------------------------------------------------------------------
(* A check, a constraint, a timeout or a crash ends a transaction without  *)
(* a trace; the job catches nothing, so its whole run ends with it.        *)
GiveUp(p) ==
    /\ pc[p] # "idle" /\ Finish(p)
    /\ queue' = IF p = Nightly THEN {} ELSE queue
    /\ UNCHANGED <<store, period>>

(* An instance without bills, the job or maintenance leaves out what only  *)
(* they look at.                                                           *)
Owing   == IF "bill" \in Ops THEN BOOLEAN ELSE {FALSE}
Leaving == IF "job" \in Ops THEN Days \cup {NoDay} ELSE {NoDay}
Service == IF "status" \in Ops THEN {"ACTIVE", "MAINTENANCE"} ELSE {"ACTIVE"}

Request(p) ==
    \/ \E u \in Users, b \in Beds \cup {None}, day \in Days : StartCreate(p, u, b, day)
    \/ \E s \in Stays, b \in Beds, day \in Days : StartMove(p, s, b, day)
    \/ \E s \in Stays, day \in Days : StartExit(p, s, day)
    \/ \E u \in Users : StartDelete(p, u)
    \/ \E r \in Rooms, size \in Capacities, status \in Service :
          StartUpdateRoom(p, r, size, status)
    \/ \E r \in Rooms : StartDeleteRoom(p, r)
    \/ \E b \in Beds, status \in {"AVAILABLE", "MAINTENANCE"} : StartBedStatus(p, b, status)

Progress(p) ==
    \/ FindActiveStay(p)
    \/ AssertBed(p)
    \/ \E leaves \in Leaving, owes \in Owing : CommitCreate(p, leaves, owes)
    \/ \E owes \in Owing : CommitMove(p, owes)
    \/ FindOtherStay(p)
    \/ CommitExit(p)
    \/ CommitDelete(p)
    \/ CommitUpdateRoom(p)
    \/ CommitDeleteRoom(p)
    \/ WriteBedStatus(p)
    \/ GiveUp(p)

AtOnce ==
    \/ \E s \in Stays, leaves \in Leaving : updateResident(s, leaves)
    \/ \E s \in Stays, owes \in BOOLEAN : BillChanges(s, owes)
    \/ \E r \in Rooms, size \in Capacities : createRoom(r, size)

Next ==
    \/ \E p \in Workers : Request(p)
    \/ \E p \in Procs : Progress(p)
    \/ \E first \in Periods : exitMaturedNotices(first)
    \/ \E r \in queue : NextMatured(r)
    \/ AtOnce

Spec == Init /\ [][Next]_vars
=============================================================================
