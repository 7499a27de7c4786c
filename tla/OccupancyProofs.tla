-------------------------- MODULE OccupancyProofs --------------------------
(***************************************************************************)
(* What holds of the beds for any number of people, stays, beds and        *)
(* transactions in flight.                                                 *)
(***************************************************************************)
EXTENDS OccupancyProperties, TLAPS, FiniteSetTheorems

(* How a step may touch the transactions.                                  *)
LEMMA BeginAsks ==
    ASSUME RequestsOK, NEW p \in Procs, NEW op, NEW label \in Labels, NEW r \in Requests,
           Begin(p, op, label, r), Asked(label, [r EXCEPT !.op = op]),
           queue' \subseteq queue, period' = period
    PROVE  RequestsOK'
<1> DEFINE asked == [r EXCEPT !.op = op]
<1>1. asked \in Requests
  BY DEF Requests, Begin
<1>2. pc' = [pc EXCEPT ![p] = label] /\ req' = [req EXCEPT ![p] = asked]
  BY DEF Begin
<1> HIDE DEF asked
<1>3. pc' \in [Procs -> Labels] /\ req' \in [Procs -> Requests]
  BY <1>1, <1>2 DEF RequestsOK
<1>4. ASSUME NEW q \in Procs PROVE Asked(pc'[q], req'[q])
  BY <1>2 DEF RequestsOK, asked
<1> QED
  BY <1>3, <1>4 DEF RequestsOK

LEMMA NoRequestTypes == NoRequest \in Requests /\ Asked("idle", NoRequest)
BY OccupancyAssumption DEF NoRequest, Requests, Roles, Asked, NoDay

LEMMA FinishAsks ==
    ASSUME RequestsOK, NEW p \in Procs, Finish(p), queue' \subseteq queue, period' = period
    PROVE  RequestsOK'
<1>1. pc' = [pc EXCEPT ![p] = "idle"] /\ req' = [req EXCEPT ![p] = NoRequest]
  BY DEF Finish
<1>2. pc' \in [Procs -> Labels] /\ req' \in [Procs -> Requests]
  BY <1>1, NoRequestTypes DEF RequestsOK, Labels
<1>3. ASSUME NEW q \in Procs PROVE Asked(pc'[q], req'[q])
  BY <1>1, NoRequestTypes DEF RequestsOK
<1> QED
  BY <1>2, <1>3 DEF RequestsOK

LEMMA GotoAsks ==
    ASSUME RequestsOK, NEW p \in Procs, NEW label \in Labels, Goto(p, label),
           NEW flag \in BOOLEAN, req' = [req EXCEPT ![p].flag = flag],
           Asked(label, [req[p] EXCEPT !.flag = flag])
    PROVE  RequestsOK'
<1>1. /\ pc' = [pc EXCEPT ![p] = label] /\ queue' = queue /\ period' = period
      /\ req' = [req EXCEPT ![p] = [req[p] EXCEPT !.flag = flag]]
  BY DEF Goto, job, RequestsOK
<1>2. [req[p] EXCEPT !.flag = flag] \in Requests
  BY DEF RequestsOK, Requests
<1>3. pc' \in [Procs -> Labels] /\ req' \in [Procs -> Requests]
  BY <1>1, <1>2 DEF RequestsOK
<1>4. ASSUME NEW q \in Procs PROVE Asked(pc'[q], req'[q])
  BY <1>1 DEF RequestsOK
<1> QED
  BY <1>1, <1>3, <1>4 DEF RequestsOK
-----------------------------------------------------------------------------
(* What a request carries when it starts.                                  *)
LEMMA CreateAsks ==
    ASSUME TypeOK, NEW p \in Procs, NEW u \in Users, NEW b \in Beds \cup {None},
           NEW day \in Days, StartCreate(p, u, b, day)
    PROVE  RequestsOK'
<1> DEFINE status == IF user[u].known THEN user[u].role ELSE "none"
           r == [NoRequest EXCEPT !.user = u, !.bed = b, !.day = day, !.status = status]
<1>1. status \in Roles \cup {"none"}
  BY DEF TypeOK, RowsOK, UserRows
<1>2. Begin(p, "create", "active", r) /\ UNCHANGED job
  BY DEF StartCreate
<1> HIDE DEF status
<1>3. r \in Requests /\ Asked("active", [r EXCEPT !.op = "create"])
  BY <1>1, NoRequestTypes DEF Requests, NoRequest, Asked
<1> QED
  BY <1>2, <1>3, BeginAsks DEF Labels, job, TypeOK

LEMMA OpenAreIds == ASSUME NEW s PROVE OpenOfStay(s) \subseteq AllocationIds
BY DEF OpenOfStay, Open, Rows

LEMMA MoveAsks ==
    ASSUME TypeOK, NEW p \in Procs, NEW s \in Stays, NEW b \in Beds, NEW day \in Days,
           StartMove(p, s, b, day)
    PROVE  RequestsOK'
<1> DEFINE r == [NoRequest EXCEPT !.stay = s, !.bed = b, !.day = day, !.rows = OpenOfStay(s)]
<1>1. r \in Requests /\ Asked("bed", [r EXCEPT !.op = "move"])
  BY OpenAreIds, NoRequestTypes DEF Requests, NoRequest, Asked
<1> QED
  BY <1>1, BeginAsks DEF StartMove, Labels, job, TypeOK

LEMMA ExitAsks ==
    ASSUME TypeOK, NEW p \in Procs, NEW s \in Stays, NEW day \in Days, StartExit(p, s, day)
    PROVE  RequestsOK'
<1> DEFINE r == [NoRequest EXCEPT !.stay = s, !.user = stay[s].user, !.day = day,
                                  !.rows = OpenOfStay(s)]
<1>1. stay[s].user \in Users \cup {None}
  BY DEF TypeOK, RowsOK, StayRows
<1>2. r \in Requests /\ Asked("other", [r EXCEPT !.op = "exit"])
  BY <1>1, OpenAreIds, NoRequestTypes DEF Requests, NoRequest, Asked, ExitAsked
<1> QED
  BY <1>2, BeginAsks DEF StartExit, Labels, job, TypeOK

LEMMA DeleteAsks ==
    ASSUME TypeOK, NEW p \in Procs, NEW u \in Users, StartDelete(p, u)
    PROVE  RequestsOK'
<1> DEFINE r == [NoRequest EXCEPT !.user = u, !.rows = StaysOf(u)]
<1>1. StaysOf(u) \subseteq Stays
  BY DEF StaysOf
<1>2. r \in Requests /\ Asked("delete", [r EXCEPT !.op = "delete"])
  BY <1>1, NoRequestTypes DEF Requests, NoRequest, Asked
<1> QED
  BY <1>2, BeginAsks DEF StartDelete, Labels, job, TypeOK

LEMMA UpdateRoomAsks ==
    ASSUME TypeOK, NEW p \in Procs, NEW r \in Rooms, NEW size \in Capacities,
           NEW status \in Service, StartUpdateRoom(p, r, size, status)
    PROVE  RequestsOK'
<1> DEFINE asked == [NoRequest EXCEPT !.room = r, !.number = size, !.status = status,
                                      !.rows = BedsOf(r)]
<1>1. BedsOf(r) \subseteq Beds /\ size \in Nat /\ status \in RoomStatuses
  BY OccupancyAssumption DEF BedsOf, Service, RoomStatuses
<1>2. asked \in Requests /\ Asked("resize", [asked EXCEPT !.op = "resize"])
  BY <1>1, NoRequestTypes DEF Requests, NoRequest, Asked
<1> QED
  BY <1>2, BeginAsks DEF StartUpdateRoom, Labels, job, TypeOK

LEMMA DeleteRoomAsks ==
    ASSUME TypeOK, NEW p \in Procs, NEW r \in Rooms, StartDeleteRoom(p, r)
    PROVE  RequestsOK'
<1> DEFINE asked == [NoRequest EXCEPT !.room = r]
<1>1. asked \in Requests /\ Asked("unroom", [asked EXCEPT !.op = "unroom"])
  BY NoRequestTypes DEF Requests, NoRequest, Asked
<1> QED
  BY <1>1, BeginAsks DEF StartDeleteRoom, Labels, job, TypeOK

LEMMA BedStatusAsks ==
    ASSUME TypeOK, NEW p \in Procs, NEW b \in Beds, NEW status \in {"AVAILABLE", "MAINTENANCE"},
           StartBedStatus(p, b, status)
    PROVE  RequestsOK'
<1> DEFINE asked == [NoRequest EXCEPT !.bed = b, !.status = status]
<1>1. asked \in Requests /\ Asked("status", [asked EXCEPT !.op = "status"])
  BY NoRequestTypes DEF Requests, NoRequest, Asked, RoomStatuses
<1> QED
  BY <1>1, BeginAsks DEF StartBedStatus, Labels, job, TypeOK

LEMMA MaturedAsks ==
    ASSUME TypeOK, NEW first \in Periods, exitMaturedNotices(first)
    PROVE  RequestsOK'
<1> DEFINE asked(s) == [NoRequest EXCEPT !.stay = s, !.user = stay[s].user,
                                         !.day = stay[s].leaves, !.rows = OpenOfStay(s)]
<1>1. ASSUME NEW s \in Stays, stay[s].leaves # NoDay
      PROVE  asked(s) \in Requests /\ ExitAsked(asked(s))
  <2>1. stay[s].user \in Users \cup {None} /\ stay[s].leaves \in Days
    BY <1>1 DEF TypeOK, RowsOK, StayRows
  <2> QED
    BY <2>1, OpenAreIds, NoRequestTypes DEF Requests, NoRequest, ExitAsked
<1> HIDE DEF asked
<1>2. queue' \subseteq {r \in Requests : ExitAsked(r)}
  <2>1. \A r \in queue' : \E s \in Stays : stay[s].leaves # NoDay /\ r = asked(s)
    BY DEF exitMaturedNotices, asked
  <2> QED
    BY <2>1, <1>1
<1>3. period' \in Nat /\ UNCHANGED <<pc, req>>
  BY OccupancyAssumption DEF exitMaturedNotices
<1> QED
  BY <1>2, <1>3 DEF RequestsOK, TypeOK

LEMMA NextMaturedAsks ==
    ASSUME TypeOK, NEW r \in queue, NextMatured(r)
    PROVE  RequestsOK'
<1>1. r \in Requests /\ ExitAsked(r)
  BY DEF TypeOK, RequestsOK
<1>2. Asked("other", [r EXCEPT !.op = "job"])
  BY <1>1 DEF Asked, ExitAsked, Requests
<1> QED
  BY <1>1, <1>2, BeginAsks DEF NextMatured, Labels, Procs, TypeOK
-----------------------------------------------------------------------------
(* The operators on rows keep them well formed.                            *)
Tables == [AllocationIds -> AllocationRows \cup {None, Gone}]

LEMMA RowsAreRows ==
    ASSUME NEW t \in Tables, NEW a \in AllocationIds
    PROVE  a \in Rows(t) <=> t[a] \in AllocationRows
BY OccupancyAssumption DEF Tables, Rows

LEMMA ClosedTypes ==
    ASSUME RowsOK, NEW rows, NEW day \in Days, MayClose(rows, day)
    PROVE  Closed(rows, day) \in Tables
<1>1. alloc \in Tables
  BY DEF RowsOK, Tables
<1>2. ASSUME NEW a \in AllocationIds, a \in rows
      PROVE  [alloc[a] EXCEPT !.to = day] \in AllocationRows
  BY <1>1, <1>2, RowsAreRows DEF MayClose, AllocationRows
<1> QED
  BY <1>1, <1>2 DEF Closed, Tables

LEMMA OpenedTypes ==
    ASSUME NEW t \in Tables, NEW s \in Stays, NEW b \in Beds, NEW day \in Days
    PROVE  openAllocation(t, s, b, day) \in Tables
<1>1. [stay |-> s, bed |-> b, from |-> day, to |-> NoDay] \in AllocationRows
  BY DEF AllocationRows
<1> QED
  BY <1>1 DEF openAllocation, Tables

LEMMA BedsAfterTypes ==
    ASSUME RowsOK, NEW freed, NEW taken
    PROVE  bedsAfter(freed, taken) \in [Beds -> BedRows]
BY DEF RowsOK, bedsAfter, BedRows, BedStatuses

LEMMA AddedBedsTypes ==
    ASSUME RowsOK, NEW r \in Rooms \cup {None}, NEW first \in Nat, NEW last \in Nat
    PROVE  addBeds(r, first, last) \in [Beds -> BedRows]
<1> DEFINE new == CHOOSE f \in [first..last -> Unborn] :
                     \A x, y \in first..last : f[x] = f[y] => x = y
           label(b) == CHOOSE x \in first..last : new[x] = b
<1>1. addBeds(r, first, last) =
          [b \in Beds |-> IF \E x \in first..last : new[x] = b
                          THEN [status |-> "AVAILABLE", room |-> r, label |-> label(b)]
                          ELSE bed[b]]
  BY DEF addBeds
<1> HIDE DEF new
<1>2. ASSUME NEW b \in Beds, \E x \in first..last : new[x] = b
      PROVE  label(b) \in Nat
  <2>1. label(b) \in first..last
    BY <1>2
  <2> QED
    BY <2>1
<1> HIDE DEF label
<1> QED
  BY <1>1, <1>2 DEF RowsOK, BedRows, BedStatuses

LEMMA DemotedTypes ==
    ASSUME RowsOK, NEW u, NEW op
    PROVE  demoted(u, op) \in [Users -> UserRows]
<1> DEFINE member == IF user[u].member = "RESIDENT" THEN "NON_RESIDENT" ELSE user[u].member
           role == IF op = "exit" THEN "NON_RESIDENT" ELSE user[u].role
<1>1. demoted(u, op) = [user EXCEPT ![u] = [[user[u] EXCEPT !.member = member]
                                               EXCEPT !.role = role]]
  BY DEF demoted, RowsOK, UserRows
<1>2. u \in Users => member \in Roles \cup {"NONE"} /\ role \in Roles
  BY DEF RowsOK, UserRows, Roles
<1> HIDE DEF member, role
<1> QED
  BY <1>1, <1>2 DEF RowsOK, UserRows
-----------------------------------------------------------------------------
(* Each commit keeps the rows well formed.                                 *)
LEMMA CreateTypes ==
    ASSUME TypeOK, NEW p \in Procs, NEW leaves \in Leaving, NEW owes \in Owing,
           CommitCreate(p, leaves, owes)
    PROVE  RowsOK'
<1> DEFINE r == req[p]
           s == CHOOSE x \in Stays : stay[x].status = "none" /\ stay[x].user = None
           role == IF r.status = "RESIDENT" THEN user[r.user].role ELSE "RESIDENT"
<1>1. r \in Requests /\ r.day \in Days
  BY DEF TypeOK, RequestsOK, CommitCreate, At, Asked
<1>2. s \in Stays
  BY DEF CommitCreate
<1>3. leaves \in Days \cup {NoDay} /\ owes \in BOOLEAN
  BY DEF Leaving, Owing
<1>4. user' \in [Users -> UserRows]
  <2>1. user' = [user EXCEPT ![r.user] = [known |-> TRUE, role |-> role, member |-> "RESIDENT"]]
    BY DEF CommitCreate
  <2>2. r.user \in Users => role \in Roles
    BY DEF TypeOK, RowsOK, UserRows, Roles
  <2> HIDE DEF r, role
  <2> QED
    BY <2>1, <2>2 DEF TypeOK, RowsOK, UserRows, Roles
<1>5. stay' \in [Stays -> StayRows]
  <2>1. stay' = [stay EXCEPT ![s] = [status |-> "ACTIVE", user |-> r.user,
                                     leaves |-> leaves, owes |-> owes]]
    BY DEF CommitCreate
  <2>2. r.user \in Users \cup {None}
    BY <1>1 DEF Requests
  <2> HIDE DEF r, s
  <2> QED
    BY <2>1, <2>2, <1>3 DEF TypeOK, RowsOK, StayRows
<1>6. alloc' \in Tables /\ bed' \in [Beds -> BedRows]
  <2>1. CASE r.bed = None
    BY <2>1 DEF CommitCreate, TypeOK, RowsOK, Tables
  <2>2. CASE r.bed # None
    <3>1. alloc' = openAllocation(alloc, s, r.bed, r.day) /\ bed' = bedsAfter({}, r.bed)
      BY <2>2 DEF CommitCreate
    <3>2. r.bed \in Beds /\ alloc \in Tables
      BY <1>1, <2>2 DEF Requests, TypeOK, RowsOK, Tables
    <3> HIDE DEF r, s
    <3> QED
      BY <3>1, <3>2, <1>1, <1>2, OpenedTypes, BedsAfterTypes DEF TypeOK
  <2> QED
    BY <2>1, <2>2
<1> QED
  BY <1>4, <1>5, <1>6 DEF CommitCreate, TypeOK, RowsOK, Tables

LEMMA MoveTypes ==
    ASSUME TypeOK, NEW p \in Procs, NEW owes \in Owing, CommitMove(p, owes)
    PROVE  RowsOK'
<1> DEFINE r == req[p]
           after == Closed(r.rows, r.day)
<1>1. r.stay \in Stays /\ r.bed \in Beds /\ r.day \in Days
  BY DEF TypeOK, RequestsOK, CommitMove, At, Asked
<1>2. after \in Tables
  BY <1>1, ClosedTypes DEF CommitMove, TypeOK
<1>3. /\ alloc' = openAllocation(after, r.stay, r.bed, r.day)
      /\ bed' = bedsAfter(BedsIn(r.rows), r.bed)
      /\ stay' = [stay EXCEPT ![r.stay].owes = @ \/ owes]
      /\ UNCHANGED <<user, room>>
  BY DEF CommitMove
<1> HIDE DEF after, r
<1>4. alloc' \in Tables /\ bed' \in [Beds -> BedRows]
  BY <1>1, <1>2, <1>3, OpenedTypes, BedsAfterTypes DEF TypeOK
<1>5. stay' \in [Stays -> StayRows]
  <2> DEFINE still == stay[r.stay].owes \/ owes
  <2>1. still \in BOOLEAN /\ stay' = [stay EXCEPT ![r.stay] = [stay[r.stay] EXCEPT !.owes = still]]
    BY <1>3
  <2> HIDE DEF still
  <2> QED
    BY <2>1, <1>1 DEF TypeOK, RowsOK, StayRows
<1> QED
  BY <1>3, <1>4, <1>5 DEF TypeOK, RowsOK, Tables

LEMMA ExitTypes ==
    ASSUME TypeOK, NEW p \in Procs, CommitExit(p)
    PROVE  RowsOK'
<1> DEFINE r == req[p]
<1>1. r.day \in Days
  BY DEF TypeOK, RequestsOK, CommitExit, Asked, ExitAsked
<1>2. alloc' \in Tables /\ bed' \in [Beds -> BedRows]
  BY <1>1, ClosedTypes, BedsAfterTypes DEF CommitExit, TypeOK
<1>3. user' \in [Users -> UserRows]
  BY DemotedTypes DEF CommitExit, TypeOK, RowsOK
<1>4. stay' \in [Stays -> StayRows]
  BY DEF CommitExit, TypeOK, RowsOK, StayRows
<1> QED
  BY <1>2, <1>3, <1>4 DEF CommitExit, TypeOK, RowsOK, Tables

LEMMA DeleteTypes ==
    ASSUME TypeOK, NEW p \in Procs, CommitDelete(p)
    PROVE  RowsOK'
<1>1. stay' \in [Stays -> StayRows]
  BY DEF CommitDelete, TypeOK, RowsOK, StayRows
<1>2. alloc' \in Tables
  BY DEF CommitDelete, TypeOK, RowsOK, Tables
<1>3. user' \in [Users -> UserRows]
  BY DEF CommitDelete, TypeOK, RowsOK, UserRows, Roles
<1> QED
  BY <1>1, <1>2, <1>3 DEF CommitDelete, TypeOK, RowsOK, Tables

LEMMA UpdateRoomTypes ==
    ASSUME TypeOK, NEW p \in Procs, CommitUpdateRoom(p)
    PROVE  RowsOK'
<1> DEFINE r == req[p]
           count == Cardinality(r.rows)
           gone == {b \in beyond(r.rows, r.number) : Live(b)}
<1>1. r \in Requests /\ r.rows \subseteq Beds /\ r.status \in RoomStatuses
  BY DEF TypeOK, RequestsOK, CommitUpdateRoom, Asked
<1>2. count \in Nat /\ r.number \in Nat /\ r.room \in Rooms \cup {None}
  BY <1>1, OccupancyAssumption, FS_Subset, FS_CardinalityType DEF Requests
<1>3. room' \in [Rooms -> RoomRows]
  BY <1>1, <1>2 DEF CommitUpdateRoom, TypeOK, RowsOK, RoomRows, RoomStatuses
<1>4. bed' \in [Beds -> BedRows]
  <2>1. CASE r.number > count
    <3>1. bed' = addBeds(r.room, count + 1, r.number)
      BY <2>1 DEF CommitUpdateRoom
    <3> HIDE DEF count, r
    <3> QED
      BY <1>2, <3>1, AddedBedsTypes DEF TypeOK
  <2>2. CASE ~(r.number > count)
    <3>1. bed' = [b \in Beds |-> IF b \in gone THEN [bed[b] EXCEPT !.status = "deleted"]
                                               ELSE bed[b]]
      BY <2>2 DEF CommitUpdateRoom
    <3> QED
      BY <3>1 DEF TypeOK, RowsOK, BedRows
  <2> QED
    BY <2>1, <2>2
<1> QED
  BY <1>3, <1>4 DEF CommitUpdateRoom, TypeOK, RowsOK

LEMMA CreateRoomTypes ==
    ASSUME TypeOK, NEW r \in Rooms, NEW size \in Capacities, createRoom(r, size)
    PROVE  TypeOK'
<1>1. size \in Nat
  BY OccupancyAssumption
<1>2. bed' \in [Beds -> BedRows]
  BY <1>1, AddedBedsTypes DEF createRoom, TypeOK
<1>3. room' \in [Rooms -> RoomRows]
  BY <1>1 DEF createRoom, TypeOK, RowsOK, RoomRows
<1>4. UNCHANGED <<user, stay, alloc, period, queue, pc, req>>
  BY DEF createRoom, job
<1> QED
  BY <1>2, <1>3, <1>4 DEF TypeOK, RowsOK, RequestsOK
-----------------------------------------------------------------------------
(* A step only asks or reads, and leaves every row alone, or it writes.    *)
Asks ==
    \/ \E p \in Workers : Request(p)
    \/ \E first \in Periods : exitMaturedNotices(first)
    \/ \E r \in queue : NextMatured(r)
    \/ \E p \in Procs : FindActiveStay(p) \/ AssertBed(p) \/ FindOtherStay(p) \/ GiveUp(p)
Writes ==
    \/ \E s \in Stays, leaves \in Leaving : updateResident(s, leaves)
    \/ \E s \in Stays, owes \in BOOLEAN : BillChanges(s, owes)
    \/ \E r \in Rooms, size \in Capacities : createRoom(r, size)
    \/ \E p \in Procs :
          \/ \E leaves \in Leaving, owes \in Owing : CommitCreate(p, leaves, owes)
          \/ \E owes \in Owing : CommitMove(p, owes)
          \/ CommitExit(p) \/ CommitDelete(p)
          \/ CommitUpdateRoom(p) \/ CommitDeleteRoom(p) \/ WriteBedStatus(p)

LEMMA StepKinds == [Next]_vars => Asks \/ Writes \/ UNCHANGED vars
BY DEF Next, Progress, AtOnce, Asks, Writes

LEMMA AskingChangesNoRow == Asks => UNCHANGED store
BY DEF Asks, Request, Begin, Goto, exitMaturedNotices, NextMatured, FindActiveStay, AssertBed,
       FindOtherStay, GiveUp, StartCreate, StartMove, StartExit, StartDelete, StartUpdateRoom,
       StartDeleteRoom, StartBedStatus

LEMMA AskingTypes == TypeOK /\ Asks => TypeOK'
<1> SUFFICES ASSUME TypeOK, Asks PROVE TypeOK'
  OBVIOUS
<1>1. RowsOK'
  BY AskingChangesNoRow DEF TypeOK, RowsOK, store
<1>2. RequestsOK'
  <2>1. ASSUME NEW p \in Workers, Request(p) PROVE RequestsOK'
    BY <2>1, CreateAsks, MoveAsks, ExitAsks, DeleteAsks, UpdateRoomAsks, DeleteRoomAsks,
       BedStatusAsks DEF Request, Procs
  <2>2. ASSUME NEW p \in Procs, FindActiveStay(p) \/ AssertBed(p) PROVE RequestsOK'
    <3>1. PICK label \in {"write", "bed"} : Goto(p, label)
      BY <2>2 DEF FindActiveStay, AssertBed
    <3>2. req[p] = [req[p] EXCEPT !.flag = req[p].flag] /\ req[p].flag \in BOOLEAN
      BY DEF TypeOK, RequestsOK, Requests
    <3>3. req' = [req EXCEPT ![p].flag = req[p].flag]
      BY <2>2, <3>2 DEF FindActiveStay, AssertBed, TypeOK, RequestsOK
    <3>4. Asked(label, [req[p] EXCEPT !.flag = req[p].flag])
      BY <3>2 DEF TypeOK, RequestsOK, Asked
    <3> QED
      BY <3>1, <3>2, <3>3, <3>4, GotoAsks DEF Labels, TypeOK
  <2>3. ASSUME NEW p \in Procs, FindOtherStay(p) PROVE RequestsOK'
    <3> DEFINE flag == ActiveStaysOf(req[p].user) \ {req[p].stay} # {}
    <3>1. /\ flag \in BOOLEAN /\ req' = [req EXCEPT ![p].flag = flag]
          /\ Goto(p, "leave") /\ pc[p] = "other"
      BY <2>3 DEF FindOtherStay
    <3> HIDE DEF flag
    <3>2. Asked("leave", [req[p] EXCEPT !.flag = flag])
      BY <3>1 DEF TypeOK, RequestsOK, Requests, Asked, ExitAsked
    <3> QED
      BY <3>1, <3>2, GotoAsks DEF Labels, TypeOK
  <2>4. ASSUME NEW p \in Procs, GiveUp(p) PROVE RequestsOK'
    BY <2>4, FinishAsks DEF GiveUp, TypeOK
  <2> QED
    BY <2>1, <2>2, <2>3, <2>4, MaturedAsks, NextMaturedAsks DEF Asks
<1> QED
  BY <1>1, <1>2 DEF TypeOK

LEMMA WritingTypes == TypeOK /\ Writes => TypeOK'
<1> SUFFICES ASSUME TypeOK, Writes PROVE TypeOK'
  OBVIOUS
<1>1. ASSUME NEW s \in Stays, NEW leaves \in Leaving, updateResident(s, leaves) PROVE TypeOK'
  <2>1. leaves \in Days \cup {NoDay}
    BY DEF Leaving
  <2>2. stay' \in [Stays -> StayRows]
    <3>1. PICK status \in {"ACTIVE", stay[s].status} :
              stay' = [stay EXCEPT ![s].status = status, ![s].leaves = leaves]
      BY <1>1 DEF updateResident
    <3> DEFINE row == [[stay[s] EXCEPT !.status = status] EXCEPT !.leaves = leaves]
    <3>2. stay[s] \in StayRows
      BY DEF TypeOK, RowsOK
    <3>3. row \in StayRows
      BY <2>1, <3>2 DEF StayRows
    <3>4. stay' = [stay EXCEPT ![s] = row]
      BY <3>1, <3>2 DEF TypeOK, RowsOK
    <3> HIDE DEF row
    <3> QED
      BY <3>3, <3>4 DEF TypeOK, RowsOK
  <2> QED
    BY <1>1, <2>2 DEF updateResident, job, TypeOK, RowsOK, RequestsOK
<1>2. ASSUME NEW s \in Stays, NEW owes \in BOOLEAN, BillChanges(s, owes) PROVE TypeOK'
  <2>1. stay' \in [Stays -> StayRows]
    BY <1>2 DEF BillChanges, TypeOK, RowsOK, StayRows
  <2> QED
    BY <1>2, <2>1 DEF BillChanges, job, TypeOK, RowsOK, RequestsOK
<1>3. ASSUME NEW p \in Procs, NEW leaves \in Leaving, NEW owes \in Owing,
             CommitCreate(p, leaves, owes)
      PROVE  TypeOK'
  BY <1>3, CreateTypes, FinishAsks DEF CommitCreate, job, TypeOK
<1>4. ASSUME NEW p \in Procs, NEW owes \in Owing, CommitMove(p, owes) PROVE TypeOK'
  BY <1>4, MoveTypes, FinishAsks DEF CommitMove, job, TypeOK
<1>5. ASSUME NEW p \in Procs, CommitExit(p) PROVE TypeOK'
  BY <1>5, ExitTypes, FinishAsks DEF CommitExit, job, TypeOK
<1>6. ASSUME NEW p \in Procs, CommitDelete(p) PROVE TypeOK'
  BY <1>6, DeleteTypes, FinishAsks DEF CommitDelete, job, TypeOK
<1>7. ASSUME NEW p \in Procs, CommitUpdateRoom(p) PROVE TypeOK'
  BY <1>7, UpdateRoomTypes, FinishAsks DEF CommitUpdateRoom, job, TypeOK
<1>8. ASSUME NEW p \in Procs, CommitDeleteRoom(p) PROVE TypeOK'
  <2>1. bed' \in [Beds -> BedRows]
    BY <1>8 DEF CommitDeleteRoom, TypeOK, RowsOK, BedRows
  <2>2. room' \in [Rooms -> RoomRows]
    <3>1. room' = [room EXCEPT ![req[p].room].status = "deleted"]
      BY <1>8 DEF CommitDeleteRoom
    <3> QED
      BY <3>1 DEF TypeOK, RowsOK, RoomRows
  <2> QED
    BY <1>8, <2>1, <2>2, FinishAsks DEF CommitDeleteRoom, job, TypeOK, RowsOK
<1>9. ASSUME NEW p \in Procs, WriteBedStatus(p) PROVE TypeOK'
  <2>1. req[p].status \in BedStatuses
    BY <1>9 DEF WriteBedStatus, TypeOK, RequestsOK, Asked, BedStatuses
  <2>2. bed' \in [Beds -> BedRows]
    BY <1>9, <2>1 DEF WriteBedStatus, TypeOK, RowsOK, BedRows
  <2> QED
    BY <1>9, <2>2, FinishAsks DEF WriteBedStatus, job, TypeOK, RowsOK
<1> QED
  BY <1>1, <1>2, <1>3, <1>4, <1>5, <1>6, <1>7, <1>8, <1>9, CreateRoomTypes DEF Writes

LEMMA InitTypes == Init => TypeOK
<1> SUFFICES ASSUME Init PROVE TypeOK
  OBVIOUS
<1>1. user \in [Users -> UserRows]
  BY DEF Init, UserRows, Roles
<1>2. RowsOK
  BY <1>1 DEF Init, RowsOK, StayRows, BedRows, RoomRows
<1>3. RequestsOK
  BY NoRequestTypes DEF Init, RequestsOK, Labels
<1> QED
  BY <1>2, <1>3 DEF TypeOK

LEMMA TypeStep == TypeOK /\ [Next]_vars => TypeOK'
<1>1. TypeOK /\ UNCHANGED vars => TypeOK'
  BY DEF vars, store, job, TypeOK, RowsOK, RequestsOK
<1> QED
  BY <1>1, StepKinds, AskingTypes, WritingTypes

(* Every row and every request stays well formed, however the transactions *)
(* of the residents and rooms code overlap.                                *)
THEOREM RowsStayWellFormed == Spec => []TypeOK
BY InitTypes, TypeStep, PTL DEF Spec
-----------------------------------------------------------------------------
(* What opening and ending rows does to the rows that are open.            *)
LEMMA OpenRows ==
    ASSUME NEW t \in Tables, NEW a \in Open(t)
    PROVE  a \in AllocationIds /\ t[a] \in AllocationRows /\ t[a].to = NoDay
           /\ t[a].stay \in Stays /\ t[a].bed \in Beds
BY RowsAreRows DEF Open, Rows, AllocationRows

LEMMA Opened ==
    ASSUME NEW t \in Tables, NEW s \in Stays, NEW b \in Beds, NEW day \in Days, RoomForARow(t)
    PROVE  \E n \in AllocationIds :
              /\ t[n] = None
              /\ Open(openAllocation(t, s, b, day)) = Open(t) \cup {n}
              /\ openAllocation(t, s, b, day)[n].stay = s
              /\ openAllocation(t, s, b, day)[n].bed = b
              /\ \A a \in AllocationIds \ {n} : openAllocation(t, s, b, day)[a] = t[a]
<1> DEFINE n == CHOOSE a \in AllocationIds : t[a] = None
           row == [stay |-> s, bed |-> b, from |-> day, to |-> NoDay]
           after == openAllocation(t, s, b, day)
<1>1. n \in AllocationIds /\ t[n] = None
  BY DEF RoomForARow
<1>2. after = [t EXCEPT ![n] = row]
  BY DEF openAllocation
<1>3. row \in AllocationRows
  BY DEF AllocationRows
<1>4. row.stay = s /\ row.bed = b /\ row.to = NoDay
  OBVIOUS
<1> HIDE DEF n, row, after
<1>5. after[n] = row /\ \A a \in AllocationIds \ {n} : after[a] = t[a]
  BY <1>1, <1>2 DEF Tables
<1>6. row \notin {None, Gone}
  BY <1>3, OccupancyAssumption
<1>7. Rows(after) = Rows(t) \cup {n}
  BY <1>1, <1>5, <1>6 DEF Rows
<1>8. n \notin Rows(t)
  BY <1>1 DEF Rows
<1>9. Open(after) = Open(t) \cup {n}
  BY <1>4, <1>5, <1>7, <1>8 DEF Open, Rows
<1> QED
  BY <1>1, <1>4, <1>5, <1>9 DEF after

LEMMA Ended ==
    ASSUME RowsOK, NEW rows, NEW day \in Days, MayClose(rows, day)
    PROVE  /\ Open(Closed(rows, day)) = Open(alloc) \ rows
           /\ Rows(Closed(rows, day)) = Rows(alloc)
           /\ \A a \in Rows(alloc) : /\ Closed(rows, day)[a].stay = alloc[a].stay
                                     /\ Closed(rows, day)[a].bed = alloc[a].bed
           /\ \A a \in AllocationIds : Closed(rows, day)[a] = None <=> alloc[a] = None
<1> DEFINE after == Closed(rows, day)
<1>1. alloc \in Tables /\ after \in Tables /\ day # NoDay
  BY ClosedTypes, OccupancyAssumption DEF RowsOK, Tables, NoDay
<1>2. \A a \in AllocationIds \ rows : after[a] = alloc[a]
  BY DEF Closed
<1>3. ASSUME NEW a \in AllocationIds, a \in rows
      PROVE  /\ alloc[a] \in AllocationRows /\ after[a] \in AllocationRows
             /\ after[a].stay = alloc[a].stay /\ after[a].bed = alloc[a].bed
             /\ after[a].to = day
  <2>1. alloc[a] \in AllocationRows
    BY <1>1, <1>3, RowsAreRows DEF MayClose
  <2>2. after[a] = [alloc[a] EXCEPT !.to = day]
    BY <1>3 DEF Closed
  <2> HIDE DEF after
  <2> QED
    BY <2>1, <2>2 DEF AllocationRows
<1> HIDE DEF after
<1>4. \A a \in AllocationIds : a \in Rows(after) <=> a \in Rows(alloc)
  BY <1>1, <1>2, <1>3, RowsAreRows DEF Rows
<1>5. Rows(after) = Rows(alloc)
  BY <1>4 DEF Rows
<1>6. Open(after) = Open(alloc) \ rows
  BY <1>1, <1>2, <1>3, <1>5 DEF Open, Rows
<1>7. \A a \in AllocationIds : after[a] = None <=> alloc[a] = None
  BY <1>2, <1>3, OccupancyAssumption
<1> QED
  BY <1>2, <1>3, <1>5, <1>6, <1>7 DEF after, Rows

LEMMA Deleted ==
    ASSUME TypeOK, NEW p \in Procs, CommitDelete(p)
    PROVE  /\ Open(alloc') = {a \in Open(alloc) : alloc[a].stay \notin req[p].rows}
           /\ Rows(alloc') \subseteq Rows(alloc)
           /\ \A a \in Rows(alloc') : alloc'[a] = alloc[a]
           /\ \A a \in AllocationIds : alloc'[a] = None => alloc[a] = None
<1> DEFINE S == req[p].rows
<1>1. alloc' = [a \in AllocationIds |->
                   IF a \in Rows(alloc) /\ alloc[a].stay \in S THEN Gone ELSE alloc[a]]
  BY DEF CommitDelete
<1> HIDE DEF S
<1>2. Rows(alloc') = {a \in Rows(alloc) : alloc[a].stay \notin S}
  BY <1>1 DEF Rows
<1>3. \A a \in Rows(alloc') : alloc'[a] = alloc[a]
  BY <1>1, <1>2 DEF Rows
<1>4. Open(alloc') = {a \in Open(alloc) : alloc[a].stay \notin S}
  BY <1>2, <1>3 DEF Open
<1>5. \A a \in AllocationIds : alloc'[a] = None => alloc[a] = None
  BY <1>1, OccupancyAssumption
<1> QED
  BY <1>2, <1>3, <1>4, <1>5 DEF S
-----------------------------------------------------------------------------
(* A row of the allocations keeps its stay and its bed for good.           *)
Kept == \A a \in AllocationIds :
            alloc[a] # None =>
                /\ alloc'[a] # None
                /\ a \in Rows(alloc') => /\ a \in Rows(alloc)
                                         /\ alloc'[a].stay = alloc[a].stay
                                         /\ alloc'[a].bed = alloc[a].bed

LEMMA CommitsKeep ==
    ASSUME TypeOK, NEW p \in Procs
    PROVE  /\ \A leaves \in Leaving, owes \in Owing : CommitCreate(p, leaves, owes) => Kept
           /\ \A owes \in Owing : CommitMove(p, owes) => Kept
           /\ CommitExit(p) => Kept
           /\ CommitDelete(p) => Kept
<1> DEFINE r == req[p]
<1>0. alloc \in Tables
  BY DEF TypeOK, RowsOK, Tables
<1>1. ASSUME NEW leaves \in Leaving, NEW owes \in Owing, CommitCreate(p, leaves, owes)
      PROVE  Kept
  <2> DEFINE s == CHOOSE x \in Stays : stay[x].status = "none" /\ stay[x].user = None
  <2>1. CASE r.bed = None
    BY <1>1, <2>1 DEF CommitCreate, Kept
  <2>2. CASE r.bed # None
    <3>1. RoomForARow(alloc) /\ alloc' = openAllocation(alloc, s, r.bed, r.day) /\ s \in Stays
      BY <1>1, <2>2 DEF CommitCreate
    <3>2. r.bed \in Beds /\ r.day \in Days
      BY <1>1, <2>2 DEF TypeOK, RequestsOK, CommitCreate, At, Asked, Requests
    <3> HIDE DEF s, r
    <3>3. PICK n \in AllocationIds :
              alloc[n] = None /\ \A a \in AllocationIds \ {n} : alloc'[a] = alloc[a]
      BY <1>0, <3>1, <3>2, Opened
    <3> QED
      BY <3>3 DEF Kept, Rows
  <2> QED
    BY <2>1, <2>2
<1>2. ASSUME NEW owes \in Owing, CommitMove(p, owes) PROVE Kept
  <2> DEFINE after == Closed(r.rows, r.day)
  <2>1. /\ MayClose(r.rows, r.day) /\ RoomForARow(after)
        /\ alloc' = openAllocation(after, r.stay, r.bed, r.day)
    BY <1>2 DEF CommitMove
  <2>2. r.bed \in Beds /\ r.day \in Days /\ r.stay \in Stays
    BY <1>2 DEF TypeOK, RequestsOK, CommitMove, At, Asked
  <2> HIDE DEF r
  <2>3. /\ after \in Tables /\ Rows(after) = Rows(alloc)
        /\ \A a \in Rows(alloc) : after[a].stay = alloc[a].stay /\ after[a].bed = alloc[a].bed
        /\ \A a \in AllocationIds : after[a] = None <=> alloc[a] = None
    BY <2>1, <2>2, Ended, ClosedTypes DEF TypeOK
  <2> HIDE DEF after
  <2>4. PICK n \in AllocationIds :
            after[n] = None /\ \A a \in AllocationIds \ {n} : alloc'[a] = after[a]
    BY <2>1, <2>2, <2>3, Opened
  <2> QED
    BY <2>3, <2>4 DEF Kept, Rows
<1>3. ASSUME CommitExit(p) PROVE Kept
  <2>1. MayClose(r.rows, r.day) /\ r.day \in Days /\ alloc' = Closed(r.rows, r.day)
    BY <1>3 DEF CommitExit, TypeOK, RequestsOK, Asked, ExitAsked
  <2> HIDE DEF r
  <2> QED
    BY <2>1, Ended DEF Kept, TypeOK
<1>4. ASSUME CommitDelete(p) PROVE Kept
  BY <1>4, Deleted DEF Kept
<1> QED
  BY <1>1, <1>2, <1>3, <1>4

LEMMA RowsKept == TypeOK /\ [Next]_vars => Kept
<1> SUFFICES ASSUME TypeOK, [Next]_vars PROVE Kept
  OBVIOUS
<1>1. ASSUME alloc' = alloc PROVE Kept
  BY <1>1 DEF Kept
<1>2. CASE Asks \/ UNCHANGED vars
  BY <1>1, <1>2, AskingChangesNoRow DEF vars, store
<1>3. CASE Writes
  BY <1>1, <1>3, CommitsKeep DEF Writes, updateResident, BillChanges, createRoom,
     CommitUpdateRoom, CommitDeleteRoom, WriteBedStatus
<1> QED
  BY <1>2, <1>3, StepKinds
-----------------------------------------------------------------------------
(* The commits that open or end allocations, and what they do to the beds. *)
Opens(s, b, day, before, freed) ==
    /\ s \in Stays /\ b \in Beds /\ day \in Days /\ before \in Tables
    /\ RoomForARow(before) /\ MayOpen(before, s, b)
    /\ alloc' = openAllocation(before, s, b, day) /\ bed' = bedsAfter(freed, b)

LEMMA CreateOpens ==
    ASSUME TypeOK, NEW p \in Procs, NEW leaves \in Leaving, NEW owes \in Owing,
           CommitCreate(p, leaves, owes)
    PROVE  \/ UNCHANGED <<alloc, bed>>
           \/ \E s \in Stays, b \in Beds, day \in Days : Opens(s, b, day, alloc, {})
<1> DEFINE r == req[p]
           s == CHOOSE x \in Stays : stay[x].status = "none" /\ stay[x].user = None
<1>1. r.bed \in Beds \cup {None} /\ r.day \in Days /\ alloc \in Tables /\ s \in Stays
  BY DEF TypeOK, RowsOK, Tables, RequestsOK, CommitCreate, At, Asked, Requests
<1>2. r.bed # None => /\ RoomForARow(alloc) /\ MayOpen(alloc, s, r.bed)
                      /\ alloc' = openAllocation(alloc, s, r.bed, r.day)
                      /\ bed' = bedsAfter({}, r.bed)
  BY DEF CommitCreate
<1>3. r.bed = None => UNCHANGED <<alloc, bed>>
  BY DEF CommitCreate
<1> HIDE DEF r, s
<1> QED
  BY <1>1, <1>2, <1>3 DEF Opens

LEMMA MoveOpens ==
    ASSUME TypeOK, NEW p \in Procs, NEW owes \in Owing, CommitMove(p, owes)
    PROVE  /\ req[p].op = "move" /\ req[p].day \in Days /\ MayClose(req[p].rows, req[p].day)
           /\ Opens(req[p].stay, req[p].bed, req[p].day, Closed(req[p].rows, req[p].day),
                    BedsIn(req[p].rows))
<1> DEFINE r == req[p]
           after == Closed(r.rows, r.day)
<1>1. r.stay \in Stays /\ r.bed \in Beds /\ r.day \in Days /\ r.op = "move"
  BY DEF TypeOK, RequestsOK, CommitMove, At, Asked
<1>2. MayClose(r.rows, r.day) /\ RoomForARow(after) /\ MayOpen(after, r.stay, r.bed)
      /\ alloc' = openAllocation(after, r.stay, r.bed, r.day)
      /\ bed' = bedsAfter(BedsIn(r.rows), r.bed)
  BY DEF CommitMove
<1>3. after \in Tables
  BY <1>1, <1>2, ClosedTypes DEF TypeOK
<1> QED
  BY <1>1, <1>2, <1>3 DEF Opens

LEMMA ExitEnds ==
    ASSUME TypeOK, NEW p \in Procs, CommitExit(p)
    PROVE  /\ req[p].day \in Days /\ MayClose(req[p].rows, req[p].day)
           /\ alloc' = Closed(req[p].rows, req[p].day)
           /\ bed' = bedsAfter(BedsIn(req[p].rows), None)
BY DEF CommitExit, TypeOK, RequestsOK, Asked, ExitAsked
-----------------------------------------------------------------------------
LEMMA BedsAfterLive ==
    ASSUME NEW freed, NEW taken, NEW b \in Beds, RowsOK, bed' = bedsAfter(freed, taken), Live(b)
    PROVE  bed'[b].status \in BedStatuses
BY DEF bedsAfter, Live, BedStatuses, RowsOK, BedRows

LEMMA AddedBedsLive ==
    ASSUME NEW r, NEW first, NEW last, NEW b \in Beds, bed' = addBeds(r, first, last), Live(b)
    PROVE  bed'[b].status \in BedStatuses
<1> DEFINE new == CHOOSE f \in [first..last -> Unborn] :
                     \A x, y \in first..last : f[x] = f[y] => x = y
           label == CHOOSE x \in first..last : new[x] = b
<1>1. bed'[b] = IF \E x \in first..last : new[x] = b
                THEN [status |-> "AVAILABLE", room |-> r, label |-> label]
                ELSE bed[b]
  BY DEF addBeds
<1> HIDE DEF new, label
<1> QED
  BY <1>1 DEF Live, BedStatuses

(* A bed with a history outlives every step.                               *)
LEMMA UsedBedsLive ==
    ASSUME TypeOK, [Next]_vars, NEW b \in Beds, Live(b), RowsOnBed(b) # {}
    PROVE  bed'[b].status \in BedStatuses
<1>0. ASSUME bed' = bed PROVE bed'[b].status \in BedStatuses
  BY <1>0 DEF Live
<1>1. CASE Asks \/ UNCHANGED vars
  BY <1>0, <1>1, AskingChangesNoRow DEF vars, store
<1>2. ASSUME NEW p \in Procs, NEW leaves \in Leaving, NEW owes \in Owing,
             CommitCreate(p, leaves, owes)
      PROVE  bed'[b].status \in BedStatuses
  BY <1>0, <1>2, CreateOpens, BedsAfterLive DEF Opens, TypeOK
<1>3. ASSUME NEW p \in Procs, NEW owes \in Owing, CommitMove(p, owes)
      PROVE  bed'[b].status \in BedStatuses
  BY <1>3, MoveOpens, BedsAfterLive DEF Opens, TypeOK
<1>4. ASSUME NEW p \in Procs, CommitExit(p) PROVE bed'[b].status \in BedStatuses
  BY <1>4, ExitEnds, BedsAfterLive DEF TypeOK
<1>5. ASSUME NEW p \in Procs, CommitUpdateRoom(p) PROVE bed'[b].status \in BedStatuses
  <2> DEFINE r == req[p]
             count == Cardinality(r.rows)
             gone == {c \in beyond(r.rows, r.number) : Live(c)}
  <2>1. CASE r.number > count
    <3>1. bed' = addBeds(r.room, count + 1, r.number)
      BY <1>5, <2>1 DEF CommitUpdateRoom
    <3> HIDE DEF r, count
    <3> QED
      BY <3>1, AddedBedsLive
  <2>2. CASE ~(r.number > count)
    <3>1. /\ \A c \in gone : RowsOnBed(c) = {}
          /\ bed' = [c \in Beds |-> IF c \in gone THEN [bed[c] EXCEPT !.status = "deleted"]
                                                  ELSE bed[c]]
      BY <1>5, <2>2 DEF CommitUpdateRoom
    <3> HIDE DEF gone
    <3> QED
      BY <3>1 DEF Live
  <2> QED
    BY <2>1, <2>2
<1>6. ASSUME NEW p \in Procs, CommitDeleteRoom(p) PROVE bed'[b].status \in BedStatuses
  BY <1>6 DEF CommitDeleteRoom, Live
<1>7. ASSUME NEW p \in Procs, WriteBedStatus(p) PROVE bed'[b].status \in BedStatuses
  <2>1. req[p].status \in BedStatuses
    BY <1>7 DEF WriteBedStatus, TypeOK, RequestsOK, Asked, BedStatuses
  <2>2. bed' = [bed EXCEPT ![req[p].bed].status = req[p].status]
    BY <1>7 DEF WriteBedStatus
  <2> QED
    BY <2>1, <2>2 DEF Live, TypeOK, RowsOK, BedRows
<1>8. ASSUME NEW r \in Rooms, NEW size \in Capacities, createRoom(r, size)
      PROVE  bed'[b].status \in BedStatuses
  BY <1>8, AddedBedsLive DEF createRoom
<1>9. CASE Writes
  BY <1>0, <1>2, <1>3, <1>4, <1>5, <1>6, <1>7, <1>8, <1>9 DEF Writes, updateResident,
     BillChanges, CommitDelete
<1> QED
  BY <1>1, <1>9, StepKinds

(* A new allocation is on a bed that is there.                             *)
LEMMA NewRowsLive ==
    ASSUME TypeOK, [Next]_vars, NEW a \in Rows(alloc'), alloc[a] = None
    PROVE  bed'[alloc'[a].bed].status \in BedStatuses
<1>0. a \in AllocationIds /\ alloc'[a] # None /\ alloc \in Tables
  BY DEF Rows, TypeOK, RowsOK, Tables
<1>1. ASSUME NEW s, NEW b, NEW day, NEW before, NEW freed, Opens(s, b, day, before, freed),
             before[a] = None
      PROVE  bed'[alloc'[a].bed].status \in BedStatuses
  <2>1. PICK n \in AllocationIds :
            alloc'[n].bed = b /\ \A c \in AllocationIds \ {n} : alloc'[c] = before[c]
    BY <1>1, Opened DEF Opens
  <2>2. alloc'[a].bed = b
    BY <1>0, <1>1, <2>1
  <2>3. b \in Beds /\ Live(b) /\ bed' = bedsAfter(freed, b)
    BY <1>1 DEF Opens, MayOpen
  <2> QED
    BY <2>2, <2>3, BedsAfterLive DEF TypeOK
<1>2. ASSUME NEW p \in Procs, NEW owes \in Owing, CommitMove(p, owes)
      PROVE  bed'[alloc'[a].bed].status \in BedStatuses
  BY <1>0, <1>1, <1>2, MoveOpens, Ended DEF TypeOK
<1>3. ASSUME NEW p \in Procs, CommitExit(p) PROVE FALSE
  BY <1>0, <1>3, ExitEnds, Ended DEF TypeOK
<1>4. ASSUME NEW p \in Procs, CommitDelete(p) PROVE FALSE
  BY <1>0, <1>4, Deleted DEF Rows
<1>5. CASE alloc' = alloc
  BY <1>0, <1>5
<1>6. CASE Asks \/ UNCHANGED vars
  BY <1>5, <1>6, AskingChangesNoRow DEF vars, store
<1>7. CASE Writes
  BY <1>0, <1>1, <1>2, <1>3, <1>4, <1>5, <1>7, CreateOpens DEF Writes, updateResident,
     BillChanges, createRoom, CommitUpdateRoom, CommitDeleteRoom, WriteBedStatus
<1> QED
  BY <1>6, <1>7, StepKinds

LEMMA AllocatedStep == TypeOK /\ AllocatedBedsExist /\ [Next]_vars => AllocatedBedsExist'
<1> SUFFICES ASSUME TypeOK, AllocatedBedsExist, [Next]_vars, NEW a \in Rows(alloc')
             PROVE  bed'[alloc'[a].bed].status \in BedStatuses
  BY DEF AllocatedBedsExist, Live
<1>1. a \in AllocationIds /\ alloc \in Tables
  BY DEF Rows, TypeOK, RowsOK, Tables
<1>2. CASE alloc[a] # None
  <2>1. a \in Rows(alloc) /\ alloc'[a].bed = alloc[a].bed
    BY <1>1, <1>2, RowsKept DEF Kept
  <2>2. alloc[a].bed \in Beds /\ Live(alloc[a].bed) /\ a \in RowsOnBed(alloc[a].bed)
    BY <1>1, <2>1, RowsAreRows DEF AllocatedBedsExist, AllocationRows, RowsOnBed
  <2> QED
    BY <2>1, <2>2, UsedBedsLive
<1> QED
  BY <1>2, NewRowsLive

(* No bed that was ever given to a stay is removed, though the room edits  *)
(* look at the beds before their transaction.                              *)
THEOREM AllocatedBedsStay == Spec => []AllocatedBedsExist
<1>1. Init => AllocatedBedsExist
  BY DEF Init, AllocatedBedsExist, Rows
<1> QED
  BY <1>1, InitTypes, TypeStep, AllocatedStep, PTL DEF Spec
-----------------------------------------------------------------------------
(* Only StartDelete leads to an erasure.                                   *)
NoErasure == \A p \in Procs : pc[p] # "delete"

LEMMA NoErasureStep ==
    ASSUME "delete" \notin Ops
    PROVE  TypeOK /\ NoErasure /\ [Next]_vars => NoErasure'
<1> SUFFICES ASSUME TypeOK, NoErasure, [Next]_vars PROVE NoErasure'
  OBVIOUS
<1>1. \A p \in Procs : Finish(p) => NoErasure'
  BY DEF Finish, NoErasure, TypeOK, RequestsOK
<1>2. \A p \in Procs, label \in Labels \ {"delete"} :
         pc' = [pc EXCEPT ![p] = label] => NoErasure'
  BY DEF NoErasure, TypeOK, RequestsOK
<1>3. pc' = pc => NoErasure'
  BY DEF NoErasure
<1>4. CASE Asks
  <2>1. ASSUME NEW p \in Workers, Request(p) PROVE NoErasure'
    BY <1>2, <2>1 DEF Request, Procs, Begin, StartCreate, StartMove, StartExit, StartDelete,
       StartUpdateRoom, StartDeleteRoom, StartBedStatus, Labels
  <2>2. ASSUME NEW p \in Procs, FindActiveStay(p) \/ AssertBed(p) \/ FindOtherStay(p)
        PROVE  NoErasure'
    <3>1. PICK label \in {"write", "bed", "leave"} : Goto(p, label)
      BY <2>2 DEF FindActiveStay, AssertBed, FindOtherStay
    <3> QED
      BY <1>2, <3>1 DEF Goto, Labels
  <2>3. ASSUME NEW r \in queue, NextMatured(r) PROVE NoErasure'
    BY <1>2, <2>3 DEF NextMatured, Begin, Procs, Labels
  <2> QED
    BY <1>1, <1>3, <1>4, <2>1, <2>2, <2>3 DEF Asks, GiveUp, exitMaturedNotices
<1>5. CASE Writes
  BY <1>1, <1>3, <1>5 DEF Writes, updateResident, BillChanges, createRoom, CommitCreate,
     CommitMove, CommitExit, CommitDelete, CommitUpdateRoom, CommitDeleteRoom, WriteBedStatus
<1>6. CASE UNCHANGED vars
  BY <1>3, <1>6 DEF vars
<1> QED
  BY <1>4, <1>5, <1>6, StepKinds

LEMMA AddedBedsFree ==
    ASSUME NEW r, NEW first, NEW last, NEW b \in Beds, bed' = addBeds(r, first, last),
           bed'[b].status = "OCCUPIED"
    PROVE  bed[b].status = "OCCUPIED"
<1> DEFINE new == CHOOSE f \in [first..last -> Unborn] :
                     \A x, y \in first..last : f[x] = f[y] => x = y
           label == CHOOSE x \in first..last : new[x] = b
<1>1. bed'[b] = IF \E x \in first..last : new[x] = b
                THEN [status |-> "AVAILABLE", room |-> r, label |-> label]
                ELSE bed[b]
  BY DEF addBeds
<1> HIDE DEF new, label
<1> QED
  BY <1>1

(* Room edits and bed statuses occupy no bed.                              *)
LEMMA RoomEditsFree ==
    ASSUME TypeOK, NEW b \in Beds, bed'[b].status = "OCCUPIED",
           \/ \E p \in Procs : CommitUpdateRoom(p) \/ CommitDeleteRoom(p) \/ WriteBedStatus(p)
           \/ \E r \in Rooms, size \in Capacities : createRoom(r, size)
    PROVE  bed[b].status = "OCCUPIED"
<1>1. ASSUME NEW p \in Procs, CommitUpdateRoom(p) PROVE bed[b].status = "OCCUPIED"
  <2> DEFINE r == req[p]
             count == Cardinality(r.rows)
             gone == {c \in beyond(r.rows, r.number) : Live(c)}
  <2>1. CASE r.number > count
    <3>1. bed' = addBeds(r.room, count + 1, r.number)
      BY <1>1, <2>1 DEF CommitUpdateRoom
    <3> HIDE DEF r, count
    <3> QED
      BY <3>1, AddedBedsFree
  <2>2. CASE ~(r.number > count)
    <3>1. bed' = [c \in Beds |-> IF c \in gone THEN [bed[c] EXCEPT !.status = "deleted"]
                                               ELSE bed[c]]
      BY <1>1, <2>2 DEF CommitUpdateRoom
    <3> HIDE DEF gone
    <3> QED
      BY <3>1 DEF TypeOK, RowsOK, BedRows
  <2> QED
    BY <2>1, <2>2
<1>2. ASSUME NEW p \in Procs, CommitDeleteRoom(p) PROVE bed[b].status = "OCCUPIED"
  BY <1>2 DEF CommitDeleteRoom, TypeOK, RowsOK, BedRows
<1>3. ASSUME NEW p \in Procs, WriteBedStatus(p) PROVE bed[b].status = "OCCUPIED"
  <2>1. req[p].status # "OCCUPIED"
    BY <1>3 DEF WriteBedStatus, TypeOK, RequestsOK, Asked
  <2>2. bed' = [bed EXCEPT ![req[p].bed].status = req[p].status]
    BY <1>3 DEF WriteBedStatus
  <2> QED
    BY <2>1, <2>2 DEF TypeOK, RowsOK, BedRows
<1>4. ASSUME NEW r \in Rooms, NEW size \in Capacities, createRoom(r, size)
      PROVE  bed[b].status = "OCCUPIED"
  BY <1>4, AddedBedsFree DEF createRoom
<1> QED
  BY <1>1, <1>2, <1>3, <1>4

LEMMA OccupiedStep ==
    TypeOK /\ NoErasure /\ OccupiedBedsAreHeld /\ [Next]_vars => OccupiedBedsAreHeld'
<1> SUFFICES ASSUME TypeOK, NoErasure, OccupiedBedsAreHeld, [Next]_vars,
                    NEW b \in Beds, bed'[b].status = "OCCUPIED"
             PROVE  \E a \in Open(alloc') : alloc'[a].bed = b
  BY DEF OccupiedBedsAreHeld, OpenOnBed
<1> DEFINE Goal == \E a \in Open(alloc') : alloc'[a].bed = b
<1>0. /\ alloc \in Tables
      /\ bed[b].status = "OCCUPIED" => \E a \in Open(alloc) : alloc[a].bed = b
  BY DEF OccupiedBedsAreHeld, OpenOnBed, TypeOK, RowsOK, Tables
<1>1. ASSUME alloc' = alloc, bed[b].status = "OCCUPIED" PROVE Goal
  BY <1>0, <1>1
<1>2. ASSUME NEW s, NEW c, NEW day, NEW before, NEW freed, Opens(s, c, day, before, freed),
             \/ b = c
             \/ \E a \in Open(before) : before[a].bed = b
      PROVE  Goal
  <2>1. PICK n \in AllocationIds :
            /\ before[n] = None /\ Open(alloc') = Open(before) \cup {n} /\ alloc'[n].bed = c
            /\ \A a \in AllocationIds \ {n} : alloc'[a] = before[a]
    BY <1>2, Opened DEF Opens
  <2> QED
    BY <1>2, <2>1 DEF Open, Rows
<1>3. ASSUME NEW freed, NEW taken, bed' = bedsAfter(freed, taken), b # taken
      PROVE  b \notin freed /\ bed[b].status = "OCCUPIED"
  BY <1>3 DEF bedsAfter, TypeOK, RowsOK, BedRows
<1>4. ASSUME NEW p \in Procs, NEW leaves \in Leaving, NEW owes \in Owing,
             CommitCreate(p, leaves, owes)
      PROVE  Goal
  <2>1. CASE UNCHANGED <<alloc, bed>>
    BY <1>1, <2>1
  <2>2. ASSUME NEW s \in Stays, NEW c \in Beds, NEW day \in Days, Opens(s, c, day, alloc, {})
        PROVE  Goal
    BY <1>0, <1>2, <1>3, <2>2 DEF Opens
  <2> QED
    BY <1>4, <2>1, <2>2, CreateOpens
<1>5. ASSUME NEW rows, NEW day \in Days, MayClose(rows, day), b \notin BedsIn(rows),
             bed[b].status = "OCCUPIED"
      PROVE  \E a \in Open(Closed(rows, day)) : Closed(rows, day)[a].bed = b
  <2>1. PICK a \in Open(alloc) : alloc[a].bed = b
    BY <1>0, <1>5
  <2>2. a \notin rows /\ a \in Rows(alloc)
    BY <1>5, <2>1 DEF BedsIn, Open
  <2> QED
    BY <1>5, <2>1, <2>2, Ended DEF TypeOK
<1>6. ASSUME NEW p \in Procs, NEW owes \in Owing, CommitMove(p, owes) PROVE Goal
  BY <1>2, <1>3, <1>5, <1>6, MoveOpens DEF Opens
<1>7. ASSUME NEW p \in Procs, CommitExit(p) PROVE Goal
  <2> DEFINE r == req[p]
  <2>1. /\ r.day \in Days /\ MayClose(r.rows, r.day) /\ alloc' = Closed(r.rows, r.day)
        /\ bed' = bedsAfter(BedsIn(r.rows), None)
    BY <1>7, ExitEnds
  <2>2. b # None
    BY OccupancyAssumption
  <2> HIDE DEF r
  <2>3. b \notin BedsIn(r.rows) /\ bed[b].status = "OCCUPIED"
    BY <1>3, <2>1, <2>2
  <2> QED
    BY <1>5, <2>1, <2>3
<1>8. ASSUME NEW p \in Procs, CommitDelete(p) PROVE FALSE
  BY <1>8 DEF CommitDelete, NoErasure
<1>9. CASE Asks \/ UNCHANGED vars
  BY <1>1, <1>9, AskingChangesNoRow DEF vars, store
<1>10. CASE Writes
  <2>1. CASE \/ \E p \in Procs : CommitUpdateRoom(p) \/ CommitDeleteRoom(p) \/ WriteBedStatus(p)
             \/ \E r \in Rooms, size \in Capacities : createRoom(r, size)
    <3>1. alloc' = alloc
      BY <2>1 DEF CommitUpdateRoom, CommitDeleteRoom, WriteBedStatus, createRoom
    <3> QED
      BY <1>1, <2>1, <3>1, RoomEditsFree
  <2>2. CASE \/ \E s \in Stays, leaves \in Leaving : updateResident(s, leaves)
             \/ \E s \in Stays, owes \in BOOLEAN : BillChanges(s, owes)
    BY <1>1, <2>2 DEF updateResident, BillChanges
  <2> QED
    BY <1>4, <1>6, <1>7, <1>8, <1>10, <2>1, <2>2 DEF Writes
<1> QED
  BY <1>9, <1>10, StepKinds

(* While nobody's data is erased, a bed shown as occupied has someone in   *)
(* it, however moves, exits and room edits overlap.                        *)
THEOREM OccupiedBedsHeld ==
    ASSUME "delete" \notin Ops PROVE Spec => []OccupiedBedsAreHeld
<1>1. Init => NoErasure /\ OccupiedBedsAreHeld
  BY DEF Init, NoErasure, OccupiedBedsAreHeld
<1>2. TypeOK /\ NoErasure /\ [Next]_vars => NoErasure'
  BY NoErasureStep
<1> QED
  BY <1>1, <1>2, InitTypes, TypeStep, OccupiedStep, PTL DEF Spec
=============================================================================
