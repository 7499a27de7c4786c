--------------------------- MODULE RegisterProofs ---------------------------
(***************************************************************************)
(* The transactions of the residents code, whatever overlaps, keep a       *)
(* register of the beds: the refinement of BedRegister by Occupancy.  And  *)
(* what else they keep while only one of them is open at a time: the beds' *)
(* own status, the labels of a room's beds, the stays and the standing.    *)
(***************************************************************************)
EXTENDS OccupancyProofs

(* What the two partial unique indexes make of a table of allocations.     *)
Indexed(t) == \A a, c \in Open(t) : a # c => t[a].stay # t[c].stay /\ t[a].bed # t[c].bed

(* A move leaves rows of its own stay, none of them on the bed it wants.   *)
LeavesFor(r) ==
    r.op = "move" =>
        \A a \in r.rows : /\ alloc[a] # None
                          /\ a \in Rows(alloc) => /\ alloc[a].stay = r.stay
                                                  /\ alloc[a].bed # r.bed
MovesAway == \A p \in Procs : LeavesFor(req[p])

InStep == TypeOK /\ Indexed(alloc) /\ MovesAway
-----------------------------------------------------------------------------
(* The holders of a bed that an indexed table of allocations names.        *)
LEMMA HeldBy ==
    ASSUME NEW t \in Tables, Indexed(t), NEW a \in Open(t)
    PROVE  heldIn(t)[t[a].bed] = t[a].stay
<1> DEFINE b == t[a].bed
           on == {c \in Open(t) : t[c].bed = b}
           x == CHOOSE c \in on : TRUE
<1>1. b \in Beds
  BY OpenRows
<1>2. a \in on
  OBVIOUS
<1>3. x \in on
  BY <1>2
<1>4. x = a
  BY <1>3 DEF Indexed
<1>5. heldIn(t)[b] = IF on = {} THEN None ELSE t[x].stay
  BY <1>1 DEF heldIn
<1> HIDE DEF on, x
<1> QED
  BY <1>2, <1>4, <1>5

LEMMA FreeIn ==
    ASSUME NEW t, NEW b \in Beds, \A a \in Open(t) : t[a].bed # b
    PROVE  heldIn(t)[b] = None
BY DEF heldIn

LEMMA HeldOpen ==
    ASSUME NEW t \in Tables, Indexed(t), NEW b \in Beds, heldIn(t)[b] # None
    PROVE  \E a \in Open(t) : t[a].bed = b /\ t[a].stay = heldIn(t)[b]
<1>1. PICK a \in Open(t) : t[a].bed = b
  BY FreeIn
<1> QED
  BY <1>1, HeldBy

(* A row opened for a stay without a bed, on a bed without a row.          *)
LEMMA TakesHold ==
    ASSUME NEW t \in Tables, Indexed(t), NEW s \in Stays, NEW b \in Beds, NEW day \in Days,
           RoomForARow(t), MayOpen(t, s, b), NEW u, u = openAllocation(t, s, b, day)
    PROVE  /\ Indexed(u)
           /\ heldIn(t)[b] = None
           /\ \A c \in Beds : heldIn(t)[c] # s
           /\ heldIn(u)[b] = s
           /\ \A c \in Beds : c # b => heldIn(u)[c] = heldIn(t)[c]
<1>1. PICK n \in AllocationIds :
          /\ t[n] = None /\ Open(u) = Open(t) \cup {n} /\ u[n].stay = s /\ u[n].bed = b
          /\ \A a \in AllocationIds \ {n} : u[a] = t[a]
  BY Opened
<1>2. \A a \in Open(t) : a # n /\ a \in AllocationIds /\ u[a] = t[a]
  BY <1>1 DEF Open, Rows
<1>3. \A a \in Open(t) : t[a].stay # s /\ t[a].bed # b
  BY DEF MayOpen
<1>4. u \in Tables
  BY OpenedTypes
<1>5. Indexed(u)
  BY <1>1, <1>2, <1>3 DEF Indexed
<1>6. heldIn(t)[b] = None
  BY <1>3, FreeIn
<1>7. ASSUME NEW c \in Beds PROVE heldIn(t)[c] # s
  <2>1. s # None
    BY OccupancyAssumption
  <2> QED
    BY <1>3, <2>1, HeldOpen
<1>8. heldIn(u)[b] = s
  BY <1>1, <1>4, <1>5, HeldBy
<1>9. ASSUME NEW c \in Beds, c # b PROVE heldIn(u)[c] = heldIn(t)[c]
  <2>1. CASE \E a \in Open(t) : t[a].bed = c
    <3>1. PICK a \in Open(t) : t[a].bed = c
      BY <2>1
    <3>2. heldIn(t)[c] = t[a].stay
      BY <3>1, HeldBy
    <3>3. a \in Open(u) /\ u[a] = t[a]
      BY <1>1, <1>2
    <3> QED
      BY <1>4, <1>5, <3>1, <3>2, <3>3, HeldBy
  <2>2. CASE \A a \in Open(t) : t[a].bed # c
    <3>1. \A a \in Open(u) : u[a].bed # c
      BY <1>1, <1>2, <1>9, <2>2
    <3> QED
      BY <2>2, <3>1, FreeIn
  <2> QED
    BY <2>1, <2>2
<1> QED
  BY <1>5, <1>6, <1>7, <1>8, <1>9

(* Rows that end, or go, free their beds and no other.                     *)
LEMMA LeavesGo ==
    ASSUME NEW t \in Tables, Indexed(t), NEW u \in Tables, Open(u) \subseteq Open(t),
           \A a \in Open(u) : u[a].stay = t[a].stay /\ u[a].bed = t[a].bed
    PROVE  /\ Indexed(u)
           /\ \A a \in Open(t) : a \notin Open(u) => heldIn(u)[t[a].bed] = None
           /\ \A b \in Beds : (\A a \in Open(t) : a \notin Open(u) => t[a].bed # b)
                 => heldIn(u)[b] = heldIn(t)[b]
<1>1. Indexed(u)
  BY DEF Indexed
<1>2. ASSUME NEW a \in Open(t), a \notin Open(u) PROVE heldIn(u)[t[a].bed] = None
  <2>1. t[a].bed \in Beds
    BY OpenRows
  <2>2. \A c \in Open(u) : u[c].bed # t[a].bed
    BY <1>2 DEF Indexed
  <2> QED
    BY <2>1, <2>2, FreeIn
<1>3. ASSUME NEW b \in Beds, \A a \in Open(t) : a \notin Open(u) => t[a].bed # b
      PROVE  heldIn(u)[b] = heldIn(t)[b]
  <2>1. CASE \E a \in Open(u) : u[a].bed = b
    <3>1. PICK a \in Open(u) : u[a].bed = b
      BY <2>1
    <3>2. heldIn(u)[b] = u[a].stay
      BY <1>1, <3>1, HeldBy
    <3>3. a \in Open(t) /\ t[a].bed = b /\ t[a].stay = u[a].stay
      BY <3>1
    <3>4. heldIn(t)[b] = t[a].stay
      BY <3>3, HeldBy
    <3> QED
      BY <3>2, <3>3, <3>4
  <2>2. CASE \A a \in Open(u) : u[a].bed # b
    <3>1. \A a \in Open(t) : t[a].bed # b
      BY <1>3, <2>2
    <3> QED
      BY <2>2, <3>1, FreeIn
  <2> QED
    BY <2>1, <2>2
<1> QED
  BY <1>1, <1>2, <1>3
-----------------------------------------------------------------------------
LEMMA HolderIsTyped == alloc \in Tables /\ Indexed(alloc) => holder \in [Beds -> Stays \cup {None}]
<1> SUFFICES ASSUME alloc \in Tables, Indexed(alloc), NEW b \in Beds
             PROVE  heldIn(alloc)[b] \in Stays \cup {None}
  BY DEF holder, heldIn
<1> QED
  BY HeldOpen, OpenRows

LEMMA OpenedTakes ==
    ASSUME TypeOK, Indexed(alloc), NEW s, NEW b, NEW day, NEW freed,
           Opens(s, b, day, alloc, freed)
    PROVE  Indexed(alloc') /\ R!Take(s, b)
<1>1. s \in Stays /\ b \in Beds /\ day \in Days /\ alloc \in Tables
  BY DEF Opens
<1>2. /\ Indexed(alloc') /\ holder[b] = None /\ \A c \in Beds : holder[c] # s
      /\ holder'[b] = s /\ \A c \in Beds : c # b => holder'[c] = holder[c]
  BY <1>1, TakesHold DEF Opens, holder
<1>3. holder \in [Beds -> Stays \cup {None}] /\ holder' = [c \in Beds |-> holder'[c]]
  BY <1>1, HolderIsTyped DEF holder, heldIn
<1>4. Indexed(alloc)
  OBVIOUS
<1>5. holder' = [holder EXCEPT ![b] = s]
  BY <1>2, <1>3
<1> QED
  BY <1>2, <1>5 DEF R!Take

(* A move whose rows have all ended meanwhile takes a bed; else it leaves  *)
(* the one bed of its stay, which is not the one it wants.                 *)
LEMMA MoveMoves ==
    ASSUME InStep, NEW p \in Procs, NEW owes \in Owing, CommitMove(p, owes)
    PROVE  /\ Indexed(alloc')
           /\ \E s \in Stays, b, c \in Beds : R!Take(s, b) \/ R!Move(s, c, b)
<1> DEFINE r == req[p]
           before == Closed(r.rows, r.day)
           s == r.stay
           b == r.bed
<1>1. /\ s \in Stays /\ b \in Beds /\ r.day \in Days /\ alloc \in Tables /\ before \in Tables
      /\ RoomForARow(before) /\ MayOpen(before, s, b)
      /\ alloc' = openAllocation(before, s, b, r.day)
  BY MoveOpens DEF Opens, InStep, TypeOK, RowsOK, Tables
<1>2. /\ Open(before) = Open(alloc) \ r.rows
      /\ \A a \in Rows(alloc) : before[a].stay = alloc[a].stay /\ before[a].bed = alloc[a].bed
  BY MoveOpens, Ended DEF InStep, TypeOK
<1>3. \A a \in r.rows \cap Open(alloc) : alloc[a].stay = s /\ alloc[a].bed # b
  BY MoveOpens DEF InStep, MovesAway, LeavesFor, Open
<1>4. Indexed(alloc)
  BY DEF InStep
<1> HIDE DEF r, before, s, b
<1>5. /\ Open(before) \subseteq Open(alloc)
      /\ \A a \in Open(before) : before[a].stay = alloc[a].stay /\ before[a].bed = alloc[a].bed
  BY <1>2 DEF Open
<1>6. Indexed(before)
  BY <1>1, <1>4, <1>5, LeavesGo
<1>7. \A c \in Beds : (\A a \in r.rows \cap Open(alloc) : alloc[a].bed # c)
                         => heldIn(before)[c] = holder[c]
  BY <1>1, <1>2, <1>4, <1>5, LeavesGo DEF holder
<1>8. /\ Indexed(alloc') /\ heldIn(before)[b] = None /\ \A c \in Beds : heldIn(before)[c] # s
      /\ holder'[b] = s /\ \A c \in Beds : c # b => holder'[c] = heldIn(before)[c]
  BY <1>1, <1>6, TakesHold DEF holder
<1>9. holder \in [Beds -> Stays \cup {None}] /\ holder' = [c \in Beds |-> holder'[c]]
  BY <1>1, <1>4, HolderIsTyped DEF holder, heldIn
<1>10. CASE r.rows \cap Open(alloc) = {}
  <2>1. \A c \in Beds : heldIn(before)[c] = holder[c]
    BY <1>7, <1>10
  <2>2. holder' = [holder EXCEPT ![b] = s]
    BY <1>8, <1>9, <2>1
  <2>3. R!Take(s, b)
    BY <1>1, <1>8, <2>1, <2>2 DEF R!Take
  <2> QED
    BY <1>1, <1>8, <2>3
<1>11. CASE r.rows \cap Open(alloc) # {}
  <2>1. PICK a \in r.rows \cap Open(alloc) : TRUE
    BY <1>11
  <2> DEFINE old == alloc[a].bed
  <2>2. old \in Beds /\ old # b /\ alloc[a].stay = s
    BY <1>1, <1>3, <2>1, OpenRows
  <2>3. \A c \in r.rows \cap Open(alloc) : c = a
    BY <1>3, <1>4, <2>1 DEF Indexed
  <2>4. holder[old] = s
    BY <1>1, <1>4, <2>1, <2>2, HeldBy DEF holder
  <2>5. heldIn(before)[old] = None
    BY <1>1, <1>2, <1>4, <1>5, <2>1, LeavesGo
  <2> HIDE DEF old
  <2>6. \A c \in Beds : c # old => heldIn(before)[c] = holder[c]
    BY <1>7, <2>3 DEF old
  <2>7. holder[b] = None
    BY <1>1, <1>8, <2>2, <2>6
  <2>8. holder' = [holder EXCEPT ![old] = None, ![b] = s]
    <3>1. \A c \in Beds : holder'[c] = IF c = b THEN s ELSE IF c = old THEN None ELSE holder[c]
      BY <1>8, <2>5, <2>6
    <3> QED
      BY <1>1, <1>9, <2>2, <3>1
  <2>9. R!Move(s, old, b)
    BY <2>4, <2>7, <2>8 DEF R!Move
  <2> QED
    BY <1>1, <1>8, <2>2, <2>9
<1> QED
  BY <1>10, <1>11

(* Rows that end or are deleted: a set of stays leaves its beds.           *)
LEMMA GoneLeave ==
    ASSUME TypeOK, Indexed(alloc), alloc' \in Tables, Open(alloc') \subseteq Open(alloc),
           \A a \in Open(alloc') : alloc'[a].stay = alloc[a].stay /\ alloc'[a].bed = alloc[a].bed
    PROVE  Indexed(alloc') /\ \E S \in SUBSET Stays : R!Leave(S)
<1> DEFINE S == {alloc[a].stay : a \in Open(alloc) \ Open(alloc')}
<1>1. alloc \in Tables
  BY DEF TypeOK, RowsOK, Tables
<1>2. /\ Indexed(alloc')
      /\ \A a \in Open(alloc) : a \notin Open(alloc') => holder'[alloc[a].bed] = None
      /\ \A b \in Beds : (\A a \in Open(alloc) : a \notin Open(alloc') => alloc[a].bed # b)
            => holder'[b] = holder[b]
  BY <1>1, LeavesGo DEF holder
<1>3. S \in SUBSET Stays
  BY <1>1, OpenRows
<1>4. ASSUME NEW b \in Beds
      PROVE  holder'[b] = IF holder[b] \in S THEN None ELSE holder[b]
  <2>1. CASE \E a \in Open(alloc) : alloc[a].bed = b
    <3>1. PICK a \in Open(alloc) : alloc[a].bed = b
      BY <2>1
    <3>2. holder[b] = alloc[a].stay
      BY <1>1, <3>1, HeldBy DEF holder
    <3>3. holder[b] \in S <=> a \notin Open(alloc')
      BY <3>1, <3>2 DEF Indexed
    <3>4. \A c \in Open(alloc) : c # a => alloc[c].bed # b
      BY <3>1 DEF Indexed
    <3> QED
      BY <1>2, <3>1, <3>3, <3>4
  <2>2. CASE \A a \in Open(alloc) : alloc[a].bed # b
    <3>1. holder[b] = None
      BY <2>2, FreeIn DEF holder
    <3> QED
      BY <1>2, <2>2, <3>1
  <2> QED
    BY <2>1, <2>2
<1>5. holder' = [b \in Beds |-> holder'[b]]
  BY DEF holder, heldIn
<1> HIDE DEF S
<1>6. holder' = [b \in Beds |-> IF holder[b] \in S THEN None ELSE holder[b]]
  BY <1>4, <1>5
<1> QED
  BY <1>2, <1>3, <1>6 DEF R!Leave

LEMMA RegisterStep ==
    ASSUME InStep, TypeOK', [Next]_vars
    PROVE  Indexed(alloc') /\ (R!Next \/ UNCHANGED holder)
<1>1. TypeOK /\ Indexed(alloc)
  BY DEF InStep
<1>2. ASSUME alloc' = alloc PROVE Indexed(alloc') /\ UNCHANGED holder
  BY <1>1, <1>2 DEF holder
<1>3. alloc' \in Tables
  BY DEF TypeOK, RowsOK, Tables
<1>4. CASE Asks \/ UNCHANGED vars
  BY <1>2, <1>4, AskingChangesNoRow DEF vars, store
<1>5. CASE Writes
  <2>1. CASE \/ \E s \in Stays, leaves \in Leaving : updateResident(s, leaves)
             \/ \E s \in Stays, owes \in BOOLEAN : BillChanges(s, owes)
             \/ \E r \in Rooms, size \in Capacities : createRoom(r, size)
             \/ \E p \in Procs : CommitUpdateRoom(p) \/ CommitDeleteRoom(p) \/ WriteBedStatus(p)
    BY <1>2, <2>1 DEF updateResident, BillChanges, createRoom, CommitUpdateRoom,
       CommitDeleteRoom, WriteBedStatus
  <2>2. ASSUME NEW p \in Procs, NEW leaves \in Leaving, NEW owes \in Owing,
               CommitCreate(p, leaves, owes)
        PROVE  Indexed(alloc') /\ (R!Next \/ UNCHANGED holder)
    <3>1. CASE UNCHANGED <<alloc, bed>>
      BY <1>2, <3>1
    <3>2. ASSUME NEW s \in Stays, NEW b \in Beds, NEW day \in Days, Opens(s, b, day, alloc, {})
          PROVE  Indexed(alloc') /\ R!Next
      BY <1>1, <3>2, OpenedTakes DEF R!Next
    <3> QED
      BY <1>1, <2>2, <3>1, <3>2, CreateOpens
  <2>3. ASSUME NEW p \in Procs, NEW owes \in Owing, CommitMove(p, owes)
        PROVE  Indexed(alloc') /\ R!Next
    BY <2>3, MoveMoves DEF R!Next
  <2>4. ASSUME NEW p \in Procs, CommitExit(p) PROVE Indexed(alloc') /\ R!Next
    <3> DEFINE r == req[p]
    <3>1. r.day \in Days /\ MayClose(r.rows, r.day) /\ alloc' = Closed(r.rows, r.day)
      BY <1>1, <2>4, ExitEnds
    <3> HIDE DEF r
    <3>2. /\ Open(alloc') \subseteq Open(alloc)
          /\ \A a \in Open(alloc') : alloc'[a].stay = alloc[a].stay /\ alloc'[a].bed = alloc[a].bed
      BY <1>1, <3>1, Ended DEF TypeOK, Open
    <3> QED
      BY <1>1, <1>3, <3>2, GoneLeave DEF R!Next
  <2>5. ASSUME NEW p \in Procs, CommitDelete(p) PROVE Indexed(alloc') /\ R!Next
    <3>1. /\ Open(alloc') \subseteq Open(alloc)
          /\ \A a \in Open(alloc') : alloc'[a] = alloc[a]
      BY <1>1, <2>5, Deleted DEF Open
    <3> QED
      BY <1>1, <1>3, <3>1, GoneLeave DEF R!Next
  <2> QED
    BY <1>5, <2>1, <2>2, <2>3, <2>4, <2>5 DEF Writes
<1> QED
  BY <1>4, <1>5, StepKinds
-----------------------------------------------------------------------------
(* What a request asks for stays as it is, but for the flag that is read.  *)
SameAsked(q) == /\ req'[q].op = req[q].op /\ req'[q].stay = req[q].stay
                /\ req'[q].bed = req[q].bed /\ req'[q].rows = req[q].rows

LEMMA FinishMovesNothing ==
    ASSUME TypeOK, NEW p \in Procs, NEW q \in Procs, Finish(p)
    PROVE  SameAsked(q) \/ LeavesFor(req'[q])
BY DEF Finish, SameAsked, LeavesFor, NoRequest, TypeOK, RequestsOK

LEMMA NewMoveAway ==
    ASSUME TypeOK, NEW p \in Workers, Request(p)
    PROVE  LeavesFor(req'[p])
<1>1. CASE \E s \in Stays, b \in Beds, day \in Days : StartMove(p, s, b, day)
  <2>1. PICK s \in Stays, b \in Beds, day \in Days : StartMove(p, s, b, day)
    BY <1>1
  <2>2. req'[p].stay = s /\ req'[p].bed = b /\ req'[p].rows = OpenOfStay(s)
    BY <2>1 DEF StartMove, Begin, NoRequest, TypeOK, RequestsOK, Procs
  <2>3. OpenOfStay(s) \cap OpenOnBed(b) = {}
    BY <2>1 DEF StartMove
  <2> QED
    BY <2>2, <2>3 DEF LeavesFor, OpenOfStay, OpenOnBed, Open, Rows
<1>2. CASE ~\E s \in Stays, b \in Beds, day \in Days : StartMove(p, s, b, day)
  <2>0. req \in [Procs -> Requests] /\ p \in Procs
    BY DEF TypeOK, RequestsOK, Procs
  <2>1. req'[p].op # "move"
    <3>1. ASSUME NEW u \in Users, NEW b \in Beds \cup {None}, NEW day \in Days,
                 StartCreate(p, u, b, day)
          PROVE  req'[p].op = "create"
      BY <2>0, <3>1 DEF StartCreate, Begin, NoRequest
    <3>2. ASSUME NEW s \in Stays, NEW day \in Days, StartExit(p, s, day)
          PROVE  req'[p].op = "exit"
      BY <2>0, <3>2 DEF StartExit, Begin, NoRequest
    <3>3. ASSUME NEW u \in Users, StartDelete(p, u) PROVE req'[p].op = "delete"
      BY <2>0, <3>3 DEF StartDelete, Begin, NoRequest
    <3>4. ASSUME NEW r \in Rooms, NEW size \in Capacities, NEW status \in Service,
                 StartUpdateRoom(p, r, size, status)
          PROVE  req'[p].op = "resize"
      BY <2>0, <3>4 DEF StartUpdateRoom, Begin, NoRequest
    <3>5. ASSUME NEW r \in Rooms, StartDeleteRoom(p, r) PROVE req'[p].op = "unroom"
      BY <2>0, <3>5 DEF StartDeleteRoom, Begin, NoRequest
    <3>6. ASSUME NEW b \in Beds, NEW status \in {"AVAILABLE", "MAINTENANCE"},
                 StartBedStatus(p, b, status)
          PROVE  req'[p].op = "status"
      BY <2>0, <3>6 DEF StartBedStatus, Begin, NoRequest
    <3> QED
      BY <1>2, <3>1, <3>2, <3>3, <3>4, <3>5, <3>6 DEF Request
  <2> QED
    BY <2>1 DEF LeavesFor
<1> QED
  BY <1>1, <1>2

LEMMA AskingMovesAway == TypeOK /\ MovesAway /\ Asks => MovesAway'
<1> SUFFICES ASSUME TypeOK, MovesAway, Asks PROVE MovesAway'
  OBVIOUS
<1>0. alloc' = alloc
  BY AskingChangesNoRow DEF store
<1> SUFFICES ASSUME NEW q \in Procs PROVE LeavesFor(req'[q])
  BY <1>0 DEF MovesAway, LeavesFor, Rows
<1>1. ASSUME SameAsked(q) PROVE LeavesFor(req'[q])
  BY <1>1 DEF SameAsked, MovesAway, LeavesFor
<1>2. ASSUME NEW p \in Workers, Request(p) PROVE LeavesFor(req'[q])
  <2>1. CASE q = p
    BY <1>2, <2>1, NewMoveAway
  <2>2. CASE q # p
    <3>1. \A op, label, r : Begin(p, op, label, r) => req'[q] = req[q]
      BY <2>2 DEF Begin, TypeOK, RequestsOK
    <3>2. req'[q] = req[q]
      BY <1>2, <3>1 DEF Request, StartCreate, StartMove, StartExit, StartDelete,
         StartUpdateRoom, StartDeleteRoom, StartBedStatus
    <3> QED
      BY <1>1, <3>2 DEF SameAsked
  <2> QED
    BY <2>1, <2>2
<1>3. ASSUME NEW first \in Periods, exitMaturedNotices(first) PROVE SameAsked(q)
  BY <1>3 DEF exitMaturedNotices, SameAsked
<1>4. ASSUME NEW r \in queue, NextMatured(r) PROVE LeavesFor(req'[q])
  <2>1. CASE q = Nightly
    <3>1. r \in Requests /\ req' = [req EXCEPT ![Nightly] = [r EXCEPT !.op = "job"]]
      BY <1>4 DEF NextMatured, Begin, TypeOK, RequestsOK
    <3>2. req'[q] = [r EXCEPT !.op = "job"]
      BY <2>1, <3>1 DEF TypeOK, RequestsOK
    <3> QED
      BY <3>1, <3>2 DEF LeavesFor, Requests
  <2>2. CASE q # Nightly
    BY <1>1, <1>4, <2>2 DEF NextMatured, Begin, SameAsked, TypeOK, RequestsOK
  <2> QED
    BY <2>1, <2>2
<1>5. ASSUME NEW p \in Procs, FindActiveStay(p) \/ AssertBed(p) \/ FindOtherStay(p)
      PROVE  SameAsked(q)
  BY <1>5 DEF FindActiveStay, AssertBed, FindOtherStay, SameAsked, TypeOK, RequestsOK, Requests
<1>6. ASSUME NEW p \in Procs, GiveUp(p) PROVE LeavesFor(req'[q])
  BY <1>1, <1>6, FinishMovesNothing DEF GiveUp
<1> QED
  BY <1>1, <1>2, <1>3, <1>4, <1>5, <1>6 DEF Asks

(* Kept rows: what a move in flight has read stays true of them.           *)
LEMMA WritingMovesAway == TypeOK /\ MovesAway /\ Kept /\ Writes => MovesAway'
<1> SUFFICES ASSUME TypeOK, MovesAway, Kept, Writes, NEW q \in Procs PROVE LeavesFor(req[q])'
  BY DEF MovesAway
<1>1. ASSUME req'[q] = req[q] PROVE LeavesFor(req[q])'
  <2>1. ASSUME req[q].op = "move", NEW a \in req[q].rows
        PROVE  /\ alloc'[a] # None
               /\ a \in Rows(alloc') => /\ alloc'[a].stay = req[q].stay
                                        /\ alloc'[a].bed # req[q].bed
    <3>1. a \in AllocationIds
      BY <2>1 DEF TypeOK, RequestsOK, Asked
    <3>2. /\ alloc[a] # None
          /\ a \in Rows(alloc) => alloc[a].stay = req[q].stay /\ alloc[a].bed # req[q].bed
      BY <2>1 DEF MovesAway, LeavesFor
    <3> QED
      BY <3>1, <3>2 DEF Kept
  <2> QED
    BY <1>1, <2>1 DEF LeavesFor, Rows
<1>2. ASSUME NEW p \in Procs, Finish(p) PROVE LeavesFor(req[q])'
  <2>1. CASE q = p
    BY <1>2, <2>1 DEF Finish, LeavesFor, NoRequest, TypeOK, RequestsOK
  <2>2. CASE q # p
    BY <1>1, <1>2, <2>2 DEF Finish, TypeOK, RequestsOK
  <2> QED
    BY <2>1, <2>2
<1>3. ASSUME NEW p \in Procs,
             \/ \E leaves \in Leaving, owes \in Owing : CommitCreate(p, leaves, owes)
             \/ \E owes \in Owing : CommitMove(p, owes)
             \/ CommitExit(p) \/ CommitDelete(p)
             \/ CommitUpdateRoom(p) \/ CommitDeleteRoom(p) \/ WriteBedStatus(p)
      PROVE  Finish(p)
  BY <1>3 DEF CommitCreate, CommitMove, CommitExit, CommitDelete, CommitUpdateRoom,
     CommitDeleteRoom, WriteBedStatus
<1>4. CASE \/ \E s \in Stays, leaves \in Leaving : updateResident(s, leaves)
           \/ \E s \in Stays, owes \in BOOLEAN : BillChanges(s, owes)
           \/ \E r \in Rooms, size \in Capacities : createRoom(r, size)
  BY <1>1, <1>4 DEF updateResident, BillChanges, createRoom
<1> QED
  BY <1>2, <1>3, <1>4 DEF Writes

LEMMA InStepStep == InStep /\ [Next]_vars => InStep'
<1> SUFFICES ASSUME InStep, [Next]_vars PROVE InStep'
  OBVIOUS
<1>1. TypeOK /\ MovesAway
  BY DEF InStep
<1>2. TypeOK'
  BY <1>1, TypeStep
<1>3. Indexed(alloc')
  BY <1>2, RegisterStep
<1>4. Kept
  BY <1>1, RowsKept
<1>5. UNCHANGED vars => MovesAway'
  BY <1>1 DEF vars, store, MovesAway, LeavesFor, Rows
<1>6. MovesAway'
  BY <1>1, <1>4, <1>5, StepKinds, AskingMovesAway, WritingMovesAway
<1>7. Indexed(alloc)'
  BY <1>3 DEF Indexed, Open, Rows
<1> QED
  BY <1>2, <1>6, <1>7 DEF InStep

LEMMA InStepInit == Init => InStep /\ R!Init
<1> SUFFICES ASSUME Init PROVE InStep /\ R!Init
  OBVIOUS
<1>1. Open(alloc) = {}
  BY DEF Init, Open, Rows
<1>2. Indexed(alloc)
  BY <1>1 DEF Indexed
<1>3. MovesAway
  BY DEF Init, MovesAway, LeavesFor, NoRequest
<1>4. R!Init
  BY <1>1 DEF R!Init, holder, heldIn
<1> QED
  BY <1>2, <1>3, <1>4, InitTypes DEF InStep

(* Whatever overlaps, the transactions implement the register of the beds: *)
(* no bed and no stay is given twice, and a bed changes hands only by one  *)
(* stay's leaving it and another's taking it.                              *)
THEOREM RegisterImplemented == Spec => ImplementsRegister
<1>1. InStep /\ InStep' /\ [Next]_vars => [R!Next]_holder
  BY RegisterStep DEF InStep
<1> QED
  BY <1>1, InStepInit, InStepStep, PTL DEF Spec, ImplementsRegister, R!Spec
-----------------------------------------------------------------------------
(* With one transaction at a time, nobody acts beside the one in flight.   *)
Alone == \A p, q \in Procs : Busy(p) /\ Busy(q) => p = q

(* A stay that may end, as the exit or the job read it.                    *)
Leaver(r) ==
    /\ r.stay \in Stays /\ stay[r.stay].status = "ACTIVE" /\ ~stay[r.stay].owes
    /\ r.user = stay[r.stay].user /\ r.rows = OpenOfStay(r.stay)

(* What a transaction has read is still so, whatever label it has reached. *)
StillSo(label, r) ==
    /\ label \in {"bed", "write"} /\ r.op = "move" =>
          stay[r.stay].status = "ACTIVE" /\ r.rows = OpenOfStay(r.stay)
    /\ label \in {"other", "leave"} => Leaver(r)
    /\ label = "leave" /\ ~r.flag => ActiveStaysOf(r.user) \subseteq {r.stay}
    /\ label = "delete" => \A s \in r.rows : stay[s].status = "VACATED"
    /\ label = "resize" => r.room \in Rooms /\ r.rows = BedsOf(r.room)
    /\ label = "status" => OpenOnBed(r.bed) = {}
ReadsHold == \A p \in Procs : StillSo(pc[p], req[p])

(* The job ends stays and does nothing else, each of them once.            *)
JobLists ==
    /\ pc[Nightly] \in {"idle", "other", "leave"}
    /\ \A r \in queue : Leaver(r)
    /\ \A r, x \in queue : r.stay = x.stay => r = x
    /\ pc[Nightly] # "idle" => \A r \in queue : r.stay # req[Nightly].stay

(* The labels of a room's beds count them; a room that is gone has none.   *)
Numbered(beds, size) ==
    /\ \A b \in beds : bed[b].label \in 1..size
    /\ \A x \in 1..size : \E b \in beds : bed[b].label = x
    /\ \A b, c \in beds : bed[b].label = bed[c].label => b = c
RoomsFit ==
    \A r \in Rooms : IF room[r].status \in RoomStatuses
                     THEN Numbered(BedsOf(r), room[r].capacity)
                     ELSE BedsOf(r) = {}
-----------------------------------------------------------------------------
LEMMA OthersIdle ==
    ASSUME MaxInFlight = 1, Alone, NEW p, MayStart(p)
    PROVE  \A q \in Procs \ {p} : ~Busy(q)
<1> DEFINE others == {q \in Procs \ {p} : Busy(q)}
<1>1. IsFiniteSet(others)
  <2>1. CASE others = {}
    BY <2>1, FS_EmptySet
  <2>2. CASE others # {}
    <3>1. PICK q \in others : TRUE
      BY <2>2
    <3>2. others = {q}
      BY <3>1 DEF Alone
    <3> HIDE DEF others
    <3> QED
      BY <3>2, FS_Singleton
  <2> QED
    BY <2>1, <2>2
<1>2. Cardinality(others) < 1
  BY DEF MayStart
<1> HIDE DEF others
<1>3. others = {}
  BY <1>1, <1>2, FS_CardinalityType, FS_EmptySet
<1> QED
  BY <1>3 DEF others

(* The one whose step it is: all others are idle and stay so.              *)
Acts(p) ==
    /\ \A q \in Procs \ {p} : ~Busy(q) /\ pc'[q] = pc[q] /\ req'[q] = req[q]
    /\ p # Nightly => queue' = queue
Quiet == (\A q \in Procs : ~Busy(q)) /\ UNCHANGED <<pc, req, queue>>

LEMMA StepsActor ==
    ASSUME TypeOK, NEW p \in Procs, NEW label,
           \A q \in Procs \ {p} : ~Busy(q), p # Nightly => queue' = queue,
           \/ pc' = [pc EXCEPT ![p] = label]
           \/ pc' = pc,
           \/ req' = req
           \/ \E r : req' = [req EXCEPT ![p] = r]
    PROVE  Acts(p)
BY DEF Acts, TypeOK, RequestsOK

LEMMA RequestActs ==
    ASSUME MaxInFlight = 1, TypeOK, Alone, NEW p \in Workers, Request(p)
    PROVE  Acts(p) /\ p # Nightly
<1>1. \E op, label, r : Begin(p, op, label, r)
  BY DEF Request, StartCreate, StartMove, StartExit, StartDelete, StartUpdateRoom,
     StartDeleteRoom, StartBedStatus
<1>2. queue' = queue
  BY DEF Request, StartCreate, StartMove, StartExit, StartDelete, StartUpdateRoom,
     StartDeleteRoom, StartBedStatus, job
<1>3. p \in Procs /\ p # Nightly
  BY OccupancyAssumption DEF Procs
<1> QED
  BY <1>1, <1>2, <1>3, OthersIdle, StepsActor DEF Begin

LEMMA JobActs ==
    ASSUME MaxInFlight = 1, TypeOK, Alone,
           \/ \E first \in Periods : exitMaturedNotices(first)
           \/ \E r \in queue : NextMatured(r)
    PROVE  Acts(Nightly)
<1>1. Nightly \in Procs /\ MayStart(Nightly)
  BY DEF Procs, exitMaturedNotices, NextMatured, Begin
<1>2. \A q \in Procs \ {Nightly} : ~Busy(q)
  BY <1>1, OthersIdle
<1>3. CASE \E first \in Periods : exitMaturedNotices(first)
  BY <1>1, <1>2, <1>3 DEF exitMaturedNotices, Acts
<1>4. CASE \E r \in queue : NextMatured(r)
  BY <1>1, <1>2, <1>4, StepsActor DEF NextMatured, Begin
<1> QED
  BY <1>3, <1>4

LEMMA FinishActs ==
    ASSUME TypeOK, Alone, NEW p \in Procs, pc[p] # "idle", Finish(p),
           p # Nightly => queue' = queue
    PROVE  Acts(p)
<1>1. \A q \in Procs \ {p} : ~Busy(q)
  BY DEF Alone, Busy
<1> QED
  BY <1>1, StepsActor DEF Finish

LEMMA ReadActs ==
    ASSUME TypeOK, Alone, NEW p \in Procs, FindActiveStay(p) \/ AssertBed(p) \/ FindOtherStay(p)
    PROVE  Acts(p)
<1>1. \A q \in Procs \ {p} : ~Busy(q)
  BY DEF Alone, Busy, FindActiveStay, AssertBed, FindOtherStay, At
<1>2. \E label : Goto(p, label)
  BY DEF FindActiveStay, AssertBed, FindOtherStay
<1>3. req' = req \/ \E r : req' = [req EXCEPT ![p] = r]
  <2>1. CASE FindOtherStay(p)
    <3> DEFINE flag == ActiveStaysOf(req[p].user) \ {req[p].stay} # {}
    <3>1. req' = [req EXCEPT ![p] = [req[p] EXCEPT !.flag = flag]]
      BY <2>1 DEF FindOtherStay
    <3> QED
      BY <3>1
  <2> QED
    BY <2>1 DEF FindActiveStay, AssertBed
<1> QED
  BY <1>1, <1>2, <1>3, StepsActor DEF Goto, job

LEMMA OneActs ==
    ASSUME MaxInFlight = 1, TypeOK, Alone, [Next]_vars
    PROVE  (\E p \in Procs : Acts(p)) \/ Quiet \/ UNCHANGED vars
<1>1. CASE Asks
  <2>1. ASSUME NEW p \in Procs, GiveUp(p) PROVE Acts(p)
    BY <2>1, FinishActs DEF GiveUp
  <2> QED
    BY <1>1, <2>1, RequestActs, JobActs, ReadActs DEF Asks, Procs
<1>2. CASE Writes
  <2>1. MayStart(None) => \A q \in Procs : ~Busy(q)
    BY OthersIdle, OccupancyAssumption
  <2>2. CASE \/ \E s \in Stays, leaves \in Leaving : updateResident(s, leaves)
             \/ \E s \in Stays, owes \in BOOLEAN : BillChanges(s, owes)
             \/ \E r \in Rooms, size \in Capacities : createRoom(r, size)
    BY <2>1, <2>2 DEF updateResident, BillChanges, createRoom, Quiet, job
  <2>3. ASSUME NEW p \in Procs,
               \/ \E leaves \in Leaving, owes \in Owing : CommitCreate(p, leaves, owes)
               \/ \E owes \in Owing : CommitMove(p, owes)
               \/ CommitExit(p) \/ CommitDelete(p)
               \/ CommitUpdateRoom(p) \/ CommitDeleteRoom(p) \/ WriteBedStatus(p)
        PROVE  Acts(p)
    <3>1. pc[p] # "idle" /\ Finish(p) /\ queue' = queue
      BY <2>3 DEF CommitCreate, CommitMove, CommitExit, CommitDelete, CommitUpdateRoom,
         CommitDeleteRoom, WriteBedStatus, At, job
    <3> QED
      BY <3>1, FinishActs
  <2> QED
    BY <1>2, <2>2, <2>3 DEF Writes
<1> QED
  BY <1>1, <1>2, StepKinds

LEMMA AloneStep ==
    ASSUME MaxInFlight = 1, TypeOK, Alone, [Next]_vars
    PROVE  Alone'
<1>1. ASSUME NEW p \in Procs, Acts(p) PROVE Alone'
  BY <1>1 DEF Acts, Alone, Busy
<1>2. CASE Quiet \/ UNCHANGED vars
  BY <1>2 DEF Quiet, Alone, Busy, vars, job
<1> QED
  BY <1>1, <1>2, OneActs
-----------------------------------------------------------------------------
(* Nobody reads while another one writes.                                  *)
LEMMA WritesEnd ==
    ASSUME MaxInFlight = 1, TypeOK, Alone, Writes
    PROVE  \A q \in Procs : pc'[q] = "idle"
<1>1. MayStart(None) => \A q \in Procs : ~Busy(q)
  BY OthersIdle, OccupancyAssumption
<1>2. CASE \/ \E s \in Stays, leaves \in Leaving : updateResident(s, leaves)
           \/ \E s \in Stays, owes \in BOOLEAN : BillChanges(s, owes)
           \/ \E r \in Rooms, size \in Capacities : createRoom(r, size)
  BY <1>1, <1>2 DEF updateResident, BillChanges, createRoom, Busy
<1>3. ASSUME NEW p \in Procs,
             \/ \E leaves \in Leaving, owes \in Owing : CommitCreate(p, leaves, owes)
             \/ \E owes \in Owing : CommitMove(p, owes)
             \/ CommitExit(p) \/ CommitDelete(p)
             \/ CommitUpdateRoom(p) \/ CommitDeleteRoom(p) \/ WriteBedStatus(p)
      PROVE  \A q \in Procs : pc'[q] = "idle"
  <2>1. pc[p] # "idle" /\ Finish(p)
    BY <1>3 DEF CommitCreate, CommitMove, CommitExit, CommitDelete, CommitUpdateRoom,
       CommitDeleteRoom, WriteBedStatus, At
  <2>2. \A q \in Procs \ {p} : pc[q] = "idle"
    BY <2>1 DEF Alone, Busy
  <2> QED
    BY <2>1, <2>2 DEF Finish, TypeOK, RequestsOK
<1> QED
  BY <1>2, <1>3 DEF Writes

LEMMA StillSoKept ==
    ASSUME NEW q, StillSo(pc[q], req[q]), UNCHANGED store, pc'[q] = pc[q], req'[q] = req[q]
    PROVE  StillSo(pc[q], req[q])'
BY DEF StillSo, Leaver, OpenOfStay, OpenOnBed, Open, Rows, ActiveStaysOf, StaysOf, StayExists,
       BedsOf, Live, store

(* What a transaction reads as it starts is so.                            *)
LEMMA RequestReads ==
    ASSUME TypeOK, NEW p \in Workers, Request(p)
    PROVE  StillSo(pc[p], req[p])'
<1>0. /\ p \in Procs /\ pc \in [Procs -> Labels] /\ req \in [Procs -> Requests]
      /\ UNCHANGED <<stay, alloc, bed>>
  BY AskingChangesNoRow DEF TypeOK, RequestsOK, Procs, Asks, store
<1>1. ASSUME NEW u \in Users, NEW b \in Beds \cup {None}, NEW day \in Days,
             StartCreate(p, u, b, day)
      PROVE  pc'[p] = "active"
  BY <1>0, <1>1 DEF StartCreate, Begin
<1>2. ASSUME NEW s \in Stays, NEW b \in Beds, NEW day \in Days, StartMove(p, s, b, day)
      PROVE  StillSo(pc[p], req[p])'
  <2>1. /\ pc'[p] = "bed" /\ req'[p].stay = s /\ req'[p].rows = OpenOfStay(s)
        /\ stay[s].status = "ACTIVE"
    BY <1>0, <1>2 DEF StartMove, Begin, NoRequest
  <2> QED
    BY <1>0, <2>1 DEF StillSo, OpenOfStay, Open, Rows
<1>3. ASSUME NEW s \in Stays, NEW day \in Days, StartExit(p, s, day)
      PROVE  StillSo(pc[p], req[p])'
  <2>1. /\ pc'[p] = "other" /\ req'[p].stay = s /\ req'[p].rows = OpenOfStay(s)
        /\ req'[p].user = stay[s].user /\ stay[s].status = "ACTIVE" /\ ~stay[s].owes
    BY <1>0, <1>3 DEF StartExit, Begin, NoRequest
  <2> QED
    BY <1>0, <2>1 DEF StillSo, Leaver, OpenOfStay, Open, Rows
<1>4. ASSUME NEW u \in Users, StartDelete(p, u) PROVE StillSo(pc[p], req[p])'
  <2>1. pc'[p] = "delete" /\ req'[p].rows = StaysOf(u) /\ ActiveStaysOf(u) = {}
    BY <1>0, <1>4 DEF StartDelete, Begin, NoRequest
  <2>2. \A s \in StaysOf(u) : stay'[s].status = "VACATED"
    BY <1>0, <2>1 DEF ActiveStaysOf, StaysOf, StayExists
  <2> QED
    BY <2>1, <2>2 DEF StillSo
<1>5. ASSUME NEW r \in Rooms, NEW size \in Capacities, NEW status \in Service,
             StartUpdateRoom(p, r, size, status)
      PROVE  StillSo(pc[p], req[p])'
  <2>1. pc'[p] = "resize" /\ req'[p].room = r /\ req'[p].rows = BedsOf(r)
    BY <1>0, <1>5 DEF StartUpdateRoom, Begin, NoRequest
  <2> QED
    BY <1>0, <2>1 DEF StillSo, BedsOf, Live
<1>6. ASSUME NEW r \in Rooms, StartDeleteRoom(p, r) PROVE pc'[p] = "unroom"
  BY <1>0, <1>6 DEF StartDeleteRoom, Begin
<1>7. ASSUME NEW b \in Beds, NEW status \in {"AVAILABLE", "MAINTENANCE"},
             StartBedStatus(p, b, status)
      PROVE  StillSo(pc[p], req[p])'
  <2>1. pc'[p] = "status" /\ req'[p].bed = b /\ OpenOnBed(b) = {}
    BY <1>0, <1>7 DEF StartBedStatus, Begin, NoRequest
  <2> QED
    BY <1>0, <2>1 DEF StillSo, OpenOnBed, Open, Rows
<1>8. pc'[p] \in {"active", "unroom"} => StillSo(pc[p], req[p])'
  BY DEF StillSo
<1> QED
  BY <1>1, <1>2, <1>3, <1>4, <1>5, <1>6, <1>7, <1>8 DEF Request

LEMMA MaturedReads ==
    ASSUME TypeOK, JobLists, NEW r \in queue, NextMatured(r)
    PROVE  StillSo(pc[Nightly], req[Nightly])' /\ req'[Nightly].stay = r.stay
<1>1. /\ r \in Requests /\ pc' = [pc EXCEPT ![Nightly] = "other"]
      /\ req' = [req EXCEPT ![Nightly] = [r EXCEPT !.op = "job"]]
      /\ UNCHANGED <<stay, alloc, bed>>
  BY DEF NextMatured, Begin, TypeOK, RequestsOK, store
<1>2. pc'[Nightly] = "other" /\ req'[Nightly] = [r EXCEPT !.op = "job"]
  BY <1>1 DEF TypeOK, RequestsOK, Procs
<1>3. /\ req'[Nightly].stay = r.stay /\ req'[Nightly].user = r.user
      /\ req'[Nightly].rows = r.rows
  BY <1>1, <1>2 DEF Requests
<1> QED
  BY <1>1, <1>2, <1>3 DEF StillSo, JobLists, Leaver, OpenOfStay, Open, Rows

LEMMA FurtherReads ==
    ASSUME TypeOK, NEW p \in Procs, StillSo(pc[p], req[p]),
           FindActiveStay(p) \/ AssertBed(p) \/ FindOtherStay(p)
    PROVE  StillSo(pc[p], req[p])'
<1>0. pc \in [Procs -> Labels] /\ req \in [Procs -> Requests] /\ UNCHANGED <<stay, alloc, bed>>
  BY AskingChangesNoRow DEF TypeOK, RequestsOK, Asks, store
<1>1. CASE FindActiveStay(p)
  <2>1. pc'[p] \in {"write", "bed"} /\ req'[p].op = "create"
    BY <1>0, <1>1 DEF FindActiveStay, Goto, At
  <2> QED
    BY <2>1 DEF StillSo
<1>2. CASE AssertBed(p)
  <2>1. pc[p] = "bed" /\ pc'[p] = "write" /\ req'[p] = req[p]
    BY <1>0, <1>2 DEF AssertBed, Goto
  <2> QED
    BY <1>0, <2>1 DEF StillSo, OpenOfStay, Open, Rows
<1>3. CASE FindOtherStay(p)
  <2> DEFINE others == ActiveStaysOf(req[p].user) \ {req[p].stay}
             flag == others # {}
  <2>1. /\ pc[p] = "other" /\ pc'[p] = "leave"
        /\ req' = [req EXCEPT ![p] = [req[p] EXCEPT !.flag = flag]]
    BY <1>0, <1>3 DEF FindOtherStay, Goto
  <2>2. flag \in BOOLEAN
    OBVIOUS
  <2> HIDE DEF flag
  <2>3. /\ req'[p].flag = flag /\ req'[p].stay = req[p].stay /\ req'[p].user = req[p].user
        /\ req'[p].rows = req[p].rows
    BY <1>0, <2>1, <2>2 DEF Requests
  <2>4. Leaver(req[p])
    BY <2>1 DEF StillSo
  <2>5. (~req[p].flag => ActiveStaysOf(req[p].user) \subseteq {req[p].stay})'
    BY <1>0, <2>3 DEF flag, ActiveStaysOf, StaysOf, StayExists
  <2>6. Leaver(req[p])'
    BY <1>0, <2>3, <2>4 DEF Leaver, OpenOfStay, Open, Rows
  <2> QED
    BY <2>1, <2>5, <2>6 DEF StillSo
<1> QED
  BY <1>1, <1>2, <1>3

LEMMA ReadsStep ==
    ASSUME MaxInFlight = 1, TypeOK, Alone, JobLists, ReadsHold, [Next]_vars
    PROVE  ReadsHold'
<1>1. ASSUME NEW p \in Procs, Acts(p), UNCHANGED store, StillSo(pc[p], req[p])'
      PROVE  ReadsHold'
  BY <1>1, StillSoKept DEF Acts, ReadsHold
<1>2. CASE Asks
  <2>0. UNCHANGED store
    BY <1>2, AskingChangesNoRow
  <2>1. ASSUME NEW p \in Workers, Request(p) PROVE ReadsHold'
    BY <1>1, <2>0, <2>1, RequestActs, RequestReads DEF Procs
  <2>2. ASSUME NEW first \in Periods, exitMaturedNotices(first) PROVE ReadsHold'
    <3>1. UNCHANGED <<pc, req>>
      BY <2>2 DEF exitMaturedNotices
    <3> QED
      BY <2>0, <3>1, StillSoKept DEF ReadsHold
  <2>3. ASSUME NEW r \in queue, NextMatured(r) PROVE ReadsHold'
    BY <1>1, <2>0, <2>3, JobActs, MaturedReads DEF Procs
  <2>4. ASSUME NEW p \in Procs, FindActiveStay(p) \/ AssertBed(p) \/ FindOtherStay(p)
        PROVE  ReadsHold'
    BY <1>1, <2>0, <2>4, ReadActs, FurtherReads DEF ReadsHold
  <2>5. ASSUME NEW p \in Procs, GiveUp(p) PROVE ReadsHold'
    <3>1. Acts(p)
      BY <2>5, FinishActs DEF GiveUp
    <3>2. pc'[p] = "idle"
      BY <2>5 DEF GiveUp, Finish, TypeOK, RequestsOK
    <3> QED
      BY <1>1, <2>0, <3>1, <3>2 DEF StillSo
  <2> QED
    BY <1>2, <2>1, <2>2, <2>3, <2>4, <2>5 DEF Asks
<1>3. CASE Writes
  BY <1>3, WritesEnd DEF ReadsHold, StillSo
<1>4. CASE UNCHANGED vars
  BY <1>4, StillSoKept DEF ReadsHold, vars
<1> QED
  BY <1>2, <1>3, <1>4, StepKinds
-----------------------------------------------------------------------------
LEMMA LeaverKept ==
    ASSUME NEW r, Leaver(r), stay'[r.stay] = stay[r.stay], OpenOfStay(r.stay)' = OpenOfStay(r.stay)
    PROVE  Leaver(r)'
BY DEF Leaver

LEMMA JobListsKept ==
    ASSUME JobLists, UNCHANGED <<stay, alloc, queue>>, pc'[Nightly] = pc[Nightly],
           req'[Nightly] = req[Nightly]
    PROVE  JobLists'
<1>1. \A s : OpenOfStay(s)' = OpenOfStay(s)
  BY DEF OpenOfStay, Open, Rows
<1>2. \A r \in queue' : Leaver(r)'
  BY <1>1, LeaverKept DEF JobLists
<1> QED
  BY <1>2 DEF JobLists

(* The job lists each stay once, and only stays that may end.              *)
LEMMA MaturedLists ==
    ASSUME TypeOK, NEW first \in Periods, exitMaturedNotices(first)
    PROVE  JobLists'
<1> DEFINE asked(s) == [NoRequest EXCEPT !.stay = s, !.user = stay[s].user,
                                         !.day = stay[s].leaves, !.rows = OpenOfStay(s)]
<1>1. /\ UNCHANGED <<stay, alloc, pc>> /\ pc[Nightly] = "idle"
      /\ queue' = {asked(s) : s \in {x \in Stays : /\ stay[x].status = "ACTIVE" /\ ~stay[x].owes
                                                   /\ stay[x].leaves # NoDay
                                                   /\ stay[x].leaves < first}}
  BY DEF exitMaturedNotices, store, Busy
<1>2. \A s : OpenOfStay(s)' = OpenOfStay(s)
  BY <1>1 DEF OpenOfStay, Open, Rows
<1>3. \A s : /\ asked(s).stay = s /\ asked(s).user = stay[s].user
             /\ asked(s).rows = OpenOfStay(s)
  BY DEF NoRequest
<1> HIDE DEF asked
<1>4. ASSUME NEW r \in queue' PROVE Leaver(r)' /\ r = asked(r.stay)
  <2>1. PICK s \in Stays : r = asked(s) /\ stay[s].status = "ACTIVE" /\ ~stay[s].owes
    BY <1>1
  <2>2. /\ r.stay = s /\ stay'[s].status = "ACTIVE" /\ ~stay'[s].owes
        /\ r.user = stay'[s].user /\ r.rows = OpenOfStay(s)'
    BY <1>1, <1>2, <1>3, <2>1
  <2> QED
    BY <2>1, <2>2 DEF Leaver
<1> QED
  BY <1>1, <1>4 DEF JobLists

LEMMA NextMaturedLists ==
    ASSUME TypeOK, JobLists, NEW r \in queue, NextMatured(r)
    PROVE  JobLists'
<1>1. /\ pc' = [pc EXCEPT ![Nightly] = "other"] /\ queue' = queue \ {r}
      /\ UNCHANGED <<stay, alloc>>
  BY DEF NextMatured, Begin, store
<1>2. req'[Nightly].stay = r.stay
  BY MaturedReads
<1>3. pc'[Nightly] = "other"
  BY <1>1 DEF TypeOK, RequestsOK, Procs
<1>4. \A s : OpenOfStay(s)' = OpenOfStay(s)
  BY <1>1 DEF OpenOfStay, Open, Rows
<1>5. \A x \in queue' : Leaver(x)'
  BY <1>1, <1>4, LeaverKept DEF JobLists
<1> QED
  BY <1>1, <1>2, <1>3, <1>5 DEF JobLists

(* Its exits leave the other stays it listed as they were.                 *)
LEMMA ExitLists ==
    ASSUME InStep, JobLists, ReadsHold, CommitExit(Nightly)
    PROVE  JobLists'
<1> DEFINE r == req[Nightly]
<1>1. /\ pc[Nightly] = "leave" /\ alloc' = Closed(r.rows, r.day)
      /\ stay' = [stay EXCEPT ![r.stay].status = "VACATED"]
      /\ Finish(Nightly) /\ queue' = queue
  BY DEF CommitExit, job
<1>2. r.day \in Days /\ MayClose(r.rows, r.day)
  BY ExitEnds DEF InStep, Procs
<1>3. r.rows = OpenOfStay(r.stay)
  BY <1>1 DEF ReadsHold, StillSo, Leaver, Procs
<1>4. pc'[Nightly] = "idle"
  BY <1>1 DEF Finish, InStep, TypeOK, RequestsOK, Procs
<1>5. ASSUME NEW s, s # r.stay PROVE OpenOfStay(s)' = OpenOfStay(s)
  <2>1. /\ Open(alloc') = Open(alloc) \ r.rows
        /\ \A a \in Open(alloc) : alloc'[a].stay = alloc[a].stay
    BY <1>1, <1>2, Ended DEF InStep, TypeOK, Open
  <2> HIDE DEF r
  <2> QED
    BY <1>3, <1>5, <2>1 DEF OpenOfStay
<1>6. \A x \in queue : x.stay # r.stay
  BY <1>1 DEF JobLists
<1>7. \A s \in Stays : s # r.stay => stay'[s] = stay[s]
  BY <1>1 DEF InStep, TypeOK, RowsOK
<1>8. \A x \in queue' : Leaver(x)'
  BY <1>1, <1>5, <1>6, <1>7, LeaverKept DEF JobLists, Leaver
<1> QED
  BY <1>1, <1>4, <1>8 DEF JobLists

LEMMA JobListsStep ==
    ASSUME MaxInFlight = 1, InStep, Alone, JobLists, ReadsHold, [Next]_vars
    PROVE  JobLists'
<1>0. TypeOK /\ Nightly \in Procs
  BY DEF InStep, Procs
<1>1. ASSUME NEW p \in Procs, p # Nightly, Acts(p), UNCHANGED store PROVE JobLists'
  BY <1>0, <1>1, JobListsKept DEF Acts, store
<1>2. ASSUME queue' = {}, pc'[Nightly] = "idle" PROVE JobLists'
  BY <1>2 DEF JobLists
<1>3. CASE Asks
  <2>0. UNCHANGED store
    BY <1>3, AskingChangesNoRow
  <2>1. ASSUME NEW p \in Workers, Request(p) PROVE JobLists'
    BY <1>0, <1>1, <2>0, <2>1, RequestActs DEF Procs
  <2>2. ASSUME NEW p \in Procs, FindActiveStay(p) \/ AssertBed(p) \/ FindOtherStay(p)
        PROVE  JobLists'
    <3>1. CASE p # Nightly
      BY <1>0, <1>1, <2>0, <2>2, <3>1, ReadActs
    <3>2. CASE p = Nightly
      <4>1. FindOtherStay(Nightly) /\ pc[Nightly] = "other"
        BY <2>2, <3>2 DEF JobLists, FindActiveStay, AssertBed, FindOtherStay, At
      <4>2. pc'[Nightly] = "leave" /\ queue' = queue
        BY <1>0, <4>1 DEF FindOtherStay, Goto, job, TypeOK, RequestsOK
      <4>3. req'[Nightly].stay = req[Nightly].stay
        BY <1>0, <4>1 DEF FindOtherStay, TypeOK, RequestsOK, Requests
      <4>4. \A x \in queue' : Leaver(x)'
        <5>1. \A s : OpenOfStay(s)' = OpenOfStay(s)
          BY <2>0 DEF OpenOfStay, Open, Rows, store
        <5> QED
          BY <2>0, <4>2, <5>1, LeaverKept DEF JobLists, store
      <4> QED
        BY <4>1, <4>2, <4>3, <4>4 DEF JobLists
    <3> QED
      BY <3>1, <3>2
  <2>3. ASSUME NEW p \in Procs, GiveUp(p) PROVE JobLists'
    <3>1. CASE p # Nightly
      BY <1>0, <1>1, <2>0, <2>3, <3>1, FinishActs DEF GiveUp
    <3>2. CASE p = Nightly
      BY <1>0, <1>2, <2>3, <3>2 DEF GiveUp, Finish, TypeOK, RequestsOK
    <3> QED
      BY <3>1, <3>2
  <2> QED
    BY <1>0, <1>3, <2>1, <2>2, <2>3, MaturedLists, NextMaturedLists DEF Asks
<1>4. CASE Writes
  <2>1. pc'[Nightly] = "idle"
    BY <1>0, <1>4, WritesEnd
  <2>2. CASE pc[Nightly] = "idle"
    <3>1. queue' = queue
      BY <1>4 DEF Writes, updateResident, BillChanges, createRoom, CommitCreate, CommitMove,
         CommitExit, CommitDelete, CommitUpdateRoom, CommitDeleteRoom, WriteBedStatus, job
    <3>2. CASE queue = {}
      BY <1>2, <2>1, <3>1, <3>2
    <3>3. CASE queue # {}
      <4>1. Busy(Nightly) /\ pc[Nightly] = "idle"
        BY <2>2, <3>3 DEF Busy
      <4>2. \A q \in Procs : pc[q] = "idle"
        BY <1>0, <4>1 DEF Alone, Busy
      <4>3. ~MayStart(None)
        BY <1>0, <4>1, OthersIdle, OccupancyAssumption
      <4> QED
        BY <1>4, <4>2, <4>3 DEF Writes, updateResident, BillChanges, createRoom, CommitCreate,
           CommitMove, CommitExit, CommitDelete, CommitUpdateRoom, CommitDeleteRoom,
           WriteBedStatus, At
    <3> QED
      BY <3>2, <3>3
  <2>3. CASE pc[Nightly] # "idle"
    <3>1. \A q \in Procs : pc[q] # "idle" => q = Nightly
      BY <1>0, <2>3 DEF Alone, Busy
    <3>2. ~MayStart(None)
      BY <1>0, <2>3, OthersIdle, OccupancyAssumption DEF Busy
    <3>3. \A p \in Procs : pc[p] \in {"idle", "other", "leave"}
      BY <3>1 DEF JobLists
    <3>4. \A p \in Procs :
            /\ \A leaves \in Leaving, owes \in Owing : ~CommitCreate(p, leaves, owes)
            /\ \A owes \in Owing : ~CommitMove(p, owes)
            /\ ~CommitDelete(p) /\ ~CommitUpdateRoom(p) /\ ~CommitDeleteRoom(p)
            /\ ~WriteBedStatus(p)
      BY <3>3 DEF CommitCreate, CommitMove, CommitDelete, CommitUpdateRoom, CommitDeleteRoom,
         WriteBedStatus, At
    <3>5. PICK p \in Procs : CommitExit(p)
      BY <1>4, <3>2, <3>4 DEF Writes, updateResident, BillChanges, createRoom
    <3>6. p = Nightly
      BY <3>1, <3>5 DEF CommitExit
    <3> QED
      BY <3>5, <3>6, ExitLists
  <2> QED
    BY <2>2, <2>3
<1>5. CASE UNCHANGED vars
  BY <1>5, JobListsKept DEF vars, store, job
<1> QED
  BY <1>3, <1>4, <1>5, StepKinds
-----------------------------------------------------------------------------
(* Whom the rows that open are for, and which rows end.                    *)
LEMMA CreateRow ==
    ASSUME TypeOK, NEW p \in Procs, NEW leaves \in Leaving, NEW owes \in Owing,
           CommitCreate(p, leaves, owes)
    PROVE  \E s \in Stays :
              /\ stay[s].status = "none" /\ stay'[s].status = "ACTIVE"
              /\ \A x \in Stays \ {s} : stay'[x] = stay[x]
              /\ \/ UNCHANGED <<alloc, bed>>
                 \/ \E b \in Beds, day \in Days : Opens(s, b, day, alloc, {})
<1> DEFINE r == req[p]
           s == CHOOSE x \in Stays : stay[x].status = "none" /\ stay[x].user = None
<1>1. r.bed \in Beds \cup {None} /\ r.day \in Days /\ alloc \in Tables
  BY DEF TypeOK, RowsOK, Tables, RequestsOK, CommitCreate, At, Asked, Requests
<1>2. r.bed # None => /\ RoomForARow(alloc) /\ MayOpen(alloc, s, r.bed)
                      /\ alloc' = openAllocation(alloc, s, r.bed, r.day)
                      /\ bed' = bedsAfter({}, r.bed)
  BY DEF CommitCreate
<1>3. r.bed = None => UNCHANGED <<alloc, bed>>
  BY DEF CommitCreate
<1>4. s \in Stays /\ stay[s].status = "none"
  BY DEF CommitCreate
<1>5. stay' = [stay EXCEPT ![s] = [status |-> "ACTIVE", user |-> r.user,
                                   leaves |-> leaves, owes |-> owes]]
  BY DEF CommitCreate
<1> HIDE DEF r, s
<1>6. stay'[s].status = "ACTIVE" /\ \A x \in Stays \ {s} : stay'[x] = stay[x]
  BY <1>4, <1>5 DEF TypeOK, RowsOK
<1> QED
  BY <1>1, <1>2, <1>3, <1>4, <1>6 DEF Opens

LEMMA OpenedRow ==
    ASSUME NEW s, NEW b, NEW day, NEW before, NEW freed, Opens(s, b, day, before, freed)
    PROVE  \E n \in AllocationIds :
              /\ Open(alloc') = Open(before) \cup {n} /\ n \notin Open(before)
              /\ alloc'[n].stay = s /\ alloc'[n].bed = b
              /\ \A a \in Open(before) : alloc'[a] = before[a]
<1>1. PICK n \in AllocationIds :
          /\ before[n] = None /\ Open(alloc') = Open(before) \cup {n}
          /\ alloc'[n].stay = s /\ alloc'[n].bed = b
          /\ \A a \in AllocationIds \ {n} : alloc'[a] = before[a]
  BY Opened DEF Opens
<1> QED
  BY <1>1 DEF Open, Rows

(* With nobody beside it, a move or an exit ends the rows of its stay that *)
(* are open, all of them and no other.                                     *)
LEMMA MoveRow ==
    ASSUME TypeOK, ReadsHold, NEW p \in Procs, NEW owes \in Owing, CommitMove(p, owes),
           NEW before, before = Closed(req[p].rows, req[p].day)
    PROVE  /\ req[p].stay \in Stays /\ stay[req[p].stay].status = "ACTIVE"
           /\ req[p].rows = OpenOfStay(req[p].stay)
           /\ \A s \in Stays : stay'[s].status = stay[s].status
           /\ Opens(req[p].stay, req[p].bed, req[p].day, before, BedsIn(req[p].rows))
           /\ Open(before) = Open(alloc) \ req[p].rows
           /\ \A a \in Open(before) : /\ before[a].stay = alloc[a].stay
                                      /\ before[a].bed = alloc[a].bed
<1> DEFINE r == req[p]
<1>1. /\ r.op = "move" /\ r.day \in Days /\ MayClose(r.rows, r.day)
      /\ Opens(r.stay, r.bed, r.day, before, BedsIn(r.rows))
  BY MoveOpens
<1>2. stay[r.stay].status = "ACTIVE" /\ r.rows = OpenOfStay(r.stay)
  BY <1>1 DEF CommitMove, At, ReadsHold, StillSo
<1>3. \A s \in Stays : stay'[s].status = stay[s].status
  <2> DEFINE still == stay[r.stay].owes \/ owes
  <2>1. stay' = [stay EXCEPT ![r.stay] = [stay[r.stay] EXCEPT !.owes = still]]
    BY DEF CommitMove
  <2> HIDE DEF still, r
  <2> QED
    BY <2>1 DEF TypeOK, RowsOK, StayRows
<1>0. before = Closed(r.rows, r.day)
  OBVIOUS
<1> HIDE DEF r
<1>4. /\ Open(before) = Open(alloc) \ r.rows
      /\ \A a \in Rows(alloc) : before[a].stay = alloc[a].stay /\ before[a].bed = alloc[a].bed
  BY <1>0, <1>1, Ended DEF TypeOK
<1>5. r.stay \in Stays
  BY <1>1 DEF Opens
<1> QED
  BY <1>1, <1>2, <1>3, <1>4, <1>5 DEF r, Open

LEMMA ExitRow ==
    ASSUME TypeOK, ReadsHold, NEW p \in Procs, CommitExit(p)
    PROVE  /\ Leaver(req[p]) /\ (~req[p].flag => ActiveStaysOf(req[p].user) \subseteq {req[p].stay})
           /\ stay' = [stay EXCEPT ![req[p].stay].status = "VACATED"]
           /\ bed' = bedsAfter(BedsIn(req[p].rows), None)
           /\ Open(alloc') = Open(alloc) \ req[p].rows
           /\ \A a \in Open(alloc') : /\ alloc'[a].stay = alloc[a].stay
                                      /\ alloc'[a].bed = alloc[a].bed
<1> DEFINE r == req[p]
<1>1. /\ r.day \in Days /\ MayClose(r.rows, r.day) /\ alloc' = Closed(r.rows, r.day)
      /\ bed' = bedsAfter(BedsIn(r.rows), None)
  BY ExitEnds
<1>2. pc[p] = "leave" /\ stay' = [stay EXCEPT ![r.stay].status = "VACATED"]
  BY DEF CommitExit
<1>3. Leaver(r) /\ (~r.flag => ActiveStaysOf(r.user) \subseteq {r.stay})
  BY <1>2 DEF ReadsHold, StillSo
<1> HIDE DEF r
<1>4. /\ Open(alloc') = Open(alloc) \ r.rows
      /\ \A a \in Rows(alloc) : alloc'[a].stay = alloc[a].stay /\ alloc'[a].bed = alloc[a].bed
  BY <1>1, Ended DEF TypeOK
<1> QED
  BY <1>1, <1>2, <1>3, <1>4 DEF r, Open

(* Erasing the data of someone who has left takes no open row.             *)
LEMMA DeleteRow ==
    ASSUME TypeOK, ReadsHold, VacatedHoldsNoBed, NEW p \in Procs, CommitDelete(p)
    PROVE  /\ Open(alloc') = Open(alloc) /\ \A a \in Open(alloc) : alloc'[a] = alloc[a]
           /\ \A s \in Stays : stay'[s].status = "VACATED" => stay[s].status = "VACATED"
<1> DEFINE S == req[p].rows
<1>1. pc[p] = "delete" /\ S \subseteq Stays
  BY DEF CommitDelete, TypeOK, RequestsOK, Asked
<1>2. \A s \in S : stay[s].status = "VACATED"
  BY <1>1 DEF ReadsHold, StillSo
<1>3. \A a \in Open(alloc) : alloc[a].stay \notin S
  BY <1>1, <1>2 DEF VacatedHoldsNoBed, OpenOfStay
<1>4. /\ Open(alloc') = {a \in Open(alloc) : alloc[a].stay \notin S}
      /\ \A a \in Rows(alloc') : alloc'[a] = alloc[a]
  BY Deleted
<1>5. \A s \in Stays : stay'[s].status = "VACATED" => stay[s].status = "VACATED"
  <2>1. stay' = [s \in Stays |-> IF s \in S THEN [stay[s] EXCEPT !.status = "none"] ELSE stay[s]]
    BY DEF CommitDelete
  <2> HIDE DEF S
  <2> QED
    BY <2>1 DEF TypeOK, RowsOK, StayRows
<1> QED
  BY <1>3, <1>4, <1>5 DEF Open
-----------------------------------------------------------------------------
LEMMA VacatedStep ==
    ASSUME InStep, ReadsHold, VacatedHoldsNoBed, [Next]_vars
    PROVE  VacatedHoldsNoBed'
<1>0. TypeOK
  BY DEF InStep
<1>1. ASSUME NEW s \in Stays, stay[s].status = "VACATED", NEW a \in Open(alloc)
      PROVE  alloc[a].stay # s
  BY <1>1 DEF VacatedHoldsNoBed, OpenOfStay
<1> SUFFICES ASSUME NEW s \in Stays, stay'[s].status = "VACATED", NEW a \in Open(alloc')
             PROVE  alloc'[a].stay # s
  BY DEF VacatedHoldsNoBed, OpenOfStay
<1>2. ASSUME stay[s].status = "VACATED", alloc' = alloc PROVE alloc'[a].stay # s
  BY <1>1, <1>2
<1>3. CASE Asks \/ UNCHANGED vars
  BY <1>2, <1>3, AskingChangesNoRow DEF vars, store
<1>4. ASSUME NEW p \in Procs, NEW leaves \in Leaving, NEW owes \in Owing,
             CommitCreate(p, leaves, owes)
      PROVE  alloc'[a].stay # s
  <2>1. PICK x \in Stays :
            /\ stay[x].status = "none" /\ stay'[x].status = "ACTIVE"
            /\ \A y \in Stays \ {x} : stay'[y] = stay[y]
            /\ \/ UNCHANGED <<alloc, bed>>
               \/ \E b \in Beds, day \in Days : Opens(x, b, day, alloc, {})
    BY <1>0, <1>4, CreateRow
  <2>2. s # x /\ stay[s].status = "VACATED"
    BY <2>1
  <2> QED
    BY <1>1, <1>2, <2>1, <2>2, OpenedRow
<1>5. ASSUME NEW p \in Procs, NEW owes \in Owing, CommitMove(p, owes)
      PROVE  alloc'[a].stay # s
  <2> DEFINE before == Closed(req[p].rows, req[p].day)
  <2>1. /\ stay[req[p].stay].status = "ACTIVE" /\ stay[s].status = "VACATED"
        /\ Opens(req[p].stay, req[p].bed, req[p].day, before, BedsIn(req[p].rows))
        /\ Open(before) \subseteq Open(alloc)
        /\ \A c \in Open(before) : before[c].stay = alloc[c].stay
    BY <1>0, <1>5, MoveRow
  <2> HIDE DEF before
  <2> QED
    BY <1>1, <2>1, OpenedRow
<1>6. ASSUME NEW p \in Procs, CommitExit(p) PROVE alloc'[a].stay # s
  <2> DEFINE r == req[p]
  <2>1. /\ Leaver(r) /\ stay' = [stay EXCEPT ![r.stay].status = "VACATED"]
        /\ Open(alloc') = Open(alloc) \ r.rows
        /\ \A c \in Open(alloc') : alloc'[c].stay = alloc[c].stay
    BY <1>0, <1>6, ExitRow
  <2> HIDE DEF r
  <2>2. CASE s = r.stay
    BY <2>1, <2>2 DEF Leaver, OpenOfStay
  <2>3. CASE s # r.stay
    <3>1. stay'[s] = stay[s]
      BY <1>0, <2>1, <2>3 DEF TypeOK, RowsOK
    <3> QED
      BY <1>1, <2>1, <3>1
  <2> QED
    BY <2>2, <2>3
<1>7. ASSUME NEW p \in Procs, CommitDelete(p) PROVE alloc'[a].stay # s
  BY <1>0, <1>1, <1>7, DeleteRow
<1>8. ASSUME NEW x \in Stays, NEW leaves \in Leaving, updateResident(x, leaves)
      PROVE  alloc'[a].stay # s
  <2>1. PICK status \in {"ACTIVE", stay[x].status} :
            stay' = [stay EXCEPT ![x].status = status, ![x].leaves = leaves]
    BY <1>8 DEF updateResident
  <2>2. stay[s].status = "VACATED"
    BY <1>0, <2>1 DEF TypeOK, RowsOK, StayRows
  <2> QED
    BY <1>2, <1>8, <2>2 DEF updateResident
<1>9. ASSUME NEW x \in Stays, NEW owes \in BOOLEAN, BillChanges(x, owes)
      PROVE  alloc'[a].stay # s
  <2>1. stay[s].status = "VACATED"
    BY <1>0, <1>9 DEF BillChanges, TypeOK, RowsOK, StayRows
  <2> QED
    BY <1>2, <1>9, <2>1 DEF BillChanges
<1>10. CASE \/ \E p \in Procs : CommitUpdateRoom(p) \/ CommitDeleteRoom(p) \/ WriteBedStatus(p)
            \/ \E r \in Rooms, size \in Capacities : createRoom(r, size)
  BY <1>2, <1>10 DEF CommitUpdateRoom, CommitDeleteRoom, WriteBedStatus, createRoom
<1>11. CASE Writes
  BY <1>4, <1>5, <1>6, <1>7, <1>8, <1>9, <1>10, <1>11 DEF Writes
<1> QED
  BY <1>3, <1>11, StepKinds
-----------------------------------------------------------------------------
(* The beds of the rows that end were held by those rows alone.            *)
LEMMA EndedFree ==
    ASSUME TypeOK, Indexed(alloc), BedFollowsAllocation, NEW t, NEW rows \in SUBSET Open(alloc),
           Open(t) = Open(alloc) \ rows, \A a \in Open(t) : t[a].bed = alloc[a].bed,
           NEW b \in Beds
    PROVE  /\ b \in BedsIn(rows) => \A a \in Open(t) : t[a].bed # b
           /\ b \notin BedsIn(rows) =>
                 (bed[b].status = "OCCUPIED" <=> \E a \in Open(t) : t[a].bed = b)
<1>1. bed[b].status = "OCCUPIED" <=> \E a \in Open(alloc) : alloc[a].bed = b
  BY DEF BedFollowsAllocation, OpenOnBed
<1>2. ASSUME b \in BedsIn(rows), NEW a \in Open(t) PROVE t[a].bed # b
  <2>1. PICK c \in rows : alloc[c].bed = b
    BY <1>2 DEF BedsIn
  <2> QED
    BY <2>1 DEF Indexed
<1>3. ASSUME b \notin BedsIn(rows)
      PROVE  (\E a \in Open(alloc) : alloc[a].bed = b) <=> \E a \in Open(t) : t[a].bed = b
  BY <1>3 DEF BedsIn
<1> QED
  BY <1>1, <1>2, <1>3

LEMMA TakenFollows ==
    ASSUME TypeOK, NEW freed, NEW taken, bed' = bedsAfter(freed, taken), NEW b \in Beds
    PROVE  bed'[b].status = "OCCUPIED" <=>
              b = taken \/ (b \notin freed /\ bed[b].status = "OCCUPIED")
BY DEF bedsAfter, TypeOK, RowsOK, BedRows

-----------------------------------------------------------------------------
(* Beds of their own for the labels from first to last, and no other bed.  *)
Adds(new, r, first, last) ==
    /\ new \in [first..last -> Unborn]
    /\ \A x, y \in first..last : new[x] = new[y] => x = y
    /\ \A x \in first..last :
          bed'[new[x]] = [status |-> "AVAILABLE", room |-> r, label |-> x]
    /\ \A b \in Beds : (\A x \in first..last : new[x] # b) => bed'[b] = bed[b]

(* Where there are beds enough, addBeds gives each label a bed of its own. *)
LEMMA AddedBeds ==
    ASSUME NEW r, NEW first \in Nat, NEW last \in Nat,
           last - first + 1 <= Cardinality(Unborn), bed' = addBeds(r, first, last)
    PROVE  \E new : Adds(new, r, first, last)
<1> DEFINE new == CHOOSE f \in [first..last -> Unborn] :
                     \A x, y \in first..last : f[x] = f[y] => x = y
           label(b) == CHOOSE x \in first..last : new[x] = b
<1>1. IsFiniteSet(Unborn) /\ Unborn \subseteq Beds
  BY OccupancyAssumption, FS_Subset DEF Unborn
<1>2. PICK f \in Bijection(1..Cardinality(Unborn), Unborn) : TRUE
  BY <1>1, FS_CardinalityType DEF ExistsBijection
<1>3. Cardinality(Unborn) \in Nat
  BY <1>1, FS_CardinalityType
<1>4. \E g \in [first..last -> Unborn] : \A x, y \in first..last : g[x] = g[y] => x = y
  <2> DEFINE n == Cardinality(Unborn)
             g == [x \in first..last |-> f[x - first + 1]]
  <2>1. f \in [1..n -> Unborn] /\ \A x, y \in 1..n : f[x] = f[y] => x = y
    BY <1>2 DEF Bijection, Injection, IsInjective
  <2> HIDE DEF n
  <2>2. \A x \in first..last : x - first + 1 \in 1..n
    BY <1>3 DEF n
  <2>3. g \in [first..last -> Unborn]
    BY <2>1, <2>2
  <2>4. \A x, y \in first..last : g[x] = g[y] => x = y
    BY <2>1, <2>2
  <2> QED
    BY <2>3, <2>4
<1>5. new \in [first..last -> Unborn] /\ \A x, y \in first..last : new[x] = new[y] => x = y
  BY <1>4
<1>6. bed' = [b \in Beds |-> IF \E x \in first..last : new[x] = b
                             THEN [status |-> "AVAILABLE", room |-> r, label |-> label(b)]
                             ELSE bed[b]]
  BY DEF addBeds
<1>7. ASSUME NEW x \in first..last PROVE label(new[x]) = x
  <2>1. label(new[x]) \in first..last /\ new[label(new[x])] = new[x]
    OBVIOUS
  <2> HIDE DEF new, label
  <2> QED
    BY <1>5, <2>1
<1> HIDE DEF new, label
<1>8. \A x \in first..last :
         bed'[new[x]] = [status |-> "AVAILABLE", room |-> r, label |-> x]
  BY <1>1, <1>5, <1>6, <1>7
<1>9. \A b \in Beds : (\A x \in first..last : new[x] # b) => bed'[b] = bed[b]
  BY <1>6
<1>10. Adds(new, r, first, last)
  BY <1>5, <1>8, <1>9 DEF Adds
<1> QED
  BY <1>10

(* The labels of numbered beds count them.                                 *)
LEMMA Counted ==
    ASSUME NEW beds, NEW n \in Nat, Numbered(beds, n)
    PROVE  {bed[b].label : b \in beds} = 1..n /\ Cardinality(beds) = n
<1> DEFINE f == [x \in 1..n |-> CHOOSE b \in beds : bed[b].label = x]
<1>1. \A x \in 1..n : f[x] \in beds /\ bed[f[x]].label = x
  BY DEF Numbered
<1>2. f \in [1..n -> beds]
  BY <1>1
<1> HIDE DEF f
<1>3. \A b \in beds : f[bed[b].label] = b /\ bed[b].label \in 1..n
  BY <1>1 DEF Numbered
<1>4. f \in Injection(1..n, beds)
  BY <1>1, <1>2 DEF Injection, IsInjective
<1>5. f \in Surjection(1..n, beds)
  BY <1>2, <1>3 DEF Surjection
<1>6. Cardinality(beds) = n
  BY <1>4, <1>5, FS_CountingElements DEF ExistsBijection, Bijection
<1>7. {bed[b].label : b \in beds} = 1..n
  BY DEF Numbered
<1> QED
  BY <1>6, <1>7

(* existing.beds.slice cuts off the labels above the new size.             *)
LEMMA BeyondLabels ==
    ASSUME NEW beds, NEW n \in Nat, NEW size \in Nat, Numbered(beds, n)
    PROVE  beyond(beds, size) = {b \in beds : bed[b].label > size}
<1> SUFFICES ASSUME NEW b \in beds
             PROVE  Cardinality({c \in beds : bed[c].label < bed[b].label}) >= size
                       <=> bed[b].label > size
  BY DEF beyond
<1> DEFINE before == {c \in beds : bed[c].label < bed[b].label}
           k == bed[b].label - 1
<1>1. bed[b].label \in 1..n
  BY DEF Numbered
<1>2. k \in Nat
  BY <1>1
<1>3. Numbered(before, k)
  BY <1>1 DEF Numbered
<1> HIDE DEF before, k
<1>4. Cardinality(before) = k
  BY <1>2, <1>3, Counted
<1> QED
  BY <1>1, <1>4 DEF before, k
-----------------------------------------------------------------------------
LEMMA BedFollowsStep ==
    ASSUME InStep, AllocatedBedsExist, ReadsHold, RoomsFit, VacatedHoldsNoBed,
           BedFollowsAllocation, [Next]_vars
    PROVE  BedFollowsAllocation'
<1>0. TypeOK /\ Indexed(alloc)
  BY DEF InStep
<1> SUFFICES ASSUME NEW b \in Beds
             PROVE  bed'[b].status = "OCCUPIED" <=> \E a \in Open(alloc') : alloc'[a].bed = b
  BY DEF BedFollowsAllocation, OpenOnBed
<1> DEFINE Goal == bed'[b].status = "OCCUPIED" <=> \E a \in Open(alloc') : alloc'[a].bed = b
<1>1. bed[b].status = "OCCUPIED" <=> \E a \in Open(alloc) : alloc[a].bed = b
  BY DEF BedFollowsAllocation, OpenOnBed
<1>2. ASSUME alloc' = alloc, bed'[b].status = "OCCUPIED" <=> bed[b].status = "OCCUPIED" PROVE Goal
  BY <1>1, <1>2
<1>3. CASE Asks \/ UNCHANGED vars
  BY <1>2, <1>3, AskingChangesNoRow DEF vars, store
<1>4. ASSUME NEW s, NEW c, NEW day, NEW rows \in SUBSET Open(alloc), NEW t,
             Opens(s, c, day, t, BedsIn(rows)), Open(t) = Open(alloc) \ rows,
             \A a \in Open(t) : t[a].bed = alloc[a].bed
      PROVE  Goal
  <2>1. PICK n \in AllocationIds :
            /\ Open(alloc') = Open(t) \cup {n} /\ alloc'[n].bed = c
            /\ \A a \in Open(t) : alloc'[a] = t[a]
    BY <1>4, OpenedRow
  <2>2. bed' = bedsAfter(BedsIn(rows), c)
    BY <1>4 DEF Opens
  <2>3. bed'[b].status = "OCCUPIED" <=>
           b = c \/ (b \notin BedsIn(rows) /\ bed[b].status = "OCCUPIED")
    BY <1>0, <2>2, TakenFollows
  <2>4. /\ b \in BedsIn(rows) => \A a \in Open(t) : t[a].bed # b
        /\ b \notin BedsIn(rows) =>
              (bed[b].status = "OCCUPIED" <=> \E a \in Open(t) : t[a].bed = b)
    BY <1>0, <1>4, EndedFree
  <2> QED
    BY <2>1, <2>3, <2>4
<1>5. ASSUME NEW p \in Procs, NEW leaves \in Leaving, NEW owes \in Owing,
             CommitCreate(p, leaves, owes)
      PROVE  Goal
  <2>1. CASE UNCHANGED <<alloc, bed>>
    BY <1>2, <2>1
  <2>2. ASSUME NEW s \in Stays, NEW c \in Beds, NEW day \in Days, Opens(s, c, day, alloc, {})
        PROVE  Goal
    <3>1. BedsIn({}) = {}
      BY DEF BedsIn
    <3> QED
      BY <1>4, <2>2, <3>1
  <2> QED
    BY <1>0, <1>5, <2>1, <2>2, CreateOpens
<1>6. ASSUME NEW p \in Procs, NEW owes \in Owing, CommitMove(p, owes) PROVE Goal
  <2> DEFINE r == req[p]
             before == Closed(r.rows, r.day)
  <2>1. /\ r.rows = OpenOfStay(r.stay)
        /\ Opens(r.stay, r.bed, r.day, before, BedsIn(r.rows))
        /\ Open(before) = Open(alloc) \ r.rows
        /\ \A a \in Open(before) : before[a].bed = alloc[a].bed
    BY <1>0, <1>6, MoveRow
  <2>2. r.rows \subseteq Open(alloc)
    BY <2>1 DEF OpenOfStay
  <2> HIDE DEF r, before
  <2> QED
    BY <1>4, <2>1, <2>2
<1>7. ASSUME NEW p \in Procs, CommitExit(p) PROVE Goal
  <2> DEFINE r == req[p]
  <2>1. /\ r.rows = OpenOfStay(r.stay) /\ bed' = bedsAfter(BedsIn(r.rows), None)
        /\ Open(alloc') = Open(alloc) \ r.rows
        /\ \A a \in Open(alloc') : alloc'[a].bed = alloc[a].bed
    BY <1>0, <1>7, ExitRow DEF Leaver
  <2>2. r.rows \subseteq Open(alloc) /\ b # None
    BY <2>1, OccupancyAssumption DEF OpenOfStay
  <2> HIDE DEF r
  <2>3. bed'[b].status = "OCCUPIED" <=> b \notin BedsIn(r.rows) /\ bed[b].status = "OCCUPIED"
    BY <1>0, <2>1, <2>2, TakenFollows
  <2> QED
    BY <1>0, <2>1, <2>2, <2>3, EndedFree
<1>8. ASSUME NEW p \in Procs, CommitDelete(p) PROVE Goal
  <2>1. bed' = bed
    BY <1>8 DEF CommitDelete
  <2> QED
    BY <1>0, <1>1, <1>8, <2>1, DeleteRow
<1>9. ASSUME NEW r, NEW first \in Nat, NEW last \in Nat,
             last - first + 1 <= Cardinality(Unborn), bed' = addBeds(r, first, last)
      PROVE  bed'[b].status = "OCCUPIED" <=> bed[b].status = "OCCUPIED"
  <2>1. PICK new : Adds(new, r, first, last)
    BY <1>9, AddedBeds
  <2>2. CASE \E x \in first..last : new[x] = b
    <3>1. PICK x \in first..last : new[x] = b
      BY <2>2
    <3>2. new[x] \in Unborn
      BY <2>1 DEF Adds
    <3>3. bed'[new[x]] = [status |-> "AVAILABLE", room |-> r, label |-> x]
      BY <2>1 DEF Adds
    <3>4. bed'[b].status = "AVAILABLE" /\ b \in Unborn
      BY <3>1, <3>2, <3>3
    <3> QED
      BY <3>4 DEF Unborn
  <2>3. CASE \A x \in first..last : new[x] # b
    BY <2>1, <2>3 DEF Adds
  <2> QED
    BY <2>2, <2>3
<1>10. ASSUME NEW p \in Procs, CommitUpdateRoom(p) PROVE Goal
  <2> DEFINE r == req[p]
             count == Cardinality(r.rows)
             gone == {c \in beyond(r.rows, r.number) : Live(c)}
  <2>1. alloc' = alloc
    BY <1>10 DEF CommitUpdateRoom
  <2>2. r.number \in Nat /\ r.rows \subseteq Beds
    BY <1>0, <1>10 DEF TypeOK, RequestsOK, CommitUpdateRoom, Asked, Requests
  <2>3. count \in Nat
    BY <2>2, OccupancyAssumption, FS_Subset, FS_CardinalityType
  <2>4. CASE r.number > count
    <3>1. r.number - count <= Cardinality(Unborn) /\ bed' = addBeds(r.room, count + 1, r.number)
      BY <1>10, <2>4 DEF CommitUpdateRoom
    <3>2. IsFiniteSet(Unborn)
      BY OccupancyAssumption, FS_Subset DEF Unborn
    <3>3. Cardinality(Unborn) \in Nat
      BY <3>2, FS_CardinalityType
    <3> HIDE DEF r, count
    <3>4. r.number - (count + 1) + 1 <= Cardinality(Unborn)
      BY <2>2, <2>3, <3>1, <3>3
    <3> QED
      BY <1>2, <1>9, <2>1, <2>2, <2>3, <3>1, <3>4
  <2>5. CASE ~(r.number > count)
    <3>1. /\ \A c \in gone : RowsOnBed(c) = {}
          /\ bed' = [c \in Beds |-> IF c \in gone THEN [bed[c] EXCEPT !.status = "deleted"]
                                                  ELSE bed[c]]
      BY <1>10, <2>5 DEF CommitUpdateRoom
    <3> HIDE DEF gone
    <3>2. CASE b \in gone
      <4>1. bed'[b].status # "OCCUPIED"
        BY <1>0, <3>1, <3>2 DEF TypeOK, RowsOK, BedRows
      <4>2. \A a \in Open(alloc) : alloc[a].bed # b
        BY <3>1, <3>2 DEF RowsOnBed, Open
      <4> QED
        BY <2>1, <4>1, <4>2
    <3>3. CASE b \notin gone
      BY <1>2, <2>1, <3>1, <3>3
    <3> QED
      BY <3>2, <3>3
  <2> QED
    BY <2>4, <2>5
<1>11. ASSUME NEW p \in Procs, CommitDeleteRoom(p) PROVE Goal
  <2> DEFINE r == req[p].room
  <2>1. /\ \A c \in BedsOf(r) : RowsOnBed(c) = {}
        /\ bed' = [c \in Beds |-> IF c \in BedsOf(r) THEN [bed[c] EXCEPT !.status = "deleted"]
                                                     ELSE bed[c]]
    BY <1>11 DEF CommitDeleteRoom
  <2>0. alloc' = alloc
    BY <1>11 DEF CommitDeleteRoom
  <2> HIDE DEF r
  <2>2. CASE b \in BedsOf(r)
    <3>1. bed'[b].status # "OCCUPIED"
      BY <1>0, <2>1, <2>2 DEF TypeOK, RowsOK, BedRows
    <3>2. \A a \in Open(alloc) : alloc[a].bed # b
      BY <2>1, <2>2 DEF RowsOnBed, Open
    <3> QED
      BY <2>0, <3>1, <3>2
  <2>3. CASE b \notin BedsOf(r)
    BY <1>2, <2>0, <2>1, <2>3
  <2> QED
    BY <2>2, <2>3
<1>12. ASSUME NEW p \in Procs, WriteBedStatus(p) PROVE Goal
  <2> DEFINE r == req[p]
  <2>1. /\ pc[p] = "status" /\ alloc' = alloc
        /\ bed' = [bed EXCEPT ![r.bed].status = r.status]
    BY <1>12 DEF WriteBedStatus
  <2>2. r.status # "OCCUPIED" /\ OpenOnBed(r.bed) = {}
    BY <1>0, <2>1 DEF TypeOK, RequestsOK, Asked, ReadsHold, StillSo
  <2> HIDE DEF r
  <2>3. CASE b = r.bed
    <3>1. bed'[b].status # "OCCUPIED"
      BY <1>0, <2>1, <2>2, <2>3 DEF TypeOK, RowsOK, BedRows
    <3> QED
      BY <2>1, <2>2, <2>3, <3>1 DEF OpenOnBed
  <2>4. CASE b # r.bed
    BY <1>0, <1>2, <2>1, <2>4 DEF TypeOK, RowsOK
  <2> QED
    BY <2>3, <2>4
<1>13. ASSUME NEW r \in Rooms, NEW size \in Capacities, createRoom(r, size) PROVE Goal
  <2>1. /\ size \in Nat /\ size <= Cardinality(Unborn) /\ bed' = addBeds(r, 1, size)
        /\ alloc' = alloc
    BY <1>13, OccupancyAssumption DEF createRoom
  <2>2. size - 1 + 1 <= Cardinality(Unborn)
    BY <2>1
  <2> QED
    BY <1>2, <1>9, <2>1, <2>2
<1>14. CASE \/ \E s \in Stays, leaves \in Leaving : updateResident(s, leaves)
            \/ \E s \in Stays, owes \in BOOLEAN : BillChanges(s, owes)
  BY <1>2, <1>14 DEF updateResident, BillChanges
<1>15. CASE Writes
  BY <1>5, <1>6, <1>7, <1>8, <1>10, <1>11, <1>12, <1>13, <1>14, <1>15 DEF Writes
<1> QED
  BY <1>3, <1>15, StepKinds
-----------------------------------------------------------------------------
(* A step that removes no bed and adds none leaves the rooms as they are.  *)
LEMMA SameBedsFit ==
    ASSUME RoomsFit, room' = room,
           \A b \in Beds : /\ bed'[b].status \in BedStatuses <=> Live(b)
                           /\ bed'[b].room = bed[b].room /\ bed'[b].label = bed[b].label
    PROVE  RoomsFit'
<1>1. \A r \in Rooms : BedsOf(r)' = BedsOf(r)
  BY DEF BedsOf, Live
<1>2. ASSUME NEW beds \in SUBSET Beds, NEW size, Numbered(beds, size) PROVE Numbered(beds, size)'
  BY <1>2 DEF Numbered
<1>3. \A r \in Rooms : BedsOf(r) \in SUBSET Beds
  BY DEF BedsOf
<1> QED
  BY <1>1, <1>2, <1>3 DEF RoomsFit

(* A step on one room's beds leaves the other rooms as they are.           *)
LEMMA OtherRoomsFit ==
    ASSUME RoomsFit, NEW r,
           \A q \in Rooms \ {r} : room'[q] = room[q] /\ BedsOf(q)' = BedsOf(q),
           \A b \in Beds : bed[b].room # r /\ Live(b) => bed'[b] = bed[b],
           r \in Rooms => IF room'[r].status \in RoomStatuses
                          THEN Numbered(BedsOf(r), room[r].capacity)'
                          ELSE BedsOf(r)' = {}
    PROVE  RoomsFit'
<1>1. ASSUME NEW q \in Rooms \ {r}, NEW size, Numbered(BedsOf(q), size)
      PROVE  Numbered(BedsOf(q), size)'
  <2>1. \A b \in BedsOf(q) : bed'[b] = bed[b]
    BY DEF BedsOf
  <2>2. BedsOf(q)' = BedsOf(q)
    OBVIOUS
  <2> QED
    BY <1>1, <2>1, <2>2 DEF Numbered
<1> QED
  BY <1>1 DEF RoomsFit

(* The new beds carry on the numbers of their room.                        *)
LEMMA AddedNumbered ==
    ASSUME RowsOK, NEW r \in Rooms, NEW count \in Nat, NEW size \in Nat, count <= size,
           Numbered(BedsOf(r), count), size - count <= Cardinality(Unborn),
           bed' = addBeds(r, count + 1, size)
    PROVE  /\ Numbered(BedsOf(r), size)'
           /\ \A q \in Rooms \ {r} : BedsOf(q)' = BedsOf(q)
           /\ \A b \in Beds : Live(b) => bed'[b] = bed[b]
<1> DEFINE labels == (count + 1)..size
<1>1. IsFiniteSet(Unborn)
  BY OccupancyAssumption, FS_Subset DEF Unborn
<1>2. size - (count + 1) + 1 <= Cardinality(Unborn) /\ count + 1 \in Nat
  BY <1>1, FS_CardinalityType
<1>0. PICK new : Adds(new, r, count + 1, size)
  BY <1>2, AddedBeds
<1>3. /\ new \in [labels -> Unborn]
      /\ \A x, y \in labels : new[x] = new[y] => x = y
      /\ \A x \in labels : bed'[new[x]] = [status |-> "AVAILABLE", room |-> r, label |-> x]
      /\ \A b \in Beds : (\A x \in labels : new[x] # b) => bed'[b] = bed[b]
  BY <1>0 DEF Adds
<1>4. \A x \in labels : new[x] \in Beds /\ ~Live(new[x])
  <2>1. \A b \in Unborn : b \in Beds /\ ~Live(b)
    BY DEF Unborn, Live, BedStatuses
  <2> QED
    BY <1>3, <2>1
<1> DEFINE fresh == {new[x] : x \in labels}
<1>5. \A b \in Beds : b \notin fresh => bed'[b] = bed[b]
  BY <1>3
<1>6. \A b \in Beds : Live(b) => b \notin fresh
  BY <1>4
<1>7. ASSUME NEW b \in fresh
      PROVE  /\ b \in Beds /\ ~Live(b) /\ bed'[b].status = "AVAILABLE" /\ bed'[b].room = r
             /\ bed'[b].label \in labels /\ new[bed'[b].label] = b
  <2>1. PICK x \in labels : b = new[x]
    OBVIOUS
  <2>2. bed'[b] = [status |-> "AVAILABLE", room |-> r, label |-> x]
    BY <1>3, <2>1
  <2>3. /\ bed'[b].status = "AVAILABLE" /\ bed'[b].room = r /\ bed'[b].label = x
        /\ x \in labels
    BY <2>1, <2>2
  <2>4. b \in Beds /\ ~Live(b)
    BY <1>4, <2>1
  <2> QED
    BY <2>1, <2>3, <2>4
<1>8. ASSUME NEW x \in labels PROVE new[x] \in fresh /\ bed'[new[x]].label = x
  <2>1. bed'[new[x]] = [status |-> "AVAILABLE", room |-> r, label |-> x]
    BY <1>3
  <2> QED
    BY <2>1
<1> HIDE DEF fresh
<1>9. BedsOf(r)' = BedsOf(r) \cup fresh
  <2>1. ASSUME NEW b \in Beds PROVE b \in BedsOf(r)' <=> b \in BedsOf(r) \cup fresh
    BY <1>5, <1>7 DEF BedsOf, Live, BedStatuses
  <2>2. BedsOf(r)' \subseteq Beds /\ BedsOf(r) \cup fresh \subseteq Beds
    BY <1>7 DEF BedsOf
  <2> QED
    BY <2>1, <2>2
<1>10. ASSUME NEW q \in Rooms \ {r} PROVE BedsOf(q)' = BedsOf(q)
  <2>1. ASSUME NEW b \in Beds PROVE b \in BedsOf(q)' <=> b \in BedsOf(q)
    BY <1>5, <1>7 DEF BedsOf, Live
  <2>2. BedsOf(q)' \subseteq Beds /\ BedsOf(q) \subseteq Beds
    BY DEF BedsOf
  <2> QED
    BY <2>1, <2>2
<1>11. \A b \in BedsOf(r) : bed'[b] = bed[b] /\ bed[b].label \in 1..count
  BY <1>5, <1>6 DEF BedsOf, Numbered
<1>12. Numbered(BedsOf(r), size)'
  <2>1. ASSUME NEW b \in BedsOf(r)' PROVE bed'[b].label \in 1..size
    BY <1>7, <1>9, <1>11
  <2>2. ASSUME NEW x \in 1..size PROVE \E b \in BedsOf(r)' : bed'[b].label = x
    <3>1. CASE x <= count
      <4>1. PICK b \in BedsOf(r) : bed[b].label = x
        BY <3>1 DEF Numbered
      <4> QED
        BY <1>9, <1>11, <4>1
    <3>2. CASE ~(x <= count)
      <4>1. x \in labels
        BY <3>2
      <4> HIDE DEF labels
      <4> QED
        BY <1>8, <1>9, <4>1
    <3> QED
      BY <3>1, <3>2
  <2>3. ASSUME NEW b \in BedsOf(r)', NEW c \in BedsOf(r)', bed'[b].label = bed'[c].label
        PROVE  b = c
    <3>1. CASE b \in BedsOf(r) /\ c \in BedsOf(r)
      BY <1>11, <2>3, <3>1 DEF Numbered
    <3>2. CASE b \in fresh /\ c \in fresh
      BY <1>7, <2>3, <3>2
    <3>3. \A x \in 1..count, y \in labels : x # y
      OBVIOUS
    <3>4. CASE (b \in BedsOf(r) /\ c \in fresh) \/ (b \in fresh /\ c \in BedsOf(r))
      BY <1>7, <1>11, <2>3, <3>3, <3>4
    <3> QED
      BY <1>9, <3>1, <3>2, <3>4
  <2> QED
    BY <2>1, <2>2, <2>3 DEF Numbered
<1> QED
  BY <1>5, <1>6, <1>10, <1>12

LEMMA TakenFit ==
    ASSUME TypeOK, RoomsFit, room' = room, NEW freed, NEW taken, bed' = bedsAfter(freed, taken),
           \A b \in Beds : b = taken \/ b \in freed => Live(b)
    PROVE  RoomsFit'
<1>1. ASSUME NEW b \in Beds
      PROVE  /\ bed'[b].status \in BedStatuses <=> Live(b)
             /\ bed'[b].room = bed[b].room /\ bed'[b].label = bed[b].label
  BY DEF bedsAfter, Live, BedStatuses, TypeOK, RowsOK, BedRows
<1> QED
  BY <1>1, SameBedsFit

LEMMA UpdateRoomFits ==
    ASSUME TypeOK, ReadsHold, RoomsFit, NEW p \in Procs, CommitUpdateRoom(p),
           NEW r, r = req[p].room, NEW size, size = req[p].number
    PROVE  RoomsFit'
<1> DEFINE count == Cardinality(req[p].rows)
           gone == {b \in beyond(req[p].rows, size) : Live(b)}
<1>1. /\ pc[p] = "resize" /\ room[r].status \notin {"none", "deleted"}
      /\ room' = [room EXCEPT ![r] = [status |-> req[p].status, capacity |-> size]]
  BY DEF CommitUpdateRoom
<1>2. /\ r \in Rooms /\ req[p].rows = BedsOf(r) /\ size \in Nat
      /\ req[p].status \in RoomStatuses
  BY <1>1 DEF ReadsHold, StillSo, TypeOK, RequestsOK, Asked, Requests
<1>3. room[r].status \in RoomStatuses /\ room[r].capacity \in Nat
  BY <1>1, <1>2 DEF TypeOK, RowsOK, RoomRows, RoomStatuses
<1>4. Numbered(BedsOf(r), count) /\ count \in Nat
  BY <1>2, <1>3, Counted DEF RoomsFit
<1>5. /\ room'[r].status \in RoomStatuses /\ room'[r].capacity = size
      /\ \A q \in Rooms \ {r} : room'[q] = room[q]
  BY <1>1, <1>2 DEF TypeOK, RowsOK
<1>6. ASSUME Numbered(BedsOf(r), size)', \A q \in Rooms \ {r} : BedsOf(q)' = BedsOf(q),
             \A b \in Beds : bed[b].room # r /\ Live(b) => bed'[b] = bed[b]
      PROVE  RoomsFit'
  <2>1. Numbered(BedsOf(r), room[r].capacity)'
    BY <1>5, <1>6 DEF Numbered
  <2> HIDE DEF count, gone
  <2> QED
    BY <1>5, <1>6, <2>1, OtherRoomsFit
<1>7. CASE size > count
  <2>1. size - count <= Cardinality(Unborn) /\ bed' = addBeds(r, count + 1, size)
    BY <1>7 DEF CommitUpdateRoom
  <2> HIDE DEF count, gone
  <2>2. /\ Numbered(BedsOf(r), size)' /\ \A q \in Rooms \ {r} : BedsOf(q)' = BedsOf(q)
        /\ \A b \in Beds : Live(b) => bed'[b] = bed[b]
    BY <1>2, <1>4, <1>7, <2>1, AddedNumbered DEF TypeOK
  <2> QED
    BY <1>6, <2>2
<1>8. CASE ~(size > count)
  <2>1. bed' = [b \in Beds |-> IF b \in gone THEN [bed[b] EXCEPT !.status = "deleted"]
                                            ELSE bed[b]]
    BY <1>8 DEF CommitUpdateRoom
  <2>2. gone = {b \in BedsOf(r) : bed[b].label > size}
    <3>1. beyond(BedsOf(r), size) = {b \in BedsOf(r) : bed[b].label > size}
      BY <1>2, <1>4, BeyondLabels
    <3> QED
      BY <1>2, <3>1 DEF BedsOf
  <2> HIDE DEF count, gone
  <2>3. \A b \in Beds : /\ b \in gone => bed'[b].status = "deleted"
                        /\ b \notin gone => bed'[b] = bed[b]
    BY <2>1 DEF TypeOK, RowsOK, BedRows
  <2>4. \A b \in Beds : b \in BedsOf(r)' <=> b \in BedsOf(r) /\ bed[b].label <= size
    <3>1. \A b \in BedsOf(r) : bed[b].label \in Nat
      BY <1>4 DEF Numbered
    <3>2. ASSUME NEW b \in gone
          PROVE  b \notin BedsOf(r)' /\ ~(bed[b].label <= size)
      <4>1. b \in Beds /\ b \in BedsOf(r) /\ bed[b].label > size
        BY <2>2 DEF BedsOf
      <4>2. bed'[b].status = "deleted"
        BY <2>3, <4>1
      <4> QED
        BY <1>2, <3>1, <4>1, <4>2 DEF BedsOf, Live, BedStatuses
    <3>3. ASSUME NEW b \in Beds, b \notin gone
          PROVE  b \in BedsOf(r)' <=> b \in BedsOf(r) /\ bed[b].label <= size
      <4>1. bed'[b] = bed[b]
        BY <2>3, <3>3
      <4>2. b \in BedsOf(r) => bed[b].label <= size
        BY <1>2, <2>2, <3>1, <3>3
      <4> QED
        BY <4>1, <4>2 DEF BedsOf, Live
    <3> QED
      BY <3>2, <3>3
  <2>5. BedsOf(r)' = {b \in BedsOf(r) : bed[b].label <= size}
    BY <2>4 DEF BedsOf
  <2>6. \A b \in BedsOf(r)' : bed'[b].label = bed[b].label
    <3>1. \A b \in BedsOf(r) : b \in Beds /\ (bed[b].label <= size => b \notin gone)
      BY <1>2, <1>4, <2>2 DEF Numbered, BedsOf
    <3> QED
      BY <2>3, <2>5, <3>1
  <2>7. Numbered(BedsOf(r), size)'
    <3>1. \A b \in BedsOf(r) : bed[b].label \in 1..count
      BY <1>4 DEF Numbered
    <3>2. \A x \in 1..size : \E b \in BedsOf(r)' : bed'[b].label = x
      <4>1. ASSUME NEW x \in 1..size PROVE \E b \in BedsOf(r)' : bed'[b].label = x
        <5>1. x \in 1..count /\ x <= size
          BY <1>2, <1>4, <1>8
        <5>2. PICK b \in BedsOf(r) : bed[b].label = x
          BY <1>4, <5>1 DEF Numbered
        <5> QED
          BY <2>5, <2>6, <5>1, <5>2
      <4> QED
        BY <4>1
    <3>3. \A b \in BedsOf(r)' : bed'[b].label \in 1..size
      BY <1>2, <1>4, <2>5, <2>6, <3>1
    <3>4. \A b, c \in BedsOf(r)' : bed'[b].label = bed'[c].label => b = c
      BY <1>4, <2>5, <2>6 DEF Numbered
    <3> QED
      BY <3>2, <3>3, <3>4 DEF Numbered
  <2>8. \A q \in Rooms \ {r} : BedsOf(q)' = BedsOf(q)
    <3>1. \A b \in Beds : bed[b].room # r => bed'[b] = bed[b]
      BY <2>2, <2>3 DEF BedsOf
    <3>2. \A b \in Beds : bed'[b].room = bed[b].room
      BY <2>1 DEF TypeOK, RowsOK, BedRows
    <3> QED
      BY <3>1, <3>2 DEF BedsOf, Live
  <2>9. \A b \in Beds : bed[b].room # r /\ Live(b) => bed'[b] = bed[b]
    BY <2>2, <2>3 DEF BedsOf
  <2> QED
    BY <1>6, <2>7, <2>8, <2>9
<1> QED
  BY <1>7, <1>8

LEMMA DeleteRoomFits ==
    ASSUME TypeOK, RoomsFit, NEW p \in Procs, CommitDeleteRoom(p), NEW r, r = req[p].room
    PROVE  RoomsFit'
<1>1. /\ room' = [room EXCEPT ![r].status = "deleted"]
      /\ bed' = [b \in Beds |-> IF b \in BedsOf(r) THEN [bed[b] EXCEPT !.status = "deleted"]
                                                   ELSE bed[b]]
  BY DEF CommitDeleteRoom
<1>2. \A q \in Rooms \ {r} : room'[q] = room[q]
  BY <1>1 DEF TypeOK, RowsOK
<1>3. r \in Rooms => room'[r].status = "deleted"
  BY <1>1 DEF TypeOK, RowsOK, RoomRows
<1>4. \A b \in Beds : /\ b \in BedsOf(r) => bed'[b].status = "deleted"
                      /\ b \notin BedsOf(r) => bed'[b] = bed[b]
                      /\ bed'[b].room = bed[b].room
  BY <1>1 DEF TypeOK, RowsOK, BedRows
<1>5. BedsOf(r)' = {}
  <2>1. ASSUME NEW b \in Beds PROVE ~(bed'[b].status \in BedStatuses /\ bed'[b].room = r)
    <3>1. CASE b \in BedsOf(r)
      BY <1>4, <3>1 DEF BedStatuses
    <3>2. CASE b \notin BedsOf(r)
      BY <1>4, <3>2 DEF BedsOf, Live
    <3> QED
      BY <3>1, <3>2
  <2> QED
    BY <2>1 DEF BedsOf, Live
<1>6. ASSUME NEW q \in Rooms \ {r} PROVE BedsOf(q)' = BedsOf(q)
  <2>1. ASSUME NEW b \in Beds, bed[b].room = q PROVE bed'[b] = bed[b]
    BY <1>4, <2>1 DEF BedsOf
  <2> QED
    BY <1>4, <2>1 DEF BedsOf, Live
<1>7. \A b \in Beds : bed[b].room # r /\ Live(b) => bed'[b] = bed[b]
  BY <1>4 DEF BedsOf
<1> QED
  BY <1>2, <1>3, <1>5, <1>6, <1>7, OtherRoomsFit DEF RoomStatuses

LEMMA CreateRoomFits ==
    ASSUME TypeOK, RoomsFit, NEW r \in Rooms, NEW size \in Capacities, createRoom(r, size)
    PROVE  RoomsFit'
<1>1. /\ size \in Nat /\ size <= Cardinality(Unborn) /\ bed' = addBeds(r, 1, size)
      /\ room[r].status = "none"
      /\ room' = [room EXCEPT ![r] = [status |-> "ACTIVE", capacity |-> size]]
  BY OccupancyAssumption DEF createRoom
<1>2. BedsOf(r) = {}
  BY <1>1 DEF RoomsFit, RoomStatuses
<1>3. Numbered(BedsOf(r), 0)
  BY <1>2 DEF Numbered
<1>4. bed' = addBeds(r, 0 + 1, size) /\ size - 0 <= Cardinality(Unborn) /\ 0 <= size
  <2>1. 0 + 1 = 1 /\ size - 0 = size /\ 0 <= size
    BY <1>1
  <2> QED
    BY <1>1, <2>1
<1>5. /\ Numbered(BedsOf(r), size)' /\ \A q \in Rooms \ {r} : BedsOf(q)' = BedsOf(q)
      /\ \A b \in Beds : Live(b) => bed'[b] = bed[b]
  BY <1>1, <1>3, <1>4, AddedNumbered DEF TypeOK
<1>6. /\ room'[r].status \in RoomStatuses /\ room'[r].capacity = size
      /\ \A q \in Rooms \ {r} : room'[q] = room[q]
  BY <1>1 DEF TypeOK, RowsOK, RoomStatuses
<1>7. Numbered(BedsOf(r), room[r].capacity)'
  BY <1>5, <1>6 DEF Numbered
<1> QED
  BY <1>5, <1>6, <1>7, OtherRoomsFit

LEMMA RoomsFitStep ==
    ASSUME InStep, AllocatedBedsExist, ReadsHold, RoomsFit, [Next]_vars
    PROVE  RoomsFit'
<1>0. TypeOK
  BY DEF InStep
<1>1. ASSUME UNCHANGED <<bed, room>> PROVE RoomsFit'
  BY <1>1, SameBedsFit DEF Live
<1>2. CASE Asks \/ UNCHANGED vars
  BY <1>1, <1>2, AskingChangesNoRow DEF vars, store
<1>3. ASSUME NEW rows, rows \subseteq Open(alloc) PROVE \A b \in BedsIn(rows) : Live(b)
  BY <1>3 DEF BedsIn, AllocatedBedsExist, Open
<1>4. ASSUME NEW p \in Procs, NEW leaves \in Leaving, NEW owes \in Owing,
             CommitCreate(p, leaves, owes)
      PROVE  RoomsFit'
  <2>0. room' = room
    BY <1>4 DEF CommitCreate
  <2>1. CASE UNCHANGED <<alloc, bed>>
    BY <1>1, <2>0, <2>1
  <2>2. ASSUME NEW s \in Stays, NEW b \in Beds, NEW day \in Days, Opens(s, b, day, alloc, {})
        PROVE  RoomsFit'
    <3>1. bed' = bedsAfter({}, b) /\ Live(b)
      BY <2>2 DEF Opens, MayOpen
    <3> QED
      BY <1>0, <2>0, <3>1, TakenFit
  <2> QED
    BY <1>0, <1>4, <2>1, <2>2, CreateOpens
<1>5. ASSUME NEW p \in Procs, NEW owes \in Owing, CommitMove(p, owes) PROVE RoomsFit'
  <2> DEFINE r == req[p]
             before == Closed(r.rows, r.day)
  <2>0. room' = room
    BY <1>5 DEF CommitMove
  <2>1. r.rows = OpenOfStay(r.stay) /\ Opens(r.stay, r.bed, r.day, before, BedsIn(r.rows))
    BY <1>0, <1>5, MoveRow
  <2>2. r.rows \subseteq Open(alloc)
    BY <2>1 DEF OpenOfStay
  <2>3. bed' = bedsAfter(BedsIn(r.rows), r.bed) /\ Live(r.bed)
    BY <2>1 DEF Opens, MayOpen
  <2> HIDE DEF r, before
  <2> QED
    BY <1>0, <1>3, <2>0, <2>2, <2>3, TakenFit
<1>6. ASSUME NEW p \in Procs, CommitExit(p) PROVE RoomsFit'
  <2> DEFINE r == req[p]
  <2>0. room' = room
    BY <1>6 DEF CommitExit
  <2>1. r.rows = OpenOfStay(r.stay) /\ bed' = bedsAfter(BedsIn(r.rows), None)
    BY <1>0, <1>6, ExitRow DEF Leaver
  <2>2. r.rows \subseteq Open(alloc) /\ None \notin Beds
    BY <2>1, OccupancyAssumption DEF OpenOfStay
  <2> HIDE DEF r
  <2> QED
    BY <1>0, <1>3, <2>0, <2>1, <2>2, TakenFit
<1>7. ASSUME NEW p \in Procs, WriteBedStatus(p) PROVE RoomsFit'
  <2> DEFINE r == req[p]
  <2>1. /\ room' = room /\ Live(r.bed) /\ bed' = [bed EXCEPT ![r.bed].status = r.status]
        /\ pc[p] = "status"
    BY <1>7 DEF WriteBedStatus
  <2>2. r.status \in BedStatuses
    BY <1>0, <2>1 DEF TypeOK, RequestsOK, Asked, BedStatuses
  <2> HIDE DEF r
  <2>3. ASSUME NEW b \in Beds
        PROVE  /\ bed'[b].status \in BedStatuses <=> Live(b)
               /\ bed'[b].room = bed[b].room /\ bed'[b].label = bed[b].label
    BY <1>0, <2>1, <2>2 DEF Live, TypeOK, RowsOK, BedRows
  <2> QED
    BY <2>1, <2>3, SameBedsFit
<1>8. CASE \/ \E s \in Stays, leaves \in Leaving : updateResident(s, leaves)
           \/ \E s \in Stays, owes \in BOOLEAN : BillChanges(s, owes)
           \/ \E p \in Procs : CommitDelete(p)
  BY <1>1, <1>8 DEF updateResident, BillChanges, CommitDelete
<1>9. CASE Writes
  BY <1>0, <1>4, <1>5, <1>6, <1>7, <1>8, <1>9, UpdateRoomFits, DeleteRoomFits, CreateRoomFits
     DEF Writes
<1> QED
  BY <1>2, <1>9, StepKinds
-----------------------------------------------------------------------------
(* What holds while only one transaction is open at a time.                *)
Serial ==
    /\ InStep /\ AllocatedBedsExist /\ Alone /\ JobLists /\ ReadsHold
    /\ VacatedHoldsNoBed /\ BedFollowsAllocation /\ RoomsFit

LEMMA SerialInit == Init => Serial
<1> SUFFICES ASSUME Init PROVE Serial
  OBVIOUS
<1>1. Rows(alloc) = {} /\ Open(alloc) = {}
  BY DEF Init, Rows, Open
<1>2. AllocatedBedsExist /\ VacatedHoldsNoBed
  BY <1>1 DEF AllocatedBedsExist, VacatedHoldsNoBed, OpenOfStay
<1>3. Alone /\ JobLists /\ ReadsHold
  BY DEF Init, Alone, Busy, JobLists, ReadsHold, StillSo, Procs
<1>4. BedFollowsAllocation
  BY <1>1 DEF Init, BedFollowsAllocation, OpenOnBed
<1>5. RoomsFit
  BY DEF Init, RoomsFit, RoomStatuses, BedsOf, Live, BedStatuses
<1> QED
  BY <1>2, <1>3, <1>4, <1>5, InStepInit DEF Serial

LEMMA SerialStep ==
    ASSUME MaxInFlight = 1 PROVE Serial /\ [Next]_vars => Serial'
<1> SUFFICES ASSUME Serial, [Next]_vars PROVE Serial'
  OBVIOUS
<1>1. TypeOK /\ InStep
  BY DEF Serial, InStep
<1>2. InStep' /\ AllocatedBedsExist'
  BY <1>1, InStepStep, AllocatedStep DEF Serial
<1>3. Alone' /\ JobLists' /\ ReadsHold'
  BY <1>1, AloneStep, JobListsStep, ReadsStep DEF Serial
<1>4. VacatedHoldsNoBed' /\ BedFollowsAllocation' /\ RoomsFit'
  BY <1>1, VacatedStep, BedFollowsStep, RoomsFitStep DEF Serial
<1> QED
  BY <1>2, <1>3, <1>4 DEF Serial

(* One transaction at a time, a stay that has ended holds no bed.          *)
THEOREM EndedStaysHoldNoBed ==
    ASSUME MaxInFlight = 1 PROVE Spec => []VacatedHoldsNoBed
<1>1. Serial /\ [Next]_vars => Serial'
  BY SerialStep
<1>2. Serial => VacatedHoldsNoBed
  BY DEF Serial
<1> QED
  BY <1>1, <1>2, SerialInit, PTL DEF Spec

(* One transaction at a time, a bed is shown as occupied exactly while an  *)
(* allocation on it is open.                                               *)
THEOREM BedStatusFollowsAllocations ==
    ASSUME MaxInFlight = 1 PROVE Spec => []BedFollowsAllocation
<1>1. Serial /\ [Next]_vars => Serial'
  BY SerialStep
<1>2. Serial => BedFollowsAllocation
  BY DEF Serial
<1> QED
  BY <1>1, <1>2, SerialInit, PTL DEF Spec

(* One transaction at a time, a room of capacity n has n beds, labelled    *)
(* from 1 to n.                                                            *)
THEOREM RoomsHaveTheirBeds ==
    ASSUME MaxInFlight = 1 PROVE Spec => []CapacityIsBeds
<1>1. Serial /\ [Next]_vars => Serial'
  BY SerialStep
<1>2. Serial => CapacityIsBeds
  <2> SUFFICES ASSUME Serial, NEW r \in Rooms, room[r].status \in RoomStatuses
               PROVE  /\ {bed[b].label : b \in BedsOf(r)} = 1..room[r].capacity
                      /\ Cardinality(BedsOf(r)) = room[r].capacity
    BY DEF CapacityIsBeds, RoomStatuses
  <2>1. Numbered(BedsOf(r), room[r].capacity) /\ room[r].capacity \in Nat
    BY DEF Serial, RoomsFit, InStep, TypeOK, RowsOK, RoomRows
  <2> QED
    BY <2>1, Counted
<1> QED
  BY <1>1, <1>2, SerialInit, PTL DEF Spec
-----------------------------------------------------------------------------
LEMMA StandingStep ==
    ASSUME Serial, [Next]_vars, NEW u \in Users, user[u].member = "RESIDENT",
           user'[u].member # "RESIDENT"
    PROVE  ActiveStaysOf(u)' = {}
<1>0. TypeOK /\ ReadsHold
  BY DEF Serial, InStep
<1>1. user' # user
  OBVIOUS
<1>2. CASE Asks \/ UNCHANGED vars
  BY <1>1, <1>2, AskingChangesNoRow DEF vars, store
<1>3. ASSUME NEW p \in Procs, NEW leaves \in Leaving, NEW owes \in Owing,
             CommitCreate(p, leaves, owes)
      PROVE  FALSE
  <2> DEFINE role == IF req[p].status = "RESIDENT" THEN user[req[p].user].role ELSE "RESIDENT"
  <2>1. user' = [user EXCEPT ![req[p].user] = [known |-> TRUE, role |-> role,
                                              member |-> "RESIDENT"]]
    BY <1>3 DEF CommitCreate
  <2> HIDE DEF role
  <2> QED
    BY <1>0, <2>1 DEF TypeOK, RowsOK
<1>4. ASSUME NEW p \in Procs, CommitExit(p) PROVE ActiveStaysOf(u)' = {}
  <2> DEFINE r == req[p]
  <2>1. /\ Leaver(r) /\ (~r.flag => ActiveStaysOf(r.user) \subseteq {r.stay})
        /\ stay' = [stay EXCEPT ![r.stay].status = "VACATED"]
    BY <1>0, <1>4, ExitRow
  <2>2. user' = IF r.flag THEN user ELSE demoted(r.user, r.op)
    BY <1>4 DEF CommitExit
  <2> HIDE DEF r
  <2>3. ~r.flag /\ user' = demoted(r.user, r.op)
    BY <1>1, <2>2
  <2>4. u = r.user
    <3>1. \A v \in Users : v # r.user => user'[v] = user[v]
      BY <1>0, <2>3 DEF demoted, TypeOK, RowsOK
    <3> QED
      BY <3>1
  <2>5. ASSUME NEW s \in Stays
        PROVE  ~(stay'[s].status = "ACTIVE" /\ stay'[s].user = u)
    <3>1. CASE s = r.stay
      BY <1>0, <2>1, <3>1 DEF TypeOK, RowsOK, StayRows
    <3>2. CASE s # r.stay
      <4>1. stay'[s] = stay[s]
        BY <1>0, <2>1, <3>2 DEF TypeOK, RowsOK
      <4>2. ActiveStaysOf(u) \subseteq {r.stay}
        BY <2>1, <2>3, <2>4
      <4> QED
        BY <3>2, <4>1, <4>2 DEF ActiveStaysOf, StaysOf, StayExists
    <3> QED
      BY <3>1, <3>2
  <2> QED
    BY <2>5 DEF ActiveStaysOf, StaysOf
<1>5. ASSUME NEW p \in Procs, CommitDelete(p) PROVE ActiveStaysOf(u)' = {}
  <2> DEFINE r == req[p]
  <2>1. /\ StaysOf(r.user) \subseteq r.rows
        /\ stay' = [s \in Stays |-> IF s \in r.rows THEN [stay[s] EXCEPT !.status = "none"]
                                                     ELSE stay[s]]
        /\ user' = [user EXCEPT ![r.user] = [known |-> FALSE, role |-> "NON_RESIDENT",
                                             member |-> "NONE"]]
    BY <1>5 DEF CommitDelete
  <2> HIDE DEF r
  <2>2. u = r.user
    BY <1>0, <2>1 DEF TypeOK, RowsOK
  <2>3. ASSUME NEW s \in Stays
        PROVE  ~(stay'[s].status = "ACTIVE" /\ stay'[s].user = u)
    <3>1. CASE s \in r.rows
      BY <1>0, <2>1, <3>1 DEF TypeOK, RowsOK, StayRows
    <3>2. CASE s \notin r.rows
      <4>1. stay'[s] = stay[s] /\ s \notin StaysOf(u)
        BY <2>1, <2>2, <3>2
      <4> QED
        BY <4>1 DEF StaysOf, StayExists
    <3> QED
      BY <3>1, <3>2
  <2> QED
    BY <2>3 DEF ActiveStaysOf, StaysOf
<1>6. ASSUME NEW p \in Procs,
             \/ \E owes \in Owing : CommitMove(p, owes)
             \/ CommitUpdateRoom(p) \/ CommitDeleteRoom(p) \/ WriteBedStatus(p)
      PROVE  FALSE
  BY <1>1, <1>6 DEF CommitMove, CommitUpdateRoom, CommitDeleteRoom, WriteBedStatus
<1>7. CASE \/ \E s \in Stays, leaves \in Leaving : updateResident(s, leaves)
           \/ \E s \in Stays, owes \in BOOLEAN : BillChanges(s, owes)
           \/ \E r \in Rooms, size \in Capacities : createRoom(r, size)
  BY <1>1, <1>7 DEF updateResident, BillChanges, createRoom
<1>8. CASE Writes
  BY <1>3, <1>4, <1>5, <1>6, <1>7, <1>8 DEF Writes
<1> QED
  BY <1>2, <1>8, StepKinds

(* One transaction at a time, a person loses their standing only with      *)
(* their last active stay.                                                 *)
THEOREM StandingEndsWithLastStay ==
    ASSUME MaxInFlight = 1 PROVE Spec => StandingOutlivesStay
<1>1. Serial /\ [Next]_vars => Serial'
  BY SerialStep
<1>2. Serial /\ [Next]_vars =>
         [\A u \in Users : user[u].member = "RESIDENT" /\ user'[u].member # "RESIDENT"
             => ActiveStaysOf(u)' = {}]_vars
  BY StandingStep
<1> QED
  BY <1>1, <1>2, SerialInit, PTL DEF Spec, StandingOutlivesStay
=============================================================================
