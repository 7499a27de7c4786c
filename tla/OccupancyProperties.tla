------------------------ MODULE OccupancyProperties ------------------------
(* What the occupancy of the beds has to satisfy.                          *)
EXTENDS Occupancy

Roles == {"NON_RESIDENT", "RESIDENT"}
UserRows == [known : BOOLEAN, role : Roles, member : Roles \cup {"NONE"}]
StayRows == [status : {"none", "ACTIVE", "VACATED"}, user : Users \cup {None},
             leaves : Days \cup {NoDay}, owes : BOOLEAN]
BedRows == [status : BedStatuses \cup {"unborn", "deleted"}, room : Rooms \cup {None}, label : Nat]
RoomRows == [status : {"none", "ACTIVE", "MAINTENANCE", "deleted"}, capacity : Nat]

RoomStatuses == {"ACTIVE", "MAINTENANCE"}
Labels == {"idle", "active", "bed", "write", "other", "leave", "delete", "resize",
           "unroom", "status"}
Requests == [op : Ops \cup {"none"}, user : Users \cup {None}, stay : Stays \cup {None},
             bed : Beds \cup {None}, room : Rooms \cup {None}, day : Days \cup {NoDay},
             number : Nat, status : Roles \cup RoomStatuses \cup {"none", "AVAILABLE"},
             flag : BOOLEAN, rows : SUBSET (AllocationIds \cup Stays \cup Beds)]

(* What a transaction that has reached a label was asked and has read.     *)
ExitAsked(r) == r.stay \in Stays /\ r.day \in Days /\ r.rows \subseteq AllocationIds
Asked(label, r) ==
    /\ r.op = "create" => r.day \in Days
    /\ r.op = "move" => /\ r.stay \in Stays /\ r.bed \in Beds /\ r.day \in Days
                        /\ r.rows \subseteq AllocationIds
    /\ label \in {"other", "leave"} => ExitAsked(r)
    /\ label = "delete" => r.rows \subseteq Stays
    /\ label = "resize" => r.rows \subseteq Beds /\ r.status \in RoomStatuses
    /\ label = "status" => r.status \in {"AVAILABLE", "MAINTENANCE"}

RowsOK ==
    /\ user \in [Users -> UserRows]
    /\ stay \in [Stays -> StayRows]
    /\ alloc \in [AllocationIds -> AllocationRows \cup {None, Gone}]
    /\ bed \in [Beds -> BedRows]
    /\ room \in [Rooms -> RoomRows]
RequestsOK ==
    /\ period \in Nat
    /\ queue \subseteq {r \in Requests : ExitAsked(r)}
    /\ pc \in [Procs -> Labels]
    /\ req \in [Procs -> Requests]
    /\ \A p \in Procs : Asked(pc[p], req[p])

(* Every row and every request is well formed, and what a transaction      *)
(* writes about are rows and dates.                                        *)
TypeOK == RowsOK /\ RequestsOK
-----------------------------------------------------------------------------
(* A bed is shown as occupied exactly while someone's allocation on it is  *)
(* open: openAllocation, moveResident, exitResident and updateBedStatus    *)
(* each write the two rows, or refuse to.                                  *)
BedFollowsAllocation ==
    \A b \in Beds : bed[b].status = "OCCUPIED" <=> OpenOnBed(b) # {}

(* Half of it, which is left when transactions overlap: no bed is shown as *)
(* occupied with nobody in it, so none is lost to new residents for ever.  *)
OccupiedBedsAreHeld ==
    \A b \in Beds : bed[b].status = "OCCUPIED" => OpenOnBed(b) # {}

(* A stay that has ended holds no bed (exitResident frees it first, and    *)
(* moveResident refuses an ended stay).                                    *)
VacatedHoldsNoBed ==
    \A s \in Stays : stay[s].status = "VACATED" => OpenOfStay(s) = {}

(* "A room with capacity 3 has beds A, B and C, always."                   *)
CapacityIsBeds ==
    \A r \in Rooms : room[r].status \in {"ACTIVE", "MAINTENANCE"} =>
        /\ {bed[b].label : b \in BedsOf(r)} = 1..room[r].capacity
        /\ Cardinality(BedsOf(r)) = room[r].capacity

(* No room edit takes away a bed that has a history: updateRoom and        *)
(* deleteRoom look before their transaction, the foreign key decides.      *)
AllocatedBedsExist ==
    \A a \in Rows(alloc) : Live(alloc[a].bed)

(* A person loses their standing here only with their last active stay.    *)
StandingOutlivesStay ==
    [][\A u \in Users : user[u].member = "RESIDENT" /\ user'[u].member # "RESIDENT"
          => ActiveStaysOf(u)' = {}]_vars
-----------------------------------------------------------------------------
(* Who has which bed, as the open rows of a table of allocations say.      *)
heldIn(rows) ==
    [b \in Beds |-> LET on == {a \in Open(rows) : rows[a].bed = b}
                    IN  IF on = {} THEN None ELSE rows[CHOOSE a \in on : TRUE].stay]
holder == heldIn(alloc)

R == INSTANCE BedRegister WITH Nobody <- None

(* Whatever overlaps, the open allocations are a register of the beds: the *)
(* two partial unique indexes let no bed and no stay be given twice.       *)
ImplementsRegister == R!Spec
=============================================================================
