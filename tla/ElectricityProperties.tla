----------------------- MODULE ElectricityProperties -----------------------
(* What a month of electricity has to satisfy.                             *)
EXTENDS Electricity

Lines == [of : Nat, amount : Nat]
Charges == [of : Nat, stay : Stays, amount : Nat]
Readings == [room : Rooms, amount : Nat, by : Nat, share : [Stays -> Nat \cup {None}],
             days : [Stays -> Nat]]
Labels == {"idle", "find", "record", "share", "shares", "bills", "attach", "entries", "enter",
           "edit", "next", "insert", "attached", "done", "failed"}
CallRows == [at : Labels, alone : BOOLEAN, room : Rooms \cup {None}, stay : Stays \cup {None},
             amount : Nat, rows : SUBSET AllocationRows, existing : Nat,
             charges : SUBSET Charges, known : SUBSET Stays, count : Nat, line : Nat]

(* What a call works on still exists: its room, the reading it corrects or *)
(* edits, the line it overwrites, the bills it found.                      *)
WorksOn(c) ==
    /\ c.at \in {"find", "record"} => c.room \in Rooms
    /\ c.existing \in 0..Len(reading)
    /\ c.at = "share" => c.existing # 0 /\ c.stay \in SharedBy(c.existing)
    /\ c.at = "edit" => c.stay \in Stays /\ c.line \in DOMAIN bill[c.stay]
    /\ c.at = "insert" => c.stay \in Stays
    /\ \A e \in c.charges : e.of \in 0..Len(reading)
    /\ \A s \in c.known : bill[s] # <<>>

(* Rows and calls are well formed, and what a call works on still exists.  *)
TypeOK ==
    /\ lives \in [Rooms -> SUBSET AllocationRows]
    /\ reading \in Seq(Readings) /\ bill \in [Stays -> Seq(Lines)]
    /\ call \in [Actors -> CallRows] /\ calls \in Nat /\ mishaps \in Nat
    /\ \A w \in Actors : WorksOn(call[w])
-----------------------------------------------------------------------------
(* "Corrections create a new reading that supersedes the old one": however *)
(* corrections overlap or fail, the readings of a room are one chain, each *)
(* corrected by one later reading of the same room, up to the single one   *)
(* that is ACTIVE and charged.                                             *)
CorrectedBy(i) == reading[i].by
ReadingsFormChains ==
    /\ \A i \in DOMAIN reading :
          Active(i) \/ /\ CorrectedBy(i) \in DOMAIN reading
                       /\ CorrectedBy(i) > i
                       /\ reading[CorrectedBy(i)].room = reading[i].room
    /\ \A i, j \in DOMAIN reading :
          (reading[i].room = reading[j].room /\ CorrectedBy(i) = CorrectedBy(j)) => i = j

(* "The shares sum exactly to the bill; no paise is created or lost", and  *)
(* nobody is a whole paisa away from their days' worth.                    *)
Exact(r) ==
    LET sharing == {s \in Stays : r.share[s] # None}
        W == SumFunctionOnSet(r.days, sharing)
    IN  W > 0 =>
           /\ SumFunctionOnSet(r.share, sharing) = r.amount
           /\ \A s \in sharing : LET off == r.share[s] * W - r.amount * r.days[s]
                                 IN  -W < off /\ off < W

SharesAreExact == [][\A i \in DOMAIN reading' \ DOMAIN reading : Exact(reading'[i])]_vars

(* Whoever has one share in the month's active readings is asked for       *)
(* exactly that.  A bill with further lines has amounts entered by hand.   *)
Followed ==
    \A s \in Stays :
        LET mine == {e \in ActiveShares : e.stay = s}
        IN  Cardinality(mine) = 1 => \E e \in mine : \/ bill[s] = <<Line(e)>>
                                                     \/ Len(bill[s]) > 1

(* When the last call has attached the shares and answered, and no other   *)
(* call of the owner overlapped it, the bills are as the readings say,     *)
(* whatever failed before and whatever the billing run does meanwhile: no  *)
(* reading "is silently lost".                                             *)
BillsFollowReadings ==
    \A w \in Workers : (call[w].at = "attached" /\ call[w].alone) => Followed
=============================================================================
