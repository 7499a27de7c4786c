---------------------------- MODULE BedRegister ----------------------------
(***************************************************************************)
(* What the hostel promises about its beds: a bed has at most one holder   *)
(* and a stay at most one bed; a stay that moves gives up its bed and      *)
(* takes the next in one step; a bed that is held is never handed over.    *)
(***************************************************************************)
CONSTANTS Beds, Stays, Nobody

VARIABLE holder   \* [Beds -> Stays \cup {Nobody}]

Init == holder = [b \in Beds |-> Nobody]

Take(s, b) ==
    /\ holder[b] = Nobody /\ \A c \in Beds : holder[c] # s
    /\ holder' = [holder EXCEPT ![b] = s]

Move(s, b, c) ==
    /\ holder[b] = s /\ holder[c] = Nobody
    /\ holder' = [holder EXCEPT ![b] = Nobody, ![c] = s]

Leave(S) == holder' = [b \in Beds |-> IF holder[b] \in S THEN Nobody ELSE holder[b]]

Next ==
    \/ \E s \in Stays, b \in Beds : Take(s, b)
    \/ \E s \in Stays, b, c \in Beds : Move(s, b, c)
    \/ \E S \in SUBSET Stays : Leave(S)

Spec == Init /\ [][Next]_holder
=============================================================================
