--------------------------- MODULE MCElectricity ---------------------------
EXTENDS ElectricityProperties, TLC

CONSTANTS s1, s2, r1, r2, w1, w2

Row(id, s, days) == [alloc |-> id, stay |-> s, days |-> days]

(* Two residents share a room, one for half as long, or one of them turns  *)
(* out to have left before the month; the other room is let or not.        *)
MCHistories ==
    r1 :> {{Row(1, s1, 2), Row(2, s2, 1)}, {Row(1, s1, 2)}} @@ r2 :> {{}, {Row(3, s2, 1)}}

Alike == Permutations(Workers)
=============================================================================
