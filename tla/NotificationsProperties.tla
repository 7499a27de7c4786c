----------------------- MODULE NotificationsProperties -----------------------
(***************************************************************************)
(* What push notifications promise.                                        *)
(***************************************************************************)
EXTENDS Notifications

(* "so a job that re-runs cannot send the same thing twice"                *)
(* (notification.service.ts): however often it is asked for, by whichever  *)
(* process, and whatever fails or crashes on the way, Expo is asked for a  *)
(* message at most once.                                                   *)
PushedAtMostOnce == \A m \in Messages : pushes[m] <= 1

(* The row never says more than what happened, across the send, its        *)
(* failures and sweeps that overlap: SENT was pushed and has tickets,      *)
(* DELIVERED reached some device, and nothing left for a SKIPPED message.  *)
StatusIsEarned ==
    \A m \in Messages :
        LET row == delivery[m] IN
        /\ row.status \in {"SENT", "DELIVERED"} => pushes[m] > 0 /\ row.tickets # {}
        /\ row.status = "DELIVERED" => \E d \in row.tickets : receipt[m][d] = "ok"
        /\ row.status \in {"none", "SKIPPED"} => pushes[m] = 0
=============================================================================
