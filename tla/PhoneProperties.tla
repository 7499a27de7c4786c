-------------------------- MODULE PhoneProperties --------------------------
(* What sign-in sessions have to satisfy, on the server and on the phone.  *)
EXTENDS Phone

Rows == [family : Tokens \cup {None}, revoked : BOOLEAN, age : 0..(Grace + 1),
         replaced : Tokens \cup {None}, expired : BOOLEAN, since : Passwords]
Labels == {"free", "sent", "fail", "reset", "create", "reuse", "issue", "rotate", "store",
           "revokeAll"}
Accounts == [exists : BOOLEAN, password : Passwords, temporary : BOOLEAN, lapsed : BOOLEAN,
             failures : Nat, locked : BOOLEAN]
Requests == [kind : Kinds \cup {"none"}, by : Callers \cup {None}, token : Tokens \cup {None},
             secret : Passwords, at : Labels \cup Outcomes, new : Tokens \cup {None},
             again : BOOLEAN, failures : Nat]
Boots == [at : {"none", "exchange", "pause"}, token : Tokens \cup {None},
          tries : 0..Len(Delays), left : 0..120]

PhoneStates == [status : {"closed", "restoring", "signedOut", "signedIn"},
                stored : Tokens \cup {None}, access : {"none", "good", "stale"},
                boot : Boots, user : {"idle", "in", "out", "change", "leave"}]

ServerOK ==
    /\ account \in Accounts /\ session \in [Tokens -> Rows] /\ call \in [Calls -> Requests]
    /\ \A c \in Calls : call[c].at \in Outcomes => call[c].by \in Callers

(* What signs a phone in carries a token whose row is stored.              *)
AnswersStored ==
    \A c \in Calls : call[c].at = "ok" /\ call[c].kind \in {"login", "signup", "refresh"} =>
        call[c].new \in Issued

(* Rows, calls and phones are well formed, an answer has someone waiting,  *)
(* and one that signs in carries a token whose row is stored.              *)
TypeOK ==
    /\ ServerOK /\ AnswersStored
    /\ phone \in [Phones -> PhoneStates] /\ losses \in Nat /\ seen \subseteq {"late", "limit"}
-----------------------------------------------------------------------------
(* A family is over once one of its tokens was revoked without a           *)
(* successor: a sign-out, a new password, or a token presented again.      *)
Over(f) == \E t \in FamilyOf(f) : session[t].revoked /\ session[t].replaced = None

(* Wherever a renewal fails or two of them meet, a family that is not over *)
(* has a token that still works ("a failure here cannot strand the user    *)
(* with neither token").                                                   *)
RotationStrandsNobody ==
    \A f \in Issued : FamilyOf(f) # {} => Over(f) \/ \E t \in FamilyOf(f) : Live(t)

(* An answer that got lost, or that a stopped app did not live to store,   *)
(* is not taken for a stolen token: no token that a renewal has replaced   *)
(* is refused as reused.  That is so until an answer gets lost late (an    *)
(* app sleeps, stays closed or runs into its own timeout, which is no      *)
(* shorter than the grace window), or the limiter spends a retry.          *)
LostAnswerForgiven ==
    [][\A c \in Calls :
          seen = {} /\ call[c].at # "reuse" /\ call'[c].at = "reuse"
              => session[call[c].token].replaced = None]_vars

(* A launch with a stored token ends signed in, lost answers and crashes   *)
(* notwithstanding, unless the app is stopped, the limiter refused a       *)
(* refresh, or the token is refused; and (where nobody signs out or        *)
(* changes the password) none is refused but one that has expired, or      *)
(* whose answer got lost late.                                             *)
LaunchRecovers ==
    /\ \A d \in Phones :
          phone[d].status = "restoring"
              ~> \/ phone[d].status \in {"signedIn", "closed"} \/ "limit" \in seen
                 \/ phone[d].stored = None
    /\ [](\A c \in Calls : call[c].kind = "refresh" /\ call[c].at = "refused" =>
             LET row == session[call[c].token]
             IN  row.expired \/ ("late" \in seen /\ Over(row.family)))

(* Until the limiter refuses a refresh, the screen does not claim a        *)
(* session the keystore cannot renew.  (A 429 to a late retry of a launch  *)
(* clears the keystore of a phone that has signed in meanwhile.)           *)
SignedInHoldsToken ==
    \A d \in Phones : phone[d].status = "signedIn" /\ "limit" \notin seen =>
        phone[d].stored # None

(* However many screens meet a stale access token, and whatever a launch   *)
(* still retries, one phone waits for one call at a time that presents a   *)
(* token.                                                                  *)
OneRenewalPerToken ==
    \A d \in Phones, t \in Tokens :
        Cardinality({c \in Calls : /\ \E flow \in Flows : call[c].by = <<d, flow>>
                                   /\ call[c].kind = "refresh" /\ call[c].token = t
                                   /\ call[c].at \notin Outcomes}) <= 1
=============================================================================
