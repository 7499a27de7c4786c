------------------------------ MODULE Sessions ------------------------------
(***************************************************************************)
(* Sign-in and refresh sessions of one account, as the API serves them:    *)
(* auth.service.ts statement by statement, for any client.                 *)
(*                                                                         *)
(* A call is a record from the moment it is sent to the moment its answer  *)
(* is taken.  A handler's statements run one at a time and interleave with *)
(* those of other calls; nothing here runs in a transaction but the        *)
(* owner's reset.  A refresh token and its row are one number, in the      *)
(* order of issue; a family is named after its first token.                *)
(***************************************************************************)
EXTENDS Naturals

CONSTANTS
    MaxToken, MaxPassword,  \* bounds on the tokens issued and passwords set
    MaxCalls, Callers,      \* requests open at once; who may wait for one
    None,
    Threshold,              \* ACCOUNT_LOCKOUT_THRESHOLD
    Grace,                  \* ROTATION_GRACE_MS, in seconds
    Limited                 \* the kinds of call the rate limiter may refuse

Tokens == 1..MaxToken
Passwords == 0..MaxPassword
Calls == 1..MaxCalls
Kinds == {"login", "signup", "refresh", "logout", "change"}
Outcomes == {"ok", "refused", "failed", "limited"}

ASSUME SessionsAssumption ==
    /\ MaxToken \in Nat /\ MaxPassword \in Nat /\ MaxCalls \in Nat /\ Grace \in Nat
    /\ Threshold \in Nat \ {0}
    /\ None \notin Callers \cup Nat
    /\ Limited \subseteq {"login", "signup", "refresh"}

VARIABLES
    account,  \* the User row: its password's version, lock-out and failures
    session,  \* [Tokens -> RefreshSession row]
    call      \* [Calls -> request], by = None when nobody waits any more

server == <<account, session, call>>

NoRow == [family |-> None, revoked |-> FALSE, age |-> 0, replaced |-> None,
          expired |-> FALSE, since |-> 0]
NoCall == [kind |-> "none", by |-> None, token |-> None, secret |-> 0,
           at |-> "free", new |-> None, again |-> FALSE, failures |-> 0]

ServerInit ==
    /\ account \in [exists : BOOLEAN, password : {0}, temporary : {FALSE},
                    lapsed : {FALSE}, failures : {0}, locked : {FALSE}]
    /\ session = [t \in Tokens |-> NoRow]
    /\ call = [c \in Calls |-> NoCall]
-----------------------------------------------------------------------------
Issued == {t \in Tokens : session[t].family # None}
Live(t) == t \in Issued /\ ~session[t].revoked
FamilyOf(f) == {t \in Tokens : session[t].family = f}
NextToken == {t \in Tokens : Issued = 1..(t - 1)}

Lesser(m, n) == IF m < n THEN m ELSE n
(* updateMany ... where revokedAt is null: only live rows are stamped.     *)
Revoked(rows) ==
    [t \in Tokens |-> IF t \in rows /\ Live(t)
                      THEN [session[t] EXCEPT !.revoked = TRUE, !.age = 0] ELSE session[t]]
(* n seconds later.                                                        *)
Aged(n) ==
    [t \in Tokens |-> IF session[t].revoked
                      THEN [session[t] EXCEPT !.age = Lesser(@ + n, Grace + 1)] ELSE session[t]]

At(c, kind, label) == call[c].kind = kind /\ call[c].at = label
Goto(c, label) == call' = [call EXCEPT ![c].at = label]
Reply(c, outcome) ==
    call' = [call EXCEPT ![c] = IF @.by = None THEN NoCall ELSE [@ EXCEPT !.at = outcome]]
Open(c) == call[c].at \notin Outcomes \cup {"free"}

(* Slots have no identity, so the first free one is taken.                 *)
Send(c, by, kind, token, secret) ==
    /\ call[c].at = "free" /\ \A b \in 1..(c - 1) : call[b].at # "free"
    /\ call' = [call EXCEPT ![c] = [NoCall EXCEPT !.kind = kind, !.by = by, !.token = token,
                                                  !.secret = secret, !.at = "sent"]]
TakeAnswer(c) == call[c].at \in Outcomes /\ call' = [call EXCEPT ![c] = NoCall]
(* The connection is lost: the request never arrived, or its handler goes  *)
(* on with nobody waiting, or the answer is gone.                          *)
HangUp(c) ==
    /\ call[c].by # None
    /\ \/ call[c].at \in Outcomes \cup {"sent"} /\ call' = [call EXCEPT ![c] = NoCall]
       \/ Open(c) /\ call' = [call EXCEPT ![c].by = None]
(* The client is gone: what was answered is dropped, a request that had    *)
(* not arrived may never do, and handlers go on with nobody waiting.       *)
Abandon(calls) ==
    \E unsent \in SUBSET {c \in calls : call[c].at = "sent"} :
        call' = [c \in Calls |->
                    IF c \notin calls THEN call[c]
                    ELSE IF c \in unsent \/ call[c].at \in Outcomes THEN NoCall
                    ELSE [call[c] EXCEPT !.by = None]]
-----------------------------------------------------------------------------
(* authLimiter, in front of the handlers: counted per address, so it may   *)
(* refuse anyone.                                                          *)
RateLimit(c) ==
    /\ call[c].at = "sent" /\ call[c].kind \in Limited
    /\ Reply(c, "limited") /\ UNCHANGED <<account, session>>

(* login: the row is read once; the checks follow on what was read.        *)
ReadAccount(c) ==
    /\ At(c, "login", "sent")
    /\ IF ~account.exists \/ account.locked THEN Reply(c, "refused")
       ELSE IF call[c].secret # account.password
            THEN call' = [call EXCEPT ![c].at = "fail", ![c].failures = account.failures]
       ELSE IF account.temporary /\ account.lapsed THEN Reply(c, "refused")
       ELSE Goto(c, "reset")
    /\ UNCHANGED <<account, session>>

(* registerFailedAttempt writes back the count it read, plus one: two that *)
(* overlap count once.                                                     *)
CountFailure(c) ==
    /\ At(c, "login", "fail")
    /\ LET attempts == call[c].failures + 1
       IN  account' = [account EXCEPT !.failures = attempts,
                                      !.locked = @ \/ attempts >= Threshold]
    /\ Reply(c, "refused") /\ UNCHANGED session

ResetFailures(c) ==
    /\ At(c, "login", "reset")
    /\ account' = [account EXCEPT !.failures = 0, !.locked = FALSE]
    /\ Goto(c, "issue") /\ UNCHANGED session

(* signup: looked up first, then created if the number is still free.      *)
LookUpPhone(c) ==
    /\ At(c, "signup", "sent")
    /\ IF account.exists THEN Reply(c, "refused") ELSE Goto(c, "create")
    /\ UNCHANGED <<account, session>>

CreateAccount(c) ==
    /\ At(c, "signup", "create")
    /\ IF account.exists
       THEN Reply(c, "refused") /\ UNCHANGED account
       ELSE account' = [account EXCEPT !.exists = TRUE] /\ Goto(c, "issue")
    /\ UNCHANGED session

(* Mutant: the old token is revoked before its successor is stored.        *)
ReadSession_RevokesFirst(c) ==
    LET row == session[call[c].token]
    IN  /\ At(c, "refresh", "sent") /\ ~row.revoked /\ ~row.expired
        /\ \E t \in NextToken :
              session' = [session EXCEPT ![call[c].token].revoked = TRUE,
                                         ![call[c].token].replaced = t]
        /\ call' = [call EXCEPT ![c].at = "issue", ![c].again = TRUE]
        /\ UNCHANGED account
(* Mutant: no window for a retry.                                          *)
ReadSession_NoGrace(c) ==
    LET row == session[call[c].token]
    IN  /\ At(c, "refresh", "sent")
        /\ IF row.revoked THEN Goto(c, "reuse")
           ELSE IF row.expired THEN Reply(c, "refused") ELSE Goto(c, "issue")
        /\ UNCHANGED <<account, session>>

(* refresh: a revoked token is accepted only when a renewal replaced it    *)
(* and the window is still open.                                           *)
ReadSession(c) ==
    LET row == session[call[c].token]
        retriedWithinGrace == row.revoked /\ row.replaced # None /\ row.age <= Grace
    IN  /\ At(c, "refresh", "sent")
        /\ IF call[c].token \notin Issued THEN Reply(c, "refused")
           ELSE IF row.revoked /\ ~retriedWithinGrace THEN Goto(c, "reuse")
           ELSE IF row.expired THEN Reply(c, "refused")
           ELSE call' = [call EXCEPT ![c].at = "issue", ![c].again = row.revoked]
        /\ UNCHANGED <<account, session>>

RevokeFamily(c) ==
    /\ At(c, "refresh", "reuse")
    /\ session' = Revoked(FamilyOf(session[call[c].token].family))
    /\ Reply(c, "refused") /\ UNCHANGED account

(* Mutant: a new sign-in is answered without waiting for its row.          *)
IssueSession_Unawaited(c) ==
    /\ call[c].at = "issue" /\ call[c].kind # "refresh"
    /\ \E t \in NextToken :
          call' = [call EXCEPT ![c] = IF @.by = None THEN NoCall
                                      ELSE [@ EXCEPT !.at = "ok", !.new = t]]
    /\ UNCHANGED <<account, session>>

(* issueSession: the successor's row exists before the old one is revoked. *)
IssueSession(c) ==
    /\ call[c].at = "issue"
    /\ \E t \in NextToken :
          LET refreshed == call[c].kind = "refresh"
              family == IF refreshed THEN session[call[c].token].family ELSE t
              vouched == IF refreshed THEN session[call[c].token].since ELSE call[c].secret
              done == IF refreshed /\ ~call[c].again THEN "rotate" ELSE "ok"
          IN  /\ session' = [session EXCEPT ![t] =
                                [NoRow EXCEPT !.family = family, !.since = vouched]]
              /\ call' = [call EXCEPT ![c] = IF done = "ok" /\ @.by = None THEN NoCall
                                             ELSE [@ EXCEPT !.at = done, !.new = t]]
    /\ UNCHANGED account

(* By id, whatever has happened to the row since it was read.              *)
Rotate(c) ==
    /\ At(c, "refresh", "rotate")
    /\ session' = [session EXCEPT ![call[c].token] =
                      [@ EXCEPT !.revoked = TRUE, !.age = 0, !.replaced = call[c].new]]
    /\ Reply(c, "ok") /\ UNCHANGED account

Logout(c) ==
    /\ At(c, "logout", "sent")
    /\ session' = Revoked({call[c].token} \cap Tokens)
    /\ Reply(c, "ok") /\ UNCHANGED account

(* changePassword: the current password is verified on what was read, then *)
(* the new one stored whatever the row holds by now, then every session.   *)
CheckPassword(c) ==
    /\ At(c, "change", "sent")
    /\ IF call[c].secret # account.password THEN Reply(c, "refused") ELSE Goto(c, "store")
    /\ UNCHANGED <<account, session>>

StorePassword(c) ==
    /\ At(c, "change", "store") /\ account.password < MaxPassword
    /\ account' = [account EXCEPT !.password = @ + 1, !.temporary = FALSE, !.lapsed = FALSE]
    /\ Goto(c, "revokeAll") /\ UNCHANGED session

RevokeAllSessions(c) ==
    /\ At(c, "change", "revokeAll")
    /\ session' = Revoked(Tokens)
    /\ Reply(c, "ok") /\ UNCHANGED account

(* The owner issues a temporary password, in one transaction.              *)
ResetResidentPassword ==
    /\ account.exists /\ account.password < MaxPassword
    /\ account' = [account EXCEPT !.password = @ + 1, !.temporary = TRUE, !.lapsed = FALSE,
                                  !.failures = 0, !.locked = FALSE]
    /\ session' = Revoked(Tokens)
    /\ UNCHANGED call

(* The process or the database fails under a handler, between statements.  *)
Die(c) == Open(c) /\ Reply(c, "failed") /\ UNCHANGED <<account, session>>

Serve(c) ==
    \/ RateLimit(c) \/ ReadAccount(c) \/ CountFailure(c) \/ ResetFailures(c)
    \/ LookUpPhone(c) \/ CreateAccount(c)
    \/ ReadSession(c) \/ RevokeFamily(c) \/ IssueSession(c) \/ Rotate(c)
    \/ Logout(c) \/ CheckPassword(c) \/ StorePassword(c) \/ RevokeAllSessions(c)

(* Time, as far as a row shows it: the window closes, a lock ends, a       *)
(* temporary password and the sessions run out.                            *)
Wait(n) == session' = Aged(n) /\ UNCHANGED account
WaitLong(month) ==
    /\ session' = [t \in Tokens |-> [Aged(Grace + 1)[t] EXCEPT
                                        !.expired = @ \/ (month /\ t \in Issued)]]
    /\ account' = [account EXCEPT !.locked = FALSE, !.lapsed = @ \/ (month /\ account.temporary)]
=============================================================================
