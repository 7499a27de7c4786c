------------------------------- MODULE Phone -------------------------------
(***************************************************************************)
(* The app's side of a session: authStore.ts and apiClient.ts, on top of   *)
(* the server of Sessions.  Three flows of one phone may each have a call  *)
(* open: the launch with its quiet retries, the renewal that a stale       *)
(* access token starts, and what the user does.                            *)
(*                                                                         *)
(* Seconds pass only while a launch waits to try again, while a lost call  *)
(* runs into the client's timeout, and in the hours in which an app sleeps *)
(* or is closed; servers and networks are quick next to those.  An app may *)
(* be stopped or put to sleep at any moment.                               *)
(***************************************************************************)
EXTENDS Sessions, Sequences, FiniteSets

CONSTANTS
    Phones,
    Timeout,     \* DEFAULT_TIMEOUT_MS, in seconds
    MaxLosses,   \* calls lost or failed in a run
    MaxFailures, \* wrong passwords that count, but for those on their way
    Users,       \* what the user may do: "login", "signup", "logout", "change", "ask"
    Silent,      \* may a loss go unnoticed until the client gives up
    Elsewhere    \* calls made from somewhere else

Flows == {"boot", "renew", "user"}

ASSUME PhoneAssumption ==
    /\ Callers = Phones \X Flows
    /\ Timeout \in Nat /\ MaxLosses \in Nat /\ MaxFailures \in Nat

VARIABLES
    phone,   \* [Phones -> auth store, keystore and access token]
    losses,
    seen     \* "late": time passed on a phone that did not know of its renewal;
             \* "limit": a refresh was refused by the limiter

vars == <<server, phone, losses, seen>>

(* The short retry, then RESTORE_RETRY_DELAYS_MS; 1.5 s counts as 2.       *)
Delays == <<2, 5, 15, 30, 60, 120>>
Quiet(tries) == tries >= 2

NoBoot == [at |-> "none", token |-> None, tries |-> 0, left |-> 0]
Closed == [status |-> "closed", stored |-> None, access |-> "none", boot |-> NoBoot,
           user |-> "idle"]

Awaited(d, flow) == {c \in Calls : call[c].by = <<d, flow>>}
Waiting(d) == UNION {Awaited(d, flow) : flow \in Flows}
Quick == \A c \in Calls : call[c].at = "free"
(* Closed before it stored the token that replaced its own.                *)
Adrift == {d \in Phones : /\ phone[d].status = "closed" /\ phone[d].stored # None
                          /\ session[phone[d].stored].replaced # None}
Noted(event, happened) == seen' = IF happened THEN seen \cup {event} ELSE seen
Spare == MaxToken - Cardinality(Issued)
            - Cardinality({c \in Calls : Open(c) /\ call[c].kind \in {"login", "signup", "refresh"}})
(* A launch starts with enough tokens to finish, and what the user starts  *)
(* leaves as many.                                                         *)
MayLaunch == Spare > MaxLosses - losses
MayStart == Spare > MaxLosses - losses + 1
MayChange ==
    account.password + Cardinality({c \in Calls : At(c, "change", "sent") \/ At(c, "change", "store")})
        < MaxPassword
MayFail == account.failures + Cardinality({c \in Calls : call[c].kind = "login"}) < MaxFailures

Init ==
    /\ ServerInit
    /\ phone = [d \in Phones |-> Closed]
    /\ losses = 0 /\ seen = {}
-----------------------------------------------------------------------------
(* applySession, and the status that follows it.                           *)
Applied(ph, token) ==
    [ph EXCEPT !.access = "good", !.stored = token, !.status = "signedIn"]
(* Mutant: the screen stays signed in.                                     *)
Dropped_StillIn(ph) == [ph EXCEPT !.access = "none", !.stored = None]
(* What performRequest does once a session is dead.                        *)
Dropped(ph) == [ph EXCEPT !.access = "none", !.stored = None, !.status = "signedOut"]

(* The next attempt, or none when the delays are used up.                  *)
Postponed(boot) ==
    IF boot.tries < Len(Delays)
    THEN [boot EXCEPT !.at = "pause", !.tries = @ + 1, !.left = Delays[boot.tries + 1]]
    ELSE NoBoot

(* Mutant: a failure of the second attempt is not handled.                 *)
BootAnswered_Once(ph, outcome, token) ==
    LET stop == [ph EXCEPT !.boot = NoBoot]
    IN  CASE outcome = "ok" -> Applied(stop, token)
          [] outcome = "refused" -> Dropped(stop)
          [] outcome = "limited" -> [stop EXCEPT !.stored = None]
          [] outcome = "failed" ->
               IF ph.boot.tries = 0 THEN [ph EXCEPT !.boot = Postponed(@)] ELSE stop

(* restore: the first exchange, one short retry, then quiet ones while     *)
(* nobody has signed in.                                                   *)
BootAnswered(ph, outcome, token) ==
    LET tries == ph.boot.tries
        stop == [ph EXCEPT !.boot = NoBoot]
        guest == [ph EXCEPT !.boot = Postponed(@),
                            !.status = IF tries = 1 THEN "signedOut" ELSE @,
                            !.access = IF tries = 1 THEN "none" ELSE @]
    IN  CASE outcome = "ok" ->
               IF ~Quiet(tries) \/ ph.status = "signedOut" THEN Applied(stop, token) ELSE stop
          [] outcome = "refused" -> Dropped(stop)
          [] outcome = "limited" ->
               IF tries = 1 THEN guest
               ELSE IF tries = 0 THEN Dropped(stop) ELSE [stop EXCEPT !.stored = None]
          [] outcome = "failed" -> guest

(* refreshSession, and the requests that were waiting for it: true saves   *)
(* what came back, false is taken for a dead session.                      *)
RenewAnswered(ph, outcome, token) ==
    IF outcome = "ok" THEN [ph EXCEPT !.access = "good", !.stored = token] ELSE Dropped(ph)

(* signIn, signUp, changePassword and signOut.                             *)
UserAnswered(ph, outcome, token) ==
    CASE ph.user = "in" -> IF outcome = "ok" THEN Applied([ph EXCEPT !.user = "idle"], token)
                           ELSE [ph EXCEPT !.user = "idle"]
      [] ph.user = "change" -> [ph EXCEPT !.user = IF outcome = "ok" THEN "leave" ELSE "idle"]
      [] ph.user = "out" -> Dropped([ph EXCEPT !.user = "idle"])
      [] OTHER -> ph

Answered(by, outcome, token) ==
    LET ph == phone[by[1]]
    IN  phone' = [phone EXCEPT ![by[1]] =
            CASE by[2] = "boot" -> BootAnswered(ph, outcome, token)
              [] by[2] = "renew" -> RenewAnswered(ph, outcome, token)
              [] by[2] = "user" -> UserAnswered(ph, outcome, token)]

Deliver(c) ==
    /\ TakeAnswer(c)
    /\ Answered(call[c].by, call[c].at, call[c].new)
    /\ Noted("limit", call[c].kind = "refresh" /\ call[c].at = "limited")
    /\ UNCHANGED <<account, session, losses>>

(* A call is lost: at once, or after the whole of the client's timeout.    *)
LoseAnswer(c) ==
    /\ losses < MaxLosses /\ losses' = losses + 1
    /\ HangUp(c) /\ Answered(call[c].by, "failed", None)
    /\ \/ UNCHANGED <<account, session, seen>>
       \/ Silent /\ Wait(Timeout) /\ Noted("late", TRUE)

Crash(c) ==
    /\ losses < MaxLosses /\ losses' = losses + 1
    /\ Die(c) /\ UNCHANGED <<phone, seen>>
-----------------------------------------------------------------------------
Launch(d) ==
    /\ phone[d].status = "closed" /\ (phone[d].stored # None => MayLaunch)
    /\ IF phone[d].stored = None
       THEN phone' = [phone EXCEPT ![d].status = "signedOut"] /\ UNCHANGED call
       ELSE /\ \E c \in Calls : Send(c, <<d, "boot">>, "refresh", phone[d].stored, 0)
            /\ phone' = [phone EXCEPT ![d].status = "restoring",
                             ![d].boot = [NoBoot EXCEPT !.at = "exchange", !.token = phone[d].stored]]
    /\ UNCHANGED <<account, session, losses, seen>>

TryAgain(d) ==
    LET boot == phone[d].boot
        replaced == phone[d].status # "signedOut" \/ phone[d].stored # boot.token
    IN  /\ boot.at = "pause" /\ boot.left = 0
        /\ IF Quiet(boot.tries) /\ replaced
           THEN phone' = [phone EXCEPT ![d].boot = NoBoot] /\ UNCHANGED call
           ELSE /\ \E c \in Calls : Send(c, <<d, "boot">>, "refresh", boot.token, 0)
                /\ phone' = [phone EXCEPT ![d].boot.at = "exchange"]
        /\ UNCHANGED <<account, session, losses, seen>>

(* Mutant: every request that meets a stale token renews it.               *)
Renew_Each(d) ==
    /\ "ask" \in Users /\ phone[d].status = "signedIn" /\ phone[d].access # "good"
    /\ phone[d].stored # None /\ MayStart
    /\ \E c \in Calls : Send(c, <<d, "renew">>, "refresh", phone[d].stored, 0)
    /\ UNCHANGED <<account, session, phone, losses, seen>>

(* A request meets a stale access token; later ones join the same renewal. *)
Renew(d) ==
    /\ "ask" \in Users /\ phone[d].status = "signedIn" /\ phone[d].access # "good"
    /\ Awaited(d, "renew") = {}
    /\ IF phone[d].stored = None
       THEN phone' = [phone EXCEPT ![d] = Dropped(@)] /\ UNCHANGED call
       ELSE /\ MayStart
            /\ \E c \in Calls : Send(c, <<d, "renew">>, "refresh", phone[d].stored, 0)
            /\ UNCHANGED phone
    /\ UNCHANGED <<account, session, losses, seen>>

UserSends(d, status, next, kind, token, secret) ==
    /\ phone[d].user = "idle" /\ phone[d].status = status
    /\ \E c \in Calls : Send(c, <<d, "user">>, kind, token, secret)
    /\ phone' = [phone EXCEPT ![d].user = next]
    /\ UNCHANGED <<account, session, losses, seen>>

SignIn(d, secret) ==
    /\ "login" \in Users /\ MayStart /\ (secret # account.password => MayFail)
    /\ UserSends(d, "signedOut", "in", "login", None, secret)
SignUp(d) ==
    "signup" \in Users /\ MayStart /\ UserSends(d, "signedOut", "in", "signup", None, 0)
SignOut(d) == "logout" \in Users /\ UserSends(d, "signedIn", "out", "logout", phone[d].stored, 0)
(* The app's own screen asks for it after a temporary password; the API    *)
(* takes it from anyone who is signed in.                                  *)
ChangePassword(d, secret) ==
    /\ "change" \in Users /\ phone[d].access = "good" /\ MayChange
    /\ UserSends(d, "signedIn", "change", "change", None, secret)

(* The screen signs out once the password is changed.                      *)
LeaveAfterChange(d) ==
    /\ phone[d].user = "leave"
    /\ \E c \in Calls : Send(c, <<d, "user">>, "logout", phone[d].stored, 0)
    /\ phone' = [phone EXCEPT ![d].user = "out"]
    /\ UNCHANGED <<account, session, losses, seen>>

(* The app is stopped, by its user or by the system, whatever it is doing; *)
(* the keystore stays.                                                     *)
CloseApp(d) ==
    /\ phone[d].status # "closed"
    /\ phone' = [phone EXCEPT ![d] = [Closed EXCEPT !.stored = phone[d].stored]]
    /\ Abandon(Waiting(d))
    /\ UNCHANGED <<account, session, losses, seen>>
-----------------------------------------------------------------------------
Pausing == {d \in Phones : phone[d].boot.at = "pause" /\ phone[d].boot.left > 0}

(* Time goes on to the next retry; one that is due goes first.             *)
Elapse ==
    /\ Quick /\ \A d \in Phones : phone[d].boot.at = "pause" => d \in Pausing
    /\ \E first \in Pausing :
          LET n == phone[first].boot.left
          IN  /\ \A d \in Pausing : phone[d].boot.left >= n
              /\ Wait(n)
              /\ phone' = [d \in Phones |-> IF d \in Pausing
                               THEN [phone[d] EXCEPT !.boot.left = @ - n] ELSE phone[d]]
    /\ Noted("late", Adrift # {})
    /\ UNCHANGED <<call, losses>>

(* An hour, or a month, in which nothing happens: every app is closed or   *)
(* sleeps.  One that slept over a launch or a call goes on where it was.   *)
Idle(month) ==
    /\ \A c \in Calls : ~Open(c)
    /\ WaitLong(month)
    /\ phone' = [d \in Phones |->
                    [phone[d] EXCEPT !.access = IF @ = "good" THEN "stale" ELSE @,
                                     !.boot = [@ EXCEPT !.left = 0]]]
    /\ Noted("late", Adrift # {} \/ ~Quick \/ \E d \in Phones : phone[d].boot # NoBoot)
    /\ UNCHANGED <<call, losses>>

(* Another device of the same account changes the password; the owner      *)
(* issues a temporary one.                                                 *)
ChangeElsewhere(c) ==
    /\ Elsewhere /\ account.exists /\ MayChange
    /\ Send(c, None, "change", None, account.password)
    /\ UNCHANGED <<account, session, phone, losses, seen>>
OwnerResets ==
    Elsewhere /\ MayChange /\ ResetResidentPassword /\ UNCHANGED <<phone, losses, seen>>

Handle(c) == Serve(c) /\ UNCHANGED <<phone, losses, seen>>

Next ==
    \/ \E c \in Calls : Handle(c) \/ Deliver(c) \/ LoseAnswer(c) \/ Crash(c) \/ ChangeElsewhere(c)
    \/ \E d \in Phones : \/ Launch(d) \/ TryAgain(d) \/ Renew(d) \/ SignUp(d) \/ SignOut(d)
                         \/ LeaveAfterChange(d) \/ CloseApp(d)
    \/ \E d \in Phones, secret \in Passwords : SignIn(d, secret) \/ ChangePassword(d, secret)
    \/ Elapse \/ OwnerResets
    \/ \E month \in BOOLEAN : Idle(month)

(* Handlers and answers go on, and timers fire; no user has to do anything *)
(* and no call has to be lost.                                             *)
Fairness ==
    /\ \A c \in Calls : WF_vars(Handle(c)) /\ WF_vars(Deliver(c))
    /\ \A d \in Phones : SF_vars(TryAgain(d))
    /\ SF_vars(Elapse)

Spec == Init /\ [][Next]_vars
FairSpec == Spec /\ Fairness
=============================================================================
