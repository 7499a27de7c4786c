---------------------------- MODULE PhoneProofs ----------------------------
(***************************************************************************)
(* What holds of sessions and phones for every value of the constants:     *)
(* rows, calls and phones stay well formed, no family of tokens is left    *)
(* without one that works, a phone presents a token in one call at a time, *)
(* and whoever is signed in has one.  And what holds of losses: a client   *)
(* that lost few answers, none of them late, is not taken for a thief,     *)
(* stopped in the middle of a refresh or not.                              *)
(***************************************************************************)
EXTENDS PhoneProperties, FiniteSetTheorems, WellFoundedInduction, TLAPS

(* The type invariant but for what answers carry.                          *)
Typed ==
    /\ ServerOK /\ phone \in [Phones -> PhoneStates] /\ losses \in Nat
    /\ seen \subseteq {"late", "limit"}

LEMMA LargestToken ==
    ASSUME NEW T, T \subseteq Tokens, T # {}
    PROVE  \E t \in T : \A u \in T : u <= t
<1> DEFINE R == OpToRel(<, Nat)
<1> DEFINE Down == {MaxToken - t : t \in T}
<1>1. MaxToken \in Nat
  BY SessionsAssumption
<1>2. Down \subseteq Nat /\ Down # {}
  <2>1. \A t \in T : t \in 1..MaxToken
    BY DEF Tokens
  <2>2. \A t \in T : MaxToken - t \in Nat
    BY <1>1, <2>1
  <2>3. Down # {}
    OBVIOUS
  <2> QED  BY <2>2, <2>3
<1>3. \E x \in Down : \A y \in Down : ~ (<<y, x>> \in R)
  <2> HIDE DEF Down
  <2> QED  BY <1>2, NatLessThanWellFounded, WFMin
<1>4. PICK x \in Down : \A y \in Down : ~ (<<y, x>> \in R)
  BY <1>3
<1>5. \A y \in Down : ~ (y < x)
  BY <1>4, <1>2 DEF OpToRel
<1>6. PICK t \in T : x = MaxToken - t
  OBVIOUS
<1>7. \A u \in T : u <= t
  <2> TAKE u \in T
  <2>1. ~ (MaxToken - u < MaxToken - t)
    BY <1>5, <1>6
  <2> QED  BY <2>1, <1>1 DEF Tokens
<1> QED  BY <1>7
-----------------------------------------------------------------------------
(* Sets and small facts about the constants.                               *)
LEMMA Constants ==
    /\ MaxToken \in Nat /\ MaxPassword \in Nat /\ MaxCalls \in Nat /\ Grace \in Nat
    /\ Threshold \in Nat /\ Threshold >= 1 /\ Timeout \in Nat /\ MaxLosses \in Nat
    /\ None \notin Callers /\ None \notin Tokens
BY SessionsAssumption, PhoneAssumption DEF Tokens

(* The calls after one of them was replaced.                               *)
LEMMA OneCall ==
    ASSUME ServerOK, NEW c \in Calls, NEW r \in Requests,
           r.at \in Outcomes => r.by \in Callers,
           call' = [call EXCEPT ![c] = r]
    PROVE  /\ call' \in [Calls -> Requests]
           /\ \A b \in Calls : call'[b].at \in Outcomes => call'[b].by \in Callers
BY DEF ServerOK

LEMMA NoCallIsRequest == NoCall \in Requests /\ NoCall.at \notin Outcomes
<1>1. 0 \in Passwords /\ 0 \in Nat
  BY Constants DEF Passwords
<1> QED  BY <1>1 DEF NoCall, Requests, Labels, Outcomes

LEMMA ReplyOK ==
    ASSUME ServerOK, NEW c \in Calls, NEW outcome \in Outcomes, Reply(c, outcome)
    PROVE  /\ call' \in [Calls -> Requests]
           /\ \A b \in Calls : call'[b].at \in Outcomes => call'[b].by \in Callers
<1> DEFINE r == IF call[c].by = None THEN NoCall ELSE [call[c] EXCEPT !.at = outcome]
<1>1. call' = [call EXCEPT ![c] = r]
  BY DEF Reply, ServerOK
<1>2. call[c] \in Requests
  BY DEF ServerOK
<1>3. r \in Requests
  BY <1>2, NoCallIsRequest DEF Requests
<1>4. r.at \in Outcomes => r.by \in Callers
  BY <1>2, NoCallIsRequest DEF Requests
<1> QED  BY <1>1, <1>3, <1>4, OneCall

LEMMA GotoOK ==
    ASSUME ServerOK, NEW c \in Calls, NEW label \in Labels, Goto(c, label)
    PROVE  /\ call' \in [Calls -> Requests]
           /\ \A b \in Calls : call'[b].at \in Outcomes => call'[b].by \in Callers
<1> DEFINE r == [call[c] EXCEPT !.at = label]
<1>1. call' = [call EXCEPT ![c] = r]
  BY DEF Goto, ServerOK
<1>2. call[c] \in Requests
  BY DEF ServerOK
<1>3. r \in Requests /\ r.at = label
  BY <1>2 DEF Requests
<1>4. label \notin Outcomes
  BY DEF Labels, Outcomes
<1> QED  BY <1>1, <1>3, <1>4, OneCall

LEMMA SendOK ==
    ASSUME ServerOK, NEW c \in Calls, NEW by \in Callers \cup {None}, NEW kind \in Kinds,
           NEW token \in Tokens \cup {None}, NEW secret \in Passwords,
           Send(c, by, kind, token, secret)
    PROVE  /\ call' \in [Calls -> Requests]
           /\ \A b \in Calls : call'[b].at \in Outcomes => call'[b].by \in Callers
<1> DEFINE r == [NoCall EXCEPT !.kind = kind, !.by = by, !.token = token,
                               !.secret = secret, !.at = "sent"]
<1>1. call' = [call EXCEPT ![c] = r]
  BY DEF Send
<1>2. r \in Requests /\ r.at = "sent"
  BY NoCallIsRequest DEF Requests, NoCall, Labels
<1>3. "sent" \notin Outcomes
  BY DEF Outcomes
<1> QED  BY <1>1, <1>2, <1>3, OneCall

LEMMA HangUpOK ==
    ASSUME ServerOK, NEW c \in Calls, TakeAnswer(c) \/ HangUp(c)
    PROVE  /\ call' \in [Calls -> Requests]
           /\ \A b \in Calls : call'[b].at \in Outcomes => call'[b].by \in Callers
<1>1. CASE call' = [call EXCEPT ![c] = NoCall]
  BY <1>1, NoCallIsRequest, OneCall
<1>2. CASE Open(c) /\ call' = [call EXCEPT ![c].by = None]
  <2> DEFINE r == [call[c] EXCEPT !.by = None]
  <2>1. call[c] \in Requests
    BY DEF ServerOK
  <2>2. r \in Requests /\ r.at = call[c].at
    BY <2>1 DEF Requests
  <2>3. call' = [call EXCEPT ![c] = r]
    BY <1>2 DEF ServerOK
  <2>4. call[c].at \notin Outcomes
    BY <1>2 DEF Open
  <2> HIDE DEF r
  <2> QED  BY <2>2, <2>3, <2>4, OneCall
<1> QED  BY <1>1, <1>2 DEF TakeAnswer, HangUp

(* What stopping an app does to a call.                                    *)
LEMMA Abandoned ==
    ASSUME ServerOK, NEW calls, Abandon(calls), NEW c \in Calls
    PROVE  /\ call' \in [Calls -> Requests]
           /\ \/ c \in calls /\ call'[c] = NoCall
              \/ c \notin calls /\ call'[c] = call[c]
              \/ /\ c \in calls /\ call[c].at \notin Outcomes /\ call'[c].by = None
                 /\ call'[c].kind = call[c].kind /\ call'[c].at = call[c].at
                 /\ call'[c].token = call[c].token /\ call'[c].new = call[c].new
<1>1. PICK unsent \in SUBSET {b \in calls : call[b].at = "sent"} :
        call' = [b \in Calls |->
                    IF b \notin calls THEN call[b]
                    ELSE IF b \in unsent \/ call[b].at \in Outcomes THEN NoCall
                    ELSE [call[b] EXCEPT !.by = None]]
  BY DEF Abandon
<1>2. ASSUME NEW b \in Calls
      PROVE  /\ call[b] \in Requests /\ [call[b] EXCEPT !.by = None] \in Requests
             /\ [call[b] EXCEPT !.by = None].by = None
             /\ [call[b] EXCEPT !.by = None].kind = call[b].kind
             /\ [call[b] EXCEPT !.by = None].at = call[b].at
             /\ [call[b] EXCEPT !.by = None].token = call[b].token
             /\ [call[b] EXCEPT !.by = None].new = call[b].new
  <2>1. call[b] \in Requests
    BY DEF ServerOK
  <2> QED  BY <2>1 DEF Requests
<1>3. call' \in [Calls -> Requests]
  BY <1>1, <1>2, NoCallIsRequest
<1>4. \/ c \in calls /\ call'[c] = NoCall
      \/ c \notin calls /\ call'[c] = call[c]
      \/ /\ c \in calls /\ call[c].at \notin Outcomes
         /\ call'[c] = [call[c] EXCEPT !.by = None]
  BY <1>1
<1> QED  BY <1>2, <1>3, <1>4

LEMMA AbandonOK ==
    ASSUME ServerOK, NEW calls, Abandon(calls)
    PROVE  /\ call' \in [Calls -> Requests]
           /\ \A b \in Calls : call'[b].at \in Outcomes => call'[b].by \in Callers
<1>1. call' \in [Calls -> Requests]
  <2>1. \A c \in Calls : call' \in [Calls -> Requests]
    BY Abandoned
  <2>2. Calls = {} => call' \in [Calls -> Requests]
    BY DEF Abandon
  <2> QED  BY <2>1, <2>2
<1>2. ASSUME NEW b \in Calls, call'[b].at \in Outcomes  PROVE call'[b].by \in Callers
  <2>1. call'[b] = call[b]
    BY <1>2, Abandoned, NoCallIsRequest
  <2> QED  BY <1>2, <2>1 DEF ServerOK
<1> QED  BY <1>1, <1>2
-----------------------------------------------------------------------------
(* What may happen to the table of sessions.                               *)
LEMMA RevokedOK ==
    ASSUME ServerOK, NEW rows
    PROVE  Revoked(rows) \in [Tokens -> Rows]
<1> SUFFICES ASSUME NEW t \in Tokens
             PROVE  [session[t] EXCEPT !.revoked = TRUE, !.age = 0] \in Rows /\ session[t] \in Rows
  BY DEF Revoked
<1>1. session[t] \in Rows
  BY DEF ServerOK
<1>2. 0 \in 0..(Grace + 1)
  BY Constants
<1> QED  BY <1>1, <1>2 DEF Rows

LEMMA AgedOK ==
    ASSUME ServerOK, NEW n \in Nat
    PROVE  Aged(n) \in [Tokens -> Rows]
<1> SUFFICES ASSUME NEW t \in Tokens
             PROVE  /\ [session[t] EXCEPT !.age = Lesser(session[t].age + n, Grace + 1)] \in Rows
                    /\ session[t] \in Rows
  BY DEF Aged
<1>1. session[t] \in Rows
  BY DEF ServerOK
<1>2. session[t].age \in 0..(Grace + 1)
  BY <1>1 DEF Rows
<1>3. Lesser(session[t].age + n, Grace + 1) \in 0..(Grace + 1)
  BY <1>2, Constants DEF Lesser
<1> HIDE DEF Lesser
<1> QED  BY <1>1, <1>3 DEF Rows

LEMMA WaitLongOK ==
    ASSUME ServerOK, NEW month \in BOOLEAN, WaitLong(month)
    PROVE  session' \in [Tokens -> Rows] /\ account' \in Accounts
<1>1. Aged(Grace + 1) \in [Tokens -> Rows]
  BY AgedOK, Constants
<1>2. ASSUME NEW t \in Tokens
      PROVE  [Aged(Grace + 1)[t] EXCEPT !.expired = @ \/ (month /\ t \in Issued)] \in Rows
  <2> DEFINE row == Aged(Grace + 1)[t]
             x == row.expired \/ (month /\ t \in Issued)
  <2>1. row \in Rows
    BY <1>1, <1>2
  <2>2. x \in BOOLEAN
    OBVIOUS
  <2> HIDE DEF row, x
  <2>3. [row EXCEPT !.expired = x] \in Rows
    BY <2>1, <2>2 DEF Rows
  <2> QED  BY <2>3 DEF row, x
<1>3. session' \in [Tokens -> Rows]
  BY <1>2 DEF WaitLong
<1>4. account \in Accounts
  BY DEF ServerOK
<1> DEFINE y == account.lapsed \/ (month /\ account.temporary)
<1>5. y \in BOOLEAN
  OBVIOUS
<1>6. account' = [account EXCEPT !.locked = FALSE, !.lapsed = y]
  BY DEF WaitLong
<1> HIDE DEF y
<1>7. account' \in Accounts
  BY <1>4, <1>5, <1>6 DEF Accounts
<1> QED  BY <1>3, <1>7
-----------------------------------------------------------------------------
(* A successor is younger than the token it replaces, and of its family.   *)
Succeeds(new, token) ==
    /\ token \in Issued /\ new \in Issued /\ new > token
    /\ session[new].family = session[token].family
Chains ==
    \A t \in Issued : session[t].replaced # None => Succeeds(session[t].replaced, t)
Renewing ==
    \A c \in Calls : call[c].kind = "refresh" =>
        /\ call[c].at = "issue" => call[c].token \in Issued
        /\ call[c].at = "rotate" => Succeeds(call[c].new, call[c].token)

(* One statement of a handler.                                             *)
LEMMA ServeOK ==
    ASSUME ServerOK, Renewing, NEW c \in Calls, Serve(c)
    PROVE  ServerOK'
<1> DEFINE CallOK == /\ call' \in [Calls -> Requests]
                     /\ \A b \in Calls : call'[b].at \in Outcomes => call'[b].by \in Callers
<1>t. /\ account \in Accounts /\ session \in [Tokens -> Rows] /\ call[c] \in Requests
      /\ call \in [Calls -> Requests]
  BY DEF ServerOK
<1>o. /\ "ok" \in Outcomes /\ "refused" \in Outcomes /\ "limited" \in Outcomes
      /\ {"reset", "create", "reuse", "issue", "rotate", "store", "revokeAll", "fail"} \subseteq Labels
      /\ Labels \cap Outcomes = {}
  BY DEF Outcomes, Labels
<1> SUFFICES /\ account' \in Accounts /\ session' \in [Tokens -> Rows] /\ CallOK
  BY DEF ServerOK
<1>1. CASE RateLimit(c)
  BY <1>1, <1>t, <1>o, ReplyOK DEF RateLimit
<1>2. CASE ReadAccount(c)
  <2>1. UNCHANGED <<account, session>>
    BY <1>2 DEF ReadAccount
  <2>2. CASE Reply(c, "refused")
    BY <2>1, <2>2, <1>t, <1>o, ReplyOK
  <2>3. CASE Goto(c, "reset")
    BY <2>1, <2>3, <1>t, <1>o, GotoOK
  <2>4. CASE call' = [call EXCEPT ![c].at = "fail", ![c].failures = account.failures]
    <3> DEFINE r == [call[c] EXCEPT !.at = "fail", !.failures = account.failures]
    <3>1. account.failures \in Nat
      BY <1>t DEF Accounts
    <3>2. r \in Requests /\ r.at = "fail"
      BY <1>t, <1>o, <3>1 DEF Requests
    <3>3. call' = [call EXCEPT ![c] = r]
      BY <2>4, <1>t
    <3>4. CallOK
      <4> HIDE DEF r
      <4> QED  BY <3>2, <3>3, <1>o, OneCall
    <3> QED  BY <3>4, <2>1, <1>t
  <2> QED  BY <1>2, <2>2, <2>3, <2>4 DEF ReadAccount
<1>3. CASE CountFailure(c)
  <2> DEFINE n == call[c].failures + 1
             l == account.locked \/ n >= Threshold
  <2>1. n \in Nat
    BY <1>t DEF Requests
  <2>2. account' = [account EXCEPT !.failures = n, !.locked = l]
    BY <1>3 DEF CountFailure
  <2>3. l \in BOOLEAN
    OBVIOUS
  <2>4. account' \in Accounts
    <3> HIDE DEF n, l
    <3> QED  BY <2>1, <2>2, <2>3, <1>t DEF Accounts
  <2>5. Reply(c, "refused") /\ session' = session
    BY <1>3 DEF CountFailure
  <2> QED  BY <2>4, <2>5, <1>t, <1>o, ReplyOK
<1>4. CASE ResetFailures(c)
  <2>0. 0 \in Nat /\ account' = [account EXCEPT !.failures = 0, !.locked = FALSE]
    BY <1>4 DEF ResetFailures
  <2>1. account' \in Accounts
    BY <2>0, <1>t DEF Accounts
  <2> QED  BY <2>1, <1>4, <1>t, <1>o, GotoOK DEF ResetFailures
<1>5. CASE LookUpPhone(c)
  <2>1. UNCHANGED <<account, session>> /\ (Reply(c, "refused") \/ Goto(c, "create"))
    BY <1>5 DEF LookUpPhone
  <2> QED  BY <2>1, <1>t, <1>o, ReplyOK, GotoOK
<1>6. CASE CreateAccount(c)
  <2>1. account' \in Accounts
    BY <1>6, <1>t DEF CreateAccount, Accounts
  <2>2. session' = session /\ (Reply(c, "refused") \/ Goto(c, "issue"))
    BY <1>6 DEF CreateAccount
  <2> QED  BY <2>1, <2>2, <1>t, <1>o, ReplyOK, GotoOK
<1>7. CASE ReadSession(c)
  <2>1. UNCHANGED <<account, session>>
    BY <1>7 DEF ReadSession
  <2>2. \/ Reply(c, "refused") \/ Goto(c, "reuse")
        \/ /\ call[c].token \in Issued
           /\ call' = [call EXCEPT ![c].at = "issue", ![c].again = session[call[c].token].revoked]
    BY <1>7 DEF ReadSession
  <2>3. CASE /\ call[c].token \in Issued
             /\ call' = [call EXCEPT ![c].at = "issue", ![c].again = session[call[c].token].revoked]
    <3> DEFINE x == session[call[c].token].revoked
               r == [call[c] EXCEPT !.at = "issue", !.again = x]
    <3>1. x \in BOOLEAN
      BY <2>3, <1>t DEF Issued, Rows
    <3>2. r \in Requests /\ r.at = "issue"
      <4> HIDE DEF x
      <4> QED  BY <1>t, <1>o, <3>1 DEF Requests
    <3>3. call' = [call EXCEPT ![c] = r]
      BY <2>3, <1>t
    <3>4. CallOK
      <4> HIDE DEF r
      <4> QED  BY <3>2, <3>3, <1>o, OneCall
    <3> QED  BY <3>4, <2>1, <1>t
  <2> QED  BY <2>1, <2>2, <2>3, <1>t, <1>o, ReplyOK, GotoOK
<1>8. CASE RevokeFamily(c)
  BY <1>8, <1>t, <1>o, ReplyOK, RevokedOK DEF RevokeFamily
<1>9. CASE IssueSession(c)
  <2>1. PICK t \in NextToken :
          LET refreshed == call[c].kind = "refresh"
              family == IF refreshed THEN session[call[c].token].family ELSE t
              vouched == IF refreshed THEN session[call[c].token].since ELSE call[c].secret
              done == IF refreshed /\ ~call[c].again THEN "rotate" ELSE "ok"
          IN  /\ session' = [session EXCEPT ![t] =
                                [NoRow EXCEPT !.family = family, !.since = vouched]]
              /\ call' = [call EXCEPT ![c] = IF done = "ok" /\ @.by = None THEN NoCall
                                             ELSE [@ EXCEPT !.at = done, !.new = t]]
    BY <1>9 DEF IssueSession
  <2> DEFINE refreshed == call[c].kind = "refresh"
             family == IF refreshed THEN session[call[c].token].family ELSE t
             vouched == IF refreshed THEN session[call[c].token].since ELSE call[c].secret
             done == IF refreshed /\ ~call[c].again THEN "rotate" ELSE "ok"
             row == [NoRow EXCEPT !.family = family, !.since = vouched]
             r == IF done = "ok" /\ call[c].by = None THEN NoCall
                  ELSE [call[c] EXCEPT !.at = done, !.new = t]
  <2>2. session' = [session EXCEPT ![t] = row] /\ call' = [call EXCEPT ![c] = r]
    BY <2>1, <1>t
  <2>3. t \in Tokens /\ account' = account
    BY <1>9 DEF NextToken, IssueSession
  <2>5. refreshed => session[call[c].token] \in Rows
    BY <1>9, <1>t DEF IssueSession, Renewing, Issued
  <2>6. row \in Rows
    <3>1. family \in Tokens \cup {None} /\ vouched \in Passwords
      BY <2>3, <2>5, <1>t DEF Rows, Requests
    <3>2. 0 \in 0..(Grace + 1) /\ 0 \in Passwords
      BY Constants DEF Passwords
    <3> HIDE DEF family, vouched
    <3> QED  BY <3>1, <3>2 DEF NoRow, Rows
  <2>7. done \in {"rotate", "ok"}
    OBVIOUS
  <2>8. r \in Requests /\ (r.at \in Outcomes => r.by \in Callers)
    <3>1. CASE r = NoCall
      BY <3>1, NoCallIsRequest
    <3>2. CASE r = [call[c] EXCEPT !.at = done, !.new = t] /\ ~(done = "ok" /\ call[c].by = None)
      <4>1. call[c].by \in Callers \cup {None}
        BY <1>t DEF Requests
      <4> HIDE DEF done
      <4>2. r \in Requests /\ r.by = call[c].by /\ r.at = done
        BY <3>2, <2>3, <2>7, <1>t, <1>o DEF Requests
      <4> QED  BY <3>2, <4>1, <4>2, <2>7, <1>o
    <3> QED  BY <3>1, <3>2
  <2>9. CallOK
    <3> HIDE DEF r
    <3> QED  BY <2>2, <2>8, OneCall
  <2>10. session' \in [Tokens -> Rows]
    <3> HIDE DEF row
    <3> QED  BY <2>2, <2>6, <1>t
  <2> QED  BY <2>3, <2>9, <2>10, <1>t
<1>10. CASE Rotate(c)
  <2> DEFINE row == [session[call[c].token] EXCEPT !.revoked = TRUE, !.age = 0,
                                                   !.replaced = call[c].new]
  <2>1. session' = [session EXCEPT ![call[c].token] = row]
    BY <1>10, <1>t DEF Rotate
  <2>2. call[c].token \in Tokens => row \in Rows
    <3>1. 0 \in 0..(Grace + 1) /\ call[c].new \in Tokens \cup {None}
      BY <1>t, Constants DEF Requests
    <3> QED  BY <3>1, <1>t DEF Rows
  <2>3. session' \in [Tokens -> Rows]
    <3> HIDE DEF row
    <3> QED  BY <2>1, <2>2, <1>t
  <2> QED  BY <1>10, <2>3, <1>t, <1>o, ReplyOK DEF Rotate
<1>11. CASE Logout(c)
  BY <1>11, <1>t, <1>o, ReplyOK, RevokedOK DEF Logout
<1>12. CASE StorePassword(c)
  <2>1. /\ account.password < MaxPassword /\ Goto(c, "revokeAll") /\ session' = session
        /\ account' = [account EXCEPT !.password = @ + 1, !.temporary = FALSE, !.lapsed = FALSE]
    BY <1>12 DEF StorePassword
  <2>2. account.password + 1 \in Passwords
    BY <2>1, <1>t, Constants DEF Accounts, Passwords
  <2>3. account' \in Accounts
    BY <2>1, <2>2, <1>t DEF Accounts
  <2> QED  BY <2>1, <2>3, <1>t, <1>o, GotoOK
<1>14. CASE CheckPassword(c)
  <2>1. UNCHANGED <<account, session>> /\ (Reply(c, "refused") \/ Goto(c, "store"))
    BY <1>14 DEF CheckPassword
  <2> QED  BY <2>1, <1>t, <1>o, ReplyOK, GotoOK
<1>13. CASE RevokeAllSessions(c)
  BY <1>13, <1>t, <1>o, ReplyOK, RevokedOK DEF RevokeAllSessions
<1> QED
  BY <1>1, <1>2, <1>3, <1>4, <1>5, <1>6, <1>7, <1>8, <1>9, <1>10, <1>11, <1>12, <1>13, <1>14
     DEF Serve

(* Any step: the server's rows and calls stay well formed.                 *)
LEMMA ServerStep ==
    ASSUME Typed, Renewing, [Next]_vars
    PROVE  ServerOK'
<1>s. ServerOK
  BY DEF Typed
<1>t. account \in Accounts /\ session \in [Tokens -> Rows] /\ 0 \in Passwords
  BY <1>s, Constants DEF ServerOK, Passwords
<1>p. \A d \in Phones : /\ phone[d].stored \in Tokens \cup {None}
                        /\ phone[d].boot.token \in Tokens \cup {None}
                        /\ phone[d].boot.left \in Nat
  <2> TAKE d \in Phones
  <2>1. phone[d].stored \in Tokens \cup {None} /\ phone[d].boot \in Boots
    BY DEF Typed, PhoneStates
  <2>2. phone[d].boot.left \in 0..120 /\ phone[d].boot.token \in Tokens \cup {None}
    <3> DEFINE N == 0..Len(Delays)
    <3>1. phone[d].boot \in [at : {"none", "exchange", "pause"}, token : Tokens \cup {None},
                             tries : N, left : 0..120]
      BY <2>1 DEF Boots
    <3> HIDE DEF N
    <3> QED  BY <3>1
  <2> QED  BY <2>1, <2>2
<1>c. \A d \in Phones : <<d, "boot">> \in Callers /\ <<d, "renew">> \in Callers
                        /\ <<d, "user">> \in Callers
  BY PhoneAssumption DEF Flows
<1>k. {"login", "signup", "refresh", "logout", "change"} \subseteq Kinds
  BY DEF Kinds
<1>1. ASSUME NEW c \in Calls, Handle(c)  PROVE ServerOK'
  BY <1>s, <1>1, ServeOK DEF Handle
<1>2. ASSUME NEW c \in Calls, Deliver(c)  PROVE ServerOK'
  BY <1>s, <1>2, HangUpOK DEF Deliver, ServerOK
<1>3. ASSUME NEW c \in Calls, LoseAnswer(c)  PROVE ServerOK'
  BY <1>s, <1>3, HangUpOK, AgedOK, Constants DEF LoseAnswer, ServerOK, Wait
<1>4. ASSUME NEW c \in Calls, Crash(c)  PROVE ServerOK'
  <2>1. "failed" \in Outcomes
    BY DEF Outcomes
  <2> QED  BY <1>s, <1>4, <2>1, ReplyOK DEF Crash, Die, ServerOK
<1>5. ASSUME NEW c \in Calls, ChangeElsewhere(c)  PROVE ServerOK'
  <2>1. account.password \in Passwords
    BY <1>t DEF Accounts
  <2> QED  BY <1>s, <1>5, <1>k, <2>1, SendOK DEF ChangeElsewhere, ServerOK
<1>6. ASSUME NEW d \in Phones, Launch(d)  PROVE ServerOK'
  <2>1. UNCHANGED <<account, session>>
    BY <1>6 DEF Launch
  <2>2. CASE UNCHANGED call
    BY <1>s, <2>1, <2>2 DEF ServerOK
  <2>3. CASE \E c \in Calls : Send(c, <<d, "boot">>, "refresh", phone[d].stored, 0)
    BY <1>s, <1>t, <1>p, <1>c, <1>k, <2>1, <2>3, SendOK DEF ServerOK
  <2> QED  BY <1>6, <2>2, <2>3 DEF Launch
<1>7. ASSUME NEW d \in Phones, TryAgain(d)  PROVE ServerOK'
  <2>1. UNCHANGED <<account, session>>
    BY <1>7 DEF TryAgain
  <2>2. CASE UNCHANGED call
    BY <1>s, <2>1, <2>2 DEF ServerOK
  <2>3. CASE \E c \in Calls : Send(c, <<d, "boot">>, "refresh", phone[d].boot.token, 0)
    BY <1>s, <1>t, <1>p, <1>c, <1>k, <2>1, <2>3, SendOK DEF ServerOK
  <2> QED  BY <1>7, <2>2, <2>3 DEF TryAgain
<1>8. ASSUME NEW d \in Phones, Renew(d)  PROVE ServerOK'
  <2>1. UNCHANGED <<account, session>>
    BY <1>8 DEF Renew
  <2>2. CASE UNCHANGED call
    BY <1>s, <2>1, <2>2 DEF ServerOK
  <2>3. CASE \E c \in Calls : Send(c, <<d, "renew">>, "refresh", phone[d].stored, 0)
    BY <1>s, <1>t, <1>p, <1>c, <1>k, <2>1, <2>3, SendOK DEF ServerOK
  <2> QED  BY <1>8, <2>2, <2>3 DEF Renew
<1>9. ASSUME NEW d \in Phones, NEW secret \in Passwords,
             SignIn(d, secret) \/ SignUp(d) \/ SignOut(d) \/ ChangePassword(d, secret)
                \/ LeaveAfterChange(d)
      PROVE  ServerOK'
  <2>1. UNCHANGED <<account, session>>
    BY <1>9 DEF SignIn, SignUp, SignOut, ChangePassword, LeaveAfterChange, UserSends
  <2>2. \E c \in Calls, kind \in Kinds, token \in Tokens \cup {None}, word \in Passwords :
           Send(c, <<d, "user">>, kind, token, word)
    BY <1>9, <1>t, <1>p, <1>k
       DEF SignIn, SignUp, SignOut, ChangePassword, LeaveAfterChange, UserSends
  <2> QED  BY <1>s, <1>c, <2>1, <2>2, SendOK DEF ServerOK
<1>10. ASSUME NEW d \in Phones, CloseApp(d)  PROVE ServerOK'
  BY <1>s, <1>10, AbandonOK DEF CloseApp, ServerOK
<1>11. CASE Elapse
  <2>1. PICK d \in Phones : Wait(phone[d].boot.left)
    BY <1>11 DEF Elapse, Pausing
  <2> QED  BY <1>s, <1>p, <2>1, <1>11, AgedOK DEF Elapse, Wait, ServerOK
<1>12. CASE OwnerResets
  <2>1. account.password + 1 \in Passwords
    BY <1>12, <1>t, Constants DEF OwnerResets, ResetResidentPassword, Accounts, Passwords
  <2>2. 0 \in Nat
    OBVIOUS
  <2>3. account' = [account EXCEPT !.password = @ + 1, !.temporary = TRUE, !.lapsed = FALSE,
                                   !.failures = 0, !.locked = FALSE]
    BY <1>12 DEF OwnerResets, ResetResidentPassword
  <2>4. account' \in Accounts
    BY <1>t, <2>1, <2>2, <2>3 DEF Accounts
  <2> QED  BY <1>s, <1>12, <2>4, RevokedOK DEF OwnerResets, ResetResidentPassword, ServerOK
<1>13. ASSUME NEW month \in BOOLEAN, Idle(month)  PROVE ServerOK'
  BY <1>s, <1>13, WaitLongOK DEF Idle, ServerOK
<1>14. CASE UNCHANGED vars
  BY <1>s, <1>14 DEF vars, server, ServerOK
<1> QED
  BY <1>1, <1>2, <1>3, <1>4, <1>5, <1>6, <1>7, <1>8, <1>9, <1>10, <1>11, <1>12, <1>13, <1>14,
     <1>t DEF Next
-----------------------------------------------------------------------------
(* Most steps leave families and successors alone, and start no renewal.   *)
SameChains ==
    \A t \in Tokens : /\ session'[t].family = session[t].family
                      /\ session'[t].replaced = session[t].replaced
QuietCalls ==
    \A c \in Calls : (call'[c].kind = "refresh" /\ call'[c].at \in {"issue", "rotate"}) =>
        /\ call[c].kind = "refresh" /\ call[c].at = call'[c].at
        /\ call[c].token = call'[c].token /\ call[c].new = call'[c].new

LEMMA OneQuietCall ==
    ASSUME ServerOK, NEW c \in Calls, NEW r, call' = [call EXCEPT ![c] = r],
           ~(r.kind = "refresh" /\ r.at \in {"issue", "rotate"})
    PROVE  QuietCalls
BY DEF ServerOK, QuietCalls

LEMMA QuietReply ==
    ASSUME ServerOK, NEW c \in Calls, NEW outcome \in Outcomes, Reply(c, outcome)
    PROVE  QuietCalls
<1> DEFINE r == IF call[c].by = None THEN NoCall ELSE [call[c] EXCEPT !.at = outcome]
<1>1. call' = [call EXCEPT ![c] = r]
  BY DEF Reply, ServerOK
<1>2. call[c] \in Requests /\ outcome \notin {"issue", "rotate"}
  BY DEF ServerOK, Outcomes
<1>3. r.at \notin {"issue", "rotate"}
  BY <1>2 DEF NoCall, Requests
<1> HIDE DEF r
<1> QED  BY <1>1, <1>3, OneQuietCall

LEMMA QuietGoto ==
    ASSUME ServerOK, NEW c \in Calls, NEW label, Goto(c, label),
           call[c].kind # "refresh" \/ label \notin {"issue", "rotate"}
    PROVE  QuietCalls
<1> DEFINE r == [call[c] EXCEPT !.at = label]
<1>1. call' = [call EXCEPT ![c] = r] /\ call[c] \in Requests
  BY DEF Goto, ServerOK
<1>2. r.kind = call[c].kind /\ r.at = label
  BY <1>1 DEF Requests
<1> HIDE DEF r
<1> QED  BY <1>1, <1>2, OneQuietCall

LEMMA QuietSend ==
    ASSUME ServerOK, NEW c \in Calls, NEW by, NEW kind, NEW token, NEW secret,
           Send(c, by, kind, token, secret)
    PROVE  QuietCalls
<1> DEFINE r == [NoCall EXCEPT !.kind = kind, !.by = by, !.token = token,
                               !.secret = secret, !.at = "sent"]
<1>1. call' = [call EXCEPT ![c] = r] /\ r.at = "sent"
  BY DEF Send, NoCall
<1> HIDE DEF r
<1> QED  BY <1>1, OneQuietCall

LEMMA QuietHangUp ==
    ASSUME ServerOK, NEW c \in Calls, TakeAnswer(c) \/ HangUp(c)
    PROVE  QuietCalls
<1>1. CASE call' = [call EXCEPT ![c] = NoCall]
  <2>1. NoCall.kind # "refresh"
    BY DEF NoCall
  <2> QED  BY <1>1, <2>1, OneQuietCall
<1>2. CASE call' = [call EXCEPT ![c].by = None]
  <2> SUFFICES ASSUME NEW b \in Calls
               PROVE  /\ call'[b].kind = call[b].kind /\ call'[b].at = call[b].at
                      /\ call'[b].token = call[b].token /\ call'[b].new = call[b].new
    BY DEF QuietCalls
  <2>1. call[b] \in Requests
    BY DEF ServerOK
  <2>2. /\ call'[b].kind = call[b].kind /\ call'[b].at = call[b].at
        /\ call'[b].token = call[b].token /\ call'[b].new = call[b].new
    BY <1>2, <2>1 DEF ServerOK, Requests
  <2> QED  BY <2>2
<1> QED  BY <1>1, <1>2 DEF TakeAnswer, HangUp

LEMMA QuietAbandon ==
    ASSUME ServerOK, NEW calls, Abandon(calls)
    PROVE  QuietCalls
<1>1. NoCall.kind # "refresh"
  BY DEF NoCall
<1> QED  BY <1>1, Abandoned DEF QuietCalls

LEMMA QuietRows ==
    ASSUME ServerOK, \/ UNCHANGED session
                     \/ \E rows : session' = Revoked(rows)
                     \/ \E n \in Nat : Wait(n)
                     \/ \E month \in BOOLEAN : WaitLong(month)
    PROVE  SameChains
<1> SUFFICES ASSUME NEW t \in Tokens
             PROVE  /\ session'[t].family = session[t].family
                    /\ session'[t].replaced = session[t].replaced
  BY DEF SameChains
<1>1. session \in [Tokens -> Rows] /\ session[t] \in Rows
  BY DEF ServerOK
<1>2. CASE UNCHANGED session
  BY <1>2
<1>3. CASE \E rows : session' = Revoked(rows)
  BY <1>1, <1>3 DEF Revoked, Rows
<1>4. CASE \E n \in Nat : Wait(n)
  <2>1. PICK n \in Nat : session' = Aged(n)
    BY <1>4 DEF Wait
  <2> QED  BY <1>1, <2>1 DEF Aged, Rows
<1>5. CASE \E month \in BOOLEAN : WaitLong(month)
  <2> DEFINE row == Aged(Grace + 1)[t]
  <2>1. PICK month \in BOOLEAN :
          session'[t] = [row EXCEPT !.expired = @ \/ (month /\ t \in Issued)]
    BY <1>5 DEF WaitLong
  <2>2. row \in Rows
    BY AgedOK, Constants
  <2>3. row.family = session[t].family /\ row.replaced = session[t].replaced
    BY <1>1 DEF Aged, Rows
  <2>4. session'[t].family = row.family /\ session'[t].replaced = row.replaced
    <3> HIDE DEF row
    <3> QED  BY <2>1, <2>2 DEF Rows
  <2> QED  BY <2>3, <2>4
<1> QED  BY <1>2, <1>3, <1>4, <1>5

LEMMA StepKinds ==
    ASSUME Typed, [Next]_vars
    PROVE  \/ SameChains /\ QuietCalls
           \/ \E c \in Calls : ReadSession(c) \/ IssueSession(c) \/ Rotate(c)
<1>s. ServerOK
  BY DEF Typed
<1>o. {"ok", "refused", "limited", "failed"} \subseteq Outcomes
  BY DEF Outcomes
<1>r. \A d \in Phones : phone[d].boot.left \in Nat
  <2> TAKE d \in Phones
  <2>1. phone[d].boot \in Boots
    BY DEF Typed, PhoneStates
  <2> DEFINE N == 0..Len(Delays)
  <2>2. phone[d].boot \in [at : {"none", "exchange", "pause"}, token : Tokens \cup {None},
                           tries : N, left : 0..120]
    BY <2>1 DEF Boots
  <2> HIDE DEF N
  <2>3. phone[d].boot.left \in 0..120
    BY <2>2
  <2> QED  BY <2>3
<1>q. UNCHANGED call => QuietCalls
  BY DEF QuietCalls
<1>1. ASSUME NEW c \in Calls, Serve(c), ~ReadSession(c), ~IssueSession(c), ~Rotate(c)
      PROVE  SameChains /\ QuietCalls
  <2>1. CASE RateLimit(c)
    BY <1>s, <1>o, <2>1, QuietReply, QuietRows DEF RateLimit
  <2>2. CASE ReadAccount(c)
    <3>1. CASE call' = [call EXCEPT ![c].at = "fail", ![c].failures = account.failures]
      <4> DEFINE r == [call[c] EXCEPT !.at = "fail", !.failures = account.failures]
      <4>1. call' = [call EXCEPT ![c] = r] /\ r.at = "fail"
        BY <1>s, <3>1 DEF ServerOK, Requests
      <4> HIDE DEF r
      <4>2. QuietCalls
        BY <1>s, <4>1, OneQuietCall
      <4> QED  BY <1>s, <2>2, <4>2, QuietRows DEF ReadAccount
    <3>2. (Reply(c, "refused") \/ Goto(c, "reset")) => QuietCalls
      BY <1>s, <1>o, QuietReply, QuietGoto
    <3> QED  BY <1>s, <2>2, <3>1, <3>2, QuietRows DEF ReadAccount
  <2>3. CASE CountFailure(c)
    BY <1>s, <1>o, <2>3, QuietReply, QuietRows DEF CountFailure
  <2>4. CASE ResetFailures(c)
    BY <1>s, <2>4, QuietGoto, QuietRows DEF ResetFailures, At
  <2>5. CASE LookUpPhone(c)
    BY <1>s, <1>o, <2>5, QuietReply, QuietGoto, QuietRows DEF LookUpPhone
  <2>6. CASE CreateAccount(c)
    BY <1>s, <1>o, <2>6, QuietReply, QuietGoto, QuietRows DEF CreateAccount, At
  <2>7. CASE RevokeFamily(c)
    BY <1>s, <1>o, <2>7, QuietReply, QuietRows DEF RevokeFamily
  <2>8. CASE Logout(c)
    BY <1>s, <1>o, <2>8, QuietReply, QuietRows DEF Logout
  <2>9. CASE CheckPassword(c) \/ StorePassword(c)
    BY <1>s, <1>o, <2>9, QuietReply, QuietGoto, QuietRows DEF CheckPassword, StorePassword
  <2>10. CASE RevokeAllSessions(c)
    BY <1>s, <1>o, <2>10, QuietReply, QuietRows DEF RevokeAllSessions
  <2> QED
    BY <1>1, <2>1, <2>2, <2>3, <2>4, <2>5, <2>6, <2>7, <2>8, <2>9, <2>10 DEF Serve
<1>2. ASSUME NEW c \in Calls, Deliver(c) \/ LoseAnswer(c)
      PROVE  SameChains /\ QuietCalls
  <2>1. UNCHANGED session \/ \E n \in Nat : Wait(n)
    BY <1>2, Constants DEF Deliver, LoseAnswer
  <2>2. TakeAnswer(c) \/ HangUp(c)
    BY <1>2 DEF Deliver, LoseAnswer
  <2> QED  BY <1>s, <2>1, <2>2, QuietHangUp, QuietRows
<1>3. ASSUME NEW c \in Calls, Crash(c)  PROVE SameChains /\ QuietCalls
  BY <1>s, <1>o, <1>3, QuietReply, QuietRows DEF Crash, Die
<1>4. ASSUME NEW c \in Calls, ChangeElsewhere(c)  PROVE SameChains /\ QuietCalls
  BY <1>s, <1>4, QuietSend, QuietRows DEF ChangeElsewhere
<1>5. ASSUME NEW d \in Phones, NEW secret \in Passwords,
             \/ Launch(d) \/ TryAgain(d) \/ Renew(d) \/ SignUp(d) \/ SignOut(d)
             \/ LeaveAfterChange(d) \/ SignIn(d, secret) \/ ChangePassword(d, secret)
      PROVE  SameChains /\ QuietCalls
  <2>1. UNCHANGED session
    BY <1>5 DEF Launch, TryAgain, Renew, SignUp, SignOut, LeaveAfterChange, SignIn,
                ChangePassword, UserSends
  <2>2. \/ UNCHANGED call
        \/ \E c \in Calls : \E by, kind, token, word : Send(c, by, kind, token, word)
    BY <1>5 DEF Launch, TryAgain, Renew, SignUp, SignOut, LeaveAfterChange, SignIn,
                ChangePassword, UserSends
  <2>3. QuietCalls
    BY <1>s, <1>q, <2>2, QuietSend
  <2> QED  BY <1>s, <2>1, <2>3, QuietRows
<1>6. ASSUME NEW d \in Phones, CloseApp(d)  PROVE SameChains /\ QuietCalls
  BY <1>s, <1>6, QuietAbandon, QuietRows DEF CloseApp
<1>7. CASE Elapse
  <2>1. PICK d \in Phones : Wait(phone[d].boot.left)
    BY <1>7 DEF Elapse, Pausing
  <2> QED  BY <1>s, <1>7, <1>r, <1>q, <2>1, QuietRows DEF Elapse
<1>8. CASE OwnerResets
  BY <1>s, <1>8, <1>q, QuietRows DEF OwnerResets, ResetResidentPassword
<1>9. ASSUME NEW month \in BOOLEAN, Idle(month)  PROVE SameChains /\ QuietCalls
  BY <1>s, <1>9, <1>q, QuietRows DEF Idle
<1>10. CASE UNCHANGED vars
  BY <1>s, <1>10, <1>q, QuietRows DEF vars, server
<1>11. 0 \in Passwords
  BY Constants DEF Passwords
<1> QED
  BY <1>1, <1>2, <1>3, <1>4, <1>5, <1>6, <1>7, <1>8, <1>9, <1>10, <1>11 DEF Next, Handle

LEMMA SameSuccession ==
    ASSUME SameChains
    PROVE  /\ Issued' = Issued
           /\ \A t, u \in Tokens : Succeeds(t, u) => Succeeds(t, u)'
BY DEF SameChains, Issued, Succeeds

LEMMA ChainsStep ==
    ASSUME Typed, Chains, Renewing, [Next]_vars
    PROVE  Chains' /\ Renewing'
<1>s. ServerOK /\ session \in [Tokens -> Rows] /\ call \in [Calls -> Requests]
  BY DEF Typed, ServerOK
<1>1. CASE SameChains /\ QuietCalls
  <2>1. Chains'
    BY <1>1, <1>s, SameSuccession DEF Chains, SameChains, Issued, Succeeds
  <2>2. Renewing'
    <3> SUFFICES ASSUME NEW c \in Calls, call'[c].kind = "refresh",
                        call'[c].at \in {"issue", "rotate"}
                 PROVE  /\ call'[c].at = "issue" => call'[c].token \in Issued'
                        /\ call'[c].at = "rotate" => Succeeds(call[c].new, call[c].token)'
      BY DEF Renewing
    <3>1. /\ call[c].kind = "refresh" /\ call[c].at = call'[c].at
          /\ call[c].token = call'[c].token /\ call[c].new = call'[c].new
      BY <1>1 DEF QuietCalls
    <3>2. /\ call[c].at = "issue" => call[c].token \in Issued
          /\ call[c].at = "rotate" => Succeeds(call[c].new, call[c].token)
      BY <3>1 DEF Renewing
    <3> QED  BY <1>1, <3>1, <3>2, SameSuccession DEF SameChains, Succeeds, Issued
  <2> QED  BY <2>1, <2>2
<1>2. ASSUME NEW c \in Calls, ReadSession(c)  PROVE Chains' /\ Renewing'
  <2>1. SameChains
    BY <1>s, <1>2, QuietRows DEF ReadSession
  <2>2. Chains'
    BY <2>1, <1>s, SameSuccession DEF Chains, SameChains, Issued, Succeeds
  <2>3. \/ QuietCalls
        \/ /\ call[c].token \in Issued
           /\ call' = [call EXCEPT ![c].at = "issue", ![c].again = session[call[c].token].revoked]
    <3>1. "refused" \in Outcomes
      BY DEF Outcomes
    <3> QED  BY <1>2, <1>s, <3>1, QuietReply, QuietGoto DEF ReadSession
  <2>4. ASSUME call[c].token \in Issued,
               call' = [call EXCEPT ![c].at = "issue", ![c].again = session[call[c].token].revoked]
        PROVE  Renewing'
    <3> SUFFICES ASSUME NEW b \in Calls, call'[b].kind = "refresh"
                 PROVE  /\ call'[b].at = "issue" => call'[b].token \in Issued'
                        /\ call'[b].at = "rotate" => Succeeds(call[b].new, call[b].token)'
      BY DEF Renewing
    <3>1. call[b] \in Requests
      BY <1>s
    <3>2. CASE b = c
      BY <2>4, <3>1, <3>2, <2>1, <1>s, SameSuccession DEF Requests
    <3>3. CASE b # c
      <4>1. call'[b] = call[b]
        BY <2>4, <3>3, <1>s
      <4> QED  BY <4>1, <2>1, SameSuccession DEF Renewing, SameChains, Succeeds, Issued
    <3> QED  BY <3>2, <3>3
  <2>5. QuietCalls => Chains' /\ Renewing'
    BY <2>1, <1>1
  <2> QED  BY <2>2, <2>3, <2>4, <2>5
<1>3. ASSUME NEW c \in Calls, IssueSession(c)  PROVE Chains' /\ Renewing'
  <2> DEFINE refreshed == call[c].kind = "refresh"
  <2>1. PICK t \in NextToken :
          LET family == IF refreshed THEN session[call[c].token].family ELSE t
              vouched == IF refreshed THEN session[call[c].token].since ELSE call[c].secret
              done == IF refreshed /\ ~call[c].again THEN "rotate" ELSE "ok"
          IN  /\ session' = [session EXCEPT ![t] =
                                [NoRow EXCEPT !.family = family, !.since = vouched]]
              /\ call' = [call EXCEPT ![c] = IF done = "ok" /\ @.by = None THEN NoCall
                                             ELSE [@ EXCEPT !.at = done, !.new = t]]
    BY <1>3 DEF IssueSession
  <2>2. t \in Tokens /\ t \notin Issued /\ \A u \in Issued : t > u
    <3>1. t \in 1..MaxToken /\ Issued = 1..(t - 1)
      BY DEF NextToken, Tokens
    <3> QED  BY <3>1, Constants DEF Tokens
  <2>3. refreshed => call[c].token \in Issued /\ call[c].token \in Tokens
    BY <1>3 DEF IssueSession, Renewing, Issued
  <2>4. /\ session'[t].family = IF refreshed THEN session[call[c].token].family ELSE t
        /\ session'[t].replaced = None
        /\ \A u \in Tokens \ {t} : session'[u] = session[u]
    BY <2>1, <2>2, <1>s DEF NoRow
  <2>5. Issued' = Issued \cup {t}
    <3>1. session'[t].family # None
      BY <2>2, <2>3, <2>4, Constants DEF Issued
    <3> QED  BY <3>1, <2>2, <2>4 DEF Issued
  <2>6. \A u \in Issued : session'[u] = session[u] /\ u \in Tokens
    BY <2>2, <2>4 DEF Issued
  <2>7. \A u, v : Succeeds(u, v) => Succeeds(u, v)'
    BY <2>5, <2>6 DEF Succeeds
  <2>8. Chains'
    <3> SUFFICES ASSUME NEW u \in Issued', session'[u].replaced # None
                 PROVE  Succeeds(session[u].replaced, u)'
      BY DEF Chains
    <3>1. u \in Issued
      BY <2>4, <2>5
    <3>2. session'[u] = session[u] /\ Succeeds(session[u].replaced, u)
      BY <3>1, <2>6 DEF Chains
    <3>3. session'[u].replaced \in Issued /\ session'[u].replaced > u
          /\ session[session'[u].replaced].family = session[u].family
      BY <3>2 DEF Succeeds
    <3> QED  BY <3>1, <3>2, <3>3, <2>5, <2>6 DEF Succeeds
  <2>9. Renewing'
    <3> SUFFICES ASSUME NEW b \in Calls, call'[b].kind = "refresh"
                 PROVE  /\ call'[b].at = "issue" => call'[b].token \in Issued'
                        /\ call'[b].at = "rotate" => Succeeds(call[b].new, call[b].token)'
      BY DEF Renewing
    <3>1. CASE b # c
      <4>1. call'[b] = call[b]
        BY <2>1, <3>1, <1>s
      <4>2. /\ call[b].at = "issue" => call[b].token \in Issued
            /\ call[b].at = "rotate" => Succeeds(call[b].new, call[b].token)
        BY <4>1 DEF Renewing
      <4> QED  BY <4>1, <4>2, <2>5, <2>6 DEF Succeeds
    <3>2. CASE b = c
      <4> DEFINE done == IF refreshed /\ ~call[c].again THEN "rotate" ELSE "ok"
                 r == [call[c] EXCEPT !.at = done, !.new = t]
      <4>1. call[c] \in Requests
        BY <1>s
      <4>2. call'[c] = r /\ r.kind = call[c].kind
        <5>1. NoCall.kind # "refresh"
          BY DEF NoCall
        <5>2. call'[c] = IF done = "ok" /\ call[c].by = None THEN NoCall ELSE r
          BY <2>1, <1>s
        <5>3. r.kind = call[c].kind
          BY <4>1 DEF Requests
        <5> QED  BY <5>1, <5>2, <5>3, <3>2
      <4>3. r.at = done /\ r.new = t /\ r.token = call[c].token
        BY <4>1 DEF Requests
      <4>4. refreshed
        BY <4>2, <3>2
      <4>5. session'[t].family = session'[call[c].token].family
        BY <4>4, <2>3, <2>4, <2>6
      <4> HIDE DEF r
      <4> QED  BY <3>2, <4>2, <4>3, <4>4, <4>5, <2>2, <2>3, <2>5 DEF Succeeds
    <3> QED  BY <3>1, <3>2
  <2> QED  BY <2>8, <2>9
<1>4. ASSUME NEW c \in Calls, Rotate(c)  PROVE Chains' /\ Renewing'
  <2> DEFINE old == call[c].token
             row == [session[old] EXCEPT !.revoked = TRUE, !.age = 0, !.replaced = call[c].new]
  <2>1. session' = [session EXCEPT ![old] = row]
    BY <1>4, <1>s DEF Rotate
  <2>2. Succeeds(call[c].new, old)
    BY <1>4 DEF Rotate, At, Renewing
  <2>3. old \in Tokens /\ session[old] \in Rows
    BY <2>2, <1>s DEF Succeeds, Issued
  <2>4. row.family = session[old].family /\ row.replaced = call[c].new
    BY <2>3 DEF Rows
  <2>5. /\ session'[old].replaced = call[c].new
        /\ \A u \in Tokens : session'[u].family = session[u].family
        /\ \A u \in Tokens \ {old} : session'[u] = session[u]
    <3> HIDE DEF row
    <3> QED  BY <2>1, <2>3, <2>4, <1>s
  <2>6. Issued' = Issued
    BY <2>5 DEF Issued
  <2>7. Chains'
    <3> SUFFICES ASSUME NEW u \in Issued, session'[u].replaced # None
                 PROVE  Succeeds(session[u].replaced, u)'
      BY <2>6 DEF Chains
    <3>1. u \in Tokens
      BY DEF Issued
    <3>2. Succeeds(session'[u].replaced, u)
      BY <3>1, <2>2, <2>5 DEF Chains
    <3>3. /\ session'[u].replaced \in Issued /\ session'[u].replaced > u
          /\ session[session'[u].replaced].family = session[u].family
          /\ session'[u].replaced \in Tokens
      BY <3>2 DEF Succeeds, Issued
    <3> QED  BY <3>1, <3>3, <2>5, <2>6 DEF Succeeds
  <2>8. QuietCalls
    <3>1. "ok" \in Outcomes
      BY DEF Outcomes
    <3> QED  BY <1>4, <1>s, <3>1, QuietReply DEF Rotate
  <2>9. Renewing'
    <3> SUFFICES ASSUME NEW b \in Calls, call'[b].kind = "refresh",
                        call'[b].at \in {"issue", "rotate"}
                 PROVE  /\ call'[b].at = "issue" => call'[b].token \in Issued'
                        /\ call'[b].at = "rotate" => Succeeds(call[b].new, call[b].token)'
      BY DEF Renewing
    <3>1. /\ call[b].kind = "refresh" /\ call[b].at = call'[b].at
          /\ call[b].token = call'[b].token /\ call[b].new = call'[b].new
      BY <2>8 DEF QuietCalls
    <3>2. /\ call[b].at = "issue" => call[b].token \in Issued
          /\ call[b].at = "rotate" => /\ call[b].token \in Issued /\ call[b].new \in Issued
                                      /\ call[b].new > call[b].token
                                      /\ session[call[b].new].family = session[call[b].token].family
      BY <3>1 DEF Renewing, Succeeds
    <3>3. \A u \in Issued : session'[u].family = session[u].family
      BY <2>5 DEF Issued
    <3> QED  BY <3>1, <3>2, <3>3, <2>6 DEF Succeeds
  <2> QED  BY <2>7, <2>9
<1> QED  BY <1>1, <1>2, <1>3, <1>4, StepKinds
-----------------------------------------------------------------------------
(* What the app makes of an answer.                                        *)
LEMMA PostponedOK ==
    ASSUME NEW boot \in Boots
    PROVE  Postponed(boot) \in Boots /\ NoBoot \in Boots
<1>1. Len(Delays) = 6 /\ \A i \in 1..6 : Delays[i] \in 0..120
  BY DEF Delays
<1> DEFINE N == 0..Len(Delays)
<1>2. N = 0..6
  BY <1>1
<1>3. Boots = [at : {"none", "exchange", "pause"}, token : Tokens \cup {None},
               tries : N, left : 0..120]
  BY DEF Boots
<1> HIDE DEF N
<1>4. boot.tries \in 0..6
  BY <1>2, <1>3
<1>5. NoBoot \in Boots
  BY <1>2, <1>3 DEF NoBoot
<1>6. CASE boot.tries < Len(Delays)
  <2> DEFINE n == boot.tries + 1
             left == Delays[n]
  <2>1. n \in N /\ left \in 0..120
    BY <1>1, <1>2, <1>4, <1>6
  <2>2. Postponed(boot) = [boot EXCEPT !.at = "pause", !.tries = n, !.left = left]
    BY <1>6, <1>3 DEF Postponed
  <2> HIDE DEF n, left
  <2> QED  BY <2>1, <2>2, <1>3, <1>5
<1> QED  BY <1>5, <1>6 DEF Postponed

LEMMA AppliedOK ==
    ASSUME NEW ph \in PhoneStates, NEW token \in Tokens \cup {None}
    PROVE  Applied(ph, token) \in PhoneStates /\ Dropped(ph) \in PhoneStates
BY DEF Applied, Dropped, PhoneStates

LEMMA BootAnsweredOK ==
    ASSUME NEW ph \in PhoneStates, NEW outcome \in Outcomes, NEW token \in Tokens \cup {None}
    PROVE  BootAnswered(ph, outcome, token) \in PhoneStates
<1> DEFINE tries == ph.boot.tries
           stop == [ph EXCEPT !.boot = NoBoot]
           next == Postponed(ph.boot)
           shown == IF tries = 1 THEN "signedOut" ELSE ph.status
           access == IF tries = 1 THEN "none" ELSE ph.access
           guest == [ph EXCEPT !.boot = next, !.status = shown, !.access = access]
<1>1. ph.boot \in Boots /\ next \in Boots /\ NoBoot \in Boots
  BY PostponedOK DEF PhoneStates
<1>2. stop \in PhoneStates
  BY <1>1 DEF PhoneStates
<1>3. guest \in PhoneStates
  <2>1. /\ shown \in {"closed", "restoring", "signedOut", "signedIn"}
        /\ access \in {"none", "good", "stale"}
    BY DEF PhoneStates
  <2> HIDE DEF next, shown, access
  <2> QED  BY <1>1, <2>1 DEF PhoneStates
<1>4. [stop EXCEPT !.stored = None] \in PhoneStates
  <2> HIDE DEF stop
  <2> QED  BY <1>2 DEF PhoneStates
<1>5. Applied(stop, token) \in PhoneStates /\ Dropped(stop) \in PhoneStates
  BY <1>2, AppliedOK
<1>6. BootAnswered(ph, outcome, token) \in
        {stop, guest, Applied(stop, token), Dropped(stop), [stop EXCEPT !.stored = None]}
  <2>1. guest = [ph EXCEPT !.boot = Postponed(@),
                           !.status = IF tries = 1 THEN "signedOut" ELSE @,
                           !.access = IF tries = 1 THEN "none" ELSE @]
    BY DEF PhoneStates
  <2> DEFINE applied == Applied(stop, token)
             dropped == Dropped(stop)
             cleared == [stop EXCEPT !.stored = None]
  <2>2. BootAnswered(ph, outcome, token) =
          CASE outcome = "ok" -> IF ~Quiet(tries) \/ ph.status = "signedOut"
                                 THEN applied ELSE stop
            [] outcome = "refused" -> dropped
            [] outcome = "limited" ->
                 IF tries = 1 THEN guest
                 ELSE IF tries = 0 THEN dropped ELSE cleared
            [] outcome = "failed" -> guest
    BY <2>1 DEF BootAnswered
  <2>3. outcome \in {"ok", "refused", "failed", "limited"}
    BY DEF Outcomes
  <2> HIDE DEF stop, guest, applied, dropped, cleared, tries
  <2>4. BootAnswered(ph, outcome, token) \in {stop, guest, applied, dropped, cleared}
    BY <2>2, <2>3
  <2> QED  BY <2>4 DEF applied, dropped, cleared
<1> HIDE DEF stop, guest
<1> QED  BY <1>2, <1>3, <1>4, <1>5, <1>6

LEMMA RenewAnsweredOK ==
    ASSUME NEW ph \in PhoneStates, NEW outcome, NEW token \in Tokens \cup {None}
    PROVE  RenewAnswered(ph, outcome, token) \in PhoneStates
<1>1. [ph EXCEPT !.access = "good", !.stored = token] \in PhoneStates
  BY DEF PhoneStates
<1> QED  BY <1>1, AppliedOK DEF RenewAnswered

LEMMA UserAnsweredOK ==
    ASSUME NEW ph \in PhoneStates, NEW outcome, NEW token \in Tokens \cup {None}
    PROVE  UserAnswered(ph, outcome, token) \in PhoneStates
<1> DEFINE idle == [ph EXCEPT !.user = "idle"]
           left == [ph EXCEPT !.user = IF outcome = "ok" THEN "leave" ELSE "idle"]
<1>1. idle \in PhoneStates /\ left \in PhoneStates
  BY DEF PhoneStates
<1>2. Applied(idle, token) \in PhoneStates /\ Dropped(idle) \in PhoneStates
  BY <1>1, AppliedOK
<1>3. CASE ph.user = "in"
  BY <1>1, <1>2, <1>3 DEF UserAnswered
<1>4. CASE ph.user = "change"
  BY <1>1, <1>4 DEF UserAnswered
<1>5. CASE ph.user = "out"
  BY <1>2, <1>5 DEF UserAnswered
<1>6. CASE ph.user \notin {"in", "change", "out"}
  BY <1>6 DEF UserAnswered
<1> QED  BY <1>3, <1>4, <1>5, <1>6

LEMMA AnsweredOK ==
    ASSUME phone \in [Phones -> PhoneStates], NEW by \in Callers, NEW outcome \in Outcomes,
           NEW token \in Tokens \cup {None}, Answered(by, outcome, token)
    PROVE  phone' \in [Phones -> PhoneStates]
<1>1. by[1] \in Phones /\ by[2] \in {"boot", "renew", "user"}
  BY PhoneAssumption DEF Flows
<1>2. phone[by[1]] \in PhoneStates
  BY <1>1
<1> DEFINE ph == phone[by[1]]
           r == CASE by[2] = "boot" -> BootAnswered(ph, outcome, token)
                  [] by[2] = "renew" -> RenewAnswered(ph, outcome, token)
                  [] by[2] = "user" -> UserAnswered(ph, outcome, token)
<1>3. r \in PhoneStates
  BY <1>1, <1>2, BootAnsweredOK, RenewAnsweredOK, UserAnsweredOK
<1>4. phone' = [phone EXCEPT ![by[1]] = r]
  BY DEF Answered
<1> HIDE DEF r
<1> QED  BY <1>1, <1>3, <1>4

(* What was seen stays seen.                                               *)
LEMMA SeenGrows ==
    ASSUME [Next]_vars
    PROVE  seen' \in {seen, seen \cup {"late"}, seen \cup {"limit"}}
<1>1. ASSUME NEW c \in Calls,
             Handle(c) \/ Deliver(c) \/ LoseAnswer(c) \/ Crash(c) \/ ChangeElsewhere(c)
      PROVE  seen' \in {seen, seen \cup {"late"}, seen \cup {"limit"}}
  BY <1>1 DEF Handle, Deliver, LoseAnswer, Crash, ChangeElsewhere, Noted
<1>2. ASSUME NEW d \in Phones, NEW secret,
             \/ Launch(d) \/ TryAgain(d) \/ Renew(d) \/ SignUp(d) \/ SignOut(d)
             \/ LeaveAfterChange(d) \/ CloseApp(d) \/ SignIn(d, secret) \/ ChangePassword(d, secret)
      PROVE  seen' = seen
  BY <1>2 DEF Launch, TryAgain, Renew, SignUp, SignOut, LeaveAfterChange, CloseApp, SignIn,
              ChangePassword, UserSends
<1>3. Elapse \/ OwnerResets \/ UNCHANGED vars \/ (\E month \in BOOLEAN : Idle(month))
         => seen' \in {seen, seen \cup {"late"}, seen \cup {"limit"}}
  BY DEF Elapse, OwnerResets, Idle, Noted, vars
<1> QED  BY <1>1, <1>2, <1>3 DEF Next

LEMMA PhoneStep ==
    ASSUME Typed, [Next]_vars
    PROVE  /\ phone' \in [Phones -> PhoneStates] /\ losses' \in Nat
           /\ seen' \subseteq {"late", "limit"}
<1>t. /\ phone \in [Phones -> PhoneStates] /\ losses \in Nat
      /\ call \in [Calls -> Requests]
      /\ \A c \in Calls : call[c].at \in Outcomes => call[c].by \in Callers
  BY DEF Typed, ServerOK
<1>b. \A d \in Phones : phone[d].boot \in Boots
  BY <1>t DEF PhoneStates
<1>n. /\ NoBoot \in Boots
      /\ \A boot \in Boots : boot.left \in 0..120
      /\ \A boot \in Boots, left \in 0..120 : [boot EXCEPT !.left = left] \in Boots
      /\ \A boot \in Boots : [boot EXCEPT !.at = "exchange"] \in Boots
      /\ \A token \in Tokens \cup {None} :
            [NoBoot EXCEPT !.at = "exchange", !.token = token] \in Boots
  <2> DEFINE N == 0..Len(Delays)
  <2>1. Boots = [at : {"none", "exchange", "pause"}, token : Tokens \cup {None},
                 tries : N, left : 0..120]
    BY DEF Boots
  <2>2. 0 \in N
    BY DEF Delays
  <2> HIDE DEF N
  <2>3. NoBoot \in Boots
    BY <2>1, <2>2 DEF NoBoot
  <2>4. \A boot \in Boots : boot.left \in 0..120
    BY <2>1
  <2>5. ASSUME NEW boot \in Boots, NEW left \in 0..120
        PROVE  [boot EXCEPT !.left = left] \in Boots
    BY <2>1, <2>5
  <2>6. ASSUME NEW boot \in Boots  PROVE [boot EXCEPT !.at = "exchange"] \in Boots
    BY <2>1, <2>6
  <2>7. ASSUME NEW token \in Tokens \cup {None}
        PROVE  [NoBoot EXCEPT !.at = "exchange", !.token = token] \in Boots
    BY <2>1, <2>3, <2>7
  <2> QED  BY <2>3, <2>4, <2>5, <2>6, <2>7
<1>1. ASSUME UNCHANGED <<phone, losses>>
      PROVE  phone' \in [Phones -> PhoneStates] /\ losses' \in Nat
  BY <1>1, <1>t
<1>2. ASSUME NEW c \in Calls, Deliver(c)
      PROVE  phone' \in [Phones -> PhoneStates] /\ losses' \in Nat
  <2>1. /\ call[c].at \in Outcomes /\ call[c].by \in Callers
        /\ call[c].new \in Tokens \cup {None}
    BY <1>2, <1>t DEF Deliver, TakeAnswer, Requests
  <2> QED  BY <1>2, <1>t, <2>1, AnsweredOK DEF Deliver
<1>3. ASSUME NEW c \in Calls, LoseAnswer(c)
      PROVE  phone' \in [Phones -> PhoneStates] /\ losses' \in Nat
  <2>1. call[c].by \in Callers /\ "failed" \in Outcomes
    BY <1>3, <1>t DEF LoseAnswer, HangUp, Requests, Outcomes
  <2>2. Answered(call[c].by, "failed", None) /\ losses' = losses + 1
    BY <1>3 DEF LoseAnswer
  <2>3. phone' \in [Phones -> PhoneStates]
    BY <1>t, <2>1, <2>2, AnsweredOK
  <2> QED  BY <1>t, <2>2, <2>3
<1>4. ASSUME NEW c \in Calls, Crash(c)
      PROVE  phone' \in [Phones -> PhoneStates] /\ losses' \in Nat
  BY <1>4, <1>t DEF Crash
<1>5. ASSUME NEW d \in Phones, Launch(d)
      PROVE  phone' \in [Phones -> PhoneStates] /\ losses' \in Nat
  <2> DEFINE boot == [NoBoot EXCEPT !.at = "exchange", !.token = phone[d].stored]
             asked == [phone[d] EXCEPT !.status = "restoring", !.boot = boot]
             out == [phone[d] EXCEPT !.status = "signedOut"]
  <2>1. boot \in Boots
    BY <1>n, <1>t DEF PhoneStates
  <2>2. asked \in PhoneStates /\ out \in PhoneStates
    <3> HIDE DEF boot
    <3> QED  BY <1>t, <2>1 DEF PhoneStates
  <2>3. \/ phone' = [phone EXCEPT ![d] = asked]
        \/ phone' = [phone EXCEPT ![d] = out]
    BY <1>5, <1>t DEF Launch
  <2>4. losses' = losses
    BY <1>5 DEF Launch
  <2> HIDE DEF asked, out
  <2> QED  BY <1>t, <2>2, <2>3, <2>4
<1>6. ASSUME NEW d \in Phones, TryAgain(d)
      PROVE  phone' \in [Phones -> PhoneStates] /\ losses' \in Nat
  <2> DEFINE boot == [phone[d].boot EXCEPT !.at = "exchange"]
             asked == [phone[d] EXCEPT !.boot = boot]
             stop == [phone[d] EXCEPT !.boot = NoBoot]
  <2>1. boot \in Boots
    BY <1>n, <1>b
  <2>2. asked \in PhoneStates /\ stop \in PhoneStates
    <3> HIDE DEF boot
    <3> QED  BY <1>t, <1>n, <2>1 DEF PhoneStates
  <2>3. \/ phone' = [phone EXCEPT ![d] = asked]
        \/ phone' = [phone EXCEPT ![d] = stop]
    BY <1>6, <1>t DEF TryAgain
  <2>4. losses' = losses
    BY <1>6 DEF TryAgain
  <2> HIDE DEF asked, stop
  <2> QED  BY <1>t, <2>2, <2>3, <2>4
<1>7. ASSUME NEW d \in Phones, Renew(d)
      PROVE  phone' \in [Phones -> PhoneStates] /\ losses' \in Nat
  <2>1. phone' = phone \/ phone' = [phone EXCEPT ![d] = Dropped(phone[d])]
    BY <1>7, <1>t DEF Renew
  <2>2. Dropped(phone[d]) \in PhoneStates /\ losses' = losses
    BY <1>7, <1>t, AppliedOK DEF Renew
  <2> QED  BY <1>t, <2>1, <2>2
<1>8. ASSUME NEW d \in Phones, NEW next \in {"in", "out", "change"}, NEW status,
             NEW kind, NEW token, NEW secret, UserSends(d, status, next, kind, token, secret)
      PROVE  phone' \in [Phones -> PhoneStates] /\ losses' \in Nat
  <2> DEFINE r == [phone[d] EXCEPT !.user = next]
  <2>1. r \in PhoneStates
    BY <1>t DEF PhoneStates
  <2>2. phone' = [phone EXCEPT ![d] = r] /\ losses' = losses
    BY <1>8, <1>t DEF UserSends
  <2> HIDE DEF r
  <2> QED  BY <1>t, <2>1, <2>2
<1>9. ASSUME NEW d \in Phones, LeaveAfterChange(d)
      PROVE  phone' \in [Phones -> PhoneStates] /\ losses' \in Nat
  <2> DEFINE r == [phone[d] EXCEPT !.user = "out"]
  <2>1. r \in PhoneStates
    BY <1>t DEF PhoneStates
  <2>2. phone' = [phone EXCEPT ![d] = r] /\ losses' = losses
    BY <1>9, <1>t DEF LeaveAfterChange
  <2> HIDE DEF r
  <2> QED  BY <1>t, <2>1, <2>2
<1>10. ASSUME NEW d \in Phones, CloseApp(d)
       PROVE  phone' \in [Phones -> PhoneStates] /\ losses' \in Nat
  <2> DEFINE r == [Closed EXCEPT !.stored = phone[d].stored]
  <2>1. r \in PhoneStates
    BY <1>t, <1>n DEF PhoneStates, Closed
  <2>2. phone' = [phone EXCEPT ![d] = r] /\ losses' = losses
    BY <1>10 DEF CloseApp
  <2> HIDE DEF r
  <2> QED  BY <1>t, <2>1, <2>2
<1>11. ASSUME Elapse
       PROVE  phone' \in [Phones -> PhoneStates] /\ losses' \in Nat
  <2>1. PICK first \in Pausing :
          /\ \A d \in Pausing : phone[d].boot.left >= phone[first].boot.left
          /\ phone' = [d \in Phones |-> IF d \in Pausing
                THEN [phone[d] EXCEPT !.boot.left = @ - phone[first].boot.left] ELSE phone[d]]
    BY <1>11 DEF Elapse
  <2>2. ASSUME NEW d \in Pausing
        PROVE  [phone[d] EXCEPT !.boot.left = @ - phone[first].boot.left] \in PhoneStates
    <3> DEFINE left == phone[d].boot.left - phone[first].boot.left
               boot == [phone[d].boot EXCEPT !.left = left]
    <3>1. d \in Phones /\ first \in Phones
      BY DEF Pausing
    <3>2. left \in 0..120
      <4>1. phone[d].boot.left \in 0..120 /\ phone[first].boot.left \in 0..120
        BY <1>b, <1>n, <3>1
      <4>2. phone[d].boot.left >= phone[first].boot.left
        BY <2>1, <2>2
      <4>3. \A m, n \in 0..120 : m >= n => m - n \in 0..120
        OBVIOUS
      <4>4. phone[d].boot.left - phone[first].boot.left \in 0..120
        BY ONLY <4>1, <4>2, <4>3
      <4> QED  BY <4>4
    <3>3. boot \in Boots
      <4> HIDE DEF left
      <4> QED  BY <1>b, <1>n, <3>1, <3>2
    <3>4. [phone[d] EXCEPT !.boot.left = @ - phone[first].boot.left]
             = [phone[d] EXCEPT !.boot = boot]
      BY <1>t, <1>b, <3>1 DEF PhoneStates
    <3> HIDE DEF boot
    <3>5. [phone[d] EXCEPT !.boot = boot] \in PhoneStates
      BY <1>t, <3>1, <3>3 DEF PhoneStates
    <3> QED  BY <3>4, <3>5
  <2>3. losses' = losses
    BY <1>11 DEF Elapse
  <2>4. phone' \in [Phones -> PhoneStates]
    BY <1>t, <2>1, <2>2
  <2> QED  BY <1>t, <2>3, <2>4
<1>12. ASSUME NEW month \in BOOLEAN, Idle(month)
       PROVE  phone' \in [Phones -> PhoneStates] /\ losses' \in Nat
  <2>1. ASSUME NEW d \in Phones
        PROVE  [phone[d] EXCEPT !.access = IF @ = "good" THEN "stale" ELSE @,
                                !.boot = [@ EXCEPT !.left = 0]] \in PhoneStates
    <3> DEFINE boot == [phone[d].boot EXCEPT !.left = 0]
               access == IF phone[d].access = "good" THEN "stale" ELSE phone[d].access
    <3>1. boot \in Boots
      <4>1. 0 \in 0..120
        OBVIOUS
      <4> QED  BY <4>1, <1>n, <1>b
    <3>2. access \in {"none", "good", "stale"}
      BY <1>t DEF PhoneStates
    <3>3. [phone[d] EXCEPT !.access = IF @ = "good" THEN "stale" ELSE @,
                           !.boot = [@ EXCEPT !.left = 0]]
             = [phone[d] EXCEPT !.access = access, !.boot = boot]
      BY <1>t DEF PhoneStates
    <3> HIDE DEF boot, access
    <3>4. phone[d] \in PhoneStates
      BY <1>t
    <3>5. [phone[d] EXCEPT !.access = access, !.boot = boot] \in PhoneStates
      BY <3>1, <3>2, <3>4 DEF PhoneStates
    <3> QED  BY <3>3, <3>5
  <2> QED  BY <1>12, <1>t, <2>1 DEF Idle
<1>13. ASSUME NEW d \in Phones, NEW secret \in Passwords,
              SignUp(d) \/ SignOut(d) \/ SignIn(d, secret) \/ ChangePassword(d, secret)
       PROVE  phone' \in [Phones -> PhoneStates] /\ losses' \in Nat
  BY <1>8, <1>13 DEF SignUp, SignOut, SignIn, ChangePassword
<1>14. 0 \in Passwords
  BY Constants DEF Passwords
<1>15. \/ UNCHANGED vars \/ Elapse \/ OwnerResets
       \/ \E c \in Calls : Handle(c) \/ Deliver(c) \/ LoseAnswer(c) \/ Crash(c) \/ ChangeElsewhere(c)
       \/ \E d \in Phones : \/ Launch(d) \/ TryAgain(d) \/ Renew(d) \/ LeaveAfterChange(d)
                             \/ CloseApp(d)
       \/ \E d \in Phones, secret \in Passwords :
             SignUp(d) \/ SignOut(d) \/ SignIn(d, secret) \/ ChangePassword(d, secret)
       \/ \E month \in BOOLEAN : Idle(month)
  BY <1>14 DEF Next
<1>16. UNCHANGED vars \/ OwnerResets \/ (\E c \in Calls : Handle(c) \/ ChangeElsewhere(c))
         => UNCHANGED <<phone, losses>>
  BY DEF vars, OwnerResets, Handle, ChangeElsewhere
<1>17. seen' \subseteq {"late", "limit"}
  BY SeenGrows DEF Typed
<1> QED
  BY <1>1, <1>2, <1>3, <1>4, <1>5, <1>6, <1>7, <1>9, <1>10, <1>11, <1>12, <1>13, <1>15, <1>16,
     <1>17
-----------------------------------------------------------------------------
LEMMA PhoneInit == Init => Typed /\ Chains /\ Renewing
<1> SUFFICES ASSUME Init  PROVE Typed /\ Chains /\ Renewing
  OBVIOUS
<1>0. 0 \in Passwords /\ 0 \in Nat /\ 0 \in 0..(Grace + 1)
  BY Constants DEF Passwords
<1>1. account \in Accounts
  BY <1>0 DEF Init, ServerInit, Accounts
<1>2. session \in [Tokens -> Rows]
  BY <1>0 DEF Init, ServerInit, Rows, NoRow
<1>3. call \in [Calls -> Requests] /\ \A c \in Calls : call[c] = NoCall
  BY NoCallIsRequest DEF Init, ServerInit
<1>4. Closed \in PhoneStates
  <2> DEFINE N == 0..Len(Delays)
  <2>1. NoBoot \in Boots
    <3>1. 0 \in N
      BY DEF Delays
    <3>2. Boots = [at : {"none", "exchange", "pause"}, token : Tokens \cup {None},
                   tries : N, left : 0..120]
      BY DEF Boots
    <3> HIDE DEF N
    <3> QED  BY <3>1, <3>2 DEF NoBoot
  <2> QED  BY <2>1 DEF Closed, PhoneStates
<1>5. Typed
  BY <1>1, <1>2, <1>3, <1>4, NoCallIsRequest DEF Typed, ServerOK, Init
<1>6. Issued = {}
  BY DEF Issued, Init, ServerInit, NoRow
<1>7. Renewing
  BY <1>3 DEF Renewing, NoCall
<1> QED  BY <1>5, <1>6, <1>7 DEF Chains

LEMMA PhoneInvariant == Spec => [](Typed /\ Chains /\ Renewing)
<1>1. Typed /\ Chains /\ Renewing /\ [Next]_vars => (Typed /\ Chains /\ Renewing)'
  BY ServerStep, PhoneStep, ChainsStep DEF Typed
<1> QED  BY PhoneInit, <1>1, PTL DEF Spec

LEMMA ChainEnds == Typed /\ Chains => RotationStrandsNobody
<1> SUFFICES ASSUME Typed, Chains, NEW f \in Issued, FamilyOf(f) # {}
             PROVE  Over(f) \/ \E t \in FamilyOf(f) : Live(t)
  BY DEF RotationStrandsNobody
<1>1. FamilyOf(f) \subseteq Tokens /\ f # None
  BY Constants DEF FamilyOf, Issued
<1>2. PICK t \in FamilyOf(f) : \A u \in FamilyOf(f) : u <= t
  BY <1>1, LargestToken
<1>3. t \in Issued /\ session[t].family = f
  BY <1>1 DEF FamilyOf, Issued
<1>4. session[t].replaced = None
  <2> SUFFICES ASSUME session[t].replaced # None  PROVE FALSE
    OBVIOUS
  <2>1. Succeeds(session[t].replaced, t)
    BY <1>3 DEF Chains
  <2>2. session[t].replaced \in FamilyOf(f) /\ session[t].replaced > t
    BY <2>1, <1>3 DEF Succeeds, FamilyOf, Issued
  <2>3. session[t].replaced <= t
    BY <2>2, <1>2
  <2>4. t \in Nat /\ session[t].replaced \in Nat
    BY <1>1, <2>2, Constants DEF Tokens
  <2> QED  BY <2>2, <2>3, <2>4
<1> QED  BY <1>3, <1>4 DEF Over, Live

(* However many renewals meet, and wherever a handler of refresh dies, a   *)
(* family that is not over has a live token: issueSession stores the       *)
(* successor before refresh revokes the token it replaces.                 *)
THEOREM NobodyStranded == Spec => []RotationStrandsNobody
BY PhoneInvariant, ChainEnds, PTL
-----------------------------------------------------------------------------
(* What the calls of a phone say about the phone.                          *)
OneCallPerFlow ==
    \A b, c \in Calls : call[b].by # None /\ call[b].by = call[c].by => b = c

(* A call that somebody waits for is the one its flow is about.            *)
Matches(d, c) ==
    /\ call[c].by = <<d, "boot">> =>
          /\ call[c].kind = "refresh" /\ phone[d].boot.at = "exchange"
          /\ call[c].token = phone[d].boot.token
    /\ call[c].by = <<d, "renew">> =>
          call[c].kind = "refresh" /\ phone[d].status \notin {"closed", "restoring"}
    /\ call[c].by = <<d, "user">> =>
          \/ phone[d].user = "in" /\ call[c].kind \in {"login", "signup"}
          \/ phone[d].user = "change" /\ call[c].kind = "change"
          \/ phone[d].user = "out" /\ call[c].kind = "logout"

Resting(d) ==
    /\ phone[d].status \in {"closed", "restoring"} => phone[d].user = "idle"
    /\ phone[d].status = "closed" => phone[d].boot.at = "none"

(* What a launch still retries is nobody else's: not what the phone is     *)
(* signed in with, not what it renews, not what it is about to receive.    *)
BootApart(d) ==
    phone[d].boot.at # "none" =>
        /\ phone[d].boot.token \in Issued
        /\ phone[d].status = "signedIn" => phone[d].stored # phone[d].boot.token
        /\ \A c \in Calls :
              /\ call[c].by = <<d, "renew">> =>
                    phone[d].boot.token # call[c].token /\ phone[d].boot.token # call[c].new
              /\ call[c].by = <<d, "user">> => phone[d].boot.token # call[c].new

FlowsOf(d) ==
    /\ \A c \in Calls : Matches(d, c)
    /\ Resting(d) /\ BootApart(d) /\ phone[d].stored \in Issued \cup {None}

(* What an answer carries.                                                 *)
Carried ==
    \A c \in Calls :
        /\ call[c].new \in Issued \cup {None}
        /\ call[c].at = "ok" /\ call[c].kind \in {"login", "signup", "refresh"} => call[c].new # None
        /\ call[c].at = "limited" => call[c].kind \in Limited

FlowsOK == OneCallPerFlow /\ Carried /\ \A d \in Phones : FlowsOf(d)
-----------------------------------------------------------------------------
(* A statement of a handler, seen from the table of calls.                 *)
Kept(c) ==
    /\ Issued \subseteq Issued'
    /\ \A b \in Calls \ {c} : call'[b] = call[b]
    /\ \/ call'[c] = NoCall
       \/ /\ call'[c].kind = call[c].kind /\ call'[c].by = call[c].by
          /\ call'[c].token = call[c].token
          /\ call'[c].new = call[c].new \/ call'[c].new \in Issued' \ Issued
          /\ call'[c].at = "ok" /\ call[c].kind \in {"login", "signup", "refresh"}
                => call'[c].new # None
          /\ call'[c].at = "limited" => call[c].kind \in Limited

LEMMA KeptGoto ==
    ASSUME ServerOK, NEW c \in Calls, NEW label, Goto(c, label), label \notin Outcomes,
           Issued' = Issued
    PROVE  Kept(c)
<1> DEFINE r == [call[c] EXCEPT !.at = label]
<1>1. call' = [call EXCEPT ![c] = r] /\ call[c] \in Requests
  BY DEF Goto, ServerOK
<1>2. /\ r.kind = call[c].kind /\ r.by = call[c].by /\ r.token = call[c].token
      /\ r.new = call[c].new /\ r.at = label
  BY <1>1 DEF Requests
<1>3. call'[c] = r /\ \A b \in Calls \ {c} : call'[b] = call[b]
  BY <1>1 DEF ServerOK
<1> HIDE DEF r
<1> QED  BY <1>2, <1>3 DEF Kept, Outcomes

LEMMA KeptReply ==
    ASSUME ServerOK, NEW c \in Calls, NEW outcome \in Outcomes, Reply(c, outcome),
           Issued' = Issued,
           outcome = "ok" /\ call[c].kind \in {"login", "signup", "refresh"} => call[c].new # None,
           outcome = "limited" => call[c].kind \in Limited
    PROVE  Kept(c)
<1> DEFINE r == [call[c] EXCEPT !.at = outcome]
<1>1. call[c] \in Requests /\ (call'[c] = NoCall \/ call'[c] = r)
  BY DEF Reply, ServerOK
<1>2. /\ r.kind = call[c].kind /\ r.by = call[c].by /\ r.token = call[c].token
      /\ r.new = call[c].new /\ r.at = outcome
  BY <1>1 DEF Requests
<1>3. \A b \in Calls \ {c} : call'[b] = call[b]
  BY DEF Reply, ServerOK
<1> HIDE DEF r
<1> QED  BY <1>1, <1>2, <1>3 DEF Kept

LEMMA KeptServe ==
    ASSUME ServerOK, Renewing, NEW c \in Calls, Serve(c)
    PROVE  Kept(c)
<1>s. call \in [Calls -> Requests] /\ call[c] \in Requests /\ session \in [Tokens -> Rows]
  BY DEF ServerOK
<1>o. /\ {"ok", "refused", "limited", "failed"} \subseteq Outcomes
      /\ {"fail", "reset", "create", "reuse", "issue", "rotate", "store", "revokeAll"}
            \cap Outcomes = {}
  BY DEF Outcomes
<1>i. SameChains => Issued' = Issued
  BY SameSuccession
<1>q. \/ UNCHANGED session
      \/ \E rows : session' = Revoked(rows)
      => Issued' = Issued
  BY <1>i, QuietRows
<1>1. CASE RateLimit(c)
  BY <1>1, <1>o, <1>q, KeptReply DEF RateLimit
<1>2. CASE ReadAccount(c)
  <2>1. Issued' = Issued
    BY <1>2, <1>q DEF ReadAccount
  <2>2. CASE call' = [call EXCEPT ![c].at = "fail", ![c].failures = account.failures]
    <3> DEFINE r == [call[c] EXCEPT !.at = "fail", !.failures = account.failures]
    <3>1. call' = [call EXCEPT ![c] = r]
      BY <2>2, <1>s
    <3>2. /\ r.kind = call[c].kind /\ r.by = call[c].by /\ r.token = call[c].token
          /\ r.new = call[c].new /\ r.at = "fail"
      BY <1>s DEF Requests
    <3>3. call'[c] = r /\ \A b \in Calls \ {c} : call'[b] = call[b]
      BY <3>1, <1>s
    <3> HIDE DEF r
    <3> QED  BY <2>1, <3>2, <3>3 DEF Kept
  <2>3. CASE Reply(c, "refused")
    BY <2>1, <2>3, <1>o, KeptReply
  <2>4. CASE Goto(c, "reset")
    BY <2>1, <2>4, <1>o, KeptGoto
  <2> QED  BY <1>2, <2>2, <2>3, <2>4 DEF ReadAccount
<1>3. CASE CountFailure(c)
  BY <1>3, <1>o, <1>q, KeptReply DEF CountFailure
<1>4. CASE ResetFailures(c)
  BY <1>4, <1>o, <1>q, KeptGoto DEF ResetFailures
<1>5. CASE LookUpPhone(c)
  BY <1>5, <1>o, <1>q, KeptReply, KeptGoto DEF LookUpPhone
<1>6. CASE CreateAccount(c)
  BY <1>6, <1>o, <1>q, KeptReply, KeptGoto DEF CreateAccount
<1>7. CASE ReadSession(c)
  <2>1. Issued' = Issued
    BY <1>7, <1>q DEF ReadSession
  <2>2. CASE call' = [call EXCEPT ![c].at = "issue", ![c].again = session[call[c].token].revoked]
    <3> DEFINE r == [call[c] EXCEPT !.at = "issue", !.again = session[call[c].token].revoked]
    <3>1. call' = [call EXCEPT ![c] = r]
      BY <2>2, <1>s
    <3>2. /\ r.kind = call[c].kind /\ r.by = call[c].by /\ r.token = call[c].token
          /\ r.new = call[c].new /\ r.at = "issue"
      BY <1>s DEF Requests
    <3>3. call'[c] = r /\ \A b \in Calls \ {c} : call'[b] = call[b]
      BY <3>1, <1>s
    <3> HIDE DEF r
    <3> QED  BY <2>1, <3>2, <3>3 DEF Kept
  <2>3. CASE Reply(c, "refused")
    BY <2>1, <2>3, <1>o, KeptReply
  <2>4. CASE Goto(c, "reuse")
    BY <2>1, <2>4, <1>o, KeptGoto
  <2> QED  BY <1>7, <2>2, <2>3, <2>4 DEF ReadSession
<1>8. CASE RevokeFamily(c)
  BY <1>8, <1>o, <1>q, KeptReply DEF RevokeFamily
<1>9. CASE IssueSession(c)
  <2>1. PICK t \in NextToken :
          LET refreshed == call[c].kind = "refresh"
              family == IF refreshed THEN session[call[c].token].family ELSE t
              vouched == IF refreshed THEN session[call[c].token].since ELSE call[c].secret
              done == IF refreshed /\ ~call[c].again THEN "rotate" ELSE "ok"
          IN  /\ session' = [session EXCEPT ![t] =
                                [NoRow EXCEPT !.family = family, !.since = vouched]]
              /\ call' = [call EXCEPT ![c] = IF done = "ok" /\ @.by = None THEN NoCall
                                             ELSE [@ EXCEPT !.at = done, !.new = t]]
    BY <1>9 DEF IssueSession
  <2> DEFINE refreshed == call[c].kind = "refresh"
             family == IF refreshed THEN session[call[c].token].family ELSE t
             done == IF refreshed /\ ~call[c].again THEN "rotate" ELSE "ok"
             r == [call[c] EXCEPT !.at = done, !.new = t]
  <2>2. t \in Tokens /\ t \notin Issued
    <3>1. t \in 1..MaxToken /\ Issued = 1..(t - 1)
      BY DEF NextToken, Tokens
    <3> QED  BY <3>1, Constants DEF Tokens
  <2>3. refreshed => call[c].token \in Issued
    BY <1>9 DEF IssueSession, Renewing
  <2>4. family # None
    BY <2>2, <2>3, Constants DEF Issued
  <2>5. session'[t].family = family /\ \A u \in Tokens \ {t} : session'[u] = session[u]
    <3> HIDE DEF family
    <3> QED  BY <2>1, <2>2, <1>s DEF NoRow, family
  <2>6. Issued \subseteq Issued' /\ t \in Issued'
    BY <2>2, <2>4, <2>5 DEF Issued
  <2>7. call'[c] = NoCall \/ call'[c] = r
    BY <2>1, <1>s
  <2>8. /\ r.kind = call[c].kind /\ r.by = call[c].by /\ r.token = call[c].token
        /\ r.new = t /\ r.at = done /\ done # "limited"
    BY <1>s DEF Requests
  <2>9. \A b \in Calls \ {c} : call'[b] = call[b]
    BY <2>1, <1>s
  <2>10. t # None
    BY <2>2, Constants
  <2> HIDE DEF r
  <2> QED  BY <2>2, <2>6, <2>7, <2>8, <2>9, <2>10 DEF Kept
<1>10. CASE Rotate(c)
  <2> DEFINE old == call[c].token
             row == [session[old] EXCEPT !.revoked = TRUE, !.age = 0, !.replaced = call[c].new]
  <2>1. session' = [session EXCEPT ![old] = row]
    BY <1>10, <1>s DEF Rotate
  <2>2. Succeeds(call[c].new, old)
    BY <1>10 DEF Rotate, At, Renewing
  <2>3. old \in Tokens /\ session[old] \in Rows /\ call[c].new \in Issued
    BY <2>2, <1>s DEF Succeeds, Issued
  <2>4. row.family = session[old].family
    BY <2>3 DEF Rows
  <2>5. \A u \in Tokens : session'[u].family = session[u].family
    <3> HIDE DEF row
    <3> QED  BY <2>1, <2>3, <2>4, <1>s
  <2>6. Issued' = Issued
    BY <2>5 DEF Issued
  <2>7. call[c].new # None
    BY <2>3, Constants DEF Issued
  <2> QED  BY <1>10, <2>6, <2>7, <1>o, KeptReply DEF Rotate
<1>11. CASE Logout(c)
  BY <1>11, <1>o, <1>q, KeptReply DEF Logout, At
<1>12. CASE CheckPassword(c) \/ StorePassword(c)
  BY <1>12, <1>o, <1>q, KeptReply, KeptGoto DEF CheckPassword, StorePassword
<1>13. CASE RevokeAllSessions(c)
  BY <1>13, <1>o, <1>q, KeptReply DEF RevokeAllSessions, At
<1> QED
  BY <1>1, <1>2, <1>3, <1>4, <1>5, <1>6, <1>7, <1>8, <1>9, <1>10, <1>11, <1>12, <1>13 DEF Serve
-----------------------------------------------------------------------------
(* The fields of a phone and of its launch.                                *)
LEMMA PhoneFields ==
    ASSUME NEW ph \in PhoneStates
    PROVE  /\ ph.status \in {"closed", "restoring", "signedOut", "signedIn"}
           /\ ph.stored \in Tokens \cup {None} /\ ph.boot \in Boots
           /\ ph.user \in {"idle", "in", "out", "change", "leave"}
BY DEF PhoneStates

LEMMA BootFields ==
    ASSUME NEW boot \in Boots
    PROVE  /\ boot.at \in {"none", "exchange", "pause"} /\ boot.token \in Tokens \cup {None}
           /\ boot.tries \in 0..6 /\ boot.left \in 0..120
           /\ \A x : LET b == [boot EXCEPT !.at = x] IN
                 b.at = x /\ b.token = boot.token /\ b.tries = boot.tries /\ b.left = boot.left
           /\ \A x : LET b == [boot EXCEPT !.left = x] IN
                 b.at = boot.at /\ b.token = boot.token /\ b.tries = boot.tries /\ b.left = x
           /\ \A x, y, z : LET b == [boot EXCEPT !.at = x, !.tries = y, !.left = z] IN
                 b.at = x /\ b.token = boot.token /\ b.tries = y /\ b.left = z
<1> DEFINE N == 0..Len(Delays)
<1>1. Boots = [at : {"none", "exchange", "pause"}, token : Tokens \cup {None},
               tries : N, left : 0..120]
  BY DEF Boots
<1>2. N = 0..6
  BY DEF Delays
<1> HIDE DEF N
<1> QED  BY <1>1, <1>2

(* An app that sleeps for an hour or more.                                 *)
LEMMA Asleep ==
    ASSUME phone \in [Phones -> PhoneStates], NEW month, Idle(month), NEW d \in Phones
    PROVE  /\ phone'[d].status = phone[d].status /\ phone'[d].stored = phone[d].stored
           /\ phone'[d].user = phone[d].user
           /\ phone'[d].boot.at = phone[d].boot.at /\ phone'[d].boot.token = phone[d].boot.token
           /\ phone'[d].boot.tries = phone[d].boot.tries /\ phone'[d].boot.left = 0
<1>1. phone[d] \in PhoneStates /\ phone[d].boot \in Boots
  BY PhoneFields
<1> DEFINE boot == [phone[d].boot EXCEPT !.left = 0]
           access == IF phone[d].access = "good" THEN "stale" ELSE phone[d].access
           r == [phone[d] EXCEPT !.access = access, !.boot = boot]
<1>2. phone'[d] = r
  BY <1>1 DEF Idle, PhoneStates
<1>3. /\ boot.at = phone[d].boot.at /\ boot.token = phone[d].boot.token
      /\ boot.tries = phone[d].boot.tries /\ boot.left = 0
  BY <1>1, BootFields
<1> HIDE DEF boot, access
<1>4. /\ r.status = phone[d].status /\ r.stored = phone[d].stored
      /\ r.user = phone[d].user /\ r.boot = boot
  BY <1>1 DEF PhoneStates
<1> HIDE DEF r
<1> QED  BY <1>2, <1>3, <1>4

LEMMA PostponedIs ==
    ASSUME NEW boot \in Boots, NEW next, next = Postponed(boot)
    PROVE  \/ next = NoBoot /\ boot.tries = 6
           \/ /\ boot.tries < 6 /\ next.at = "pause" /\ next.token = boot.token
              /\ next.tries = boot.tries + 1 /\ next.left = Delays[boot.tries + 1]
<1>1. Len(Delays) = 6
  BY DEF Delays
<1> DEFINE left == Delays[boot.tries + 1]
           n == boot.tries + 1
<1>2. CASE boot.tries < 6
  <2>1. next = [boot EXCEPT !.at = "pause", !.tries = boot.tries + 1, !.left = left]
    BY <1>1, <1>2, BootFields DEF Postponed, Boots
  <2> HIDE DEF left
  <2>2. next.at = "pause" /\ next.token = boot.token /\ next.tries = n /\ next.left = left
    <3> HIDE DEF n
    <3> QED  BY <2>1, BootFields DEF n
  <2> QED  BY <1>2, <2>2 DEF left
<1>3. CASE ~(boot.tries < 6)
  BY <1>1, <1>3, BootFields DEF Postponed
<1> QED  BY <1>2, <1>3

(* What is left of a phone after its launch was answered.                  *)
LEMMA BootAnsweredIs ==
    ASSUME NEW ph \in PhoneStates, NEW outcome \in Outcomes, NEW token,
           NEW r, r = BootAnswered(ph, outcome, token)
    PROVE  /\ r.user = ph.user
           /\ \/ /\ r.boot = NoBoot
                 /\ \/ /\ r.status = ph.status /\ r.stored = ph.stored
                       /\ ph.boot.tries = 6 \/ (Quiet(ph.boot.tries) /\ ph.status # "signedOut")
                    \/ outcome = "ok" /\ r.status = "signedIn" /\ r.stored = token
                    \/ r.status = "signedOut" /\ r.stored = None
                    \/ outcome = "limited" /\ r.status = ph.status /\ r.stored = None
              \/ /\ outcome = "failed" \/ (outcome = "limited" /\ ph.boot.tries = 1)
                 /\ ph.boot.tries < 6
                 /\ r.boot.at = "pause" /\ r.boot.token = ph.boot.token
                 /\ r.boot.tries = ph.boot.tries + 1 /\ r.boot.left = Delays[ph.boot.tries + 1]
                 /\ r.stored = ph.stored
                 /\ r.status = IF ph.boot.tries = 1 THEN "signedOut" ELSE ph.status
<1> DEFINE tries == ph.boot.tries
           stop == [ph EXCEPT !.boot = NoBoot]
           next == Postponed(ph.boot)
           guest == [ph EXCEPT !.boot = next,
                               !.status = IF tries = 1 THEN "signedOut" ELSE ph.status,
                               !.access = IF tries = 1 THEN "none" ELSE ph.access]
           applied == Applied(stop, token)
           dropped == Dropped(stop)
           cleared == [stop EXCEPT !.stored = None]
<1>1. r = CASE outcome = "ok" -> IF ~Quiet(tries) \/ ph.status = "signedOut"
                                 THEN applied ELSE stop
            [] outcome = "refused" -> dropped
            [] outcome = "limited" ->
                 IF tries = 1 THEN guest
                 ELSE IF tries = 0 THEN dropped ELSE cleared
            [] outcome = "failed" -> guest
  BY DEF BootAnswered, PhoneStates
<1>2. outcome \in {"ok", "refused", "failed", "limited"}
  BY DEF Outcomes
<1>3. /\ stop.user = ph.user /\ stop.boot = NoBoot /\ stop.status = ph.status
      /\ stop.stored = ph.stored
      /\ applied.user = ph.user /\ applied.boot = NoBoot /\ applied.status = "signedIn"
      /\ applied.stored = token
      /\ dropped.user = ph.user /\ dropped.boot = NoBoot /\ dropped.status = "signedOut"
      /\ dropped.stored = None
      /\ cleared.user = ph.user /\ cleared.boot = NoBoot /\ cleared.status = ph.status
      /\ cleared.stored = None
  BY DEF PhoneStates, Applied, Dropped
<1>4. /\ guest.user = ph.user /\ guest.boot = next /\ guest.stored = ph.stored
      /\ guest.status = IF tries = 1 THEN "signedOut" ELSE ph.status
  <2> HIDE DEF next
  <2> QED  BY DEF PhoneStates
<1>5. \/ next = NoBoot /\ tries = 6
      \/ /\ tries < 6 /\ next.at = "pause" /\ next.token = ph.boot.token
         /\ next.tries = tries + 1 /\ next.left = Delays[tries + 1]
  <2>1. ph.boot \in Boots
    BY PhoneFields
  <2> QED  BY <2>1, PostponedIs
<1> HIDE DEF stop, guest, applied, dropped, cleared, next
<1>6. CASE outcome = "ok"
  BY <1>1, <1>3, <1>6
<1>7. CASE outcome = "refused"
  BY <1>1, <1>3, <1>7
<1>8. CASE outcome = "limited"
  BY <1>1, <1>3, <1>4, <1>5, <1>8
<1>9. CASE outcome = "failed"
  BY <1>1, <1>4, <1>5, <1>9
<1> QED  BY <1>2, <1>6, <1>7, <1>8, <1>9

LEMMA RenewAnsweredIs ==
    ASSUME NEW ph \in PhoneStates, NEW outcome, NEW token,
           NEW r, r = RenewAnswered(ph, outcome, token)
    PROVE  /\ r.user = ph.user /\ r.boot = ph.boot
           /\ \/ outcome = "ok" /\ r.status = ph.status /\ r.stored = token
              \/ r.status = "signedOut" /\ r.stored = None
BY DEF PhoneStates, RenewAnswered, Dropped

LEMMA UserAnsweredIs ==
    ASSUME NEW ph \in PhoneStates, NEW outcome, NEW token,
           NEW r, r = UserAnswered(ph, outcome, token), ph.user \in {"in", "change", "out"}
    PROVE  /\ r.user \in {"idle", "leave"} /\ r.boot = ph.boot
           /\ \/ r.status = ph.status /\ r.stored = ph.stored
              \/ outcome = "ok" /\ ph.user = "in" /\ r.status = "signedIn" /\ r.stored = token
              \/ r.status = "signedOut" /\ r.stored = None
<1>1. CASE ph.user = "in"
  BY <1>1 DEF PhoneStates, UserAnswered, Applied
<1>2. CASE ph.user = "change"
  BY <1>2 DEF PhoneStates, UserAnswered
<1>3. CASE ph.user = "out"
  BY <1>3 DEF PhoneStates, UserAnswered, Dropped
<1> QED  BY <1>1, <1>2, <1>3
-----------------------------------------------------------------------------
(* Nothing that a phone d hears of.                                        *)
Alike(d) ==
    /\ phone'[d].status = phone[d].status /\ phone'[d].stored = phone[d].stored
    /\ phone'[d].user = phone[d].user
    /\ phone'[d].boot.at = phone[d].boot.at /\ phone'[d].boot.token = phone[d].boot.token

LEMMA Undisturbed ==
    ASSUME Typed, NEW d \in Phones, FlowsOf(d),
           Alike(d), Issued \subseteq Issued',
           \A c \in Calls, flow \in Flows : call'[c].by = <<d, flow>> =>
              /\ call[c].by = <<d, flow>> /\ call'[c].kind = call[c].kind
              /\ call'[c].token = call[c].token
              /\ call'[c].new = call[c].new \/ call'[c].new \in Issued' \ Issued
    PROVE  FlowsOf(d)'
<1>f. {"boot", "renew", "user"} = Flows
  BY DEF Flows
<1>1. ASSUME NEW c \in Calls  PROVE Matches(d, c)'
  <2>1. Matches(d, c)
    BY DEF FlowsOf
  <2>2. \A flow \in {"boot", "renew", "user"} : call'[c].by = <<d, flow>> =>
           /\ call[c].by = <<d, flow>> /\ call'[c].kind = call[c].kind
           /\ call'[c].token = call[c].token
    BY <1>f
  <2> QED  BY <2>1, <2>2 DEF Matches, Alike
<1>2. Resting(d)'
  BY DEF FlowsOf, Resting, Alike
<1>3. BootApart(d)'
  <2> SUFFICES ASSUME phone[d].boot.at # "none"
               PROVE  /\ phone[d].boot.token \in Issued'
                      /\ phone[d].status = "signedIn" => phone[d].stored # phone[d].boot.token
                      /\ \A c \in Calls :
                            /\ call'[c].by = <<d, "renew">> =>
                                  /\ phone[d].boot.token # call'[c].token
                                  /\ phone[d].boot.token # call'[c].new
                            /\ call'[c].by = <<d, "user">> => phone[d].boot.token # call'[c].new
    BY DEF BootApart, Alike
  <2>1. /\ phone[d].boot.token \in Issued
        /\ phone[d].status = "signedIn" => phone[d].stored # phone[d].boot.token
        /\ \A c \in Calls :
              /\ call[c].by = <<d, "renew">> =>
                    phone[d].boot.token # call[c].token /\ phone[d].boot.token # call[c].new
              /\ call[c].by = <<d, "user">> => phone[d].boot.token # call[c].new
    BY DEF FlowsOf, BootApart
  <2> QED  BY <2>1, <1>f
<1>4. phone'[d].stored \in Issued' \cup {None}
  BY DEF FlowsOf, Alike
<1> QED  BY <1>1, <1>2, <1>3, <1>4 DEF FlowsOf

(* The call of a flow is answered, or lost.                                *)
LEMMA AnswerTaken ==
    ASSUME Typed, FlowsOK, NEW d \in Phones, NEW flow \in Flows, NEW c \in Calls,
           call[c].by = <<d, flow>>, call'[c].by = None,
           \A b \in Calls \ {c} : call'[b] = call[b],
           Issued' = Issued, NEW outcome \in Outcomes, NEW token \in Issued \cup {None},
           token \in {None, call[c].new}, Answered(call[c].by, outcome, token)
    PROVE  /\ OneCallPerFlow' /\ \A e \in Phones : FlowsOf(e)'
           /\ phone' \in [Phones -> PhoneStates]
<1>f. {"boot", "renew", "user"} = Flows
  BY DEF Flows
<1>i. None \notin Issued
  BY Constants DEF Issued
<1>n. \A e \in Phones, g \in Flows : <<e, g>> # None
  BY Constants, PhoneAssumption
<1>p. phone \in [Phones -> PhoneStates] /\ phone[d] \in PhoneStates
  BY DEF Typed
<1>c. \A b \in Calls : call'[b].by # None => b # c /\ call'[b] = call[b]
  OBVIOUS
<1> DEFINE ph == phone[d]
           r == CASE flow = "boot" -> BootAnswered(ph, outcome, token)
                  [] flow = "renew" -> RenewAnswered(ph, outcome, token)
                  [] flow = "user" -> UserAnswered(ph, outcome, token)
<1>r. phone' = [phone EXCEPT ![d] = r]
  <2>1. call[c].by[1] = d /\ call[c].by[2] = flow
    OBVIOUS
  <2> QED  BY <2>1 DEF Answered
<1>d. phone'[d] = r /\ \A e \in Phones \ {d} : phone'[e] = phone[e]
  <2> HIDE DEF r
  <2> QED  BY <1>p, <1>r
<1>t. phone' \in [Phones -> PhoneStates]
  <2>1. token \in Tokens \cup {None} /\ call[c].by \in Callers
    BY PhoneAssumption DEF Issued
  <2> QED  BY <1>p, <2>1, AnsweredOK
<1>1. OneCallPerFlow'
  BY <1>c DEF OneCallPerFlow, FlowsOK
<1>2. \A e \in Phones \ {d} : FlowsOf(e)'
  BY <1>d, <1>c, <1>n, Undisturbed DEF FlowsOK, Alike
<1>3. FlowsOf(d)'
  <2>1. FlowsOf(d) /\ \A b \in Calls : Matches(d, b)
    BY DEF FlowsOK, FlowsOf
  <2>2. \A b \in Calls : call'[b].by # <<d, flow>>
    BY <1>c, <1>n DEF FlowsOK, OneCallPerFlow
  <2>3. \A b \in Calls, g \in Flows : call'[b].by = <<d, g>> => call'[b] = call[b] /\ g # flow
    BY <1>c, <1>n, <2>2
  <2>4. Resting(d) /\ BootApart(d) /\ ph.stored \in Issued \cup {None}
    BY <2>1 DEF FlowsOf
  <2>5. ph.boot.at # "none" => ph.boot.token \in Issued /\ ph.boot.token # None
    BY <2>4, <1>i DEF BootApart
  <2> DEFINE Result ==
        /\ r.stored \in Issued \cup {None}
        /\ flow # "boot" => r.boot = ph.boot
        /\ flow = "boot" => \/ r.boot.at = "none"
                            \/ /\ ph.boot.at # "none" /\ r.boot.token = ph.boot.token
                               /\ r.stored = ph.stored
                               /\ r.status = "signedIn" => ph.status = "signedIn"
        /\ flow # "user" => r.user = ph.user
        /\ flow = "user" => r.user \in {"idle", "leave"}
        /\ r.status \in {ph.status, "signedOut", "signedIn"}
        /\ r.status = "signedIn" =>
              \/ r.stored \in {None, token}
              \/ r.stored = ph.stored /\ ph.status = "signedIn"
        /\ ph.status # "closed"
        /\ flow = "user" => ph.status # "restoring"
  <2>6. Result
    <3>1. CASE flow = "boot"
      <4>1. r = BootAnswered(ph, outcome, token)
        BY <3>1
      <4>2. ph.boot.at = "exchange" /\ ph.status # "closed"
        BY <3>1, <2>1, <2>4 DEF Matches, Resting
      <4> HIDE DEF r, ph
      <4>3. NoBoot.at = "none"
        BY DEF NoBoot
      <4>4. r.status = "signedIn" =>
               r.stored \in {None, token} \/ (r.stored = ph.stored /\ ph.status = "signedIn")
        BY <4>1, <1>p, BootAnsweredIs DEF ph
      <4>5. r.stored \in {ph.stored, None, token}
        BY <4>1, <1>p, BootAnsweredIs DEF ph
      <4> QED  BY <4>1, <4>2, <4>3, <4>4, <4>5, <3>1, <2>4, <1>p, BootAnsweredIs DEF ph
    <3>2. CASE flow = "renew"
      <4>1. r = RenewAnswered(ph, outcome, token)
        BY <3>2
      <4>2. ph.status \notin {"closed", "restoring"}
        BY <3>2, <2>1 DEF Matches
      <4> HIDE DEF r, ph
      <4> QED  BY <4>1, <4>2, <3>2, <1>p, RenewAnsweredIs DEF ph
    <3>3. CASE flow = "user"
      <4>1. r = UserAnswered(ph, outcome, token)
        BY <3>3
      <4>2. ph.user \in {"in", "change", "out"}
        BY <3>3, <2>1 DEF Matches
      <4>3. ph.status \notin {"closed", "restoring"}
        BY <4>2, <2>4 DEF Resting
      <4> HIDE DEF r, ph
      <4>4. /\ r.user \in {"idle", "leave"} /\ r.boot = ph.boot
            /\ \/ r.status = ph.status /\ r.stored = ph.stored
               \/ r.status = "signedIn" /\ r.stored = token
               \/ r.status = "signedOut" /\ r.stored = None
        BY <4>1, <4>2, <1>p, UserAnsweredIs DEF ph
      <4> QED  BY <4>3, <4>4, <2>4, <3>3
    <3> QED  BY <1>f, <3>1, <3>2, <3>3
  <2>7. ph.boot.at # "none" /\ flow # "boot" => token # ph.boot.token
    BY <2>4, <2>5, <1>f DEF BootApart
  <2>8. Resting(d)'
    <3>1. phone'[d].status = "closed" => FALSE
      BY <1>d, <2>6
    <3>2. phone'[d].status = "restoring" => phone'[d].user = "idle"
      <4> SUFFICES ASSUME r.status = "restoring"  PROVE r.user = "idle"
        BY <1>d
      <4> HIDE DEF r, ph
      <4>1. ph.status = "restoring"
        BY <2>6
      <4>2. ph.user = "idle"
        BY <4>1, <2>4 DEF Resting, ph
      <4> QED  BY <4>1, <4>2, <2>6, <1>f
    <3> QED  BY <3>1, <3>2 DEF Resting
  <2>9. ASSUME NEW b \in Calls  PROVE Matches(d, b)'
    <3>1. Matches(d, b)
      BY <2>1
    <3>2. CASE \E g \in Flows : call'[b].by = <<d, g>>
      <4>1. PICK g \in Flows : call'[b].by = <<d, g>>
        BY <3>2
      <4>2. call'[b] = call[b] /\ g # flow
        BY <4>1, <2>3
      <4> HIDE DEF r
      <4>3. CASE g = "boot"
        BY <4>1, <4>2, <4>3, <3>1, <2>6, <1>d DEF Matches
      <4>4. CASE g = "renew"
        BY <4>1, <4>2, <4>4, <3>1, <2>6, <1>d DEF Matches
      <4>5. CASE g = "user"
        BY <4>1, <4>2, <4>5, <3>1, <2>6, <1>d DEF Matches
      <4> QED  BY <1>f, <4>3, <4>4, <4>5
    <3>3. CASE ~ \E g \in Flows : call'[b].by = <<d, g>>
      BY <3>3, <1>f DEF Matches
    <3> QED  BY <3>2, <3>3
  <2>10. BootApart(d)'
    <3> HIDE DEF r, ph
    <3> SUFFICES ASSUME r.boot.at # "none"
                 PROVE  /\ r.boot.token \in Issued
                        /\ r.status = "signedIn" => r.stored # r.boot.token
                        /\ \A b \in Calls :
                              /\ call'[b].by = <<d, "renew">> =>
                                    r.boot.token # call'[b].token /\ r.boot.token # call'[b].new
                              /\ call'[b].by = <<d, "user">> => r.boot.token # call'[b].new
      BY <1>d DEF BootApart
    <3>1. ph.boot.at # "none" /\ r.boot.token = ph.boot.token
      BY <2>6
    <3>2. /\ ph.status = "signedIn" => ph.stored # ph.boot.token
          /\ \A b \in Calls :
                /\ call[b].by = <<d, "renew">> =>
                      ph.boot.token # call[b].token /\ ph.boot.token # call[b].new
                /\ call[b].by = <<d, "user">> => ph.boot.token # call[b].new
      BY <2>4, <3>1 DEF BootApart, ph
    <3>3. r.status = "signedIn" => r.stored # r.boot.token
      <4>1. CASE flow = "boot"
        BY <4>1, <3>1, <3>2, <2>5, <2>6
      <4>2. CASE flow # "boot"
        BY <4>2, <3>1, <3>2, <2>5, <2>6, <2>7
      <4> QED  BY <4>1, <4>2
    <3> QED  BY <3>1, <3>2, <3>3, <2>3, <2>5, <1>f
  <2> QED  BY <1>d, <2>6, <2>8, <2>9, <2>10 DEF FlowsOf
<1> QED  BY <1>1, <1>2, <1>3, <1>t
-----------------------------------------------------------------------------
LEMMA Sent ==
    ASSUME ServerOK, NEW c \in Calls, NEW by, NEW kind, NEW token, NEW secret,
           Send(c, by, kind, token, secret)
    PROVE  /\ call'[c].kind = kind /\ call'[c].by = by /\ call'[c].token = token
           /\ call'[c].new = None /\ call'[c].at = "sent"
           /\ \A b \in Calls \ {c} : call'[b] = call[b]
BY DEF ServerOK, Send, NoCall

(* A flow that waits for nothing sends a call.                             *)
LEMMA FlowSends ==
    ASSUME Typed, FlowsOK, NEW d \in Phones, NEW flow \in Flows, NEW c \in Calls,
           NEW kind, NEW token, NEW secret, Send(c, <<d, flow>>, kind, token, secret),
           \A b \in Calls : call[b].by # <<d, flow>>,
           Issued' = Issued, \A e \in Phones \ {d} : phone'[e] = phone[e]
    PROVE  /\ OneCallPerFlow' /\ Carried' /\ \A e \in Phones \ {d} : FlowsOf(e)'
           /\ \A b \in Calls, g \in Flows : call'[b].by = <<d, g>> /\ g # flow =>
                 call'[b] = call[b]
           /\ \A b \in Calls : call'[b].by = <<d, flow>> =>
                 call'[b].kind = kind /\ call'[b].token = token /\ call'[b].new = None
<1>1. /\ call'[c].kind = kind /\ call'[c].by = <<d, flow>> /\ call'[c].token = token
      /\ call'[c].new = None /\ call'[c].at = "sent"
      /\ \A b \in Calls \ {c} : call'[b] = call[b]
  BY Sent DEF Typed
<1>2. OneCallPerFlow'
  BY <1>1 DEF OneCallPerFlow, FlowsOK
<1>3. Carried'
  BY <1>1 DEF Carried, FlowsOK
<1>4. \A e \in Phones \ {d} : FlowsOf(e)'
  <2> TAKE e \in Phones \ {d}
  <2>1. \A b \in Calls, g \in Flows : call'[b].by = <<e, g>> => call'[b] = call[b]
    BY <1>1
  <2> QED  BY <2>1, Undisturbed DEF FlowsOK, Alike
<1>5. \A b \in Calls, g \in Flows : call'[b].by = <<d, g>> /\ g # flow => call'[b] = call[b]
  BY <1>1
<1> QED  BY <1>1, <1>2, <1>3, <1>4, <1>5

(* Nobody calls and nobody answers.                                        *)
LEMMA NoCalls ==
    ASSUME Typed, FlowsOK, UNCHANGED call, Issued' = Issued,
           \A d \in Phones : Alike(d) \/ FlowsOf(d)'
    PROVE  FlowsOK'
<1>1. OneCallPerFlow' /\ Carried'
  BY DEF OneCallPerFlow, Carried, FlowsOK
<1>2. \A d \in Phones : FlowsOf(d)'
  BY Undisturbed DEF FlowsOK
<1> QED  BY <1>1, <1>2 DEF FlowsOK

LEMMA HandlerFlows ==
    ASSUME Typed, FlowsOK, NEW c \in Calls, Kept(c), UNCHANGED phone
    PROVE  FlowsOK'
<1>1. \A b \in Calls : call'[b].by = call[b].by \/ call'[b].by = None
  BY DEF Kept, NoCall
<1>2. OneCallPerFlow'
  BY <1>1 DEF OneCallPerFlow, FlowsOK
<1>3. Carried'
  <2> SUFFICES ASSUME NEW b \in Calls
               PROVE  /\ call'[b].new \in Issued' \cup {None}
                      /\ call'[b].at = "ok" /\ call'[b].kind \in {"login", "signup", "refresh"}
                            => call'[b].new # None
                      /\ call'[b].at = "limited" => call'[b].kind \in Limited
    BY DEF Carried
  <2>1. CASE b # c
    BY <2>1 DEF Carried, FlowsOK, Kept
  <2>2. CASE b = c
    BY <2>2 DEF Carried, FlowsOK, Kept, NoCall
  <2> QED  BY <2>1, <2>2
<1>4. \A d \in Phones : FlowsOf(d)'
  <2> TAKE d \in Phones
  <2>1. \A b \in Calls, flow \in Flows : call'[b].by = <<d, flow>> =>
           /\ call[b].by = <<d, flow>> /\ call'[b].kind = call[b].kind
           /\ call'[b].token = call[b].token
           /\ call'[b].new = call[b].new \/ call'[b].new \in Issued' \ Issued
    <3>1. \A flow \in Flows : <<d, flow>> # None
      BY Constants, PhoneAssumption
    <3> QED  BY <3>1 DEF Kept, NoCall
  <2> QED  BY <2>1, Undisturbed DEF FlowsOK, Kept, Alike
<1> QED  BY <1>2, <1>3, <1>4 DEF FlowsOK

LEMMA AnswerFlows ==
    ASSUME Typed, FlowsOK, NEW c \in Calls, Deliver(c) \/ LoseAnswer(c)
    PROVE  FlowsOK'
<1>s. call \in [Calls -> Requests] /\ call[c] \in Requests /\ ServerOK
      /\ (call[c].at \in Outcomes => call[c].by \in Callers)
  BY DEF Typed, ServerOK
<1>1. call[c].by \in Callers
  BY <1>s DEF Deliver, LoseAnswer, TakeAnswer, HangUp, Requests
<1>2. PICK d \in Phones, flow \in Flows : call[c].by = <<d, flow>>
  BY <1>1, PhoneAssumption
<1>3. Issued' = Issued
  <2>1. UNCHANGED session \/ Wait(Timeout)
    BY DEF Deliver, LoseAnswer
  <2> QED  BY <1>s, <2>1, QuietRows, SameSuccession, Constants
<1>4. /\ call'[c].by = None /\ \A b \in Calls \ {c} : call'[b] = call[b]
      /\ call'[c].kind \in {call[c].kind, "none"} /\ call'[c].new \in {call[c].new, None}
      /\ call'[c].at \in {call[c].at, "free"}
      /\ call'[c].at # "free" => call'[c].kind = call[c].kind /\ call'[c].new = call[c].new
  <2>1. CASE call' = [call EXCEPT ![c] = NoCall]
    BY <1>s, <2>1 DEF NoCall
  <2>2. CASE call' = [call EXCEPT ![c].by = None]
    BY <1>s, <2>2 DEF Requests
  <2> QED  BY <2>1, <2>2 DEF Deliver, LoseAnswer, TakeAnswer, HangUp
<1>5. Carried'
  <2> SUFFICES ASSUME NEW b \in Calls
               PROVE  /\ call'[b].new \in Issued \cup {None}
                      /\ call'[b].at = "ok" /\ call'[b].kind \in {"login", "signup", "refresh"}
                            => call'[b].new # None
                      /\ call'[b].at = "limited" => call'[b].kind \in Limited
    BY <1>3 DEF Carried
  <2>1. CASE b # c
    BY <2>1, <1>4 DEF Carried, FlowsOK
  <2>2. CASE b = c
    BY <2>2, <1>4 DEF Carried, FlowsOK
  <2> QED  BY <2>1, <2>2
<1>6. \E outcome \in Outcomes, token \in Issued \cup {None} :
         token \in {None, call[c].new} /\ Answered(call[c].by, outcome, token)
  <2>1. CASE Deliver(c)
    BY <2>1 DEF Deliver, TakeAnswer, Carried, FlowsOK
  <2>2. CASE LoseAnswer(c)
    <3>1. "failed" \in Outcomes
      BY DEF Outcomes
    <3> QED  BY <2>2, <3>1 DEF LoseAnswer
  <2> QED  BY <2>1, <2>2
<1> QED  BY <1>2, <1>3, <1>4, <1>5, <1>6, AnswerTaken DEF FlowsOK
-----------------------------------------------------------------------------
LEMMA LaunchFlows ==
    ASSUME Typed, FlowsOK, NEW d \in Phones, Launch(d)
    PROVE  FlowsOK'
<1>f. {"boot", "renew", "user"} = Flows
  BY DEF Flows
<1>p. phone \in [Phones -> PhoneStates] /\ phone[d] \in PhoneStates /\ phone[d].boot \in Boots
  BY PhoneFields DEF Typed
<1>i. None \notin Issued
  BY Constants DEF Issued
<1>1. /\ phone[d].status = "closed" /\ phone[d].user = "idle" /\ phone[d].boot.at = "none"
      /\ Issued' = Issued /\ phone[d].stored \in Issued \cup {None}
      /\ FlowsOf(d)
  BY DEF Launch, FlowsOK, FlowsOf, Resting, Issued
<1>2. \A c \in Calls, flow \in Flows : call[c].by # <<d, flow>>
  <2> TAKE c \in Calls, flow \in Flows
  <2>1. Matches(d, c)
    BY <1>1 DEF FlowsOf
  <2>2. flow \in {"boot", "renew", "user"}
    BY DEF Flows
  <2> QED  BY <1>1, <2>1, <2>2 DEF Matches
<1>3. CASE phone[d].stored = None
  <2> DEFINE r == [phone[d] EXCEPT !.status = "signedOut"]
  <2>1. phone' = [phone EXCEPT ![d] = r] /\ call' = call
    BY <1>3, <1>p DEF Launch
  <2>2. /\ r.status = "signedOut" /\ r.stored = None /\ r.user = "idle"
        /\ r.boot = phone[d].boot
    BY <1>1, <1>3, <1>p DEF PhoneStates
  <2>3. phone'[d] = r /\ \A e \in Phones \ {d} : phone'[e] = phone[e]
    <3> HIDE DEF r
    <3> QED  BY <1>p, <2>1
  <2> HIDE DEF r
  <2>4. FlowsOf(d)'
    BY <1>1, <1>2, <1>f, <2>1, <2>2, <2>3 DEF FlowsOf, Matches, Resting, BootApart
  <2> QED  BY <1>1, <2>1, <2>3, <2>4, NoCalls DEF Alike
<1>4. CASE phone[d].stored # None
  <2> DEFINE boot == [NoBoot EXCEPT !.at = "exchange", !.token = phone[d].stored]
             r == [phone[d] EXCEPT !.status = "restoring", !.boot = boot]
  <2>1. /\ phone' = [phone EXCEPT ![d] = r]
        /\ \E c \in Calls : Send(c, <<d, "boot">>, "refresh", phone[d].stored, 0)
    BY <1>4, <1>p DEF Launch
  <2>2. boot.at = "exchange" /\ boot.token = phone[d].stored
    BY DEF NoBoot
  <2>3. r.status = "restoring" /\ r.stored = phone[d].stored /\ r.user = "idle" /\ r.boot = boot
    <3> HIDE DEF boot
    <3> QED  BY <1>1, <1>p DEF PhoneStates
  <2>4. phone'[d] = r /\ \A e \in Phones \ {d} : phone'[e] = phone[e]
    <3> HIDE DEF r
    <3> QED  BY <1>p, <2>1
  <2> HIDE DEF r, boot
  <2>5. /\ OneCallPerFlow' /\ Carried' /\ \A e \in Phones \ {d} : FlowsOf(e)'
        /\ \A b \in Calls, g \in Flows : call'[b].by = <<d, g>> /\ g # "boot" => call'[b] = call[b]
        /\ \A b \in Calls : call'[b].by = <<d, "boot">> =>
              call'[b].kind = "refresh" /\ call'[b].token = phone[d].stored /\ call'[b].new = None
    BY <1>1, <1>2, <1>f, <2>1, <2>4, FlowSends
  <2>6. \A b \in Calls, g \in Flows : call'[b].by = <<d, g>> => g = "boot"
    BY <1>2, <2>5
  <2>7. FlowsOf(d)'
    BY <1>1, <1>4, <1>f, <2>2, <2>3, <2>4, <2>5, <2>6 DEF FlowsOf, Matches, Resting, BootApart
  <2> QED  BY <2>5, <2>7 DEF FlowsOK
<1> QED  BY <1>3, <1>4

LEMMA TryAgainFlows ==
    ASSUME Typed, FlowsOK, NEW d \in Phones, TryAgain(d)
    PROVE  FlowsOK'
<1>f. {"boot", "renew", "user"} = Flows
  BY DEF Flows
<1>p. phone \in [Phones -> PhoneStates] /\ phone[d] \in PhoneStates /\ phone[d].boot \in Boots
  BY PhoneFields DEF Typed
<1>1. /\ phone[d].boot.at = "pause" /\ Issued' = Issued /\ FlowsOf(d)
      /\ Resting(d) /\ BootApart(d) /\ phone[d].stored \in Issued \cup {None}
  BY DEF TryAgain, FlowsOK, FlowsOf, Issued
<1>2. \A c \in Calls : call[c].by # <<d, "boot">> /\ Matches(d, c)
  BY <1>1 DEF FlowsOf, Matches
<1>3. CASE UNCHANGED call /\ phone' = [phone EXCEPT ![d].boot = NoBoot]
  <2> DEFINE r == [phone[d] EXCEPT !.boot = NoBoot]
  <2>1. phone' = [phone EXCEPT ![d] = r] /\ call' = call
    BY <1>3, <1>p
  <2>2. /\ r.status = phone[d].status /\ r.stored = phone[d].stored /\ r.user = phone[d].user
        /\ r.boot.at = "none"
    BY <1>p DEF PhoneStates, NoBoot
  <2>3. phone'[d] = r /\ \A e \in Phones \ {d} : phone'[e] = phone[e]
    <3> HIDE DEF r
    <3> QED  BY <1>p, <2>1
  <2> HIDE DEF r
  <2>4. FlowsOf(d)'
    BY <1>1, <1>2, <2>1, <2>2, <2>3 DEF FlowsOf, Matches, Resting, BootApart
  <2> QED  BY <1>1, <2>1, <2>3, <2>4, NoCalls DEF Alike
<1>4. CASE /\ \E c \in Calls : Send(c, <<d, "boot">>, "refresh", phone[d].boot.token, 0)
           /\ phone' = [phone EXCEPT ![d].boot.at = "exchange"]
  <2> DEFINE boot == [phone[d].boot EXCEPT !.at = "exchange"]
             r == [phone[d] EXCEPT !.boot = boot]
  <2>1. phone' = [phone EXCEPT ![d] = r]
    BY <1>4, <1>p DEF PhoneStates
  <2>2. boot.at = "exchange" /\ boot.token = phone[d].boot.token
    BY <1>p, BootFields
  <2>3. /\ r.status = phone[d].status /\ r.stored = phone[d].stored /\ r.user = phone[d].user
        /\ r.boot = boot
    <3> HIDE DEF boot
    <3> QED  BY <1>p DEF PhoneStates
  <2>4. phone'[d] = r /\ \A e \in Phones \ {d} : phone'[e] = phone[e]
    <3> HIDE DEF r
    <3> QED  BY <1>p, <2>1
  <2> HIDE DEF r, boot
  <2>5. /\ OneCallPerFlow' /\ Carried' /\ \A e \in Phones \ {d} : FlowsOf(e)'
        /\ \A b \in Calls, g \in Flows : call'[b].by = <<d, g>> /\ g # "boot" => call'[b] = call[b]
        /\ \A b \in Calls : call'[b].by = <<d, "boot">> =>
              /\ call'[b].kind = "refresh" /\ call'[b].token = phone[d].boot.token
              /\ call'[b].new = None
    BY <1>1, <1>2, <1>4, <1>f, <2>4, FlowSends
  <2>6. ASSUME NEW b \in Calls  PROVE Matches(d, b)'
    <3>1. /\ call'[b].by = <<d, "renew">> => call'[b] = call[b]
          /\ call'[b].by = <<d, "user">> => call'[b] = call[b]
      BY <2>5, <1>f
    <3>2. Matches(d, b)
      BY <1>2
    <3> QED  BY <3>1, <3>2, <2>2, <2>3, <2>4, <2>5 DEF Matches
  <2>7. Resting(d)'
    BY <1>1, <2>3, <2>4 DEF Resting
  <2>8. BootApart(d)'
    BY <1>1, <1>f, <2>2, <2>3, <2>4, <2>5 DEF BootApart
  <2> QED  BY <1>1, <2>3, <2>4, <2>5, <2>6, <2>7, <2>8 DEF FlowsOK, FlowsOf
<1> QED  BY <1>3, <1>4 DEF TryAgain

LEMMA RenewFlows ==
    ASSUME Typed, FlowsOK, NEW d \in Phones, Renew(d)
    PROVE  FlowsOK'
<1>f. {"boot", "renew", "user"} = Flows
  BY DEF Flows
<1>p. phone \in [Phones -> PhoneStates] /\ phone[d] \in PhoneStates
  BY DEF Typed
<1>i. None \notin Issued
  BY Constants DEF Issued
<1>1. /\ phone[d].status = "signedIn" /\ Issued' = Issued
      /\ Resting(d) /\ BootApart(d) /\ phone[d].stored \in Issued \cup {None}
      /\ \A c \in Calls : call[c].by # <<d, "renew">> /\ Matches(d, c)
  BY DEF Renew, Awaited, FlowsOK, FlowsOf, Issued
<1>2. CASE UNCHANGED call /\ phone' = [phone EXCEPT ![d] = Dropped(@)]
  <2> DEFINE r == Dropped(phone[d])
  <2>1. phone' = [phone EXCEPT ![d] = r] /\ call' = call
    BY <1>2, <1>p
  <2>2. /\ r.status = "signedOut" /\ r.stored = None /\ r.user = phone[d].user
        /\ r.boot = phone[d].boot
    BY <1>p DEF PhoneStates, Dropped
  <2>3. phone'[d] = r /\ \A e \in Phones \ {d} : phone'[e] = phone[e]
    <3> HIDE DEF r
    <3> QED  BY <1>p, <2>1
  <2> HIDE DEF r
  <2>4. FlowsOf(d)'
    BY <1>1, <2>1, <2>2, <2>3 DEF FlowsOf, Matches, Resting, BootApart
  <2> QED  BY <1>1, <2>1, <2>3, <2>4, NoCalls DEF Alike
<1>3. CASE /\ \E c \in Calls : Send(c, <<d, "renew">>, "refresh", phone[d].stored, 0)
           /\ UNCHANGED phone
  <2>1. /\ OneCallPerFlow' /\ Carried' /\ \A e \in Phones \ {d} : FlowsOf(e)'
        /\ \A b \in Calls, g \in Flows : call'[b].by = <<d, g>> /\ g # "renew" => call'[b] = call[b]
        /\ \A b \in Calls : call'[b].by = <<d, "renew">> =>
              call'[b].kind = "refresh" /\ call'[b].token = phone[d].stored /\ call'[b].new = None
    BY <1>1, <1>3, <1>f, FlowSends
  <2>2. ASSUME NEW b \in Calls  PROVE Matches(d, b)'
    <3>1. /\ call'[b].by = <<d, "boot">> => call'[b] = call[b]
          /\ call'[b].by = <<d, "user">> => call'[b] = call[b]
      BY <2>1, <1>f
    <3>2. Matches(d, b)
      BY <1>1
    <3> QED  BY <3>1, <3>2, <2>1, <1>1, <1>3 DEF Matches
  <2>3. BootApart(d)'
    BY <1>1, <1>3, <1>i, <1>f, <2>1 DEF BootApart
  <2>4. Resting(d)'
    BY <1>1, <1>3 DEF Resting
  <2> QED  BY <1>1, <1>3, <2>1, <2>2, <2>3, <2>4 DEF FlowsOK, FlowsOf
<1> QED  BY <1>2, <1>3 DEF Renew

(* The user signs in or up, out, changes the password or leaves.           *)
Asks(d, next, kind, token, secret) ==
    /\ phone[d].user \in {"idle", "leave"} /\ phone[d].status \notin {"closed", "restoring"}
    /\ \/ next = "in" /\ kind \in {"login", "signup"}
       \/ next = "change" /\ kind = "change"
       \/ next = "out" /\ kind = "logout"
    /\ \E c \in Calls : Send(c, <<d, "user">>, kind, token, secret)
    /\ phone' = [phone EXCEPT ![d].user = next] /\ UNCHANGED session

LEMMA UserFlows ==
    ASSUME Typed, FlowsOK, NEW d \in Phones, NEW next, NEW kind, NEW token, NEW secret,
           Asks(d, next, kind, token, secret)
    PROVE  FlowsOK'
<1>a. /\ phone[d].user \in {"idle", "leave"} /\ phone[d].status \notin {"closed", "restoring"}
      /\ \/ next = "in" /\ kind \in {"login", "signup"}
         \/ next = "change" /\ kind = "change"
         \/ next = "out" /\ kind = "logout"
      /\ \E c \in Calls : Send(c, <<d, "user">>, kind, token, secret)
      /\ phone' = [phone EXCEPT ![d].user = next] /\ UNCHANGED session
  BY DEF Asks
<1>f. {"boot", "renew", "user"} = Flows
  BY DEF Flows
<1>p. phone \in [Phones -> PhoneStates] /\ phone[d] \in PhoneStates
  BY DEF Typed
<1>i. None \notin Issued
  BY Constants DEF Issued
<1>1. /\ Issued' = Issued /\ Resting(d) /\ BootApart(d)
      /\ phone[d].stored \in Issued \cup {None} /\ \A c \in Calls : Matches(d, c)
  BY <1>a DEF FlowsOK, FlowsOf, Issued
<1>2. \A c \in Calls : call[c].by # <<d, "user">>
  BY <1>1, <1>a DEF Matches
<1> DEFINE r == [phone[d] EXCEPT !.user = next]
<1>3. phone' = [phone EXCEPT ![d] = r]
  BY <1>p, <1>a
<1>4. /\ r.status = phone[d].status /\ r.stored = phone[d].stored /\ r.user = next
      /\ r.boot = phone[d].boot
  BY <1>p DEF PhoneStates
<1>5. phone'[d] = r /\ \A e \in Phones \ {d} : phone'[e] = phone[e]
  <2> HIDE DEF r
  <2> QED  BY <1>p, <1>3
<1> HIDE DEF r
<1>6. /\ OneCallPerFlow' /\ Carried' /\ \A e \in Phones \ {d} : FlowsOf(e)'
      /\ \A b \in Calls, g \in Flows : call'[b].by = <<d, g>> /\ g # "user" => call'[b] = call[b]
      /\ \A b \in Calls : call'[b].by = <<d, "user">> =>
            call'[b].kind = kind /\ call'[b].token = token /\ call'[b].new = None
  BY <1>1, <1>2, <1>5, <1>a, <1>f, FlowSends
<1>7. ASSUME NEW b \in Calls  PROVE Matches(d, b)'
  <2>1. /\ call'[b].by = <<d, "boot">> => call'[b] = call[b]
        /\ call'[b].by = <<d, "renew">> => call'[b] = call[b]
    BY <1>6, <1>f
  <2>2. Matches(d, b)
    BY <1>1
  <2> QED  BY <2>1, <2>2, <1>4, <1>5, <1>6, <1>a DEF Matches
<1>8. Resting(d)'
  BY <1>1, <1>4, <1>5, <1>a DEF Resting
<1>9. BootApart(d)'
  BY <1>1, <1>4, <1>5, <1>6, <1>i, <1>f DEF BootApart
<1> QED  BY <1>1, <1>4, <1>5, <1>6, <1>7, <1>8, <1>9 DEF FlowsOK, FlowsOf

LEMMA UserSendsFlows ==
    ASSUME Typed, FlowsOK, NEW d \in Phones, NEW next, NEW kind, NEW token, NEW secret,
           NEW status \in {"signedOut", "signedIn"},
           UserSends(d, status, next, kind, token, secret),
           \/ next = "in" /\ kind \in {"login", "signup"}
           \/ next = "change" /\ kind = "change"
           \/ next = "out" /\ kind = "logout"
    PROVE  FlowsOK'
<1>1. Asks(d, next, kind, token, secret)
  BY DEF UserSends, Asks
<1> QED  BY <1>1, UserFlows

LEMMA CloseFlows ==
    ASSUME Typed, FlowsOK, NEW d \in Phones, CloseApp(d)
    PROVE  FlowsOK'
<1>p. phone \in [Phones -> PhoneStates] /\ ServerOK
  BY DEF Typed
<1>1. /\ Issued' = Issued /\ phone[d].stored \in Issued \cup {None}
      /\ Abandon(Waiting(d))
  BY DEF CloseApp, FlowsOK, FlowsOf, Issued
<1>2. ASSUME NEW c \in Calls
      PROVE  \/ c \in Waiting(d) /\ call'[c] = NoCall
             \/ c \notin Waiting(d) /\ call'[c] = call[c]
             \/ /\ c \in Waiting(d) /\ call[c].at \notin Outcomes /\ call'[c].by = None
                /\ call'[c].kind = call[c].kind /\ call'[c].at = call[c].at
                /\ call'[c].token = call[c].token /\ call'[c].new = call[c].new
  BY <1>p, <1>1, Abandoned
<1>3. \A e \in Phones, flow \in Flows : <<e, flow>> # None
  BY Constants, PhoneAssumption
<1>4. ASSUME NEW c \in Calls
      PROVE  /\ call'[c].by # None => call'[c] = call[c] /\ c \notin Waiting(d)
             /\ call'[c].new \in {call[c].new, None}
             /\ call'[c].at = "free" \/ (call'[c].at = call[c].at /\ call'[c].kind = call[c].kind
                                          /\ call'[c].new = call[c].new)
  BY <1>2 DEF NoCall
<1>5. ASSUME NEW c \in Calls, NEW flow \in Flows  PROVE call'[c].by # <<d, flow>>
  <2>1. call[c].by = <<d, flow>> => c \in Waiting(d)
    BY DEF Waiting, Awaited
  <2> QED  BY <1>3, <1>4, <2>1
<1> DEFINE r == [Closed EXCEPT !.stored = phone[d].stored]
<1>6. /\ r.status = "closed" /\ r.stored = phone[d].stored /\ r.user = "idle"
      /\ r.boot.at = "none"
  BY DEF Closed, NoBoot
<1>7. phone'[d] = r /\ \A e \in Phones \ {d} : phone'[e] = phone[e]
  <2>1. phone' = [phone EXCEPT ![d] = r]
    BY DEF CloseApp
  <2> HIDE DEF r
  <2> QED  BY <1>p, <2>1
<1> HIDE DEF r
<1>8. OneCallPerFlow'
  BY <1>4 DEF OneCallPerFlow, FlowsOK
<1>9. Carried'
  BY <1>1, <1>4 DEF Carried, FlowsOK
<1>10. FlowsOf(d)'
  BY <1>1, <1>5, <1>6, <1>7 DEF FlowsOf, Matches, Resting, BootApart, Flows
<1>11. ASSUME NEW e \in Phones \ {d}  PROVE FlowsOf(e)'
  <2>1. Alike(e) /\ FlowsOf(e)
    BY <1>7 DEF Alike, FlowsOK
  <2> QED  BY <1>1, <1>3, <1>4, <2>1, Undisturbed
<1> QED  BY <1>8, <1>9, <1>10, <1>11 DEF FlowsOK
-----------------------------------------------------------------------------
LEMMA FlowsInit == Init => FlowsOK
<1> SUFFICES ASSUME Init  PROVE FlowsOK
  OBVIOUS
<1>1. /\ \A c \in Calls : call[c].by = None /\ call[c].new = None /\ call[c].at = "free"
      /\ \A d \in Phones : phone[d].status = "closed" /\ phone[d].stored = None
                            /\ phone[d].user = "idle" /\ phone[d].boot.at = "none"
  BY DEF Init, ServerInit, NoCall, Closed, NoBoot
<1>2. OneCallPerFlow /\ Carried
  BY <1>1 DEF OneCallPerFlow, Carried
<1>3. ASSUME NEW d \in Phones  PROVE FlowsOf(d)
  <2>1. \A flow \in Flows : <<d, flow>> # None
    BY Constants, PhoneAssumption
  <2>2. <<d, "boot">> # None /\ <<d, "renew">> # None /\ <<d, "user">> # None
    BY <2>1 DEF Flows
  <2> QED  BY <1>1, <2>2 DEF FlowsOf, Matches, Resting, BootApart
<1> QED  BY <1>2, <1>3 DEF FlowsOK

LEMMA FlowsStep ==
    ASSUME Typed, Renewing, FlowsOK, [Next]_vars
    PROVE  FlowsOK'
<1>s. ServerOK
  BY DEF Typed
<1>p. /\ phone \in [Phones -> PhoneStates]
      /\ \A d \in Phones : phone[d] \in PhoneStates /\ phone[d].boot \in Boots
      /\ \A d \in Phones : phone[d].boot.left \in Nat
  BY PhoneFields, BootFields DEF Typed
<1>1. ASSUME NEW c \in Calls, Handle(c)  PROVE FlowsOK'
  BY <1>1, <1>s, KeptServe, HandlerFlows DEF Handle
<1>2. ASSUME NEW c \in Calls, Deliver(c) \/ LoseAnswer(c)  PROVE FlowsOK'
  BY <1>2, AnswerFlows
<1>3. ASSUME NEW c \in Calls, Crash(c)  PROVE FlowsOK'
  <2>1. "failed" \in Outcomes /\ Issued' = Issued /\ UNCHANGED phone /\ Reply(c, "failed")
    BY <1>3 DEF Outcomes, Crash, Die, Issued
  <2>2. Kept(c)
    BY <1>s, <2>1, KeptReply
  <2> QED  BY <2>1, <2>2, HandlerFlows
<1>4. ASSUME NEW c \in Calls, ChangeElsewhere(c)  PROVE FlowsOK'
  <2>1. /\ call'[c].by = None /\ call'[c].new = None /\ call'[c].at = "sent"
        /\ \A b \in Calls \ {c} : call'[b] = call[b]
    BY <1>4, <1>s, Sent DEF ChangeElsewhere
  <2>2. phone' = phone /\ Issued' = Issued
    BY <1>4 DEF ChangeElsewhere, Issued
  <2>3. OneCallPerFlow' /\ Carried'
    BY <2>1, <2>2 DEF OneCallPerFlow, Carried, FlowsOK
  <2>4. ASSUME NEW d \in Phones  PROVE FlowsOf(d)'
    <3>1. \A flow \in Flows : <<d, flow>> # None
      BY Constants, PhoneAssumption
    <3> QED  BY <2>1, <2>2, <3>1, Undisturbed DEF FlowsOK, Alike
  <2> QED  BY <2>3, <2>4 DEF FlowsOK
<1>5. ASSUME NEW d \in Phones, Launch(d) \/ TryAgain(d) \/ Renew(d) \/ CloseApp(d)
      PROVE  FlowsOK'
  BY <1>5, LaunchFlows, TryAgainFlows, RenewFlows, CloseFlows
<1>6. ASSUME NEW d \in Phones, NEW secret,
             SignUp(d) \/ SignOut(d) \/ SignIn(d, secret) \/ ChangePassword(d, secret)
      PROVE  FlowsOK'
  <2>1. CASE SignUp(d)
    <3>1. UserSends(d, "signedOut", "in", "signup", None, 0)
      BY <2>1 DEF SignUp
    <3> QED  BY <3>1, UserSendsFlows
  <2>2. CASE SignOut(d)
    <3>1. UserSends(d, "signedIn", "out", "logout", phone[d].stored, 0)
      BY <2>2 DEF SignOut
    <3> QED  BY <3>1, UserSendsFlows
  <2>3. CASE SignIn(d, secret)
    <3>1. UserSends(d, "signedOut", "in", "login", None, secret)
      BY <2>3 DEF SignIn
    <3> QED  BY <3>1, UserSendsFlows
  <2>4. CASE ChangePassword(d, secret)
    <3>1. UserSends(d, "signedIn", "change", "change", None, secret)
      BY <2>4 DEF ChangePassword
    <3> QED  BY <3>1, UserSendsFlows
  <2> QED  BY <1>6, <2>1, <2>2, <2>3, <2>4
<1>7. ASSUME NEW d \in Phones, LeaveAfterChange(d)  PROVE FlowsOK'
  <2>1. phone[d].user \in {"idle", "leave"} /\ phone[d].status \notin {"closed", "restoring"}
    BY <1>7 DEF LeaveAfterChange, FlowsOK, FlowsOf, Resting
  <2>2. Asks(d, "out", "logout", phone[d].stored, 0)
    BY <1>7, <2>1 DEF LeaveAfterChange, Asks
  <2> QED  BY <2>2, UserFlows
<1>8. CASE Elapse
  <2>1. PICK first \in Pausing :
          /\ Wait(phone[first].boot.left)
          /\ phone' = [d \in Phones |-> IF d \in Pausing
                THEN [phone[d] EXCEPT !.boot.left = @ - phone[first].boot.left] ELSE phone[d]]
    BY <1>8 DEF Elapse
  <2>2. Issued' = Issued /\ call' = call
    BY <1>8, <1>s, <1>p, <2>1, QuietRows, SameSuccession DEF Elapse, Pausing
  <2>3. ASSUME NEW d \in Phones  PROVE Alike(d)
    <3>1. CASE d \in Pausing
      <4> DEFINE left == phone[d].boot.left - phone[first].boot.left
                 boot == [phone[d].boot EXCEPT !.left = left]
                 r == [phone[d] EXCEPT !.boot = boot]
      <4>1. phone'[d] = r
        BY <2>1, <3>1, <1>p DEF PhoneStates, Boots
      <4>2. boot.at = phone[d].boot.at /\ boot.token = phone[d].boot.token
        <5> HIDE DEF left
        <5> QED  BY <1>p, BootFields
      <4> HIDE DEF boot
      <4>3. /\ r.status = phone[d].status /\ r.stored = phone[d].stored
            /\ r.user = phone[d].user /\ r.boot = boot
        BY <1>p DEF PhoneStates
      <4> HIDE DEF r
      <4> QED  BY <4>1, <4>2, <4>3 DEF Alike
    <3>2. CASE d \notin Pausing
      BY <2>1, <3>2 DEF Alike
    <3> QED  BY <3>1, <3>2
  <2> QED  BY <2>2, <2>3, NoCalls
<1>9. CASE OwnerResets
  <2>1. Issued' = Issued /\ call' = call /\ phone' = phone
    BY <1>9, <1>s, QuietRows, SameSuccession DEF OwnerResets, ResetResidentPassword
  <2> QED  BY <2>1, NoCalls DEF Alike
<1>10. ASSUME NEW month \in BOOLEAN, Idle(month)  PROVE FlowsOK'
  <2>1. Issued' = Issued /\ call' = call
    BY <1>10, <1>s, QuietRows, SameSuccession DEF Idle
  <2>2. ASSUME NEW d \in Phones  PROVE Alike(d)
    BY <1>10, <2>2, <1>s, Asleep DEF Alike, Typed
  <2> QED  BY <2>1, <2>2, NoCalls
<1>11. CASE UNCHANGED vars
  <2>1. Issued' = Issued /\ call' = call /\ phone' = phone
    BY <1>11 DEF vars, server, Issued
  <2> QED  BY <2>1, NoCalls DEF Alike
<1> QED
  BY <1>1, <1>2, <1>3, <1>4, <1>5, <1>6, <1>7, <1>8, <1>9, <1>10, <1>11 DEF Next

LEMMA FlowsInvariant == Spec => [](Typed /\ FlowsOK)
<1>1. Typed /\ Chains /\ Renewing /\ FlowsOK /\ [Next]_vars => FlowsOK'
  BY FlowsStep
<1> QED  BY PhoneInvariant, FlowsInit, <1>1, PTL DEF Spec

(* Whatever calls meet, are lost, abandoned or fail half-way, the rows of  *)
(* auth.service.ts and the states of authStore.ts stay well formed, and    *)
(* whoever is answered with a token finds its row stored: issueSession     *)
(* awaits it.                                                              *)
THEOREM SessionsWellFormed == Spec => []TypeOK
<1>1. Typed /\ FlowsOK => TypeOK
  BY Constants DEF Typed, TypeOK, AnswersStored, FlowsOK, Carried
<1> QED  BY <1>1, FlowsInvariant, PTL

LEMMA OneRenewal == Typed /\ FlowsOK => OneRenewalPerToken
<1> SUFFICES ASSUME Typed, FlowsOK, NEW d \in Phones, NEW t \in Tokens
             PROVE  Cardinality({c \in Calls : /\ \E flow \in Flows : call[c].by = <<d, flow>>
                                               /\ call[c].kind = "refresh" /\ call[c].token = t
                                               /\ call[c].at \notin Outcomes}) <= 1
  BY DEF OneRenewalPerToken
<1> DEFINE S == {c \in Calls : /\ \E flow \in Flows : call[c].by = <<d, flow>>
                               /\ call[c].kind = "refresh" /\ call[c].token = t
                               /\ call[c].at \notin Outcomes}
<1>1. FlowsOf(d) /\ BootApart(d) /\ \A c \in Calls : Matches(d, c)
  BY DEF FlowsOK, FlowsOf
<1>2. \A flow \in Flows : <<d, flow>> # None /\ flow \in {"boot", "renew", "user"}
  BY Constants, PhoneAssumption DEF Flows
<1>3. ASSUME NEW b \in S, NEW c \in S  PROVE b = c
  <2>1. PICK f \in Flows : call[b].by = <<d, f>>
    OBVIOUS
  <2>2. PICK g \in Flows : call[c].by = <<d, g>>
    OBVIOUS
  <2>3. f # "user" /\ g # "user"
    BY <1>1, <2>1, <2>2 DEF Matches
  <2>4. CASE f = g
    BY <1>2, <2>1, <2>2, <2>4 DEF FlowsOK, OneCallPerFlow
  <2>5. CASE f = "boot" /\ g = "renew"
    BY <1>1, <2>1, <2>2, <2>5 DEF Matches, BootApart
  <2>6. CASE f = "renew" /\ g = "boot"
    BY <1>1, <2>1, <2>2, <2>6 DEF Matches, BootApart
  <2> QED  BY <1>2, <2>3, <2>4, <2>5, <2>6
<1>4. S = {} \/ \E c : S = {c}
  <2> HIDE DEF S
  <2> QED  BY <1>3
<1>5. Cardinality(S) <= 1
  <2> HIDE DEF S
  <2> QED  BY <1>4, FS_EmptySet, FS_Singleton
<1> QED  BY <1>5

(* Whatever a launch still retries while the user has signed in again, and *)
(* however many requests meet a stale access token, no phone has two       *)
(* renewals of one token under way: refreshSession joins the renewal in    *)
(* flight, and the token a launch retries is no longer the one the phone   *)
(* is signed in with (authStore.ts: the retry that finds itself replaced). *)
THEOREM RenewsOneAtATime == Spec => []OneRenewalPerToken
BY FlowsInvariant, OneRenewal, PTL
-----------------------------------------------------------------------------
(* The phone of another flow, or of the same, when an answer is taken.     *)
LEMMA AnswerKeepsToken ==
    ASSUME Typed, FlowsOK, SignedInHoldsToken, "limit" \notin seen',
           NEW c \in Calls, Deliver(c) \/ LoseAnswer(c)
    PROVE  SignedInHoldsToken'
<1>s. call[c] \in Requests /\ (call[c].at \in Outcomes => call[c].by \in Callers)
      /\ phone \in [Phones -> PhoneStates]
  BY DEF Typed, ServerOK
<1>1. call[c].by \in Callers
  BY <1>s DEF Deliver, LoseAnswer, TakeAnswer, HangUp, Requests
<1>2. PICK d \in Phones, flow \in Flows : call[c].by = <<d, flow>>
  BY <1>1, PhoneAssumption
<1>3. PICK outcome, token :
         /\ outcome \in Outcomes
         /\ Answered(call[c].by, outcome, token)
         /\ outcome = "ok" /\ call[c].kind \in {"login", "signup", "refresh"} => token # None
         /\ outcome = "limited" => call[c].kind # "refresh"
  <2>1. CASE Deliver(c)
    <3>1. call[c].kind = "refresh" => call[c].at # "limited"
      BY <2>1 DEF Deliver, Noted
    <3> QED  BY <2>1, <3>1 DEF Deliver, TakeAnswer, Carried, FlowsOK
  <2>2. CASE LoseAnswer(c)
    <3>1. "failed" \in Outcomes
      BY DEF Outcomes
    <3> QED  BY <2>2, <3>1 DEF LoseAnswer
  <2> QED  BY <2>1, <2>2
<1>k. "limit" \notin seen
  BY DEF Deliver, LoseAnswer, Noted
<1>4. Matches(d, c) /\ flow \in {"boot", "renew", "user"}
  BY DEF FlowsOK, FlowsOf, Flows
<1> DEFINE ph == phone[d]
           r == CASE flow = "boot" -> BootAnswered(ph, outcome, token)
                  [] flow = "renew" -> RenewAnswered(ph, outcome, token)
                  [] flow = "user" -> UserAnswered(ph, outcome, token)
<1>5. phone' = [phone EXCEPT ![d] = r]
  <2>1. call[c].by[1] = d /\ call[c].by[2] = flow
    BY <1>2
  <2> QED  BY <1>3, <2>1 DEF Answered
<1>6. phone'[d] = r /\ \A e \in Phones \ {d} : phone'[e] = phone[e]
  <2> HIDE DEF r
  <2> QED  BY <1>s, <1>5
<1>7. r.status = "signedIn" => r.stored # None
  <2>0. ph \in PhoneStates /\ (ph.status = "signedIn" => ph.stored # None)
    BY <1>s, <1>k DEF SignedInHoldsToken
  <2>1. CASE flow = "boot"
    <3>1. r = BootAnswered(ph, outcome, token)
      BY <2>1
    <3>2. call[c].kind = "refresh"
      BY <1>2, <1>4, <2>1 DEF Matches
    <3> HIDE DEF r, ph
    <3>3. \/ r.status = ph.status /\ r.stored = ph.stored
          \/ outcome = "ok" /\ r.stored = token
          \/ r.status = "signedOut"
          \/ outcome = "limited"
      <4>1. \/ r.status = ph.status /\ r.stored = ph.stored
            \/ outcome = "ok" /\ r.status = "signedIn" /\ r.stored = token
            \/ r.status = "signedOut" /\ r.stored = None
            \/ outcome = "limited" /\ r.status = ph.status /\ r.stored = None
            \/ /\ r.stored = ph.stored
               /\ r.status = IF ph.boot.tries = 1 THEN "signedOut" ELSE ph.status
        BY <1>3, <2>0, <3>1, BootAnsweredIs
      <4> QED  BY <4>1
    <3> QED  BY <1>3, <2>0, <3>2, <3>3
  <2>2. CASE flow = "renew"
    <3>1. r = RenewAnswered(ph, outcome, token)
      BY <2>2
    <3>2. call[c].kind = "refresh"
      BY <1>2, <1>4, <2>2 DEF Matches
    <3> HIDE DEF r, ph
    <3> QED  BY <1>3, <2>0, <3>1, <3>2, RenewAnsweredIs
  <2>3. CASE flow = "user"
    <3>1. r = UserAnswered(ph, outcome, token)
      BY <2>3
    <3>2. /\ ph.user \in {"in", "change", "out"}
          /\ ph.user = "in" => call[c].kind \in {"login", "signup"}
      BY <1>2, <1>4, <2>3 DEF Matches
    <3> HIDE DEF r, ph
    <3>3. \/ r.status = ph.status /\ r.stored = ph.stored
          \/ outcome = "ok" /\ ph.user = "in" /\ r.stored = token
          \/ r.status = "signedOut"
      BY <2>0, <3>1, <3>2, UserAnsweredIs
    <3> QED  BY <1>3, <2>0, <3>2, <3>3
  <2> QED  BY <1>4, <2>1, <2>2, <2>3
<1> HIDE DEF r
<1> QED  BY <1>k, <1>6, <1>7 DEF SignedInHoldsToken

LEMMA TokenHeldStep ==
    ASSUME Typed, FlowsOK, SignedInHoldsToken, "limit" \notin seen', [Next]_vars
    PROVE  SignedInHoldsToken'
<1>k. "limit" \notin seen
  BY SeenGrows
<1>p. /\ phone \in [Phones -> PhoneStates]
      /\ \A d \in Phones : phone[d] \in PhoneStates /\ phone[d].boot \in Boots
  BY PhoneFields DEF Typed
<1> DEFINE Still(d) == \/ phone'[d].status = phone[d].status /\ phone'[d].stored = phone[d].stored
                       \/ phone'[d].status # "signedIn"
<1>1. (\A d \in Phones : Still(d)) => SignedInHoldsToken'
  BY <1>k DEF SignedInHoldsToken
<1>2. ASSUME UNCHANGED phone  PROVE SignedInHoldsToken'
  BY <1>1, <1>2
<1>3. ASSUME NEW c \in Calls, Deliver(c) \/ LoseAnswer(c)  PROVE SignedInHoldsToken'
  BY <1>3, AnswerKeepsToken
<1>4. ASSUME NEW d \in Phones, NEW r, phone' = [phone EXCEPT ![d] = r],
             (r.status = phone[d].status /\ r.stored = phone[d].stored) \/ r.status # "signedIn"
      PROVE  SignedInHoldsToken'
  BY <1>1, <1>4, <1>p
<1>5. ASSUME NEW d \in Phones, Launch(d)  PROVE SignedInHoldsToken'
  <2> DEFINE out == [phone[d] EXCEPT !.status = "signedOut"]
             asked == [phone[d] EXCEPT !.status = "restoring",
                          !.boot = [NoBoot EXCEPT !.at = "exchange", !.token = phone[d].stored]]
  <2>1. phone' = [phone EXCEPT ![d] = out] \/ phone' = [phone EXCEPT ![d] = asked]
    BY <1>5, <1>p DEF Launch
  <2>2. out.status = "signedOut" /\ asked.status = "restoring"
    BY <1>p DEF PhoneStates
  <2> HIDE DEF out, asked
  <2> QED  BY <1>4, <2>1, <2>2
<1>6. ASSUME NEW d \in Phones, TryAgain(d)  PROVE SignedInHoldsToken'
  <2> DEFINE stop == [phone[d] EXCEPT !.boot = NoBoot]
             asked == [phone[d] EXCEPT !.boot = [phone[d].boot EXCEPT !.at = "exchange"]]
  <2>1. phone' = [phone EXCEPT ![d] = stop] \/ phone' = [phone EXCEPT ![d] = asked]
    BY <1>6, <1>p DEF TryAgain, PhoneStates
  <2>2. /\ stop.status = phone[d].status /\ asked.status = phone[d].status
        /\ stop.stored = phone[d].stored /\ asked.stored = phone[d].stored
    BY <1>p DEF PhoneStates
  <2> HIDE DEF stop, asked
  <2> QED  BY <1>4, <2>1, <2>2
<1>7. ASSUME NEW d \in Phones, Renew(d)  PROVE SignedInHoldsToken'
  <2> DEFINE r == Dropped(phone[d])
  <2>1. UNCHANGED phone \/ phone' = [phone EXCEPT ![d] = r]
    BY <1>7, <1>p DEF Renew
  <2>2. r.status = "signedOut"
    BY <1>p DEF Dropped, PhoneStates
  <2> HIDE DEF r
  <2> QED  BY <1>2, <1>4, <2>1, <2>2
<1>8. ASSUME NEW d \in Phones, NEW next, phone' = [phone EXCEPT ![d].user = next]
      PROVE  SignedInHoldsToken'
  <2> DEFINE r == [phone[d] EXCEPT !.user = next]
  <2>1. phone' = [phone EXCEPT ![d] = r]
    BY <1>8, <1>p
  <2>2. r.status = phone[d].status /\ r.stored = phone[d].stored
    BY <1>p DEF PhoneStates
  <2> HIDE DEF r
  <2> QED  BY <1>4, <2>1, <2>2
<1>9. ASSUME NEW d \in Phones, NEW secret,
             \/ SignUp(d) \/ SignOut(d) \/ SignIn(d, secret) \/ ChangePassword(d, secret)
             \/ LeaveAfterChange(d)
      PROVE  SignedInHoldsToken'
  <2>1. \E next : phone' = [phone EXCEPT ![d].user = next]
    BY <1>9 DEF SignUp, SignOut, SignIn, ChangePassword, LeaveAfterChange, UserSends
  <2> QED  BY <1>8, <2>1
<1>10. ASSUME NEW d \in Phones, CloseApp(d)  PROVE SignedInHoldsToken'
  <2> DEFINE r == [Closed EXCEPT !.stored = phone[d].stored]
  <2>1. phone' = [phone EXCEPT ![d] = r] /\ r.status = "closed"
    BY <1>10 DEF CloseApp, Closed
  <2> HIDE DEF r
  <2> QED  BY <1>4, <2>1
<1>11. ASSUME Elapse \/ \E month \in BOOLEAN : Idle(month)  PROVE SignedInHoldsToken'
  <2>1. CASE Elapse
    <3>1. \A d \in Phones : Still(d)
      BY <2>1, <1>p DEF Elapse, PhoneStates
    <3> QED  BY <1>1, <3>1
  <2>2. ASSUME NEW month \in BOOLEAN, Idle(month)  PROVE SignedInHoldsToken'
    <3>1. \A d \in Phones : Still(d)
      BY <2>2, <1>p, Asleep
    <3> QED  BY <1>1, <3>1
  <2> QED  BY <1>11, <2>1, <2>2
<1>12. UNCHANGED vars \/ OwnerResets
          \/ (\E c \in Calls : Handle(c) \/ Crash(c) \/ ChangeElsewhere(c)) => UNCHANGED phone
  BY DEF vars, OwnerResets, Handle, Crash, ChangeElsewhere
<1> QED
  BY <1>2, <1>3, <1>5, <1>6, <1>7, <1>9, <1>10, <1>11, <1>12 DEF Next

(* Until the limiter refuses a refresh, the screen never claims a session  *)
(* the keystore cannot renew: whatever answers of a launch, a renewal and  *)
(* a sign-in cross, and whenever the app is stopped, authStore.ts is       *)
(* signed in only with a token stored.                                     *)
THEOREM SignedInWithToken == Spec => []SignedInHoldsToken
<1>1. Init => SignedInHoldsToken
  BY DEF Init, SignedInHoldsToken, Closed
<1>2. Typed /\ FlowsOK /\ SignedInHoldsToken /\ [Next]_vars => SignedInHoldsToken'
  <2> SUFFICES ASSUME Typed, FlowsOK, SignedInHoldsToken, [Next]_vars
               PROVE  SignedInHoldsToken'
    OBVIOUS
  <2>1. CASE "limit" \in seen'
    BY <2>1 DEF SignedInHoldsToken
  <2>2. CASE "limit" \notin seen'
    BY <2>2, TokenHeldStep
  <2> QED  BY <2>1, <2>2
<1> QED  BY <1>1, <1>2, FlowsInvariant, PTL DEF Spec
-----------------------------------------------------------------------------
(* A refresh that still runs, whoever waits for it.                        *)
Renews(c) == Open(c) /\ call[c].kind = "refresh"

Unused(t) == session[t].replaced = None /\ \A c \in Calls : Renews(c) => call[c].token # t
Retries(d, t) == phone[d].boot.at # "none" /\ phone[d].boot.token = t
Holds(d, t) == phone[d].stored = t \/ Retries(d, t)

OneHolder == \A d, e \in Phones, t \in Tokens : Holds(d, t) /\ Holds(e, t) => d = e

(* What an answer carries is nobody's yet.                                 *)
NewUnused ==
    \A c \in Calls, t \in Tokens : call[c].new = t =>
        /\ Unused(t) /\ \A d \in Phones : ~Holds(d, t)
        /\ \A b \in Calls : call[b].new = t => b = c

(* When the n-th retry of a launch is due, in seconds after its start: n   *)
(* retries follow n losses.                                                *)
Waited == <<2, 7, 22, 52, 112>>
Due(n) == IF n = 0 THEN 0 ELSE Waited[n]
InTime(t, seconds) == session[t].replaced # None => session[t].age <= seconds

(* What a phone keeps was not replaced, unless its launch retries it, or,  *)
(* no longer ago than the losses cost, its renewal presented it or the app *)
(* was stopped before it stored the successor.                             *)
Sound(d, t) ==
    \/ Unused(t) \/ Retries(d, t)
    \/ /\ InTime(t, Due(losses))
       /\ \/ phone[d].status = "closed"
          \/ \E c \in Calls : call[c].by = <<d, "renew">> /\ call[c].token = t
StoredSound(d) == \A t \in Tokens : phone[d].stored = t => Sound(d, t)

RunsInTime(c) == call[c].token \in Issued /\ InTime(call[c].token, Due(losses))

BootInTime(d) ==
    LET boot == phone[d].boot
    IN  boot.at # "none" =>
            /\ boot.tries \in 0..5 /\ boot.tries <= losses
            /\ boot.left <= Due(losses)
            /\ session[boot.token].replaced # None =>
                  session[boot.token].age + boot.left <= Due(losses)
            /\ boot.tries >= 2 => phone[d].status # "restoring"
            /\ boot.at = "exchange" => boot.left = 0 /\ \E c \in Calls : call[c].by = <<d, "boot">>
            /\ \A c \in Calls : call[c].by = <<d, "boot">> /\ call[c].at = "failed" =>
                  boot.tries < losses /\ InTime(boot.token, Due(losses - 1))

Timely ==
    /\ OneHolder /\ NewUnused /\ losses <= 5
    /\ \A c \in Calls : Renews(c) => RunsInTime(c)
    /\ \A c \in Calls : /\ call[c].at = "reuse" => call[c].kind = "refresh"
                        /\ call[c].at = "free" => call[c].by = None
    /\ \A d \in Phones : StoredSound(d) /\ BootInTime(d)

LEMMA DueFacts ==
    ASSUME NEW n \in 0..5
    PROVE  /\ Due(n) \in 0..112 /\ Due(0) = 0
           /\ \A m \in 0..n : Due(m) <= Due(n)
           /\ n < 5 => /\ Delays[n + 1] \in 1..60 /\ Due(n) + Delays[n + 1] = Due(n + 1)
                       /\ \A m \in 0..n : Delays[m + 1] <= Delays[n + 1]
<1>1. n \in {0, 1, 2, 3, 4, 5}
  OBVIOUS
<1>2. Due(0) = 0 /\ Due(1) = 2 /\ Due(2) = 7 /\ Due(3) = 22 /\ Due(4) = 52 /\ Due(5) = 112
  BY DEF Due, Waited
<1>3. /\ Delays[1] = 2 /\ Delays[2] = 5 /\ Delays[3] = 15 /\ Delays[4] = 30
      /\ Delays[5] = 60
  BY DEF Delays
<1>4. \A m \in 0..n : m \in {0, 1, 2, 3, 4, 5} /\ m <= n
  BY <1>1
<1>5. \A m \in 0..n : Due(m) <= Due(n)
  BY <1>1, <1>2, <1>4
<1>6. n < 5 => \A m \in 0..n : Delays[m + 1] <= Delays[n + 1]
  BY <1>1, <1>3, <1>4
<1> QED  BY <1>1, <1>2, <1>3, <1>5, <1>6
-----------------------------------------------------------------------------
(* What a step does to one call, and to the rows, when it starts no        *)
(* refresh: a row gets younger, or is new, or was just replaced.           *)
CallCalm(b) ==
    /\ Renews(b)' => Renews(b) /\ call'[b].token = call[b].token
    /\ call'[b].at = "reuse" => call'[b].kind = "refresh"
    /\ call[b].at # "reuse" /\ call'[b].at = "reuse" => session[call[b].token].replaced = None
    /\ call'[b].at = "free" => call'[b].by = None

RowsCalm ==
    /\ Issued \subseteq Issued'
    /\ \A t \in Tokens :
          \/ session'[t].replaced = session[t].replaced /\ session'[t].age <= session[t].age
          \/ t \notin Issued /\ session'[t].replaced = None
          \/ /\ session'[t].age = 0
             /\ \E c \in Calls : Renews(c) /\ ~Renews(c)' /\ call[c].token = t

(* Losses are few, and none is forgotten.                                  *)
LossesGrow == losses <= losses' /\ losses' <= 5

LEMMA CallStill ==
    ASSUME Timely, NEW b \in Calls, call'[b] = call[b]
    PROVE  CallCalm(b)
<1>1. Renews(b)' = Renews(b)
  BY DEF Renews, Open
<1>2. call[b].at = "reuse" => call[b].kind = "refresh"
  BY DEF Timely
<1>3. call[b].at = "free" => call[b].by = None
  BY DEF Timely
<1> QED  BY <1>1, <1>2, <1>3 DEF CallCalm

LEMMA RowAges ==
    ASSUME Typed
    PROVE  \A t \in Tokens : session[t].age \in Nat
BY Constants DEF Typed, ServerOK, Rows

LEMMA DueGrows ==
    ASSUME Typed, Typed', Timely, LossesGrow
    PROVE  /\ losses \in 0..5 /\ losses' \in 0..5 /\ losses <= losses'
           /\ Due(losses) \in Nat /\ Due(losses') \in Nat /\ Due(losses) <= Due(losses')
           /\ Due(losses') <= 112
<1>1. losses \in 0..5 /\ losses' \in 0..5 /\ losses <= losses'
  BY DEF Typed, Timely, LossesGrow
<1>2. losses \in 0..losses'
  BY <1>1
<1> QED  BY <1>1, <1>2, DueFacts

(* A row that was replaced in time still is.                               *)
LEMMA StaysInTime ==
    ASSUME Typed, Typed', RowsCalm, NEW t \in Issued, NEW m \in Nat, NEW n \in Nat, m <= n,
           InTime(t, m)
    PROVE  session'[t].replaced # None => session'[t].age <= n
<1>1. t \in Tokens
  BY DEF Issued
<1>2. session[t].age \in Nat /\ session'[t].age \in Nat
  BY <1>1, RowAges, Constants DEF Typed, ServerOK, Rows
<1>3. \/ session'[t].replaced = session[t].replaced /\ session'[t].age <= session[t].age
      \/ session'[t].age = 0
  BY <1>1 DEF RowsCalm
<1> QED  BY <1>2, <1>3 DEF InTime

LEMMA CalmServer ==
    ASSUME Typed, Typed', Timely, \A b \in Calls : CallCalm(b), RowsCalm, LossesGrow
    PROVE  /\ \A c \in Calls : Renews(c)' => RunsInTime(c)'
           /\ \A c \in Calls : /\ call'[c].at = "reuse" => call'[c].kind = "refresh"
                               /\ call'[c].at = "free" => call'[c].by = None
           /\ \A t \in Tokens : Unused(t) => Unused(t)'
<1>1. ASSUME NEW c \in Calls, Renews(c)'  PROVE RunsInTime(c)'
  <2>1. Renews(c) /\ RunsInTime(c) /\ call'[c].token = call[c].token
    BY <1>1 DEF CallCalm, Timely
  <2>2. PICK t \in Issued : t = call[c].token
    BY <2>1 DEF RunsInTime
  <2>3. InTime(t, Due(losses))
    BY <2>1, <2>2 DEF RunsInTime
  <2>4. Due(losses) \in Nat /\ Due(losses') \in Nat /\ Due(losses) <= Due(losses')
    BY DueGrows
  <2>5. session'[t].replaced # None => session'[t].age <= Due(losses')
    BY <2>3, <2>4, StaysInTime
  <2> QED  BY <2>1, <2>2, <2>5 DEF RunsInTime, InTime, RowsCalm, Due
<1>2. ASSUME NEW t \in Tokens, Unused(t)  PROVE Unused(t)'
  BY <1>2 DEF Unused, CallCalm, RowsCalm
<1> QED  BY <1>1, <1>2 DEF CallCalm

(* The calls of a flow of d go on as they are.                             *)
Steady(d, flow) ==
    \A c \in Calls : call[c].by = <<d, flow>> =>
        call'[c].by = <<d, flow>> /\ call'[c].token = call[c].token

LEMMA StaysSound ==
    ASSUME Typed, Typed', FlowsOK, Timely, RowsCalm, LossesGrow, NEW d \in Phones,
           Steady(d, "renew"), NEW t \in Tokens, phone[d].stored = t, Unused(t) => Unused(t)',
           phone[d].status = "closed" => phone'[d].status = "closed",
           Retries(d, t) => Retries(d, t)'
    PROVE  Sound(d, t)'
<1>1. Sound(d, t) /\ t \in Issued
  BY Constants DEF Timely, StoredSound, FlowsOK, FlowsOf
<1>2. CASE InTime(t, Due(losses)) /\ phone[d].status = "closed"
  <2>1. Due(losses) \in Nat /\ Due(losses') \in Nat /\ Due(losses) <= Due(losses')
    BY DueGrows
  <2>2. session'[t].replaced # None => session'[t].age <= Due(losses')
    BY <1>1, <1>2, <2>1, StaysInTime
  <2> QED  BY <1>2, <2>2 DEF Sound, InTime, Due
<1>3. ASSUME InTime(t, Due(losses)),
             NEW c \in Calls, call[c].by = <<d, "renew">>, call[c].token = t
      PROVE  Sound(d, t)'
  <2>1. Due(losses) \in Nat /\ Due(losses') \in Nat /\ Due(losses) <= Due(losses')
    BY DueGrows
  <2>2. session'[t].replaced # None => session'[t].age <= Due(losses')
    BY <1>1, <1>3, <2>1, StaysInTime
  <2>3. call'[c].by = <<d, "renew">> /\ call'[c].token = t
    BY <1>3 DEF Steady
  <2> QED  BY <2>2, <2>3 DEF Sound, InTime, Due
<1>4. CASE Unused(t) \/ Retries(d, t)
  BY <1>4 DEF Sound
<1> QED  BY <1>1, <1>2, <1>3, <1>4 DEF Sound

(* A phone that keeps what it has, or loses its token.                     *)
Keeps(d) ==
    /\ phone'[d].boot = phone[d].boot /\ phone'[d].stored \in {phone[d].stored, None}
    /\ phone[d].status = "closed" /\ phone'[d].stored # None => phone'[d].status = "closed"

LEMMA CalmStored ==
    ASSUME Typed, Typed', FlowsOK, Timely, RowsCalm, LossesGrow,
           \A t \in Tokens : Unused(t) => Unused(t)', NEW d \in Phones, Keeps(d),
           Steady(d, "renew")
    PROVE  StoredSound(d)' /\ \A t \in Tokens : Holds(d, t)' => Holds(d, t)
<1>1. None \notin Tokens
  BY Constants
<1>2. StoredSound(d)'
  <2> SUFFICES ASSUME NEW t \in Tokens, phone'[d].stored = t
               PROVE  Sound(d, t)'
    BY DEF StoredSound
  <2>1. phone[d].stored = t /\ (phone[d].status = "closed" => phone'[d].status = "closed")
    BY <1>1 DEF Keeps
  <2>2. Retries(d, t) => Retries(d, t)'
    BY DEF Retries, Keeps
  <2> QED  BY <2>1, <2>2, StaysSound
<1> QED  BY <1>1, <1>2 DEF Holds, Retries, Keeps

LEMMA CalmBoot ==
    ASSUME Typed, Typed', FlowsOK, Timely, \A b \in Calls : CallCalm(b), RowsCalm, LossesGrow,
           NEW d \in Phones, phone'[d].boot = phone[d].boot,
           phone'[d].status = "restoring" => phone[d].status = "restoring", Steady(d, "boot"),
           \A c \in Calls : call'[c].by = <<d, "boot">> /\ call'[c].at = "failed" =>
              losses < losses' \/ (call[c].by = <<d, "boot">> /\ call[c].at = "failed")
    PROVE  BootInTime(d)'
<1> DEFINE boot == phone[d].boot
<1> SUFFICES ASSUME boot.at # "none"
             PROVE  /\ boot.tries \in 0..5 /\ boot.tries <= losses' /\ boot.left <= Due(losses')
                    /\ session'[boot.token].replaced # None =>
                          session'[boot.token].age + boot.left <= Due(losses')
                    /\ boot.tries >= 2 => phone'[d].status # "restoring"
                    /\ boot.at = "exchange" =>
                          boot.left = 0 /\ \E c \in Calls : call'[c].by = <<d, "boot">>
                    /\ \A c \in Calls : call'[c].by = <<d, "boot">> /\ call'[c].at = "failed" =>
                          /\ boot.tries < losses'
                          /\ session'[boot.token].replaced # None =>
                                session'[boot.token].age <= Due(losses' - 1)
  BY DEF BootInTime, InTime, Due
<1>t. /\ losses \in 0..5 /\ losses' \in 0..5 /\ losses <= losses'
      /\ Due(losses) \in Nat /\ Due(losses') \in Nat /\ Due(losses) <= Due(losses')
  BY DueGrows
<1>b. boot.left \in 0..120 /\ boot.token \in Issued /\ boot.token \in Tokens
  BY PhoneFields, BootFields DEF Typed, FlowsOK, FlowsOf, BootApart, Issued
<1>o. /\ boot.tries \in 0..5 /\ boot.tries <= losses /\ boot.left <= Due(losses)
      /\ session[boot.token].replaced # None =>
            session[boot.token].age + boot.left <= Due(losses)
      /\ boot.tries >= 2 => phone[d].status # "restoring"
      /\ boot.at = "exchange" => boot.left = 0 /\ \E c \in Calls : call[c].by = <<d, "boot">>
      /\ \A c \in Calls : call[c].by = <<d, "boot">> /\ call[c].at = "failed" =>
            boot.tries < losses /\ InTime(boot.token, Due(losses - 1))
  BY DEF Timely, BootInTime
<1>a. session[boot.token].age \in Nat /\ session'[boot.token].age \in Nat
  BY <1>b, RowAges, Constants DEF Typed, ServerOK, Rows
<1> HIDE DEF boot
<1>1. ASSUME session'[boot.token].replaced # None
      PROVE  session'[boot.token].age + boot.left <= Due(losses')
  <2>1. PICK m \in Nat : m = Due(losses) - boot.left
    BY <1>o, <1>t, <1>b
  <2>2. PICK n \in Nat : n = Due(losses') - boot.left
    BY <1>o, <1>t, <1>b
  <2>3. m <= n /\ InTime(boot.token, m)
    BY <1>a, <1>b, <1>o, <1>t, <2>1, <2>2 DEF InTime
  <2>4. session'[boot.token].age <= n
    BY <1>1, <1>b, <2>3, StaysInTime
  <2> QED  BY <1>a, <1>b, <1>t, <2>2, <2>4
<1>2. boot.at = "exchange" => boot.left = 0 /\ \E c \in Calls : call'[c].by = <<d, "boot">>
  BY <1>o DEF Steady
<1>3. ASSUME NEW c \in Calls, call'[c].by = <<d, "boot">>, call'[c].at = "failed"
      PROVE  /\ boot.tries < losses'
             /\ session'[boot.token].replaced # None =>
                   session'[boot.token].age <= Due(losses' - 1)
  <2>1. CASE losses < losses'
    <3>1. losses' - 1 \in 0..5 /\ losses \in 0..(losses' - 1)
      BY <1>t, <2>1
    <3>2. Due(losses' - 1) \in Nat /\ Due(losses) <= Due(losses' - 1)
      BY <3>1, DueFacts
    <3>3. InTime(boot.token, Due(losses))
      BY <1>a, <1>b, <1>o, <1>t DEF InTime
    <3>4. session'[boot.token].replaced # None => session'[boot.token].age <= Due(losses' - 1)
      BY <1>b, <1>t, <3>2, <3>3, StaysInTime
    <3> QED  BY <1>o, <1>t, <2>1, <3>4
  <2>2. CASE call[c].by = <<d, "boot">> /\ call[c].at = "failed"
    <3>1. boot.tries < losses /\ InTime(boot.token, Due(losses - 1))
      BY <1>o, <2>2
    <3>2. losses - 1 \in 0..5 /\ losses' - 1 \in 0..5 /\ losses - 1 \in 0..(losses' - 1)
      BY <1>o, <1>t, <3>1
    <3>3. /\ Due(losses - 1) \in Nat /\ Due(losses' - 1) \in Nat
          /\ Due(losses - 1) <= Due(losses' - 1)
      BY <3>2, DueFacts
    <3>4. session'[boot.token].replaced # None => session'[boot.token].age <= Due(losses' - 1)
      BY <1>b, <3>1, <3>3, StaysInTime
    <3> QED  BY <1>o, <1>t, <3>1, <3>4
  <2> QED  BY <1>3, <2>1, <2>2
<1>4. boot.tries <= losses' /\ boot.left <= Due(losses')
  BY <1>o, <1>t, <1>b
<1> QED  BY <1>1, <1>2, <1>3, <1>4, <1>o
-----------------------------------------------------------------------------
(* A handler goes on by a statement, or fails.                             *)
Handled(c) ==
    /\ Open(c) /\ Kept(c) /\ RowsCalm /\ CallCalm(c) /\ call'[c].by = call[c].by
    /\ call'[c].at = "failed" => losses < losses'
    /\ call'[c].new # call[c].new /\ call'[c].new # None =>
          session'[call'[c].new].replaced = None

LEMMA HandlerTimely ==
    ASSUME Typed, Typed', FlowsOK, Timely, NEW c \in Calls, Handled(c), UNCHANGED phone,
           LossesGrow
    PROVE  Timely'
<1>i. None \notin Issued /\ None \notin Tokens
  BY Constants DEF Issued
<1>1. \A b \in Calls : CallCalm(b)
  BY CallStill DEF Handled, Kept
<1>2. /\ \A b \in Calls : Renews(b)' => RunsInTime(b)'
      /\ \A b \in Calls : /\ call'[b].at = "reuse" => call'[b].kind = "refresh"
                          /\ call'[b].at = "free" => call'[b].by = None
      /\ \A t \in Tokens : Unused(t) => Unused(t)'
  BY <1>1, CalmServer DEF Handled
<1>3. \A d \in Phones, flow \in Flows : Steady(d, flow)
  <2>1. \A d \in Phones, flow \in Flows : <<d, flow>> # None
    BY Constants, PhoneAssumption
  <2>2. ASSUME NEW b \in Calls, call[b].by # None
        PROVE  call'[b].by = call[b].by /\ call'[b].token = call[b].token
    <3>1. call'[c].by = call[c].by /\ NoCall.by = None
      BY DEF Handled, NoCall
    <3>2. b # c => call'[b] = call[b]
      BY DEF Handled, Kept
    <3>3. call'[c] = NoCall \/ call'[c].token = call[c].token
      BY DEF Handled, Kept
    <3> QED  BY <2>2, <3>1, <3>2, <3>3
  <2> QED  BY <2>1, <2>2 DEF Steady
<1>4. ASSUME NEW d \in Phones  PROVE StoredSound(d)' /\ BootInTime(d)'
  <2>1. Steady(d, "boot") /\ Steady(d, "renew")
    BY <1>3 DEF Flows
  <2>2. \A b \in Calls : call'[b].by = <<d, "boot">> /\ call'[b].at = "failed" =>
           losses < losses' \/ (call[b].by = <<d, "boot">> /\ call[b].at = "failed")
    BY DEF Handled, Kept
  <2>3. BootInTime(d)'
    BY <2>1, <2>2, <1>1, CalmBoot DEF Handled
  <2>4. Keeps(d) /\ RowsCalm
    BY DEF Keeps, Handled
  <2> QED  BY <2>1, <2>3, <2>4, <1>2, CalmStored
<1>5. OneHolder' /\ losses' <= 5
  BY DEF OneHolder, Timely, Holds, Retries, LossesGrow
<1>6. NewUnused'
  <2> SUFFICES ASSUME NEW b \in Calls, NEW t \in Tokens, call'[b].new = t
               PROVE  /\ Unused(t)' /\ \A d \in Phones : ~Holds(d, t)'
                      /\ \A a \in Calls : call'[a].new = t => a = b
    BY DEF NewUnused
  <2>h. \A d \in Phones : Holds(d, t)' = Holds(d, t)
    BY DEF Holds, Retries
  <2>n. \A a \in Calls : \/ call'[a].new = call[a].new \/ call'[a].new = None
                         \/ a = c /\ call'[a].new \in Issued' \ Issued
    BY DEF Handled, Kept, NoCall
  <2>m. \A a \in Calls : call[a].new \in Issued \cup {None}
    BY DEF FlowsOK, Carried
  <2>1. CASE call[b].new = t
    <3>1. /\ Unused(t) /\ \A d \in Phones : ~Holds(d, t)
          /\ \A a \in Calls : call[a].new = t => a = b
      BY <2>1 DEF Timely, NewUnused
    <3>2. t \in Issued
      BY <2>1, <2>m, <1>i
    <3> QED  BY <3>1, <3>2, <2>h, <2>n, <1>2, <1>i
  <2>2. CASE call[b].new # t
    <3>1. b = c /\ t \in Issued' \ Issued
      BY <2>2, <2>n, <1>i
    <3>2. session'[t].replaced = None
      BY <2>2, <3>1, <1>i DEF Handled
    <3>3. \A a \in Calls : Renews(a)' => call'[a].token # t
      BY <3>1, <1>1 DEF CallCalm, Timely, RunsInTime
    <3>4. \A d \in Phones : ~Holds(d, t)
      BY <3>1, <1>i DEF Holds, Retries, FlowsOK, FlowsOf, BootApart
    <3>5. \A a \in Calls : call'[a].new = t => a = b
      BY <3>1, <2>n, <2>m, <1>i
    <3> QED  BY <3>2, <3>3, <3>4, <3>5, <2>h DEF Unused
  <2> QED  BY <2>1, <2>2
<1> QED  BY <1>2, <1>4, <1>5, <1>6 DEF Timely

(* A statement that issues no token and replaces none.                     *)
Moved(c, label) ==
    /\ Open(c)
    /\ \/ call[c].by = None /\ call'[c] = NoCall
       \/ /\ call'[c].kind = call[c].kind /\ call'[c].by = call[c].by
          /\ call'[c].token = call[c].token /\ call'[c].new = call[c].new
          /\ call'[c].at = label
    /\ label \notin {"failed", "free"}
    /\ label = "reuse" => call[c].kind = "refresh" /\ session[call[c].token].replaced = None

LEMMA MovedGoto ==
    ASSUME ServerOK, NEW c \in Calls, NEW label, Goto(c, label), Open(c),
           label \notin {"failed", "free"},
           label = "reuse" => call[c].kind = "refresh" /\ session[call[c].token].replaced = None
    PROVE  Moved(c, label)
<1> DEFINE r == [call[c] EXCEPT !.at = label]
<1>1. call' = [call EXCEPT ![c] = r] /\ call[c] \in Requests
  BY DEF Goto, ServerOK
<1>2. /\ r.kind = call[c].kind /\ r.by = call[c].by /\ r.token = call[c].token
      /\ r.new = call[c].new /\ r.at = label
  BY <1>1 DEF Requests
<1>3. call'[c] = r
  BY <1>1 DEF ServerOK
<1> HIDE DEF r
<1> QED  BY <1>2, <1>3 DEF Moved

LEMMA MovedReply ==
    ASSUME ServerOK, NEW c \in Calls, NEW outcome \in {"ok", "refused", "limited"},
           Reply(c, outcome), Open(c)
    PROVE  Moved(c, outcome)
<1> DEFINE r == [call[c] EXCEPT !.at = outcome]
<1>1. call[c] \in Requests /\ ((call[c].by = None /\ call'[c] = NoCall) \/ call'[c] = r)
  BY DEF Reply, ServerOK
<1>2. /\ r.kind = call[c].kind /\ r.by = call[c].by /\ r.token = call[c].token
      /\ r.new = call[c].new /\ r.at = outcome
  BY <1>1 DEF Requests
<1> HIDE DEF r
<1> QED  BY <1>1, <1>2 DEF Moved

LEMMA RowsYounger ==
    ASSUME ServerOK, UNCHANGED session \/ \E rows : session' = Revoked(rows)
    PROVE  RowsCalm
<1>1. \A t \in Tokens : session[t] \in Rows /\ session[t].age \in Nat
  BY Constants DEF ServerOK, Rows
<1>2. SameChains
  BY QuietRows
<1>3. Issued' = Issued
  BY <1>2, SameSuccession
<1>4. ASSUME NEW t \in Tokens  PROVE session'[t].age <= session[t].age
  <2>1. session'[t] = session[t] \/ session'[t] = [session[t] EXCEPT !.revoked = TRUE, !.age = 0]
    BY DEF Revoked
  <2>2. session'[t].age \in {session[t].age, 0}
    BY <1>1, <2>1 DEF Rows
  <2> QED  BY <1>1, <2>2
<1> QED  BY <1>2, <1>3, <1>4 DEF RowsCalm, SameChains

LEMMA MovedHandled ==
    ASSUME ServerOK, NEW c \in Calls, Kept(c), NEW label, Moved(c, label),
           UNCHANGED session \/ \E rows : session' = Revoked(rows)
    PROVE  Handled(c)
<1>1. RowsCalm
  BY RowsYounger
<1>2. CASE call[c].by = None /\ call'[c] = NoCall
  BY <1>1, <1>2 DEF Handled, Moved, CallCalm, Renews, Open, NoCall
<1>3. CASE /\ call'[c].kind = call[c].kind /\ call'[c].by = call[c].by
           /\ call'[c].token = call[c].token /\ call'[c].new = call[c].new
           /\ call'[c].at = label
  BY <1>1, <1>3 DEF Handled, Moved, CallCalm, Renews, Open
<1> QED  BY <1>2, <1>3 DEF Moved

LEMMA IssueHandled ==
    ASSUME ServerOK, Renewing, NEW c \in Calls, Kept(c), IssueSession(c)
    PROVE  Handled(c)
<1>s. call \in [Calls -> Requests] /\ call[c] \in Requests /\ session \in [Tokens -> Rows]
  BY DEF ServerOK
<1>1. PICK t \in NextToken :
        LET refreshed == call[c].kind = "refresh"
            family == IF refreshed THEN session[call[c].token].family ELSE t
            vouched == IF refreshed THEN session[call[c].token].since ELSE call[c].secret
            done == IF refreshed /\ ~call[c].again THEN "rotate" ELSE "ok"
        IN  /\ session' = [session EXCEPT ![t] =
                              [NoRow EXCEPT !.family = family, !.since = vouched]]
            /\ call' = [call EXCEPT ![c] = IF done = "ok" /\ @.by = None THEN NoCall
                                           ELSE [@ EXCEPT !.at = done, !.new = t]]
  BY DEF IssueSession
<1> DEFINE refreshed == call[c].kind = "refresh"
           family == IF refreshed THEN session[call[c].token].family ELSE t
           vouched == IF refreshed THEN session[call[c].token].since ELSE call[c].secret
           done == IF refreshed /\ ~call[c].again THEN "rotate" ELSE "ok"
           r == [call[c] EXCEPT !.at = done, !.new = t]
           row == [NoRow EXCEPT !.family = family, !.since = vouched]
<1>2. t \in Tokens /\ t \notin Issued
  <2>1. t \in 1..MaxToken /\ Issued = 1..(t - 1)
    BY DEF NextToken, Tokens
  <2> QED  BY <2>1, Constants DEF Tokens
<1>3. row.replaced = None
  BY DEF NoRow
<1>4. session'[t].replaced = None /\ \A u \in Tokens \ {t} : session'[u] = session[u]
  <2>1. session' = [session EXCEPT ![t] = row]
    BY <1>1
  <2> HIDE DEF row
  <2> QED  BY <2>1, <1>2, <1>3, <1>s
<1>5. Issued \subseteq Issued'
  BY DEF Kept
<1>6. RowsCalm
  <2>1. \A u \in Tokens : session[u].age \in Nat
    BY Constants DEF ServerOK, Rows
  <2> QED  BY <1>2, <1>4, <1>5, <2>1 DEF RowsCalm
<1>7. \/ call'[c] = NoCall /\ call[c].by = None
      \/ call'[c] = r
  BY <1>1, <1>s
<1>8. /\ r.kind = call[c].kind /\ r.by = call[c].by /\ r.token = call[c].token
      /\ r.new = t /\ r.at = done /\ done \in {"rotate", "ok"}
  BY <1>s DEF Requests
<1>9. Open(c)
  BY DEF IssueSession, Open, Outcomes
<1> HIDE DEF r, done
<1>10. CASE call'[c] = NoCall /\ call[c].by = None
  BY <1>6, <1>9, <1>10 DEF Handled, CallCalm, Renews, Open, NoCall
<1>11. CASE call'[c] = r
  BY <1>4, <1>6, <1>8, <1>9, <1>11 DEF Handled, CallCalm, Renews, Open
<1> QED  BY <1>7, <1>10, <1>11

LEMMA RotateHandled ==
    ASSUME ServerOK, Renewing, NEW c \in Calls, Kept(c), Rotate(c)
    PROVE  Handled(c)
<1>s. call[c] \in Requests /\ session \in [Tokens -> Rows]
  BY DEF ServerOK
<1> DEFINE old == call[c].token
           row == [session[old] EXCEPT !.revoked = TRUE, !.age = 0, !.replaced = call[c].new]
<1>1. session' = [session EXCEPT ![old] = row]
  BY <1>s DEF Rotate
<1>2. Succeeds(call[c].new, old)
  BY DEF Rotate, At, Renewing
<1>3. old \in Tokens /\ session[old] \in Rows
  BY <1>2, <1>s DEF Succeeds, Issued
<1>4. row.age = 0
  BY <1>3 DEF Rows
<1>5. session'[old].age = 0 /\ \A u \in Tokens \ {old} : session'[u] = session[u]
  <2> HIDE DEF row
  <2> QED  BY <1>1, <1>3, <1>4, <1>s
<1>6. /\ Renews(c) /\ Open(c)
      /\ Moved(c, "ok")
  <2>1. Reply(c, "ok") /\ call[c].kind = "refresh" /\ Open(c)
    BY DEF Rotate, At, Open, Outcomes
  <2> QED  BY <2>1, MovedReply DEF Renews
<1>7. ~Renews(c)'
  BY <1>6 DEF Renews, Open, NoCall, Moved, Outcomes
<1>8. RowsCalm
  <2>1. \A u \in Tokens : session[u].age \in Nat
    BY Constants DEF ServerOK, Rows
  <2>2. Issued \subseteq Issued'
    BY DEF Kept
  <2> HIDE DEF old
  <2>3. old = call[c].token
    BY DEF old
  <2> QED  BY <1>5, <1>6, <1>7, <2>1, <2>2, <2>3 DEF RowsCalm
<1> QED  BY <1>6, <1>7, <1>8 DEF Handled, CallCalm, Moved, NoCall

LEMMA ServeHandled ==
    ASSUME ServerOK, losses \in Nat, Renewing, Timely, 112 <= Grace, NEW c \in Calls, Serve(c)
    PROVE  Handled(c)
<1>k. Kept(c)
  BY KeptServe
<1>o. Open(c)
  BY DEF Serve, RateLimit, ReadAccount, CountFailure, ResetFailures, LookUpPhone, CreateAccount,
         ReadSession, RevokeFamily, IssueSession, Rotate, Logout, CheckPassword, StorePassword,
         RevokeAllSessions, At, Open, Outcomes
<1>c. ASSUME NEW label, Moved(c, label),
             UNCHANGED session \/ \E rows : session' = Revoked(rows)
      PROVE  Handled(c)
  BY <1>c, <1>k, MovedHandled
<1>r. ASSUME NEW outcome \in {"ok", "refused", "limited"}, Reply(c, outcome),
             UNCHANGED session \/ \E rows : session' = Revoked(rows)
      PROVE  Handled(c)
  BY <1>r, <1>c, <1>o, MovedReply
<1>g. ASSUME NEW label, Goto(c, label), label \notin {"failed", "free", "reuse"}, UNCHANGED session
      PROVE  Handled(c)
  BY <1>g, <1>c, <1>o, MovedGoto
<1>a. ASSUME NEW r, call' = [call EXCEPT ![c] = r], r.kind = call[c].kind, r.by = call[c].by,
             r.token = call[c].token, r.new = call[c].new,
             r.at \notin {"failed", "free", "reuse"}, UNCHANGED session
      PROVE  Handled(c)
  <2>1. call'[c] = r
    BY <1>a DEF ServerOK
  <2>2. Moved(c, r.at)
    BY <1>a, <1>o, <2>1 DEF Moved
  <2> QED  BY <1>a, <1>c, <2>2
<1>s. call \in [Calls -> Requests] /\ call[c] \in Requests
  BY DEF ServerOK
<1>1. CASE RateLimit(c)
  BY <1>1, <1>r DEF RateLimit
<1>2. CASE ReadAccount(c)
  <2>1. UNCHANGED session
    BY <1>2 DEF ReadAccount
  <2>2. CASE call' = [call EXCEPT ![c].at = "fail", ![c].failures = account.failures]
    <3> DEFINE r == [call[c] EXCEPT !.at = "fail", !.failures = account.failures]
    <3>1. call' = [call EXCEPT ![c] = r]
      BY <2>2, <1>s
    <3>2. /\ r.kind = call[c].kind /\ r.by = call[c].by /\ r.token = call[c].token
          /\ r.new = call[c].new /\ r.at = "fail"
      BY <1>s DEF Requests
    <3> HIDE DEF r
    <3> QED  BY <2>1, <3>1, <3>2, <1>a
  <2>3. CASE Reply(c, "refused")
    BY <2>1, <2>3, <1>r
  <2>4. CASE Goto(c, "reset")
    BY <2>1, <2>4, <1>g
  <2> QED  BY <1>2, <2>2, <2>3, <2>4 DEF ReadAccount
<1>3. CASE CountFailure(c)
  BY <1>3, <1>r DEF CountFailure
<1>4. CASE ResetFailures(c)
  BY <1>4, <1>g DEF ResetFailures
<1>5. CASE LookUpPhone(c)
  BY <1>5, <1>r, <1>g DEF LookUpPhone
<1>6. CASE CreateAccount(c)
  BY <1>6, <1>r, <1>g DEF CreateAccount
<1>7. CASE ReadSession(c)
  <2> DEFINE row == session[call[c].token]
  <2>1. UNCHANGED session /\ call[c].kind = "refresh"
    BY <1>7 DEF ReadSession, At
  <2>2. CASE call' = [call EXCEPT ![c].at = "issue", ![c].again = row.revoked]
    <3> DEFINE r == [call[c] EXCEPT !.at = "issue", !.again = row.revoked]
    <3>1. call' = [call EXCEPT ![c] = r]
      BY <2>2, <1>s
    <3>2. /\ r.kind = call[c].kind /\ r.by = call[c].by /\ r.token = call[c].token
          /\ r.new = call[c].new /\ r.at = "issue"
      BY <1>s DEF Requests
    <3> HIDE DEF r
    <3> QED  BY <2>1, <3>1, <3>2, <1>a
  <2>3. CASE Reply(c, "refused")
    BY <2>1, <2>3, <1>r
  <2>4. CASE Goto(c, "reuse") /\ row.revoked /\ ~(row.replaced # None /\ row.age <= Grace)
    <3>1. call[c].token \in Issued /\ InTime(call[c].token, Due(losses))
      BY <1>o, <2>1 DEF Timely, RunsInTime, Renews
    <3>2. row.age \in Nat
      BY <3>1, Constants DEF ServerOK, Rows, Issued
    <3>3. Due(losses) \in 0..112
      BY DueFacts DEF Timely
    <3>5. row.replaced = None
      BY <2>4, <3>1, <3>2, <3>3, Constants DEF InTime
    <3>4. Moved(c, "reuse")
      BY <2>1, <2>4, <3>5, <1>o, MovedGoto
    <3> QED  BY <2>1, <3>4, <1>c
  <2> QED  BY <1>7, <2>2, <2>3, <2>4 DEF ReadSession
<1>8. CASE RevokeFamily(c)
  BY <1>8, <1>r DEF RevokeFamily
<1>9. CASE Logout(c)
  BY <1>9, <1>r DEF Logout
<1>10. CASE CheckPassword(c) \/ StorePassword(c)
  BY <1>10, <1>r, <1>g DEF CheckPassword, StorePassword
<1>11. CASE RevokeAllSessions(c)
  BY <1>11, <1>r DEF RevokeAllSessions
<1> QED
  BY <1>1, <1>2, <1>3, <1>4, <1>5, <1>6, <1>7, <1>8, <1>9, <1>10, <1>11, <1>k,
     IssueHandled, RotateHandled DEF Serve
-----------------------------------------------------------------------------
(* A call that d waits for is answered or lost.                            *)
Heard(c, d, flow, outcome, token) ==
    /\ call[c].by = <<d, flow>> /\ call'[c].by = None
    /\ \A b \in Calls \ {c} : call'[b] = call[b]
    /\ CallCalm(c) /\ UNCHANGED session
    /\ Answered(call[c].by, outcome, token)
    /\ outcome \in Outcomes /\ (outcome = "limited" => call[c].kind # "refresh")
    /\ \/ token = call[c].new /\ outcome = call[c].at /\ losses' = losses
       \/ token = None /\ outcome = "failed" /\ losses' = losses + 1
    /\ call'[c].new = None \/ (call'[c].new = call[c].new /\ token = None)
    /\ losses' <= 5

LEMMA AnswerHeard ==
    ASSUME Typed, FlowsOK, Timely, seen' = {}, MaxLosses <= 5, NEW c \in Calls,
           Deliver(c) \/ LoseAnswer(c)
    PROVE  \E d \in Phones, flow \in Flows : \E outcome, token : Heard(c, d, flow, outcome, token)
<1>s. call \in [Calls -> Requests] /\ call[c] \in Requests
      /\ (call[c].at \in Outcomes => call[c].by \in Callers)
  BY DEF Typed, ServerOK
<1>1. call[c].by \in Callers
  BY <1>s DEF Deliver, LoseAnswer, TakeAnswer, HangUp, Requests
<1>2. PICK d \in Phones, flow \in Flows : call[c].by = <<d, flow>>
  BY <1>1, PhoneAssumption
<1>3. UNCHANGED session
  BY DEF Deliver, LoseAnswer, Noted
<1>4. /\ call'[c].by = None /\ \A b \in Calls \ {c} : call'[b] = call[b]
      /\ CallCalm(c) /\ (call'[c].new = None \/ (call'[c].new = call[c].new /\ LoseAnswer(c)))
  <2>1. CASE call' = [call EXCEPT ![c] = NoCall]
    <3>1. call'[c] = NoCall /\ \A b \in Calls \ {c} : call'[b] = call[b]
      BY <1>s, <2>1
    <3> QED  BY <3>1 DEF CallCalm, Renews, Open, NoCall
  <2>2. CASE call' = [call EXCEPT ![c].by = None] /\ LoseAnswer(c)
    <3> DEFINE r == [call[c] EXCEPT !.by = None]
    <3>1. call'[c] = r /\ \A b \in Calls \ {c} : call'[b] = call[b]
      BY <1>s, <2>2
    <3>2. /\ r.by = None /\ r.kind = call[c].kind /\ r.at = call[c].at
          /\ r.token = call[c].token /\ r.new = call[c].new
      BY <1>s DEF Requests
    <3>3. call[c].at = "reuse" => call[c].kind = "refresh"
      BY DEF Timely
    <3> HIDE DEF r
    <3> QED  BY <2>2, <3>1, <3>2, <3>3 DEF CallCalm, Renews, Open
  <2> QED  BY <2>1, <2>2 DEF Deliver, LoseAnswer, TakeAnswer, HangUp
<1>5. CASE Deliver(c)
  <2>1. call'[c] = NoCall /\ call[c].at \in Outcomes
    BY <1>5, <1>s DEF Deliver, TakeAnswer
  <2>2. call[c].at = "limited" => call[c].kind # "refresh"
    BY <1>5 DEF Deliver, Noted
  <2>3. Answered(call[c].by, call[c].at, call[c].new) /\ losses' = losses /\ losses <= 5
    BY <1>5 DEF Deliver, Timely
  <2>4. Heard(c, d, flow, call[c].at, call[c].new)
    BY <1>2, <1>3, <1>4, <2>1, <2>2, <2>3 DEF Heard, NoCall
  <2> QED  BY <2>4
<1>6. CASE LoseAnswer(c)
  <2>1. Answered(call[c].by, "failed", None) /\ losses' = losses + 1 /\ losses < MaxLosses
    BY <1>6 DEF LoseAnswer
  <2>2. losses' <= 5
    BY <2>1, PhoneAssumption DEF Typed
  <2>3. "failed" \in Outcomes
    BY DEF Outcomes
  <2>4. Heard(c, d, flow, "failed", None)
    BY <1>2, <1>3, <1>4, <2>1, <2>2, <2>3 DEF Heard
  <2> QED  BY <2>4
<1> QED  BY <1>5, <1>6

(* What the call that was answered leaves to the rest.                     *)
LEMMA HeardCalm ==
    ASSUME Typed, Typed', FlowsOK, Timely, NEW c \in Calls, NEW d \in Phones, NEW flow \in Flows,
           NEW outcome, NEW token, Heard(c, d, flow, outcome, token)
    PROVE  /\ \A b \in Calls : CallCalm(b)
           /\ RowsCalm /\ LossesGrow
           /\ \A b \in Calls : Renews(b)' => RunsInTime(b)'
           /\ \A b \in Calls : /\ call'[b].at = "reuse" => call'[b].kind = "refresh"
                               /\ call'[b].at = "free" => call'[b].by = None
           /\ \A t \in Tokens : Unused(t) => Unused(t)'
           /\ \A e \in Phones, g \in Flows : <<e, g>> # <<d, flow>> => Steady(e, g)
           /\ \A b \in Calls, e \in Phones : call'[b].by = <<e, "boot">> => call'[b] = call[b]
           /\ \A b \in Calls : call'[b].by # <<d, flow>>
<1>n. \A e \in Phones, g \in Flows : <<e, g>> # None
  BY Constants, PhoneAssumption
<1>1. \A b \in Calls : CallCalm(b)
  BY CallStill DEF Heard
<1>2. RowsCalm /\ LossesGrow
  <2>1. /\ UNCHANGED session /\ (losses' = losses \/ losses' = losses + 1) /\ losses \in Nat
        /\ losses' <= 5
    BY DEF Heard, Typed
  <2>2. \A t \in Tokens : session[t].age \in Nat
    BY RowAges
  <2> QED  BY <2>1, <2>2 DEF RowsCalm, Issued, LossesGrow
<1>3. \A e \in Phones, g \in Flows : <<e, g>> # <<d, flow>> => Steady(e, g)
  BY DEF Heard, Steady
<1>4. \A b \in Calls : call'[b].by # <<d, flow>>
  <2>1. call[c].by = <<d, flow>> /\ <<d, flow>> # None
    BY <1>n DEF Heard
  <2>2. \A b \in Calls \ {c} : call[b].by # <<d, flow>>
    BY <2>1 DEF FlowsOK, OneCallPerFlow
  <2> QED  BY <2>1, <2>2 DEF Heard
<1>5. \A b \in Calls, e \in Phones : call'[b].by = <<e, "boot">> => call'[b] = call[b]
  <2>1. "boot" \in Flows
    BY DEF Flows
  <2> QED  BY <1>n, <2>1 DEF Heard
<1> QED  BY <1>1, <1>2, <1>3, <1>4, <1>5, CalmServer

(* It is enough to know what became of the phone that heard.               *)
LEMMA HeardTimely ==
    ASSUME Typed, Typed', FlowsOK, Timely, NEW c \in Calls, NEW d \in Phones, NEW flow \in Flows,
           NEW outcome, NEW token, Heard(c, d, flow, outcome, token),
           \A e \in Phones \ {d} : phone'[e] = phone[e],
           StoredSound(d)', BootInTime(d)',
           \A t \in Tokens : Holds(d, t)' => Holds(d, t) \/ t = token
    PROVE  Timely'
<1>i. None \notin Tokens
  BY Constants
<1>1. /\ \A b \in Calls : CallCalm(b)
      /\ RowsCalm /\ LossesGrow
      /\ \A b \in Calls : Renews(b)' => RunsInTime(b)'
      /\ \A b \in Calls : /\ call'[b].at = "reuse" => call'[b].kind = "refresh"
                          /\ call'[b].at = "free" => call'[b].by = None
      /\ \A t \in Tokens : Unused(t) => Unused(t)'
      /\ \A e \in Phones, g \in Flows : <<e, g>> # <<d, flow>> => Steady(e, g)
      /\ \A b \in Calls, e \in Phones : call'[b].by = <<e, "boot">> => call'[b] = call[b]
  BY HeardCalm
<1>2. ASSUME NEW e \in Phones \ {d}  PROVE StoredSound(e)' /\ BootInTime(e)'
  <2>1. Steady(e, "boot") /\ Steady(e, "renew")
    BY <1>1 DEF Flows
  <2>2. phone'[e] = phone[e]
    OBVIOUS
  <2>3. BootInTime(e)'
    BY <2>1, <2>2, <1>1, CalmBoot
  <2>4. Keeps(e)
    BY <2>2 DEF Keeps
  <2> QED  BY <2>1, <2>3, <2>4, <1>1, CalmStored
<1>3. \A e \in Phones, t \in Tokens : Holds(e, t)' => Holds(e, t) \/ (e = d /\ t = token)
  BY DEF Holds, Retries
<1>4. \A t \in Tokens : t = token => call[c].new = t /\ call'[c].new = None
  BY <1>i DEF Heard
<1>5. OneHolder'
  <2> SUFFICES ASSUME NEW e \in Phones, NEW f \in Phones, NEW t \in Tokens,
                      Holds(e, t)', Holds(f, t)'
               PROVE  e = f
    BY DEF OneHolder
  <2>1. t = token => \A g \in Phones : ~Holds(g, t)
    BY <1>4 DEF Timely, NewUnused
  <2> QED  BY <2>1, <1>3 DEF Timely, OneHolder
<1>6. NewUnused'
  <2> SUFFICES ASSUME NEW b \in Calls, NEW t \in Tokens, call'[b].new = t
               PROVE  /\ Unused(t)' /\ \A e \in Phones : ~Holds(e, t)'
                      /\ \A a \in Calls : call'[a].new = t => a = b
    BY DEF NewUnused
  <2>1. \A a \in Calls : call'[a].new = t => call[a].new = t
    BY <1>i DEF Heard
  <2>2. /\ Unused(t) /\ \A e \in Phones : ~Holds(e, t)
        /\ \A a \in Calls : call[a].new = t => a = b
    BY <2>1 DEF Timely, NewUnused
  <2>3. t # token
    BY <1>4, <1>i, <2>2
  <2> QED  BY <1>1, <1>3, <2>1, <2>2, <2>3
<1> QED  BY <1>1, <1>2, <1>5, <1>6 DEF Timely, Heard

(* The phone d as the flow that heard leaves it.                           *)
LEMMA HeardPhone ==
    ASSUME Typed, NEW c \in Calls, NEW d \in Phones, NEW flow \in Flows, NEW outcome, NEW token,
           Heard(c, d, flow, outcome, token),
           NEW r, r = CASE flow = "boot" -> BootAnswered(phone[d], outcome, token)
                        [] flow = "renew" -> RenewAnswered(phone[d], outcome, token)
                        [] flow = "user" -> UserAnswered(phone[d], outcome, token)
    PROVE  phone'[d] = r /\ \A e \in Phones \ {d} : phone'[e] = phone[e]
<1>1. call[c].by[1] = d /\ call[c].by[2] = flow
  BY DEF Heard
<1>2. phone' = [phone EXCEPT ![d] = r]
  BY <1>1 DEF Heard, Answered
<1> QED  BY <1>2 DEF Typed

(* A launch that gives up, is refused, or ends signed in.                  *)
LEMMA BootStops ==
    ASSUME Typed, Typed', FlowsOK, Timely, NEW c \in Calls, NEW d \in Phones,
           NEW outcome, NEW token, Heard(c, d, "boot", outcome, token),
           \A e \in Phones \ {d} : phone'[e] = phone[e],
           phone'[d].boot = NoBoot,
           \/ phone'[d].stored = None
           \/ phone'[d].stored = token
           \/ /\ phone'[d].stored = phone[d].stored
              /\ Quiet(phone[d].boot.tries) /\ phone[d].status # "signedOut"
    PROVE  Timely'
<1>f. "boot" \in Flows /\ "renew" \in Flows
  BY DEF Flows
<1>i. None \notin Tokens
  BY Constants
<1>1. /\ \A t \in Tokens : Unused(t) => Unused(t)'
      /\ Steady(d, "renew") /\ RowsCalm /\ LossesGrow
  BY <1>f, HeardCalm
<1>2. Matches(d, c) /\ Resting(d) /\ BootApart(d) /\ BootInTime(d)
  BY DEF FlowsOK, FlowsOf, Timely
<1>3. phone[d].boot.at = "exchange" /\ phone[d].status # "closed"
  BY <1>2 DEF Matches, Heard, Resting
<1>4. BootInTime(d)'
  BY DEF BootInTime, NoBoot
<1>5. \A t \in Tokens : ~Retries(d, t)'
  BY DEF Retries, NoBoot
<1>6. ASSUME NEW t \in Tokens, phone'[d].stored = t, t # token
      PROVE  phone[d].stored = t /\ Sound(d, t)'
  <2>1. phone[d].stored = t /\ Quiet(phone[d].boot.tries) /\ phone[d].status # "signedOut"
    BY <1>6, <1>i
  <2>2. phone[d].status # "restoring"
    BY <1>2, <1>3, <2>1 DEF BootInTime, Quiet
  <2>3. phone[d].status = "signedIn"
    BY <1>3, <2>1, <2>2, PhoneFields DEF Typed
  <2>4. ~Retries(d, t)
    BY <1>2, <2>1, <2>3 DEF BootApart, Retries
  <2> QED  BY <1>1, <2>1, <2>3, <2>4, StaysSound
<1>7. \A t \in Tokens : t = token => Unused(t)'
  BY <1>1, <1>i DEF Heard, Timely, NewUnused
<1>8. StoredSound(d)'
  BY <1>6, <1>7 DEF StoredSound, Sound
<1>9. \A t \in Tokens : Holds(d, t)' => Holds(d, t) \/ t = token
  BY <1>5, <1>6 DEF Holds
<1> QED  BY <1>f, <1>4, <1>8, <1>9, HeardTimely

(* A launch that will try again.                                           *)
LEMMA BootWaits ==
    ASSUME Typed, Typed', FlowsOK, Timely, NEW c \in Calls, NEW d \in Phones,
           NEW outcome, NEW token, Heard(c, d, "boot", outcome, token),
           \A e \in Phones \ {d} : phone'[e] = phone[e], outcome = "failed",
           phone'[d].boot.at = "pause", phone'[d].boot.token = phone[d].boot.token,
           phone'[d].boot.tries = phone[d].boot.tries + 1,
           phone'[d].boot.left = Delays[phone[d].boot.tries + 1],
           phone'[d].stored = phone[d].stored,
           phone'[d].status = IF phone[d].boot.tries = 1 THEN "signedOut" ELSE phone[d].status
    PROVE  Timely'
<1>f. "boot" \in Flows /\ "renew" \in Flows
  BY DEF Flows
<1>1. /\ RowsCalm /\ LossesGrow
      /\ \A t \in Tokens : Unused(t) => Unused(t)'
      /\ Steady(d, "renew") /\ \A b \in Calls : call'[b].by # <<d, "boot">>
  BY <1>f, HeardCalm
<1>2. Matches(d, c) /\ Resting(d) /\ BootApart(d) /\ BootInTime(d)
  BY DEF FlowsOK, FlowsOf, Timely
<1>3. call[c].by = <<d, "boot">> /\ phone[d].boot.at = "exchange" /\ phone[d].status # "closed"
  BY <1>2 DEF Matches, Heard, Resting
<1> DEFINE n == phone[d].boot.tries
           t == phone[d].boot.token
<1>t. losses \in 0..5 /\ losses' \in 0..5 /\ losses <= losses'
  BY <1>1, DueGrows
<1>4. /\ n \in 0..5 /\ n <= losses /\ phone[d].boot.left = 0
      /\ session[t].replaced # None => session[t].age + 0 <= Due(losses)
      /\ n >= 2 => phone[d].status # "restoring"
      /\ call[c].at = "failed" => n < losses /\ InTime(t, Due(losses - 1))
  BY <1>2, <1>3 DEF BootInTime
<1>8. t \in Tokens /\ session[t].age \in Nat /\ session' = session
  BY <1>2, <1>3, RowAges DEF BootApart, Issued, Heard
<1>5. PICK k \in 0..4 : k + 1 = losses' /\ n <= k /\ InTime(t, Due(k))
  <2>1. CASE losses' = losses + 1
    <3>1. losses \in 0..4 /\ InTime(t, Due(losses))
      BY <1>t, <1>4, <1>8, <2>1 DEF InTime
    <3> QED  BY <1>4, <2>1, <3>1
  <2>2. CASE call[c].at = "failed" /\ losses' = losses
    <3>1. losses - 1 \in 0..4 /\ n <= losses - 1 /\ (losses - 1) + 1 = losses'
      BY <1>4, <1>t, <2>2
    <3> QED  BY <1>4, <2>2, <3>1
  <2> QED  BY <2>1, <2>2 DEF Heard
<1>6. n \in 0..4 /\ n \in 0..k /\ n + 1 \in 0..5 /\ n + 1 <= losses'
  BY <1>4, <1>5
<1>7. /\ Due(k) \in Nat /\ Delays[n + 1] \in 1..60 /\ Delays[k + 1] \in 1..60
      /\ Delays[n + 1] <= Delays[k + 1] /\ Due(k) + Delays[k + 1] = Due(losses')
  <2>1. k \in 0..5 /\ n \in 0..5 /\ k < 5 /\ n < 5
    BY <1>5, <1>6
  <2> QED  BY <1>5, <1>6, <2>1, DueFacts
<1> DEFINE boot == phone'[d].boot
<1>9. /\ boot.at = "pause" /\ boot.token = t /\ boot.tries = n + 1 /\ boot.left = Delays[n + 1]
      /\ phone'[d].status = IF n = 1 THEN "signedOut" ELSE phone[d].status
  OBVIOUS
<1> HIDE DEF n, t, boot
<1>10. /\ boot.left <= Due(losses')
       /\ session'[t].replaced # None => session'[t].age + boot.left <= Due(losses')
  <2>1. PICK x \in 1..60, y \in 1..60, z \in Nat :
           x = Delays[n + 1] /\ y = Delays[k + 1] /\ z = Due(k)
    BY <1>7
  <2>2. x <= y /\ z + y = Due(losses') /\ boot.left = x
    BY <1>7, <1>9, <2>1
  <2>3. session'[t].replaced # None => session'[t].age <= z
    BY <1>5, <1>8, <2>1 DEF InTime
  <2>4. session'[t].age \in Nat
    BY <1>8
  <2> QED  BY <2>2, <2>3, <2>4
<1>11. boot.tries >= 2 => phone'[d].status # "restoring"
  BY <1>4, <1>9
<1>12. BootInTime(d)'
  <2>1. phone'[d].boot = boot /\ t \in Tokens
    BY <1>8 DEF boot
  <2>2. \A b \in Calls : call'[b].by # <<d, "boot">>
    BY <1>1
  <2> QED  BY <2>1, <2>2, <1>6, <1>9, <1>10, <1>11 DEF BootInTime, Due
<1>13. \A u \in Tokens : Retries(d, u)' = Retries(d, u)
  BY <1>3, <1>9 DEF Retries, boot, t
<1>14. StoredSound(d)'
  BY <1>1, <1>3, <1>13, StaysSound DEF StoredSound
<1>15. \A u \in Tokens : Holds(d, u)' => Holds(d, u) \/ u = token
  BY <1>13 DEF Holds
<1> QED  BY <1>f, <1>12, <1>14, <1>15, HeardTimely

(* A renewal is answered, or what the user asked for.                      *)
LEMMA OthersHeard ==
    ASSUME Typed, Typed', FlowsOK, Timely, NEW c \in Calls, NEW d \in Phones,
           NEW flow \in Flows \ {"boot"},
           NEW outcome, NEW token, Heard(c, d, flow, outcome, token),
           \A e \in Phones \ {d} : phone'[e] = phone[e],
           phone'[d].boot = phone[d].boot, phone[d].status # "closed",
           phone'[d].status = "restoring" => phone[d].status = "restoring",
           \/ phone'[d].stored = None
           \/ phone'[d].stored = token
           \/ phone'[d].stored = phone[d].stored /\ flow = "user"
    PROVE  Timely'
<1>f. "boot" \in Flows /\ "renew" \in Flows
  BY DEF Flows
<1>i. None \notin Tokens
  BY Constants
<1>1. /\ \A b \in Calls : CallCalm(b)
      /\ RowsCalm /\ LossesGrow
      /\ \A t \in Tokens : Unused(t) => Unused(t)'
      /\ Steady(d, "boot") /\ (flow = "user" => Steady(d, "renew"))
      /\ \A b \in Calls : call'[b].by = <<d, "boot">> => call'[b] = call[b]
  BY <1>f, HeardCalm
<1>2. BootInTime(d)'
  BY <1>1, CalmBoot
<1>3. \A t \in Tokens : t = token => Unused(t)'
  BY <1>1, <1>i DEF Heard, Timely, NewUnused
<1>4. StoredSound(d)' /\ \A t \in Tokens : Holds(d, t)' => Holds(d, t) \/ t = token
  <2>1. CASE phone'[d].stored = phone[d].stored /\ flow = "user"
    <3>1. Keeps(d)
      BY <2>1 DEF Keeps
    <3> QED  BY <2>1, <3>1, <1>1, CalmStored
  <2>2. CASE phone'[d].stored \in {None, token}
    BY <2>2, <1>3, <1>i DEF StoredSound, Sound, Holds, Retries
  <2> QED  BY <2>1, <2>2
<1> QED  BY <1>2, <1>4, HeardTimely

LEMMA AnswerTimely ==
    ASSUME Typed, Typed', FlowsOK, Timely, seen' = {}, MaxLosses <= 5, NEW c \in Calls,
           Deliver(c) \/ LoseAnswer(c)
    PROVE  Timely'
<1>1. PICK d \in Phones, flow \in Flows : \E outcome, token : Heard(c, d, flow, outcome, token)
  BY AnswerHeard
<1>2. PICK outcome, token : Heard(c, d, flow, outcome, token)
  BY <1>1
<1>m. phone[d] \in PhoneStates /\ Matches(d, c) /\ outcome \in Outcomes /\ call[c].by = <<d, flow>>
      /\ Resting(d) /\ (outcome = "limited" => call[c].kind # "refresh")
  BY <1>2 DEF Typed, FlowsOK, FlowsOf, Heard
<1> DEFINE ph == phone[d]
<1>3. CASE flow = "boot"
  <2> DEFINE r == BootAnswered(ph, outcome, token)
  <2>1. phone'[d] = r /\ \A e \in Phones \ {d} : phone'[e] = phone[e]
    BY <1>2, <1>3, HeardPhone
  <2>2. ph.boot.tries # 6 /\ outcome # "limited"
    BY <1>3, <1>m DEF Timely, BootInTime, Matches
  <2> HIDE DEF r
  <2>3. r = BootAnswered(ph, outcome, token)
    BY DEF r
  <2>4. \/ /\ r.boot = NoBoot
           /\ \/ r.stored = None
              \/ r.stored = token
              \/ r.stored = ph.stored /\ Quiet(ph.boot.tries) /\ ph.status # "signedOut"
        \/ /\ outcome = "failed"
           /\ r.boot.at = "pause" /\ r.boot.token = ph.boot.token
           /\ r.boot.tries = ph.boot.tries + 1 /\ r.boot.left = Delays[ph.boot.tries + 1]
           /\ r.stored = ph.stored
           /\ r.status = IF ph.boot.tries = 1 THEN "signedOut" ELSE ph.status
    BY <1>m, <2>2, <2>3, BootAnsweredIs
  <2> QED  BY <1>2, <1>3, <2>1, <2>4, BootStops, BootWaits
<1>4. CASE flow = "renew"
  <2> DEFINE r == RenewAnswered(ph, outcome, token)
  <2>1. phone'[d] = r /\ \A e \in Phones \ {d} : phone'[e] = phone[e]
    BY <1>2, <1>4, HeardPhone
  <2> HIDE DEF r
  <2>2. /\ r.boot = ph.boot /\ (r.status = "restoring" => ph.status = "restoring")
        /\ r.stored = None \/ r.stored = token
    BY <1>m, RenewAnsweredIs DEF r
  <2>3. ph.status # "closed" /\ flow \in Flows \ {"boot"}
    BY <1>4, <1>m DEF Matches
  <2> QED  BY <1>2, <1>4, <2>1, <2>2, <2>3, OthersHeard
<1>5. CASE flow = "user"
  <2> DEFINE r == UserAnswered(ph, outcome, token)
  <2>1. phone'[d] = r /\ \A e \in Phones \ {d} : phone'[e] = phone[e]
    BY <1>2, <1>5, HeardPhone
  <2>2. ph.user \in {"in", "change", "out"}
    BY <1>5, <1>m DEF Matches
  <2> HIDE DEF r
  <2>3. /\ r.boot = ph.boot /\ (r.status = "restoring" => ph.status = "restoring")
        /\ r.stored = None \/ r.stored = token \/ r.stored = ph.stored
    BY <1>m, <2>2, UserAnsweredIs DEF r
  <2>4. ph.status # "closed" /\ flow \in Flows \ {"boot"}
    BY <1>5, <1>m, <2>2 DEF Resting
  <2> QED  BY <1>2, <1>5, <2>1, <2>3, <2>4, OthersHeard
<1> QED  BY <1>3, <1>4, <1>5 DEF Flows
-----------------------------------------------------------------------------
(* Nobody's refresh is touched and no phone gets a token.                  *)
LEMMA QuietTimely ==
    ASSUME Typed, Typed', FlowsOK, Timely,
           \A b \in Calls : CallCalm(b) /\ call'[b].new \in {call[b].new, None},
           RowsCalm, losses' = losses,
           \A d \in Phones, flow \in {"boot", "renew"} : Steady(d, flow),
           \A b \in Calls, d \in Phones : call'[b].by = <<d, "boot">> => call'[b] = call[b],
           \A d \in Phones : /\ Keeps(d)
                             /\ phone'[d].status = "restoring" => phone[d].status = "restoring"
    PROVE  Timely'
<1>i. None \notin Tokens
  BY Constants
<1>2. LossesGrow
  BY DEF Typed, Timely, LossesGrow
<1>1. /\ \A b \in Calls : Renews(b)' => RunsInTime(b)'
      /\ \A b \in Calls : /\ call'[b].at = "reuse" => call'[b].kind = "refresh"
                          /\ call'[b].at = "free" => call'[b].by = None
      /\ \A t \in Tokens : Unused(t) => Unused(t)'
  BY <1>2, CalmServer
<1>3. ASSUME NEW d \in Phones
      PROVE  /\ StoredSound(d)' /\ BootInTime(d)'
             /\ \A t \in Tokens : Holds(d, t)' => Holds(d, t)
  <2>1. Steady(d, "boot") /\ Steady(d, "renew")
    OBVIOUS
  <2>2. BootInTime(d)'
    BY <2>1, <1>2, CalmBoot DEF Keeps
  <2> QED  BY <2>1, <2>2, <1>1, <1>2, CalmStored
<1>4. OneHolder'
  BY <1>3 DEF Timely, OneHolder
<1>5. NewUnused'
  BY <1>1, <1>3, <1>i DEF Timely, NewUnused
<1> QED  BY <1>1, <1>2, <1>3, <1>4, <1>5 DEF Timely, LossesGrow

(* A call that refreshes nothing is sent, or none.                         *)
LEMMA OtherSent ==
    ASSUME ServerOK, Timely, NEW c \in Calls, NEW by, NEW kind, NEW token, NEW secret,
           Send(c, by, kind, token, secret), kind # "refresh",
           \A d \in Phones : by # <<d, "boot">>
    PROVE  /\ \A b \in Calls : CallCalm(b) /\ call'[b].new \in {call[b].new, None}
           /\ \A d \in Phones, flow \in Flows : Steady(d, flow)
           /\ \A b \in Calls, d \in Phones : call'[b].by = <<d, "boot">> => call'[b] = call[b]
<1>1. /\ call'[c].kind = kind /\ call'[c].by = by /\ call'[c].token = token
      /\ call'[c].new = None /\ call'[c].at = "sent" /\ call[c].at = "free"
      /\ \A b \in Calls \ {c} : call'[b] = call[b]
  BY Sent DEF Send
<1>2. call[c].by = None
  BY <1>1 DEF Timely
<1>3. \A d \in Phones, flow \in Flows : None # <<d, flow>>
  BY Constants, PhoneAssumption
<1>4. CallCalm(c)
  BY <1>1 DEF CallCalm, Renews
<1>5. \A d \in Phones, flow \in Flows : Steady(d, flow)
  BY <1>1, <1>2, <1>3 DEF Steady
<1>6. \A b \in Calls : CallCalm(b)
  BY <1>1, <1>4, CallStill
<1> QED  BY <1>1, <1>5, <1>6

LEMMA NoneSent ==
    ASSUME Timely, UNCHANGED call
    PROVE  /\ \A b \in Calls : CallCalm(b) /\ call'[b].new \in {call[b].new, None}
           /\ \A d \in Phones, flow \in Flows : Steady(d, flow)
           /\ \A b \in Calls, d \in Phones : call'[b].by = <<d, "boot">> => call'[b] = call[b]
BY CallStill DEF Steady

(* A phone presents a token that only it holds.                            *)
Presents(c, d, flow, t) ==
    /\ t \in Issued /\ Send(c, <<d, flow>>, "refresh", t, 0)
    /\ Holds(d, t) /\ InTime(t, Due(losses))
    /\ UNCHANGED <<session, losses>> /\ \A e \in Phones \ {d} : phone'[e] = phone[e]
    /\ \A u \in Tokens : Holds(d, u)' => Holds(d, u)

LEMMA RefreshSent ==
    ASSUME Typed, Typed', FlowsOK, Timely, NEW d \in Phones, NEW flow \in {"boot", "renew"},
           NEW t, NEW c \in Calls, Presents(c, d, flow, t)
    PROVE  /\ Steady(d, "boot") /\ Steady(d, "renew")
           /\ call'[c].by = <<d, flow>> /\ call'[c].token = t /\ call'[c].at = "sent"
           /\ \A b \in Calls \ {c} : call'[b] = call[b]
           /\ \A u \in Tokens : Unused(u) /\ u # t => Unused(u)'
           /\ StoredSound(d)' /\ BootInTime(d)' => Timely'
<1>f. "boot" \in Flows /\ "renew" \in Flows
  BY DEF Flows
<1>h. /\ t \in Issued /\ Send(c, <<d, flow>>, "refresh", t, 0)
      /\ Holds(d, t) /\ InTime(t, Due(losses))
      /\ UNCHANGED <<session, losses>> /\ \A e \in Phones \ {d} : phone'[e] = phone[e]
      /\ \A u \in Tokens : Holds(d, u)' => Holds(d, u)
  BY DEF Presents
<1>i. t \in Tokens /\ None \notin Tokens
  BY <1>h, Constants DEF Issued
<1>1. /\ call'[c].kind = "refresh" /\ call'[c].by = <<d, flow>> /\ call'[c].token = t
      /\ call'[c].new = None /\ call'[c].at = "sent" /\ call[c].at = "free"
      /\ \A b \in Calls \ {c} : call'[b] = call[b]
  <2>1. ServerOK
    BY DEF Typed
  <2>2. call[c].at = "free"
    BY <1>h DEF Send
  <2> QED  BY <1>h, <2>1, <2>2, Sent
<1>r. RowsCalm /\ LossesGrow
  BY <1>h, RowsYounger DEF Typed, Timely, LossesGrow
<1>2. call[c].by = None /\ \A e \in Phones, g \in Flows : None # <<e, g>>
  BY <1>1, Constants, PhoneAssumption DEF Timely
<1>3. \A e \in Phones, g \in Flows : Steady(e, g)
  BY <1>1, <1>2 DEF Steady
<1>4. \A b \in Calls \ {c} : Renews(b)' = Renews(b)
  BY <1>1 DEF Renews, Open
<1>5. \A u \in Tokens : Unused(u) /\ u # t => Unused(u)'
  BY <1>1, <1>4, <1>h DEF Unused
<1>6. \A b \in Calls : Renews(b)' => RunsInTime(b)'
  <2> TAKE b \in Calls
  <2>1. CASE b = c
    BY <2>1, <1>1, <1>4, <1>h DEF RunsInTime, InTime, Issued, Due
  <2>2. CASE b # c
    BY <2>2, <1>1, <1>4, <1>h DEF RunsInTime, InTime, Issued, Timely, Due
  <2> QED  BY <2>1, <2>2
<1>7. \A b \in Calls : /\ call'[b].at = "reuse" => call'[b].kind = "refresh"
                       /\ call'[b].at = "free" => call'[b].by = None
  BY <1>1 DEF Timely
<1>8. \A e \in Phones, u \in Tokens : Holds(e, u)' => Holds(e, u)
  BY <1>h DEF Holds, Retries
<1>9. OneHolder'
  BY <1>8 DEF Timely, OneHolder
<1>10. NewUnused'
  <2> SUFFICES ASSUME NEW b \in Calls, NEW u \in Tokens, call'[b].new = u
               PROVE  /\ Unused(u)' /\ \A e \in Phones : ~Holds(e, u)'
                      /\ \A a \in Calls : call'[a].new = u => a = b
    BY DEF NewUnused
  <2>1. \A a \in Calls : call'[a].new = u => call[a].new = u
    BY <1>1, <1>i
  <2>2. /\ Unused(u) /\ \A e \in Phones : ~Holds(e, u)
        /\ \A a \in Calls : call[a].new = u => a = b
    BY <2>1 DEF Timely, NewUnused
  <2>3. u # t
    BY <1>h, <2>2
  <2> QED  BY <1>5, <1>8, <2>1, <2>2, <2>3
<1>11. ASSUME NEW e \in Phones \ {d}  PROVE StoredSound(e)' /\ BootInTime(e)'
  <2>1. ~Holds(e, t) /\ phone'[e] = phone[e]
    BY <1>h, <1>i DEF Timely, OneHolder
  <2>2. StoredSound(e)'
    <3>1. StoredSound(e) /\ phone[e].stored # t
      BY <2>1 DEF Timely, Holds
    <3>2. \A u \in Tokens : Retries(e, u)' = Retries(e, u)
      BY <2>1 DEF Retries
    <3>3. Steady(e, "renew")
      BY <1>3, <1>f
    <3>4. SUFFICES ASSUME NEW u \in Tokens, phone[e].stored = u  PROVE Sound(e, u)'
      BY <2>1 DEF StoredSound
    <3> QED  BY <2>1, <3>1, <3>2, <3>3, <3>4, <1>5, <1>r, StaysSound
  <2>3. BootInTime(e)'
    <3>1. BootInTime(e) /\ ~Retries(e, t)
      BY <2>1 DEF Timely, Holds
    <3>2. Steady(e, "boot")
      BY <1>3, <1>f
    <3>3. \A b \in Calls : call'[b].by = <<e, "boot">> => call'[b] = call[b]
      BY <1>1
    <3> QED  BY <2>1, <3>1, <3>2, <3>3, <1>h DEF BootInTime, Steady, InTime, Due
  <2> QED  BY <2>2, <2>3
<1>12. losses' <= 5
  BY <1>h DEF Timely
<1> QED  BY <1>1, <1>3, <1>5, <1>6, <1>7, <1>9, <1>10, <1>11, <1>12, <1>f DEF Timely

LEMMA LaunchTimely ==
    ASSUME Typed, Typed', FlowsOK, Timely, NEW d \in Phones, Launch(d)
    PROVE  Timely'
<1>p. phone \in [Phones -> PhoneStates] /\ phone[d] \in PhoneStates
  BY DEF Typed
<1>i. None \notin Tokens
  BY Constants
<1>1. /\ phone[d].status = "closed" /\ phone[d].boot.at = "none"
      /\ phone[d].stored \in Issued \cup {None} /\ UNCHANGED <<session, losses>>
      /\ \A b \in Calls : Matches(d, b)
  BY DEF Launch, FlowsOK, FlowsOf, Resting
<1>2. CASE phone[d].stored = None
  <2> DEFINE r == [phone[d] EXCEPT !.status = "signedOut"]
  <2>1. phone' = [phone EXCEPT ![d] = r] /\ UNCHANGED call
    BY <1>2, <1>p DEF Launch
  <2>2. r.status = "signedOut" /\ r.stored = phone[d].stored /\ r.boot = phone[d].boot
    BY <1>p DEF PhoneStates
  <2>3. phone'[d] = r /\ \A e \in Phones \ {d} : phone'[e] = phone[e]
    <3> HIDE DEF r
    <3> QED  BY <1>p, <2>1
  <2> HIDE DEF r
  <2>4. RowsCalm
    BY <1>1, RowsYounger DEF Typed
  <2>5. {"boot", "renew"} \subseteq Flows
    BY DEF Flows
  <2>6. \A e \in Phones : /\ Keeps(e)
                          /\ phone'[e].status = "restoring" => phone[e].status = "restoring"
    BY <1>2, <2>2, <2>3 DEF Keeps
  <2> QED  BY <1>1, <2>1, <2>4, <2>5, <2>6, NoneSent, QuietTimely
<1>3. CASE phone[d].stored # None
  <2> DEFINE t == phone[d].stored
             boot == [NoBoot EXCEPT !.at = "exchange", !.token = t]
             r == [phone[d] EXCEPT !.status = "restoring", !.boot = boot]
  <2>1. /\ phone' = [phone EXCEPT ![d] = r]
        /\ \E c \in Calls : Send(c, <<d, "boot">>, "refresh", t, 0)
    BY <1>3, <1>p DEF Launch
  <2>2. boot.at = "exchange" /\ boot.token = t /\ boot.tries = 0 /\ boot.left = 0
    BY DEF NoBoot
  <2>3. r.status = "restoring" /\ r.stored = t /\ r.boot = boot
    <3> HIDE DEF boot
    <3> QED  BY <1>p DEF PhoneStates
  <2>4. phone'[d] = r /\ \A e \in Phones \ {d} : phone'[e] = phone[e]
    <3> HIDE DEF r
    <3> QED  BY <1>p, <2>1
  <2> HIDE DEF r, boot
  <2>5. PICK c \in Calls : Send(c, <<d, "boot">>, "refresh", t, 0)
    BY <2>1
  <2>6. t \in Issued /\ t \in Tokens /\ Holds(d, t)
    BY <1>1, <1>3 DEF Holds, Issued
  <2>7. InTime(t, Due(losses))
    <3>1. Sound(d, t) /\ ~Retries(d, t)
      BY <1>1, <2>6 DEF Timely, StoredSound, Retries
    <3> QED  BY <3>1 DEF Sound, Unused, InTime
  <2>8. \A u \in Tokens : Holds(d, u)' => Holds(d, u)
    BY <2>2, <2>3, <2>4 DEF Holds, Retries
  <2>10. /\ call'[c].by = <<d, "boot">> /\ call'[c].at = "sent"
         /\ \A b \in Calls \ {c} : call'[b] = call[b]
         /\ StoredSound(d)' /\ BootInTime(d)' => Timely'
    <3>1. Presents(c, d, "boot", t)
      BY <1>1, <2>4, <2>5, <2>6, <2>7, <2>8 DEF Presents
    <3> HIDE DEF t
    <3> QED  BY <3>1, RefreshSent
  <2>11. StoredSound(d)'
    BY <2>2, <2>3, <2>4 DEF StoredSound, Sound, Retries
  <2>12. \A b \in Calls : call'[b].by = <<d, "boot">> => b = c
    BY <1>1, <2>10 DEF Matches
  <2>13. BootInTime(d)'
    <3>1. session[t].age \in Nat /\ session' = session /\ losses' = losses
      BY <1>1, <2>6, RowAges
    <3>2. losses \in 0..5 /\ 0 \in 0..5
      BY DEF Typed, Timely
    <3>3. Due(losses) \in 0..112
      BY <3>2, DueFacts
    <3> HIDE DEF t
    <3>4. session'[t].replaced # None => session'[t].age + 0 <= Due(losses)
      BY <2>7, <3>1, <3>3 DEF InTime
    <3> QED  BY <2>2, <2>3, <2>4, <2>10, <2>12, <3>1, <3>2, <3>3, <3>4 DEF BootInTime, Due
  <2> QED  BY <2>10, <2>11, <2>13
<1> QED  BY <1>2, <1>3

LEMMA TryAgainTimely ==
    ASSUME Typed, Typed', FlowsOK, Timely, NEW d \in Phones, TryAgain(d)
    PROVE  Timely'
<1>p. /\ phone \in [Phones -> PhoneStates] /\ phone[d] \in PhoneStates /\ phone[d].boot \in Boots
      /\ phone[d].status \in {"closed", "restoring", "signedOut", "signedIn"}
  BY PhoneFields DEF Typed
<1>i. None \notin Tokens
  BY Constants
<1>1. /\ phone[d].boot.at = "pause" /\ phone[d].boot.left = 0 /\ UNCHANGED <<session, losses>>
      /\ Resting(d) /\ BootApart(d) /\ \A b \in Calls : Matches(d, b)
  BY DEF TryAgain, FlowsOK, FlowsOf
<1>2. BootInTime(d) /\ StoredSound(d)
  BY DEF Timely
<1>3. \A b \in Calls : call[b].by # <<d, "boot">>
  BY <1>1 DEF Matches
<1>4. CASE /\ Quiet(phone[d].boot.tries)
           /\ phone[d].status # "signedOut" \/ phone[d].stored # phone[d].boot.token
           /\ phone' = [phone EXCEPT ![d].boot = NoBoot] /\ UNCHANGED call
  <2> DEFINE r == [phone[d] EXCEPT !.boot = NoBoot]
  <2>1. phone' = [phone EXCEPT ![d] = r]
    BY <1>4, <1>p
  <2>2. r.status = phone[d].status /\ r.stored = phone[d].stored /\ r.boot = NoBoot
    BY <1>p DEF PhoneStates
  <2>3. phone'[d] = r /\ \A e \in Phones \ {d} : phone'[e] = phone[e]
    <3> HIDE DEF r
    <3> QED  BY <1>p, <2>1
  <2> HIDE DEF r
  <2>4. phone[d].stored # phone[d].boot.token
    BY <1>1, <1>2, <1>4, <1>p DEF BootInTime, Quiet, Resting, BootApart
  <2>5. /\ \A b \in Calls : CallCalm(b) /\ call'[b].new \in {call[b].new, None}
        /\ \A e \in Phones, flow \in Flows : Steady(e, flow)
        /\ \A b \in Calls, e \in Phones : call'[b].by = <<e, "boot">> => call'[b] = call[b]
    BY <1>4, NoneSent
  <2>6. RowsCalm /\ LossesGrow
    BY <1>1, RowsYounger DEF Typed, Timely, LossesGrow
  <2>7. /\ \A b \in Calls : Renews(b)' => RunsInTime(b)'
        /\ \A b \in Calls : /\ call'[b].at = "reuse" => call'[b].kind = "refresh"
                            /\ call'[b].at = "free" => call'[b].by = None
        /\ \A t \in Tokens : Unused(t) => Unused(t)'
    BY <2>5, <2>6, CalmServer
  <2>8. \A e \in Phones, t \in Tokens : Holds(e, t)' => Holds(e, t)
    BY <2>2, <2>3 DEF Holds, Retries, NoBoot
  <2>9. StoredSound(d)' /\ BootInTime(d)'
    <3>1. SUFFICES ASSUME NEW t \in Tokens, phone[d].stored = t  PROVE Sound(d, t)'
      BY <2>2, <2>3 DEF StoredSound, BootInTime, NoBoot
    <3>2. Steady(d, "renew") /\ ~Retries(d, t)
      BY <2>4, <2>5, <3>1 DEF Flows, Retries
    <3> QED  BY <2>2, <2>3, <2>6, <2>7, <3>1, <3>2, StaysSound
  <2>10. ASSUME NEW e \in Phones \ {d}  PROVE StoredSound(e)' /\ BootInTime(e)'
    <3>1. Steady(e, "boot") /\ Steady(e, "renew") /\ phone'[e] = phone[e]
      BY <2>3, <2>5 DEF Flows
    <3>2. BootInTime(e)'
      BY <3>1, <2>5, <2>6, CalmBoot
    <3>3. Keeps(e)
      BY <3>1 DEF Keeps
    <3> QED  BY <3>1, <3>2, <3>3, <2>6, <2>7, CalmStored
  <2>11. OneHolder' /\ NewUnused'
    BY <1>4, <2>7, <2>8 DEF Timely, OneHolder, NewUnused
  <2> QED  BY <2>6, <2>7, <2>9, <2>10, <2>11 DEF Timely, LossesGrow
<1>5. CASE /\ \E c \in Calls : Send(c, <<d, "boot">>, "refresh", phone[d].boot.token, 0)
           /\ phone' = [phone EXCEPT ![d].boot.at = "exchange"]
  <2> DEFINE t == phone[d].boot.token
             boot == [phone[d].boot EXCEPT !.at = "exchange"]
             r == [phone[d] EXCEPT !.boot = boot]
  <2>1. phone' = [phone EXCEPT ![d] = r]
    BY <1>5, <1>p DEF PhoneStates
  <2>2. /\ boot.at = "exchange" /\ boot.token = t /\ boot.tries = phone[d].boot.tries
        /\ boot.left = phone[d].boot.left
    BY <1>p, BootFields
  <2>3. r.status = phone[d].status /\ r.stored = phone[d].stored /\ r.boot = boot
    <3> HIDE DEF boot
    <3> QED  BY <1>p DEF PhoneStates
  <2>4. phone'[d] = r /\ \A e \in Phones \ {d} : phone'[e] = phone[e]
    <3> HIDE DEF r
    <3> QED  BY <1>p, <2>1
  <2> HIDE DEF r, boot
  <2>5. PICK c \in Calls : Send(c, <<d, "boot">>, "refresh", t, 0)
    BY <1>5
  <2>6. t \in Issued /\ t \in Tokens /\ Holds(d, t)
    BY <1>1 DEF Holds, Issued, BootApart, Retries
  <2>7. session[t].replaced # None => session[t].age + 0 <= Due(losses)
    BY <1>1, <1>2 DEF BootInTime
  <2>8. InTime(t, Due(losses))
    <3>1. session[t].age \in Nat
      BY <2>6, RowAges
    <3> HIDE DEF t
    <3> QED  BY <2>7, <3>1 DEF InTime
  <2>9. \A u \in Tokens : Retries(d, u)' = Retries(d, u) /\ (Holds(d, u)' => Holds(d, u))
    BY <1>1, <2>2, <2>3, <2>4 DEF Holds, Retries
  <2>10. /\ Steady(d, "renew") /\ call'[c].by = <<d, "boot">> /\ call'[c].at = "sent"
         /\ \A b \in Calls \ {c} : call'[b] = call[b]
         /\ \A u \in Tokens : Unused(u) /\ u # t => Unused(u)'
         /\ StoredSound(d)' /\ BootInTime(d)' => Timely'
    <3>1. Presents(c, d, "boot", t)
      BY <1>1, <2>4, <2>5, <2>6, <2>8, <2>9 DEF Presents
    <3> HIDE DEF t
    <3> QED  BY <3>1, RefreshSent
  <2>11. Retries(d, t)
    BY <1>1 DEF Retries
  <2>12. StoredSound(d)'
    <3>1. SUFFICES ASSUME NEW u \in Tokens, phone[d].stored = u  PROVE Sound(d, u)'
      BY <2>3, <2>4 DEF StoredSound
    <3>2. RowsCalm /\ LossesGrow
      BY <1>1, RowsYounger DEF Typed, Timely, LossesGrow
    <3>3. CASE u = t
      BY <3>3, <2>9, <2>11 DEF Sound
    <3>4. CASE u # t
      BY <3>1, <3>2, <3>4, <2>3, <2>4, <2>9, <2>10, StaysSound
    <3> QED  BY <3>3, <3>4
  <2>13. \A b \in Calls : call'[b].by = <<d, "boot">> => b = c
    BY <1>3, <2>10
  <2>14. BootInTime(d)'
    BY <1>1, <1>2, <2>2, <2>3, <2>4, <2>10, <2>13 DEF BootInTime, Due
  <2> QED  BY <2>10, <2>12, <2>14
<1> QED  BY <1>4, <1>5 DEF TryAgain

LEMMA RenewTimely ==
    ASSUME Typed, Typed', FlowsOK, Timely, NEW d \in Phones, Renew(d)
    PROVE  Timely'
<1>p. phone \in [Phones -> PhoneStates] /\ phone[d] \in PhoneStates
  BY DEF Typed
<1>i. None \notin Tokens
  BY Constants
<1>1. /\ phone[d].status = "signedIn" /\ UNCHANGED <<session, losses>>
      /\ BootApart(d) /\ phone[d].stored \in Issued \cup {None}
      /\ \A b \in Calls : call[b].by # <<d, "renew">>
  BY DEF Renew, Awaited, FlowsOK, FlowsOf
<1>2. CASE UNCHANGED call /\ phone' = [phone EXCEPT ![d] = Dropped(@)]
  <2> DEFINE r == Dropped(phone[d])
  <2>1. phone' = [phone EXCEPT ![d] = r]
    BY <1>2, <1>p
  <2>2. r.status = "signedOut" /\ r.stored = None /\ r.boot = phone[d].boot
    BY <1>p DEF PhoneStates, Dropped
  <2>3. phone'[d] = r /\ \A e \in Phones \ {d} : phone'[e] = phone[e]
    <3> HIDE DEF r
    <3> QED  BY <1>p, <2>1
  <2> HIDE DEF r
  <2>4. RowsCalm
    BY <1>1, RowsYounger DEF Typed
  <2>5. {"boot", "renew"} \subseteq Flows
    BY DEF Flows
  <2>6. \A e \in Phones : /\ Keeps(e)
                          /\ phone'[e].status = "restoring" => phone[e].status = "restoring"
    BY <2>2, <2>3 DEF Keeps
  <2> QED  BY <1>1, <1>2, <2>4, <2>5, <2>6, NoneSent, QuietTimely
<1>3. CASE /\ \E c \in Calls : Send(c, <<d, "renew">>, "refresh", phone[d].stored, 0)
           /\ UNCHANGED phone /\ phone[d].stored # None
  <2> DEFINE t == phone[d].stored
  <2>1. PICK c \in Calls : Send(c, <<d, "renew">>, "refresh", t, 0)
    BY <1>3
  <2>2. t \in Issued /\ t \in Tokens /\ Holds(d, t)
    BY <1>1, <1>3 DEF Holds, Issued
  <2>3. ~Retries(d, t)
    BY <1>1 DEF BootApart, Retries
  <2>4. Unused(t)
    BY <1>1, <2>2, <2>3 DEF Timely, StoredSound, Sound
  <2>5. InTime(t, Due(losses))
    BY <2>4 DEF Unused, InTime
  <2>6. \A u \in Tokens : Retries(d, u)' = Retries(d, u) /\ (Holds(d, u)' => Holds(d, u))
    BY <1>3 DEF Holds, Retries
  <2>7. /\ Steady(d, "boot") /\ call'[c].by = <<d, "renew">> /\ call'[c].token = t
        /\ call'[c].at = "sent" /\ \A b \in Calls \ {c} : call'[b] = call[b]
        /\ StoredSound(d)' /\ BootInTime(d)' => Timely'
    <3>1. Presents(c, d, "renew", t)
      BY <1>1, <1>3, <2>1, <2>2, <2>5, <2>6 DEF Presents
    <3> HIDE DEF t
    <3> QED  BY <3>1, RefreshSent
  <2>8. StoredSound(d)'
    <3>1. session[t].replaced = None /\ session' = session /\ phone'[d].stored = t
      BY <1>1, <1>3, <2>4 DEF Unused
    <3>2. Sound(d, t)'
      BY <2>7, <3>1 DEF Sound, InTime
    <3> QED  BY <3>1, <3>2 DEF StoredSound
  <2>9. BootInTime(d)'
    <3>1. BootInTime(d) /\ phone'[d] = phone[d]
      BY <1>3 DEF Timely
    <3>2. \A b \in Calls : call'[b].by = <<d, "boot">> => call'[b] = call[b]
      BY <2>7
    <3> QED  BY <1>1, <2>7, <3>1, <3>2 DEF BootInTime, Steady, InTime, Due
  <2> QED  BY <2>7, <2>8, <2>9
<1> QED  BY <1>2, <1>3 DEF Renew

LEMMA UserTimely ==
    ASSUME Typed, Typed', FlowsOK, Timely, NEW d \in Phones, NEW next, NEW kind, NEW token,
           NEW secret, Asks(d, next, kind, token, secret), losses' = losses
    PROVE  Timely'
<1>p. phone \in [Phones -> PhoneStates] /\ phone[d] \in PhoneStates
  BY DEF Typed
<1>a. /\ kind # "refresh" /\ phone' = [phone EXCEPT ![d].user = next] /\ UNCHANGED session
      /\ \E c \in Calls : Send(c, <<d, "user">>, kind, token, secret)
  BY DEF Asks
<1> DEFINE r == [phone[d] EXCEPT !.user = next]
<1>1. phone' = [phone EXCEPT ![d] = r]
  BY <1>p, <1>a
<1>2. r.status = phone[d].status /\ r.stored = phone[d].stored /\ r.boot = phone[d].boot
  BY <1>p DEF PhoneStates
<1>3. phone'[d] = r /\ \A e \in Phones \ {d} : phone'[e] = phone[e]
  <2> HIDE DEF r
  <2> QED  BY <1>p, <1>1
<1> HIDE DEF r
<1>4. \A e \in Phones : /\ phone'[e].stored = phone[e].stored /\ phone'[e].boot = phone[e].boot
                        /\ phone'[e].status = phone[e].status /\ Keeps(e)
  BY <1>2, <1>3 DEF Keeps
<1>5. RowsCalm
  BY <1>a, RowsYounger DEF Typed
<1>6. PICK c \in Calls : Send(c, <<d, "user">>, kind, token, secret)
  BY <1>a
<1>7. \A e \in Phones : <<d, "user">> # <<e, "boot">>
  OBVIOUS
<1>s. ServerOK
  BY DEF Typed
<1>8. /\ \A b \in Calls : CallCalm(b) /\ call'[b].new \in {call[b].new, None}
      /\ \A e \in Phones, flow \in Flows : Steady(e, flow)
      /\ \A b \in Calls, e \in Phones : call'[b].by = <<e, "boot">> => call'[b] = call[b]
  BY <1>s, <1>a, <1>6, <1>7, OtherSent
<1>9. {"boot", "renew"} \subseteq Flows
  BY DEF Flows
<1> QED  BY <1>4, <1>5, <1>8, <1>9, QuietTimely

LEMMA CloseTimely ==
    ASSUME Typed, Typed', FlowsOK, Timely, NEW d \in Phones, CloseApp(d)
    PROVE  Timely'
<1>p. phone \in [Phones -> PhoneStates] /\ ServerOK
  BY DEF Typed
<1>i. None \notin Tokens /\ \A e \in Phones, flow \in Flows : <<e, flow>> # None
  BY Constants, PhoneAssumption
<1> DEFINE r == [Closed EXCEPT !.stored = phone[d].stored]
<1>1. /\ phone' = [phone EXCEPT ![d] = r] /\ Abandon(Waiting(d))
      /\ UNCHANGED <<session, losses>>
  BY DEF CloseApp
<1>2. r.status = "closed" /\ r.stored = phone[d].stored /\ r.boot.at = "none"
  BY DEF Closed, NoBoot
<1> HIDE DEF r
<1>3. phone'[d] = r /\ \A e \in Phones \ {d} : phone'[e] = phone[e]
  BY <1>1, <1>p
<1>4. RowsCalm /\ LossesGrow
  BY <1>1, <1>p, RowsYounger DEF Typed, Timely, LossesGrow
<1>5. ASSUME NEW c \in Calls
      PROVE  \/ c \in Waiting(d) /\ call'[c] = NoCall
             \/ c \notin Waiting(d) /\ call'[c] = call[c]
             \/ /\ c \in Waiting(d) /\ call[c].at \notin Outcomes /\ call'[c].by = None
                /\ call'[c].kind = call[c].kind /\ call'[c].at = call[c].at
                /\ call'[c].token = call[c].token /\ call'[c].new = call[c].new
  BY <1>p, <1>1, Abandoned
<1>6. ASSUME NEW c \in Calls
      PROVE  /\ CallCalm(c) /\ call'[c].new \in {call[c].new, None}
             /\ call'[c].by # None => call'[c] = call[c]
  <2>1. CASE call'[c] = NoCall
    BY <2>1 DEF NoCall, CallCalm, Renews, Open
  <2>2. CASE call'[c] = call[c]
    BY <2>2, CallStill
  <2>3. CASE /\ call'[c].by = None /\ call'[c].kind = call[c].kind /\ call'[c].at = call[c].at
             /\ call'[c].token = call[c].token /\ call'[c].new = call[c].new
    BY <2>3 DEF CallCalm, Renews, Open, Timely
  <2> QED  BY <1>5, <2>1, <2>2, <2>3
<1>7. \A e \in Phones \ {d}, flow \in Flows : Steady(e, flow)
  <2> SUFFICES ASSUME NEW e \in Phones \ {d}, NEW flow \in Flows, NEW c \in Calls,
                      call[c].by = <<e, flow>>
               PROVE  call'[c] = call[c]
    BY DEF Steady
  <2>1. c \notin Waiting(d)
    BY DEF Waiting, Awaited
  <2> QED  BY <1>5, <2>1
<1>8. /\ \A b \in Calls : Renews(b)' => RunsInTime(b)'
      /\ \A b \in Calls : /\ call'[b].at = "reuse" => call'[b].kind = "refresh"
                          /\ call'[b].at = "free" => call'[b].by = None
      /\ \A t \in Tokens : Unused(t) => Unused(t)'
  BY <1>4, <1>6, CalmServer
<1>9. \A e \in Phones, t \in Tokens : Holds(e, t)' => Holds(e, t)
  BY <1>2, <1>3 DEF Holds, Retries
<1>10. OneHolder' /\ NewUnused'
  BY <1>6, <1>8, <1>9, <1>i DEF Timely, OneHolder, NewUnused
<1>11. StoredSound(d)' /\ BootInTime(d)'
  <2>1. SUFFICES ASSUME NEW t \in Tokens, phone[d].stored = t  PROVE Sound(d, t)'
    BY <1>2, <1>3 DEF StoredSound, BootInTime
  <2>2. Sound(d, t) /\ session[t].age \in Nat /\ losses \in 0..5
    BY <2>1, RowAges DEF Timely, StoredSound, Typed
  <2>3. Due(losses) \in 0..112
    BY <2>2, DueFacts
  <2>4. ASSUME Retries(d, t)  PROVE InTime(t, Due(losses))
    <3>1. PICK left \in 0..120 : left = phone[d].boot.left
      BY <1>p, PhoneFields, BootFields
    <3>2. session[t].replaced # None => session[t].age + left <= Due(losses)
      BY <2>4, <3>1 DEF Retries, Timely, BootInTime
    <3>3. session[t].age + left <= Due(losses) => session[t].age <= Due(losses)
      BY <2>2, <2>3, <3>1
    <3> QED  BY <3>2, <3>3 DEF InTime
  <2>5. Unused(t)' \/ InTime(t, Due(losses))
    BY <1>8, <2>2, <2>4 DEF Sound
  <2>6. phone'[d].status = "closed" /\ session' = session /\ losses' = losses
    BY <1>1, <1>2, <1>3
  <2> QED  BY <2>5, <2>6 DEF Sound, InTime, Due
<1>12. ASSUME NEW e \in Phones \ {d}  PROVE StoredSound(e)' /\ BootInTime(e)'
  <2>1. Steady(e, "boot") /\ Steady(e, "renew") /\ phone'[e] = phone[e]
    BY <1>3, <1>7 DEF Flows
  <2>2. \A b \in Calls : call'[b].by = <<e, "boot">> => call'[b] = call[b]
    BY <1>6, <1>i DEF Flows
  <2>3. BootInTime(e)'
    BY <2>1, <2>2, <1>4, <1>6, CalmBoot
  <2>4. Keeps(e)
    BY <2>1 DEF Keeps
  <2> QED  BY <2>1, <2>3, <2>4, <1>4, <1>8, CalmStored
<1> QED  BY <1>4, <1>8, <1>10, <1>11, <1>12 DEF Timely, LossesGrow
-----------------------------------------------------------------------------
(* Time passes while nothing runs.                                         *)
LEMMA NothingRuns ==
    ASSUME FlowsOK, Timely, Quick, UNCHANGED call
    PROVE  /\ \A c \in Calls : call[c].by = None /\ ~Renews(c) /\ ~Renews(c)'
           /\ \A d \in Phones : /\ phone[d].boot.at # "exchange"
                                /\ \A c \in Calls, flow \in Flows : call[c].by # <<d, flow>>
<1>1. \A c \in Calls : call[c].by = None /\ ~Renews(c) /\ ~Renews(c)'
  BY DEF Quick, Timely, Renews, Open
<1>2. \A d \in Phones, flow \in Flows : <<d, flow>> # None
  BY Constants, PhoneAssumption
<1>3. "boot" \in Flows
  BY DEF Flows
<1> QED  BY <1>1, <1>2, <1>3 DEF Timely, BootInTime

(* What is left to prove when nothing runs and no token changes hands.     *)
LEMMA PauseTimely ==
    ASSUME Typed, FlowsOK, Timely, Quick, Adrift = {}, UNCHANGED <<call, losses>>, SameChains,
           \A d \in Phones : /\ phone'[d].stored = phone[d].stored
                             /\ phone'[d].status = phone[d].status
                             /\ phone'[d].boot.at = phone[d].boot.at
                             /\ phone'[d].boot.token = phone[d].boot.token,
           \A d \in Phones : BootInTime(d)'
    PROVE  Timely'
<1>1. /\ \A c \in Calls : call[c].by = None /\ ~Renews(c) /\ ~Renews(c)'
      /\ \A d \in Phones, c \in Calls, flow \in Flows : call[c].by # <<d, flow>>
  BY NothingRuns
<1>2. "renew" \in Flows
  BY DEF Flows
<1>3. \A t \in Tokens : Unused(t) => Unused(t)'
  BY <1>1 DEF Unused, SameChains
<1>4. \A d \in Phones, t \in Tokens : /\ Retries(d, t)' = Retries(d, t)
                                      /\ Holds(d, t)' = Holds(d, t)
  BY DEF Retries, Holds
<1>5. OneHolder' /\ NewUnused'
  BY <1>3, <1>4 DEF Timely, OneHolder, NewUnused
<1>6. ASSUME NEW d \in Phones  PROVE StoredSound(d)'
  <2>1. SUFFICES ASSUME NEW t \in Tokens, phone[d].stored = t  PROVE Sound(d, t)'
    BY DEF StoredSound
  <2>2. Sound(d, t)
    BY <2>1 DEF Timely, StoredSound
  <2>3. ASSUME phone[d].status = "closed"  PROVE session'[t].replaced = None
    <3>1. t # None /\ session'[t].replaced = session[t].replaced
      BY Constants DEF SameChains
    <3> QED  BY <2>1, <2>3, <3>1 DEF Adrift
  <2> QED  BY <1>1, <1>2, <1>3, <1>4, <2>2, <2>3 DEF Sound, InTime
<1> QED  BY <1>1, <1>5, <1>6 DEF Timely

LEMMA ElapseTimely ==
    ASSUME Typed, FlowsOK, Timely, seen' = {}, Elapse
    PROVE  Timely'
<1>p. /\ phone \in [Phones -> PhoneStates]
      /\ \A d \in Phones : phone[d] \in PhoneStates /\ phone[d].boot \in Boots
      /\ \A d \in Phones : phone[d].boot.at \in {"none", "exchange", "pause"}
      /\ \A d \in Phones : phone[d].boot.left \in 0..120
  BY PhoneFields, BootFields DEF Typed
<1>1. PICK first \in Pausing :
        /\ \A d \in Pausing : phone[d].boot.left >= phone[first].boot.left
        /\ Wait(phone[first].boot.left)
        /\ phone' = [d \in Phones |-> IF d \in Pausing
              THEN [phone[d] EXCEPT !.boot.left = @ - phone[first].boot.left] ELSE phone[d]]
  BY DEF Elapse
<1>2. /\ Quick /\ UNCHANGED <<call, losses>> /\ Adrift = {}
      /\ \A d \in Phones : phone[d].boot.at = "pause" => d \in Pausing
  BY DEF Elapse, Noted
<1> DEFINE n == phone[first].boot.left
<1>3. n \in Nat /\ first \in Phones
  BY <1>p DEF Pausing
<1>4. SameChains
  BY <1>1, <1>3, QuietRows DEF Typed
<1>5. /\ \A c \in Calls : ~Renews(c)' /\ call'[c] = call[c] /\ call[c].at = "free"
      /\ \A d \in Phones : phone[d].boot.at # "exchange"
  BY <1>2, NothingRuns DEF Quick
<1>6. ASSUME NEW t \in Tokens  PROVE session'[t].age <= session[t].age + n /\ session'[t].age \in Nat
  <2>1. session[t] \in Rows /\ session[t].age \in Nat
    BY RowAges DEF Typed, ServerOK
  <2>2. session' = Aged(n)
    BY <1>1 DEF Wait
  <2>3. \/ session'[t] = session[t]
        \/ session'[t] = [session[t] EXCEPT !.age = Lesser(session[t].age + n, Grace + 1)]
    BY <2>1, <2>2 DEF Aged, Rows
  <2> DEFINE k == Lesser(session[t].age + n, Grace + 1)
  <2>4. k \in Nat /\ k <= session[t].age + n
    BY <2>1, <1>3, Constants DEF Lesser
  <2> HIDE DEF k, n
  <2>5. session'[t].age = session[t].age \/ session'[t].age = k
    BY <2>1, <2>3 DEF Rows, k
  <2> QED  BY <2>1, <2>4, <2>5, <1>3
<1>7. ASSUME NEW d \in Phones
      PROVE  /\ phone'[d].status = phone[d].status /\ phone'[d].stored = phone[d].stored
             /\ phone'[d].boot.at = phone[d].boot.at
             /\ phone'[d].boot.token = phone[d].boot.token
             /\ phone'[d].boot.tries = phone[d].boot.tries
             /\ d \in Pausing => phone'[d].boot.left = phone[d].boot.left - n
  <2>1. CASE d \in Pausing
    <3> DEFINE left == phone[d].boot.left - n
               boot == [phone[d].boot EXCEPT !.left = left]
               r == [phone[d] EXCEPT !.boot = boot]
    <3>1. phone'[d] = r
      BY <1>1, <2>1, <1>p DEF PhoneStates, Boots
    <3>2. /\ boot.at = phone[d].boot.at /\ boot.token = phone[d].boot.token
          /\ boot.tries = phone[d].boot.tries /\ boot.left = left
      <4> HIDE DEF left
      <4> QED  BY <1>p, BootFields
    <3> HIDE DEF boot
    <3>3. r.status = phone[d].status /\ r.stored = phone[d].stored /\ r.boot = boot
      BY <1>p DEF PhoneStates
    <3> HIDE DEF r
    <3> QED  BY <3>1, <3>2, <3>3
  <2>2. CASE d \notin Pausing
    BY <1>1, <2>2
  <2> QED  BY <2>1, <2>2
<1>8. ASSUME NEW d \in Phones  PROVE BootInTime(d)'
  <2> DEFINE boot == phone[d].boot
             now == phone'[d].boot
  <2>1. CASE boot.at = "none"
    BY <2>1, <1>7 DEF BootInTime
  <2>2. CASE boot.at = "pause"
    <3>1. d \in Pausing /\ boot.left \in Nat /\ boot.left >= n
      BY <1>1, <1>2, <1>p, <2>2
    <3>2. /\ boot.tries \in 0..5 /\ boot.tries <= losses
          /\ boot.left <= Due(losses)
          /\ session[boot.token].replaced # None =>
                session[boot.token].age + boot.left <= Due(losses)
          /\ boot.tries >= 2 => phone[d].status # "restoring"
      BY <2>2 DEF Timely, BootInTime
    <3>3. boot.token \in Tokens /\ session[boot.token].age \in Nat
      BY <2>2, RowAges DEF FlowsOK, FlowsOf, BootApart, Issued
    <3>4. Due(losses) \in Nat
      BY DueFacts DEF Typed, Timely
    <3>5. /\ now.at = "pause" /\ now.token = boot.token /\ now.tries = boot.tries
          /\ now.left = boot.left - n
      BY <2>2, <3>1, <1>7
    <3>6. session'[boot.token].replaced = session[boot.token].replaced
      BY <3>3, <1>4 DEF SameChains
    <3>7. session'[boot.token].age <= session[boot.token].age + n /\ session'[boot.token].age \in Nat
      BY <3>3, <1>6
    <3>8. phone'[d].status = phone[d].status
      BY <1>7
    <3> HIDE DEF boot, now, n
    <3>9. now.left \in Nat /\ now.left <= Due(losses)
      BY <3>1, <3>2, <3>4, <3>5, <1>3
    <3>10. session'[now.token].replaced # None =>
              session'[now.token].age + now.left <= Due(losses)
      BY <3>1, <3>2, <3>3, <3>4, <3>5, <3>6, <3>7, <1>3
    <3> QED
      BY <1>2, <1>5, <3>2, <3>5, <3>8, <3>9, <3>10 DEF BootInTime, Due, now
  <2> QED  BY <1>p, <1>5, <2>1, <2>2
<1> HIDE DEF n
<1> QED  BY <1>2, <1>4, <1>7, <1>8, PauseTimely

LEMMA IdleTimely ==
    ASSUME Typed, FlowsOK, Timely, seen' = {}, NEW month \in BOOLEAN, Idle(month)
    PROVE  Timely'
<1>1. /\ Quick /\ Adrift = {} /\ UNCHANGED <<call, losses>> /\ WaitLong(month)
      /\ \A d \in Phones : phone[d].boot = NoBoot
  BY DEF Idle, Noted
<1>2. SameChains
  BY <1>1, QuietRows DEF Typed
<1>3. \A d \in Phones : /\ phone'[d].status = phone[d].status
                        /\ phone'[d].stored = phone[d].stored
                        /\ phone'[d].boot.at = phone[d].boot.at
                        /\ phone'[d].boot.token = phone[d].boot.token
  BY Asleep DEF Typed
<1>4. \A d \in Phones : BootInTime(d)'
  BY <1>1, <1>3 DEF BootInTime, NoBoot
<1> QED  BY <1>1, <1>2, <1>3, <1>4, PauseTimely
-----------------------------------------------------------------------------
LEMMA TimelyInit == Init => Timely
<1> SUFFICES ASSUME Init  PROVE Timely
  OBVIOUS
<1>1. /\ \A c \in Calls : call[c].by = None /\ call[c].new = None /\ call[c].at = "free"
      /\ \A d \in Phones : phone[d].stored = None /\ phone[d].boot.at = "none"
      /\ losses = 0
  BY DEF Init, ServerInit, NoCall, Closed, NoBoot
<1>2. None \notin Tokens
  BY Constants
<1> QED
  BY <1>1, <1>2 DEF Timely, OneHolder, NewUnused, StoredSound, BootInTime, Holds, Retries,
                    Renews, Open

LEMMA TimelyStep ==
    ASSUME Typed, Typed', Renewing, FlowsOK, Timely, seen' = {}, 112 <= Grace,
           MaxLosses <= 5, [Next]_vars
    PROVE  Timely'
<1>s. ServerOK
  BY DEF Typed
<1>l. losses \in Nat /\ losses <= 5 /\ MaxLosses \in Nat
  BY PhoneAssumption DEF Typed, Timely
<1>f. {"boot", "renew"} \subseteq Flows
  BY DEF Flows
<1>k. phone' = phone => \A d \in Phones :
        Keeps(d) /\ (phone'[d].status = "restoring" => phone[d].status = "restoring")
  BY DEF Keeps
<1>1. ASSUME NEW c \in Calls, Handle(c)  PROVE Timely'
  BY <1>1, <1>s, <1>l, ServeHandled, HandlerTimely DEF Handle, LossesGrow
<1>2. ASSUME NEW c \in Calls, Deliver(c) \/ LoseAnswer(c)  PROVE Timely'
  BY <1>2, AnswerTimely
<1>3. ASSUME NEW c \in Calls, Crash(c)  PROVE Timely'
  <2>1. /\ Open(c) /\ Reply(c, "failed") /\ UNCHANGED <<session, phone>>
        /\ losses < MaxLosses /\ losses' = losses + 1 /\ "failed" \in Outcomes
    BY <1>3 DEF Crash, Die, Outcomes
  <2>2. Kept(c) /\ RowsCalm
    BY <1>s, <2>1, KeptReply, RowsYounger DEF Issued
  <2> DEFINE r == [call[c] EXCEPT !.at = "failed"]
  <2>3. call[c] \in Requests /\ ((call[c].by = None /\ call'[c] = NoCall) \/ call'[c] = r)
    BY <1>s, <2>1 DEF Reply, ServerOK
  <2>4. /\ r.by = call[c].by /\ r.new = call[c].new /\ r.at = "failed"
    BY <2>3 DEF Requests
  <2> HIDE DEF r
  <2>5. Handled(c)
    BY <2>1, <2>2, <2>3, <2>4, <1>l DEF Handled, CallCalm, Renews, Open, NoCall
  <2>6. LossesGrow
    BY <2>1, <1>l DEF LossesGrow
  <2> QED  BY <2>1, <2>5, <2>6, HandlerTimely
<1>4. ASSUME NEW c \in Calls, ChangeElsewhere(c)  PROVE Timely'
  <2>1. /\ Send(c, None, "change", None, account.password) /\ UNCHANGED <<session, phone, losses>>
    BY <1>4 DEF ChangeElsewhere
  <2>2. \A d \in Phones, flow \in Flows : None # <<d, flow>>
    BY Constants, PhoneAssumption
  <2>3. /\ \A b \in Calls : CallCalm(b) /\ call'[b].new \in {call[b].new, None}
        /\ \A d \in Phones, flow \in Flows : Steady(d, flow)
        /\ \A b \in Calls, d \in Phones : call'[b].by = <<d, "boot">> => call'[b] = call[b]
    BY <1>s, <1>f, <2>1, <2>2, OtherSent
  <2>4. RowsCalm
    BY <1>s, <2>1, RowsYounger
  <2> QED  BY <1>f, <1>k, <2>1, <2>3, <2>4, QuietTimely
<1>5. ASSUME NEW d \in Phones, Launch(d) \/ TryAgain(d) \/ Renew(d) \/ CloseApp(d)
      PROVE  Timely'
  BY <1>5, LaunchTimely, TryAgainTimely, RenewTimely, CloseTimely
<1>u. ASSUME NEW d \in Phones, NEW status \in {"signedOut", "signedIn"}, NEW next, NEW kind,
             NEW token, NEW secret, UserSends(d, status, next, kind, token, secret),
             \/ next = "in" /\ kind \in {"login", "signup"}
             \/ next = "change" /\ kind = "change"
             \/ next = "out" /\ kind = "logout"
      PROVE  Timely'
  <2>1. Asks(d, next, kind, token, secret) /\ losses' = losses
    BY <1>u DEF UserSends, Asks
  <2> QED  BY <2>1, UserTimely
<1>6. ASSUME NEW d \in Phones, NEW secret,
             SignUp(d) \/ SignOut(d) \/ SignIn(d, secret) \/ ChangePassword(d, secret)
      PROVE  Timely'
  <2>1. CASE SignUp(d)
    <3>1. UserSends(d, "signedOut", "in", "signup", None, 0)
      BY <2>1 DEF SignUp
    <3> QED  BY <3>1, <1>u
  <2>2. CASE SignOut(d)
    <3>1. UserSends(d, "signedIn", "out", "logout", phone[d].stored, 0)
      BY <2>2 DEF SignOut
    <3> QED  BY <3>1, <1>u
  <2>3. CASE SignIn(d, secret)
    <3>1. UserSends(d, "signedOut", "in", "login", None, secret)
      BY <2>3 DEF SignIn
    <3> QED  BY <3>1, <1>u
  <2>4. CASE ChangePassword(d, secret)
    <3>1. UserSends(d, "signedIn", "change", "change", None, secret)
      BY <2>4 DEF ChangePassword
    <3> QED  BY <3>1, <1>u
  <2> QED  BY <1>6, <2>1, <2>2, <2>3, <2>4
<1>7. ASSUME NEW d \in Phones, LeaveAfterChange(d)  PROVE Timely'
  <2>1. phone[d].user \in {"idle", "leave"} /\ phone[d].status \notin {"closed", "restoring"}
    BY <1>7 DEF LeaveAfterChange, FlowsOK, FlowsOf, Resting
  <2>2. Asks(d, "out", "logout", phone[d].stored, 0) /\ losses' = losses
    BY <1>7, <2>1 DEF LeaveAfterChange, Asks
  <2> QED  BY <2>2, UserTimely
<1>8. CASE Elapse
  BY <1>8, ElapseTimely
<1>9. CASE OwnerResets
  <2>1. /\ UNCHANGED <<call, phone, losses>> /\ \E rows : session' = Revoked(rows)
    BY <1>9 DEF OwnerResets, ResetResidentPassword
  <2>2. RowsCalm
    BY <1>s, <2>1, RowsYounger
  <2> QED  BY <1>f, <1>k, <2>1, <2>2, NoneSent, QuietTimely
<1>10. ASSUME NEW month \in BOOLEAN, Idle(month)  PROVE Timely'
  BY <1>10, IdleTimely
<1>11. CASE UNCHANGED vars
  <2>1. UNCHANGED <<call, phone, losses, session>>
    BY <1>11 DEF vars, server
  <2>2. RowsCalm
    BY <1>s, <2>1, RowsYounger
  <2> QED  BY <1>f, <1>k, <2>1, <2>2, NoneSent, QuietTimely
<1> QED
  BY <1>1, <1>2, <1>3, <1>4, <1>5, <1>6, <1>7, <1>8, <1>9, <1>10, <1>11 DEF Next

(* Nothing untoward has been seen.                                         *)
SeenNothing == seen = {} => Timely

(* Only a handler finds a token to be used again.                          *)
LEMMA FoundReused ==
    ASSUME Typed, FlowsOK, [Next]_vars, NEW c \in Calls, call[c].at # "reuse",
           call'[c].at = "reuse"
    PROVE  \E b \in Calls : Handle(b)
<1>s. call \in [Calls -> Requests] /\ ServerOK
  BY DEF Typed, ServerOK
<1>n. NoCall.at = "free"
  BY DEF NoCall
<1>1. ASSUME NEW b \in Calls, Deliver(b) \/ LoseAnswer(b)  PROVE FALSE
  <2>1. CASE call' = [call EXCEPT ![b] = NoCall]
    BY <2>1, <1>s, <1>n
  <2>2. CASE call' = [call EXCEPT ![b].by = None]
    <3> DEFINE r == [call[b] EXCEPT !.by = None]
    <3>1. r.at = call[b].at
      BY <1>s DEF Requests
    <3>2. call' = [call EXCEPT ![b] = r]
      BY <2>2, <1>s
    <3> HIDE DEF r
    <3> QED  BY <1>s, <3>1, <3>2
  <2> QED  BY <1>1, <2>1, <2>2 DEF Deliver, LoseAnswer, TakeAnswer, HangUp
<1>2. ASSUME NEW b \in Calls, Crash(b)  PROVE FALSE
  <2> DEFINE r == [call[b] EXCEPT !.at = "failed"]
  <2>1. r.at = "failed"
    BY <1>s DEF Requests
  <2>2. call' = [call EXCEPT ![b] = NoCall] \/ call' = [call EXCEPT ![b] = r]
    BY <1>2, <1>s DEF Crash, Die, Reply
  <2> HIDE DEF r
  <2> QED  BY <1>s, <1>n, <2>1, <2>2
<1>3. ASSUME NEW b \in Calls, NEW by, NEW kind, NEW token, NEW secret,
             Send(b, by, kind, token, secret)
      PROVE  FALSE
  BY <1>3, <1>s, Sent
<1>4. ASSUME NEW d \in Phones, CloseApp(d)  PROVE FALSE
  BY <1>4, <1>s, <1>n, Abandoned DEF CloseApp
<1>5. call' # call
  OBVIOUS
<1>6. ASSUME NEW d \in Phones, NEW secret,
             \/ Launch(d) \/ TryAgain(d) \/ Renew(d) \/ SignUp(d) \/ SignOut(d)
             \/ LeaveAfterChange(d) \/ SignIn(d, secret) \/ ChangePassword(d, secret)
      PROVE  FALSE
  <2>1. CASE Launch(d)
    BY <2>1, <1>3, <1>5 DEF Launch
  <2>2. CASE TryAgain(d)
    BY <2>2, <1>3, <1>5 DEF TryAgain
  <2>3. CASE Renew(d)
    BY <2>3, <1>3, <1>5 DEF Renew
  <2>4. CASE SignUp(d) \/ SignOut(d) \/ SignIn(d, secret) \/ ChangePassword(d, secret)
    BY <2>4, <1>3 DEF SignUp, SignOut, SignIn, ChangePassword, UserSends
  <2>5. CASE LeaveAfterChange(d)
    BY <2>5, <1>3 DEF LeaveAfterChange
  <2> QED  BY <1>6, <2>1, <2>2, <2>3, <2>4, <2>5
<1>7. ASSUME NEW b \in Calls, ChangeElsewhere(b)  PROVE FALSE
  BY <1>7, <1>3 DEF ChangeElsewhere
<1>8. Elapse \/ OwnerResets \/ UNCHANGED vars \/ (\E month \in BOOLEAN : Idle(month)) => FALSE
  BY <1>5 DEF Elapse, OwnerResets, ResetResidentPassword, Idle, vars, server
<1> QED  BY <1>1, <1>2, <1>4, <1>6, <1>7, <1>8 DEF Next

(* Until an answer gets lost late or the limiter spends a retry, and while *)
(* losses are few enough that the last retry of a launch is due 112        *)
(* seconds after it began and the server forgives for as long, nothing the *)
(* client does by itself makes the server take its own lost answer for a   *)
(* stolen token, stopped in the middle of a refresh or not: each token is  *)
(* held by one phone, and one that was replaced is presented only to make  *)
(* up for an answer lost within ROTATION_GRACE_MS.                         *)
THEOREM LostAnswersForgiven ==
    ASSUME 112 <= Grace, MaxLosses <= 5
    PROVE  Spec => LostAnswerForgiven
<1>1. SeenNothing /\ [Next]_vars /\ Typed /\ Typed' /\ Renewing /\ FlowsOK => SeenNothing'
  BY TimelyStep, SeenGrows DEF SeenNothing
<1>2. Typed /\ Renewing /\ FlowsOK /\ SeenNothing /\ [Next]_vars =>
         [\A c \in Calls :
            seen = {} /\ call[c].at # "reuse" /\ call'[c].at = "reuse"
                => session[call[c].token].replaced = None]_vars
  <2> SUFFICES ASSUME Typed, Renewing, FlowsOK, Timely, [Next]_vars, NEW c \in Calls,
                      call[c].at # "reuse", call'[c].at = "reuse"
               PROVE  session[call[c].token].replaced = None
    BY DEF SeenNothing
  <2>1. PICK b \in Calls : Handle(b)
    BY FoundReused
  <2>2. Handled(b)
    BY <2>1, ServeHandled DEF Handle, Typed
  <2>3. c = b
    BY <2>2 DEF Handled, Kept
  <2> QED  BY <2>2, <2>3 DEF Handled, CallCalm
<1>3. Init => SeenNothing
  BY TimelyInit DEF SeenNothing
<1> QED
  BY <1>1, <1>2, <1>3, PhoneInvariant, FlowsInvariant, PTL DEF Spec, LostAnswerForgiven
=============================================================================
