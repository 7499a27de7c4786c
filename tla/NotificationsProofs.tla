-------------------------- MODULE NotificationsProofs --------------------------
(***************************************************************************)
(* Push notifications for any number of users, devices, messages and       *)
(* processes, whatever fails or crashes: at most one push per message, and *)
(* a row that never says more than what happened.                          *)
(***************************************************************************)
EXTENDS NotificationsProperties, TLAPS

Holding == {"find", "send", "disable", "settle", "settle failed"}
Final == {"SENT", "DELIVERED", "FAILED"}
Deliveries == [status : {"none", "PENDING", "SKIPPED"} \cup Final, tickets : SUBSET Devices]
CallRows == [at : {"idle", "reserve"} \cup Holding, message : Messages \cup {None},
             devices : SUBSET Devices, accepted : SUBSET Devices, dead : SUBSET Devices,
             status : {"none", "SKIPPED", "FAILED", "SENT"}]
SweepRows == [at : {"idle", "fetch", "disable", "write"}, pending : SUBSET Messages,
              dead : SUBSET Devices, outcome : SUBSET (Messages \X {"DELIVERED", "FAILED"})]
Words == {"none", "ok", "DeviceNotRegistered", "error"}

Rows ==
    /\ delivery \in [Messages -> Deliveries]
    /\ pushes \in [Messages -> Nat]
    /\ receipt \in [Messages -> [Devices -> Words]]
    /\ call \in [Procs -> CallRows]
    /\ sweep \in [Procs -> SweepRows]

(* The call that reserved a message holds its PENDING row, alone, until it *)
(* settles it, and has sent nothing before it sends.                       *)
Holds(p, m) == call[p].at \in Holding /\ call[p].message = m
CallOK(c) ==
    /\ c.at # "idle" => c.message \in Messages
    /\ c.at \in Holding => delivery[c.message].status = "PENDING"
    /\ c.at \in {"find", "send"} => pushes[c.message] = 0
    /\ c.at = "send" => c.status = "FAILED"
    /\ c.at \in {"disable", "settle", "settle failed"} =>
          /\ c.status \in {"SKIPPED", "FAILED", "SENT"}
          /\ c.status = "SKIPPED" => pushes[c.message] = 0
          /\ c.status = "SENT" => pushes[c.message] > 0 /\ c.accepted # {}
HeldAlone ==
    \A p, q \in Procs : \A m \in Messages : Holds(p, m) /\ Holds(q, m) => p = q

(* What a sweep is about was pushed, and is nobody's to settle any more.   *)
Swept(m) == delivery[m].status \in Final /\ pushes[m] > 0 /\ delivery[m].tickets # {}
Reached(m) == \E d \in delivery[m].tickets : receipt[m][d] = "ok"
SweepOK(w) ==
    /\ \A m \in w.pending : Swept(m)
    /\ \A o \in w.outcome : Swept(o[1]) /\ (o[2] = "DELIVERED" => Reached(o[1]))

Inv ==
    /\ Rows /\ HeldAlone
    /\ \A p \in Procs : CallOK(call[p]) /\ SweepOK(sweep[p])
    /\ PushedAtMostOnce /\ StatusIsEarned
-----------------------------------------------------------------------------
LEMMA NoCallOK == NoCall \in CallRows /\ CallOK(NoCall)
  BY NotificationsAssumption DEF NoCall, CallRows, CallOK, Holding

LEMMA NoSweepOK == NoSweep \in SweepRows /\ SweepOK(NoSweep)
  BY DEF NoSweep, SweepRows, SweepOK

LEMMA InvInit == Init => Inv
<1> SUFFICES ASSUME Init PROVE Inv
  OBVIOUS
<1> USE NoCallOK, NoSweepOK
<1>1. Rows
  BY DEF Init, Rows, Deliveries, Words
<1>2. HeldAlone
  BY DEF Init, HeldAlone, Holds, Holding, NoCall
<1>3. \A p \in Procs : CallOK(call[p]) /\ SweepOK(sweep[p])
  BY DEF Init, NoCall, NoSweep, CallOK, SweepOK, Holding
<1>4. PushedAtMostOnce /\ StatusIsEarned
  BY DEF Init, PushedAtMostOnce, StatusIsEarned
<1> QED
  BY <1>1, <1>2, <1>3, <1>4 DEF Inv

(* One call moves on; no row, push or receipt changes.                     *)
LEMMA CallMoves ==
  ASSUME Inv, NEW p \in Procs, NEW c \in CallRows,
         call' = [call EXCEPT ![p] = c], CallOK(c),
         c.at \in Holding => call[p].at \in Holding /\ c.message = call[p].message,
         UNCHANGED <<delivery, pushes, receipt>>,
         sweep' \in [Procs -> SweepRows], \A q \in Procs : SweepOK(sweep'[q])
  PROVE  Inv'
<1>1. Rows'
  BY DEF Inv, Rows
<1>2. HeldAlone'
  BY DEF Inv, Rows, HeldAlone, Holds
<1>3. \A q \in Procs : CallOK(call[q])'
  BY DEF Inv, Rows, CallOK
<1>4. \A q \in Procs : SweepOK(sweep[q])'
  BY DEF SweepOK, Swept, Reached
<1>5. (PushedAtMostOnce /\ StatusIsEarned)'
  BY DEF Inv, PushedAtMostOnce, StatusIsEarned
<1> QED
  BY <1>1, <1>2, <1>3, <1>4, <1>5 DEF Inv

(* One sweep moves on; nothing else that matters changes.                  *)
LEMMA SweepMoves ==
  ASSUME Inv, NEW p \in Procs, NEW w \in SweepRows,
         sweep' = [sweep EXCEPT ![p] = w], SweepOK(w),
         UNCHANGED <<delivery, pushes, receipt, call>>
  PROVE  Inv'
<1>1. Rows' /\ HeldAlone'
  BY DEF Inv, Rows, HeldAlone, Holds
<1>2. \A q \in Procs : CallOK(call[q])'
  BY DEF Inv, CallOK
<1>3. \A q \in Procs : SweepOK(sweep[q])'
  <2> SUFFICES ASSUME NEW q \in Procs PROVE SweepOK(sweep[q])'
    OBVIOUS
  <2>1. SweepOK(sweep'[q])
    BY DEF Inv, Rows
  <2> QED
    BY <2>1 DEF SweepOK, Swept, Reached
<1>4. (PushedAtMostOnce /\ StatusIsEarned)'
  BY DEF Inv, PushedAtMostOnce, StatusIsEarned
<1> QED
  BY <1>1, <1>2, <1>3, <1>4 DEF Inv

(* Nothing that matters changes.                                           *)
LEMMA Untouched ==
  ASSUME Inv, UNCHANGED <<delivery, pushes, receipt, call, sweep>>  PROVE Inv'
<1>1. Rows' /\ HeldAlone'
  BY DEF Inv, Rows, HeldAlone, Holds
<1>2. \A q \in Procs : CallOK(call[q])' /\ SweepOK(sweep[q])'
  BY DEF Inv, CallOK, SweepOK, Swept, Reached
<1>3. (PushedAtMostOnce /\ StatusIsEarned)'
  BY DEF Inv, PushedAtMostOnce, StatusIsEarned
<1> QED
  BY <1>1, <1>2, <1>3 DEF Inv
-----------------------------------------------------------------------------
LEMMA NotifyOK == ASSUME Inv, NEW p \in Procs, NEW m \in Messages, Notify(p, m)  PROVE Inv'
<1> DEFINE c == [NoCall EXCEPT !.at = "reserve", !.message = m]
<1>1. c \in CallRows /\ CallOK(c) /\ c.at \notin Holding
  BY NoCallOK DEF NoCall, CallRows, CallOK, Holding
<1>2. call' = [call EXCEPT ![p] = c] /\ UNCHANGED <<delivery, pushes, receipt, sweep>>
  BY DEF Notify
<1> HIDE DEF c
<1> QED
  BY <1>1, <1>2, CallMoves DEF Inv, Rows

(* The unique key gives the row, and with it the push, to one call.        *)
LEMMA ReserveOK == ASSUME Inv, NEW p \in Procs, Reserve(p)  PROVE Inv'
<1> DEFINE m == call[p].message
<1>m. m \in Messages /\ call[p] \in CallRows /\ call[p].at = "reserve"
  BY DEF Inv, Rows, CallOK, Reserve, At
<1>1. CASE ~Free(m) /\ call' = [call EXCEPT ![p] = NoCall] /\ UNCHANGED delivery
  <2>1. NoCall.at \notin Holding
    BY DEF NoCall, Holding
  <2>2. UNCHANGED <<pushes, receipt, sweep>>
    BY DEF Reserve
  <2> QED
    BY <1>1, <2>1, <2>2, NoCallOK, CallMoves DEF Inv, Rows
<1>2. CASE Free(m)
  <2>1. /\ delivery[m].status = "none" /\ pushes[m] = 0
        /\ call' = [call EXCEPT ![p] = [call[p] EXCEPT !.at = "find"]]
        /\ delivery' = [delivery EXCEPT ![m] = [status |-> "PENDING", tickets |-> {}]]
        /\ UNCHANGED <<sweep, pushes, receipt>>
    BY <1>2, <1>m DEF Reserve, Free, Goto, Inv, StatusIsEarned, Rows
  <2>2. \A q \in Procs : ~Holds(q, m)
    BY <2>1 DEF Inv, CallOK, Holds
  <2>3. \A q \in Procs : m \notin sweep[q].pending /\ \A o \in sweep[q].outcome : o[1] # m
    BY <2>1 DEF Inv, SweepOK, Swept, Final
  <2>4. Rows'
    BY <2>1, <1>m DEF Inv, Rows, CallRows, Deliveries, Holding
  <2>5. \A q \in Procs \ {p} : call'[q] = call[q]
    BY <2>1 DEF Inv, Rows
  <2>6. call'[p].at = "find" /\ call'[p].message = m
    BY <2>1, <1>m DEF Inv, Rows, CallRows
  <2>7. HeldAlone'
    BY <2>2, <2>5, <2>6 DEF Inv, HeldAlone, Holds
  <2>8. \A n \in Messages \ {m} : delivery'[n] = delivery[n]
    BY <2>1 DEF Inv, Rows
  <2>9. delivery'[m] = [status |-> "PENDING", tickets |-> {}]
    BY <2>1, <1>m DEF Inv, Rows
  <2>10. \A q \in Procs : CallOK(call[q])'
    <3>1. CallOK(call[p])'
      <4>1. pushes'[m] = 0 /\ delivery'[m].status = "PENDING"
        BY <2>1, <2>9
      <4> HIDE DEF m
      <4> QED
        BY <4>1, <2>6, <1>m DEF CallOK, Holding
    <3>2. ASSUME NEW q \in Procs \ {p} PROVE CallOK(call[q])'
      <4>1. CallOK(call[q]) /\ ~Holds(q, m)
        BY <2>2 DEF Inv
      <4> QED
        BY <4>1, <2>1, <2>5, <2>8 DEF CallOK, Holds, Holding
    <3> QED
      BY <3>1, <3>2
  <2>11. \A q \in Procs : SweepOK(sweep[q])'
    <3> SUFFICES ASSUME NEW q \in Procs PROVE SweepOK(sweep[q])'
      OBVIOUS
    <3>1. SweepOK(sweep[q]) /\ sweep[q] \in SweepRows
      BY DEF Inv, Rows
    <3>2. \A n \in sweep[q].pending : n \in Messages \ {m}
      BY <3>1, <2>3 DEF SweepRows
    <3>3. \A o \in sweep[q].outcome : o[1] \in Messages \ {m}
      BY <3>1, <2>3 DEF SweepRows
    <3> QED
      BY <3>1, <3>2, <3>3, <2>1, <2>8 DEF SweepOK, Swept, Reached
  <2>12. (PushedAtMostOnce /\ StatusIsEarned)'
    BY <2>1, <2>8, <2>9 DEF Inv, PushedAtMostOnce, StatusIsEarned
  <2> QED
    BY <2>4, <2>7, <2>10, <2>11, <2>12 DEF Inv
<1> QED
  BY <1>1, <1>2 DEF Reserve

LEMMA FindDevicesOK == ASSUME Inv, NEW p \in Procs, FindDevices(p)  PROVE Inv'
<1> DEFINE found == {d \in Devices : device[d] = [user |-> Recipient(call[p].message),
                                                  enabled |-> TRUE]}
           c == [call[p] EXCEPT !.devices = found,
                                !.at = IF found = {} THEN "settle" ELSE "send",
                                !.status = IF found = {} THEN "SKIPPED" ELSE "FAILED"]
<1>1. call[p] \in CallRows /\ CallOK(call[p]) /\ call[p].at = "find"
  BY DEF Inv, Rows, FindDevices, At
<1>2. call' = [call EXCEPT ![p] = c] /\ UNCHANGED <<delivery, pushes, receipt, sweep>>
  BY <1>1 DEF FindDevices, Inv, Rows
<1>3. found \subseteq Devices
  OBVIOUS
<1> HIDE DEF found
<1>4. c \in CallRows /\ CallOK(c) /\ call[p].at \in Holding /\ c.message = call[p].message
  BY <1>1, <1>3 DEF CallRows, CallOK, Holding
<1> HIDE DEF c
<1> QED
  BY <1>2, <1>4, CallMoves DEF Inv, Rows

(* The one request to Expo.                                                *)
LEMMA SendOK == ASSUME Inv, NEW p \in Procs, Send(p)  PROVE Inv'
<1> DEFINE m == call[p].message
<1>1. /\ call[p] \in CallRows /\ call[p].at = "send" /\ CallOK(call[p])
      /\ m \in Messages /\ pushes[m] = 0 /\ delivery[m].status = "PENDING"
  BY DEF Inv, Rows, Send, At, CallOK, Holding
<1>2. UNCHANGED <<delivery, sweep, receipt>>
  BY DEF Send
<1>3. CASE Goto(p, "settle") /\ UNCHANGED pushes
  <2> DEFINE c == [call[p] EXCEPT !.at = "settle"]
  <2>1. call' = [call EXCEPT ![p] = c]
    BY <1>3 DEF Goto, Inv, Rows
  <2>2. c \in CallRows /\ call[p].at \in Holding /\ c.message = m
    BY <1>1 DEF CallRows, Holding
  <2>3. CallOK(c)
    BY <1>1 DEF CallOK, CallRows, Holding
  <2> HIDE DEF c
  <2> QED
    BY <1>2, <1>3, <2>1, <2>2, <2>3, CallMoves DEF Inv, Rows
<1>4. CASE ~UNCHANGED pushes
  <2>1. PICK c \in CallRows :
            /\ call' = [call EXCEPT ![p] = c]
            /\ c.at \in {"settle", "disable"} /\ c.message = m /\ c.status \in {"FAILED", "SENT"}
            /\ c.status = "SENT" => c.accepted # {}
    <3>1. CASE Goto(p, "settle")
      <4> DEFINE c == [call[p] EXCEPT !.at = "settle"]
      <4>1. c \in CallRows /\ c.message = m /\ c.at = "settle" /\ c.status = "FAILED"
        BY <1>1 DEF CallRows, Holding, CallOK
      <4>2. call' = [call EXCEPT ![p] = c]
        BY <3>1 DEF Goto, Inv, Rows
      <4> HIDE DEF c
      <4> QED
        BY <4>1, <4>2
    <3>2. ASSUME NEW accepted \in SUBSET call[p].devices,
                 NEW dead \in SUBSET (call[p].devices \ accepted),
                 call' = [call EXCEPT ![p] =
                    [call[p] EXCEPT !.accepted = accepted, !.dead = dead,
                                    !.at = IF dead = {} THEN "settle" ELSE "disable",
                                    !.status = IF accepted = {} THEN "FAILED" ELSE "SENT"]]
          PROVE  \E c \in CallRows :
                    /\ call' = [call EXCEPT ![p] = c]
                    /\ c.at \in {"settle", "disable"} /\ c.message = m
                    /\ c.status \in {"FAILED", "SENT"} /\ (c.status = "SENT" => c.accepted # {})
      <4> DEFINE c == [call[p] EXCEPT !.accepted = accepted, !.dead = dead,
                                      !.at = IF dead = {} THEN "settle" ELSE "disable",
                                      !.status = IF accepted = {} THEN "FAILED" ELSE "SENT"]
      <4>1. /\ c \in CallRows /\ c.at \in {"settle", "disable"} /\ c.message = m
            /\ c.status \in {"FAILED", "SENT"} /\ (c.status = "SENT" => c.accepted # {})
        BY <1>1 DEF CallRows, Holding
      <4>2. call' = [call EXCEPT ![p] = c]
        BY <3>2
      <4> HIDE DEF c
      <4> QED
        BY <4>1, <4>2
    <3> QED
      BY <1>4, <3>1, <3>2 DEF Send
  <2>2. pushes' = [pushes EXCEPT ![m] = @ + 1]
    BY <1>4 DEF Send
  <2> HIDE DEF m
  <2>3. pushes'[m] = 1 /\ \A n \in Messages \ {m} : pushes'[n] = pushes[n]
    BY <2>2, <1>1 DEF Inv, Rows
  <2>4. call'[p] = c /\ \A q \in Procs \ {p} : call'[q] = call[q] /\ ~Holds(q, m)
    <3>1. Holds(p, m)
      BY <1>1 DEF Holds, Holding, m
    <3> QED
      BY <2>1, <1>1, <3>1 DEF Inv, Rows, HeldAlone
  <2>5. Rows' /\ HeldAlone'
    <3>1. Rows'
      BY <2>1, <2>2, <1>1, <1>2 DEF Inv, Rows
    <3>2. HeldAlone'
      BY <2>1, <2>4 DEF Inv, HeldAlone, Holds
    <3> QED
      BY <3>1, <3>2
  <2>6. \A q \in Procs : CallOK(call[q])'
    <3>1. CallOK(call[p])'
      <4>1. pushes'[m] > 0 /\ delivery'[m].status = "PENDING"
        BY <2>3, <1>1, <1>2
      <4> QED
        BY <4>1, <2>1, <2>4, <1>1 DEF CallOK, Holding
    <3>2. ASSUME NEW q \in Procs \ {p} PROVE CallOK(call[q])'
      <4>1. CallOK(call[q])
        BY DEF Inv
      <4> QED
        BY <4>1, <1>2, <2>3, <2>4 DEF CallOK, Holds, Holding
    <3> QED
      BY <3>1, <3>2
  <2>7. \A q \in Procs : SweepOK(sweep[q])'
    <3> SUFFICES ASSUME NEW q \in Procs PROVE SweepOK(sweep[q])'
      OBVIOUS
    <3>1. SweepOK(sweep[q]) /\ sweep[q] \in SweepRows
      BY DEF Inv, Rows
    <3>2. \A n \in Messages : pushes[n] > 0 => pushes'[n] > 0
      BY <2>3
    <3>3. sweep[q].pending \subseteq Messages /\ \A o \in sweep[q].outcome : o[1] \in Messages
      BY <3>1 DEF SweepRows
    <3> QED
      BY <3>1, <3>2, <3>3, <1>2 DEF SweepOK, Swept, Reached
  <2>8. (PushedAtMostOnce /\ StatusIsEarned)'
    BY <1>1, <1>2, <2>3 DEF Inv, PushedAtMostOnce, StatusIsEarned
  <2> QED
    BY <2>5, <2>6, <2>7, <2>8 DEF Inv
<1>5. CASE UNCHANGED pushes
  <2>1. pushes[m] + 1 # pushes[m]
    BY <1>1
  <2>2. pushes' # [pushes EXCEPT ![m] = @ + 1]
    BY <2>1, <1>1, <1>5 DEF Inv, Rows
  <2>3. Goto(p, "settle")
    BY <2>2 DEF Send
  <2> QED
    BY <2>3, <1>3, <1>5
<1> QED
  BY <1>4, <1>5

LEMMA DisableDeadOK == ASSUME Inv, NEW p \in Procs, DisableDead(p)  PROVE Inv'
<1> DEFINE c == [call[p] EXCEPT !.at = "settle"]
<1>1. call[p] \in CallRows /\ CallOK(call[p]) /\ call[p].at = "disable"
  BY DEF Inv, Rows, DisableDead, At
<1>2. call' = [call EXCEPT ![p] = c] /\ UNCHANGED <<delivery, pushes, receipt, sweep>>
  BY DEF DisableDead, Goto, Inv, Rows
<1>3. c \in CallRows /\ CallOK(c) /\ call[p].at \in Holding /\ c.message = call[p].message
  BY <1>1 DEF CallRows, CallOK, Holding
<1> HIDE DEF c
<1> QED
  BY <1>2, <1>3, CallMoves DEF Inv, Rows

(* The row gets its result from the only call that holds it.               *)
LEMMA SettleOK == ASSUME Inv, NEW p \in Procs, Settle(p)  PROVE Inv'
<1> DEFINE m == call[p].message
           row == [status |-> call[p].status, tickets |-> call[p].accepted]
<1>1. /\ call[p] \in CallRows /\ CallOK(call[p]) /\ m \in Messages /\ Holds(p, m)
      /\ call[p].at \in {"settle", "settle failed"}
  BY DEF Inv, Rows, Settle, CallOK, Holds, Holding
<1>2. /\ row \in Deliveries /\ row.status \in {"SKIPPED", "FAILED", "SENT"}
      /\ row.status = "SKIPPED" => pushes[m] = 0
      /\ row.status = "SENT" => pushes[m] > 0 /\ row.tickets # {}
      /\ delivery[m].status = "PENDING"
  BY <1>1 DEF CallOK, CallRows, Deliveries, Final, Holding
<1>3. /\ call' = [call EXCEPT ![p] = NoCall] /\ delivery' = [delivery EXCEPT ![m] = row]
      /\ UNCHANGED <<pushes, receipt, sweep>>
  BY DEF Settle
<1> HIDE DEF m, row
<1>4. /\ delivery'[m] = row /\ \A n \in Messages \ {m} : delivery'[n] = delivery[n]
      /\ call'[p] = NoCall /\ \A q \in Procs \ {p} : call'[q] = call[q] /\ ~Holds(q, m)
  BY <1>1, <1>3 DEF Inv, Rows, HeldAlone
<1>5. Rows'
  BY <1>2, <1>3, NoCallOK DEF Inv, Rows
<1>6. HeldAlone'
  <2>1. NoCall.at \notin Holding
    BY DEF NoCall, Holding
  <2> QED
    BY <2>1, <1>4 DEF Inv, HeldAlone, Holds
<1>7. \A q \in Procs : CallOK(call[q])'
  <2>1. CallOK(call[p])'
    BY <1>4 DEF NoCall, CallOK, Holding
  <2>2. ASSUME NEW q \in Procs \ {p} PROVE CallOK(call[q])'
    <3>1. CallOK(call[q])
      BY DEF Inv
    <3> QED
      BY <3>1, <1>3, <1>4 DEF CallOK, Holds, Holding
  <2> QED
    BY <2>1, <2>2
<1>8. \A q \in Procs : SweepOK(sweep[q])'
  <2> SUFFICES ASSUME NEW q \in Procs PROVE SweepOK(sweep[q])'
    OBVIOUS
  <2>1. SweepOK(sweep[q]) /\ sweep[q] \in SweepRows
    BY DEF Inv, Rows
  <2>2. ~Swept(m)
    BY <1>2 DEF Swept, Final
  <2>3. sweep[q].pending \subseteq Messages \ {m}
        /\ \A o \in sweep[q].outcome : o[1] \in Messages \ {m}
    BY <2>1, <2>2 DEF SweepRows, SweepOK
  <2> QED
    BY <2>1, <2>3, <1>3, <1>4 DEF SweepOK, Swept, Reached
<1>9. (PushedAtMostOnce /\ StatusIsEarned)'
  BY <1>2, <1>3, <1>4 DEF Inv, PushedAtMostOnce, StatusIsEarned
<1> QED
  BY <1>5, <1>6, <1>7, <1>8, <1>9 DEF Inv
-----------------------------------------------------------------------------
(* Expo's word on a device is its last.                                    *)
LEMMA ReportOK == ASSUME Inv, NEW m \in Messages, NEW d \in Devices, Report(m, d)  PROVE Inv'
<1>1. receipt[m][d] = "none" /\ UNCHANGED <<delivery, pushes, call, sweep>>
  BY DEF Report
<1>2. receipt' \in [Messages -> [Devices -> Words]]
  BY DEF Inv, Rows, Report, Words
<1>3. \A n \in Messages, e \in Devices : receipt[n][e] = "ok" => receipt'[n][e] = "ok"
  BY <1>1 DEF Inv, Rows, Report
<1>4. Rows' /\ HeldAlone'
  BY <1>1, <1>2 DEF Inv, Rows, HeldAlone, Holds
<1>5. \A n \in Messages : delivery[n].tickets \subseteq Devices
  BY DEF Inv, Rows, Deliveries
<1>6. \A q \in Procs : CallOK(call[q])' /\ SweepOK(sweep[q])'
  <2> SUFFICES ASSUME NEW q \in Procs PROVE CallOK(call[q])' /\ SweepOK(sweep[q])'
    OBVIOUS
  <2>1. CallOK(call[q])' /\ SweepOK(sweep[q]) /\ sweep[q] \in SweepRows
    BY <1>1 DEF Inv, Rows, CallOK
  <2>2. \A o \in sweep[q].outcome : o[1] \in Messages
    BY <2>1 DEF SweepRows
  <2>3. \A n \in Messages : Reached(n) => Reached(n)'
    BY <1>1, <1>3, <1>5 DEF Reached
  <2> QED
    BY <2>1, <2>2, <2>3, <1>1 DEF SweepOK, Swept
<1>7. (PushedAtMostOnce /\ StatusIsEarned)'
  BY <1>1, <1>3, <1>5 DEF Inv, PushedAtMostOnce, StatusIsEarned
<1> QED
  BY <1>4, <1>6, <1>7 DEF Inv

LEMMA StartSweepOK == ASSUME Inv, NEW p \in Procs, StartSweep(p)  PROVE Inv'
<1>1. PICK pending \in SUBSET Sent \ {{}} :
          sweep' = [sweep EXCEPT ![p] = [NoSweep EXCEPT !.at = "fetch", !.pending = pending]]
  BY DEF StartSweep
<1> DEFINE w == [NoSweep EXCEPT !.at = "fetch", !.pending = pending]
<1>2. w \in SweepRows /\ SweepOK(w)
  BY DEF NoSweep, SweepRows, SweepOK, Sent, Swept, Final, Inv, StatusIsEarned
<1>3. sweep' = [sweep EXCEPT ![p] = w] /\ UNCHANGED <<delivery, pushes, receipt, call>>
  BY <1>1 DEF StartSweep
<1> HIDE DEF w
<1> QED
  BY <1>2, <1>3, SweepMoves

(* DELIVERED is only written of a message with a good receipt.             *)
LEMMA FetchReceiptsOK == ASSUME Inv, NEW p \in Procs, FetchReceipts(p)  PROVE Inv'
<1> DEFINE pairs == Pairs(p)
           known == {x \in pairs : receipt[x[1]][x[2]] # "none"}
<1>1. PICK got \in SUBSET known :
          LET dead == {x[2] : x \in {y \in got : receipt[y[1]][y[2]] = "DeviceNotRegistered"}}
              good == {x[1] : x \in Received(pairs, got)}
              outcome == {<<m, IF m \in good THEN "DELIVERED" ELSE "FAILED">> :
                             m \in good \cup {x[1] : x \in got}} IN
          sweep' = [sweep EXCEPT ![p] = [NoSweep EXCEPT
                       !.dead = dead, !.outcome = outcome,
                       !.at = IF outcome = {} THEN "idle"
                              ELSE IF dead = {} THEN "write" ELSE "disable"]]
  BY DEF FetchReceipts
<1> DEFINE dead == {x[2] : x \in {y \in got : receipt[y[1]][y[2]] = "DeviceNotRegistered"}}
           good == {x[1] : x \in Received(pairs, got)}
           outcome == {<<m, IF m \in good THEN "DELIVERED" ELSE "FAILED">> :
                          m \in good \cup {x[1] : x \in got}}
           at == IF outcome = {} THEN "idle" ELSE IF dead = {} THEN "write" ELSE "disable"
           w == [NoSweep EXCEPT !.dead = dead, !.outcome = outcome, !.at = at]
<1>2. sweep[p] \in SweepRows /\ SweepOK(sweep[p])
  BY DEF Inv, Rows
<1>3. \A x \in pairs : /\ x[1] \in sweep[p].pending /\ x[1] \in Messages /\ Swept(x[1])
                       /\ x[2] \in delivery[x[1]].tickets /\ x[2] \in Devices
  BY <1>2 DEF Pairs, SweepRows, SweepOK, Inv, Rows, Deliveries
<1>4. \A m \in good : m \in Messages /\ Swept(m) /\ Reached(m)
  BY <1>3 DEF Received, Reached
<1>5. \A x \in got : x[1] \in Messages /\ Swept(x[1]) /\ x[2] \in Devices
  BY <1>3
<1>6. \A o \in outcome : /\ o \in Messages \X {"DELIVERED", "FAILED"}
                         /\ Swept(o[1]) /\ (o[2] = "DELIVERED" => Reached(o[1]))
  <2> HIDE DEF good
  <2> QED
    BY <1>4, <1>5
<1>7. dead \subseteq Devices
  BY <1>5
<1>8. sweep' = [sweep EXCEPT ![p] = w] /\ UNCHANGED <<delivery, pushes, receipt, call>>
  BY <1>1 DEF FetchReceipts
<1>9. at \in {"idle", "write", "disable"}
  OBVIOUS
<1> HIDE DEF dead, outcome, at
<1>10. w \in SweepRows /\ SweepOK(w)
  BY <1>6, <1>7, <1>9 DEF NoSweep, SweepRows, SweepOK
<1> HIDE DEF w
<1> QED
  BY <1>8, <1>10, SweepMoves

LEMMA DisableSweptOK == ASSUME Inv, NEW p \in Procs, DisableSwept(p)  PROVE Inv'
<1> DEFINE w == [sweep[p] EXCEPT !.at = "write"]
<1>1. w \in SweepRows /\ SweepOK(w)
  BY DEF Inv, Rows, SweepRows, SweepOK
<1>2. sweep' = [sweep EXCEPT ![p] = w] /\ UNCHANGED <<delivery, pushes, receipt, call>>
  BY DEF DisableSwept, Inv, Rows
<1> HIDE DEF w
<1> QED
  BY <1>1, <1>2, SweepMoves

(* A sweep overwrites only what a sweep may have written.                  *)
LEMMA WriteOutcomeOK == ASSUME Inv, NEW p \in Procs, WriteOutcome(p)  PROVE Inv'
<1>1. PICK o \in sweep[p].outcome :
          /\ delivery' = [delivery EXCEPT ![o[1]].status = o[2]]
          /\ sweep' = [sweep EXCEPT ![p] = IF sweep[p].outcome = {o} THEN NoSweep
                                     ELSE [sweep[p] EXCEPT !.outcome = @ \ {o}]]
  BY DEF WriteOutcome
<1> DEFINE m == o[1]
           w == IF sweep[p].outcome = {o} THEN NoSweep
                ELSE [sweep[p] EXCEPT !.outcome = @ \ {o}]
<1>2. sweep[p] \in SweepRows /\ SweepOK(sweep[p])
  BY DEF Inv, Rows
<1>3. /\ m \in Messages /\ o[2] \in {"DELIVERED", "FAILED"} /\ Swept(m)
      /\ o[2] = "DELIVERED" => Reached(m)
  BY <1>2 DEF SweepRows, SweepOK
<1>4. w \in SweepRows /\ SweepOK(w)
  BY <1>2, NoSweepOK DEF SweepRows, SweepOK
<1>5. sweep' = [sweep EXCEPT ![p] = w] /\ UNCHANGED <<pushes, receipt, call>>
  BY <1>1 DEF WriteOutcome, Inv, Rows
<1> HIDE DEF w, m
<1>6. /\ delivery' \in [Messages -> Deliveries]
      /\ delivery'[m].status = o[2] /\ delivery'[m].tickets = delivery[m].tickets
      /\ \A n \in Messages \ {m} : delivery'[n] = delivery[n]
  BY <1>1, <1>3 DEF Inv, Rows, Deliveries, Final, m
<1>7. \A n \in Messages : (Swept(n) => Swept(n)') /\ (Reached(n) => Reached(n)')
  BY <1>3, <1>5, <1>6 DEF Swept, Reached, Final
<1>8. Rows' /\ HeldAlone'
  <2>1. Rows'
    BY <1>4, <1>5, <1>6 DEF Inv, Rows
  <2>2. HeldAlone'
    BY <1>5 DEF Inv, HeldAlone, Holds
  <2> QED
    BY <2>1, <2>2
<1>9. \A q \in Procs : CallOK(call[q])'
  <2> SUFFICES ASSUME NEW q \in Procs PROVE CallOK(call[q])'
    OBVIOUS
  <2>1. CallOK(call[q])
    BY DEF Inv
  <2>2. call[q].at \in Holding => call[q].message # m
    BY <2>1, <1>3 DEF CallOK, Swept, Final
  <2> QED
    BY <2>1, <2>2, <1>5, <1>6 DEF CallOK, Holding
<1>10. \A q \in Procs : SweepOK(sweep[q])'
  <2> SUFFICES ASSUME NEW q \in Procs PROVE SweepOK(sweep[q])'
    OBVIOUS
  <2>1. sweep'[q] \in SweepRows /\ SweepOK(sweep'[q])
    BY <1>4, <1>5 DEF Inv, Rows
  <2>2. sweep'[q].pending \subseteq Messages /\ \A x \in sweep'[q].outcome : x[1] \in Messages
    BY <2>1 DEF SweepRows
  <2> QED
    BY <2>1, <2>2, <1>7 DEF SweepOK
<1>11. (PushedAtMostOnce /\ StatusIsEarned)'
  BY <1>3, <1>5, <1>6 DEF Inv, PushedAtMostOnce, StatusIsEarned, Swept, Reached
<1> QED
  BY <1>8, <1>9, <1>10, <1>11 DEF Inv
-----------------------------------------------------------------------------
(* A call that fails inside sendPush still holds its row, as FAILED.       *)
LEMMA FailCallOK == ASSUME Inv, NEW p \in Procs, FailCall(p)  PROVE Inv'
<1>1. call[p] \in CallRows /\ CallOK(call[p]) /\ UNCHANGED <<delivery, pushes, receipt, sweep>>
  BY DEF Inv, Rows, FailCall
<1>2. CASE /\ call[p].at \in {"find", "disable", "settle"}
           /\ call' = [call EXCEPT ![p].at = "settle failed", ![p].status = "FAILED",
                                   ![p].accepted = {}]
  <2> DEFINE c == [call[p] EXCEPT !.at = "settle failed", !.status = "FAILED", !.accepted = {}]
  <2>1. call' = [call EXCEPT ![p] = c]
    BY <1>2 DEF Inv, Rows
  <2>2. c \in CallRows /\ CallOK(c) /\ call[p].at \in Holding /\ c.message = call[p].message
    BY <1>1, <1>2 DEF CallRows, CallOK, Holding
  <2> HIDE DEF c
  <2> QED
    BY <1>1, <2>1, <2>2, CallMoves DEF Inv, Rows
<1>3. CASE call' = [call EXCEPT ![p] = NoCall]
  <2>1. NoCall.at \notin Holding
    BY DEF NoCall, Holding
  <2> QED
    BY <1>1, <1>3, <2>1, NoCallOK, CallMoves DEF Inv, Rows
<1> QED
  BY <1>2, <1>3 DEF FailCall

LEMMA FailSweepOK == ASSUME Inv, NEW p \in Procs, FailSweep(p)  PROVE Inv'
  BY NoSweepOK, SweepMoves DEF FailSweep

(* A crash leaves the row PENDING for good: nobody takes it up again.      *)
LEMMA CrashOK == ASSUME Inv, NEW p \in Procs, Crash(p)  PROVE Inv'
<1>1. /\ call' = [call EXCEPT ![p] = NoCall] /\ sweep' = [sweep EXCEPT ![p] = NoSweep]
      /\ UNCHANGED <<delivery, pushes, receipt>>
  BY DEF Crash
<1>2. NoCall.at \notin Holding
  BY DEF NoCall, Holding
<1>3. sweep' \in [Procs -> SweepRows] /\ \A q \in Procs : SweepOK(sweep'[q])
  BY <1>1, NoSweepOK DEF Inv, Rows
<1> QED
  BY <1>1, <1>2, <1>3, NoCallOK, CallMoves
-----------------------------------------------------------------------------
LEMMA InvStep == Inv /\ [Next]_vars => Inv'
<1> SUFFICES ASSUME Inv, [Next]_vars PROVE Inv'
  OBVIOUS
<1>1. ASSUME NEW u \in Users, SetListening(u) PROVE Inv'
  BY <1>1, Untouched DEF SetListening
<1>2. ASSUME NEW u \in Users, NEW d \in Devices, Register(u, d) \/ Unregister(u, d) PROVE Inv'
  BY <1>2, Untouched DEF Register, Unregister
<1>3. ASSUME NEW m \in Messages, NEW d \in Devices, Report(m, d) PROVE Inv'
  BY <1>3, ReportOK
<1>4. ASSUME NEW p \in Procs,
             \/ \E m \in Messages : Notify(p, m)
             \/ Reserve(p) \/ FindDevices(p) \/ Send(p) \/ DisableDead(p) \/ Settle(p)
      PROVE  Inv'
  BY <1>4, NotifyOK, ReserveOK, FindDevicesOK, SendOK, DisableDeadOK, SettleOK
<1>5. ASSUME NEW p \in Procs,
             \/ StartSweep(p) \/ FetchReceipts(p) \/ DisableSwept(p) \/ WriteOutcome(p)
             \/ FailCall(p) \/ FailSweep(p) \/ Crash(p)
      PROVE  Inv'
  BY <1>5, StartSweepOK, FetchReceiptsOK, DisableSweptOK, WriteOutcomeOK, FailCallOK,
     FailSweepOK, CrashOK
<1>6. ASSUME UNCHANGED vars PROVE Inv'
  BY <1>6, Untouched DEF vars
<1> QED
  BY <1>1, <1>2, <1>3, <1>4, <1>5, <1>6 DEF Next

LEMMA NotificationsInvariant == Spec => []Inv
  BY InvInit, InvStep, PTL DEF Spec

(* "so a job that re-runs cannot send the same thing twice"                *)
(* (notification.service.ts): for any number of callers and processes, and *)
(* whatever fails or crashes, Expo is asked for a message at most once.    *)
THEOREM OnePush == Spec => []PushedAtMostOnce
<1>1. Inv => PushedAtMostOnce
  BY DEF Inv
<1> QED
  BY <1>1, NotificationsInvariant, PTL

(* What a row says did happen: a row that says SENT was sent, and one that *)
(* says DELIVERED reached a device, with any number of overlapping sweeps  *)
(* and partial lists of receipts.                                          *)
THEOREM StatusEarned == Spec => []StatusIsEarned
<1>1. Inv => StatusIsEarned
  BY DEF Inv
<1> QED
  BY <1>1, NotificationsInvariant, PTL
=============================================================================
