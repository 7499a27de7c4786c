---------------------------- MODULE Notifications ----------------------------
(***************************************************************************)
(* Push notifications: one NotificationDelivery row per message, sent to   *)
(* Expo once, and the sweep that turns Expo's tickets into outcomes.       *)
(*                                                                         *)
(* A message is its logical key; every caller of notify (a job that runs   *)
(* again, a retried request) is one that may ask for it at any time.  A    *)
(* message goes to Expo once, so the ticket of a device is the device.     *)
(***************************************************************************)
EXTENDS Integers, FiniteSets

CONSTANTS
    Users, Devices,
    Topics,         \* event and dedupeKey of the callers
    Procs,          \* API processes; a deployment may overlap two
    None,
    MaxRegistrations, MaxMishaps

Messages == Users \X Topics
Recipient(m) == m[1]

ASSUME NotificationsAssumption ==
    /\ IsFiniteSet(Devices) /\ None \notin Users
    /\ MaxRegistrations \in Nat /\ MaxMishaps \in Nat

VARIABLES
    listening,  \* [Users -> ACTIVE, and this category not muted]
    device,     \* [Devices -> DeviceToken row]
    delivery,   \* [Messages -> NotificationDelivery row]
    call,       \* [Procs -> the notify call in flight]
    sweep,      \* [Procs -> the reconcilePushReceipts call in flight]
    pushes,     \* [Messages -> how often Expo was asked to show it]
    receipt,    \* [Messages -> [Devices -> what Expo says became of it]]
    registrations, mishaps

vars == <<listening, device, delivery, call, sweep, pushes, receipt, registrations, mishaps>>

NoCall == [at |-> "idle", message |-> None, devices |-> {}, accepted |-> {}, dead |-> {},
           status |-> "none"]
NoSweep == [at |-> "idle", pending |-> {}, dead |-> {}, outcome |-> {}]

Init ==
    /\ listening = [u \in Users |-> TRUE]
    /\ device = [d \in Devices |-> [user |-> None, enabled |-> FALSE]]
    /\ delivery = [m \in Messages |-> [status |-> "none", tickets |-> {}]]
    /\ call = [p \in Procs |-> NoCall]
    /\ sweep = [p \in Procs |-> NoSweep]
    /\ pushes = [m \in Messages |-> 0]
    /\ receipt = [m \in Messages |-> [d \in Devices |-> "none"]]
    /\ registrations = 0 /\ mishaps = 0
-----------------------------------------------------------------------------
(* notification.routes.ts: a phone that is registered again, by whoever is *)
(* signed in on it, is that account's; only that account can sign it off.  *)
Register(u, d) ==
    /\ registrations < MaxRegistrations /\ registrations' = registrations + 1
    /\ device' = [device EXCEPT ![d] = [user |-> u, enabled |-> TRUE]]
    /\ UNCHANGED <<listening, delivery, call, sweep, pushes, receipt, mishaps>>

Disabled(devices) ==
    [d \in Devices |-> [device[d] EXCEPT !.enabled = @ /\ d \notin devices]]

Unregister(u, d) ==
    /\ device[d] = [user |-> u, enabled |-> TRUE]
    /\ device' = Disabled({d})
    /\ UNCHANGED <<listening, delivery, call, sweep, pushes, receipt, registrations, mishaps>>

(* A category muted or not, an account made inactive or active.            *)
SetListening(u) ==
    /\ registrations < MaxRegistrations /\ registrations' = registrations + 1
    /\ listening' = [listening EXCEPT ![u] = ~@]
    /\ UNCHANGED <<device, delivery, call, sweep, pushes, receipt, mishaps>>
-----------------------------------------------------------------------------
At(p, label) == call[p].at = label
Goto(p, label) == call' = [call EXCEPT ![p].at = label]

Notify(p, m) ==
    /\ At(p, "idle") /\ listening[Recipient(m)]
    /\ call' = [call EXCEPT ![p] = [NoCall EXCEPT !.at = "reserve", !.message = m]]
    /\ UNCHANGED <<listening, device, delivery, sweep, pushes, receipt, registrations, mishaps>>

(* Mutant: the row of a push that failed is taken up again.                *)
Free_RetriesFailed(m) == delivery[m].status \in {"none", "FAILED"}

(* The insert that (dedupeKey, channel) makes unique.                      *)
Free(m) == delivery[m].status = "none"

Reserve(p) ==
    LET m == call[p].message IN
    /\ At(p, "reserve")
    /\ \/ /\ ~Free(m)
          /\ call' = [call EXCEPT ![p] = NoCall]
          /\ UNCHANGED delivery
       \/ /\ Free(m)
          /\ Goto(p, "find")
          /\ delivery' = [delivery EXCEPT ![m] = [status |-> "PENDING", tickets |-> {}]]
    /\ UNCHANGED <<listening, device, sweep, pushes, receipt, registrations, mishaps>>

FindDevices(p) ==
    LET found == {d \in Devices : device[d] = [user |-> Recipient(call[p].message),
                                               enabled |-> TRUE]} IN
    /\ At(p, "find")
    /\ call' = [call EXCEPT ![p].devices = found,
                            ![p].at = IF found = {} THEN "settle" ELSE "send",
                            ![p].status = IF found = {} THEN "SKIPPED" ELSE "FAILED"]
    /\ UNCHANGED <<listening, device, delivery, sweep, pushes, receipt, registrations, mishaps>>

(* One request to Expo for all devices: it is refused or never arrives; or *)
(* it arrives and the answer is lost or late; or each device has a ticket. *)
Send(p) ==
    LET c == call[p]  m == c.message IN
    /\ At(p, "send")
    /\ \/ Goto(p, "settle") /\ UNCHANGED pushes
       \/ Goto(p, "settle") /\ pushes' = [pushes EXCEPT ![m] = @ + 1]
       \/ \E accepted \in SUBSET c.devices : \E dead \in SUBSET (c.devices \ accepted) :
             /\ pushes' = [pushes EXCEPT ![m] = @ + 1]
             /\ call' = [call EXCEPT ![p] =
                   [c EXCEPT !.accepted = accepted, !.dead = dead,
                             !.at = IF dead = {} THEN "settle" ELSE "disable",
                             !.status = IF accepted = {} THEN "FAILED" ELSE "SENT"]]
    /\ UNCHANGED <<listening, device, delivery, sweep, receipt, registrations, mishaps>>

DisableDead(p) ==
    /\ At(p, "disable")
    /\ device' = Disabled(call[p].dead)
    /\ Goto(p, "settle")
    /\ UNCHANGED <<listening, delivery, sweep, pushes, receipt, registrations, mishaps>>

Settle(p) ==
    /\ call[p].at \in {"settle", "settle failed"}
    /\ delivery' = [delivery EXCEPT ![call[p].message] =
                       [status |-> call[p].status, tickets |-> call[p].accepted]]
    /\ call' = [call EXCEPT ![p] = NoCall]
    /\ UNCHANGED <<listening, device, sweep, pushes, receipt, registrations, mishaps>>
-----------------------------------------------------------------------------
(* Expo learns from Apple or Google what became of a message.              *)
Report(m, d) ==
    /\ d \in delivery[m].tickets \/ \E p \in Procs : call[p].message = m /\ d \in call[p].accepted
    /\ receipt[m][d] = "none"
    /\ \E word \in {"ok", "DeviceNotRegistered", "error"} :
          receipt' = [receipt EXCEPT ![m][d] = word]
    /\ UNCHANGED <<listening, device, delivery, call, sweep, pushes, registrations, mishaps>>

Sent == {m \in Messages : delivery[m].status = "SENT"}
Pairs(p) == UNION {{m} \X delivery[m].tickets : m \in sweep[p].pending}

(* Those sent a quarter of an hour ago, 300 at most.                       *)
StartSweep(p) ==
    /\ sweep[p].at = "idle"
    /\ \E pending \in SUBSET Sent \ {{}} :
          sweep' = [sweep EXCEPT ![p] = [NoSweep EXCEPT !.at = "fetch", !.pending = pending]]
    /\ UNCHANGED <<listening, device, delivery, call, pushes, receipt, registrations, mishaps>>

(* Mutant: a receipt that has not come yet counts as a good one.           *)
Received_Missing(pairs, got) == {x \in pairs : x \notin got \/ receipt[x[1]][x[2]] = "ok"}

Received(pairs, got) == {x \in got : receipt[x[1]][x[2]] = "ok"}

(* Any part of the receipts Expo has.  A delivery none of whose receipts   *)
(* came is left for the next sweep.                                        *)
FetchReceipts(p) ==
    LET pairs == Pairs(p)
        known == {x \in pairs : receipt[x[1]][x[2]] # "none"} IN
    /\ sweep[p].at = "fetch"
    /\ \E got \in SUBSET known :
          LET dead == {x[2] : x \in {y \in got : receipt[y[1]][y[2]] = "DeviceNotRegistered"}}
              good == {x[1] : x \in Received(pairs, got)}
              outcome == {<<m, IF m \in good THEN "DELIVERED" ELSE "FAILED">> :
                             m \in good \cup {x[1] : x \in got}} IN
          sweep' = [sweep EXCEPT ![p] = [NoSweep EXCEPT
                       !.dead = dead, !.outcome = outcome,
                       !.at = IF outcome = {} THEN "idle"
                              ELSE IF dead = {} THEN "write" ELSE "disable"]]
    /\ UNCHANGED <<listening, device, delivery, call, pushes, receipt, registrations, mishaps>>

DisableSwept(p) ==
    /\ sweep[p].at = "disable"
    /\ device' = Disabled(sweep[p].dead)
    /\ sweep' = [sweep EXCEPT ![p].at = "write"]
    /\ UNCHANGED <<listening, delivery, call, pushes, receipt, registrations, mishaps>>

WriteOutcome(p) ==
    /\ sweep[p].at = "write"
    /\ \E o \in sweep[p].outcome :
          /\ delivery' = [delivery EXCEPT ![o[1]].status = o[2]]
          /\ sweep' = [sweep EXCEPT ![p] = IF sweep[p].outcome = {o} THEN NoSweep
                                     ELSE [sweep[p] EXCEPT !.outcome = @ \ {o}]]
    /\ UNCHANGED <<listening, device, call, pushes, receipt, registrations, mishaps>>
-----------------------------------------------------------------------------
Mishap == mishaps < MaxMishaps /\ mishaps' = mishaps + 1

(* A statement that fails inside sendPush settles the row as FAILED, also  *)
(* when Expo took the message and it was the settling that failed; outside *)
(* of sendPush, or the second time, notify only logs it.                   *)
FailCall(p) ==
    /\ Mishap
    /\ \/ /\ call[p].at \in {"find", "disable", "settle"}
          /\ call' = [call EXCEPT ![p].at = "settle failed", ![p].status = "FAILED",
                                  ![p].accepted = {}]
       \/ /\ call[p].at \in {"reserve", "settle failed"}
          /\ call' = [call EXCEPT ![p] = NoCall]
    /\ UNCHANGED <<listening, device, delivery, sweep, pushes, receipt, registrations>>

FailSweep(p) ==
    /\ Mishap /\ sweep[p].at # "idle"
    /\ sweep' = [sweep EXCEPT ![p] = NoSweep]
    /\ UNCHANGED <<listening, device, delivery, call, pushes, receipt, registrations>>

Crash(p) ==
    /\ Mishap /\ (call[p].at # "idle" \/ sweep[p].at # "idle")
    /\ call' = [call EXCEPT ![p] = NoCall]
    /\ sweep' = [sweep EXCEPT ![p] = NoSweep]
    /\ UNCHANGED <<listening, device, delivery, pushes, receipt, registrations>>

Next ==
    \/ \E u \in Users : SetListening(u)
    \/ \E u \in Users, d \in Devices : Register(u, d) \/ Unregister(u, d)
    \/ \E m \in Messages, d \in Devices : Report(m, d)
    \/ \E p \in Procs :
          \/ \E m \in Messages : Notify(p, m)
          \/ Reserve(p) \/ FindDevices(p) \/ Send(p) \/ DisableDead(p) \/ Settle(p)
          \/ StartSweep(p) \/ FetchReceipts(p) \/ DisableSwept(p) \/ WriteOutcome(p)
          \/ FailCall(p) \/ FailSweep(p) \/ Crash(p)

Spec == Init /\ [][Next]_vars
=============================================================================
