------------------------------- MODULE Ledger -------------------------------
(***************************************************************************)
(* What the billing of a resident promises, without transactions, locks or *)
(* late-fee arithmetic: money is collected only by a payment, never more   *)
(* on a bill than it asks for at that instant, with exactly one receipt    *)
(* per bill paid; a settlement forgives and never collects; what a bill    *)
(* asks may be repriced at any time without touching either.               *)
(***************************************************************************)
EXTENDS Integers, FiniteSets

CONSTANT Invoices

VARIABLES
    asked,      \* [Invoices -> Int], what each bill asks for
    collected,  \* [Invoices -> Nat], money received against it
    forgiven,   \* [Invoices -> Nat], settled principal and forgiven fee
    slips       \* number of receipts issued

vars == <<asked, collected, forgiven, slips>>

Init ==
    /\ asked \in [Invoices -> Nat]
    /\ collected = [i \in Invoices |-> 0]
    /\ forgiven = [i \in Invoices |-> 0]
    /\ slips = 0

Reprice == asked' \in [Invoices -> Int] /\ UNCHANGED <<collected, forgiven, slips>>

(* The bills B change together, in one transaction.                        *)
Collect(B) ==
    /\ \A i \in B : collected'[i] > collected[i] /\ collected'[i] <= asked[i]
    /\ collected' = [i \in Invoices |-> IF i \in B THEN collected'[i] ELSE collected[i]]
    /\ asked' \in [Invoices -> Int]
    /\ \A i \in Invoices \ B : asked'[i] = asked[i]
    /\ slips' = slips + Cardinality(B)
    /\ UNCHANGED forgiven

Forgive(B) ==
    /\ \A i \in B : forgiven'[i] > forgiven[i]
    /\ forgiven' = [i \in Invoices |-> IF i \in B THEN forgiven'[i] ELSE forgiven[i]]
    /\ asked' \in [Invoices -> Int]
    /\ \A i \in Invoices \ B : asked'[i] = asked[i]
    /\ UNCHANGED <<collected, slips>>

Next == Reprice \/ \E B \in (SUBSET Invoices) \ {{}} : Collect(B) \/ Forgive(B)

Spec == Init /\ [][Next]_vars
=============================================================================
