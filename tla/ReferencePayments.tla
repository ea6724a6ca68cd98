-------------------------- MODULE ReferencePayments --------------------------
(***************************************************************************)
(* What the payment core promises of each thing that is paid for, and what *)
(* the life of a subscription takes of it: at most one payment is open for *)
(* a reference, only an open payment settles, settling closes it, and no   *)
(* more payments are refunded than were settled.                           *)
(*                                                                         *)
(* Payments implements it with rows, orders and handlers that race;        *)
(* SubscriptionLifecycle, which has no Payment table, makes no other use   *)
(* of payments than this.                                                  *)
(***************************************************************************)
EXTENDS Naturals

CONSTANT References

VARIABLES
    opened,   \* references with an open payment
    paid,     \* how many payments of each were settled, refunded ones too
    returned  \* how many of those were refunded

rvars == <<opened, paid, returned>>

RInit ==
    /\ opened = {}
    /\ paid = [r \in References |-> 0]
    /\ returned = [r \in References |-> 0]

Open(r) ==
    /\ r \notin opened
    /\ opened' = opened \cup {r}
    /\ UNCHANGED <<paid, returned>>

Close(r) ==
    /\ r \in opened
    /\ opened' = opened \ {r}
    /\ UNCHANGED <<paid, returned>>

Settle(r) ==
    /\ r \in opened
    /\ opened' = opened \ {r}
    /\ paid' = [paid EXCEPT ![r] = @ + 1]
    /\ UNCHANGED returned

Return(r) ==
    /\ returned[r] < paid[r]
    /\ returned' = [returned EXCEPT ![r] = @ + 1]
    /\ UNCHANGED <<opened, paid>>

RNext ==
    \E r \in References : Open(r) \/ Close(r) \/ Settle(r) \/ Return(r)

RSpec == RInit /\ [][RNext]_rvars
=============================================================================
