---------------------------- MODULE PaymentLedger ----------------------------
(***************************************************************************)
(* What the payment core promises, without saying how: a ledger of         *)
(* payments in which money in (an NI order of the payment captured for its *)
(* price) comes before the payment counts as paid, the purchase is granted *)
(* in the same step and once, and a settled payment can only be refunded.  *)
(* Payments implements it (see the refinement mapping there).              *)
(***************************************************************************)
EXTENDS Naturals

CONSTANTS PaymentIds

VARIABLES
    led,      \* the standing of each payment
    funded,   \* payments whose price has been captured
    granted   \* how often each payment's purchase was granted

lvars == <<led, funded, granted>>

LInit ==
    /\ led = [p \in PaymentIds |-> "none"]
    /\ funded = {}
    /\ granted = [p \in PaymentIds |-> 0]

Open(p) ==
    /\ led[p] = "none"
    /\ led' = [led EXCEPT ![p] = "pending"]
    /\ UNCHANGED <<funded, granted>>

Drop(p) ==
    /\ led[p] = "pending"
    /\ led' = [led EXCEPT ![p] = "failed"]
    /\ UNCHANGED <<funded, granted>>

\* The money arrives whatever became of the payment meanwhile.
Fund(p) ==
    /\ led[p] # "none"
    /\ funded' = funded \cup {p}
    /\ UNCHANGED <<led, granted>>

Settle(p) ==
    /\ led[p] = "pending" /\ p \in funded
    /\ led' = [led EXCEPT ![p] = "paid"]
    /\ granted' = [granted EXCEPT ![p] = @ + 1]
    /\ UNCHANGED funded

Refund(p) ==
    /\ led[p] = "paid"
    /\ led' = [led EXCEPT ![p] = "refunded"]
    /\ UNCHANGED <<funded, granted>>

LNext ==
    \E p \in PaymentIds :
        Open(p) \/ Drop(p) \/ Fund(p) \/ Settle(p) \/ Refund(p)

LSpec == LInit /\ [][LNext]_lvars
=============================================================================
