----------------------------- MODULE StoreLedger -----------------------------
(***************************************************************************)
(* What store billing promises of one account, without saying how: a plan  *)
(* is granted only with the terms of a period the store has sold, and only *)
(* once there is a receipt for the period; a receipt is written once, and  *)
(* it is credited only for a period the store took back; and a plan is     *)
(* withdrawn only if some period was taken back or has run out.            *)
(* StorePurchases implements it with a client, notifications and retries   *)
(* that race.                                                              *)
(***************************************************************************)
EXTENDS Naturals

CONSTANT Periods

VARIABLES
    today,
    terms,      \* the plan the store sold a period for, and until when
    returned,   \* the periods the store took back
    receipt,    \* "none", "paid" or "refunded", for each period
    shown       \* the terms of the plan the account has, if it has one

bvars == <<today, terms, returned, receipt, shown>>

Nothing == <<>>

BInit ==
    /\ today = 0
    /\ terms = [k \in Periods |-> Nothing]
    /\ returned = {}
    /\ receipt = [k \in Periods |-> "none"]
    /\ shown = Nothing

Sold(k) == terms[k] # Nothing

\* What is sold is not over yet, and keeps its terms.
Sell(k) ==
    /\ ~Sold(k)
    /\ DOMAIN terms' = Periods
    /\ terms'[k] # Nothing /\ terms'[k].until > today
    /\ \A j \in Periods \ {k} : terms'[j] = terms[j]
    /\ UNCHANGED <<today, returned, receipt, shown>>

TakeBack(k) ==
    /\ Sold(k) /\ k \notin returned
    /\ returned' = returned \cup {k}
    /\ UNCHANGED <<today, terms, receipt, shown>>

Receive(k) ==
    /\ Sold(k) /\ receipt[k] = "none"
    /\ receipt' = [receipt EXCEPT ![k] = "paid"]
    /\ UNCHANGED <<today, terms, returned, shown>>

Credit(k) ==
    /\ k \in returned /\ receipt[k] = "paid"
    /\ receipt' = [receipt EXCEPT ![k] = "refunded"]
    /\ UNCHANGED <<today, terms, returned, shown>>

Grant(k) ==
    /\ Sold(k) /\ receipt[k] # "none"
    /\ shown' = terms[k]
    /\ UNCHANGED <<today, terms, returned, receipt>>

Over(k) == k \in returned \/ terms[k].until <= today
Withdraw ==
    /\ \E k \in Periods : Sold(k) /\ Over(k)
    /\ shown' = Nothing
    /\ UNCHANGED <<today, terms, returned, receipt>>

Pass ==
    /\ today' = today + 1
    /\ UNCHANGED <<terms, returned, receipt, shown>>

BNext ==
    \/ \E k \in Periods : \/ Sell(k) \/ TakeBack(k)
                          \/ Receive(k) \/ Credit(k) \/ Grant(k)
    \/ Withdraw \/ Pass

BSpec == BInit /\ [][BNext]_bvars
=============================================================================
