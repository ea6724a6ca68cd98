----------------------------- MODULE MCPayments -----------------------------
(* Instances of Payments for TLC. *)
EXTENDS Payments, TLC

CONSTANTS p1, p2, o1, o2, w1, w2, r1

\* Every reference is a subscription, or every reference is a listing fee.
AllSubscriptions == [r \in {r1} |-> "subscription"]
AllFees == [r \in {r1} |-> "listing_fee"]

\* Each worker runs in an API process of its own.
OwnProcess == [w \in {w1, w2} |-> w]

\* Who may run what.
OpenAndSettle == [w \in {w1, w2} |-> IF w = w1 THEN {"initiate", "webhook"}
                                               ELSE {"webhook", "sync"}]
RetryAndSettle ==
    [w \in {w1, w2} |-> IF w = w1 THEN {"initiate", "webhook"}
                                  ELSE {"webhook", "sync", "retry"}]
OpenTwice ==
    [w \in {w1, w2} |-> IF w = w1 THEN {"initiate", "webhook"}
                          ELSE {"initiate", "webhook", "sync", "retry"}]

Price == {1}
TwoPrices == {1, 2}

\* Sound for the safety properties: no definition names one row or order.
IdSymmetry == Permutations({p1, p2}) \cup Permutations({o1, o2})
=============================================================================
