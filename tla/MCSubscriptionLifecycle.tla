----------------------- MODULE MCSubscriptionLifecycle -----------------------
(* Instances of SubscriptionLifecycle for TLC. *)
EXTENDS SubscriptionLifecycle

CONSTANTS u1, u2, w1, w2

\* The batch beside requests and refunds; or one that also serves requests.
BatchBesideUsers ==
    [w \in {w1, w2} |-> IF w = w1 THEN {"batch"}
                                  ELSE {"request", "trial", "refund"}]
BatchAndUsers ==
    [w \in {w1, w2} |-> IF w = w1 THEN {"batch", "request", "trial"}
                                  ELSE {"request", "trial", "refund"}]
=============================================================================
