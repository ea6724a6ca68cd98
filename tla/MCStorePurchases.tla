--------------------------- MODULE MCStorePurchases ---------------------------
(* Instances of StorePurchases for TLC. *)
EXTENDS StorePurchases

CONSTANTS w1, w2

\* Clients beside notifications, or beside everything that reacts to the store.
ClientAndStore ==
    [w \in {w1, w2} |-> IF w = w1 THEN {"verify"} ELSE {"verify", "notify"}]
ClientOrStore ==
    [w \in {w1, w2} |-> IF w = w1 THEN {"verify"}
                                  ELSE {"notify", "renewal", "sweep"}]
=============================================================================
