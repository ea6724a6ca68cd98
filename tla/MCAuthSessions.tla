--------------------------- MODULE MCAuthSessions ---------------------------
EXTENDS AuthSessions, TLC

CONSTANTS w1, w2, d1, d2

\* One device keeps its session and signs out; the other one signs in, which may
\* evict the first, and revokes the sessions of others.
OneActive == (d1 :> {"refresh", "signOut"}) @@ (d2 :> {"others"})
Symmetric == Permutations(Workers)
=============================================================================
