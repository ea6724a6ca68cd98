---------------------------- MODULE SessionTokens ----------------------------
(***************************************************************************)
(* What the session store promises of refresh tokens, without saying how:  *)
(* a token is issued once, to one device and for one session; a session    *)
(* takes its current token and at most one that it replaced; only the      *)
(* current token can be the next replaced one; what is no longer taken is  *)
(* never taken again, and a session that ended is not resumed.             *)
(* AuthSessions implements it with handlers that lock nothing (see the     *)
(* refinement mapping there).                                              *)
(***************************************************************************)
EXTENDS Naturals

CONSTANTS
    Sessions, Tokens,   \* none of them is 0
    Devices,
    Unissued

VARIABLES
    current,    \* the current token of each session, 0 if it is not live
    replaced,   \* the replaced token still in grace, 0 if there is none
    issued      \* the session and the device each token was issued for

tvars == <<current, replaced, issued>>

TInit ==
    /\ current = [s \in Sessions |-> 0]
    /\ replaced = [s \in Sessions |-> 0]
    /\ issued = [t \in Tokens |-> Unissued]

Live(s) == current[s] # 0
Opened(s) == \E t \in Tokens : issued[t] # Unissued /\ issued[t].s = s

\* Session s gets a token that was never seen before.
Issue(s, t) ==
    /\ issued[t] = Unissued
    /\ current' = [current EXCEPT ![s] = t]
    /\ \E d \in Devices : issued' = [issued EXCEPT ![t] = [s |-> s, d |-> d]]

Open(s, t) ==
    /\ ~Opened(s)
    /\ Issue(s, t)
    /\ UNCHANGED replaced

Rotate(s, t) ==
    /\ Live(s)
    /\ Issue(s, t)
    /\ replaced' = [replaced EXCEPT ![s] = current[s]]

\* The answer to a rotation was lost: the session gets another current token,
\* and the replaced one keeps what is left of its grace.
Reissue(s, t) ==
    /\ Live(s)
    /\ Issue(s, t)
    /\ UNCHANGED replaced

\* A grace runs out, or sessions end: tokens are lost and none is won.
Retire ==
    /\ \A s \in Sessions :
          \/ current'[s] = current[s] /\ replaced'[s] \in {replaced[s], 0}
          \/ current'[s] = 0 /\ replaced'[s] = 0
    /\ DOMAIN current' = Sessions /\ DOMAIN replaced' = Sessions
    /\ UNCHANGED issued

TNext ==
    \/ Retire
    \/ \E s \in Sessions, t \in Tokens : Open(s, t) \/ Rotate(s, t) \/ Reissue(s, t)

TSpec == TInit /\ [][TNext]_tvars
=============================================================================
