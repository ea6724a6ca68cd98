-------------------------- MODULE AuthTokensProofs --------------------------
(***************************************************************************)
(* AuthSessions implements SessionTokens, for any number of devices,       *)
(* requests, sessions and tokens; and what follows from it: a token that   *)
(* was refused once is refused for ever, and nothing that a late handler   *)
(* writes brings a deleted session back.                                   *)
(*                                                                         *)
(* The argument.  Three statements put a token into a row: the insert of   *)
(* loginTransaction and the two conditional swaps.  By Owned a swap goes   *)
(* to the session its token was issued for, and its condition says that    *)
(* the row is there and holds what the handler read.  Every other          *)
(* statement leaves a row, deletes it or ends its grace or its life: it    *)
(* loses tokens.  Issued says that tokens were issued for sessions that    *)
(* exist and that the next one is new.                                     *)
(***************************************************************************)
EXTENDS AuthSessionsProofs

Issued ==
    \A t \in Tokens :
        IF t <= minted THEN owner[t].s \in 1..made ELSE owner[t] = Nobody

TInv == Known /\ Issued

\* The tables of the token store, as AuthSessions!Store reads them.
Current == [s \in Sessions |-> IF row[s].live THEN row[s].cur ELSE 0]
Replaced == [s \in Sessions |-> IF row[s].grace THEN row[s].prev ELSE 0]

LEMMA Numbers ==
  ASSUME Known
  PROVE  /\ made \in Nat /\ minted \in Nat /\ MaxTokens \in Nat /\ MaxLogins \in Nat
         /\ row \in [Sessions -> Row] /\ owner \in [Tokens -> [s : Nat, d : Devices \cup {NoDevice}]]
         /\ \A s \in Sessions : RowOwned(s)
         /\ Sessions \subseteq Nat \ {0} /\ Tokens \subseteq Nat \ {0}
  BY BoundsAssumption, KnownParts DEF RowsOwned, Sessions, Tokens, Known, TypeOK

-----------------------------------------------------------------------------
(* Which statements put a token into a row.                                *)

\* The rows lose tokens: each of them is as it was, is deleted, or its grace is over.
Loses ==
    /\ UNCHANGED <<made, minted, owner>>
    /\ \A s \in Sessions :
          \/ row'[s] \in {row[s], NoRow}
          \/ row'[s] = [row[s] EXCEPT !.grace = FALSE]
          \/ row'[s] = [row[s] EXCEPT !.expired = TRUE]

\* Session s, and no other, gets a new token, for device d.
Gains(s, d, r) ==
    /\ Mint(s, d)
    /\ row' = [row EXCEPT ![s] = r]
    /\ r.live /\ r.cur = minted + 1

Begins(s, d) ==
    /\ s = made + 1 /\ made' = made + 1
    /\ \E r \in Row : Gains(s, d, r) /\ ~r.grace
Swaps(s, d) ==
    /\ row[s].live /\ UNCHANGED made
    /\ \E r \in Row : /\ Gains(s, d, r)
                      /\ \/ r.grace /\ r.prev = row[s].cur
                         \/ r.grace = row[s].grace /\ r.prev = row[s].prev

LEMMA LoginBegins ==
  ASSUME Known, NEW w \in Workers, loginTransaction(w)
  PROVE  \E s \in Sessions, d \in Devices : Begins(s, d)
  <1> DEFINE r == [NoRow EXCEPT !.live = TRUE, !.cur = minted + 1]
  <1>1. made + 1 \in Sessions /\ minted + 1 \in Nat
    BY Numbers DEF loginTransaction, Sessions
  <1>2. r \in Row /\ r.live /\ r.cur = minted + 1 /\ ~r.grace
    BY <1>1 DEF Row, NoRow
  <1>3. task[w].d \in Devices
    BY KnownParts DEF TasksOwned, TaskOwned, loginTransaction
  <1>4. row' = [row EXCEPT ![made + 1] = r] /\ Mint(made + 1, task[w].d) /\ made' = made + 1
    BY DEF loginTransaction
  <1> HIDE DEF r
  <1>5. Begins(made + 1, task[w].d)
    BY <1>2, <1>4 DEF Begins, Gains
  <1> QED BY <1>1, <1>3, <1>5

\* The session whose row a handler swaps is the one its token was issued for.
LEMMA SwapPlace ==
  ASSUME Known, NEW w \in Workers, task[w].pc \in {"rotate", "reissue"}
  PROVE  /\ task[w].s \in Sessions /\ task[w].d \in Devices
         /\ task[w].pc = "rotate" => task[w].cur = task[w].tok
         /\ task[w].tok \in Nat
  <1>1. TaskOwned(w) /\ task[w] \in Task
    BY KnownParts DEF TasksOwned
  <1>2. made \in 0..MaxLogins
    BY KnownParts
  <1> QED BY <1>1, <1>2, Numbers
          DEF TaskOwned, Presenting, Refreshing, Reading, Sessions, Task

LEMMA RotateSwaps ==
  ASSUME Known, NEW w \in Workers, rotate(w)
  PROVE  Loses \/ \E s \in Sessions, d \in Devices : Swaps(s, d)
  <1> PICK s : s = task[w].s
    OBVIOUS
  <1>1. s \in Sessions /\ task[w].d \in Devices /\ task[w].cur = task[w].tok
        /\ task[w].tok \in Nat /\ minted \in Nat
    BY SwapPlace, Numbers DEF rotate
  <1>2. CASE UNCHANGED <<row, minted, owner>>
    BY <1>2 DEF rotate, Loses
  <1>3. CASE /\ Unchanged(w) /\ Mint(s, task[w].d)
             /\ row' = [row EXCEPT ![s] = Rotated(w, minted + 1)]
    <2> DEFINE r == Rotated(w, minted + 1)
    <2>1. r \in Row /\ r.live /\ r.cur = minted + 1 /\ r.grace /\ r.prev = row[s].cur
      BY <1>1, <1>3 DEF Rotated, Row, Unchanged
    <2>2. row[s].live /\ UNCHANGED made
      BY <1>3 DEF Unchanged, rotate
    <2> HIDE DEF r
    <2>3. Swaps(s, task[w].d)
      BY <1>3, <2>1, <2>2 DEF Swaps, Gains, r
    <2> QED BY <1>1, <2>3
  <1> QED BY <1>2, <1>3 DEF rotate

LEMMA ReissueSwaps ==
  ASSUME Known, NEW w \in Workers, reissue(w)
  PROVE  Loses \/ \E s \in Sessions, d \in Devices : Swaps(s, d)
  <1> PICK s : s = task[w].s
    OBVIOUS
  <1>1. s \in Sessions /\ task[w].d \in Devices /\ minted \in Nat /\ row[s] \in Row
    BY SwapPlace, Numbers DEF reissue
  <1>2. CASE UNCHANGED <<row, minted, owner>>
    BY <1>2 DEF reissue, Loses
  <1>3. CASE /\ Unchanged(w) /\ Mint(s, task[w].d)
             /\ row' = [row EXCEPT ![s] = Reissued(s, minted + 1)]
    <2> DEFINE r == Reissued(s, minted + 1)
    <2>1. row[s].live /\ UNCHANGED made
      BY <1>3 DEF Unchanged, reissue
    <2>2. r \in Row /\ r.live /\ r.cur = minted + 1 /\ r.grace = row[s].grace
          /\ r.prev = row[s].prev
      <3>1. minted + 1 \in Nat
        BY <1>1
      <3>2. r = [row[s] EXCEPT !.cur = minted + 1, !.expired = FALSE]
        BY DEF Reissued
      <3> QED BY <1>1, <2>1, <3>1, <3>2 DEF Row
    <2> HIDE DEF r
    <2>3. Swaps(s, task[w].d)
      BY <1>3, <2>1, <2>2 DEF Swaps, Gains, r
    <2> QED BY <1>1, <2>3
  <1> QED BY <1>2, <1>3 DEF reissue

\* Everybody else deletes rows or lets time pass over them.
LEMMA DeletingLoses ==
  ASSUME Known, NEW S, UNCHANGED <<made, minted, owner>>,
         row' = [s \in Sessions |-> IF s \in S THEN NoRow ELSE row[s]]
  PROVE  Loses
  BY DEF Loses

LEMMA OthersLose ==
  ASSUME Known, Next,
         \A w \in Workers : ~loginTransaction(w) /\ ~rotate(w) /\ ~reissue(w)
  PROVE  Loses
  <1>0. row \in [Sessions -> Row]
    BY Numbers
  <1>1. ASSUME NEW w \in Workers, Serve(w) \/ Abandon(w) PROVE Loses
    <2>1. CASE evictOldest(w) \/ dropExpired(w)
      BY <1>0, <2>1 DEF evictOldest, dropExpired, Loses
    <2>2. CASE revokeOnReuse(w)
      BY <2>2 DEF revokeOnReuse, Loses
    <2>3. CASE logout(w)
      BY <2>3 DEF logout, Loses
    <2>4. CASE deleteOthers(w)
      BY <2>4 DEF deleteOthers, Loses
    <2>5. CASE UNCHANGED <<row, made, minted, owner>>
      BY <2>5 DEF Loses
    <2> QED
      BY <1>1, <2>1, <2>2, <2>3, <2>4, <2>5
         DEF Serve, countUserSessions, findOldestSession, find, refind, pollCache,
             regrace, cacheGracePair, findKeep, Abandon
  <1>2. ASSUME NEW w \in Workers, NEW d \in Devices, Request(w, d) PROVE Loses
    BY <1>2 DEF Request, SignIn, Refresh, SignOut, RevokeOthers, Loses
  <1>3. ASSUME NEW d \in Devices, GiveUp(d) PROVE Loses
    BY <1>3 DEF GiveUp, Loses
  <1>4. ASSUME NEW s \in Sessions, revokeSession(s) \/ GraceEnds(s) \/ Expires(s)
        PROVE  Loses
    BY <1>0, <1>4 DEF revokeSession, GraceEnds, Expires, Loses
  <1>5. CASE deleteAllSessions
    BY <1>5 DEF deleteAllSessions, Loses
  <1> QED BY <1>1, <1>2, <1>3, <1>4, <1>5 DEF Next

LEMMA TokenSteps ==
  ASSUME Known, Next
  PROVE  \/ Loses
         \/ \E s \in Sessions, d \in Devices : Begins(s, d) \/ Swaps(s, d)
  BY LoginBegins, RotateSwaps, ReissueSwaps, OthersLose

-----------------------------------------------------------------------------
(* Issued is inductive.                                                    *)

LEMMA IssuedStep ==
  ASSUME TInv, Next
  PROVE  Issued'
  <1>0. Known /\ Issued
    BY DEF TInv
  <1>1. CASE Loses
    BY <1>0, <1>1 DEF Loses, Issued
  <1>2. ASSUME NEW s \in Sessions, NEW d \in Devices, Begins(s, d) \/ Swaps(s, d)
        PROVE  Issued'
    <2>1. /\ Mint(s, d) /\ made' \in Nat /\ made <= made' /\ s \in 1..made'
      <3>1. row[s].live => s <= made
        BY <1>0, Numbers DEF RowOwned
      <3> QED BY <1>0, <1>2, <3>1, Numbers DEF Begins, Swaps, Gains
    <2>2. /\ minted' = minted + 1 /\ minted + 1 \in Tokens
          /\ owner' = [owner EXCEPT ![minted + 1] = [s |-> s, d |-> d]]
      BY <1>0, <2>1, Numbers DEF Mint, Tokens
    <2>3. ASSUME NEW t \in Tokens
          PROVE  IF t <= minted' THEN owner'[t].s \in 1..made' ELSE owner'[t] = Nobody
      <3>1. CASE t = minted + 1
        BY <1>0, <2>1, <2>2, <3>1, Numbers
      <3>2. CASE t # minted + 1
        <4>1. owner'[t] = owner[t] /\ t \in Nat
          BY <1>0, <2>2, <3>2, Numbers
        <4>2. t <= minted' <=> t <= minted
          BY <1>0, <2>2, <3>2, <4>1, Numbers
        <4>3. IF t <= minted THEN owner[t].s \in 1..made ELSE owner[t] = Nobody
          BY <1>0 DEF Issued
        <4> QED BY <1>0, <2>1, <4>1, <4>2, <4>3, Numbers
      <3> QED BY <3>1, <3>2
    <2> QED BY <2>3 DEF Issued
  <1> QED BY <1>0, <1>1, <1>2, TokenSteps

LEMMA TInvStep ==
  ASSUME TInv, [Next]_vars
  PROVE  TInv'
  <1>1. Known'
    BY KnownStep, KnownStutters DEF TInv
  <1>2. CASE Next
    BY <1>1, <1>2, IssuedStep DEF TInv
  <1>3. CASE UNCHANGED vars
    BY <1>1, <1>3 DEF vars, TInv, Issued
  <1> QED BY <1>2, <1>3

LEMMA TInvInit ==
  ASSUME Init
  PROVE  TInv
  <1>1. Known
    BY KnownAtStart
  <1>2. Issued
    BY <1>1, Numbers DEF Init, Issued
  <1> QED BY <1>1, <1>2 DEF TInv

-----------------------------------------------------------------------------
(* The steps of the token store.                                           *)

LEMMA Fresh ==
  ASSUME TInv, minted < MaxTokens
  PROVE  minted + 1 \in Tokens /\ owner[minted + 1] = Nobody /\ minted + 1 # 0
  BY Numbers DEF TInv, Issued, Tokens

\* What Current and Replaced are after a session got a token.
LEMMA Gained ==
  ASSUME TInv, NEW s \in Sessions, NEW d, NEW r \in Row, Gains(s, d, r)
  PROVE  /\ Current' = [Current EXCEPT ![s] = minted + 1]
         /\ Replaced' = [Replaced EXCEPT ![s] = IF r.grace THEN r.prev ELSE 0]
         /\ minted + 1 \in Tokens /\ owner[minted + 1] = Nobody
         /\ owner' = [owner EXCEPT ![minted + 1] = [s |-> s, d |-> d]]
  <1>1. row \in [Sessions -> Row] /\ row' = [row EXCEPT ![s] = r]
    BY Numbers DEF TInv, Gains
  <1>2. \A o \in Sessions : row'[o] = IF o = s THEN r ELSE row[o]
    BY <1>1
  <1>3. Current' = [Current EXCEPT ![s] = minted + 1]
    <2>1. r.live /\ r.cur = minted + 1
      BY DEF Gains
    <2>2. Current' = [o \in Sessions |-> IF o = s THEN minted + 1 ELSE Current[o]]
      BY <1>2, <2>1 DEF Current
    <2> QED BY <2>2 DEF Current
  <1>4. Replaced' = [Replaced EXCEPT ![s] = IF r.grace THEN r.prev ELSE 0]
    BY <1>2 DEF Replaced
  <1>5. /\ minted < MaxTokens
        /\ owner' = [owner EXCEPT ![minted + 1] = [s |-> s, d |-> d]]
    BY DEF Gains, Mint
  <1> QED BY <1>3, <1>4, <1>5, Fresh

LEMMA BeginsStep ==
  ASSUME TInv, NEW s \in Sessions, NEW d \in Devices, Begins(s, d),
         NEW t, t = minted + 1
  PROVE  Store!Open(s, t)
  <1>1. PICK r \in Row : Gains(s, d, r) /\ ~r.grace
    BY DEF Begins
  <1>2. /\ Current' = [Current EXCEPT ![s] = minted + 1]
        /\ Replaced' = [Replaced EXCEPT ![s] = 0]
        /\ owner[minted + 1] = Nobody
        /\ owner' = [owner EXCEPT ![minted + 1] = [s |-> s, d |-> d]]
    BY <1>1, Gained
  <1>3. Replaced' = Replaced
    <2>1. Replaced[s] = 0
      <3>1. ~row[s].live
        BY Numbers DEF TInv, Begins, RowOwned
      <3>2. ~row[s].grace
        BY <3>1, Numbers DEF TInv, RowOwned
      <3> QED BY <3>2 DEF Replaced
    <2> QED BY <1>2, <2>1 DEF Replaced
  <1>4. ~\E x \in Tokens : owner[x] # Nobody /\ owner[x].s = s
    BY Numbers DEF TInv, Issued, Begins
  <1> QED BY <1>2, <1>3, <1>4 DEF Store!Open, Store!Opened, Store!Issue, Current, Replaced

LEMMA SwapsStep ==
  ASSUME TInv, NEW s \in Sessions, NEW d \in Devices, Swaps(s, d),
         NEW t, t = minted + 1
  PROVE  Store!Rotate(s, t) \/ Store!Reissue(s, t)
  <1>1. PICK r \in Row : /\ Gains(s, d, r)
                         /\ \/ r.grace /\ r.prev = row[s].cur
                            \/ r.grace = row[s].grace /\ r.prev = row[s].prev
    BY DEF Swaps
  <1>2. /\ Current' = [Current EXCEPT ![s] = minted + 1]
        /\ Replaced' = [Replaced EXCEPT ![s] = IF r.grace THEN r.prev ELSE 0]
        /\ owner[minted + 1] = Nobody
        /\ owner' = [owner EXCEPT ![minted + 1] = [s |-> s, d |-> d]]
    BY <1>1, Gained
  <1>3. Current[s] = row[s].cur /\ Current[s] # 0
    BY Numbers DEF TInv, Swaps, RowOwned, Current
  <1>4. Replaced' = [Replaced EXCEPT ![s] = Current[s]] \/ Replaced' = Replaced
    <2>1. CASE r.grace /\ r.prev = row[s].cur
      BY <1>2, <1>3, <2>1
    <2>2. CASE r.grace = row[s].grace /\ r.prev = row[s].prev
      BY <1>2, <2>2 DEF Replaced
    <2> QED BY <1>1, <2>1, <2>2
  <1> QED
    BY <1>2, <1>3, <1>4 DEF Store!Rotate, Store!Reissue, Store!Live, Store!Issue,
                            Current, Replaced

LEMMA LosesStep ==
  ASSUME TInv, Loses
  PROVE  Store!Retire
  <1>1. ASSUME NEW s \in Sessions
        PROVE  \/ Current'[s] = Current[s] /\ Replaced'[s] \in {Replaced[s], 0}
               \/ Current'[s] = 0 /\ Replaced'[s] = 0
    <2>1. row[s] \in Row
      BY Numbers DEF TInv
    <2>2. CASE row'[s] = row[s]
      BY <2>2 DEF Current, Replaced
    <2>3. CASE row'[s] = NoRow
      BY <2>3 DEF Current, Replaced, NoRow
    <2>4. CASE row'[s] = [row[s] EXCEPT !.grace = FALSE]
      <3>1. row'[s].live = row[s].live /\ row'[s].cur = row[s].cur /\ ~row'[s].grace
        BY <2>1, <2>4 DEF Row
      <3> QED BY <3>1 DEF Current, Replaced
    <2>5. CASE row'[s] = [row[s] EXCEPT !.expired = TRUE]
      <3>1. /\ row'[s].live = row[s].live /\ row'[s].cur = row[s].cur
            /\ row'[s].grace = row[s].grace /\ row'[s].prev = row[s].prev
        BY <2>1, <2>5 DEF Row
      <3> QED BY <3>1 DEF Current, Replaced
    <2> QED BY <2>2, <2>3, <2>4, <2>5 DEF Loses
  <1>2. DOMAIN Current' = Sessions /\ DOMAIN Replaced' = Sessions /\ owner' = owner
    BY DEF Current, Replaced, Loses
  <1> QED BY <1>1, <1>2 DEF Store!Retire, Current, Replaced

LEMMA StoreStep ==
  ASSUME TInv, [Next]_vars
  PROVE  [Store!TNext]_(Store!tvars)
  <1>1. CASE UNCHANGED vars
    BY <1>1 DEF vars, Store!tvars
  <1>2. CASE Next /\ Loses
    BY <1>2, LosesStep DEF Store!TNext
  <1>3. ASSUME NEW s \in Sessions, NEW d \in Devices, Begins(s, d) \/ Swaps(s, d)
        PROVE  Store!TNext
    <2>1. minted + 1 \in Tokens
      BY <1>3, Fresh DEF Begins, Swaps, Gains, Mint
    <2>2. PICK t \in Tokens : t = minted + 1
      BY <2>1
    <2>3. Store!Open(s, t) \/ Store!Rotate(s, t) \/ Store!Reissue(s, t)
      BY <1>3, <2>2, BeginsStep, SwapsStep
    <2> QED BY <2>3 DEF Store!TNext
  <1> QED BY <1>1, <1>2, <1>3, TokenSteps DEF TInv

\* Sign-in, refresh, replay, eviction and sign-out of auth.service.ts, none of
\* which locks anything, implement the token store: no token in two sessions,
\* none taken back, no session resumed.
THEOREM Refinement == Spec => ImplementsTokens
  <1>1. Init => Store!TInit
    <2> SUFFICES ASSUME Init PROVE Store!TInit
      OBVIOUS
    <2>1. \A s \in Sessions : ~row[s].live /\ ~row[s].grace
      BY DEF Init, NoRow
    <2>2. owner = [t \in Tokens |-> Nobody]
      BY DEF Init
    <2> QED BY <2>1, <2>2 DEF Store!TInit
  <1> QED
    BY <1>1, TInvInit, TInvStep, StoreStep, PTL DEF Spec, ImplementsTokens, Store!TSpec

-----------------------------------------------------------------------------
(* What follows for a token that leaked, or was replaced.                  *)

Accepted(t) == \E s \in Sessions : row[s].live /\ Good(s, t)

\* Of the tokens that were issued, none that every session refuses comes back:
\* find, rotate and reissue never take it again.
RetiredForGood == [][\A t \in 1..minted : ~Accepted(t) => ~Accepted(t)']_vars

\* A token that no session takes any more, replaced, evicted, signed out or
\* revoked, is never taken again, whatever stale handlers go on to write.
THEOREM RefusedForGood == Spec => RetiredForGood
  <1>1. ASSUME TInv, Next, NEW t \in 1..minted, NEW s \in Sessions,
               row'[s].live /\ Good(s, t)'
        PROVE  Accepted(t)
    <2>0. /\ Known /\ row[s] \in Row /\ RowOwned(s) /\ minted \in Nat
          /\ row \in [Sessions -> Row]
      BY <1>1, Numbers DEF TInv
    <2>1. CASE Loses
      <3>1. row'[s].live => row[s].live /\ row'[s].cur = row[s].cur
                            /\ row'[s].prev = row[s].prev
                            /\ (row'[s].grace => row[s].grace)
        <4>1. CASE row'[s] = row[s]
          BY <4>1
        <4>2. CASE row'[s] = NoRow
          BY <1>1, <4>2 DEF NoRow
        <4>3. CASE row'[s] = [row[s] EXCEPT !.grace = FALSE]
          BY <2>0, <4>3 DEF Row
        <4>4. CASE row'[s] = [row[s] EXCEPT !.expired = TRUE]
          BY <2>0, <4>4 DEF Row
        <4> QED BY <2>1, <4>1, <4>2, <4>3, <4>4 DEF Loses
      <3> QED BY <1>1, <3>1 DEF Accepted, Good
    <2>2. ASSUME NEW o \in Sessions, NEW d \in Devices, Begins(o, d) \/ Swaps(o, d)
          PROVE  Accepted(t)
      <3>1. CASE o # s
        <4>1. row'[s] = row[s]
          BY <2>0, <2>2, <3>1 DEF Begins, Swaps, Gains
        <4> QED BY <1>1, <4>1 DEF Accepted, Good
      <3>2. CASE o = s
        <4>1. PICK r \in Row : /\ Gains(s, d, r)
                               /\ \/ ~r.grace
                                  \/ row[s].live /\ r.grace /\ r.prev = row[s].cur
                                  \/ /\ row[s].live /\ r.grace = row[s].grace
                                     /\ r.prev = row[s].prev
          BY <2>2, <3>2 DEF Begins, Swaps
        <4>2. row'[s] = r /\ r.cur = minted + 1
          BY <2>0, <4>1 DEF Gains
        <4>3. t = r.prev /\ r.grace
          BY <1>1, <2>0, <4>2 DEF Good
        <4> QED BY <4>1, <4>3 DEF Accepted, Good
      <3> QED BY <3>1, <3>2
    <2> QED BY <1>1, <2>0, <2>1, <2>2, TokenSteps
  <1>2. ASSUME TInv, [Next]_vars
        PROVE  [\A t \in 1..minted : ~Accepted(t) => ~Accepted(t)']_vars
    BY <1>1, <1>2 DEF Accepted
  <1> QED BY <1>2, TInvInit, TInvStep, PTL DEF Spec, RetiredForGood
=============================================================================
