---------------------------- MODULE AuthSessions ----------------------------
(***************************************************************************)
(* The sessions of one account: auth.service.ts, auth.repository.ts, the   *)
(* session actions of user-settings.service.ts, and the client that holds  *)
(* the tokens (AuthContext.tsx).                                           *)
(*                                                                         *)
(* A session is a UserSession row.  It holds its current refresh token and *)
(* the one the last rotation replaced, which works for 30 seconds more     *)
(* (the grace).  A token nobody knows signs every session out.  Handlers   *)
(* lock nothing: every step below is one statement on the database, one on *)
(* Redis, or what a device does.                                           *)
(***************************************************************************)
EXTENDS Naturals, FiniteSets

CONSTANTS
    Devices,
    Workers,    \* requests that may be served at the same time (bound)
    Limit,      \* sessions of one account (5 in the code)
    MaxLogins,  \* bound on sessions ever made
    MaxTokens,  \* bound on refresh tokens ever minted
    Roles,      \* what a device may ask for besides signing in (bound)
    NoWorker, NoDevice

ASSUME LimitAssumption == Limit \in Nat \ {0}
ASSUME BoundsAssumption == MaxLogins \in Nat /\ MaxTokens \in Nat
ASSUME WorkersAssumption == IsFiniteSet(Workers) /\ NoWorker \notin Workers
ASSUME DevicesAssumption == NoDevice \notin Devices
ASSUME RolesAssumption == Roles \in [Devices -> SUBSET {"refresh", "signOut", "others"}]

VARIABLES
    row,      \* UserSession rows, in the order of createdAt
    made,     \* how many of them were created
    minted,   \* how many refresh tokens were signed
    cache,    \* Redis: the token a rotation answered with, by replaced token
    task,     \* what each worker is doing
    device,   \* what each device holds
    owner,    \* history: the session and the device a token was minted for
    strained  \* history: a replaced token was lost while somebody held it

vars == <<row, made, minted, cache, task, device, owner, strained>>

Sessions == 1..MaxLogins
Tokens == 1..MaxTokens

Refreshing == {"find", "rotate", "refind", "poll", "reissue", "regrace"}
Pcs == Refreshing \cup {"idle", "count", "oldest", "evict", "create", "cache",
                        "revoke", "drop", "logout", "keep", "others"}

\* cur is refreshToken, prev is previousTokenHash; grace: rotatedAt is less
\* than 30 seconds ago; expired: expiresAt has passed.
Row == [live : BOOLEAN, cur : Nat, prev : Nat, grace : BOOLEAN,
        expired : BOOLEAN]
NoRow == [live |-> FALSE, cur |-> 0, prev |-> 0, grace |-> FALSE,
          expired |-> FALSE]

\* d sent the request when its session was home; tok is the token it
\* presented; s and cur were read from the row; new was signed by the handler.
GRACE_REISSUE_ATTEMPTS == 3
Task == [pc : Pcs, d : Devices \cup {NoDevice}, home : Nat, tok : Nat, s : Nat, cur : Nat,
         new : Nat, att : 0..GRACE_REISSUE_ATTEMPTS]
IdleTask == [pc |-> "idle", d |-> NoDevice, home |-> 0, tok |-> 0, s |-> 0,
             cur |-> 0, new |-> 0, att |-> 0]

\* wait is the request whose answer the device still takes.
Device == [tok : Nat, s : Nat, wait : Workers \cup {NoWorker}]
SignedOut == [tok |-> 0, s |-> 0, wait |-> NoWorker]

Nobody == [s |-> 0, d |-> NoDevice]

Init ==
    /\ row = [s \in Sessions |-> NoRow]
    /\ made = 0 /\ minted = 0
    /\ cache = [t \in Tokens |-> 0]
    /\ task = [w \in Workers |-> IdleTask]
    /\ device = [d \in Devices |-> SignedOut]
    /\ owner = [t \in Tokens |-> Nobody]
    /\ strained = FALSE

Live == {s \in Sessions : row[s].live}
\* signRefreshToken: a token that was never seen before.
Mint(s, d) ==
    /\ minted < MaxTokens
    /\ minted' = minted + 1
    /\ owner' = [owner EXCEPT ![minted + 1] = [s |-> s, d |-> d]]
Goto(w, pc) == task' = [task EXCEPT ![w].pc = pc]
End(w) == task' = [task EXCEPT ![w] = IdleTask]

\* Somebody will still present token t for a refresh.
Held(t) == \/ \E d \in Devices : device[d].tok = t
           \/ \E w \in Workers : task[w].pc \in Refreshing /\ task[w].tok = t

\* The answer reaches the device only if it did not give up (12 seconds).
Takes(w) == device[task[w].d].wait = w
Answer(w, tok, s) ==
    /\ device' = IF Takes(w)
                 THEN [device EXCEPT ![task[w].d] = [tok |-> tok, s |-> s,
                                                     wait |-> NoWorker]]
                 ELSE device
    /\ End(w)
\* A definitive failure: the device forgets its session (clearSession).
Refused(w) == Answer(w, 0, 0)
\* A transient one: it keeps the token.
Busy(w) == Answer(w, device[task[w].d].tok, device[task[w].d].s)

-----------------------------------------------------------------------------
(* Signing in: login, verifyOtp, googleAuth.                               *)

SignIn(w, d) ==
    /\ task[w].pc = "idle"
    /\ device[d].tok = 0 /\ device[d].wait = NoWorker
    /\ task' = [task EXCEPT ![w] = [IdleTask EXCEPT !.pc = "count", !.d = d]]
    /\ device' = [device EXCEPT ![d].wait = w]
    /\ UNCHANGED <<row, made, minted, cache, owner, strained>>

\* (Mutant: > for >=.)
MutantFull == Cardinality(Live) > Limit
Full == Cardinality(Live) >= Limit
countUserSessions(w) ==
    /\ task[w].pc = "count"
    /\ Goto(w, IF Full THEN "oldest" ELSE "create")
    /\ UNCHANGED <<row, made, minted, cache, device, owner, strained>>

findOldestSession(w) ==
    /\ task[w].pc = "oldest"
    /\ \/ /\ Live = {}
          /\ Goto(w, "create")
       \/ \E s \in Live :
            /\ \A o \in Live : s <= o
            /\ task' = [task EXCEPT ![w].pc = "evict", ![w].s = s]
    /\ UNCHANGED <<row, made, minted, cache, device, owner, strained>>

\* Deleting a row that is gone throws: the sign-in fails with a 500.
evictOldest(w) ==
    /\ task[w].pc = "evict"
    /\ \/ /\ row[task[w].s].live
          /\ row' = [row EXCEPT ![task[w].s] = NoRow]
          /\ Goto(w, "create")
          /\ UNCHANGED device
       \/ /\ ~row[task[w].s].live
          /\ Busy(w)
          /\ UNCHANGED row
    /\ UNCHANGED <<made, minted, cache, owner, strained>>

loginTransaction(w) ==
    /\ task[w].pc = "create"
    /\ made < MaxLogins
    /\ made' = made + 1
    /\ Mint(made + 1, task[w].d)
    /\ row' = [row EXCEPT ![made + 1] = [NoRow EXCEPT !.live = TRUE,
                                                      !.cur = minted + 1]]
    /\ Answer(w, minted + 1, made + 1)
    /\ UNCHANGED <<cache, strained>>

-----------------------------------------------------------------------------
(* Refreshing.                                                             *)

\* A request of a device that is signed in.
Send(w, d, pc) ==
    task' = [task EXCEPT ![w] = [IdleTask EXCEPT !.pc = pc, !.d = d,
                 !.home = device[d].s, !.tok = device[d].tok]]

\* refreshSession: one request at a time, but one given up may still be
\* served.
Refresh(w, d) ==
    /\ task[w].pc = "idle"
    /\ device[d].tok # 0 /\ device[d].wait = NoWorker
    /\ Send(w, d, "find")
    /\ device' = [device EXCEPT ![d].wait = w]
    /\ UNCHANGED <<row, made, minted, cache, owner, strained>>

\* findSessionForRefresh: the rows that hold the token.
Match(t) == {s \in Live : t \in {row[s].cur, row[s].prev}}

\* assertSessionUsable: the row is deleted after the answer.
SessionExpired(w, s) ==
    /\ row[s].expired
    /\ device' = IF Takes(w) THEN [device EXCEPT ![task[w].d] = SignedOut]
                             ELSE device
    /\ task' = [task EXCEPT ![w].pc = "drop", ![w].s = s]

\* The start of refreshWithinGrace.
WithinGrace(w, s) ==
    /\ ~row[s].expired
    /\ task' = [task EXCEPT ![w].pc = IF row[s].grace THEN "poll" ELSE "revoke",
                            ![w].s = s, ![w].cur = row[s].cur]
    /\ UNCHANGED device

find(w) ==
    /\ task[w].pc = "find"
    /\ \/ /\ Match(task[w].tok) = {}
          /\ Goto(w, "revoke")
          /\ UNCHANGED device
       \/ \E s \in Match(task[w].tok) :
            \/ SessionExpired(w, s)
            \/ /\ row[s].cur = task[w].tok /\ ~row[s].expired
               /\ task' = [task EXCEPT ![w].pc = "rotate", ![w].s = s,
                                       ![w].cur = row[s].cur]
               /\ UNCHANGED device
            \/ row[s].cur # task[w].tok /\ WithinGrace(w, s)
    /\ UNCHANGED <<row, made, minted, cache, owner, strained>>

\* The row of the task still holds the token that was read.  (Mutant: the
\* update is by id alone, as in rotateSession.)
MutantUnchanged(w) == row[task[w].s].live
Unchanged(w) == row[task[w].s].live /\ row[task[w].s].cur = task[w].cur

\* What a rotation writes; the token an earlier one replaced is lost.
\* (Mutant: the replaced token is not stored.)
MutantRotated(w, tok) == [row[task[w].s] EXCEPT !.cur = tok, !.grace = TRUE]
Rotated(w, tok) == [live |-> TRUE, cur |-> tok, prev |-> task[w].tok,
                    grace |-> TRUE, expired |-> FALSE]

\* rotateSessionIfCurrent.
rotate(w) ==
    LET s == task[w].s IN
    /\ task[w].pc = "rotate"
    /\ \/ /\ Unchanged(w)
          /\ Mint(s, task[w].d)
          /\ row' = [row EXCEPT ![s] = Rotated(w, minted + 1)]
          /\ strained' = (strained \/ (row[s].grace /\ Held(row[s].prev)))
          /\ task' = [task EXCEPT ![w].pc = "cache", ![w].new = minted + 1]
       \/ /\ ~Unchanged(w)
          /\ Goto(w, "refind")
          /\ UNCHANGED <<row, minted, owner, strained>>
    /\ UNCHANGED <<made, cache, device>>

\* A concurrent refresh won the swap.
refind(w) ==
    /\ task[w].pc = "refind"
    /\ \/ /\ Match(task[w].tok) = {}
          /\ Refused(w)
       \/ \E s \in Match(task[w].tok) : SessionExpired(w, s) \/ WithinGrace(w, s)
    /\ UNCHANGED <<row, made, minted, cache, owner, strained>>

\* readGracePair, three times within 210 ms.  Redis may be down.  (Mutant: the
\* value is returned without a look whether there is one.)
MutantCached(w) == TRUE
Cached(w) == cache[task[w].tok] # 0
pollCache(w) ==
    /\ task[w].pc = "poll"
    /\ \/ /\ Cached(w)
          /\ Answer(w, cache[task[w].tok], task[w].s)
          /\ UNCHANGED strained
       \/ /\ Goto(w, "reissue")
          /\ strained' = TRUE
          /\ UNCHANGED device
    /\ UNCHANGED <<row, made, minted, cache, owner>>

\* reissueSessionInGrace: the replaced token and the end of its grace stay.
\* (Mutant: rotatedAt is set again.)
MutantReissued(s, tok) == [row[s] EXCEPT !.cur = tok, !.grace = TRUE]
Reissued(s, tok) == [row[s] EXCEPT !.cur = tok, !.expired = FALSE]
reissue(w) ==
    LET s == task[w].s IN
    /\ task[w].pc = "reissue"
    /\ \/ /\ Unchanged(w)
          /\ Mint(s, task[w].d)
          /\ row' = [row EXCEPT ![s] = Reissued(s, minted + 1)]
          /\ task' = [task EXCEPT ![w].pc = "cache", ![w].new = minted + 1]
       \/ /\ ~Unchanged(w)
          /\ Goto(w, "regrace")
          /\ UNCHANGED <<row, minted, owner>>
    /\ UNCHANGED <<made, cache, device, strained>>

\* The next attempt reads the row again, and neither the grace nor the cache.
regrace(w) ==
    /\ task[w].pc = "regrace"
    /\ \/ \E s \in Match(task[w].tok) :
            /\ task[w].att + 1 < GRACE_REISSUE_ATTEMPTS
            /\ row[s].prev = task[w].tok
            /\ task' = [task EXCEPT ![w].pc = "reissue", ![w].s = s,
                            ![w].cur = row[s].cur, ![w].att = @ + 1]
            /\ UNCHANGED device
       \/ /\ \/ task[w].att + 1 = GRACE_REISSUE_ATTEMPTS
             \/ \A s \in Match(task[w].tok) : row[s].prev # task[w].tok
          /\ Busy(w)
    /\ UNCHANGED <<row, made, minted, cache, owner, strained>>

\* cacheGracePair is best effort; then the pair is returned.
cacheGracePair(w) ==
    /\ task[w].pc = "cache"
    /\ cache' \in {cache, [cache EXCEPT ![task[w].tok] = task[w].new]}
    /\ Answer(w, task[w].new, task[w].s)
    /\ UNCHANGED <<row, made, minted, owner, strained>>

revokeOnReuse(w) ==
    /\ task[w].pc = "revoke"
    /\ row' = [s \in Sessions |-> NoRow]
    /\ Refused(w)
    /\ UNCHANGED <<made, minted, cache, owner, strained>>

\* The delete that assertSessionUsable left behind; it fails silently.
dropExpired(w) ==
    /\ task[w].pc = "drop"
    /\ row' = [row EXCEPT ![task[w].s] = NoRow]
    /\ End(w)
    /\ UNCHANGED <<made, minted, cache, device, owner, strained>>

-----------------------------------------------------------------------------
(* Signing out.                                                            *)

\* The app sends the request, does not wait for it, and forgets its tokens.
\* A refresh under way is not cancelled: its answer is stored all the same.
SignOut(w, d) ==
    /\ task[w].pc = "idle"
    /\ device[d].tok # 0
    /\ Send(w, d, "logout")
    /\ device' = [device EXCEPT ![d].tok = 0, ![d].s = 0]
    /\ UNCHANGED <<row, made, minted, cache, owner, strained>>

\* deleteSessionsByRefreshToken: the rows whose current token it is.
logout(w) ==
    /\ task[w].pc = "logout"
    /\ row' = [s \in Sessions |-> IF row[s].live /\ row[s].cur = task[w].tok
                                  THEN NoRow ELSE row[s]]
    /\ End(w)
    /\ UNCHANGED <<made, minted, cache, device, owner, strained>>

\* logout with allDevices, changePassword, resetPassword.
deleteAllSessions ==
    /\ Live # {}
    /\ row' = [s \in Sessions |-> NoRow]
    /\ UNCHANGED <<made, minted, cache, task, device, owner, strained>>

\* revokeSession, and the cleanup of expired rows.
revokeSession(s) ==
    /\ s \in Live
    /\ row' = [row EXCEPT ![s] = NoRow]
    /\ UNCHANGED <<made, minted, cache, task, device, owner, strained>>

\* revokeOtherSessions looks its own session up and then deletes the others.
RevokeOthers(w, d) ==
    /\ task[w].pc = "idle"
    /\ device[d].tok # 0
    /\ Send(w, d, "keep")
    /\ UNCHANGED <<row, made, minted, cache, device, owner, strained>>

findKeep(w) ==
    /\ task[w].pc = "keep"
    /\ \/ \E s \in Live : /\ row[s].cur = task[w].tok
                          /\ task' = [task EXCEPT ![w].pc = "others", ![w].s = s]
       \/ /\ \A s \in Live : row[s].cur # task[w].tok
          /\ End(w)
    /\ UNCHANGED <<row, made, minted, cache, device, owner, strained>>

deleteOthers(w) ==
    /\ task[w].pc = "others"
    /\ row' = [s \in Sessions |-> IF s = task[w].s THEN row[s] ELSE NoRow]
    /\ End(w)
    /\ UNCHANGED <<made, minted, cache, device, owner, strained>>

-----------------------------------------------------------------------------
(* Time, lost answers and crashes.                                         *)

\* The entry in Redis lives as long as the grace.
GraceEnds(s) ==
    /\ row[s].grace
    /\ row' = [row EXCEPT ![s].grace = FALSE]
    /\ cache' = [cache EXCEPT ![row[s].prev] = 0]
    /\ strained' = (strained \/ Held(row[s].prev))
    /\ UNCHANGED <<made, minted, task, device, owner>>

\* Thirty days without a rotation.
Expires(s) ==
    /\ s \in Live /\ ~row[s].grace /\ ~row[s].expired
    /\ row' = [row EXCEPT ![s].expired = TRUE]
    /\ UNCHANGED <<made, minted, cache, task, device, owner, strained>>

\* The device stops waiting; the request may be lost, or its answer is.
GiveUp(d) ==
    /\ device[d].wait # NoWorker
    /\ device' = [device EXCEPT ![d].wait = NoWorker]
    /\ UNCHANGED <<row, made, minted, cache, task, owner, strained>>

Abandon(w) ==
    /\ task[w].pc # "idle"
    /\ End(w)
    /\ UNCHANGED <<row, made, minted, cache, device, owner, strained>>

Serve(w) ==
    \/ countUserSessions(w) \/ findOldestSession(w) \/ evictOldest(w)
    \/ loginTransaction(w)
    \/ find(w) \/ rotate(w) \/ refind(w) \/ pollCache(w) \/ reissue(w)
    \/ regrace(w) \/ cacheGracePair(w) \/ revokeOnReuse(w) \/ dropExpired(w)
    \/ logout(w) \/ findKeep(w) \/ deleteOthers(w)

Request(w, d) ==
    \/ SignIn(w, d)
    \/ "refresh" \in Roles[d] /\ Refresh(w, d)
    \/ "signOut" \in Roles[d] /\ SignOut(w, d)
    \/ "others" \in Roles[d] /\ RevokeOthers(w, d)

Next ==
    \/ \E w \in Workers : Serve(w) \/ Abandon(w)
    \/ \E w \in Workers, d \in Devices : Request(w, d)
    \/ \E d \in Devices : GiveUp(d)
    \/ \E s \in Sessions : revokeSession(s) \/ GraceEnds(s) \/ Expires(s)
    \/ deleteAllSessions

Spec == Init /\ [][Next]_vars

-----------------------------------------------------------------------------
(* Properties.                                                             *)

\* Rows, tasks and devices have their types (the Prisma model UserSession and
\* the states of the handlers); a device has a token exactly if it has a session.
TypeOK ==
    /\ row \in [Sessions -> Row]
    /\ made \in 0..MaxLogins /\ minted \in 0..MaxTokens
    /\ cache \in [Tokens -> Nat]
    /\ task \in [Workers -> Task]
    /\ device \in [Devices -> Device]
    /\ \A d \in Devices : device[d].tok = 0 <=> device[d].s = 0
    /\ owner \in [Tokens -> [s : Nat, d : Devices \cup {NoDevice}]]
    /\ strained \in BOOLEAN

\* Two refreshes with the same token cannot both win the swap of refresh: a
\* rotation replaces the token the row holds at that moment, however old the
\* row is that the handler read.
RotatedOnce ==
    [][\A s \in Sessions :
        row[s].live /\ row'[s].live /\ row'[s].prev # row[s].prev
        => row'[s].prev = row[s].cur]_vars

\* A replay never extends the grace of reissueSessionInGrace: once it has
\* ended for a replaced token, it does not come back for that token.
GraceNotExtended ==
    [][\A s \in Sessions : row[s].live /\ ~row[s].grace /\ row'[s].grace
                           => row'[s].prev # row[s].prev]_vars

\* enforceSessionLimit counts, deletes and creates without a lock: sign-ins
\* that overlap exceed the limit, but by no more than their number less one.
Creating == {w \in Workers : task[w].pc = "create"}
SessionsBounded ==
    Cardinality(Live) + Cardinality(Creating) <= Limit - 1 + Cardinality(Workers)

\* revokeOnReuse signs everybody out.  A device that only retries, replays or
\* races itself does not trigger it while its session exists: it takes a
\* cache that missed, or a replaced token that outlived its grace.
HonestIsKept ==
    \A w \in Workers :
        task[w].pc = "revoke" /\ ~strained => ~row[task[w].home].live

(* What makes them hold: every token belongs to one session of one device, *)
(* and while nothing was strained a device that has a session has a token  *)
(* the session's row still takes.                                          *)

Presenting == Refreshing \cup {"cache", "revoke"}
Reading == {"rotate", "poll", "reissue", "cache"}

\* Wherever a token of refresh, loginTransaction or the cache is, it is one
\* that was minted for that session and device.
RowOwned(s) ==
    /\ row[s].grace => row[s].live /\ row[s].prev # 0
    /\ row[s].live =>
         /\ s <= made
         /\ row[s].cur \in 1..minted /\ owner[row[s].cur].s = s
         /\ row[s].prev <= minted /\ row[s].prev < row[s].cur
         /\ row[s].prev # 0 => owner[row[s].prev].s = s
DeviceOwned(d) ==
    device[d].tok # 0 =>
        /\ device[d].tok <= minted
        /\ owner[device[d].tok] = [s |-> device[d].s, d |-> d]
TaskOwned(w) ==
    /\ task[w].pc # "idle" => task[w].d \in Devices
    /\ task[w].tok # 0 =>
         /\ task[w].tok <= minted
         /\ owner[task[w].tok] = [s |-> task[w].home, d |-> task[w].d]
    /\ task[w].pc \in Presenting => task[w].tok # 0 /\ task[w].home \in 1..made
    /\ task[w].pc \in Reading => task[w].s = task[w].home
    /\ task[w].pc \in {"evict", "drop"} => task[w].s \in 1..made
    /\ task[w].pc = "rotate" => task[w].cur = task[w].tok
    /\ task[w].pc = "cache" =>
         /\ task[w].new \in 1..minted
         /\ owner[task[w].new] = [s |-> task[w].home, d |-> task[w].d]
CacheOwned(t) ==
    cache[t] # 0 => t <= minted /\ cache[t] <= minted /\ owner[cache[t]] = owner[t]
Owned ==
    /\ \A s \in Sessions : RowOwned(s)
    /\ \A d \in Devices : device[d].s <= made /\ DeviceOwned(d)
    /\ \A w \in Workers : TaskOwned(w)
    /\ \A t \in Tokens : CacheOwned(t)

\* Token t is accepted for session s: it is current, or replaced and in grace.
Good(s, t) == t = row[s].cur \/ (t = row[s].prev /\ row[s].grace)

Kept(w) ==
    LET h == task[w].home IN
    task[w].pc \in Presenting =>
    /\ task[w].pc \notin {"reissue", "regrace"}
    /\ row[h].live =>
         /\ task[w].pc # "revoke"
         /\ task[w].pc \in Refreshing => Good(h, task[w].tok)
         /\ task[w].pc \in {"refind", "poll", "cache"} => task[w].tok # row[h].cur
         /\ task[w].pc = "cache" =>
              /\ Takes(w) => row[h].cur = task[w].new /\ ~Held(task[w].new)
              /\ row[h].grace /\ row[h].prev = task[w].tok => row[h].cur = task[w].new

DeviceSound(d) ==
    device[d].tok # 0 /\ row[device[d].s].live => Good(device[d].s, device[d].tok)
RowSound(s) ==
    row[s].live =>
    /\ cache[row[s].cur] = 0
    /\ row[s].grace /\ cache[row[s].prev] # 0 => cache[row[s].prev] = row[s].cur

\* refresh, rotateSessionIfCurrent, the cached pair and the device agree.
Sound ==
    ~strained => /\ \A d \in Devices : DeviceSound(d)
                 /\ \A w \in Workers : Kept(w)
                 /\ \A s \in Sessions : RowSound(s)

-----------------------------------------------------------------------------
(* The store of tokens this implements.                                    *)

Store == INSTANCE SessionTokens WITH
    current <- [s \in Sessions |-> IF row[s].live THEN row[s].cur ELSE 0],
    replaced <- [s \in Sessions |-> IF row[s].grace THEN row[s].prev ELSE 0],
    issued <- owner, Unissued <- Nobody

\* However old the row is that a handler of sign-in, refresh, replay or sign-out
\* has read, what it writes is a step of the token store: no token is revived or
\* taken by two sessions, no deleted session is written back.
ImplementsTokens == Store!TSpec

-----------------------------------------------------------------------------
(* Statements of the documentation the code does not keep.                 *)

\* docs/auth.md on logout: "delete refresh session".
LogoutEnds ==
    [][\A w \in Workers : logout(w) => ~row'[task[w].home].live]_vars
=============================================================================
