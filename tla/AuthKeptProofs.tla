--------------------------- MODULE AuthKeptProofs ---------------------------
(***************************************************************************)
(* No device that only retries, replays or races itself signs everybody    *)
(* out: HonestIsKept of AuthSessions, for any number of devices, requests  *)
(* and sessions.  AuthSessionsProofs says to whom every token belongs;     *)
(* here, what a row takes and what its devices hold stay together.         *)
(***************************************************************************)
EXTENDS AuthSessionsProofs

Agreed == Known /\ Sound

Parted == /\ \A d \in Devices : DeviceSound(d)
          /\ \A w \in Workers : Kept(w)
          /\ \A s \in Sessions : RowSound(s)

\* A step that deletes rows, or none; leaves a device with its token or with
\* none; and moves one task.
RowsDeletedOnly == \A s \in Sessions : row'[s] = row[s] \/ ~row'[s].live
DevicesLose(w) ==
    \A d \in Devices :
        /\ \/ device'[d].tok = 0
           \/ device'[d].tok = device[d].tok /\ device'[d].s = device[d].s
        /\ device'[d].wait \in {device[d].wait, NoWorker, w}
OnlyTask(w) == \A v \in Workers \ {w} : task'[v] = task[v]

LEMMA SoundAssembled ==
    ASSUME ~strained' => Parted'
    PROVE  Sound'
  BY DEF Parted, Sound

\* Where a session of a device, or of a task that presents a token, is.
LEMMA Places ==
    ASSUME Known
    PROVE  /\ \A d \in Devices : device[d].tok # 0 => device[d].s \in Sessions
           /\ \A w \in Workers : task[w].pc \in Presenting
                => task[w].home \in Sessions /\ task[w].d \in Devices
  <1>1. made \in 0..MaxLogins
    BY KnownParts
  <1>2. ASSUME NEW d \in Devices, device[d].tok # 0 PROVE device[d].s \in Sessions
    <2>1. device[d].s <= made /\ device[d].s # 0 /\ device[d] \in Device
      BY <1>2, KnownParts DEF DevicesOwned
    <2> QED
      BY <1>1, <2>1, BoundsAssumption DEF Device, Sessions
  <1>3. ASSUME NEW w \in Workers, task[w].pc \in Presenting
        PROVE  task[w].home \in Sessions /\ task[w].d \in Devices
    <2>1. TaskOwned(w)
      BY KnownParts DEF TasksOwned
    <2>2. task[w].home \in 1..made /\ task[w].d \in Devices
      BY <1>3, <2>1 DEF TaskOwned, Presenting, Refreshing
    <2> QED
      BY <1>1, <2>2, BoundsAssumption DEF Sessions
  <1> QED
    BY <1>2, <1>3

LEMMA KeptStays ==
    ASSUME NEW v \in Workers, NEW h, NEW n, Kept(v), task'[v] = task[v],
           h = task[v].home, n = task[v].new,
           row'[h] = row[h] \/ ~row'[h].live,
           task[v].pc = "cache" /\ row[h].live /\ Takes(v)'
               => Takes(v) /\ (Held(n)' => Held(n))
    PROVE  Kept(v)'
  <1>1. CASE ~row'[h].live
    BY <1>1 DEF Kept
  <1>2. CASE row'[h] = row[h] /\ task[v].pc # "cache"
    BY <1>2 DEF Kept, Good
  <1>3. CASE row'[h] = row[h] /\ task[v].pc = "cache"
    <2>1. /\ task[v].pc \in Presenting => /\ task[v].pc \notin {"reissue", "regrace"}
          /\ task[v].pc \in Presenting /\ task[v].pc \notin Refreshing
      BY <1>3 DEF Kept, Presenting, Refreshing
    <2>2. ASSUME row[h].live
          PROVE  /\ task[v].tok # row[h].cur
                 /\ Takes(v)' => row[h].cur = n /\ ~(Held(n)')
                 /\ row[h].grace /\ row[h].prev = task[v].tok => row[h].cur = n
      BY <1>3, <2>1, <2>2 DEF Kept
    <2>3. Held(task[v].new)' <=> Held(n)'
      BY DEF Held
    <2> QED
      BY <1>3, <2>1, <2>2, <2>3 DEF Kept
  <1> QED
    BY <1>1, <1>2, <1>3

\* What most steps do to what the rows and the devices agree on: nothing.
LEMMA Quiet ==
    ASSUME Known, Parted, NEW w, RowsDeletedOnly, DevicesLose(w), OnlyTask(w),
           cache' = cache,
           w \in Workers => Kept(w)',
           w \in Workers /\ task'[w].pc \in Refreshing
               => \A t \in {task'[w].tok} : Held(t)
    PROVE  Parted'
  <1>1. ASSUME NEW t, t # 0, Held(t)' PROVE Held(t)
    <2>1. CASE \E d \in Devices : device'[d].tok = t
      BY <1>1, <2>1 DEF DevicesLose, Held
    <2>2. CASE \E v \in Workers : task'[v].pc \in Refreshing /\ task'[v].tok = t
      <3>1. PICK v \in Workers : task'[v].pc \in Refreshing /\ task'[v].tok = t
        BY <2>2
      <3>2. CASE v = w
        BY <3>1, <3>2
      <3>3. CASE v # w
        BY <3>1, <3>3 DEF OnlyTask, Held
      <3> QED
        BY <3>2, <3>3
    <2> QED
      BY <1>1, <2>1, <2>2 DEF Held
  <1>2. ASSUME NEW d \in Devices PROVE DeviceSound(d)'
    <2>1. device[d].tok # 0 => device[d].s \in Sessions
      BY Places
    <2>2. DeviceSound(d)
      BY DEF Parted
    <2> QED
      BY <2>1, <2>2 DEF DevicesLose, RowsDeletedOnly, DeviceSound, Good
  <1>3. ASSUME NEW v \in Workers PROVE Kept(v)'
    <2>1. CASE v = w
      BY <2>1
    <2>2. CASE v # w
      <3>1. task'[v] = task[v] /\ Kept(v)
        BY <2>2 DEF OnlyTask, Parted
      <3>2. CASE task[v].pc \notin Presenting
        BY <3>1, <3>2 DEF Kept
      <3>3. CASE task[v].pc \in Presenting
        <4>1. PICK h : h = task[v].home
          OBVIOUS
        <4>2. PICK n : n = task[v].new
          OBVIOUS
        <4>3. h \in Sessions /\ task[v].d \in Devices
          BY <3>3, <4>1, Places
        <4>4. row'[h] = row[h] \/ ~row'[h].live
          BY <4>3 DEF RowsDeletedOnly
        <4>5. Takes(v)' => Takes(v)
          <5>1. device'[task[v].d].wait \in {device[task[v].d].wait, NoWorker, w}
            BY <4>3 DEF DevicesLose
          <5> QED
            BY <2>2, <3>1, <5>1, WorkersAssumption DEF Takes
        <4>6. task[v].pc = "cache" => n # 0
          <5>1. TaskOwned(v)
            BY KnownParts DEF TasksOwned
          <5> QED
            BY <4>2, <5>1 DEF TaskOwned
        <4> QED
          BY <1>1, <3>1, <4>1, <4>2, <4>4, <4>5, <4>6, KeptStays
      <3> QED
        BY <3>2, <3>3
    <2> QED
      BY <2>1, <2>2
  <1>4. ASSUME NEW s \in Sessions PROVE RowSound(s)'
    BY DEF RowsDeletedOnly, RowSound, Parted
  <1> QED
    BY <1>2, <1>3, <1>4 DEF Parted

\* A task that presents no token has nothing to keep.
LEMMA Idles ==
    ASSUME NEW w \in Workers, task'[w].pc \notin Presenting
    PROVE  Kept(w)' /\ task'[w].pc \notin Refreshing
  BY DEF Kept, Presenting

LEMMA AnswersLose ==
    ASSUME Known, NEW w \in Workers, task[w].pc # "idle",
           Refused(w) \/ Busy(w)
    PROVE  DevicesLose(w) /\ OnlyTask(w) /\ task'[w].pc \notin Presenting
  <1>1. device \in [Devices -> Device] /\ task \in [Workers -> Task] /\ TaskOwned(w)
    BY KnownParts DEF DevicesOwned, TasksOwned
  <1>2. task[w].d \in Devices
    BY <1>1 DEF TaskOwned
  <1>3. OnlyTask(w) /\ task'[w] = IdleTask
    BY <1>1 DEF Refused, Busy, Answer, End, OnlyTask
  <1>4. DevicesLose(w)
    BY <1>1, <1>2 DEF Refused, Busy, Answer, DevicesLose
  <1> QED
    BY <1>3, <1>4 DEF IdleTask, Presenting, Refreshing

-----------------------------------------------------------------------------
(* Signing in, and the requests that end a session.                        *)

LEMMA SignInSound ==
    ASSUME Known, Parted, NEW w \in Workers, NEW d \in Devices, SignIn(w, d)
    PROVE  Parted'
  <1>1. [IdleTask EXCEPT !.pc = "count", !.d = d].pc = "count"
    BY IdleIsTask DEF Task
  <1>2. task'[w].pc = "count" /\ OnlyTask(w)
    BY <1>1, KnownParts DEF SignIn, TasksOwned, OnlyTask
  <1>3. task'[w].pc \notin Presenting
    BY <1>2 DEF Presenting, Refreshing
  <1>4. DevicesLose(w)
    BY KnownParts DEF SignIn, DevicesOwned, Device, DevicesLose
  <1> QED
    BY <1>2, <1>3, <1>4, Idles, Quiet DEF SignIn, RowsDeletedOnly

LEMMA EnforceSound ==
    ASSUME Known, Parted, NEW w \in Workers,
           countUserSessions(w) \/ findOldestSession(w) \/ evictOldest(w)
    PROVE  Parted'
  <1>1. task[w] \in Task /\ task \in [Workers -> Task] /\ row \in [Sessions -> Row]
    BY KnownParts DEF TasksOwned, RowsOwned
  <1>2. /\ cache' = cache /\ RowsDeletedOnly
    BY <1>1 DEF countUserSessions, findOldestSession, evictOldest, RowsDeletedOnly,
                NoRow
  <1>3. CASE ~Busy(w)
    <2>1. /\ device' = device
          /\ \/ \E p \in {"oldest", "create"} : Goto(w, p)
             \/ \E s \in Live : task' = [task EXCEPT ![w].pc = "evict", ![w].s = s]
      BY <1>3 DEF countUserSessions, findOldestSession, evictOldest
    <2>2. task'[w].pc \in {"oldest", "create", "evict"} /\ OnlyTask(w)
      BY <1>1, <2>1 DEF Goto, Task, OnlyTask
    <2>3. task'[w].pc \notin Presenting
      BY <2>2 DEF Presenting, Refreshing
    <2>4. DevicesLose(w)
      BY <2>1 DEF DevicesLose
    <2> QED
      BY <1>2, <2>2, <2>3, <2>4, Idles, Quiet
  <1>4. CASE Busy(w)
    <2>1. task[w].pc # "idle"
      BY DEF countUserSessions, findOldestSession, evictOldest
    <2> QED
      BY <1>2, <1>4, <2>1, AnswersLose, Idles, Quiet
  <1> QED
    BY <1>3, <1>4

\* The steps after which the worker is idle and no device has a new token.
LEMMA EndingSound ==
    ASSUME Known, Parted, NEW w \in Workers,
           \/ dropExpired(w) \/ logout(w) \/ deleteOthers(w) \/ Abandon(w)
           \/ revokeOnReuse(w)
    PROVE  Parted'
  <1>1. task \in [Workers -> Task] /\ row \in [Sessions -> Row]
    BY KnownParts DEF TasksOwned, RowsOwned
  <1>2. cache' = cache /\ RowsDeletedOnly
    BY <1>1 DEF dropExpired, logout, deleteOthers, Abandon, revokeOnReuse,
                RowsDeletedOnly, NoRow
  <1>3. CASE End(w) /\ UNCHANGED device
    <2>1. task'[w] = IdleTask /\ OnlyTask(w) /\ DevicesLose(w)
      BY <1>1, <1>3 DEF End, OnlyTask, DevicesLose
    <2>2. task'[w].pc \notin Presenting
      BY <2>1 DEF IdleTask, Presenting, Refreshing
    <2> QED
      BY <1>2, <2>1, <2>2, Idles, Quiet
  <1>4. CASE revokeOnReuse(w)
    <2>1. Refused(w) /\ task[w].pc # "idle"
      BY <1>4 DEF revokeOnReuse
    <2> QED
      BY <1>2, <2>1, AnswersLose, Idles, Quiet
  <1> QED
    BY <1>3, <1>4 DEF dropExpired, logout, deleteOthers, Abandon

LEMMA SendingSound ==
    ASSUME Known, Parted, NEW w \in Workers, NEW d \in Devices,
           SignOut(w, d) \/ RevokeOthers(w, d) \/ Refresh(w, d)
    PROVE  Parted'
  <1>1. PICK pc \in {"logout", "keep", "find"} :
          /\ Send(w, d, pc)
          /\ pc = "find" => Refresh(w, d)
    BY DEF SignOut, RevokeOthers, Refresh
  <1> DEFINE t == [IdleTask EXCEPT !.pc = pc, !.d = d, !.home = device[d].s,
                                   !.tok = device[d].tok]
  <1>2. /\ task'[w].pc = pc /\ task'[w].home = device[d].s
        /\ task'[w].tok = device[d].tok /\ OnlyTask(w)
    <2>1. t.pc = pc /\ t.home = device[d].s /\ t.tok = device[d].tok
      BY IdleIsTask DEF Task
    <2> QED
      BY <1>1, <2>1, KnownParts DEF Send, TasksOwned, OnlyTask
  <1>3. DevicesLose(w)
    BY KnownParts DEF SignOut, RevokeOthers, Refresh, DevicesOwned, Device, DevicesLose
  <1>4. row' = row /\ cache' = cache /\ device[d].tok # 0
    BY DEF SignOut, RevokeOthers, Refresh
  <1>5. Kept(w)'
    <2>1. CASE pc # "find"
      <3>1. task'[w].pc \notin Presenting
        BY <1>2, <2>1 DEF Presenting, Refreshing
      <3> QED
        BY <3>1, Idles
    <2>2. CASE pc = "find"
      <3>1. row[device[d].s].live => Good(device[d].s, device[d].tok)
        BY <1>4 DEF Parted, DeviceSound
      <3> QED
        BY <1>2, <1>4, <2>2, <3>1 DEF Kept, Good
    <2> QED
      BY <2>1, <2>2
  <1>6. \A u \in {task'[w].tok} : Held(u)
    BY <1>2 DEF Held
  <1> QED
    BY <1>2, <1>3, <1>4, <1>5, <1>6, Quiet DEF RowsDeletedOnly

LEMMA FindKeepSound ==
    ASSUME Known, Parted, NEW w \in Workers, findKeep(w)
    PROVE  Parted'
  <1>1. task[w] \in Task /\ task \in [Workers -> Task]
    BY KnownParts DEF TasksOwned
  <1>2. task'[w].pc \in {"others", "idle"} /\ OnlyTask(w)
    <2>1. CASE End(w)
      BY <1>1, <2>1 DEF End, IdleTask, OnlyTask
    <2>2. ASSUME NEW s, task' = [task EXCEPT ![w].pc = "others", ![w].s = s]
          PROVE  task'[w].pc \in {"others", "idle"} /\ OnlyTask(w)
      BY <1>1, <2>2 DEF Task, OnlyTask
    <2> QED
      BY <2>1, <2>2 DEF findKeep
  <1>3. task'[w].pc \notin Presenting
    BY <1>2 DEF Presenting, Refreshing
  <1> QED
    BY <1>2, <1>3, Idles, Quiet DEF findKeep, RowsDeletedOnly, DevicesLose

\* What nobody asked for: deletions, expiry, and answers given up.
LEMMA AloneSound ==
    ASSUME Known, Parted,
           \/ deleteAllSessions \/ \E s \in Sessions : revokeSession(s)
           \/ \E d \in Devices : GiveUp(d)
    PROVE  Parted'
  <1>1. RowsDeletedOnly /\ cache' = cache /\ task' = task
    BY KnownParts DEF deleteAllSessions, revokeSession, GiveUp, RowsOwned,
                      RowsDeletedOnly, NoRow
  <1>2. DevicesLose(NoWorker)
    BY KnownParts DEF deleteAllSessions, revokeSession, GiveUp, DevicesOwned, Device,
                      DevicesLose
  <1> QED
    BY <1>1, <1>2, Quiet, WorkersAssumption DEF OnlyTask

LEMMA ExpiresSound ==
    ASSUME Known, Parted, NEW s \in Sessions, Expires(s)
    PROVE  Parted'
  <1>1. /\ \A o \in Sessions : /\ row'[o].live = row[o].live
                               /\ row'[o].cur = row[o].cur
                               /\ row'[o].prev = row[o].prev
                               /\ row'[o].grace = row[o].grace
        /\ UNCHANGED <<cache, task, device>>
    <2>1. row \in [Sessions -> Row] /\ row[s] \in Row
      BY KnownParts DEF RowsOwned
    <2> QED
      BY <2>1 DEF Expires, Row
  <1>2. \A d \in Devices : DeviceSound(d)'
    BY <1>1, Places DEF Parted, DeviceSound, Good
  <1>3. ASSUME NEW w \in Workers PROVE Kept(w)'
    <2>1. task[w].pc \in Presenting => task[w].home \in Sessions
      BY Places
    <2>2. Kept(w)
      BY DEF Parted
    <2> QED
      BY <1>1, <2>1, <2>2 DEF Kept, Good, Takes, Held
  <1>4. \A o \in Sessions : RowSound(o)'
    BY <1>1 DEF Parted, RowSound
  <1> QED
    BY <1>2, <1>3, <1>4 DEF Parted

LEMMA GraceEndsSound ==
    ASSUME Known, Parted, NEW s \in Sessions, GraceEnds(s), ~strained'
    PROVE  Parted'
  <1>0. row \in [Sessions -> Row] /\ row[s] \in Row /\ cache \in [Tokens -> Nat]
    BY KnownParts DEF RowsOwned, EntriesOwned
  <1>1. /\ \A o \in Sessions : /\ row'[o].live = row[o].live
                               /\ row'[o].cur = row[o].cur
                               /\ row'[o].prev = row[o].prev
                               /\ row'[o].grace => row[o].grace
                               /\ o # s => row'[o] = row[o]
        /\ UNCHANGED <<task, device>>
    BY <1>0 DEF GraceEnds, Row
  <1>2. ~Held(row[s].prev)
    BY DEF GraceEnds
  <1>3. ASSUME NEW d \in Devices PROVE DeviceSound(d)'
    <2>1. device[d].tok # 0 => device[d].s \in Sessions
      BY Places
    <2>2. DeviceSound(d) /\ device[d].tok # row[s].prev
      BY <1>2 DEF Parted, Held
    <2> QED
      BY <1>1, <2>1, <2>2 DEF DeviceSound, Good
  <1>4. ASSUME NEW w \in Workers PROVE Kept(w)'
    <2>1. task[w].pc \in Presenting => task[w].home \in Sessions
      BY Places
    <2>2. Kept(w) /\ (task[w].pc \in Refreshing => task[w].tok # row[s].prev)
      BY <1>2 DEF Parted, Held
    <2>3. task'[w] = task[w] /\ (Takes(w)' <=> Takes(w))
      BY <1>1 DEF Takes
    <2>4. Held(task[w].new)' <=> Held(task[w].new)
      BY <1>1 DEF Held
    <2> QED
      BY <1>1, <2>1, <2>2, <2>3, <2>4 DEF Kept, Good
  <1>5. ASSUME NEW o \in Sessions PROVE RowSound(o)'
    <2>1. \A t \in Tokens : cache'[t] \in {cache[t], 0}
      BY <1>0 DEF GraceEnds
    <2>2. row[o].live => row[o].cur \in Tokens
      <3>1. RowOwned(o) /\ minted \in 0..MaxTokens
        BY KnownParts DEF RowsOwned
      <3> QED
        BY <3>1, BoundsAssumption DEF RowOwned, Tokens
    <2>3. row[o].live /\ row[o].grace => row[o].prev \in Tokens
      <3>1. RowOwned(o) /\ minted \in 0..MaxTokens /\ row[o] \in Row
        BY KnownParts DEF RowsOwned
      <3> QED
        BY <3>1, BoundsAssumption DEF RowOwned, Tokens, Row
    <2> QED
      BY <1>1, <2>1, <2>2, <2>3 DEF Parted, RowSound
  <1> QED
    BY <1>3, <1>4, <1>5 DEF Parted

-----------------------------------------------------------------------------
(* Refreshing.                                                             *)

\* The task is at p, with its token and the session it was sent for.
At(w, p) ==
    /\ task'[w].pc = p /\ task'[w].tok = task[w].tok
    /\ task'[w].home = task[w].home /\ task'[w].d = task[w].d
    /\ OnlyTask(w)

LEMMA Finding ==
    ASSUME Known, Parted, NEW w \in Workers, task[w].pc \in {"find", "refind"},
           UNCHANGED <<row, cache, device>>, NEW p,
           At(w, p), p \in {"revoke", "rotate", "refind", "poll"},
           \A h \in {task[w].home} : row[h].live =>
               /\ p # "revoke"
               /\ p \in {"refind", "poll"} => task[w].tok # row[h].cur
    PROVE  Parted'
  <1>1. PICK h : h = task[w].home
    OBVIOUS
  <1>2. Kept(w) /\ task[w].pc \in Refreshing /\ task[w].pc \in Presenting
    BY DEF Parted, Refreshing, Presenting
  <1>3. row[h].live => Good(h, task[w].tok)
    BY <1>1, <1>2 DEF Kept
  <1>4. Kept(w)'
    BY <1>1, <1>3 DEF Kept, Good, At
  <1>5. Held(task[w].tok)
    BY <1>2 DEF Held
  <1> QED
    BY <1>4, <1>5, Quiet DEF At, RowsDeletedOnly, DevicesLose

\* A row of the token that is there is the session the task was sent for.
LEMMA Missed ==
    ASSUME Known, Parted, NEW w \in Workers, task[w].pc \in {"find", "refind"}
    PROVE  /\ \A h \in {task[w].home} : row[h].live =>
                /\ h \in Match(task[w].tok)
                /\ task[w].tok # row[h].cur => row[h].grace
           /\ \A s \in Match(task[w].tok) : s = task[w].home
  <1>1. PICK h : h = task[w].home
    OBVIOUS
  <1>2. Kept(w) /\ task[w].pc \in Refreshing /\ task[w].pc \in Presenting
    BY DEF Parted, Refreshing, Presenting
  <1>3. row[h].live => Good(h, task[w].tok)
    BY <1>1, <1>2 DEF Kept
  <1>4. h \in Sessions
    BY <1>1, <1>2, Places
  <1> QED
    BY <1>1, <1>2, <1>3, <1>4, MatchIsHome DEF Match, Live, Good

LEMMA ExpiredSound ==
    ASSUME Known, Parted, NEW w \in Workers, task[w].pc \in {"find", "refind"},
           NEW s, SessionExpired(w, s), UNCHANGED <<row, cache>>
    PROVE  Parted'
  <1>1. task[w] \in Task /\ task \in [Workers -> Task] /\ TaskOwned(w)
        /\ device \in [Devices -> Device]
    BY KnownParts DEF TasksOwned, DevicesOwned
  <1>2. task'[w].pc = "drop" /\ OnlyTask(w)
    BY <1>1 DEF SessionExpired, Task, OnlyTask
  <1>3. task'[w].pc \notin Presenting
    BY <1>2 DEF Presenting, Refreshing
  <1>4. DevicesLose(w)
    BY <1>1 DEF SessionExpired, DevicesLose, SignedOut, TaskOwned
  <1> QED
    BY <1>2, <1>3, <1>4, Idles, Quiet DEF RowsDeletedOnly

LEMMA GraceSound ==
    ASSUME Known, Parted, NEW w \in Workers, task[w].pc \in {"find", "refind"},
           NEW s \in Match(task[w].tok), WithinGrace(w, s), UNCHANGED <<row, cache>>,
           task[w].tok # row[s].cur
    PROVE  Parted'
  <1>1. task[w] \in Task /\ task \in [Workers -> Task]
    BY KnownParts DEF TasksOwned
  <1>2. s = task[w].home
    BY Missed
  <1>3. CASE row[s].live
    <2>1. row[s].grace
      BY <1>2, <1>3, Missed
    <2>2. task' = [task EXCEPT ![w].pc = "poll", ![w].s = s, ![w].cur = row[s].cur]
      BY <2>1 DEF WithinGrace
    <2>3. At(w, "poll")
      BY <1>1, <2>2 DEF At, Task, OnlyTask
    <2> QED
      BY <1>2, <2>3, Finding DEF WithinGrace
  <1>4. CASE ~row[s].live
    BY <1>4 DEF Match, Live
  <1> QED
    BY <1>3, <1>4

LEMMA FindSound ==
    ASSUME Known, Parted, NEW w \in Workers, find(w)
    PROVE  Parted'
  <1>1. task[w] \in Task /\ task \in [Workers -> Task] /\ task[w].pc = "find"
        /\ UNCHANGED <<row, cache>>
    BY KnownParts DEF TasksOwned, find
  <1>2. CASE Match(task[w].tok) = {} /\ Goto(w, "revoke") /\ UNCHANGED device
    <2>1. At(w, "revoke")
      BY <1>1, <1>2 DEF Goto, At, Task, OnlyTask
    <2> QED
      BY <1>1, <1>2, <2>1, Missed, Finding
  <1>3. ASSUME NEW s \in Match(task[w].tok), SessionExpired(w, s) PROVE Parted'
    BY <1>1, <1>3, ExpiredSound
  <1>4. ASSUME NEW s \in Match(task[w].tok), UNCHANGED device,
               task' = [task EXCEPT ![w].pc = "rotate", ![w].s = s,
                                    ![w].cur = row[s].cur]
        PROVE  Parted'
    <2>1. At(w, "rotate")
      BY <1>1, <1>4 DEF At, Task, OnlyTask
    <2> QED
      BY <1>1, <1>4, <2>1, Finding
  <1>5. ASSUME NEW s \in Match(task[w].tok), row[s].cur # task[w].tok,
               WithinGrace(w, s)
        PROVE  Parted'
    BY <1>1, <1>5, GraceSound
  <1> QED
    BY <1>2, <1>3, <1>4, <1>5 DEF find

LEMMA RefindSound ==
    ASSUME Known, Parted, NEW w \in Workers, refind(w)
    PROVE  Parted'
  <1>1. task[w].pc = "refind" /\ UNCHANGED <<row, cache>>
    BY DEF refind
  <1>2. CASE Refused(w)
    BY <1>1, <1>2, AnswersLose, Idles, Quiet DEF RowsDeletedOnly
  <1>3. ASSUME NEW s \in Match(task[w].tok), SessionExpired(w, s) PROVE Parted'
    BY <1>1, <1>3, ExpiredSound
  <1>4. ASSUME NEW s \in Match(task[w].tok), WithinGrace(w, s) PROVE Parted'
    <2>1. Kept(w) /\ s = task[w].home /\ row[s].live
      BY <1>1, Missed DEF Parted, Match, Live
    <2>2. task[w].tok # row[s].cur
      BY <1>1, <2>1 DEF Kept, Presenting, Refreshing
    <2> QED
      BY <1>1, <1>4, <2>2, GraceSound
  <1> QED
    BY <1>2, <1>3, <1>4 DEF refind

\* An answer with a token of the session, while another device waits for its own.
LEMMA AnsweredElsewhere ==
    ASSUME Known, NEW w \in Workers, task[w].pc # "idle", NEW tok, NEW s,
           Answer(w, tok, s),
           tok = 0 \/ tok > minted \/ owner[tok].d = task[w].d,
           NEW v \in Workers \ {w}, task[v].pc = "cache", Takes(v)', NEW n,
           n = task[v].new
    PROVE  Takes(v) /\ (Held(n)' => Held(n))
  <1>1. device \in [Devices -> Device] /\ task \in [Workers -> Task]
        /\ TaskOwned(w) /\ TaskOwned(v)
    BY KnownParts DEF DevicesOwned, TasksOwned
  <1>2. task[w].d \in Devices /\ task[v].d \in Devices /\ v # NoWorker
    BY <1>1, WorkersAssumption DEF TaskOwned
  <1>3. /\ n \in 1..minted /\ owner[n].d = task[v].d
    BY <1>1 DEF TaskOwned
  <1>4. task'[v] = task[v] /\ OnlyTask(w) /\ task'[w].pc = "idle"
    BY <1>1 DEF Answer, End, OnlyTask, IdleTask
  <1>5. CASE ~Takes(w)
    <2>1. device' = device
      BY <1>5 DEF Answer
    <2> QED
      BY <1>4, <2>1 DEF Takes, Held, OnlyTask, Refreshing
  <1>6. CASE Takes(w)
    <2>1. /\ device'[task[w].d] = [tok |-> tok, s |-> s, wait |-> NoWorker]
          /\ \A e \in Devices \ {task[w].d} : device'[e] = device[e]
      BY <1>1, <1>2, <1>6 DEF Answer
    <2>2. task[v].d # task[w].d
      BY <1>2, <1>4, <2>1 DEF Takes
    <2>3. tok # n
      BY <1>3, <2>2, BoundsAssumption, KnownParts
    <2> QED
      BY <1>2, <1>4, <2>1, <2>2, <2>3 DEF Takes, Held, OnlyTask, Refreshing
  <1> QED
    BY <1>5, <1>6

LEMMA OthersKeptAfterAnswer ==
    ASSUME Known, Parted, NEW w \in Workers, task[w].pc # "idle", NEW tok, NEW s,
           Answer(w, tok, s), tok = 0 \/ tok > minted \/ owner[tok].d = task[w].d,
           NEW v \in Workers \ {w},
           \A h \in Sessions : h <= made => row'[h] = row[h]
    PROVE  Kept(v)'
  <1>1. task'[v] = task[v] /\ Kept(v) /\ TaskOwned(v) /\ made \in Nat
    BY KnownParts, BoundsAssumption DEF TasksOwned, Answer, End, Parted
  <1>2. CASE task[v].pc \notin Presenting
    BY <1>1, <1>2 DEF Kept
  <1>3. CASE task[v].pc \in Presenting
    <2>1. PICK h : h = task[v].home
      OBVIOUS
    <2>2. PICK n : n = task[v].new
      OBVIOUS
    <2>3. row'[h] = row[h]
      BY <1>1, <1>3, <2>1, Places DEF TaskOwned
    <2> QED
      BY <1>1, <2>1, <2>2, <2>3, AnsweredElsewhere, KeptStays
  <1> QED
    BY <1>2, <1>3

LEMMA PollSound ==
    ASSUME Known, Parted, NEW w \in Workers, pollCache(w), ~strained'
    PROVE  Parted'
  <1>1. /\ task[w].pc = "poll" /\ Cached(w) /\ UNCHANGED <<row, cache>>
        /\ Answer(w, cache[task[w].tok], task[w].s)
    BY DEF pollCache
  <1>2. /\ device \in [Devices -> Device] /\ task \in [Workers -> Task]
        /\ task[w] \in Task /\ TaskOwned(w) /\ minted \in 0..MaxTokens
    BY KnownParts DEF DevicesOwned, TasksOwned
  <1>3. PICK t : t = cache[task[w].tok]
    OBVIOUS
  <1>4. PICK h : h = task[w].home
    OBVIOUS
  <1>5. /\ task[w].s = h /\ task[w].tok # 0 /\ task[w].tok <= minted
        /\ h \in Sessions /\ task[w].d \in Devices
    BY <1>1, <1>2, <1>4, Places DEF TaskOwned, Presenting, Refreshing, Reading
  <1>6. task[w].tok \in Tokens /\ owner[task[w].tok] = [s |-> h, d |-> task[w].d]
    BY <1>2, <1>4, <1>5, BoundsAssumption DEF Task, TaskOwned, Tokens
  <1>7. owner[t].d = task[w].d
    <2>1. CacheOwned(task[w].tok)
      BY <1>6, KnownParts DEF EntriesOwned
    <2> QED
      BY <1>1, <1>3, <1>6, <2>1 DEF CacheOwned, Cached
  <1>8. row[h].live => Good(h, t)
    <2>1. Kept(w) /\ RowSound(h)
      BY <1>5 DEF Parted
    <2>2. row[h].live => task[w].tok = row[h].prev /\ row[h].grace
      BY <1>1, <1>4, <2>1 DEF Kept, Presenting, Refreshing, Good
    <2> QED
      BY <1>1, <1>3, <2>1, <2>2 DEF RowSound, Cached, Good
  <1>9. Answer(w, t, h)
    BY <1>1, <1>3, <1>5
  <1>10. ASSUME NEW d \in Devices PROVE DeviceSound(d)'
    <2>1. DeviceSound(d)
      BY DEF Parted
    <2>2. \/ device'[d].tok = device[d].tok /\ device'[d].s = device[d].s
          \/ device'[d].tok = t /\ device'[d].s = h
      BY <1>2, <1>5, <1>9 DEF Answer
    <2> QED
      BY <1>1, <1>8, <2>1, <2>2 DEF DeviceSound, Good
  <1>11. ASSUME NEW v \in Workers PROVE Kept(v)'
    <2>1. CASE v = w
      <3>1. task'[w].pc \notin Presenting
        BY <1>2, <1>9 DEF Answer, End, IdleTask, Presenting, Refreshing
      <3> QED
        BY <2>1, <3>1, Idles
    <2>2. CASE v # w
      BY <1>1, <1>7, <1>9, <2>2, OthersKeptAfterAnswer
    <2> QED
      BY <2>1, <2>2
  <1>12. \A s \in Sessions : RowSound(s)'
    BY <1>1 DEF Parted, RowSound
  <1> QED
    BY <1>10, <1>11, <1>12 DEF Parted

\* The pair of a rotation reaches its device, and the cache if Redis is up.
LEMMA CachePairSound ==
    ASSUME Known, Parted, NEW w \in Workers, cacheGracePair(w)
    PROVE  Parted'
  <1>1. /\ task[w].pc = "cache" /\ row' = row
        /\ cache' \in {cache, [cache EXCEPT ![task[w].tok] = task[w].new]}
        /\ Answer(w, task[w].new, task[w].s)
    BY DEF cacheGracePair
  <1>2. /\ device \in [Devices -> Device] /\ task \in [Workers -> Task]
        /\ task[w] \in Task /\ TaskOwned(w) /\ cache \in [Tokens -> Nat]
        /\ minted \in 0..MaxTokens
    BY KnownParts DEF DevicesOwned, TasksOwned, EntriesOwned
  <1>3. PICK n : n = task[w].new
    OBVIOUS
  <1>4. PICK h : h = task[w].home
    OBVIOUS
  <1>5. PICK t : t = task[w].tok
    OBVIOUS
  <1>6. /\ task[w].s = h /\ h \in Sessions /\ task[w].d \in Devices
        /\ owner[n].d = task[w].d /\ n \in 1..minted
        /\ t # 0 /\ owner[t].s = h
    BY <1>1, <1>2, <1>3, <1>4, <1>5, Places DEF TaskOwned, Presenting, Reading
  <1>7. Answer(w, n, h)
    BY <1>1, <1>3, <1>6
  <1>8. row[h].live =>
            /\ t # row[h].cur
            /\ Takes(w) => row[h].cur = n
            /\ row[h].grace /\ row[h].prev = t => row[h].cur = n
    <2>1. Kept(w)
      BY DEF Parted
    <2> QED
      BY <1>1, <1>3, <1>4, <1>5, <2>1 DEF Kept, Presenting
  <1>9. ASSUME NEW d \in Devices PROVE DeviceSound(d)'
    <2>1. DeviceSound(d)
      BY DEF Parted
    <2>2. \/ device'[d].tok = device[d].tok /\ device'[d].s = device[d].s
          \/ Takes(w) /\ device'[d].tok = n /\ device'[d].s = h
      BY <1>2, <1>6, <1>7 DEF Answer
    <2> QED
      BY <1>1, <1>8, <2>1, <2>2 DEF DeviceSound, Good
  <1>10. ASSUME NEW v \in Workers PROVE Kept(v)'
    <2>1. CASE v = w
      <3>1. task'[w].pc \notin Presenting
        BY <1>2, <1>7 DEF Answer, End, IdleTask, Presenting, Refreshing
      <3> QED
        BY <2>1, <3>1, Idles
    <2>2. CASE v # w
      BY <1>1, <1>6, <1>7, <2>2, OthersKeptAfterAnswer
    <2> QED
      BY <2>1, <2>2
  <1>11. ASSUME NEW s \in Sessions PROVE RowSound(s)'
    <2>1. CASE row[s].live
      <3>1. RowOwned(s) /\ row[s] \in Row
        BY KnownParts DEF RowsOwned
      <3>2. /\ row[s].cur \in Tokens /\ owner[row[s].cur].s = s
            /\ row[s].prev # 0 => row[s].prev \in Tokens /\ owner[row[s].prev].s = s
        BY <1>2, <2>1, <3>1, BoundsAssumption DEF RowOwned, Tokens, Row
      <3>3. row[s].cur # t
        BY <1>6, <1>8, <2>1, <3>2
      <3>4. RowSound(s)
        BY DEF Parted
      <3>5. cache'[row[s].cur] = 0
        BY <1>1, <1>2, <1>5, <2>1, <3>2, <3>3, <3>4 DEF RowSound
      <3>6. ASSUME row[s].grace, cache'[row[s].prev] # 0
            PROVE  cache'[row[s].prev] = row[s].cur
        <4>1. row[s].prev \in Tokens
          BY <3>1, <3>2, <3>6, <2>1 DEF RowOwned
        <4>2. CASE row[s].prev = t /\ cache' # cache
          <5>1. s = h
            BY <1>6, <3>1, <3>2, <4>1, <4>2
          <5> QED
            BY <1>1, <1>2, <1>3, <1>5, <1>8, <2>1, <3>6, <4>1, <4>2, <5>1
        <4>3. CASE row[s].prev # t \/ cache' = cache
          BY <1>1, <1>2, <1>5, <2>1, <3>4, <3>6, <4>1, <4>3 DEF RowSound
        <4> QED
          BY <4>2, <4>3
      <3> QED
        BY <1>1, <3>5, <3>6 DEF RowSound
    <2>2. CASE ~row[s].live
      BY <1>1, <2>2 DEF RowSound
    <2> QED
      BY <2>1, <2>2
  <1> QED
    BY <1>9, <1>10, <1>11 DEF Parted

LEMMA LoginSound ==
    ASSUME Known, Parted, NEW w \in Workers, loginTransaction(w)
    PROVE  Parted'
  <1>1. /\ task[w].pc = "create" /\ cache' = cache
        /\ row' = [row EXCEPT ![made + 1] = [NoRow EXCEPT !.live = TRUE,
                                                          !.cur = minted + 1]]
        /\ made + 1 \in Sessions
    BY BoundsAssumption, KnownParts DEF loginTransaction, Sessions
  <1>2. /\ device \in [Devices -> Device] /\ task \in [Workers -> Task]
        /\ row \in [Sessions -> Row] /\ TaskOwned(w) /\ cache \in [Tokens -> Nat]
        /\ minted \in Nat /\ made \in Nat
    BY KnownParts, BoundsAssumption DEF DevicesOwned, TasksOwned, EntriesOwned, RowsOwned
  <1>3. PICK n : n = minted + 1
    OBVIOUS
  <1>4. PICK m : m = made + 1
    OBVIOUS
  <1>5. Answer(w, n, m) /\ task[w].d \in Devices /\ n \in Tokens /\ n > minted
    <2>1. minted < MaxTokens
      BY DEF loginTransaction, Mint
    <2> QED
      BY <1>1, <1>2, <1>3, <1>4, <2>1, BoundsAssumption
         DEF loginTransaction, TaskOwned, Tokens
  <1>6. /\ row'[m].live /\ row'[m].cur = n /\ ~row'[m].grace
        /\ \A s \in Sessions \ {m} : row'[s] = row[s]
    BY <1>1, <1>2, <1>3, <1>4 DEF NoRow
  <1>7. ASSUME NEW d \in Devices PROVE DeviceSound(d)'
    <2>1. DeviceSound(d) /\ device[d].s <= made /\ device[d] \in Device
          /\ (device[d].tok # 0 => device[d].s \in Sessions)
      BY KnownParts, Places DEF Parted, DevicesOwned
    <2>2. CASE device'[d].tok = device[d].tok /\ device'[d].s = device[d].s
      <3>1. device[d].s # m
        BY <1>2, <1>4, <2>1 DEF Device
      <3> QED
        BY <1>6, <2>1, <2>2, <3>1 DEF DeviceSound, Good
    <2>3. CASE device'[d].tok = n /\ device'[d].s = m
      BY <1>6, <2>3 DEF DeviceSound, Good
    <2> QED
      BY <1>2, <1>5, <2>2, <2>3 DEF Answer
  <1>8. ASSUME NEW v \in Workers PROVE Kept(v)'
    <2>1. CASE v = w
      <3>1. task'[w].pc \notin Presenting
        BY <1>2, <1>5 DEF Answer, End, IdleTask, Presenting, Refreshing
      <3> QED
        BY <2>1, <3>1, Idles
    <2>2. CASE v # w
      <3>1. \A s \in Sessions : s <= made => row'[s] = row[s]
        BY <1>2, <1>4, <1>6 DEF Sessions
      <3> QED
        BY <1>1, <1>5, <2>2, <3>1, OthersKeptAfterAnswer
    <2> QED
      BY <2>1, <2>2
  <1>9. ASSUME NEW s \in Sessions PROVE RowSound(s)'
    <2>1. CASE s = m
      <3>1. CacheOwned(n)
        BY <1>5, KnownParts DEF EntriesOwned
      <3>2. cache[n] = 0
        BY <1>2, <1>3, <3>1 DEF CacheOwned
      <3> QED
        BY <1>1, <1>6, <2>1, <3>2 DEF RowSound
    <2>2. CASE s # m
      BY <1>1, <1>6, <2>2 DEF RowSound, Parted
    <2> QED
      BY <2>1, <2>2
  <1> QED
    BY <1>7, <1>8, <1>9 DEF Parted

\* The swap: what it replaces is in grace, and what that replaced is lost.
LEMMA RotateSound ==
    ASSUME Known, Parted, NEW w \in Workers, rotate(w), ~strained'
    PROVE  Parted'
  <1>1. /\ task[w].pc = "rotate" /\ UNCHANGED <<cache, device>>
        /\ device \in [Devices -> Device] /\ task \in [Workers -> Task]
        /\ task[w] \in Task /\ row \in [Sessions -> Row] /\ TaskOwned(w)
        /\ minted \in Nat
    BY KnownParts, BoundsAssumption DEF DevicesOwned, TasksOwned, RowsOwned, rotate
  <1>2. PICK h : h = task[w].home
    OBVIOUS
  <1>3. PICK t : t = task[w].tok
    OBVIOUS
  <1>4. /\ task[w].s = h /\ task[w].cur = t /\ h \in Sessions /\ t <= minted
        /\ t \in Nat /\ Held(t)
    BY <1>1, <1>2, <1>3, Places DEF TaskOwned, Presenting, Refreshing, Reading, Held,
                                    Task
  <1>5. Kept(w)
    BY DEF Parted
  <1>6. CASE ~Unchanged(w) /\ Goto(w, "refind") /\ row' = row
    <2>1. At(w, "refind")
      BY <1>1, <1>6 DEF Goto, At, Task, OnlyTask
    <2>2. row[h].live => t # row[h].cur
      BY <1>4, <1>6 DEF Unchanged
    <2>3. row[h].live => Good(h, t)
      BY <1>1, <1>2, <1>3, <1>5 DEF Kept, Presenting, Refreshing
    <2>4. Kept(w)'
      BY <1>2, <1>3, <1>6, <2>1, <2>2, <2>3 DEF Kept, At, Good
    <2> QED
      BY <1>1, <1>3, <1>4, <1>6, <2>1, <2>4, Quiet DEF At, RowsDeletedOnly, DevicesLose
  <1>7. CASE Unchanged(w) /\ row' = [row EXCEPT ![h] = Rotated(w, minted + 1)]
             /\ task' = [task EXCEPT ![w].pc = "cache", ![w].new = minted + 1]
             /\ strained' = (strained \/ (row[h].grace /\ Held(row[h].prev)))
    <2>1. PICK n : n = minted + 1
      OBVIOUS
    <2>2. /\ row[h].live /\ row[h].cur = t
          /\ row'[h].live /\ row'[h].cur = n /\ row'[h].prev = t /\ row'[h].grace
          /\ \A s \in Sessions \ {h} : row'[s] = row[s]
      BY <1>1, <1>3, <1>4, <1>7, <2>1 DEF Unchanged, Rotated
    <2>3. row[h].grace => ~Held(row[h].prev)
      BY <1>7
    <2>4. At(w, "cache") /\ task'[w].new = n
      BY <1>1, <1>7, <2>1 DEF At, Task, OnlyTask
    <2>5. ASSUME NEW u \in Nat, u # 0, Held(u)' PROVE Held(u) /\ u <= minted
      <3>1. Held(u)
        BY <1>1, <2>4, <2>5 DEF Held, At, OnlyTask, Refreshing
      <3>2. ASSUME NEW d \in Devices, device[d].tok = u PROVE u <= minted
        BY <2>5, <3>2, KnownParts DEF DevicesOwned, DeviceOwned
      <3>3. ASSUME NEW v \in Workers, task[v].tok = u PROVE u <= minted
        BY <2>5, <3>3, KnownParts DEF TasksOwned, TaskOwned
      <3> QED
        BY <3>1, <3>2, <3>3 DEF Held
    <2>6. ASSUME NEW d \in Devices PROVE DeviceSound(d)'
      <3>1. DeviceSound(d) /\ (device[d].tok # 0 => device[d].s \in Sessions)
        BY Places DEF Parted
      <3>2. row[h].grace => device[d].tok # row[h].prev
        BY <2>3 DEF Held
      <3> QED
        BY <1>1, <2>2, <3>1, <3>2 DEF DeviceSound, Good
    <2>7. ASSUME NEW v \in Workers PROVE Kept(v)'
      <3>1. CASE v = w
        <4>1. ~(Held(n)')
          BY <1>1, <2>1, <2>5
        <4>2. Held(task[w].new)' <=> Held(n)'
          BY <2>4 DEF Held
        <4>3. t # n
          BY <1>1, <1>4, <2>1
        <4> QED
          BY <1>2, <1>3, <2>2, <2>4, <3>1, <4>1, <4>2, <4>3
             DEF Kept, At, Presenting, Refreshing
      <3>2. CASE v # w
        <4>1. task'[v] = task[v] /\ Kept(v) /\ (Takes(v)' <=> Takes(v))
          BY <1>1, <2>4, <3>2 DEF At, OnlyTask, Parted, Takes
        <4>2. PICK k : k = task[v].home
          OBVIOUS
        <4>3. PICK q : q = task[v].new
          OBVIOUS
        <4>4. TaskOwned(v) /\ task[v] \in Task
          BY KnownParts DEF TasksOwned
        <4>5. CASE task[v].pc \notin Presenting
          BY <4>1, <4>5 DEF Kept
        <4>6. CASE task[v].pc \in Presenting /\ k # h
          <5>1. k \in Sessions /\ row'[k] = row[k]
            BY <2>2, <4>2, <4>6, Places
          <5>2. task[v].pc = "cache" => q \in Nat /\ q # 0
            BY <1>1, <4>3, <4>4 DEF TaskOwned, Task
          <5> QED
            BY <2>5, <4>1, <4>2, <4>3, <5>1, <5>2, KeptStays
        <4>7. CASE task[v].pc \in Presenting /\ k = h
          <5>1. task[v].tok \in Nat /\ task[v].tok <= minted
            BY <4>4, <4>7 DEF Task, TaskOwned
          <5>2. task[v].pc \in Refreshing
                => task[v].tok = t \/ ~row[h].grace \/ task[v].tok # row[h].prev
            BY <2>3 DEF Held
          <5>3. task[v].pc \in Refreshing => task[v].tok = t
            <6>1. ASSUME task[v].pc \in Refreshing PROVE task[v].tok = t
              <7>1. Good(h, task[v].tok)
                BY <2>2, <4>1, <4>2, <4>7, <6>1 DEF Kept
              <7>2. row[h].grace => task[v].tok # row[h].prev
                BY <2>3, <6>1 DEF Held
              <7> QED
                BY <2>2, <7>1, <7>2 DEF Good
            <6> QED
              BY <6>1
          <5>4. task[v].tok # n
            BY <1>1, <2>1, <5>1
          <5>5. task[v].pc = "cache" => ~Takes(v) /\ task[v].tok # t
            BY <1>4, <2>2, <4>1, <4>2, <4>7 DEF Kept
          <5>6. /\ task[v].pc \notin {"reissue", "regrace"}
                /\ task[v].pc # "revoke"
            BY <2>2, <4>1, <4>2, <4>7 DEF Kept
          <5> QED
            BY <2>2, <4>1, <4>2, <4>7, <5>3, <5>4, <5>5, <5>6 DEF Kept, Good
        <4> QED
          BY <4>5, <4>6, <4>7
      <3> QED
        BY <3>1, <3>2
    <2>8. ASSUME NEW s \in Sessions PROVE RowSound(s)'
      <3>1. CASE s = h
        <4>1. n \in Tokens
          BY <1>1, <1>7, <2>1, BoundsAssumption DEF rotate, Unchanged, Mint, Tokens,
                                                    Goto
        <4>2. CacheOwned(n)
          BY <4>1, KnownParts DEF EntriesOwned
        <4>3. cache[n] = 0
          BY <1>1, <2>1, <4>2 DEF CacheOwned
        <4>4. cache[t] = 0
          BY <1>4, <2>2 DEF Parted, RowSound
        <4> QED
          BY <1>1, <2>2, <3>1, <4>3, <4>4 DEF RowSound
      <3>2. CASE s # h
        BY <1>1, <2>2, <3>2 DEF RowSound, Parted
      <3> QED
        BY <3>1, <3>2
    <2> QED
      BY <2>6, <2>7, <2>8 DEF Parted
  <1> QED
    BY <1>4, <1>6, <1>7 DEF rotate

-----------------------------------------------------------------------------
(* The theorem.                                                            *)

LEMMA SoundStep ==
    ASSUME Agreed, Next
    PROVE  Sound'
  <1> SUFFICES ASSUME ~strained' PROVE Parted'
    BY SoundAssembled
  <1>1. Known /\ Sound
    BY DEF Agreed
  <1>2. ~strained
    BY DEF Next, Serve, Request, countUserSessions, findOldestSession, evictOldest,
           loginTransaction, find, rotate, refind, pollCache, reissue, regrace,
           cacheGracePair, revokeOnReuse, dropExpired, logout, findKeep, deleteOthers,
           SignIn, Refresh, SignOut, RevokeOthers, Abandon, GiveUp, revokeSession,
           GraceEnds, Expires, deleteAllSessions
  <1>3. Parted
    BY <1>1, <1>2 DEF Sound, Parted
  <1>4. ASSUME NEW w \in Workers, Serve(w) PROVE Parted'
    <2>1. ~reissue(w) /\ ~regrace(w)
      <3>1. Kept(w)
        BY <1>3 DEF Parted
      <3> QED
        BY <3>1 DEF Kept, reissue, regrace, Presenting, Refreshing
    <2> QED
      BY <1>1, <1>3, <1>4, <2>1, EnforceSound, LoginSound, FindSound, RotateSound,
         RefindSound, PollSound, CachePairSound, EndingSound, FindKeepSound DEF Serve
  <1>5. ASSUME NEW w \in Workers, NEW d \in Devices, Request(w, d) PROVE Parted'
    BY <1>1, <1>3, <1>5, SignInSound, SendingSound DEF Request
  <1>6. ASSUME NEW s \in Sessions, revokeSession(s) \/ GraceEnds(s) \/ Expires(s)
        PROVE  Parted'
    BY <1>1, <1>3, <1>6, AloneSound, GraceEndsSound, ExpiresSound
  <1> QED
    BY <1>1, <1>3, <1>4, <1>5, <1>6, EndingSound, AloneSound DEF Next

LEMMA SoundStutters ==
    ASSUME Agreed, UNCHANGED vars
    PROVE  Sound'
  <1>1. CASE strained
    BY <1>1 DEF vars, Sound
  <1>2. CASE ~strained
    <2>1. Parted /\ Known
      BY <1>2 DEF Agreed, Sound, Parted
    <2>2. ASSUME NEW w \in Workers PROVE Kept(w)'
      <3>1. Kept(w)
        BY <2>1 DEF Parted
      <3> QED
        BY <3>1 DEF vars, Kept, Good, Takes, Held
    <2>3. Parted'
      BY <2>1, <2>2 DEF vars, Parted, DeviceSound, RowSound, Good
    <2> QED
      BY <2>3, SoundAssembled
  <1> QED
    BY <1>1, <1>2

\* A refresh whose session exists is not taken for a replay: revokeOnReuse runs
\* only for a session that is gone, unless a token was lost that somebody held.
THEOREM HonestAreKept == Spec => []HonestIsKept
  <1>1. Init => Agreed
    <2>1. ASSUME Init PROVE Parted
      <3>1. /\ \A s \in Sessions : ~row[s].live
            /\ \A w \in Workers : task[w].pc \notin Presenting
            /\ \A d \in Devices : device[d].tok = 0
        BY <2>1 DEF Init, NoRow, IdleTask, SignedOut, Presenting, Refreshing
      <3> QED
        BY <3>1 DEF Parted, DeviceSound, RowSound, Kept
    <2> QED
      BY <2>1, KnownAtStart DEF Agreed, Sound, Parted
  <1>2. ASSUME Agreed, Next PROVE Agreed'
    BY <1>2, KnownStep, SoundStep DEF Agreed
  <1>3. ASSUME Agreed, UNCHANGED vars PROVE Agreed'
    BY <1>3, KnownStutters, SoundStutters DEF Agreed
  <1>4. ASSUME Agreed PROVE HonestIsKept
    BY <1>4 DEF Agreed, Sound, Kept, HonestIsKept, Presenting
  <1> QED
    BY <1>1, <1>2, <1>3, <1>4, PTL DEF Spec
=============================================================================
