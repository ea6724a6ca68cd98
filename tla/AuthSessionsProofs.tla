------------------------- MODULE AuthSessionsProofs -------------------------
(***************************************************************************)
(* Theorems about AuthSessions, for any number of devices, requests and    *)
(* sessions.  Ownership says where every token belongs; it holds whatever  *)
(* happens.  Soundness, on top of it, says that a device keeps a token its *)
(* session's row takes; the claims about rotation follow from both.        *)
(***************************************************************************)
EXTENDS AuthSessions, TLAPS, FiniteSetTheorems

Known == TypeOK /\ Owned

\* Sessions and tokens are only added.
Grows ==
    /\ made' \in 0..MaxLogins /\ made <= made'
    /\ minted' \in 0..MaxTokens /\ minted <= minted'
    /\ owner' \in [Tokens -> [s : Nat, d : Devices \cup {NoDevice}]]
    /\ \A t \in 1..minted : owner'[t] = owner[t]

LEMMA IdleIsTask == IdleTask \in Task /\ NoRow \in Row
  BY DEF IdleTask, Task, Pcs, GRACE_REISSUE_ATTEMPTS, NoRow, Row

LEMMA NothingMinted ==
    ASSUME Known, UNCHANGED <<made, minted, owner>>
    PROVE  Grows
  BY BoundsAssumption DEF Known, TypeOK, Grows

LEMMA MintGrows ==
    ASSUME Known, NEW s \in Nat, NEW d \in Devices \cup {NoDevice}, Mint(s, d),
           made' \in 0..MaxLogins, made <= made'
    PROVE  /\ Grows
           /\ minted + 1 \in Tokens /\ minted' = minted + 1
           /\ owner'[minted + 1] = [s |-> s, d |-> d]
  BY BoundsAssumption DEF Known, TypeOK, Grows, Mint, Tokens

\* What leaves a row, a device, a task or an entry of the cache owned.
LEMMA RowKept ==
    ASSUME Known, Grows, NEW s \in Sessions,
           \/ row'[s] \in {row[s], NoRow}
           \/ row'[s] = [row[s] EXCEPT !.grace = FALSE]
           \/ row'[s] = [row[s] EXCEPT !.expired = TRUE]
    PROVE  RowOwned(s)'
  <1>1. /\ row[s] \in Row /\ RowOwned(s) /\ s \in Nat
        /\ made \in Nat /\ made' \in Nat /\ minted \in Nat /\ minted' \in Nat
    BY BoundsAssumption DEF Known, TypeOK, Owned, Sessions, Grows
  <1>2. CASE row'[s] = NoRow
    BY <1>2 DEF RowOwned, NoRow
  <1>3. CASE row'[s] # NoRow
    <2>1. /\ row'[s].live = row[s].live /\ row'[s].cur = row[s].cur
          /\ row'[s].prev = row[s].prev
          /\ row'[s].grace => row[s].grace
      BY <1>1, <1>3 DEF Row
    <2>2. row[s].cur \in Nat /\ row[s].prev \in Nat
      BY <1>1 DEF Row
    <2>3. row[s].cur \in 1..minted => owner'[row[s].cur] = owner[row[s].cur]
      BY DEF Grows
    <2>4. row[s].prev <= minted /\ row[s].prev # 0
          => owner'[row[s].prev] = owner[row[s].prev]
      BY <1>1, <2>2 DEF Grows
    <2>5. minted <= minted' /\ made <= made'
      BY DEF Grows
    <2> QED
      BY <1>1, <2>1, <2>2, <2>3, <2>4, <2>5 DEF RowOwned
  <1> QED
    BY <1>2, <1>3

LEMMA DeviceKept ==
    ASSUME Known, Grows, NEW d \in Devices,
           device'[d].tok = device[d].tok /\ device'[d].s = device[d].s
    PROVE  device'[d].s <= made' /\ DeviceOwned(d)'
  <1>1. /\ DeviceOwned(d) /\ device[d].s <= made /\ device[d].tok \in Nat
        /\ device[d].s \in Nat /\ made \in Nat /\ made' \in Nat
        /\ minted \in Nat /\ minted' \in Nat
    BY BoundsAssumption DEF Known, TypeOK, Owned, Grows, Device
  <1> QED
    BY <1>1 DEF DeviceOwned, Grows

LEMMA TaskKept ==
    ASSUME Known, Grows, NEW w \in Workers, task'[w] \in {task[w], IdleTask}
    PROVE  TaskOwned(w)'
  <1>1. /\ TaskOwned(w) /\ task[w] \in Task /\ made \in Nat /\ made' \in Nat
        /\ minted \in Nat /\ minted' \in Nat
    BY BoundsAssumption DEF Known, TypeOK, Owned, Grows
  <1>2. CASE task'[w] = task[w]
    <2>1. task[w].tok \in Nat /\ task[w].new \in Nat /\ task[w].home \in Nat
          /\ task[w].s \in Nat
      BY <1>1 DEF Task
    <2> QED
      BY <1>1, <1>2, <2>1 DEF TaskOwned, Grows
  <1>3. CASE task'[w] = IdleTask
    BY <1>3 DEF TaskOwned, IdleTask, Presenting, Refreshing, Reading
  <1> QED
    BY <1>2, <1>3

LEMMA CacheKept ==
    ASSUME Known, Grows, NEW t \in Tokens, cache'[t] \in {cache[t], 0}
    PROVE  CacheOwned(t)'
  <1>1. /\ CacheOwned(t) /\ t \in Nat /\ t # 0 /\ cache[t] \in Nat
        /\ minted \in Nat /\ minted' \in Nat
    BY BoundsAssumption DEF Known, TypeOK, Owned, Grows, Tokens
  <1> QED
    BY <1>1 DEF CacheOwned, Grows

\* The same token, sought after another step of the same handler.
LEMMA Continues ==
    ASSUME Known, Grows, NEW w \in Workers, NEW pc \in Pcs,
           task'[w].pc = pc, task'[w].d = task[w].d, task[w].pc # "idle",
           task'[w].tok = task[w].tok, task'[w].home = task[w].home,
           pc \in Presenting => task[w].pc \in Presenting,
           pc \in Reading => task'[w].s = task[w].home,
           pc \in {"evict", "drop"} => task'[w].s \in 1..made,
           pc = "rotate" => task'[w].cur = task[w].tok,
           pc = "cache" => /\ task'[w].new \in 1..minted'
                           /\ owner'[task'[w].new] = [s |-> task[w].home,
                                                      d |-> task[w].d]
    PROVE  TaskOwned(w)'
  <1>1. /\ TaskOwned(w) /\ task[w] \in Task /\ made \in Nat /\ made' \in Nat
        /\ minted \in Nat /\ minted' \in Nat
    BY BoundsAssumption DEF Known, TypeOK, Owned, Grows
  <1>2. task[w].tok \in Nat /\ task[w].home \in Nat
    BY <1>1 DEF Task
  <1>3. task'[w].tok # 0 => /\ task'[w].tok <= minted'
                            /\ owner'[task'[w].tok] = [s |-> task'[w].home,
                                                       d |-> task'[w].d]
    BY <1>1, <1>2 DEF TaskOwned, Grows
  <1>4. task'[w].pc \in Presenting => task'[w].tok # 0 /\ task'[w].home \in 1..made'
    BY <1>1, <1>2 DEF TaskOwned, Grows
  <1>5. task'[w].pc \in {"evict", "drop"} => task'[w].s \in 1..made'
    BY <1>1 DEF Grows
  <1>6. task'[w].pc # "idle" => task'[w].d \in Devices
    BY <1>1 DEF TaskOwned
  <1> QED
    BY <1>3, <1>4, <1>5, <1>6 DEF TaskOwned

-----------------------------------------------------------------------------
(* The four tables, and the steps that keep them.                          *)

RowsOwned == row \in [Sessions -> Row] /\ \A s \in Sessions : RowOwned(s)
DevicesOwned ==
    /\ device \in [Devices -> Device]
    /\ \A d \in Devices : /\ device[d].tok = 0 <=> device[d].s = 0
                          /\ device[d].s <= made /\ DeviceOwned(d)
TasksOwned == task \in [Workers -> Task] /\ \A w \in Workers : TaskOwned(w)
EntriesOwned == cache \in [Tokens -> Nat] /\ \A t \in Tokens : CacheOwned(t)

LEMMA Assembled ==
    ASSUME Grows, RowsOwned', DevicesOwned', TasksOwned', EntriesOwned',
           strained' \in BOOLEAN
    PROVE  Known'
  BY DEF Grows, Known, TypeOK, Owned, RowsOwned, DevicesOwned, TasksOwned,
         EntriesOwned

LEMMA KnownParts ==
    ASSUME Known
    PROVE  /\ RowsOwned /\ DevicesOwned /\ TasksOwned /\ EntriesOwned
           /\ made \in 0..MaxLogins /\ minted \in 0..MaxTokens
           /\ strained \in BOOLEAN
  BY DEF Known, TypeOK, Owned, RowsOwned, DevicesOwned, TasksOwned,
         EntriesOwned

LEMMA RowsKept ==
    ASSUME Known, Grows, row' \in [Sessions -> Row],
           \A s \in Sessions :
                \/ row'[s] \in {row[s], NoRow}
                \/ row'[s] = [row[s] EXCEPT !.grace = FALSE]
                \/ row'[s] = [row[s] EXCEPT !.expired = TRUE]
    PROVE  RowsOwned'
  <1>1. ASSUME NEW s \in Sessions PROVE RowOwned(s)'
    BY RowKept
  <1> QED
    BY <1>1 DEF RowsOwned

LEMMA RowsSame ==
    ASSUME Known, Grows, UNCHANGED row
    PROVE  RowsOwned'
  BY RowsKept, KnownParts DEF RowsOwned

LEMMA DevicesKept ==
    ASSUME Known, Grows, device' \in [Devices -> Device],
           \A d \in Devices : device'[d].tok = device[d].tok
                              /\ device'[d].s = device[d].s
    PROVE  DevicesOwned'
  <1>1. ASSUME NEW d \in Devices
        PROVE  device'[d].s <= made' /\ DeviceOwned(d)'
    BY DeviceKept
  <1>2. ASSUME NEW d \in Devices PROVE device'[d].tok = 0 <=> device'[d].s = 0
    BY KnownParts DEF DevicesOwned
  <1> QED
    BY <1>1, <1>2 DEF DevicesOwned

LEMMA DevicesSame ==
    ASSUME Known, Grows, UNCHANGED device
    PROVE  DevicesOwned'
  BY DevicesKept, KnownParts DEF DevicesOwned

LEMMA TasksKept ==
    ASSUME Known, Grows, NEW w \in Workers, NEW t \in Task,
           task' = [task EXCEPT ![w] = t], TaskOwned(w)'
    PROVE  TasksOwned'
  <1>1. task' \in [Workers -> Task] /\ \A v \in Workers \ {w} : task'[v] = task[v]
    BY KnownParts DEF TasksOwned
  <1>2. ASSUME NEW v \in Workers \ {w} PROVE TaskOwned(v)'
    BY <1>1, TaskKept
  <1> QED
    BY <1>1, <1>2 DEF TasksOwned

LEMMA TasksSame ==
    ASSUME Known, Grows, UNCHANGED task
    PROVE  TasksOwned'
  <1>1. ASSUME NEW v \in Workers PROVE TaskOwned(v)'
    BY TaskKept
  <1> QED
    BY <1>1, KnownParts DEF TasksOwned

LEMMA Ended ==
    ASSUME Known, Grows, NEW w \in Workers, End(w)
    PROVE  TasksOwned'
  <1>1. task'[w] = IdleTask
    BY KnownParts DEF End, TasksOwned
  <1> QED
    BY <1>1, TaskKept, TasksKept, IdleIsTask DEF End

LEMMA EntriesKept ==
    ASSUME Known, Grows, cache' \in [Tokens -> Nat],
           \A t \in Tokens : cache'[t] \in {cache[t], 0}
    PROVE  EntriesOwned'
  <1>1. ASSUME NEW t \in Tokens PROVE CacheOwned(t)'
    BY CacheKept
  <1> QED
    BY <1>1 DEF EntriesOwned

LEMMA EntriesSame ==
    ASSUME Known, Grows, UNCHANGED cache
    PROVE  EntriesOwned'
  BY EntriesKept, KnownParts DEF EntriesOwned

\* A handler goes on with the token it was sent.
LEMMA GoesOn ==
    ASSUME Known, Grows, NEW w \in Workers, NEW t \in Task,
           task' = [task EXCEPT ![w] = t],
           t.d = task[w].d, task[w].pc # "idle",
           t.tok = task[w].tok, t.home = task[w].home,
           t.pc \in Presenting => task[w].pc \in Presenting,
           t.pc \in Reading => t.s = task[w].home,
           t.pc \in {"evict", "drop"} => t.s \in 1..made,
           t.pc = "rotate" => t.cur = task[w].tok,
           t.pc = "cache" => /\ t.new \in 1..minted'
                             /\ owner'[t.new] = [s |-> task[w].home,
                                                 d |-> task[w].d]
    PROVE  TasksOwned'
  <1>1. task'[w] = t /\ t.pc \in Pcs
    BY KnownParts DEF TasksOwned, Task
  <1>2. TaskOwned(w)'
    BY <1>1, Continues
  <1> QED
    BY <1>2, TasksKept

\* The answer a device takes.
LEMMA Answered ==
    ASSUME Known, Grows, NEW w \in Workers, task[w].pc # "idle",
           NEW tok \in Nat, NEW s \in Nat, tok = 0 <=> s = 0, Answer(w, tok, s),
           s <= made',
           tok # 0 => tok <= minted' /\ owner'[tok] = [s |-> s, d |-> task[w].d]
    PROVE  DevicesOwned' /\ TasksOwned'
  <1>1. PICK d \in Devices : d = task[w].d
    BY KnownParts DEF TasksOwned, TaskOwned
  <1>2. CASE Takes(w)
    <2>1. device' = [device EXCEPT ![d] = [tok |-> tok, s |-> s, wait |-> NoWorker]]
      BY <1>1, <1>2 DEF Answer
    <2>2. device \in [Devices -> Device] /\ device' \in [Devices -> Device]
      BY <2>1, KnownParts DEF DevicesOwned, Device
    <2>3. device'[d].tok = tok /\ device'[d].s = s
          /\ \A e \in Devices \ {d} : device'[e] = device[e]
      BY <2>1, <2>2
    <2>4. device'[d].s <= made' /\ DeviceOwned(d)'
      BY <1>1, <2>3 DEF DeviceOwned
    <2>5. ASSUME NEW e \in Devices \ {d}
          PROVE  /\ device'[e].tok = 0 <=> device'[e].s = 0
                 /\ device'[e].s <= made' /\ DeviceOwned(e)'
      <3>1. device'[e] = device[e]
        BY <2>3
      <3>2. device'[e].s <= made' /\ DeviceOwned(e)'
        BY <3>1, DeviceKept
      <3> QED
        BY <3>1, <3>2, KnownParts DEF DevicesOwned
    <2>6. DevicesOwned'
      BY <2>2, <2>3, <2>4, <2>5 DEF DevicesOwned
    <2> QED
      BY <2>6, Ended DEF Answer
  <1>3. CASE ~Takes(w)
    BY <1>3, Ended, DevicesSame DEF Answer
  <1> QED
    BY <1>2, <1>3

LEMMA RefusedOwned ==
    ASSUME Known, Grows, NEW w \in Workers, task[w].pc # "idle", Refused(w)
    PROVE  DevicesOwned' /\ TasksOwned'
  <1>1. 0 <= made'
    BY BoundsAssumption DEF Grows
  <1> QED
    BY <1>1, Answered DEF Refused

LEMMA BusyOwned ==
    ASSUME Known, Grows, NEW w \in Workers, task[w].pc # "idle", Busy(w)
    PROVE  DevicesOwned' /\ TasksOwned'
  <1> DEFINE d == task[w].d
  <1>1. d \in Devices
    BY KnownParts DEF TasksOwned, TaskOwned
  <1>2. /\ device[d].tok \in Nat /\ device[d].s \in Nat
        /\ device[d].tok = 0 <=> device[d].s = 0
        /\ device[d].s <= made /\ DeviceOwned(d)
    BY <1>1, KnownParts DEF DevicesOwned, Device
  <1>3. /\ made \in Nat /\ made' \in Nat /\ made <= made'
        /\ minted \in Nat /\ minted' \in Nat /\ minted <= minted'
    BY BoundsAssumption, KnownParts DEF Grows
  <1>4. device[d].s <= made'
    BY <1>2, <1>3
  <1>5. device[d].tok # 0 =>
            device[d].tok <= minted' /\ owner'[device[d].tok] = [s |-> device[d].s, d |-> d]
    BY <1>2, <1>3 DEF DeviceOwned, Grows
  <1> QED
    BY <1>2, <1>4, <1>5, Answered DEF Busy

LEMMA GotoGoes ==
    ASSUME Known, Grows, NEW w \in Workers, NEW pc \in Pcs, Goto(w, pc),
           task[w].pc # "idle",
           pc \in Presenting => task[w].pc \in Presenting,
           pc \in Reading => task[w].s = task[w].home,
           pc \notin {"evict", "drop", "rotate", "cache"}
    PROVE  TasksOwned'
  <1> DEFINE t == [task[w] EXCEPT !.pc = pc]
  <1>1. task \in [Workers -> Task] /\ task[w] \in Task
    BY KnownParts DEF TasksOwned
  <1>2. /\ t \in Task /\ t.pc = pc /\ t.d = task[w].d /\ t.tok = task[w].tok
        /\ t.home = task[w].home /\ t.s = task[w].s
        /\ task' = [task EXCEPT ![w] = t]
    BY <1>1 DEF Goto, Task
  <1> HIDE DEF t
  <1> QED
    BY <1>2, GoesOn

-----------------------------------------------------------------------------
(* Every step leaves every token with its owner.                           *)

LEMMA SignInKnown ==
    ASSUME Known, NEW w \in Workers, NEW d \in Devices, SignIn(w, d)
    PROVE  Known'
  <1> DEFINE t == [IdleTask EXCEPT !.pc = "count", !.d = d]
  <1>1. Grows
    BY NothingMinted DEF SignIn
  <1>2. t \in Task
    BY IdleIsTask DEF Task, Pcs
  <1>3. task' = [task EXCEPT ![w] = t] /\ task'[w] = t
    BY KnownParts DEF SignIn, TasksOwned
  <1>4. TaskOwned(w)'
    <2>1. IdleTask \in Task /\ IdleTask.tok = 0
      BY IdleIsTask DEF IdleTask
    <2>2. task'[w].pc = "count" /\ task'[w].d = d /\ task'[w].tok = 0
      BY <1>3, <2>1 DEF Task
    <2> QED
      BY <2>2 DEF TaskOwned, Presenting, Reading, Refreshing
  <1>5. TasksOwned'
    BY <1>1, <1>2, <1>3, <1>4, TasksKept
  <1>6. device' \in [Devices -> Device]
        /\ \A e \in Devices : device'[e].tok = device[e].tok
                              /\ device'[e].s = device[e].s
    BY KnownParts DEF SignIn, DevicesOwned, Device
  <1> QED
    BY <1>1, <1>5, <1>6, DevicesKept, RowsSame, EntriesSame, KnownParts, Assembled
       DEF SignIn

LEMMA CountKnown ==
    ASSUME Known, NEW w \in Workers, countUserSessions(w)
    PROVE  Known'
  <1>1. Grows
    BY NothingMinted DEF countUserSessions
  <1>2. PICK pc \in {"oldest", "create"} : Goto(w, pc)
    BY DEF countUserSessions
  <1>3. TasksOwned'
    BY <1>1, <1>2, GotoGoes DEF countUserSessions, Pcs, Presenting, Refreshing, Reading
  <1> QED
    BY <1>1, <1>3, RowsSame, DevicesSame, EntriesSame, KnownParts, Assembled
       DEF countUserSessions

LEMMA OldestKnown ==
    ASSUME Known, NEW w \in Workers, findOldestSession(w)
    PROVE  Known'
  <1>1. Grows
    BY NothingMinted DEF findOldestSession
  <1>2. CASE Goto(w, "create")
    BY <1>1, <1>2, GotoGoes, RowsSame, DevicesSame, EntriesSame, KnownParts,
       Assembled
       DEF findOldestSession, Pcs, Presenting, Refreshing, Reading
  <1>3. ASSUME NEW s \in Live,
               task' = [task EXCEPT ![w].pc = "evict", ![w].s = s]
        PROVE  TasksOwned'
    <2> DEFINE t == [task[w] EXCEPT !.pc = "evict", !.s = s]
    <2>1. task \in [Workers -> Task] /\ task[w] \in Task
      BY KnownParts DEF TasksOwned
    <2>2. s \in 1..made /\ s \in Nat
      BY KnownParts, BoundsAssumption DEF RowsOwned, RowOwned, Live, Sessions
    <2>3. /\ t \in Task /\ t.pc = "evict" /\ t.d = task[w].d /\ t.s = s
          /\ t.tok = task[w].tok /\ t.home = task[w].home
          /\ task' = [task EXCEPT ![w] = t]
      BY <1>3, <2>1, <2>2 DEF Task, Pcs
    <2> HIDE DEF t
    <2> QED
      BY <1>1, <2>2, <2>3, GoesOn
         DEF findOldestSession, Presenting, Refreshing, Reading
  <1> QED
    BY <1>1, <1>2, <1>3, RowsSame, DevicesSame, EntriesSame, KnownParts, Assembled
       DEF findOldestSession

LEMMA EvictKnown ==
    ASSUME Known, NEW w \in Workers, evictOldest(w)
    PROVE  Known'
  <1>1. Grows
    BY NothingMinted DEF evictOldest
  <1>2. CASE row' = [row EXCEPT ![task[w].s] = NoRow] /\ Goto(w, "create")
             /\ UNCHANGED device
    <2>1. RowsOwned'
      BY <1>1, <1>2, RowsKept, KnownParts, IdleIsTask DEF RowsOwned
    <2>2. TasksOwned'
      BY <1>1, <1>2, GotoGoes DEF evictOldest, Pcs, Presenting, Refreshing, Reading
    <2> QED
      BY <1>1, <1>2, <2>1, <2>2, DevicesSame, EntriesSame, KnownParts, Assembled
         DEF evictOldest
  <1>3. CASE Busy(w) /\ UNCHANGED row
    BY <1>1, <1>3, BusyOwned, RowsSame, EntriesSame, KnownParts, Assembled
       DEF evictOldest
  <1> QED
    BY <1>2, <1>3 DEF evictOldest

LEMMA LoginKnown ==
    ASSUME Known, NEW w \in Workers, loginTransaction(w)
    PROVE  Known'
  <1>0. made \in 0..MaxLogins /\ minted \in 0..MaxTokens /\ made < MaxLogins
        /\ made' = made + 1
    BY KnownParts DEF loginTransaction
  <1>1. task[w].d \in Devices
    BY KnownParts DEF TasksOwned, TaskOwned, loginTransaction
  <1>2. /\ Grows /\ minted + 1 \in Tokens /\ minted' = minted + 1
        /\ owner'[minted + 1] = [s |-> made + 1, d |-> task[w].d]
    <2>1. made + 1 \in Nat /\ made' \in 0..MaxLogins /\ made <= made'
      BY <1>0, BoundsAssumption
    <2>2. Mint(made + 1, task[w].d)
      BY DEF loginTransaction
    <2> QED
      BY <1>1, <2>1, <2>2, MintGrows
  <1>3. RowsOwned'
    <2> DEFINE n == [NoRow EXCEPT !.live = TRUE, !.cur = minted + 1]
    <2>1. row \in [Sessions -> Row] /\ row' = [row EXCEPT ![made + 1] = n]
      BY KnownParts DEF RowsOwned, loginTransaction
    <2>2. n \in Row /\ n.live /\ n.cur = minted + 1 /\ n.prev = 0 /\ ~n.grace
      <3>1. NoRow \in Row /\ NoRow.prev = 0 /\ NoRow.grace = FALSE
        BY IdleIsTask DEF NoRow
      <3>2. minted + 1 \in Nat
        BY <1>0, BoundsAssumption
      <3> QED
        BY <3>1, <3>2 DEF Row
    <2>3. made + 1 \in Sessions
      BY <1>0, BoundsAssumption DEF Sessions
    <2>4. row' \in [Sessions -> Row] /\ row'[made + 1] = n
      BY <2>1, <2>2, <2>3
    <2> HIDE DEF n
    <2>5. ASSUME NEW s \in Sessions PROVE RowOwned(s)'
      <3>1. CASE s = made + 1
        <4>1. /\ row'[s] = n /\ s \in Nat /\ s = made'
              /\ minted' \in Nat /\ minted' = minted + 1
              /\ owner'[minted + 1].s = s
          BY <1>0, <1>2, <2>3, <2>4, <3>1, BoundsAssumption DEF Grows, Sessions
        <4>2. minted + 1 \in 1..minted' /\ 0 <= minted'
          BY <1>0, <4>1, BoundsAssumption
        <4> QED
          BY <2>2, <4>1, <4>2 DEF RowOwned
      <3>2. CASE s # made + 1
        BY <1>2, <2>1, <3>2, RowKept
      <3> QED
        BY <3>1, <3>2
    <2> QED
      BY <2>4, <2>5 DEF RowsOwned
  <1>4. DevicesOwned' /\ TasksOwned'
    <2>1. /\ minted + 1 \in Nat /\ made + 1 \in Nat /\ minted + 1 # 0 /\ made + 1 # 0
          /\ made + 1 <= made' /\ minted + 1 <= minted'
      BY <1>0, <1>2, BoundsAssumption
    <2>2. Answer(w, minted + 1, made + 1) /\ task[w].pc = "create"
      BY DEF loginTransaction
    <2> QED
      BY <1>2, <2>1, <2>2, Answered
  <1> QED
    BY <1>2, <1>3, <1>4, EntriesSame, KnownParts, Assembled DEF loginTransaction

LEMMA SendGoes ==
    ASSUME Known, Grows, NEW w \in Workers, NEW d \in Devices,
           NEW pc \in {"find", "logout", "keep"}, Send(w, d, pc),
           device[d].tok # 0
    PROVE  TasksOwned'
  <1> DEFINE t == [IdleTask EXCEPT !.pc = pc, !.d = d, !.home = device[d].s,
                                   !.tok = device[d].tok]
  <1>1. /\ device[d].tok \in Nat /\ device[d].s \in Nat /\ device[d].s # 0
        /\ device[d].s <= made /\ DeviceOwned(d)
    BY KnownParts DEF DevicesOwned, Device
  <1>2. /\ t \in Task /\ t.pc = pc /\ t.d = d /\ t.home = device[d].s
        /\ t.tok = device[d].tok
    <2>1. IdleTask \in Task /\ pc \in Pcs
      BY IdleIsTask DEF Pcs, Refreshing
    <2> QED
      BY <1>1, <2>1 DEF Task
  <1>3. task' = [task EXCEPT ![w] = t] /\ task'[w] = t
    BY KnownParts DEF Send, TasksOwned
  <1> HIDE DEF t
  <1>4. /\ made \in Nat /\ made' \in Nat /\ made <= made'
        /\ minted \in Nat /\ minted' \in Nat /\ minted <= minted'
    BY KnownParts, BoundsAssumption DEF Grows
  <1>5. t.home \in 1..made'
    BY <1>1, <1>2, <1>4
  <1>6. t.tok <= minted' /\ owner'[t.tok] = [s |-> t.home, d |-> d]
    BY <1>1, <1>2, <1>4 DEF DeviceOwned, Grows
  <1>7. TaskOwned(w)'
    BY <1>2, <1>3, <1>5, <1>6 DEF TaskOwned, Presenting, Reading, Refreshing
  <1> QED
    BY <1>2, <1>3, <1>7, TasksKept

LEMMA RefreshKnown ==
    ASSUME Known, NEW w \in Workers, NEW d \in Devices, Refresh(w, d)
    PROVE  Known'
  <1>1. Grows
    BY NothingMinted DEF Refresh
  <1>2. TasksOwned'
    BY <1>1, SendGoes DEF Refresh
  <1>3. device' \in [Devices -> Device]
        /\ \A e \in Devices : device'[e].tok = device[e].tok
                              /\ device'[e].s = device[e].s
    BY KnownParts DEF Refresh, DevicesOwned, Device
  <1> QED
    BY <1>1, <1>2, <1>3, DevicesKept, RowsSame, EntriesSame, KnownParts, Assembled
       DEF Refresh

\* The row a refresh finds is the one its token was minted for.
LEMMA MatchIsHome ==
    ASSUME Known, NEW w \in Workers, task[w].pc \in Presenting,
           NEW s \in Match(task[w].tok)
    PROVE  /\ s \in Sessions /\ s = task[w].home /\ s \in 1..made /\ row[s].live
           /\ row[s].cur \in Nat /\ row[s].prev \in Nat
           /\ task[w].tok \in {row[s].cur, row[s].prev}
  <1>1. s \in Sessions /\ row[s].live /\ task[w].tok \in {row[s].cur, row[s].prev}
    BY DEF Match, Live
  <1>2. RowOwned(s) /\ row[s] \in Row /\ TaskOwned(w) /\ made \in 0..MaxLogins
    BY <1>1, KnownParts DEF RowsOwned, TasksOwned
  <1>3. task[w].tok # 0 /\ owner[task[w].tok].s = task[w].home
    BY <1>2 DEF TaskOwned
  <1>4. owner[task[w].tok].s = s
    BY <1>1, <1>2, <1>3 DEF RowOwned
  <1>5. s \in 1..made
    BY <1>1, <1>2, BoundsAssumption DEF RowOwned, Sessions
  <1> QED
    BY <1>1, <1>2, <1>3, <1>4, <1>5 DEF Row

LEMMA ExpiredKnown ==
    ASSUME Known, Grows, NEW w \in Workers, task[w].pc \in Presenting,
           NEW s \in Match(task[w].tok), SessionExpired(w, s)
    PROVE  DevicesOwned' /\ TasksOwned'
  <1> DEFINE t == [task[w] EXCEPT !.pc = "drop", !.s = s]
  <1>1. task \in [Workers -> Task] /\ task[w] \in Task /\ task[w].pc # "idle"
    BY KnownParts DEF TasksOwned, Presenting, Refreshing
  <1>2. s \in 1..made /\ s \in Nat
    BY MatchIsHome DEF Sessions
  <1>3. /\ t \in Task /\ t.pc = "drop" /\ t.s = s /\ t.d = task[w].d
        /\ t.tok = task[w].tok /\ t.home = task[w].home
        /\ task' = [task EXCEPT ![w] = t]
    BY <1>1, <1>2 DEF SessionExpired, Task, Pcs
  <1> HIDE DEF t
  <1>4. TasksOwned'
    BY <1>1, <1>2, <1>3, GoesOn DEF Presenting, Refreshing, Reading
  <1>5. CASE Takes(w)
    <2>1. device' \in [Devices -> Device]
      BY <1>5, KnownParts DEF SessionExpired, DevicesOwned, Device, SignedOut
    <2>2. PICK d \in Devices : d = task[w].d
      BY <1>1, KnownParts DEF TasksOwned, TaskOwned
    <2>3. device'[d] = SignedOut /\ \A e \in Devices \ {d} : device'[e] = device[e]
      BY <1>5, <2>2, KnownParts DEF SessionExpired, DevicesOwned
    <2>4. ASSUME NEW e \in Devices
          PROVE  /\ device'[e].tok = 0 <=> device'[e].s = 0
                 /\ device'[e].s <= made' /\ DeviceOwned(e)'
      <3>1. CASE e = d
        <4>1. 0 <= made'
          BY BoundsAssumption DEF Grows
        <4> QED
          BY <2>3, <3>1, <4>1 DEF SignedOut, DeviceOwned
      <3>2. CASE e # d
        <4>1. device'[e] = device[e]
          BY <2>3, <3>2
        <4>2. device'[e].s <= made' /\ DeviceOwned(e)'
          BY <4>1, DeviceKept
        <4> QED
          BY <4>1, <4>2, KnownParts DEF DevicesOwned
      <3> QED
        BY <3>1, <3>2
    <2> QED
      BY <1>4, <2>1, <2>4 DEF DevicesOwned
  <1>6. CASE ~Takes(w)
    BY <1>4, <1>6, DevicesSame DEF SessionExpired
  <1> QED
    BY <1>5, <1>6

LEMMA GraceKnown ==
    ASSUME Known, Grows, NEW w \in Workers, task[w].pc \in Presenting,
           NEW s \in Match(task[w].tok), WithinGrace(w, s)
    PROVE  DevicesOwned' /\ TasksOwned'
  <1> DEFINE p == IF row[s].grace THEN "poll" ELSE "revoke"
             t == [task[w] EXCEPT !.pc = p, !.s = s, !.cur = row[s].cur]
  <1>1. task \in [Workers -> Task] /\ task[w] \in Task /\ task[w].pc # "idle"
    BY KnownParts DEF TasksOwned, Presenting, Refreshing
  <1>2. s = task[w].home /\ s \in Nat /\ row[s].cur \in Nat
    BY MatchIsHome DEF Sessions
  <1>3. /\ t \in Task /\ t.pc \in {"poll", "revoke"} /\ t.s = s
        /\ t.d = task[w].d /\ t.tok = task[w].tok /\ t.home = task[w].home
        /\ task' = [task EXCEPT ![w] = t]
    BY <1>1, <1>2 DEF WithinGrace, Task, Pcs, Refreshing
  <1> HIDE DEF t
  <1>4. TasksOwned'
    BY <1>1, <1>2, <1>3, GoesOn DEF Presenting, Refreshing, Reading
  <1> QED
    BY <1>4, DevicesSame DEF WithinGrace

LEMMA FindKnown ==
    ASSUME Known, NEW w \in Workers, find(w)
    PROVE  Known'
  <1>1. Grows
    BY NothingMinted DEF find
  <1>2. task[w].pc \in Presenting /\ task[w].pc = "find"
    BY DEF find, Presenting, Refreshing
  <1>3. DevicesOwned' /\ TasksOwned'
    <2>1. CASE Goto(w, "revoke") /\ UNCHANGED device
      BY <1>1, <1>2, <2>1, GotoGoes, DevicesSame
         DEF Pcs, Presenting, Refreshing, Reading
    <2>2. ASSUME NEW s \in Match(task[w].tok), SessionExpired(w, s)
          PROVE  DevicesOwned' /\ TasksOwned'
      BY <1>1, <1>2, <2>2, ExpiredKnown
    <2>3. ASSUME NEW s \in Match(task[w].tok), WithinGrace(w, s)
          PROVE  DevicesOwned' /\ TasksOwned'
      BY <1>1, <1>2, <2>3, GraceKnown
    <2>4. ASSUME NEW s \in Match(task[w].tok), row[s].cur = task[w].tok,
                 task' = [task EXCEPT ![w].pc = "rotate", ![w].s = s,
                                      ![w].cur = row[s].cur],
                 UNCHANGED device
          PROVE  DevicesOwned' /\ TasksOwned'
      <3> DEFINE t == [task[w] EXCEPT !.pc = "rotate", !.s = s, !.cur = row[s].cur]
      <3>1. task \in [Workers -> Task] /\ task[w] \in Task
        BY KnownParts DEF TasksOwned
      <3>2. s = task[w].home /\ s \in Nat /\ row[s].cur \in Nat
        BY <1>2, MatchIsHome DEF Sessions
      <3>3. /\ t \in Task /\ t.pc = "rotate" /\ t.s = s /\ t.cur = task[w].tok
            /\ t.d = task[w].d /\ t.tok = task[w].tok /\ t.home = task[w].home
            /\ task' = [task EXCEPT ![w] = t]
        BY <2>4, <3>1, <3>2 DEF Task, Pcs, Refreshing
      <3> HIDE DEF t
      <3> QED
        BY <1>1, <1>2, <2>4, <3>2, <3>3, GoesOn, DevicesSame
    <2> QED
      BY <2>1, <2>2, <2>3, <2>4 DEF find
  <1> QED
    BY <1>1, <1>3, RowsSame, EntriesSame, KnownParts, Assembled DEF find

LEMMA RefindKnown ==
    ASSUME Known, NEW w \in Workers, refind(w)
    PROVE  Known'
  <1>1. Grows
    BY NothingMinted DEF refind
  <1>2. task[w].pc \in Presenting /\ task[w].pc # "idle"
    BY DEF refind, Presenting, Refreshing
  <1>3. DevicesOwned' /\ TasksOwned'
    BY <1>1, <1>2, RefusedOwned, ExpiredKnown, GraceKnown DEF refind
  <1> QED
    BY <1>1, <1>3, RowsSame, EntriesSame, KnownParts, Assembled DEF refind

\* What rotate and reissue share: the row of the session gets a new token.
LEMMA Minting ==
    ASSUME Known, NEW w \in Workers, task[w].pc \in {"rotate", "reissue"},
           NEW r \in Row, Mint(task[w].s, task[w].d), UNCHANGED made,
           row[task[w].s].live, row' = [row EXCEPT ![task[w].s] = r],
           r.live, r.cur = minted + 1,
           r.prev \in {task[w].tok, row[task[w].s].prev},
           r.grace => r.prev # 0,
           task' = [task EXCEPT ![w].pc = "cache", ![w].new = minted + 1]
    PROVE  Grows /\ RowsOwned' /\ TasksOwned'
  <1>1. /\ task \in [Workers -> Task] /\ task[w] \in Task /\ TaskOwned(w)
        /\ row \in [Sessions -> Row]
        /\ made \in 0..MaxLogins /\ minted \in 0..MaxTokens
    BY KnownParts DEF TasksOwned, RowsOwned
  <1>2. /\ task[w].s \in 1..made /\ task[w].s \in Sessions /\ task[w].s \in Nat
        /\ task[w].s = task[w].home /\ task[w].d \in Devices
        /\ task[w].pc \in Presenting
        /\ task[w].tok <= minted /\ owner[task[w].tok].s = task[w].s
        /\ task[w].tok # 0 /\ task[w].tok \in Nat
    BY <1>1, BoundsAssumption
       DEF TaskOwned, Presenting, Refreshing, Reading, Sessions, Task
  <1>3. /\ Grows /\ minted + 1 \in Tokens /\ minted' = minted + 1
        /\ owner'[minted + 1] = [s |-> task[w].s, d |-> task[w].d]
    <2>1. made' \in 0..MaxLogins /\ made <= made'
      BY <1>1, BoundsAssumption
    <2> QED
      BY <1>2, <2>1, MintGrows
  <1>4. /\ minted + 1 \in 1..minted' /\ minted \in Nat /\ made \in Nat
        /\ minted' \in Nat /\ minted <= minted'
    BY <1>1, <1>3, BoundsAssumption
  <1>5. ASSUME NEW s \in Sessions PROVE RowOwned(s)'
    <2>1. CASE s = task[w].s
      <3>1. row'[s] = r /\ s <= made' /\ RowOwned(s) /\ row[s] \in Row /\ row[s].live
        BY <1>1, <1>2, <1>4, <2>1, KnownParts DEF RowsOwned
      <3>2. r.prev \in Nat /\ r.prev <= minted
        BY <1>2, <2>1, <3>1 DEF RowOwned, Row
      <3>3. r.prev # 0 => owner[r.prev].s = s
        BY <1>2, <2>1, <3>1 DEF RowOwned
      <3>4. r.prev # 0 => owner'[r.prev] = owner[r.prev]
        BY <1>3, <1>4, <3>2 DEF Grows
      <3>5. r.prev <= minted' /\ r.prev < r.cur
        BY <1>4, <3>2
      <3> QED
        BY <1>3, <1>4, <2>1, <3>1, <3>3, <3>4, <3>5 DEF RowOwned
    <2>2. CASE s # task[w].s
      BY <1>1, <1>3, <2>2, RowKept
    <2> QED
      BY <2>1, <2>2
  <1>6. RowsOwned'
    BY <1>1, <1>5 DEF RowsOwned
  <1>7. TasksOwned'
    <2> DEFINE t == [task[w] EXCEPT !.pc = "cache", !.new = minted + 1]
    <2>1. /\ t \in Task /\ t.pc = "cache" /\ t.new = minted + 1 /\ t.d = task[w].d
          /\ t.tok = task[w].tok /\ t.home = task[w].home /\ t.s = task[w].s
          /\ task' = [task EXCEPT ![w] = t]
      <3>1. minted + 1 \in Nat /\ "cache" \in Pcs
        BY <1>4 DEF Pcs
      <3> QED
        BY <1>1, <3>1 DEF Task
    <2> HIDE DEF t
    <2>2. owner'[t.new] = [s |-> task[w].home, d |-> task[w].d]
      BY <1>2, <1>3, <2>1
    <2>3. t.new \in 1..minted' /\ t.s = task[w].home /\ task[w].pc # "idle"
      BY <1>2, <1>4, <2>1
    <2> QED
      BY <1>2, <1>3, <2>1, <2>2, <2>3, GoesOn
  <1> QED
    BY <1>3, <1>6, <1>7

LEMMA RotateKnown ==
    ASSUME Known, NEW w \in Workers, rotate(w)
    PROVE  Known'
  <1>1. CASE Unchanged(w) /\ Mint(task[w].s, task[w].d)
             /\ row' = [row EXCEPT ![task[w].s] = Rotated(w, minted + 1)]
             /\ task' = [task EXCEPT ![w].pc = "cache", ![w].new = minted + 1]
             /\ strained' \in BOOLEAN
    <2>1. minted + 1 \in Nat /\ task[w].tok \in Nat /\ task[w].tok # 0
      <3>1. minted \in Nat
        BY KnownParts, BoundsAssumption
      <3>2. TaskOwned(w) /\ task[w] \in Task /\ task[w].pc = "rotate"
        BY KnownParts DEF rotate, TasksOwned
      <3> QED
        BY <3>1, <3>2 DEF TaskOwned, Task, Presenting, Refreshing
    <2>2. /\ Rotated(w, minted + 1) \in Row
          /\ Rotated(w, minted + 1).live /\ Rotated(w, minted + 1).cur = minted + 1
          /\ Rotated(w, minted + 1).prev = task[w].tok
      BY <2>1 DEF Rotated, Row
    <2>3. Grows /\ RowsOwned' /\ TasksOwned'
      BY <1>1, <2>1, <2>2, Minting DEF rotate, Unchanged
    <2> QED
      BY <1>1, <2>3, DevicesSame, EntriesSame, Assembled DEF rotate
  <1>2. CASE Goto(w, "refind") /\ UNCHANGED <<row, minted, owner, strained>>
    <2>1. Grows
      BY <1>2, NothingMinted DEF rotate
    <2>2. TasksOwned'
      BY <1>2, <2>1, GotoGoes DEF rotate, Pcs, Presenting, Refreshing, Reading
    <2> QED
      BY <1>2, <2>1, <2>2, RowsSame, DevicesSame, EntriesSame, KnownParts,
         Assembled DEF rotate
  <1> QED
    BY <1>1, <1>2, KnownParts DEF rotate

LEMMA ReissueKnown ==
    ASSUME Known, NEW w \in Workers, reissue(w)
    PROVE  Known'
  <1>1. CASE Unchanged(w) /\ Mint(task[w].s, task[w].d)
             /\ row' = [row EXCEPT ![task[w].s] = Reissued(task[w].s, minted + 1)]
             /\ task' = [task EXCEPT ![w].pc = "cache", ![w].new = minted + 1]
    <2> DEFINE s == task[w].s
    <2>1. minted + 1 \in Nat /\ s \in Sessions
      <3>1. minted \in Nat /\ made \in 0..MaxLogins
        BY KnownParts, BoundsAssumption
      <3>2. TaskOwned(w) /\ task[w].pc = "reissue"
        BY KnownParts DEF reissue, TasksOwned
      <3>3. s \in 1..made
        BY <3>2 DEF TaskOwned, Presenting, Refreshing, Reading
      <3> QED
        BY <3>1, <3>3, BoundsAssumption DEF Sessions
    <2>2. row[s] \in Row /\ RowOwned(s)
      BY <2>1, KnownParts DEF RowsOwned
    <2>3. /\ Reissued(s, minted + 1) \in Row
          /\ Reissued(s, minted + 1).live = row[s].live
          /\ Reissued(s, minted + 1).cur = minted + 1
          /\ Reissued(s, minted + 1).prev = row[s].prev
          /\ Reissued(s, minted + 1).grace = row[s].grace
      BY <2>1, <2>2 DEF Reissued, Row
    <2>4. Grows /\ RowsOwned' /\ TasksOwned'
      BY <1>1, <2>2, <2>3, Minting DEF reissue, Unchanged, RowOwned
    <2> QED
      BY <2>4, DevicesSame, EntriesSame, KnownParts, Assembled DEF reissue
  <1>2. CASE Goto(w, "regrace") /\ UNCHANGED <<row, minted, owner>>
    <2>1. Grows
      BY <1>2, NothingMinted DEF reissue
    <2>2. TasksOwned'
      BY <1>2, <2>1, GotoGoes DEF reissue, Pcs, Presenting, Refreshing, Reading
    <2> QED
      BY <1>2, <2>1, <2>2, RowsSame, DevicesSame, EntriesSame, KnownParts,
         Assembled DEF reissue
  <1> QED
    BY <1>1, <1>2 DEF reissue

LEMMA PollKnown ==
    ASSUME Known, NEW w \in Workers, pollCache(w)
    PROVE  Known'
  <1>1. Grows
    BY NothingMinted DEF pollCache
  <1>2. /\ task[w].pc = "poll" /\ task[w] \in Task /\ TaskOwned(w)
        /\ minted \in 0..MaxTokens /\ made \in 0..MaxLogins
    BY KnownParts DEF pollCache, TasksOwned
  <1>3. CASE Cached(w) /\ Answer(w, cache[task[w].tok], task[w].s)
             /\ UNCHANGED strained
    <2> DEFINE t == task[w].tok
    <2>1. /\ t \in Tokens /\ owner[t] = [s |-> task[w].home, d |-> task[w].d]
          /\ task[w].s = task[w].home /\ task[w].home \in 1..made
      BY <1>2, BoundsAssumption
         DEF TaskOwned, Task, Presenting, Refreshing, Reading, Tokens
    <2>2. /\ cache[t] \in Nat /\ cache[t] # 0 /\ cache[t] <= minted
          /\ owner[cache[t]] = owner[t]
      BY <1>3, <2>1, KnownParts DEF Cached, EntriesOwned, CacheOwned
    <2>3. /\ task[w].s \in Nat /\ task[w].s # 0 /\ task[w].s <= made'
          /\ minted' = minted /\ owner' = owner
      BY <1>2, <2>1, BoundsAssumption DEF pollCache
    <2>4. DevicesOwned' /\ TasksOwned'
      BY <1>1, <1>2, <1>3, <2>1, <2>2, <2>3, Answered
    <2> QED
      BY <1>1, <1>3, <2>4, RowsSame, EntriesSame, KnownParts, Assembled DEF pollCache
  <1>4. CASE Goto(w, "reissue") /\ strained' = TRUE /\ UNCHANGED device
    <2>1. TasksOwned'
      BY <1>1, <1>2, <1>4, GotoGoes DEF TaskOwned, Pcs, Presenting, Refreshing, Reading
    <2> QED
      BY <1>1, <1>4, <2>1, RowsSame, DevicesSame, EntriesSame, Assembled DEF pollCache
  <1> QED
    BY <1>3, <1>4 DEF pollCache

LEMMA RegraceKnown ==
    ASSUME Known, NEW w \in Workers, regrace(w)
    PROVE  Known'
  <1>1. Grows
    BY NothingMinted DEF regrace
  <1>2. task[w].pc \in Presenting /\ task[w].pc # "idle"
    BY DEF regrace, Presenting, Refreshing
  <1>3. ASSUME NEW s \in Match(task[w].tok),
               task[w].att + 1 < GRACE_REISSUE_ATTEMPTS,
               task' = [task EXCEPT ![w].pc = "reissue", ![w].s = s,
                                    ![w].cur = row[s].cur, ![w].att = @ + 1]
        PROVE  TasksOwned'
    <2> DEFINE t == [task[w] EXCEPT !.pc = "reissue", !.s = s, !.cur = row[s].cur,
                                    !.att = @ + 1]
    <2>1. task \in [Workers -> Task] /\ task[w] \in Task
      BY KnownParts DEF TasksOwned
    <2>2. s = task[w].home /\ s \in Nat /\ row[s].cur \in Nat
      BY <1>2, MatchIsHome DEF Sessions
    <2>3. task[w].att + 1 \in 0..GRACE_REISSUE_ATTEMPTS
      BY <1>3, <2>1 DEF Task, GRACE_REISSUE_ATTEMPTS
    <2>4. /\ t \in Task /\ t.pc = "reissue" /\ t.s = s
          /\ t.d = task[w].d /\ t.tok = task[w].tok /\ t.home = task[w].home
          /\ task' = [task EXCEPT ![w] = t]
      BY <1>3, <2>1, <2>2, <2>3 DEF Task, Pcs, Refreshing
    <2> HIDE DEF t
    <2> QED
      BY <1>1, <1>2, <2>2, <2>4, GoesOn
  <1>4. CASE Busy(w)
    BY <1>1, <1>2, <1>4, BusyOwned, RowsSame, EntriesSame, KnownParts, Assembled
       DEF regrace
  <1> QED
    BY <1>1, <1>3, <1>4, RowsSame, DevicesSame, EntriesSame, KnownParts, Assembled
       DEF regrace

LEMMA CachePairKnown ==
    ASSUME Known, NEW w \in Workers, cacheGracePair(w)
    PROVE  Known'
  <1>1. Grows
    BY NothingMinted DEF cacheGracePair
  <1>2. /\ task[w].pc = "cache" /\ task[w] \in Task /\ TaskOwned(w)
        /\ minted \in 0..MaxTokens /\ made \in 0..MaxLogins
        /\ minted' = minted /\ made' = made /\ owner' = owner
    BY KnownParts DEF cacheGracePair, TasksOwned
  <1>3. /\ task[w].new \in Nat /\ task[w].new # 0 /\ task[w].new <= minted
        /\ owner[task[w].new] = [s |-> task[w].home, d |-> task[w].d]
        /\ task[w].tok \in 1..minted /\ owner[task[w].tok] = owner[task[w].new]
        /\ task[w].s = task[w].home /\ task[w].s \in 1..made
    BY <1>2, BoundsAssumption
       DEF TaskOwned, Task, Presenting, Refreshing, Reading
  <1>4. DevicesOwned' /\ TasksOwned'
    <2>1. task[w].s \in Nat /\ task[w].s # 0 /\ task[w].s <= made'
      BY <1>2, <1>3, BoundsAssumption
    <2> QED
      BY <1>1, <1>2, <1>3, <2>1, Answered DEF cacheGracePair
  <1>5. EntriesOwned'
    <2>1. cache \in [Tokens -> Nat] /\ cache' \in [Tokens -> Nat]
      BY <1>3, KnownParts DEF EntriesOwned, cacheGracePair
    <2>2. ASSUME NEW t \in Tokens PROVE CacheOwned(t)'
      <3>1. CASE cache'[t] = cache[t]
        BY <1>1, <3>1, CacheKept
      <3>2. CASE cache'[t] # cache[t]
        <4>1. t = task[w].tok /\ cache'[t] = task[w].new
          BY <2>1, <3>2 DEF cacheGracePair
        <4>2. t <= minted
          BY <1>2, <1>3, <4>1, BoundsAssumption
        <4> QED
          BY <1>2, <1>3, <4>1, <4>2 DEF CacheOwned
      <3> QED
        BY <3>1, <3>2
    <2> QED
      BY <2>1, <2>2 DEF EntriesOwned
  <1> QED
    BY <1>1, <1>4, <1>5, RowsSame, KnownParts, Assembled DEF cacheGracePair

\* Deleting rows takes no token to a new place.
LEMMA RowsDeleted ==
    ASSUME Known, Grows, NEW S \in SUBSET Sessions,
           row' = [s \in Sessions |-> IF s \in S THEN NoRow ELSE row[s]]
    PROVE  RowsOwned'
  <1>1. row' \in [Sessions -> Row]
    BY KnownParts, IdleIsTask DEF RowsOwned
  <1> QED
    BY <1>1, RowsKept

LEMMA DeletingKnown ==
    ASSUME Known, NEW S \in SUBSET Sessions,
           row' = [s \in Sessions |-> IF s \in S THEN NoRow ELSE row[s]],
           UNCHANGED <<made, minted, cache, device, owner, strained>>,
           \/ UNCHANGED task
           \/ \E w \in Workers : End(w)
    PROVE  Known'
  <1>1. Grows
    BY NothingMinted
  <1>2. TasksOwned'
    BY <1>1, TasksSame, Ended
  <1> QED
    BY <1>1, <1>2, RowsDeleted, DevicesSame, EntriesSame, KnownParts, Assembled

LEMMA RevokeKnown ==
    ASSUME Known, NEW w \in Workers, revokeOnReuse(w)
    PROVE  Known'
  <1>1. Grows
    BY NothingMinted DEF revokeOnReuse
  <1>2. DevicesOwned' /\ TasksOwned'
    BY <1>1, RefusedOwned DEF revokeOnReuse
  <1>3. RowsOwned'
    <2>1. row' \in [Sessions -> Row] /\ \A s \in Sessions : row'[s] = NoRow
      BY IdleIsTask DEF revokeOnReuse
    <2> QED
      BY <1>1, <2>1, RowsKept
  <1> QED
    BY <1>1, <1>2, <1>3, EntriesSame, KnownParts, Assembled DEF revokeOnReuse

LEMMA SignOutKnown ==
    ASSUME Known, NEW w \in Workers, NEW d \in Devices, SignOut(w, d)
    PROVE  Known'
  <1>1. Grows
    BY NothingMinted DEF SignOut
  <1>2. TasksOwned'
    BY <1>1, SendGoes DEF SignOut
  <1>3. DevicesOwned'
    <2>1. /\ device \in [Devices -> Device] /\ device' \in [Devices -> Device]
          /\ device'[d].tok = 0 /\ device'[d].s = 0
          /\ \A e \in Devices \ {d} : device'[e] = device[e]
      BY KnownParts DEF SignOut, DevicesOwned, Device
    <2>2. ASSUME NEW e \in Devices
          PROVE  /\ device'[e].tok = 0 <=> device'[e].s = 0
                 /\ device'[e].s <= made' /\ DeviceOwned(e)'
      <3>1. CASE e = d
        <4>1. 0 <= made'
          BY BoundsAssumption, <1>1 DEF Grows
        <4> QED
          BY <2>1, <3>1, <4>1 DEF DeviceOwned
      <3>2. CASE e # d
        <4>1. device'[e] = device[e]
          BY <2>1, <3>2
        <4>2. device'[e].s <= made' /\ DeviceOwned(e)'
          BY <1>1, <4>1, DeviceKept
        <4> QED
          BY <4>1, <4>2, KnownParts DEF DevicesOwned
      <3> QED
        BY <3>1, <3>2
    <2> QED
      BY <2>1, <2>2 DEF DevicesOwned
  <1> QED
    BY <1>1, <1>2, <1>3, RowsSame, EntriesSame, KnownParts, Assembled DEF SignOut

LEMMA RevokeOthersKnown ==
    ASSUME Known, NEW w \in Workers, NEW d \in Devices, RevokeOthers(w, d)
    PROVE  Known'
  <1>1. Grows
    BY NothingMinted DEF RevokeOthers
  <1>2. TasksOwned'
    BY <1>1, SendGoes DEF RevokeOthers
  <1> QED
    BY <1>1, <1>2, RowsSame, DevicesSame, EntriesSame, KnownParts, Assembled
       DEF RevokeOthers

LEMMA FindKeepKnown ==
    ASSUME Known, NEW w \in Workers, findKeep(w)
    PROVE  Known'
  <1>1. Grows
    BY NothingMinted DEF findKeep
  <1>2. ASSUME NEW s \in Live,
               task' = [task EXCEPT ![w].pc = "others", ![w].s = s]
        PROVE  TasksOwned'
    <2> DEFINE t == [task[w] EXCEPT !.pc = "others", !.s = s]
    <2>1. task \in [Workers -> Task] /\ task[w] \in Task
      BY KnownParts DEF TasksOwned
    <2>2. s \in Nat
      BY BoundsAssumption DEF Live, Sessions
    <2>3. /\ t \in Task /\ t.pc = "others" /\ t.d = task[w].d
          /\ t.tok = task[w].tok /\ t.home = task[w].home
          /\ task' = [task EXCEPT ![w] = t]
      BY <1>2, <2>1, <2>2 DEF Task, Pcs
    <2> HIDE DEF t
    <2> QED
      BY <1>1, <2>2, <2>3, GoesOn DEF findKeep, Presenting, Refreshing, Reading
  <1>3. TasksOwned'
    BY <1>1, <1>2, Ended DEF findKeep
  <1> QED
    BY <1>1, <1>3, RowsSame, DevicesSame, EntriesSame, KnownParts, Assembled
       DEF findKeep

LEMMA GraceEndsKnown ==
    ASSUME Known, NEW s \in Sessions, GraceEnds(s)
    PROVE  Known'
  <1>1. Grows
    BY NothingMinted DEF GraceEnds
  <1>2. RowsOwned'
    <2>1. row \in [Sessions -> Row] /\ row' = [row EXCEPT ![s].grace = FALSE]
      BY KnownParts DEF RowsOwned, GraceEnds
    <2>2. row' \in [Sessions -> Row]
      BY <2>1 DEF Row
    <2> QED
      BY <1>1, <2>1, <2>2, RowsKept
  <1>3. EntriesOwned'
    BY <1>1, EntriesKept, KnownParts DEF EntriesOwned, GraceEnds
  <1>4. strained' \in BOOLEAN
    BY DEF GraceEnds
  <1> QED
    BY <1>1, <1>2, <1>3, <1>4, TasksSame, DevicesSame, Assembled DEF GraceEnds

LEMMA ExpiresKnown ==
    ASSUME Known, NEW s \in Sessions, Expires(s)
    PROVE  Known'
  <1>1. Grows
    BY NothingMinted DEF Expires
  <1>2. row \in [Sessions -> Row] /\ row' = [row EXCEPT ![s].expired = TRUE]
    BY KnownParts DEF RowsOwned, Expires
  <1>3. row' \in [Sessions -> Row]
    BY <1>2 DEF Row
  <1> QED
    BY <1>1, <1>2, <1>3, RowsKept, EntriesSame, TasksSame, DevicesSame, KnownParts,
       Assembled DEF Expires

LEMMA GiveUpKnown ==
    ASSUME Known, NEW d \in Devices, GiveUp(d)
    PROVE  Known'
  <1>1. Grows
    BY NothingMinted DEF GiveUp
  <1>2. device' \in [Devices -> Device]
        /\ \A e \in Devices : device'[e].tok = device[e].tok
                              /\ device'[e].s = device[e].s
    BY KnownParts DEF GiveUp, DevicesOwned, Device
  <1> QED
    BY <1>1, <1>2, DevicesKept, RowsSame, EntriesSame, TasksSame, KnownParts,
       Assembled DEF GiveUp

LEMMA AbandonKnown ==
    ASSUME Known, NEW w \in Workers, Abandon(w)
    PROVE  Known'
  <1>1. Grows
    BY NothingMinted DEF Abandon
  <1> QED
    BY <1>1, Ended, RowsSame, DevicesSame, EntriesSame, KnownParts, Assembled
       DEF Abandon

LEMMA DeletionsKnown ==
    ASSUME Known,
           \/ \E w \in Workers : dropExpired(w) \/ logout(w) \/ deleteOthers(w)
           \/ deleteAllSessions
           \/ \E s \in Sessions : revokeSession(s)
    PROVE  Known'
  <1>0. row \in [Sessions -> Row]
    BY KnownParts DEF RowsOwned
  <1>1. ASSUME NEW w \in Workers, dropExpired(w) PROVE Known'
    <2>1. row' = [s \in Sessions |-> IF s \in {task[w].s} \cap Sessions
                                     THEN NoRow ELSE row[s]]
      BY <1>0, <1>1 DEF dropExpired
    <2> QED
      BY <1>1, <2>1, DeletingKnown DEF dropExpired
  <1>2. ASSUME NEW w \in Workers, logout(w) PROVE Known'
    <2> DEFINE S == {s \in Sessions : row[s].live /\ row[s].cur = task[w].tok}
    <2>1. row' = [s \in Sessions |-> IF s \in S THEN NoRow ELSE row[s]]
      BY <1>2 DEF logout
    <2> QED
      BY <1>2, <2>1, DeletingKnown DEF logout
  <1>3. ASSUME NEW w \in Workers, deleteOthers(w) PROVE Known'
    <2>1. row' = [s \in Sessions |-> IF s \in Sessions \ {task[w].s}
                                     THEN NoRow ELSE row[s]]
      BY <1>3 DEF deleteOthers
    <2> QED
      BY <1>3, <2>1, DeletingKnown DEF deleteOthers
  <1>4. ASSUME deleteAllSessions PROVE Known'
    <2>1. row' = [s \in Sessions |-> IF s \in Sessions THEN NoRow ELSE row[s]]
      BY <1>4 DEF deleteAllSessions
    <2> QED
      BY <1>4, <2>1, DeletingKnown DEF deleteAllSessions
  <1>5. ASSUME NEW s \in Sessions, revokeSession(s) PROVE Known'
    <2>1. row' = [o \in Sessions |-> IF o \in {s} THEN NoRow ELSE row[o]]
      BY <1>0, <1>5 DEF revokeSession
    <2> QED
      BY <1>5, <2>1, DeletingKnown DEF revokeSession
  <1> QED
    BY <1>1, <1>2, <1>3, <1>4, <1>5

LEMMA KnownStep ==
    ASSUME Known, Next
    PROVE  Known'
  <1>1. ASSUME NEW w \in Workers, Serve(w) \/ Abandon(w) PROVE Known'
    BY <1>1, CountKnown, OldestKnown, EvictKnown, LoginKnown, FindKnown,
       RotateKnown, RefindKnown, PollKnown, ReissueKnown, RegraceKnown,
       CachePairKnown, RevokeKnown, FindKeepKnown, AbandonKnown, DeletionsKnown
       DEF Serve
  <1>2. ASSUME NEW w \in Workers, NEW d \in Devices, Request(w, d) PROVE Known'
    BY <1>2, SignInKnown, RefreshKnown, SignOutKnown, RevokeOthersKnown DEF Request
  <1> QED
    BY <1>1, <1>2, GiveUpKnown, GraceEndsKnown, ExpiresKnown, DeletionsKnown DEF Next

LEMMA KnownStutters ==
    ASSUME Known, UNCHANGED vars
    PROVE  Known'
  BY NothingMinted, RowsSame, DevicesSame, TasksSame, EntriesSame, KnownParts,
     Assembled DEF vars

LEMMA KnownAtStart ==
    ASSUME Init
    PROVE  Known
  <1>1. \A s \in Sessions : row[s] = NoRow
    BY DEF Init
  <1>2. \A d \in Devices : device[d] = SignedOut
    BY DEF Init
  <1>3. \A w \in Workers : task[w] = IdleTask
    BY DEF Init
  <1>4. \A t \in Tokens : cache[t] = 0
    BY DEF Init
  <1>5. TypeOK
    <2>1. SignedOut \in Device /\ 0 \in Nat
      BY DEF SignedOut, Device
    <2>2. Nobody \in [s : Nat, d : Devices \cup {NoDevice}]
      BY DEF Nobody
    <2>3. row \in [Sessions -> Row] /\ task \in [Workers -> Task]
      BY IdleIsTask DEF Init
    <2>4. /\ device \in [Devices -> Device] /\ cache \in [Tokens -> Nat]
          /\ owner \in [Tokens -> [s : Nat, d : Devices \cup {NoDevice}]]
      BY <2>1, <2>2 DEF Init
    <2>5. \A d \in Devices : device[d].tok = 0 <=> device[d].s = 0
      BY <1>2 DEF SignedOut
    <2>6. made \in 0..MaxLogins /\ minted \in 0..MaxTokens /\ strained \in BOOLEAN
      BY BoundsAssumption, 0 \in 0..MaxLogins, 0 \in 0..MaxTokens DEF Init
    <2> QED
      BY <2>3, <2>4, <2>5, <2>6 DEF TypeOK
  <1>6. Owned
    <2>1. \A s \in Sessions : RowOwned(s)
      BY <1>1 DEF RowOwned, NoRow
    <2>2. \A d \in Devices : device[d].s <= made /\ DeviceOwned(d)
      BY <1>2 DEF DeviceOwned, SignedOut, Init
    <2>3. \A w \in Workers : TaskOwned(w)
      BY <1>3 DEF TaskOwned, IdleTask, Presenting, Refreshing, Reading
    <2>4. \A t \in Tokens : CacheOwned(t)
      BY <1>4 DEF CacheOwned
    <2> QED
      BY <2>1, <2>2, <2>3, <2>4 DEF Owned
  <1> QED
    BY <1>5, <1>6 DEF Known

\* Every variable keeps its type, whatever handlers and devices do.
THEOREM TypeCorrect == Spec => []TypeOK
  <1>1. Init => Known
    BY KnownAtStart
  <1>2. Known /\ [Next]_vars => Known'
    BY KnownStep, KnownStutters
  <1>3. Known => TypeOK
    BY DEF Known
  <1> QED
    BY <1>1, <1>2, <1>3, PTL DEF Spec

-----------------------------------------------------------------------------
(* Rotation.                                                               *)

\* What a step does to the row of a session that stays.
LEMMA RowSteps ==
    ASSUME Known, Next, NEW s \in Sessions, row[s].live, row'[s].live,
           row'[s] # row[s]
    PROVE  \/ row'[s] = [row[s] EXCEPT !.grace = FALSE]
           \/ row'[s] = [row[s] EXCEPT !.expired = TRUE]
           \/ row'[s] = Reissued(s, minted + 1)
           \/ \E w \in Workers : /\ row'[s] = Rotated(w, minted + 1)
                                 /\ task[w].pc = "rotate" /\ task[w].s = s
                                 /\ row[s].cur = task[w].tok
  <1>0. /\ row \in [Sessions -> Row] /\ NoRow.live = FALSE
        /\ made \in 0..MaxLogins /\ s <= made
    BY KnownParts DEF RowsOwned, RowOwned, NoRow
  <1>1. ASSUME NEW w \in Workers, Serve(w)
        PROVE  \/ row'[s] = Reissued(s, minted + 1)
               \/ /\ row'[s] = Rotated(w, minted + 1)
                  /\ task[w].pc = "rotate" /\ task[w].s = s
                  /\ row[s].cur = task[w].tok
    <2>1. ASSUME evictOldest(w) \/ revokeOnReuse(w) \/ dropExpired(w) PROVE FALSE
      BY <1>0, <2>1 DEF evictOldest, revokeOnReuse, dropExpired
    <2>2. ASSUME logout(w) \/ deleteOthers(w) PROVE FALSE
      BY <1>0, <2>2 DEF logout, deleteOthers
    <2>3. ASSUME loginTransaction(w) PROVE FALSE
      <3>1. s # made + 1
        BY <1>0, BoundsAssumption DEF Sessions
      <3> QED
        BY <1>0, <2>3, <3>1 DEF loginTransaction
    <2>4. ASSUME rotate(w)
          PROVE  /\ row'[s] = Rotated(w, minted + 1)
                 /\ task[w].pc = "rotate" /\ task[w].s = s
                 /\ row[s].cur = task[w].tok
      <3>1. task[w].cur = task[w].tok
        BY <2>4, KnownParts DEF rotate, TasksOwned, TaskOwned
      <3> QED
        BY <1>0, <2>4, <3>1 DEF rotate, Unchanged
    <2>5. ASSUME reissue(w) PROVE row'[s] = Reissued(s, minted + 1)
      BY <1>0, <2>5 DEF reissue
    <2> QED
      BY <1>1, <2>1, <2>2, <2>3, <2>4, <2>5
         DEF Serve, countUserSessions, findOldestSession, find, refind, pollCache,
             regrace, cacheGracePair, findKeep
  <1>2. ASSUME NEW o \in Sessions, revokeSession(o) \/ GraceEnds(o) \/ Expires(o)
        PROVE  \/ row'[s] = [row[s] EXCEPT !.grace = FALSE]
               \/ row'[s] = [row[s] EXCEPT !.expired = TRUE]
    BY <1>0, <1>2 DEF revokeSession, GraceEnds, Expires
  <1>3. ASSUME deleteAllSessions PROVE FALSE
    BY <1>0, <1>3 DEF deleteAllSessions
  <1> QED
    BY <1>1, <1>2, <1>3
       DEF Next, Abandon, Request, SignIn, Refresh, SignOut, RevokeOthers, GiveUp

\* However many refreshes present the same token, and however old the row is
\* that each of them read, a rotation replaces the token the row holds.
THEOREM TokensRotateOnce == Spec => RotatedOnce
  <1>1. Init => Known
    BY KnownAtStart
  <1>2. Known /\ [Next]_vars => Known'
    BY KnownStep, KnownStutters
  <1>3. ASSUME Known, Next, NEW s \in Sessions, row[s].live, row'[s].live,
               row'[s].prev # row[s].prev
        PROVE  row'[s].prev = row[s].cur
    <2>1. row[s] \in Row /\ RowOwned(s)
      BY <1>3, KnownParts DEF RowsOwned
    <2> QED
      <3>1. Reissued(s, minted + 1).prev = row[s].prev
        BY <2>1 DEF Reissued, Row
      <3>2. [row[s] EXCEPT !.grace = FALSE].prev = row[s].prev
            /\ [row[s] EXCEPT !.expired = TRUE].prev = row[s].prev
        BY <2>1 DEF Row
      <3>3. PICK w \in Workers : /\ row'[s] = Rotated(w, minted + 1)
                                 /\ row[s].cur = task[w].tok
        BY <1>3, <3>1, <3>2, RowSteps
      <3> QED
        BY <3>3 DEF Rotated
  <1>4. Known /\ [Next]_vars =>
            [\A s \in Sessions : row[s].live /\ row'[s].live
                                 /\ row'[s].prev # row[s].prev
                                 => row'[s].prev = row[s].cur]_vars
    BY <1>3
  <1> QED
    BY <1>1, <1>2, <1>4, PTL DEF Spec, RotatedOnce

\* No replay brings the grace of a replaced token back.
THEOREM GraceEndsForGood == Spec => GraceNotExtended
  <1>1. Init => Known
    BY KnownAtStart
  <1>2. Known /\ [Next]_vars => Known'
    BY KnownStep, KnownStutters
  <1>3. ASSUME Known, Next, NEW s \in Sessions, row[s].live, ~row[s].grace,
               row'[s].grace
        PROVE  row'[s].prev # row[s].prev
    <2>1. row[s] \in Row /\ RowOwned(s)
      BY <1>3, KnownParts DEF RowsOwned
    <2>2. row'[s].live
      BY <1>3, KnownStep, KnownParts DEF Known, Owned, RowOwned
    <2>3. PICK w \in Workers : /\ row'[s] = Rotated(w, minted + 1)
                               /\ row[s].cur = task[w].tok
      BY <1>3, <2>1, <2>2, RowSteps DEF Reissued, Row
    <2>4. row'[s].prev = row[s].cur
      BY <2>3 DEF Rotated
    <2>5. row[s].prev \in Nat /\ row[s].cur \in Nat /\ row[s].prev < row[s].cur
      BY <1>3, <2>1 DEF RowOwned, Row
    <2> QED
      BY <2>4, <2>5
  <1>4. Known /\ [Next]_vars =>
            [\A s \in Sessions : row[s].live /\ ~row[s].grace /\ row'[s].grace
                                 => row'[s].prev # row[s].prev]_vars
    BY <1>3
  <1> QED
    BY <1>1, <1>2, <1>4, PTL DEF Spec, GraceNotExtended

-----------------------------------------------------------------------------
(* The session limit.                                                      *)

Bounded == Known /\ SessionsBounded

LEMMA Finite ==
    /\ IsFiniteSet(Live) /\ Cardinality(Live) \in Nat
    /\ IsFiniteSet(Creating) /\ Cardinality(Creating) \in Nat
    /\ Cardinality(Creating) <= Cardinality(Workers) /\ Cardinality(Workers) \in Nat
  <1>1. IsFiniteSet(Sessions)
    BY FS_Interval, BoundsAssumption DEF Sessions
  <1>2. Live \subseteq Sessions /\ Creating \subseteq Workers
    BY DEF Live, Creating
  <1> QED
    BY <1>1, <1>2, WorkersAssumption, FS_Subset, FS_CardinalityType

\* Neither a new session nor a new sign-in about to make one.
LEMMA FewerBounded ==
    ASSUME SessionsBounded, Live' \subseteq Live, Creating' \subseteq Creating
    PROVE  SessionsBounded'
  <1>1. /\ IsFiniteSet(Live') /\ Cardinality(Live') <= Cardinality(Live)
        /\ Cardinality(Live') \in Nat
    BY Finite, FS_Subset, FS_CardinalityType
  <1>2. /\ IsFiniteSet(Creating') /\ Cardinality(Creating') <= Cardinality(Creating)
        /\ Cardinality(Creating') \in Nat
    BY Finite, FS_Subset, FS_CardinalityType
  <1> QED
    BY <1>1, <1>2, Finite, LimitAssumption DEF SessionsBounded

LEMMA NoNewCreating ==
    ASSUME Known, NEW w \in Workers, NEW t, task' = [task EXCEPT ![w] = t],
           t.pc # "create"
    PROVE  Creating' \subseteq Creating
  <1>1. \A v \in Workers \ {w} : task'[v] = task[v]
    BY KnownParts DEF TasksOwned
  <1>2. task'[w] = t
    BY KnownParts DEF TasksOwned
  <1> QED
    BY <1>1, <1>2 DEF Creating

\* What every other step does to the sessions and to the sign-ins.
LEMMA OthersNotCreating ==
    ASSUME Known, Next,
           \A w \in Workers : /\ ~countUserSessions(w) /\ ~findOldestSession(w)
                              /\ ~evictOldest(w) /\ ~loginTransaction(w)
    PROVE  Live' \subseteq Live /\ Creating' \subseteq Creating
  <1>0. row \in [Sessions -> Row] /\ NoRow.live = FALSE
        /\ task \in [Workers -> Task] /\ IdleTask.pc = "idle"
    BY KnownParts DEF RowsOwned, TasksOwned, NoRow, IdleTask
  <1>1. Live' \subseteq Live
    <2>1. ASSUME NEW s \in Sessions, row'[s].live PROVE row[s].live
      <3>1. ASSUME NEW w \in Workers, Serve(w) PROVE row[s].live
        <4>1. CASE rotate(w) \/ reissue(w)
          BY <1>0, <2>1, <4>1 DEF rotate, reissue, Unchanged
        <4>2. CASE revokeOnReuse(w) \/ dropExpired(w) \/ logout(w) \/ deleteOthers(w)
          BY <1>0, <2>1, <4>2 DEF revokeOnReuse, dropExpired, logout, deleteOthers
        <4> QED
          BY <2>1, <3>1, <4>1, <4>2
             DEF Serve, find, refind, pollCache, regrace, cacheGracePair, findKeep
      <3>2. ASSUME NEW o \in Sessions, revokeSession(o) PROVE row[s].live
        BY <1>0, <2>1, <3>2 DEF revokeSession
      <3>3. ASSUME NEW o \in Sessions, GraceEnds(o) \/ Expires(o) PROVE row[s].live
        <4>1. row[s] \in Row /\ row[o] \in Row
          BY <1>0
        <4> QED
          BY <1>0, <2>1, <3>3, <4>1 DEF GraceEnds, Expires, Row
      <3>4. ASSUME deleteAllSessions PROVE row[s].live
        BY <1>0, <2>1, <3>4 DEF deleteAllSessions
      <3> QED
        BY <2>1, <3>1, <3>2, <3>3, <3>4
           DEF Next, Abandon, Request, SignIn, Refresh, SignOut, RevokeOthers, GiveUp
    <2> QED
      BY <2>1 DEF Live
  <1>2. Creating' \subseteq Creating
    <2>1. ASSUME NEW v \in Workers, task'[v].pc = "create" PROVE task[v].pc = "create"
      <3>1. ASSUME NEW w \in Workers, Serve(w) \/ Abandon(w) PROVE task[v].pc = "create"
        <4>0. task[w] \in Task
          BY <1>0
        <4>1. CASE find(w) \/ refind(w)
          <5>1. CASE End(w)
            BY <1>0, <2>1, <5>1 DEF End
          <5>2. CASE Goto(w, "revoke")
            BY <1>0, <2>1, <4>0, <5>2 DEF Goto, Task
          <5>3. ASSUME NEW s, SessionExpired(w, s) PROVE task[v].pc = "create"
            BY <1>0, <2>1, <4>0, <5>3 DEF SessionExpired, Task
          <5>4. ASSUME NEW s, task' = [task EXCEPT ![w].pc = "rotate", ![w].s = s,
                                                   ![w].cur = row[s].cur]
                PROVE  task[v].pc = "create"
            BY <1>0, <2>1, <4>0, <5>4 DEF Task
          <5>5. ASSUME NEW s, WithinGrace(w, s) PROVE task[v].pc = "create"
            <6>1. PICK p \in {"poll", "revoke"} :
                    task' = [task EXCEPT ![w].pc = p, ![w].s = s, ![w].cur = row[s].cur]
              BY <5>5 DEF WithinGrace
            <6> QED
              BY <1>0, <2>1, <4>0, <6>1 DEF Task
          <5> QED
            BY <4>1, <5>1, <5>2, <5>3, <5>4, <5>5 DEF find, refind, Refused, Answer
        <4>2. CASE rotate(w) \/ reissue(w)
          <5>1. CASE task' = [task EXCEPT ![w].pc = "cache", ![w].new = minted + 1]
            BY <1>0, <2>1, <4>0, <5>1 DEF Task
          <5>2. ASSUME NEW p \in {"refind", "regrace"}, Goto(w, p)
                PROVE  task[v].pc = "create"
            BY <1>0, <2>1, <4>0, <5>2 DEF Goto, Task
          <5> QED
            BY <4>2, <5>1, <5>2 DEF rotate, reissue
        <4>3. CASE pollCache(w) \/ cacheGracePair(w) \/ revokeOnReuse(w)
          <5>1. CASE End(w)
            BY <1>0, <2>1, <5>1 DEF End
          <5>2. CASE Goto(w, "reissue")
            BY <1>0, <2>1, <4>0, <5>2 DEF Goto, Task
          <5> QED
            BY <4>3, <5>1, <5>2 DEF pollCache, cacheGracePair, revokeOnReuse,
                                    Refused, Answer
        <4>5. CASE regrace(w) \/ findKeep(w)
          <5>1. CASE End(w)
            BY <1>0, <2>1, <5>1 DEF End
          <5>2. ASSUME NEW s, task' = [task EXCEPT ![w].pc = "reissue", ![w].s = s,
                                   ![w].cur = row[s].cur, ![w].att = @ + 1]
                PROVE  task[v].pc = "create"
            BY <1>0, <2>1, <4>0, <5>2 DEF Task
          <5>3. ASSUME NEW s, task' = [task EXCEPT ![w].pc = "others", ![w].s = s]
                PROVE  task[v].pc = "create"
            BY <1>0, <2>1, <4>0, <5>3 DEF Task
          <5> QED
            BY <4>5, <5>1, <5>2, <5>3 DEF regrace, findKeep, Busy, Answer
        <4>4. CASE dropExpired(w) \/ logout(w) \/ deleteOthers(w) \/ Abandon(w)
          BY <1>0, <2>1, <4>4 DEF dropExpired, logout, deleteOthers, Abandon, End
        <4> QED
          BY <3>1, <4>1, <4>2, <4>3, <4>4, <4>5 DEF Serve
      <3>2. ASSUME NEW w \in Workers, NEW d \in Devices, Request(w, d)
            PROVE  task[v].pc = "create"
        <4>1. IdleTask \in Task
          BY IdleIsTask
        <4>2. CASE SignIn(w, d)
          <5>1. [IdleTask EXCEPT !.pc = "count", !.d = d].pc = "count"
            BY <4>1 DEF Task
          <5> QED
            BY <1>0, <2>1, <4>2, <5>1 DEF SignIn
        <4>3. ASSUME NEW pc \in {"find", "logout", "keep"}, Send(w, d, pc)
              PROVE  task[v].pc = "create"
          <5>1. [IdleTask EXCEPT !.pc = pc, !.d = d, !.home = device[d].s,
                                 !.tok = device[d].tok].pc = pc
            BY <4>1 DEF Task
          <5> QED
            BY <1>0, <2>1, <4>3, <5>1 DEF Send
        <4> QED
          BY <3>2, <4>2, <4>3 DEF Request, Refresh, SignOut, RevokeOthers
      <3> QED
        BY <2>1, <3>1, <3>2
           DEF Next, GiveUp, revokeSession, GraceEnds, Expires, deleteAllSessions
    <2> QED
      BY <2>1 DEF Creating
  <1> QED
    BY <1>1, <1>2

\* A sign-in that may create a session has left room for one.
LEMMA SignInBounded ==
    ASSUME Bounded, NEW w \in Workers,
           \/ countUserSessions(w) \/ findOldestSession(w)
           \/ evictOldest(w) \/ loginTransaction(w)
    PROVE  SessionsBounded'
  <1>0. /\ row \in [Sessions -> Row] /\ task \in [Workers -> Task]
        /\ NoRow.live = FALSE /\ IdleTask.pc = "idle" /\ Known /\ SessionsBounded
        /\ made \in 0..MaxLogins
    BY KnownParts DEF Bounded, RowsOwned, TasksOwned, NoRow, IdleTask
  <1>1. /\ Cardinality(Creating') \in Nat
        /\ Cardinality(Creating') <= Cardinality(Workers)
        /\ IsFiniteSet(Creating') /\ IsFiniteSet(Live') /\ Cardinality(Live') \in Nat
    <2>1. Creating' \subseteq Workers /\ Live' \subseteq Sessions
      BY DEF Creating, Live
    <2>2. IsFiniteSet(Sessions)
      BY FS_Interval, BoundsAssumption DEF Sessions
    <2> QED
      BY <2>1, <2>2, WorkersAssumption, FS_Subset, FS_CardinalityType
  <1>2. CASE countUserSessions(w)
    <2>1. CASE Full
      <3>1. Live' \subseteq Live
        BY <1>2 DEF countUserSessions, Live
      <3>2. Creating' \subseteq Creating
        BY <1>0, <1>2, <2>1 DEF countUserSessions, Goto, Creating
      <3> QED
        BY <1>0, <3>1, <3>2, FewerBounded
    <2>2. CASE ~Full
      <3>1. Live' = Live
        BY <1>2 DEF countUserSessions, Live
      <3> QED
        BY <1>1, <2>2, <3>1, Finite, LimitAssumption DEF Full, SessionsBounded
    <2> QED
      BY <2>1, <2>2
  <1>3. CASE findOldestSession(w)
    <2>1. Live' = Live
      BY <1>3 DEF findOldestSession, Live
    <2>2. CASE Live = {}
      <3>1. Cardinality(Live') = 0
        BY <2>1, <2>2, FS_EmptySet
      <3> QED
        BY <1>1, <3>1, Finite, LimitAssumption DEF SessionsBounded
    <2>3. CASE Live # {}
      <3>1. PICK o : task' = [task EXCEPT ![w].pc = "evict", ![w].s = o]
        BY <1>3, <2>3 DEF findOldestSession
      <3>2. Creating' \subseteq Creating
        <4>1. task[w] \in Task
          BY <1>0
        <4> QED
          BY <1>0, <3>1, <4>1 DEF Creating, Task
      <3> QED
        BY <1>0, <2>1, <3>2, FewerBounded
    <2> QED
      BY <2>2, <2>3
  <1>4. CASE evictOldest(w)
    <2> DEFINE s == task[w].s
    <2>1. CASE row[s].live /\ row' = [row EXCEPT ![s] = NoRow] /\ Goto(w, "create")
      <3>1. s \in Sessions
        <4>1. TaskOwned(w) /\ task[w].pc = "evict"
          BY <1>0, <1>4, KnownParts DEF TasksOwned, evictOldest
        <4>2. s \in 1..made
          BY <4>1 DEF TaskOwned
        <4> QED
          BY <1>0, <4>2, BoundsAssumption DEF Sessions
      <3>2. s \in Live /\ Live' = Live \ {s}
        BY <1>0, <2>1, <3>1 DEF Live
      <3>3. w \notin Creating /\ Creating' = Creating \cup {w}
        BY <1>0, <1>4, <2>1 DEF Creating, Goto, evictOldest
      <3>4. Cardinality(Live') = Cardinality(Live) - 1
        BY <3>2, Finite, FS_RemoveElement
      <3>5. Cardinality(Creating') = Cardinality(Creating) + 1
        BY <3>3, Finite, FS_AddElement
      <3> QED
        BY <1>0, <3>4, <3>5, Finite, LimitAssumption DEF SessionsBounded
    <2>2. CASE Busy(w) /\ UNCHANGED row
      <3>1. Live' = Live
        BY <2>2 DEF Live
      <3>2. Creating' \subseteq Creating
        BY <1>0, <2>2 DEF Busy, Answer, End, Creating
      <3> QED
        BY <1>0, <3>1, <3>2, FewerBounded
    <2> QED
      BY <1>4, <2>1, <2>2 DEF evictOldest
  <1>5. CASE loginTransaction(w)
    <2>1. /\ made + 1 \in Sessions
          /\ row' = [row EXCEPT ![made + 1] = [NoRow EXCEPT !.live = TRUE,
                                                            !.cur = minted + 1]]
      BY <1>0, <1>5, BoundsAssumption DEF loginTransaction, Sessions
    <2>2. Live' \subseteq Live \cup {made + 1}
      BY <1>0, <2>1 DEF Live
    <2>3. Cardinality(Live') <= Cardinality(Live) + 1
      <3>1. IsFiniteSet(Live \cup {made + 1})
            /\ Cardinality(Live \cup {made + 1}) <= Cardinality(Live) + 1
        BY Finite, FS_AddElement
      <3>2. Cardinality(Live') <= Cardinality(Live \cup {made + 1})
        BY <2>2, <3>1, FS_Subset
      <3>3. Cardinality(Live \cup {made + 1}) \in Nat
        BY <3>1, FS_CardinalityType
      <3> QED
        BY <1>1, <3>1, <3>2, <3>3, Finite
    <2>4. w \in Creating /\ Creating' = Creating \ {w}
      BY <1>0, <1>5 DEF Creating, loginTransaction, Answer, End
    <2>5. Cardinality(Creating') = Cardinality(Creating) - 1
      BY <2>4, Finite, FS_RemoveElement
    <2> QED
      BY <1>0, <1>1, <2>3, <2>5, Finite, LimitAssumption DEF SessionsBounded
  <1> QED
    BY <1>2, <1>3, <1>4, <1>5

\* The sessions of an account exceed the limit by no more than the sign-ins
\* that overlap, less one: the 6th session of docs/auth.md, for two of them.
THEOREM SessionsStayBounded == Spec => []SessionsBounded
  <1>1. Init => Bounded
    <2>1. ASSUME Init PROVE Live = {} /\ Creating = {}
      BY <2>1 DEF Init, Live, Creating, NoRow, IdleTask
    <2>2. ASSUME Init PROVE SessionsBounded
      BY <2>1, <2>2, FS_EmptySet, Finite, LimitAssumption DEF SessionsBounded
    <2> QED
      BY <2>2, KnownAtStart DEF Bounded
  <1>2. ASSUME Bounded, Next PROVE Bounded'
    <2>1. Known'
      BY <1>2, KnownStep DEF Bounded
    <2>2. CASE \A w \in Workers : /\ ~countUserSessions(w) /\ ~findOldestSession(w)
                                  /\ ~evictOldest(w) /\ ~loginTransaction(w)
      BY <1>2, <2>1, <2>2, OthersNotCreating, FewerBounded DEF Bounded
    <2>3. CASE \E w \in Workers : \/ countUserSessions(w) \/ findOldestSession(w)
                                  \/ evictOldest(w) \/ loginTransaction(w)
      BY <1>2, <2>1, <2>3, SignInBounded DEF Bounded
    <2> QED
      BY <2>2, <2>3
  <1>3. ASSUME Bounded, UNCHANGED vars PROVE Bounded'
    BY <1>3, KnownStutters, FewerBounded DEF Bounded, vars, Live, Creating
  <1>4. Bounded => SessionsBounded
    BY DEF Bounded
  <1> QED
    BY <1>1, <1>2, <1>3, <1>4, PTL DEF Spec
=============================================================================
