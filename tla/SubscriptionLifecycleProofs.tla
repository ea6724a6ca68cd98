--------------------- MODULE SubscriptionLifecycleProofs ---------------------
(***************************************************************************)
(* Theorems about SubscriptionLifecycle, for all users, workers, plans and *)
(* lengths of periods.  IInv is inductive: each action is shown to keep    *)
(* the type, then what rows and histories say of each other, then what the *)
(* workers have decided.                                                   *)
(***************************************************************************)
EXTENDS SubscriptionLifecycle, TLAPS

IInv == TypeOK /\ Inductive

\* The written rows are rows.
LEMMA RowsAreRows ==
    ASSUME NEW r \in SubscriptionRow, NEW p \in Plans, NEW b \in Nat,
           NEW n \in Nat
    PROVE  /\ FreeRow(n) \in SubscriptionRow
           /\ PaidRow(r, p, b, n) \in SubscriptionRow
           /\ TrialRow(r, n) \in SubscriptionRow
           /\ FreedRow(r) \in SubscriptionRow
           /\ [r EXCEPT !.auto = FALSE] \in SubscriptionRow
  <1> USE DEF SubscriptionRow, RowStatuses
  <1>1. FreeRow(n) \in SubscriptionRow
    BY DaysAssumption DEF FreeRow
  <1>2. PaidRow(r, p, b, n) \in SubscriptionRow
    <2>1. (IF b > n THEN b ELSE n) + PeriodDays \in Nat
      BY DaysAssumption
    <2> QED
      BY <2>1 DEF PaidRow
  <1>3. TrialRow(r, n) \in SubscriptionRow
    <2>1. n + TrialDays \in Nat
      BY DaysAssumption
    <2> QED
      BY <2>1, PlansAssumption DEF TrialRow
  <1>4. FreedRow(r) \in SubscriptionRow
    BY DEF FreedRow
  <1> QED
    BY <1>1, <1>2, <1>3, <1>4

LEMMA RewrittenIsRow ==
    \A r \in SubscriptionRow : /\ FreedRow(r) \in SubscriptionRow
                               /\ [r EXCEPT !.auto = FALSE] \in SubscriptionRow
  BY DEF FreedRow, SubscriptionRow, RowStatuses

\* An expired row is a paid one whose time, and grace if it has any, is over.
LEMMA ExpiredHasLapsed ==
    ASSUME TypeOK, NEW u \in Users, Expired(u)
    PROVE  Lapsed(u) /\ isPaidPlan(row[u])
  <1>1. row[u] \in SubscriptionRow /\ now \in Nat
    BY DEF TypeOK
  <1> QED
    BY <1>1, DaysAssumption
       DEF Expired, getSubscriptionStatus, InGrace, Lapsed, isPaidPlan,
           SubscriptionRow

-----------------------------------------------------------------------------
LEMMA IdleIsTask == IdleTask \in Task
  BY DEF IdleTask, Task, Pcs

\* Init establishes the invariant: no row has a history, no worker a decision.
THEOREM InitSound == Init => IInv
  <1> SUFFICES ASSUME Init PROVE IInv
    OBVIOUS
  <1>1. FreeRow(0) \in SubscriptionRow
    BY DaysAssumption DEF FreeRow, SubscriptionRow, RowStatuses
  <1>2. TypeOK
    BY <1>1, IdleIsTask DEF Init, TypeOK
  <1>3. PaidTimeIsKept /\ NoUnpaidAccess /\ TrialIsOnce
    BY DaysAssumption
       DEF Init, PaidTimeIsKept, NoUnpaidAccess, Accounted, TrialIsOnce, FreeRow,
           isPaidPlan
  <1>4. \A u \in Users : HistoryIsSound(u) /\ SettlementIsSound(u)
    BY DEF Init, HistoryIsSound, SettlementIsSound, FreeRow
  <1>5. \A w \in Workers : DecisionIsSound(task[w])
    BY DEF Init, DecisionIsSound, DecidedBy, IdleTask
  <1> QED
    BY <1>2, <1>3, <1>4, <1>5 DEF IInv, Inductive

-----------------------------------------------------------------------------
(* What an action does to the rows and their histories.                    *)

\* The part of the invariant that is about users alone.
UsersSound ==
    /\ PaidTimeIsKept /\ NoUnpaidAccess /\ TrialIsOnce
    /\ \A u \in Users : HistoryIsSound(u) /\ SettlementIsSound(u)

LEMMA AccountedType == TypeOK => \A u \in Users : Accounted(u) \in Nat
  BY DaysAssumption DEF TypeOK, Accounted

\* What payments and trials account for only grows.
LEMMA AccountedGrows ==
    ASSUME IInv, NEW u \in Users, now' \in Nat, now' >= now,
           trials'[u] = trials[u] \/ trials'[u] = trials[u] + 1,
           settled'[u] = settled[u]
    PROVE  /\ Accounted(u)' \in Nat /\ Accounted(u)' >= Accounted(u)
           /\ trials'[u] = trials[u] + 1 =>
                 Accounted(u)' >= Accounted(u) + TrialDays
  <1> DEFINE d == TrialDays * trials[u]
             e == PeriodDays * settled[u]
  <1>1. d \in Nat /\ e \in Nat /\ now \in Nat
    BY DaysAssumption DEF IInv, TypeOK
  <1>2. /\ TrialDays * trials'[u] \in {d, d + TrialDays}
        /\ trials'[u] = trials[u] + 1 => TrialDays * trials'[u] = d + TrialDays
    BY DaysAssumption DEF IInv, TypeOK
  <1>3. PeriodDays * settled'[u] = e
    OBVIOUS
  <1>4. Accounted(u) = now + FreeDays + d + e
    BY DEF Accounted
  <1>5. /\ Accounted(u)' \in {now' + FreeDays + d + e,
                              now' + FreeDays + (d + TrialDays) + e}
        /\ trials'[u] = trials[u] + 1 =>
              Accounted(u)' = now' + FreeDays + (d + TrialDays) + e
    BY <1>2, <1>3 DEF Accounted
  <1> HIDE DEF d, e
  <1> QED
    BY <1>1, <1>4, <1>5, DaysAssumption

\* What a settlement has read stays good when its row is written by others.
LEMMA SettlementKept ==
    ASSUME IInv, NEW u \in Users, UNCHANGED open, Accounted(u)' \in Nat,
           Accounted(u)' >= Accounted(u), u \in paying => owed'[u] = owed[u]
    PROVE  SettlementIsSound(u)'
  <1>1. Accounted(u) \in Nat /\ base[u] \in Nat
    BY AccountedType DEF IInv, TypeOK
  <1>2. SettlementIsSound(u)
    BY DEF IInv, Inductive
  <1> QED
    BY <1>1, <1>2 DEF SettlementIsSound, open

\* A write that keeps renewDate and the trial mark, and at most frees the row.
LEMMA RowRewritten ==
    ASSUME IInv, NEW u \in Users, NEW r \in SubscriptionRow,
           row' = [row EXCEPT ![u] = r],
           r.renew = row[u].renew, r.trialled = row[u].trialled,
           r.plan = row[u].plan \/ (r.plan = 0 /\ r.status = "downgraded"),
           r.status = row[u].status \/ r.status = "downgraded",
           UNCHANGED <<now, created, open, settled, trials, owed>>
    PROVE  UsersSound'
  <1> USE DEF IInv, TypeOK, Inductive
  <1>1. \A v \in Users : row'[v].renew = row[v].renew
    OBVIOUS
  <1>2. PaidTimeIsKept'
    BY <1>1 DEF PaidTimeIsKept
  <1>3. NoUnpaidAccess'
    BY <1>1 DEF NoUnpaidAccess, Accounted, isPaidPlan
  <1>4. TrialIsOnce'
    BY DEF TrialIsOnce
  <1>5. ASSUME NEW v \in Users PROVE HistoryIsSound(v)'
    <2>1. /\ row'[v].trialled = row[v].trialled
          /\ \/ row'[v].plan = row[v].plan
             \/ row'[v].plan = 0 /\ row'[v].status = "downgraded"
          /\ row'[v].status = row[v].status \/ row'[v].status = "downgraded"
      OBVIOUS
    <2>2. HistoryIsSound(v)
      OBVIOUS
    <2> QED
      BY <2>1, <2>2 DEF HistoryIsSound, open, isPaidPlan
  <1>6. ASSUME NEW v \in Users PROVE SettlementIsSound(v)'
    BY AccountedGrows, SettlementKept
  <1> QED
    BY <1>2, <1>3, <1>4, <1>5, <1>6 DEF UsersSound

\* Time goes on, or payments of created rows are opened, given up, read for
\* or rolled back.
LEMMA RowsKept ==
    ASSUME IInv, now' \in Nat, now' >= now,
           \A u \in Users : pending'[u] # pending[u] => u \in created,
           \A u \in Users : u \in paying' =>
              pending'[u] # 0 /\ owed[u] <= base'[u] /\ base'[u] <= Accounted(u),
           base' \in [Users -> Nat],
           UNCHANGED <<row, created, settled, trials, owed>>
    PROVE  UsersSound'
  <1> USE DEF IInv, TypeOK, Inductive
  <1>0. ASSUME NEW u \in Users
        PROVE  /\ Accounted(u) \in Nat /\ Accounted(u)' \in Nat
               /\ Accounted(u)' >= Accounted(u)
    BY AccountedType, AccountedGrows
  <1>1. PaidTimeIsKept'
    BY DEF PaidTimeIsKept
  <1>2. NoUnpaidAccess'
    <2> SUFFICES ASSUME NEW u \in Users PROVE row[u].renew <= Accounted(u)'
      BY DEF NoUnpaidAccess, isPaidPlan
    <2>1. row[u].renew \in Nat /\ row[u].renew <= Accounted(u)
      BY DEF NoUnpaidAccess, SubscriptionRow
    <2> QED
      BY <1>0, <2>1
  <1>3. TrialIsOnce'
    BY DEF TrialIsOnce
  <1>4. ASSUME NEW u \in Users PROVE HistoryIsSound(u)'
    BY DEF HistoryIsSound
  <1>5. ASSUME NEW u \in Users PROVE SettlementIsSound(u)'
    BY <1>0 DEF SettlementIsSound
  <1> QED
    BY <1>1, <1>2, <1>3, <1>4, <1>5 DEF UsersSound

\* The same when the payments stay as they are.
LEMMA RowsSame ==
    ASSUME IInv, now' \in Nat, now' >= now,
           UNCHANGED <<row, created, open, settled, trials, owed>>
    PROVE  UsersSound'
  <1>1. /\ \A u \in Users : pending'[u] # pending[u] => u \in created
        /\ base' \in [Users -> Nat]
    BY DEF open, IInv, TypeOK
  <1>2. \A u \in Users : u \in paying' =>
           pending'[u] # 0 /\ owed[u] <= base'[u] /\ base'[u] <= Accounted(u)
    BY DEF open, IInv, Inductive, SettlementIsSound
  <1> QED
    BY <1>1, <1>2, RowsKept

\* A new row has no history yet.
LEMMA RowCreated ==
    ASSUME IInv, NEW u \in Users, upsertFree(u)
    PROVE  UsersSound'
  <1> USE DEF IInv, TypeOK, Inductive, upsertFree, history, open
  <1>1. /\ row'[u] = FreeRow(now)
        /\ \A v \in Users \ {u} : row'[v] = row[v]
    OBVIOUS
  <1>2. settled[u] = 0 /\ trials[u] = 0 /\ owed[u] = 0
    BY DEF HistoryIsSound
  <1>3. PaidTimeIsKept'
    BY <1>1, <1>2, DaysAssumption DEF PaidTimeIsKept, FreeRow
  <1>4. NoUnpaidAccess'
    <2> SUFFICES ASSUME NEW v \in Users
                 PROVE  /\ isPaidPlan(row'[v]) => settled[v] > 0 \/ trials[v] > 0
                        /\ row'[v].renew <= Accounted(v)
      BY DEF NoUnpaidAccess, Accounted, isPaidPlan
    <2>1. CASE v = u
      BY <2>1, <1>1, <1>2, DaysAssumption DEF FreeRow, Accounted, isPaidPlan
    <2>2. CASE v # u
      BY <2>2, <1>1 DEF NoUnpaidAccess
    <2> QED
      BY <2>1, <2>2
  <1>5. TrialIsOnce'
    BY <1>1, <1>2 DEF TrialIsOnce, FreeRow
  <1>6. ASSUME NEW v \in Users PROVE HistoryIsSound(v)'
    BY <1>1, <1>2 DEF HistoryIsSound, FreeRow
  <1>7. ASSUME NEW v \in Users PROVE SettlementIsSound(v)'
    BY DEF SettlementIsSound, Accounted
  <1> QED
    BY <1>3, <1>4, <1>5, <1>6, <1>7 DEF UsersSound

\* A trial starts on a row without history, so nothing is owed beyond it.
LEMMA TrialStarted ==
    ASSUME IInv, NEW u \in created, TrialEligible(u),
           row' = [row EXCEPT ![u] = TrialRow(@, now)],
           trials' = [trials EXCEPT ![u] = @ + 1],
           IF u \in paying THEN UNCHANGED owed ELSE Give(u, TrialDays),
           UNCHANGED <<now, created, open, settled>>
    PROVE  UsersSound'
  <1> USE DEF IInv, TypeOK, Inductive, TrialEligible, Give
  <1>0. u \in Users
    OBVIOUS
  <1>1. /\ row'[u] = TrialRow(row[u], now)
        /\ \A v \in Users \ {u} : row'[v] = row[v]
    OBVIOUS
  <1>2. trials[u] = 0 /\ settled[u] = 0 /\ owed[u] = 0
    BY <1>0 DEF HistoryIsSound, isPaidPlan
  <1>3. /\ row'[u].plan = TrialPlan /\ row'[u].renew = now + TrialDays
        /\ row'[u].trialled /\ trials'[u] = 1
        /\ owed'[u] = now + TrialDays \/ (u \in paying /\ owed'[u] = 0)
        /\ \A v \in Users \ {u} : owed'[v] = owed[v] /\ trials'[v] = trials[v]
    BY <1>0, <1>1, <1>2 DEF TrialRow, SubscriptionRow
  <1>4. PaidTimeIsKept'
    BY <1>1, <1>3, DaysAssumption DEF PaidTimeIsKept
  <1>5. NoUnpaidAccess'
    <2> SUFFICES ASSUME NEW v \in Users
                 PROVE  /\ isPaidPlan(row'[v]) => settled[v] > 0 \/ trials'[v] > 0
                        /\ row'[v].renew <= Accounted(v)'
      BY DEF NoUnpaidAccess, isPaidPlan
    <2>1. CASE v = u
      BY <2>1, <1>2, <1>3, DaysAssumption DEF Accounted
    <2>2. CASE v # u
      BY <2>2, <1>1, <1>3 DEF NoUnpaidAccess, Accounted
    <2> QED
      BY <2>1, <2>2
  <1>6. TrialIsOnce'
    BY <1>1, <1>2, <1>3 DEF TrialIsOnce
  <1>7. ASSUME NEW v \in Users PROVE HistoryIsSound(v)'
    <2>1. CASE v = u
      BY <2>1, <1>0, <1>2, <1>3 DEF HistoryIsSound, open
    <2>2. CASE v # u
      BY <2>2, <1>1, <1>3 DEF HistoryIsSound, open
    <2> QED
      BY <2>1, <2>2
  <1>8. ASSUME NEW v \in Users PROVE SettlementIsSound(v)'
    <2>1. trials'[v] = trials[v] \/ trials'[v] = trials[v] + 1
      OBVIOUS
    <2>2. v \in paying => owed'[v] = owed[v]
      BY <1>2, <1>3
    <2> QED
      BY <2>1, <2>2, AccountedGrows, SettlementKept
  <1> QED
    BY <1>4, <1>5, <1>6, <1>7, <1>8 DEF UsersSound

\* A settled payment extends the row by what the history says is owed.
LEMMA PaymentSettled ==
    ASSUME IInv, NEW u \in Users, processSuccessfulPayment(u)
    PROVE  UsersSound'
  <1> USE DEF IInv, TypeOK, Inductive, processSuccessfulPayment,
           SettlementEnds, Give
  <1> DEFINE from == IF base[u] > now THEN base[u] ELSE now
             last == IF owed[u] > now THEN owed[u] ELSE now
  <1>1. /\ row'[u] = PaidRow(row[u], pending[u], base[u], now)
        /\ \A v \in Users \ {u} : row'[v] = row[v]
        /\ u \in created /\ pending[u] \in Plans
        /\ owed[u] <= base[u] /\ base[u] <= Accounted(u)
    BY DEF HistoryIsSound, SettlementIsSound
  <1>2. /\ row'[u].status = "active" /\ row'[u].trialled = row[u].trialled
        /\ isPaidPlan(row'[u])
        /\ row'[u].renew = from + PeriodDays
        /\ settled'[u] = settled[u] + 1 /\ owed'[u] = last + PeriodDays
    BY <1>1, PlansAssumption DEF PaidRow, SubscriptionRow, isPaidPlan
  <1>3. base[u] \in Nat /\ owed[u] \in Nat /\ now \in Nat
    BY DEF SubscriptionRow
  <1>4. PaidTimeIsKept'
    <2>1. from + PeriodDays >= last + PeriodDays
      BY <1>1, <1>3, DaysAssumption
    <2> HIDE DEF from, last
    <2> QED
      BY <2>1, <1>1, <1>2 DEF PaidTimeIsKept
  <1>5. NoUnpaidAccess'
    <2> SUFFICES ASSUME NEW v \in Users
                 PROVE  /\ isPaidPlan(row'[v]) => settled'[v] > 0 \/ trials[v] > 0
                        /\ row'[v].renew <= Accounted(v)'
      BY DEF NoUnpaidAccess, isPaidPlan
    <2>1. CASE v = u
      <3> DEFINE d == TrialDays * trials[u]
                 e == PeriodDays * settled[u]
      <3>1. d \in Nat /\ e \in Nat
        BY DaysAssumption
      <3>2. PeriodDays * settled'[u] = e + PeriodDays
        BY <1>2, DaysAssumption
      <3>3. base[u] <= now + FreeDays + d + e
        BY <1>1 DEF Accounted
      <3> HIDE DEF d, e
      <3>4. from + PeriodDays <= now + FreeDays + d + (e + PeriodDays)
        BY <3>1, <3>3, <1>3, DaysAssumption
      <3>5. row'[u].renew <= now + FreeDays + d + PeriodDays * settled'[u]
        BY <3>2, <3>4, <1>2
      <3> QED
        BY <2>1, <3>5, <1>2 DEF d, Accounted
    <2>2. CASE v # u
      BY <2>2, <1>1 DEF NoUnpaidAccess, Accounted
    <2> QED
      BY <2>1, <2>2
  <1>6. TrialIsOnce'
    BY <1>1, <1>2 DEF TrialIsOnce
  <1>7. ASSUME NEW v \in Users PROVE HistoryIsSound(v)'
    <2>1. CASE v = u
      BY <2>1, <1>1, <1>2 DEF HistoryIsSound
    <2>2. CASE v # u
      BY <2>2, <1>1 DEF HistoryIsSound
    <2> QED
      BY <2>1, <2>2
  <1>8. ASSUME NEW v \in Users PROVE SettlementIsSound(v)'
    BY DEF SettlementIsSound, Accounted
  <1> QED
    BY <1>4, <1>5, <1>6, <1>7, <1>8 DEF UsersSound

-----------------------------------------------------------------------------
(* What an action does to the decisions of the workers.                    *)

\* How a row may change under a worker that has decided on it.
RowMoves(u) ==
    \/ row'[u] = row[u]
    \/ row'[u] = FreedRow(row[u])
    \/ row'[u] = [row[u] EXCEPT !.auto = FALSE]
    \/ u \notin created
    \/ TrialEligible(u)
    \/ settled'[u] > settled[u]

\* A decision stays sound under all of these.
LEMMA DecisionKept ==
    ASSUME IInv, TypeOK', NEW t \in Task, DecisionIsSound(t),
           created \subseteq created', now' >= now,
           \A u \in Users : settled'[u] >= settled[u],
           \A u \in Users : RowMoves(u)
    PROVE  DecisionIsSound(t)'
  <1> USE DEF IInv, TypeOK
  <1>1. t.seen \in [Users -> Nat] /\ t.todo \subseteq Users
    BY DEF Task
  <1>2. /\ t.pc \in {"trial", "cancel", "readPlan", "downgrade"} => t.u \in created'
        /\ t.todo \subseteq created'
        /\ t.pc = "readPlan" => t.refund
    BY DEF DecisionIsSound
  <1>3. ASSUME NEW u \in Users PROVE t.seen[u] <= settled'[u]
    BY <1>1 DEF DecisionIsSound
  <1>4. ASSUME NEW u \in Users, DecidedBy(t, u)
        PROVE  \/ row'[u].plan = 0 /\ row'[u].status = "downgraded"
               \/ isPaidPlan(row'[u]) /\ Lapsed(u)'
               \/ settled'[u] > t.seen[u]
    <2>1. u \in created
      BY <1>4 DEF DecidedBy, DecisionIsSound
    <2>2. t.seen[u] <= settled[u] /\ t.seen[u] \in Nat
      BY <1>1 DEF DecisionIsSound
    <2>3. CASE settled'[u] > t.seen[u]
      BY <2>3
    <2>4. CASE settled'[u] <= t.seen[u]
      <3>1. settled'[u] = settled[u]
        BY <2>2, <2>4
      <3>2. \/ row[u].plan = 0 /\ row[u].status = "downgraded"
            \/ isPaidPlan(row[u]) /\ Lapsed(u)
        BY <1>4, <2>2, <2>4, <3>1 DEF DecisionIsSound
      <3>3. ~TrialEligible(u)
        BY <3>2 DEF TrialEligible, isPaidPlan
      <3>4. CASE row'[u] = row[u]
        BY <3>2, <3>4, DaysAssumption DEF Lapsed, isPaidPlan, SubscriptionRow
      <3>5. CASE row'[u] = FreedRow(row[u])
        BY <3>5 DEF FreedRow, SubscriptionRow
      <3>6. CASE row'[u] = [row[u] EXCEPT !.auto = FALSE]
        BY <3>2, <3>6, DaysAssumption DEF Lapsed, isPaidPlan, SubscriptionRow
      <3> QED
        BY <2>1, <3>1, <3>3, <3>4, <3>5, <3>6 DEF RowMoves
    <2> QED
      BY <2>2, <2>3, <2>4
  <1> QED
    BY <1>2, <1>3, <1>4 DEF DecisionIsSound, DecidedBy

\* A worker that has just decided on u.
LEMMA JustDecided ==
    ASSUME IInv, NEW u \in created, NEW pc \in {"trial", "cancel", "downgrade"},
           pc = "downgrade" => Expired(u)
    PROVE  LET t == [IdleTask EXCEPT !.pc = pc, !.u = u, !.seen = settled]
           IN  t \in Task /\ DecisionIsSound(t)
  <1> USE DEF IInv, TypeOK
  <1> DEFINE t == [IdleTask EXCEPT !.pc = pc, !.u = u, !.seen = settled]
  <1>1. t.pc = pc /\ t.u = u /\ t.todo = {} /\ t.seen = settled
    BY DEF IdleTask
  <1>2. t \in Task
    BY DEF IdleTask, Task, Pcs
  <1>3. pc = "downgrade" => isPaidPlan(row[u]) /\ Lapsed(u)
    BY ExpiredHasLapsed
  <1> HIDE DEF t
  <1>4. DecisionIsSound(t)
    BY <1>1, <1>3 DEF DecisionIsSound, DecidedBy
  <1> QED
    BY <1>2, <1>4 DEF t

\* An idle worker has decided nothing.
LEMMA IdleIsSound == IInv => DecisionIsSound(IdleTask)
  BY DEF IInv, TypeOK, DecisionIsSound, DecidedBy, IdleTask

-----------------------------------------------------------------------------
(* Types.                                                                  *)

LEMMA TypeStep == IInv /\ [Next]_vars => TypeOK'
  <1> SUFFICES ASSUME IInv, TypeOK, [Next]_vars PROVE TypeOK'
    BY DEF IInv
  <1> USE DEF TypeOK, history, open, SettlementEnds
  <1>1. ASSUME NEW u \in Users, upsertFree(u) PROVE TypeOK'
    <2>1. FreeRow(now) \in SubscriptionRow
      BY DaysAssumption DEF FreeRow, SubscriptionRow, RowStatuses
    <2> QED
      BY <1>1, <2>1 DEF upsertFree
  <1>2. ASSUME NEW w \in Workers, activateTrial(w) PROVE TypeOK'
    <2>1. \A u \in Users : TrialRow(row[u], now) \in SubscriptionRow
      BY RowsAreRows, PlansAssumption
    <2>2. \A u \in Users :
             (IF owed[u] > now THEN owed[u] ELSE now) + TrialDays \in Nat
      BY DaysAssumption
    <2>3. /\ row' \in [Users -> SubscriptionRow]
          /\ trials' \in [Users -> Nat] /\ owed' \in [Users -> Nat]
      BY <1>2, <2>1, <2>2 DEF activateTrial, Give
    <2> QED
      BY <1>2, <2>3, IdleIsTask DEF activateTrial, Done
  <1>3. ASSUME NEW u \in Users, NEW target \in Plans, OpenPayment(u, target)
        PROVE  TypeOK'
    BY <1>3 DEF OpenPayment
  <1>4. ASSUME NEW u \in Users, PaymentFails(u) PROVE TypeOK'
    BY <1>4 DEF PaymentFails
  <1>5. ASSUME NEW u \in Users, processSuccessfulPayment(u) PROVE TypeOK'
    <2>0. pending[u] \in Plans
      BY <1>5 DEF processSuccessfulPayment, IInv, Inductive, SettlementIsSound
    <2>1. PaidRow(row[u], pending[u], base[u], now) \in SubscriptionRow
      BY <2>0, RowsAreRows
    <2>2. (IF owed[u] > now THEN owed[u] ELSE now) + PeriodDays \in Nat
      BY DaysAssumption
    <2> QED
      BY <1>5, <2>1, <2>2 DEF processSuccessfulPayment, Give
  <1>6. ASSUME NEW w \in Workers, BatchRead(w) PROVE TypeOK'
    <2> PICK taken \in SUBSET Expirable :
          task' = [task EXCEPT ![w] = [IdleTask EXCEPT !.pc = "batch",
                     !.seen = settled, !.todo = ToDowngrade(taken)]]
      BY <1>6 DEF BatchRead
    <2>1. [IdleTask EXCEPT !.pc = "batch", !.seen = settled,
                           !.todo = ToDowngrade(taken)] \in Task
      BY DEF IdleTask, Task, Pcs, ToDowngrade, Expirable
    <2> QED
      BY <1>6, <2>1 DEF BatchRead
  <1>7. ASSUME NEW w \in Workers, NEW u \in Users, BatchDowngrade(w, u)
        PROVE  TypeOK'
    <2>1. FreedRow(row[u]) \in SubscriptionRow
      BY DEF FreedRow, SubscriptionRow, RowStatuses
    <2>2. row' \in [Users -> SubscriptionRow]
      BY <1>7, <2>1 DEF BatchDowngrade, downgradeToFreeTx
    <2>3. [task[w] EXCEPT !.todo = @ \ {u}] \in Task
      BY DEF Task
    <2> QED
      BY <1>7, <2>2, <2>3 DEF BatchDowngrade
  <1>8. ASSUME NEW w \in Workers, BatchEnd(w) PROVE TypeOK'
    BY <1>8, IdleIsTask DEF BatchEnd, Done
  <1>9. ASSUME NEW w \in Workers, NEW u \in Users, expireIfNeeded(w, u)
        PROVE  TypeOK'
    BY <1>9 DEF expireIfNeeded, Decide, IdleTask, Task, Pcs
  <1>10. ASSUME NEW w \in Workers, NEW u \in Users, cancelAutoRenew(w, u)
         PROVE  TypeOK'
    BY <1>10 DEF cancelAutoRenew, Decide, IdleTask, Task, Pcs
  <1>11. ASSUME NEW w \in Workers, setAutoRenew(w) PROVE TypeOK'
    <2>1. \A u \in Users : [row[u] EXCEPT !.auto = FALSE] \in SubscriptionRow
      BY DEF SubscriptionRow
    <2>2. row' \in [Users -> SubscriptionRow]
      BY <1>11, <2>1 DEF setAutoRenew
    <2> QED
      BY <1>11, <2>2, IdleIsTask DEF setAutoRenew, Done
  <1>12. ASSUME NEW w \in Workers, NEW u \in Users, markPaymentRefunded(w, u)
         PROVE  TypeOK'
    <2>1. [IdleTask EXCEPT !.pc = "readPlan", !.u = u, !.refund = TRUE] \in Task
      BY DEF IdleTask, Task, Pcs
    <2> QED
      BY <1>12, <2>1 DEF markPaymentRefunded
  <1>13. ASSUME NEW w \in Workers, ReadPlan(w) PROVE TypeOK'
    <2>1. [task[w] EXCEPT !.pc = "downgrade"] \in Task
      BY DEF Task, Pcs
    <2> QED
      BY <1>13, <2>1, IdleIsTask DEF ReadPlan, Done
  <1>14. ASSUME NEW w \in Workers, downgradeUser(w) PROVE TypeOK'
    <2>1. \A u \in Users : FreedRow(row[u]) \in SubscriptionRow
      BY DEF FreedRow, SubscriptionRow, RowStatuses
    <2>2. row' \in [Users -> SubscriptionRow]
      BY <1>14, <2>1 DEF downgradeUser, downgradeToFreeTx
    <2> QED
      BY <1>14, <2>2, IdleIsTask DEF downgradeUser, Done
  <1>15. ASSUME NEW w \in Workers, Abandon(w) PROVE TypeOK'
    BY <1>15, IdleIsTask DEF Abandon, Done
  <1>19. ASSUME NEW u \in Users, settlementReads(u) PROVE TypeOK'
    <2>1. row[u].renew \in Nat
      BY DEF SubscriptionRow
    <2> QED
      BY <1>19, <2>1 DEF settlementReads
  <1>20. ASSUME NEW u \in Users, RollBack(u) PROVE TypeOK'
    BY <1>20 DEF RollBack
  <1>16. CASE Tick
    BY <1>16 DEF Tick
  <1>18. ASSUME NEW w \in Workers, NEW u \in Users, countPayments(w, u)
         PROVE  TypeOK'
    BY <1>18 DEF countPayments, Decide, IdleTask, Task, Pcs
  <1>17. CASE UNCHANGED vars
    BY <1>17 DEF vars
  <1> QED
    BY <1>1, <1>2, <1>3, <1>4, <1>5, <1>6, <1>7, <1>8, <1>9, <1>10, <1>11,
       <1>12, <1>13, <1>14, <1>15, <1>16, <1>17, <1>18, <1>19, <1>20
       DEF Next, Progress

-----------------------------------------------------------------------------
(* The invariant.                                                          *)

\* Every worker goes on with its task, or with a new one that is sound now.
LEMMA DecisionsSound ==
    ASSUME IInv, TypeOK',
           created \subseteq created', now' >= now,
           \A u \in Users : settled'[u] >= settled[u],
           \A u \in Users : RowMoves(u),
           \A v \in Workers : \/ task'[v] = task[v]
                              \/ \E t \in Task : /\ task'[v] = t
                                               /\ DecisionIsSound(t)
    PROVE  \A v \in Workers : DecisionIsSound(task[v])'
  <1> SUFFICES ASSUME NEW v \in Workers PROVE DecisionIsSound(task[v])'
    OBVIOUS
  <1>1. PICK t \in Task : task'[v] = t /\ DecisionIsSound(t)
    BY DEF IInv, TypeOK, Inductive
  <1>2. DecisionIsSound(t)'
    BY <1>1, DecisionKept
  <1> QED
    BY <1>1, <1>2 DEF DecisionIsSound, DecidedBy

\* The same, when worker w alone moves, to a sound task t, and time, payments
\* and created rows stay.
LEMMA WorkerMoves ==
    ASSUME IInv, TypeOK', NEW w \in Workers, NEW t \in Task, DecisionIsSound(t),
           task' = [task EXCEPT ![w] = t],
           UNCHANGED <<now, created, settled>>,
           \A u \in Users : RowMoves(u)
    PROVE  \A v \in Workers : DecisionIsSound(task[v])'
  <1>1. \A v \in Workers : task'[v] = task[v] \/ task'[v] = t
    BY DEF IInv, TypeOK
  <1>2. now' >= now /\ \A u \in Users : settled'[u] >= settled[u]
    BY DEF IInv, TypeOK
  <1> QED
    BY <1>1, <1>2, DecisionsSound

LEMMA RowUntouched == row' = row => \A u \in Users : RowMoves(u)
  BY DEF RowMoves

\* The actions that write a row or open a payment; no worker moves.
LEMMA TableStep ==
    ASSUME IInv, TypeOK', NEW u \in Users,
           \/ upsertFree(u)
           \/ \E target \in Plans : OpenPayment(u, target)
           \/ PaymentFails(u) \/ settlementReads(u)
           \/ processSuccessfulPayment(u) \/ RollBack(u)
    PROVE  Inductive'
  <1> USE DEF history, open
  <1>0. \A v \in Users : HistoryIsSound(v) /\ SettlementIsSound(v)
    BY DEF IInv, Inductive
  <1>1. UsersSound'
    <2>1. CASE upsertFree(u)
      BY <2>1, RowCreated
    <2>3. CASE \/ \E target \in Plans : OpenPayment(u, target)
               \/ PaymentFails(u) \/ settlementReads(u) \/ RollBack(u)
      <3>1. /\ \A v \in Users : pending'[v] # pending[v] => v \in created
            /\ now' \in Nat /\ now' >= now
            /\ UNCHANGED <<row, created, settled, trials, owed>>
        BY <1>0, <2>3 DEF OpenPayment, PaymentFails, settlementReads, RollBack,
                          SettlementEnds, HistoryIsSound, IInv, TypeOK
      <3>2. ASSUME NEW v \in Users, v \in paying'
            PROVE  /\ pending'[v] # 0
                   /\ owed[v] <= base'[v] /\ base'[v] <= Accounted(v)
        <4>1. CASE settlementReads(u) /\ v = u
          BY <4>1 DEF settlementReads, IInv, TypeOK, Inductive, PaidTimeIsKept,
                      NoUnpaidAccess, SubscriptionRow
        <4>2. CASE ~(settlementReads(u) /\ v = u)
          <5>1. /\ v \in paying /\ base'[v] = base[v]
                /\ pending[v] # 0 => pending'[v] = pending[v]
            BY <2>3, <3>2, <4>2
               DEF OpenPayment, PaymentFails, settlementReads, RollBack,
                   SettlementEnds, IInv, TypeOK
          <5> QED
            BY <1>0, <5>1 DEF SettlementIsSound
        <4> QED
          BY <4>1, <4>2
      <3>3. base' \in [Users -> Nat]
        BY DEF TypeOK
      <3> QED
        BY <3>1, <3>2, <3>3, RowsKept
    <2>5. CASE processSuccessfulPayment(u)
      BY <2>5, PaymentSettled
    <2> QED
      BY <2>1, <2>3, <2>5
  <1>2. /\ created \subseteq created' /\ now' >= now /\ task' = task
        /\ \A v \in Users : settled'[v] >= settled[v]
    BY DEF upsertFree, OpenPayment, PaymentFails, settlementReads, RollBack,
           SettlementEnds, processSuccessfulPayment, IInv, TypeOK
  <1>3. \A v \in Users : RowMoves(v)
    <2>1. CASE processSuccessfulPayment(u)
      BY <2>1 DEF processSuccessfulPayment, RowMoves, IInv, TypeOK
    <2>2. CASE upsertFree(u)
      BY <2>2 DEF upsertFree, RowMoves, IInv, TypeOK
    <2>4. CASE row' = row
      BY <2>4, RowUntouched
    <2> QED
      BY <2>1, <2>2, <2>4
         DEF OpenPayment, PaymentFails, settlementReads, RollBack
  <1>4. \A v \in Workers : DecisionIsSound(task[v])'
    BY <1>2, <1>3, DecisionsSound
  <1> QED
    BY <1>1, <1>4 DEF UsersSound, Inductive

\* A worker's step that writes no row.
LEMMA QuietStep ==
    ASSUME IInv, TypeOK', NEW w \in Workers, NEW t \in Task, DecisionIsSound(t),
           task' = [task EXCEPT ![w] = t],
           UNCHANGED <<now, created, row, open, settled, trials, owed>>
    PROVE  Inductive'
  <1>1. now' \in Nat /\ now' >= now
    BY DEF IInv, TypeOK
  <1>3. UsersSound'
    BY <1>1, RowsSame
  <1>4. \A v \in Workers : DecisionIsSound(task[v])'
    BY RowUntouched, WorkerMoves
  <1> QED
    BY <1>3, <1>4 DEF UsersSound, Inductive

\* A worker's step that frees a row or switches its renewal off.
LEMMA WriteStep ==
    ASSUME IInv, TypeOK', NEW w \in Workers, NEW t \in Task, DecisionIsSound(t),
           task' = [task EXCEPT ![w] = t], NEW u \in Users, NEW r \in SubscriptionRow,
           row' = [row EXCEPT ![u] = r],
           r = FreedRow(row[u]) \/ r = [row[u] EXCEPT !.auto = FALSE],
           UNCHANGED <<now, created, open, settled, trials, owed>>
    PROVE  Inductive'
  <1> USE DEF IInv, TypeOK
  <1>1. /\ r.renew = row[u].renew /\ r.trialled = row[u].trialled
        /\ r.plan = row[u].plan \/ (r.plan = 0 /\ r.status = "downgraded")
        /\ r.status = row[u].status \/ r.status = "downgraded"
    BY DEF FreedRow, SubscriptionRow
  <1>2. UsersSound'
    BY <1>1, RowRewritten
  <1>3. \A v \in Users : RowMoves(v)
    BY DEF RowMoves
  <1>4. \A v \in Workers : DecisionIsSound(task[v])'
    BY <1>3, WorkerMoves
  <1> QED
    BY <1>2, <1>4 DEF UsersSound, Inductive

\* Every step of a worker.
LEMMA WorkerStep ==
    ASSUME IInv, TypeOK', NEW w \in Workers,
           \/ BatchRead(w) \/ Progress(w) \/ Abandon(w)
           \/ \E u \in Users : \/ countPayments(w, u)
                               \/ expireIfNeeded(w, u) \/ cancelAutoRenew(w, u)
                               \/ markPaymentRefunded(w, u)
    PROVE  Inductive'
  <1> USE DEF history
  <1>0. /\ task \in [Workers -> Task] /\ DecisionIsSound(task[w])
        /\ IdleTask \in Task /\ DecisionIsSound(IdleTask)
    BY IdleIsTask, IdleIsSound DEF IInv, TypeOK, Inductive
  <1>1. CASE BatchRead(w)
    <2> PICK taken \in SUBSET Expirable :
          task' = [task EXCEPT ![w] = [IdleTask EXCEPT !.pc = "batch",
                     !.seen = settled, !.todo = ToDowngrade(taken)]]
      BY <1>1 DEF BatchRead
    <2> DEFINE t == [IdleTask EXCEPT !.pc = "batch", !.seen = settled,
                                     !.todo = ToDowngrade(taken)]
    <2>1. /\ t.pc = "batch" /\ t.seen = settled /\ t.refund = FALSE
          /\ t.todo = ToDowngrade(taken) /\ t \in Task
      BY DEF IdleTask, Task, Pcs, ToDowngrade, Expirable, IInv, TypeOK
    <2>2. t.todo \subseteq created /\ \A u \in t.todo : Expired(u)
      BY <2>1 DEF ToDowngrade, Expirable
    <2>3. \A u \in t.todo : isPaidPlan(row[u]) /\ Lapsed(u)
      BY <2>2, ExpiredHasLapsed DEF IInv, TypeOK
    <2> HIDE DEF t
    <2>4. DecisionIsSound(t)
      BY <2>1, <2>2, <2>3 DEF DecisionIsSound, DecidedBy, IInv, TypeOK
    <2>5. task' = [task EXCEPT ![w] = t]
      BY DEF t
    <2> QED
      BY <1>1, <2>1, <2>4, <2>5, QuietStep DEF BatchRead
  <1>2. ASSUME NEW u \in Users, BatchDowngrade(w, u) PROVE Inductive'
    <2> DEFINE t == [task[w] EXCEPT !.todo = @ \ {u}]
    <2>1. /\ t \in Task /\ t.pc = "batch" /\ t.seen = task[w].seen
          /\ t.todo = task[w].todo \ {u} /\ t.refund = task[w].refund
      BY <1>0, <1>2 DEF Task, BatchDowngrade
    <2>2. task' = [task EXCEPT ![w] = t]
      BY <1>2 DEF BatchDowngrade
    <2> HIDE DEF t
    <2>3. DecisionIsSound(t)
      BY <1>0, <1>2, <2>1 DEF DecisionIsSound, DecidedBy, BatchDowngrade
    <2>4. FreedRow(row[u]) \in SubscriptionRow
      BY RewrittenIsRow DEF IInv, TypeOK
    <2> QED
      BY <1>2, <2>1, <2>2, <2>3, <2>4, WriteStep
         DEF BatchDowngrade, downgradeToFreeTx
  <1>3. CASE BatchEnd(w)
    BY <1>0, <1>3, QuietStep DEF BatchEnd, Done
  <1>4. ASSUME NEW u \in Users, expireIfNeeded(w, u) PROVE Inductive'
    <2> DEFINE t == [IdleTask EXCEPT !.pc = "downgrade", !.u = u,
                                     !.seen = settled]
    <2>1. t \in Task /\ DecisionIsSound(t)
      BY <1>4, JustDecided DEF expireIfNeeded
    <2>2. task' = [task EXCEPT ![w] = t]
      BY <1>4 DEF expireIfNeeded, Decide
    <2> HIDE DEF t
    <2> QED
      BY <1>4, <2>1, <2>2, QuietStep DEF expireIfNeeded
  <1>5. ASSUME NEW u \in Users, cancelAutoRenew(w, u) PROVE Inductive'
    <2> DEFINE t == [IdleTask EXCEPT !.pc = "cancel", !.u = u, !.seen = settled]
    <2>1. t \in Task /\ DecisionIsSound(t)
      BY <1>5, JustDecided DEF cancelAutoRenew
    <2>2. task' = [task EXCEPT ![w] = t]
      BY <1>5 DEF cancelAutoRenew, Decide
    <2> HIDE DEF t
    <2> QED
      BY <1>5, <2>1, <2>2, QuietStep DEF cancelAutoRenew
  <1>6. CASE setAutoRenew(w)
    <2>1. task[w].u \in Users
      BY <1>0, <1>6 DEF setAutoRenew, DecisionIsSound, IInv, TypeOK
    <2>2. [row[task[w].u] EXCEPT !.auto = FALSE] \in SubscriptionRow
      BY <2>1, RewrittenIsRow DEF IInv, TypeOK
    <2>3. row' = [row EXCEPT ![task[w].u] =
                    [row[task[w].u] EXCEPT !.auto = FALSE]]
      BY <1>6 DEF setAutoRenew
    <2> QED
      BY <1>0, <1>6, <2>1, <2>2, <2>3, WriteStep DEF setAutoRenew, Done
  <1>7. ASSUME NEW u \in Users, markPaymentRefunded(w, u) PROVE Inductive'
    <2> DEFINE t == [IdleTask EXCEPT !.pc = "readPlan", !.u = u, !.refund = TRUE]
    <2>1. /\ t \in Task /\ t.pc = "readPlan" /\ t.u = u /\ t.refund
          /\ t.todo = {} /\ t.seen = [v \in Users |-> 0]
      BY DEF IdleTask, Task, Pcs
    <2>2. task' = [task EXCEPT ![w] = t]
      BY <1>7 DEF markPaymentRefunded
    <2>3. u \in created
      <3>1. refunded[u] \in Nat /\ settled[u] \in Nat /\ refunded[u] < settled[u]
        BY <1>7 DEF markPaymentRefunded, IInv, TypeOK
      <3>2. HistoryIsSound(u)
        BY DEF IInv, Inductive
      <3> QED
        BY <3>1, <3>2 DEF HistoryIsSound
    <2> HIDE DEF t
    <2>4. DecisionIsSound(t)
      BY <2>1, <2>3 DEF DecisionIsSound, DecidedBy, IInv, TypeOK
    <2> QED
      BY <1>7, <2>1, <2>2, <2>4, QuietStep DEF markPaymentRefunded
  <1>8. CASE ReadPlan(w)
    <2> DEFINE t == [task[w] EXCEPT !.pc = "downgrade"]
    <2>1. CASE task' = [task EXCEPT ![w] = t]
      <3>1. /\ t \in Task /\ t.pc = "downgrade" /\ t.refund /\ t.u \in created
            /\ t.todo = task[w].todo /\ t.seen = task[w].seen
        BY <1>0, <1>8 DEF Task, Pcs, ReadPlan, DecisionIsSound
      <3> HIDE DEF t
      <3>2. DecisionIsSound(t)
        BY <1>0, <3>1 DEF DecisionIsSound, DecidedBy
      <3> QED
        BY <1>8, <2>1, <3>1, <3>2, QuietStep DEF ReadPlan
    <2>2. CASE Done(w)
      BY <1>0, <1>8, <2>2, QuietStep DEF ReadPlan, Done
    <2> QED
      BY <1>8, <2>1, <2>2 DEF ReadPlan
  <1>9. CASE downgradeUser(w)
    <2>1. task[w].u \in Users
      BY <1>0, <1>9 DEF downgradeUser, DecisionIsSound, IInv, TypeOK
    <2>2. FreedRow(row[task[w].u]) \in SubscriptionRow
      BY <2>1, RewrittenIsRow DEF IInv, TypeOK
    <2> QED
      BY <1>0, <1>9, <2>1, <2>2, WriteStep
         DEF downgradeUser, downgradeToFreeTx, Done
  <1>10. CASE Abandon(w)
    BY <1>0, <1>10, QuietStep DEF Abandon, Done
  <1>11. ASSUME NEW u \in Users, countPayments(w, u) PROVE Inductive'
    <2> DEFINE t == [IdleTask EXCEPT !.pc = "trial", !.u = u, !.seen = settled]
    <2>1. t \in Task /\ DecisionIsSound(t)
      BY <1>11, JustDecided DEF countPayments
    <2>2. task' = [task EXCEPT ![w] = t]
      BY <1>11 DEF countPayments, Decide
    <2> HIDE DEF t
    <2> QED
      BY <1>11, <2>1, <2>2, QuietStep DEF countPayments
  <1>12. CASE activateTrial(w)
    <2> DEFINE u == task[w].u
    <2>1. u \in created /\ u \in Users
      BY <1>0, <1>12 DEF activateTrial, DecisionIsSound, IInv, TypeOK
    <2>2. task' = [task EXCEPT ![w] = IdleTask]
      BY <1>12 DEF activateTrial, Done
    <2>3. CASE TrialEligible(u)
      <3>1. /\ row' = [row EXCEPT ![u] = TrialRow(@, now)]
            /\ trials' = [trials EXCEPT ![u] = @ + 1]
            /\ IF u \in paying THEN UNCHANGED owed ELSE Give(u, TrialDays)
            /\ UNCHANGED <<now, created, open, settled>>
        BY <1>12, <2>3 DEF activateTrial
      <3> HIDE DEF u
      <3>2. UsersSound'
        BY <2>1, <2>3, <3>1, TrialStarted
      <3>3. \A v \in Users : RowMoves(v)
        BY <2>3, <3>1 DEF RowMoves, IInv, TypeOK
      <3>4. \A v \in Workers : DecisionIsSound(task[v])'
        BY <1>0, <2>2, <3>1, <3>3, WorkerMoves
      <3> QED
        BY <3>2, <3>4 DEF UsersSound, Inductive
    <2>4. CASE ~TrialEligible(u)
      BY <1>0, <1>12, <2>2, <2>4, QuietStep DEF activateTrial
    <2> QED
      BY <2>3, <2>4
  <1> QED
    BY <1>1, <1>2, <1>3, <1>4, <1>5, <1>6, <1>7, <1>8, <1>9, <1>10, <1>11,
       <1>12 DEF Progress

\* Every step keeps the invariant.
THEOREM NextSound == IInv /\ [Next]_vars => IInv'
  <1> SUFFICES ASSUME IInv, [Next]_vars PROVE IInv'
    OBVIOUS
  <1>1. TypeOK'
    BY TypeStep
  <1>2. CASE \E u \in Users :
               \/ upsertFree(u)
               \/ \E target \in Plans : OpenPayment(u, target)
               \/ PaymentFails(u) \/ settlementReads(u)
               \/ processSuccessfulPayment(u) \/ RollBack(u)
    BY <1>1, <1>2, TableStep DEF IInv
  <1>3. CASE \E w \in Workers :
               \/ BatchRead(w) \/ Progress(w) \/ Abandon(w)
               \/ \E u \in Users :
                     \/ countPayments(w, u)
                     \/ expireIfNeeded(w, u) \/ cancelAutoRenew(w, u)
                     \/ markPaymentRefunded(w, u)
    BY <1>1, <1>3, WorkerStep DEF IInv
  <1>4. CASE Tick \/ UNCHANGED vars
    <2>1. /\ now' \in Nat /\ now' >= now /\ task' = task
          /\ UNCHANGED <<row, created, open, settled, trials, owed>>
      BY <1>4 DEF Tick, vars, history, open, IInv, TypeOK
    <2>2. UsersSound'
      BY <2>1, RowsSame
    <2>3. \A v \in Workers : DecisionIsSound(task[v])'
      BY <1>1, <2>1, RowUntouched, DecisionsSound DEF IInv, TypeOK
    <2> QED
      BY <1>1, <2>2, <2>3 DEF IInv, UsersSound, Inductive
  <1> QED
    BY <1>2, <1>3, <1>4 DEF Next

-----------------------------------------------------------------------------
\* The invariant holds in every reachable state.
THEOREM Invariance == Spec => []IInv
  BY InitSound, NextSound, PTL DEF Spec

\* Every variable keeps its type, for every number of users and workers.
THEOREM TypeCorrect == Spec => []TypeOK
  <1>1. IInv => TypeOK
    BY DEF IInv
  <1> QED
    BY <1>1, Invariance, PTL

\* Time that was bought or given is never forgotten by the row.
THEOREM PaidTimeKept == Spec => []PaidTimeIsKept
  <1>1. IInv => PaidTimeIsKept
    BY DEF IInv, Inductive
  <1> QED
    BY <1>1, Invariance, PTL

\* No paid plan, and no day of it, without a payment or the trial.
THEOREM AccessIsPaid == Spec => []NoUnpaidAccess
  <1>1. IInv => NoUnpaidAccess
    BY DEF IInv, Inductive
  <1> QED
    BY <1>1, Invariance, PTL

\* One trial per account, ever, and none after a payment.
THEOREM OneTrial == Spec => []TrialIsOnce
  <1>1. IInv => TrialIsOnce
    BY DEF IInv, Inductive
  <1> QED
    BY <1>1, Invariance, PTL

\* Only a payment can overtake the decision to expire a row.
THEOREM ExpiryIsOvertakenByPaymentsOnly == Spec => []OnlyPaymentOvertakes
  <1>1. IInv => OnlyPaymentOvertakes
    BY DEF IInv, Inductive, DecisionIsSound, OnlyPaymentOvertakes
  <1> QED
    BY <1>1, Invariance, PTL

\* What settlements, trials and batches have read stays sound enough for what
\* they go on to write.
THEOREM HandlersAreSound == Spec => []Inductive
  <1>1. IInv => Inductive
    BY DEF IInv
  <1> QED
    BY <1>1, Invariance, PTL

-----------------------------------------------------------------------------
(* Which payments the rows rely on.                                        *)

Open == {u \in Users : pending[u] # 0}

\* A step that opens, closes, settles or refunds a payment of one user.
LEMMA PaymentSteps ==
    ASSUME IInv, NEW u \in Users,
           \/ \E target \in Plans : OpenPayment(u, target)
           \/ PaymentFails(u) \/ processSuccessfulPayment(u)
           \/ \E w \in Workers : markPaymentRefunded(w, u)
    PROVE  Reference!Open(u) \/ Reference!Close(u) \/ Reference!Settle(u)
           \/ Reference!Return(u)
  <1>0. pending \in [Users -> Plans \cup {0}] /\ (u \in paying => pending[u] # 0)
    BY DEF IInv, TypeOK, Inductive, SettlementIsSound
  <1>1. ASSUME NEW target \in Plans, OpenPayment(u, target) PROVE Reference!Open(u)
    <2>1. target # 0
      BY PlansAssumption
    <2>2. Open' = Open \cup {u}
      BY <1>0, <1>1, <2>1 DEF OpenPayment, Open
    <2>3. pending[u] = 0 /\ UNCHANGED <<settled, refunded>>
      BY <1>1 DEF OpenPayment, history
    <2> QED BY <2>2, <2>3 DEF Reference!Open, Open
  <1>2. CASE PaymentFails(u)
    <2>1. Open' = Open \ {u}
      BY <1>0, <1>2 DEF PaymentFails, Open
    <2>2. pending[u] # 0 /\ UNCHANGED <<settled, refunded>>
      BY <1>2 DEF PaymentFails, history
    <2> QED BY <2>1, <2>2 DEF Reference!Close, Open
  <1>3. CASE processSuccessfulPayment(u)
    <2>1. Open' = Open \ {u}
      BY <1>0, <1>3 DEF processSuccessfulPayment, Open
    <2>2. /\ pending[u] # 0 /\ UNCHANGED refunded
          /\ settled' = [settled EXCEPT ![u] = @ + 1]
      BY <1>0, <1>3 DEF processSuccessfulPayment, SettlementEnds
    <2> QED BY <2>1, <2>2 DEF Reference!Settle, Open
  <1>4. ASSUME NEW w \in Workers, markPaymentRefunded(w, u) PROVE Reference!Return(u)
    <2>1. /\ refunded[u] < settled[u] /\ UNCHANGED <<pending, settled>>
          /\ refunded' = [refunded EXCEPT ![u] = @ + 1]
      BY <1>4 DEF markPaymentRefunded, open
    <2> QED BY <2>1 DEF Reference!Return
  <1> QED BY <1>1, <1>2, <1>3, <1>4

\* The workers' other steps touch no payment.
LEMMA WorkersTouchNone ==
    ASSUME NEW w \in Workers,
           \/ BatchRead(w) \/ Progress(w) \/ Abandon(w)
           \/ \E u \in Users : \/ countPayments(w, u)
                               \/ expireIfNeeded(w, u) \/ cancelAutoRenew(w, u)
    PROVE  UNCHANGED <<pending, settled, refunded>>
  <1> USE DEF open, history
  <1>1. CASE Progress(w)
    BY <1>1 DEF Progress, BatchDowngrade, BatchEnd, activateTrial, setAutoRenew,
                ReadPlan, downgradeUser
  <1>2. CASE BatchRead(w)
    BY <1>2, Zenon DEF BatchRead
  <1>3. ASSUME NEW u \in Users,
               \/ countPayments(w, u) \/ expireIfNeeded(w, u)
               \/ cancelAutoRenew(w, u)
        PROVE  UNCHANGED <<pending, settled, refunded>>
    BY <1>3 DEF countPayments, expireIfNeeded, cancelAutoRenew
  <1>4. CASE Abandon(w)
    BY <1>4 DEF Abandon
  <1> QED BY <1>1, <1>2, <1>3, <1>4

\* The rows' life relies on no more of payments than Payments provides
\* (PaymentsGrantsProofs, PerReference): one open payment of a subscription at a
\* time, and each settlement, and each refund, of a payment there was.
THEOREM PerReference == Spec => ImplementsReferencePayments
  <1>1. Init => Reference!RInit
    BY DEF Init, Reference!RInit
  <1>2. IInv /\ [Next]_vars => [Reference!RNext]_(Reference!rvars)
    <2> SUFFICES ASSUME IInv, [Next]_vars
                 PROVE  [Reference!RNext]_(Reference!rvars)
      OBVIOUS
    <2>1. ASSUME UNCHANGED <<pending, settled, refunded>>
          PROVE  [Reference!RNext]_(Reference!rvars)
      BY <2>1 DEF Reference!rvars
    <2>2. ASSUME NEW u \in Users,
                 \/ \E target \in Plans : OpenPayment(u, target)
                 \/ PaymentFails(u) \/ processSuccessfulPayment(u)
                 \/ \E w \in Workers : markPaymentRefunded(w, u)
          PROVE  Reference!RNext
      <3>1. \/ Reference!Open(u) \/ Reference!Close(u)
            \/ Reference!Settle(u) \/ Reference!Return(u)
        BY <2>2, PaymentSteps
      <3> QED BY <3>1, Zenon DEF Reference!RNext
    <2>3. CASE UNCHANGED vars
      BY <2>1, <2>3 DEF vars
    <2>4. ASSUME NEW u \in Users, upsertFree(u) \/ settlementReads(u) \/ RollBack(u)
          PROVE  UNCHANGED <<pending, settled, refunded>>
      BY <2>4 DEF upsertFree, settlementReads, RollBack, open, history
    <2>5. ASSUME Tick PROVE UNCHANGED <<pending, settled, refunded>>
      BY <2>5 DEF Tick, open, history
    <2>6. ASSUME NEW w \in Workers,
                 \/ BatchRead(w) \/ Progress(w) \/ Abandon(w)
                 \/ \E u \in Users : \/ countPayments(w, u)
                                     \/ expireIfNeeded(w, u) \/ cancelAutoRenew(w, u)
          PROVE  UNCHANGED <<pending, settled, refunded>>
      BY <2>6, WorkersTouchNone
    <2> QED BY <2>1, <2>2, <2>3, <2>4, <2>5, <2>6 DEF Next
  <1> QED
    BY <1>1, <1>2, Invariance, PTL DEF Spec, ImplementsReferencePayments, Reference!RSpec
=============================================================================
