------------------------ MODULE SubscriptionLifecycle ------------------------
(***************************************************************************)
(* The life of Subscription rows: subscription-lifecycle.service.ts,       *)
(* subscription-trial.service.ts, their repositories, the daily expiration *)
(* batch of the queue worker, and what payments do to the rows.            *)
(*                                                                         *)
(* A payment is here opened, settled or given up, as Payments shows of it. *)
(* Settling one reads the row and writes it, in one transaction that locks *)
(* nothing of the row in between.  Downgrades decide on a row that was     *)
(* read and then write unconditionally.                                    *)
(***************************************************************************)
EXTENDS SubscriptionRows, FiniteSets

CONSTANTS
    Users,
    Workers,    \* handlers and jobs that may run at the same time (bound)
    Roles,      \* what a worker may run (bound)
    BatchLimit, \* rows one expiration batch takes (500 in the code)
    LastDay,    \* bound on time
    LastSale,   \* bound: no row, trial or settlement after this day
    MaxPays,    \* bound on settled payments of a user
    MaxFaults,  \* bound on handlers that die
    NoUser

ASSUME UsersAssumption == NoUser \notin Users
ASSUME RolesAssumption ==
    Roles \in [Workers -> SUBSET {"batch", "request", "trial", "refund"}]
ASSUME BoundsAssumption ==
    /\ BatchLimit \in Nat \ {0} /\ LastDay \in Nat /\ LastSale \in Nat
    /\ MaxPays \in Nat /\ MaxFaults \in Nat

VARIABLES
    now,      \* the day
    created,  \* users whose Subscription row exists
    row,      \* Subscription rows
    pending,  \* the plan of a user's pending payment, 0 if there is none
    paying,   \* users whose payment's settlement is under way ...
    base,     \* ... and the renewDate it has read
    settled,  \* history: settled subscription payments (paid or refunded)
    refunded, \* how many of them were refunded
    trials,   \* history: trials started
    owed,     \* history: the end of the time the user was given or bought
    task, faults

vars == <<now, created, row, pending, paying, base, settled, refunded, trials,
          owed, task, faults>>
open == <<pending, paying, base>>
history == <<settled, refunded, trials, owed>>

Pcs == {"idle", "trial", "batch", "cancel", "readPlan", "downgrade"}

\* todo: rows a batch has still to downgrade; refund: why one is downgraded;
\* seen (history): settlements when the decision was taken.
Task == [pc : Pcs, u : Users \cup {NoUser}, todo : SUBSET Users,
         refund : BOOLEAN, seen : [Users -> Nat]]
IdleTask == [pc |-> "idle", u |-> NoUser, todo |-> {}, refund |-> FALSE,
             seen |-> [u \in Users |-> 0]]

Done(w) == task' = [task EXCEPT ![w] = IdleTask]
Decide(w, pc, u) ==
    task' = [task EXCEPT ![w] = [IdleTask EXCEPT !.pc = pc, !.u = u,
                                                 !.seen = settled]]

Expired(u) == getSubscriptionStatus(row[u], now) = "expired"

Init ==
    /\ now = 0
    /\ created = {}
    /\ row = [u \in Users |-> FreeRow(0)]
    /\ pending = [u \in Users |-> 0]
    /\ paying = {} /\ base = [u \in Users |-> 0]
    /\ settled = [u \in Users |-> 0]
    /\ refunded = [u \in Users |-> 0]
    /\ trials = [u \in Users |-> 0]
    /\ owed = [u \in Users |-> 0]
    /\ task = [w \in Workers |-> IdleTask]
    /\ faults = 0

\* Time bought or given follows the time already owed, or starts today.  (A
\* trial that starts while a settlement has read the row is not owed: the
\* settlement writes over its dates.)
Give(u, days) ==
    owed' = [owed EXCEPT ![u] = (IF @ > now THEN @ ELSE now) + days]

-----------------------------------------------------------------------------
(* Rows, payments and trials.                                              *)

\* Every account gets its free row lazily.
upsertFree(u) ==
    /\ u \notin created
    /\ now <= LastSale
    /\ created' = created \cup {u}
    /\ row' = [row EXCEPT ![u] = FreeRow(now)]
    /\ UNCHANGED <<now, open, history, task, faults>>

\* initiate, up to the pending row; at most one is open per subscription.
OpenPayment(u, target) ==
    /\ u \in created
    /\ pending[u] = 0
    /\ ~shouldBlockSubscriptionPayment(row[u], target, now)
    /\ settled[u] < MaxPays
    /\ pending' = [pending EXCEPT ![u] = target]
    /\ UNCHANGED <<now, created, row, paying, base, history, task, faults>>

PaymentFails(u) ==
    /\ pending[u] # 0 /\ u \notin paying
    /\ pending' = [pending EXCEPT ![u] = 0]
    /\ UNCHANGED <<now, created, row, paying, base, history, task, faults>>

\* processSuccessfulPayment takes the Payment row, reads renewDate ...
settlementReads(u) ==
    /\ pending[u] # 0 /\ u \notin paying
    /\ now <= LastSale
    /\ paying' = paying \cup {u}
    /\ base' = [base EXCEPT ![u] = row[u].renew]
    /\ UNCHANGED <<now, created, row, pending, history, task, faults>>

SettlementEnds(u) ==
    /\ u \in paying
    /\ paying' = paying \ {u}
    /\ base' = [base EXCEPT ![u] = 0]

\* ... and writes the subscription from what it has read.
processSuccessfulPayment(u) ==
    /\ SettlementEnds(u)
    /\ row' = [row EXCEPT ![u] = PaidRow(@, pending[u], base[u], now)]
    /\ pending' = [pending EXCEPT ![u] = 0]
    /\ settled' = [settled EXCEPT ![u] = @ + 1]
    /\ Give(u, PeriodDays)
    /\ UNCHANGED <<now, created, refunded, trials, task, faults>>

\* The transaction is rolled back, the payment stays pending.
RollBack(u) ==
    /\ SettlementEnds(u)
    /\ faults < MaxFaults
    /\ faults' = faults + 1
    /\ UNCHANGED <<now, created, row, pending, history, task>>

\* activateTrialTx counts the user's settled payments and then updates the row
\* where it is still free: a payment may settle between the two statements.
countPayments(w, u) ==
    /\ task[w].pc = "idle" /\ "trial" \in Roles[w]
    /\ u \in created
    /\ now <= LastSale
    /\ settled[u] = 0
    /\ Decide(w, "trial", u)
    /\ UNCHANGED <<now, created, row, open, history, faults>>

\* The where-clause of the update.  (Mutant: any free row will do.)
MutantAnyFreeRow(u) == row[u].plan = 0
TrialEligible(u) ==
    /\ row[u].plan = 0
    /\ ~row[u].trialled
    /\ row[u].status # "downgraded"

activateTrial(w) ==
    /\ task[w].pc = "trial"
    /\ LET u == task[w].u
       IN  IF TrialEligible(u)
           THEN /\ row' = [row EXCEPT ![u] = TrialRow(@, now)]
                /\ trials' = [trials EXCEPT ![u] = @ + 1]
                /\ IF u \in paying THEN UNCHANGED owed ELSE Give(u, TrialDays)
           ELSE UNCHANGED <<row, trials, owed>>
    /\ Done(w)
    /\ UNCHANGED <<now, created, open, settled, refunded, faults>>

-----------------------------------------------------------------------------
(* Downgrades and cancellation: read, decide, write.                       *)

Expirable == {u \in created : isPaidPlan(row[u]) /\ row[u].renew < now}

\* processExpirationBatch reads at most BatchLimit rows, in no order, and
\* decides on all of them by the clock at its start.  (Mutants: every row past
\* its renewDate goes; only rows with autoRenew do.)
MutantNoGraceCheck(taken) == taken
MutantOnlyRenewing(taken) == {u \in taken : Expired(u) /\ row[u].auto}
ToDowngrade(taken) == {u \in taken : Expired(u)}

BatchRead(w) ==
    /\ task[w].pc = "idle" /\ "batch" \in Roles[w]
    /\ \E taken \in SUBSET Expirable :
          /\ Cardinality(taken) <= BatchLimit
          /\ taken = Expirable \/ Cardinality(taken) = BatchLimit
          /\ task' = [task EXCEPT ![w] =
                        [IdleTask EXCEPT !.pc = "batch", !.seen = settled,
                                         !.todo = ToDowngrade(taken)]]
    /\ UNCHANGED <<now, created, row, open, history, faults>>

\* downgradeToFreeTx.  (Mutant: the row is reset as if it were new.)
MutantResetRow(u) == row' = [row EXCEPT ![u] = FreeRow(now)]
downgradeToFreeTx(u) == row' = [row EXCEPT ![u] = FreedRow(@)]

BatchDowngrade(w, u) ==
    /\ task[w].pc = "batch" /\ u \in task[w].todo
    /\ downgradeToFreeTx(u)
    /\ task' = [task EXCEPT ![w].todo = @ \ {u}]
    /\ UNCHANGED <<now, created, open, history, faults>>

BatchEnd(w) ==
    /\ task[w].pc = "batch" /\ task[w].todo = {}
    /\ Done(w)
    /\ UNCHANGED <<now, created, row, open, history, faults>>

\* expireIfNeeded, wherever a subscription is read for its owner.
expireIfNeeded(w, u) ==
    /\ task[w].pc = "idle" /\ "request" \in Roles[w]
    /\ u \in created
    /\ Expired(u)
    /\ Decide(w, "downgrade", u)
    /\ UNCHANGED <<now, created, row, open, history, faults>>

\* cancelAutoRenew of a row with access; without, it is expireIfNeeded.
cancelAutoRenew(w, u) ==
    /\ task[w].pc = "idle" /\ "request" \in Roles[w]
    /\ u \in created
    /\ hasPaidAccess(row[u], now) /\ ~isTrialRow(row[u])
    /\ Decide(w, "cancel", u)
    /\ UNCHANGED <<now, created, row, open, history, faults>>

setAutoRenew(w) ==
    /\ task[w].pc = "cancel"
    /\ row' = [row EXCEPT ![task[w].u].auto = FALSE]
    /\ Done(w)
    /\ UNCHANGED <<now, created, open, history, faults>>

\* The refund branch of the payment webhook: mark, read the plan, downgrade.
markPaymentRefunded(w, u) ==
    /\ task[w].pc = "idle" /\ "refund" \in Roles[w]
    /\ refunded[u] < settled[u]
    /\ refunded' = [refunded EXCEPT ![u] = @ + 1]
    /\ task' = [task EXCEPT ![w] = [IdleTask EXCEPT !.pc = "readPlan", !.u = u,
                                                    !.refund = TRUE]]
    /\ UNCHANGED <<now, created, row, open, settled, trials, owed, faults>>

ReadPlan(w) ==
    /\ task[w].pc = "readPlan"
    /\ IF isPaidPlan(row[task[w].u])
       THEN task' = [task EXCEPT ![w].pc = "downgrade"]
       ELSE Done(w)
    /\ UNCHANGED <<now, created, row, open, history, faults>>

downgradeUser(w) ==
    /\ task[w].pc = "downgrade"
    /\ downgradeToFreeTx(task[w].u)
    /\ Done(w)
    /\ UNCHANGED <<now, created, open, history, faults>>

\* The process dies, or a statement or a notification throws.
Abandon(w) ==
    /\ task[w].pc # "idle"
    /\ faults < MaxFaults
    /\ faults' = faults + 1
    /\ Done(w)
    /\ UNCHANGED <<now, created, row, open, history>>

\* A request for a trial fixes its dates first; it, and the transaction of a
\* settlement, end on the day they start.
Tick ==
    /\ now < LastDay
    /\ \A w \in Workers : task[w].pc # "trial"
    /\ paying = {}
    /\ now' = now + 1
    /\ UNCHANGED <<created, row, open, history, task, faults>>

-----------------------------------------------------------------------------
Progress(w) ==
    \/ \E u \in Users : BatchDowngrade(w, u)
    \/ BatchEnd(w) \/ activateTrial(w)
    \/ setAutoRenew(w) \/ ReadPlan(w) \/ downgradeUser(w)

Next ==
    \/ \E u \in Users :
          \/ upsertFree(u)
          \/ \E target \in Plans : OpenPayment(u, target)
          \/ PaymentFails(u) \/ settlementReads(u)
          \/ processSuccessfulPayment(u) \/ RollBack(u)
    \/ \E w \in Workers :
          \/ BatchRead(w) \/ Progress(w) \/ Abandon(w)
          \/ \E u \in Users : \/ countPayments(w, u)
                              \/ expireIfNeeded(w, u) \/ cancelAutoRenew(w, u)
                              \/ markPaymentRefunded(w, u)
    \/ Tick

Spec == Init /\ [][Next]_vars

-----------------------------------------------------------------------------
(* Properties.                                                             *)

\* Every variable has its type.
TypeOK ==
    /\ now \in Nat
    /\ created \subseteq Users
    /\ row \in [Users -> SubscriptionRow]
    /\ pending \in [Users -> Plans \cup {0}]
    /\ paying \subseteq Users /\ base \in [Users -> Nat]
    /\ settled \in [Users -> Nat] /\ refunded \in [Users -> Nat]
    /\ trials \in [Users -> Nat] /\ owed \in [Users -> Nat]
    /\ task \in [Workers -> Task]
    /\ faults \in Nat

\* Whatever is bought, given, refunded, cancelled, downgraded or expired, in
\* whatever order, a row never forgets time its user was given: a renewal
\* extends, a trial day is not lost to a payment that settles after it, a
\* downgrade keeps renewDate.
PaidTimeIsKept == \A u \in Users : row[u].renew >= owed[u]

\* Nobody holds a paid plan without a settled payment or a trial, and nobody
\* has more days ahead than the payments, the trial and the free row add up to.
Accounted(u) ==
    now + FreeDays + TrialDays * trials[u] + PeriodDays * settled[u]
NoUnpaidAccess ==
    \A u \in Users :
        /\ isPaidPlan(row[u]) => settled[u] > 0 \/ trials[u] > 0
        /\ row[u].renew <= Accounted(u)

\* The trial is one per account, ever, and only for accounts that never paid:
\* not even one that was refunded, or that lost the race with a payment.
TrialIsOnce ==
    \A u \in Users :
        /\ trials[u] <= 1
        /\ row[u].status = "trial" => settled[u] = 0

\* The only thing that can overtake a decision to expire a row is a payment:
\* as long as none settles, the row is expired, or free already, when the
\* downgrade is written.
DecidedBy(t, u) ==
    \/ t.pc = "batch" /\ u \in t.todo
    \/ t.pc = "downgrade" /\ ~t.refund /\ t.u = u
Lapsed(u) ==
    now >= row[u].renew /\ (row[u].auto => now > row[u].renew + GraceDays)
OnlyPaymentOvertakes ==
    \A w \in Workers, u \in Users : DecidedBy(task[w], u) =>
        \/ row[u].plan = 0
        \/ Lapsed(u)
        \/ settled[u] > task[w].seen[u]

\* The invariant that is inductive: the histories agree with the
\* rows, and with what a settlement has read ...
HistoryIsSound(u) ==
    /\ trials[u] = IF row[u].trialled THEN 1 ELSE 0
    /\ settled[u] = 0 /\ trials[u] = 0 => owed[u] = 0
    /\ settled[u] > 0 => isPaidPlan(row[u]) \/ row[u].status = "downgraded"
    /\ u \notin created => settled[u] = 0 /\ trials[u] = 0 /\ pending[u] = 0

SettlementIsSound(u) ==
    u \in paying => /\ pending[u] # 0
                    /\ owed[u] <= base[u] /\ base[u] <= Accounted(u)

\* ... and what a worker decided stays true until a payment settles: a row
\* freed by another worker has its status to show for it, so no trial can
\* start on it in between.
DecisionIsSound(t) ==
    /\ t.pc \in {"trial", "cancel", "readPlan", "downgrade"} => t.u \in created
    /\ t.todo \subseteq created
    /\ t.pc = "readPlan" => t.refund
    /\ \A u \in Users :
          /\ t.seen[u] <= settled[u]
          /\ DecidedBy(t, u) =>
                \/ row[u].plan = 0 /\ row[u].status = "downgraded"
                \/ isPaidPlan(row[u]) /\ Lapsed(u)
                \/ settled[u] > t.seen[u]

\* Rows, histories and pending decisions agree at every step.
Inductive ==
    /\ PaidTimeIsKept /\ NoUnpaidAccess /\ TrialIsOnce
    /\ \A u \in Users : HistoryIsSound(u) /\ SettlementIsSound(u)
    /\ \A w \in Workers : DecisionIsSound(task[w])

\* Strong fairness: requests of the same day put neither time nor the job off.
BatchRuns == \E w \in Workers : BatchRead(w)
FairSpec ==
    /\ Spec
    /\ SF_vars(Tick) /\ SF_vars(BatchRuns)
    /\ \A w \in Workers : WF_vars(Progress(w))
    /\ \A u \in Users : WF_vars(processSuccessfulPayment(u))

\* The rows a batch finds and downgrades, and those it finds and skips.
Overdue == {u \in Expirable : Expired(u)}
InGraceStill == Expirable \ Overdue

\* Two conditions the code does not ensure.  Where the first fails, each batch
\* may consist of rows in grace and pass an expired one over every day, while
\* new rows keep entering grace; where the second fails, newly expired rows,
\* or batches that die, can do the same.
GraceLeavesRoom == <>[](Cardinality(InGraceStill) < BatchLimit)
SalesAndFaultsEnd == <>[][UNCHANGED <<settled, trials, faults>>]_vars

\* Only then does no expired row keep its plan for ever: the daily batch, which
\* takes its rows in no order and rows in grace among them, reaches each one.
\* (The bounds of an instance make the second condition true.  The first still
\* excludes behaviours of it: rows in grace stay so once its clock has stopped.)
ExpiredIsDowngraded ==
    GraceLeavesRoom /\ SalesAndFaultsEnd
        => \A u \in Users : u \in Overdue ~> u \notin Overdue

-----------------------------------------------------------------------------
(* What it takes of payments.                                              *)

Reference == INSTANCE ReferencePayments WITH
    References <- Users,
    opened <- {u \in Users : pending[u] # 0},
    paid <- settled,
    returned <- refunded

\* The payments of this model are those that Payments promises.
ImplementsReferencePayments == Reference!RSpec

-----------------------------------------------------------------------------
(* Statements of the documentation the code does not keep.                 *)

\* subscription-lifecycle.md: "downgrade waits until grace ends".
DowngradeWaitsForGrace ==
    [][\A w \in Workers, u \in Users :
          (/\ DecidedBy(task[w], u) /\ row[u].plan # 0 /\ row'[u].plan = 0
           /\ task'[w] # task[w]) => Expired(u)]_vars
=============================================================================
