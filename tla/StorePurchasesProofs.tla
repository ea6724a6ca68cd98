------------------------- MODULE StorePurchasesProofs -------------------------
(***************************************************************************)
(* Theorems about StorePurchases, for any number of handlers, periods and  *)
(* plans.  The invariant has five parts; a lemma for each says which       *)
(* changes of the tables and of the tasks keep it, and every action is     *)
(* shown to make only such changes.  The last section shows that it        *)
(* implements StoreLedger: Reasons adds what a handler that is about to    *)
(* credit or to withdraw knows for good.                                   *)
(***************************************************************************)
EXTENDS StorePurchases, TLAPS

Grants == PlanIsBacked /\ ActiveIsPaid /\ ClaimIsExclusive /\ GrantsAreSound
IInv == TypeOK /\ Grants

\* What is written in a Subscription row is one.
LEMMA WrittenRows ==
    ASSUME NEW r \in SubscriptionRow, NEW p \in Plans \cup {0}, NEW n \in Nat,
           NEW b \in BOOLEAN
    PROVE  /\ FreeRow(n) \in SubscriptionRow
           /\ ActivatedRow(r, p, n) \in SubscriptionRow
           /\ FreedRow(r) \in SubscriptionRow
           /\ [r EXCEPT !.auto = b] \in SubscriptionRow
  <1> USE DEF SubscriptionRow, RowStatuses
  <1>1. FreeRow(n) \in SubscriptionRow
    BY DaysAssumption DEF FreeRow
  <1>2. ActivatedRow(r, p, n) \in SubscriptionRow
    BY DEF ActivatedRow
  <1>3. FreedRow(r) \in SubscriptionRow
    BY DEF FreedRow
  <1>4. [r EXCEPT !.auto = b] \in SubscriptionRow
    OBVIOUS
  <1> QED
    BY <1>1, <1>2, <1>3, <1>4

LEMMA IdleIsTask == IdleTask \in Task
  BY StoreAssumption DEF IdleTask, Task, Pcs, Granting

\* Tasks that a handler moves to are tasks.
LEMMA GotoIsTask ==
    ASSUME TypeOK, NEW w \in Workers, NEW pc \in Pcs, Goto(w, pc)
    PROVE  /\ task' \in [Workers -> Task]
           /\ task'[w] = [task[w] EXCEPT !.pc = pc]
           /\ task'[w].pc = pc /\ task'[w].k = task[w].k
           /\ task'[w].msg = task[w].msg
           /\ \A v \in Workers \ {w} : task'[v] = task[v]
  BY DEF TypeOK, Goto, Task

LEMMA DoneIsTask ==
    ASSUME TypeOK, NEW w \in Workers, Done(w)
    PROVE  /\ task' \in [Workers -> Task]
           /\ task'[w].pc \in {"idle", "record"}
           /\ task'[w].pc = "record" => task'[w].msg # NoMessage
           /\ \A v \in Workers \ {w} : task'[v] = task[v]
  <1>1. CASE task[w].msg = NoMessage /\ Start(w, IdleTask)
    BY <1>1, IdleIsTask DEF TypeOK, Start, IdleTask
  <1>2. CASE task[w].msg # NoMessage /\ Goto(w, "record")
    <2>1. "record" \in Pcs
      BY DEF Pcs
    <2> QED
      BY <1>2, <2>1, GotoIsTask
  <1> QED
    BY <1>1, <1>2 DEF Done

LEMMA StartIsTask ==
    ASSUME TypeOK, NEW w \in Workers, NEW t \in Task, Start(w, t)
    PROVE  /\ task' \in [Workers -> Task]
           /\ task'[w] = t
           /\ \A v \in Workers \ {w} : task'[v] = task[v]
  BY DEF TypeOK, Start

LEMMA PeriodsAreNumbers == \A k \in Periods : k \in 0..MaxPeriods
  BY StoreAssumption DEF Periods

\* The periods that were bought are periods.
LEMMA BoughtArePeriods ==
    ASSUME TypeOK
    PROVE  bought \in Nat /\ 1..bought \subseteq Periods
  BY StoreAssumption DEF TypeOK, Periods

-----------------------------------------------------------------------------
(* What keeps each part of the invariant.                                  *)

\* The store only adds periods, and a Payment never vanishes.
StoreGrows ==
    /\ bought' >= bought
    /\ \A k \in 1..bought : plan'[k] = plan[k] /\ expires'[k] = expires[k]
PaymentsStay == \A k \in Periods : payment[k] # "none" => payment'[k] # "none"

LEMMA BackingKept ==
    ASSUME IInv, TypeOK', StoreGrows, PaymentsStay,
           \/ sub'.plan = 0
           \/ sub'.plan = sub.plan /\ sub'.renew = sub.renew
    PROVE  PlanIsBacked'
  <1> SUFFICES ASSUME isPaidPlan(sub)'
               PROVE  \E k \in 1..bought' : /\ payment'[k] # "none"
                                            /\ plan'[k] = sub'.plan
                                            /\ expires'[k] = sub'.renew
    BY DEF PlanIsBacked
  <1>1. PICK k \in 1..bought : /\ payment[k] # "none"
                               /\ plan[k] = sub.plan /\ expires[k] = sub.renew
    BY DEF IInv, Grants, PlanIsBacked, isPaidPlan
  <1>2. k \in 1..bought' /\ k \in Periods
    <2>1. bought \in Nat /\ bought' \in Nat /\ bought' >= bought
      BY StoreAssumption DEF StoreGrows, IInv, TypeOK
    <2> QED
      BY <1>1, <2>1, BoughtArePeriods DEF IInv
  <1>3. sub'.plan = sub.plan /\ sub'.renew = sub.renew
    BY DEF isPaidPlan
  <1>4. payment'[k] # "none" /\ plan'[k] = sub'.plan /\ expires'[k] = sub'.renew
    BY <1>1, <1>2, <1>3 DEF StoreGrows, PaymentsStay
  <1> QED
    BY <1>2, <1>4

LEMMA RowsKept ==
    ASSUME IInv, PaymentsStay,
           \A k \in Periods : row'[k].st \in {"active", "expired"} =>
               row[k].st \in {"active", "expired"} /\ row'[k].pay = row[k].pay
    PROVE  ActiveIsPaid'
  BY DEF IInv, Grants, ActiveIsPaid, PaymentsStay

\* No handler starts to grant, and whoever goes on granting finds its row alone.
NobodyStarts == \A w \in Workers, k \in Periods :
                    Holds(task'[w], k) => Holds(task[w], k)

LEMMA ClaimsKept ==
    ASSUME IInv, NobodyStarts, aged \subseteq aged',
           \A k \in Periods \ aged' : \A w \in Workers :
               Holds(task'[w], k) => row'[k].st \in {row[k].st, "revoked"}
    PROVE  ClaimIsExclusive' /\ ClaimIsKept'
  <1>1. ClaimIsExclusive'
    BY DEF IInv, Grants, ClaimIsExclusive, NobodyStarts, Holds
  <1>2. ClaimIsKept'
    <2> SUFFICES ASSUME NEW k \in Periods \ aged', NEW w \in Workers,
                        Holds(task'[w], k)
                 PROVE  row'[k].st \in {"processing", "revoked"}
      BY DEF ClaimIsKept, Holds
    <2>1. k \in Periods \ aged /\ Holds(task[w], k)
      BY DEF NobodyStarts
    <2>2. row[k].st \in {"processing", "revoked"}
      BY <2>1 DEF IInv, Grants, GrantsAreSound, ClaimIsKept
    <2> QED
      BY <2>2
  <1> QED
    BY <1>1, <1>2

\* Every task but one is as it was, and that one is sound.
LEMMA TasksKept ==
    ASSUME IInv, TypeOK', StoreGrows, PaymentsStay, NEW w \in Workers,
           \A v \in Workers \ {w} : task'[v] = task[v],
           TaskIsSound(task[w])'
    PROVE  \A v \in Workers : TaskIsSound(task[v])'
  <1> SUFFICES ASSUME NEW v \in Workers \ {w} PROVE TaskIsSound(task[v])'
    OBVIOUS
  <1>1. TaskIsSound(task[v]) /\ task'[v] = task[v]
    BY DEF IInv, Grants, GrantsAreSound
  <1>2. task[v].pc \in Granting \cup {"claim"} =>
            task[v].k \in 1..bought' /\ task[v].k \in Periods
    <2>1. bought \in Nat /\ bought' \in Nat /\ bought' >= bought
      BY StoreAssumption DEF StoreGrows, IInv, TypeOK
    <2> QED
      BY <1>1, <2>1, BoughtArePeriods DEF TaskIsSound, IInv
  <1>3. task[v].pc \in Granting \ {"pay"} => payment'[task[v].k] # "none"
    BY <1>1, <1>2 DEF TaskIsSound, PaymentsStay
  <1> QED
    BY <1>1, <1>2, <1>3 DEF TaskIsSound

\* Steps that touch none of row, payment, store and aged, and move one worker to
\* a task that neither grants nor is about to.
Calm(t) == /\ t.pc \notin Granting \cup {"claim"}
           /\ t.pc = "record" => t.msg # NoMessage
LEMMA CalmIsSound ==
    ASSUME NEW w \in Workers, Calm(task'[w])
    PROVE  TaskIsSound(task[w])' /\ \A k \in Periods : ~Holds(task'[w], k)
  BY DEF Calm, TaskIsSound, Holds, Granting

LEMMA QuietStep ==
    ASSUME IInv, TypeOK', NEW w \in Workers,
           \A v \in Workers \ {w} : task'[v] = task[v],
           TaskIsSound(task[w])',
           \A k \in Periods : Holds(task'[w], k) => Holds(task[w], k),
           UNCHANGED <<store, row, payment, aged>>,
           \/ sub'.plan = 0
           \/ sub'.plan = sub.plan /\ sub'.renew = sub.renew
    PROVE  IInv'
  <1>1. StoreGrows /\ PaymentsStay
    BY DEF StoreGrows, PaymentsStay, store, IInv, TypeOK
  <1>2. NobodyStarts
    BY DEF NobodyStarts
  <1>3. PlanIsBacked'
    BY <1>1, BackingKept
  <1>4. ActiveIsPaid'
    BY <1>1, RowsKept
  <1>5. ClaimIsExclusive' /\ ClaimIsKept'
    BY <1>2, ClaimsKept
  <1>6. \A v \in Workers : TaskIsSound(task[v])'
    BY <1>1, TasksKept
  <1>7. StaleIsAged'
    BY DEF StaleIsAged, IInv, Grants, GrantsAreSound
  <1> QED
    BY <1>3, <1>4, <1>5, <1>6, <1>7 DEF IInv, Grants, GrantsAreSound

\* The worker moves to a task that neither grants nor claims.
LEMMA CalmStep ==
    ASSUME IInv, TypeOK', NEW w \in Workers,
           \A v \in Workers \ {w} : task'[v] = task[v],
           Calm(task'[w]),
           UNCHANGED <<store, row, payment, aged>>,
           \/ sub'.plan = 0
           \/ sub'.plan = sub.plan /\ sub'.renew = sub.renew
    PROVE  IInv'
  <1>1. /\ TaskIsSound(task[w])'
        /\ \A k \in Periods : Holds(task'[w], k) => Holds(task[w], k)
    BY CalmIsSound
  <1> QED
    BY <1>1, QuietStep

-----------------------------------------------------------------------------
(* Requests and notifications as they arrive.                              *)

\* The tasks that arrivals start are tasks, and claim only what was bought.
LEMMA StartStep ==
    ASSUME IInv, NEW w \in Workers, NEW t \in Task, Start(w, t),
           t.pc \notin Granting, t.pc = "claim" => t.k \in 1..bought,
           t.pc = "record" => t.msg # NoMessage,
           UNCHANGED <<now, store, row, payment, sub, aged>>,
           seen' \subseteq Messages, faults' \in Nat
    PROVE  IInv'
  <1>1. /\ task' \in [Workers -> Task] /\ task'[w] = t
        /\ \A v \in Workers \ {w} : task'[v] = task[v]
    BY StartIsTask DEF IInv
  <1>2. TypeOK'
    BY <1>1 DEF IInv, TypeOK, store
  <1>3. TaskIsSound(task[w])'
    BY <1>1 DEF TaskIsSound, store, Granting
  <1>4. \A k \in Periods : ~Holds(task'[w], k)
    BY <1>1 DEF Holds
  <1> QED
    BY <1>1, <1>2, <1>3, <1>4, QuietStep

LEMMA VerifyStep ==
    ASSUME IInv, NEW w \in Workers, NEW k \in Periods,
           VerifyPurchased(w, k) \/ VerifyRevoked(w, k) \/ VerifyExpired(w, k)
    PROVE  IInv'
  <1>1. CASE VerifyPurchased(w, k)
    <2> DEFINE t == [IdleTask EXCEPT !.pc = "claim", !.k = k]
    <2>1. t \in Task /\ t.pc = "claim" /\ t.k = k
      BY PeriodsAreNumbers DEF IdleTask, Task, Pcs
    <2>2. t.pc \notin Granting
      BY <2>1 DEF Granting
    <2> QED
      BY <1>1, <2>1, <2>2, StartStep DEF VerifyPurchased, IInv, TypeOK
  <1>2. CASE VerifyRevoked(w, k)
    <2> DEFINE t == [IdleTask EXCEPT !.pc = "revoke", !.k = k, !.pay = row[k].pay]
    <2>1. t \in Task /\ t.pc = "revoke"
      <3>1. row[k].pay \in BOOLEAN
        BY DEF IInv, TypeOK, StoreRow
      <3> QED
        BY <3>1, PeriodsAreNumbers DEF IdleTask, Task, Pcs
    <2>2. t.pc \notin Granting
      BY <2>1 DEF Granting
    <2> QED
      BY <1>2, <2>1, <2>2, StartStep DEF VerifyRevoked, IInv, TypeOK
  <1>3. CASE VerifyExpired(w, k)
    <2> DEFINE t == [IdleTask EXCEPT !.pc = "expireRows", !.k = k, !.rows = {k}]
    <2>1. t \in Task /\ t.pc = "expireRows"
      BY PeriodsAreNumbers DEF IdleTask, Task, Pcs
    <2>2. t.pc \notin Granting
      BY <2>1 DEF Granting
    <2> QED
      BY <1>3, <2>1, <2>2, StartStep DEF VerifyExpired, IInv, TypeOK
  <1> QED
    BY <1>1, <1>2, <1>3

\* A notification leads to a claim only if it is of a purchase.
LEMMA ReactionIsSound ==
    ASSUME NEW kind \in Kinds, NEW k \in Periods
    PROVE  /\ Reaction(kind, k) \in Pcs \ Granting
           /\ Reaction(kind, k) = "claim" => kind = "subscribed"
  BY DEF Kinds, Reaction, Pcs, Granting

LEMMA NotificationStep ==
    ASSUME IInv, NEW w \in Workers, NEW msg \in Messages,
           ReceiveNotification(w, msg)
    PROVE  IInv'
  <1>1. PICK kind \in Kinds, k \in Periods : msg = <<kind, k>>
    BY DEF Messages
  <1>2. msg[1] = kind /\ msg[2] = k
    BY <1>1
  <1> DEFINE t == [pc |-> Reaction(msg[1], msg[2]), k |-> msg[2], msg |-> msg,
                   pay |-> msg[1] = "refund" /\ row[msg[2]].pay,
                   rows |-> IF msg[1] = "expired" THEN Active ELSE {}]
  <1>3. t \in Task
    <2>1. t.pc \in Pcs
      BY <1>2, ReactionIsSound
    <2>2. t.k \in 0..MaxPeriods /\ t.msg \in Messages \cup {NoMessage}
      BY <1>2, PeriodsAreNumbers
    <2>3. t.pay \in BOOLEAN
      BY <1>2 DEF IInv, TypeOK, StoreRow
    <2>4. t.rows \in SUBSET Periods
      BY DEF Active
    <2> QED
      BY <2>1, <2>2, <2>3, <2>4 DEF Task
  <1>4. t.pc \notin Granting
    BY <1>2, ReactionIsSound
  <1>5. t.pc = "claim" => t.k \in 1..bought
    <2> SUFFICES ASSUME t.pc = "claim" PROVE k \in 1..bought
      BY <1>2
    <2>1. kind = "subscribed"
      BY <1>2, ReactionIsSound
    <2>2. msg \in Sent
      BY DEF ReceiveNotification
    <2> QED
      BY <1>1, <2>1, <2>2 DEF Sent
  <1>6. t.msg # NoMessage
    BY <1>1 DEF NoMessage
  <1> QED
    BY <1>3, <1>4, <1>5, <1>6, StartStep DEF ReceiveNotification, IInv, TypeOK

LEMMA RenewalStatusStep ==
    ASSUME IInv, NEW w \in Workers, NEW pc \in {"cancel", "autoOn"},
           ReceiveRenewalStatus(w, pc)
    PROVE  IInv'
  <1> DEFINE t == [IdleTask EXCEPT !.pc = pc, !.k = bought]
  <1>1. t \in Task /\ t.pc = pc
    BY DEF IdleTask, Task, Pcs, IInv, TypeOK
  <1>2. t.pc \notin Granting
    BY <1>1 DEF Granting
  <1> QED
    BY <1>1, <1>2, StartStep DEF ReceiveRenewalStatus, IInv, TypeOK

LEMMA ExpireIfNeededStep ==
    ASSUME IInv, NEW w \in Workers, ExpireIfNeeded(w)
    PROVE  IInv'
  <1> DEFINE t == [IdleTask EXCEPT !.pc = "downgrade"]
  <1>1. t \in Task /\ t.pc = "downgrade"
    BY IdleIsTask DEF IdleTask, Task, Pcs
  <1>2. t.pc \notin Granting
    BY <1>1 DEF Granting
  <1> QED
    BY <1>1, <1>2, StartStep DEF ExpireIfNeeded, IInv, TypeOK

\* A handler that dies, or is through, holds nothing.
LEMMA EndStep ==
    ASSUME IInv, NEW w \in Workers, RecordNotification(w) \/ Abandon(w)
    PROVE  IInv'
  <1>1. IdleTask.pc \notin Granting /\ IdleTask.pc \notin {"claim", "record"}
    BY DEF IdleTask, Granting
  <1>2. CASE Abandon(w)
    BY <1>1, <1>2, IdleIsTask, StartStep DEF Abandon, IInv, TypeOK
  <1>3. CASE RecordNotification(w)
    <2>1. seen' \subseteq Messages
      BY <1>3 DEF RecordNotification, IInv, TypeOK, Task, Grants,
                  GrantsAreSound, TaskIsSound
    <2> QED
      BY <1>1, <1>3, <2>1, IdleIsTask, StartStep
         DEF RecordNotification, IInv, TypeOK
  <1> QED
    BY <1>2, <1>3

-----------------------------------------------------------------------------
(* Steps that write the Subscription row at most.                          *)

LEMMA DoneStep ==
    ASSUME IInv, NEW w \in Workers, Done(w),
           UNCHANGED <<now, store, row, payment, seen, aged, faults>>,
           sub' \in SubscriptionRow,
           \/ sub'.plan = 0
           \/ sub'.plan = sub.plan /\ sub'.renew = sub.renew
    PROVE  IInv'
  <1>1. /\ task' \in [Workers -> Task]
        /\ task'[w].pc \in {"idle", "record"}
        /\ task'[w].pc = "record" => task'[w].msg # NoMessage
        /\ \A v \in Workers \ {w} : task'[v] = task[v]
    BY DoneIsTask DEF IInv
  <1>2. TypeOK'
    BY <1>1 DEF IInv, TypeOK, store
  <1>3. Calm(task'[w])
    BY <1>1 DEF Calm, Granting
  <1> QED
    BY <1>1, <1>2, <1>3, CalmStep

LEMMA GotoStep ==
    ASSUME IInv, NEW w \in Workers,
           NEW pc \in Pcs \ (Granting \cup {"claim", "record"}), Goto(w, pc),
           UNCHANGED <<now, store, row, payment, sub, seen, aged, faults>>
    PROVE  IInv'
  <1>1. /\ task' \in [Workers -> Task] /\ task'[w].pc = pc
        /\ \A v \in Workers \ {w} : task'[v] = task[v]
    BY GotoIsTask DEF IInv
  <1>2. TypeOK'
    BY <1>1 DEF IInv, TypeOK, store
  <1>3. Calm(task'[w])
    BY <1>1 DEF Calm
  <1> QED
    BY <1>1, <1>2, <1>3, CalmStep

LEMMA ReadingSteps ==
    ASSUME IInv, NEW w \in Workers,
           FindSubscription(w) \/ ExpireSubscription(w) \/ CancelAutoRenew(w)
    PROVE  IInv'
  <1>1. {"downgrade", "setAuto"} \subseteq Pcs \ (Granting \cup {"claim", "record"})
    BY DEF Pcs, Granting
  <1>2. sub \in SubscriptionRow
    BY DEF IInv, TypeOK
  <1>3. CASE FindSubscription(w)
    <2>1. Goto(w, "downgrade") \/ Done(w)
      BY <1>3 DEF FindSubscription
    <2> QED
      BY <1>1, <1>2, <1>3, <2>1, GotoStep, DoneStep DEF FindSubscription
  <1>4. CASE ExpireSubscription(w)
    <2>1. Goto(w, "downgrade") \/ Done(w)
      BY <1>4 DEF ExpireSubscription
    <2> QED
      BY <1>1, <1>2, <1>4, <2>1, GotoStep, DoneStep DEF ExpireSubscription
  <1>5. CASE CancelAutoRenew(w)
    <2>1. Goto(w, "setAuto") \/ Goto(w, "downgrade") \/ Done(w)
      BY <1>5 DEF CancelAutoRenew
    <2> QED
      BY <1>1, <1>2, <1>5, <2>1, GotoStep, DoneStep DEF CancelAutoRenew
  <1> QED
    BY <1>3, <1>4, <1>5

\* Renewal may be switched without touching the plan or its day.
LEMMA RenewalSwitched ==
    ASSUME TypeOK, NEW b \in BOOLEAN, sub' = [sub EXCEPT !.auto = b]
    PROVE  /\ sub' \in SubscriptionRow
           /\ sub'.plan = sub.plan /\ sub'.renew = sub.renew
  BY DEF TypeOK, SubscriptionRow

LEMMA SubscriptionSteps ==
    ASSUME IInv, NEW w \in Workers,
           DowngradeUser(w) \/ SetAutoRenewOff(w) \/ SetAutoRenewOn(w)
    PROVE  IInv'
  <1>1. CASE DowngradeUser(w)
    <2>1. sub' = FreedRow(sub) /\ sub \in SubscriptionRow
      BY <1>1 DEF DowngradeUser, IInv, TypeOK
    <2>2. sub' \in SubscriptionRow /\ sub'.plan = 0
      BY <2>1 DEF FreedRow, SubscriptionRow, RowStatuses
    <2> QED
      BY <1>1, <2>2, DoneStep DEF DowngradeUser
  <1>2. CASE SetAutoRenewOff(w)
    <2>1. sub' = [sub EXCEPT !.auto = FALSE]
      BY <1>2 DEF SetAutoRenewOff
    <2> QED
      BY <1>2, <2>1, RenewalSwitched, DoneStep DEF SetAutoRenewOff, IInv
  <1>3. CASE SetAutoRenewOn(w)
    <2>1. PICK b \in BOOLEAN : sub' = [sub EXCEPT !.auto = b]
      <3>1. sub.auto \in BOOLEAN
        BY DEF IInv, TypeOK, SubscriptionRow
      <3> QED
        BY <1>3, <3>1 DEF SetAutoRenewOn, SetRenewal
    <2> QED
      BY <1>3, <2>1, RenewalSwitched, DoneStep DEF SetAutoRenewOn, IInv
  <1> QED
    BY <1>1, <1>2, <1>3

LEMMA AutoOffStep ==
    ASSUME IInv, NEW w \in Workers, AutoOff(w)
    PROVE  IInv'
  <1>1. PICK b \in BOOLEAN : sub' = [sub EXCEPT !.auto = b]
    <2>1. sub.auto \in BOOLEAN
      BY DEF IInv, TypeOK, SubscriptionRow
    <2> QED
      BY <2>1 DEF AutoOff, SetRenewal
  <1>2. sub' \in SubscriptionRow /\ sub'.plan = sub.plan /\ sub'.renew = sub.renew
    BY <1>1, RenewalSwitched DEF IInv
  <1>3. "markActive" \in Pcs /\ {"autoOff", "markActive"} \subseteq Granting \ {"pay"}
    BY DEF Pcs, Granting
  <1>4. /\ task' \in [Workers -> Task]
        /\ task'[w].pc = "markActive" /\ task'[w].k = task[w].k
        /\ \A v \in Workers \ {w} : task'[v] = task[v]
    BY <1>3, GotoIsTask DEF AutoOff, IInv
  <1>5. TypeOK'
    BY <1>2, <1>4 DEF AutoOff, IInv, TypeOK, store
  <1>6. TaskIsSound(task[w])'
    BY <1>3, <1>4 DEF TaskIsSound, AutoOff, IInv, Grants, GrantsAreSound, store
  <1>7. \A k \in Periods : Holds(task'[w], k) => Holds(task[w], k)
    BY <1>3, <1>4 DEF Holds, AutoOff
  <1> QED
    BY <1>2, <1>4, <1>5, <1>6, <1>7, QuietStep DEF AutoOff

-----------------------------------------------------------------------------
(* Steps that write the rows, the Payments or the store.                   *)

\* What the invariant needs of a step of worker w that grows the store or the
\* tables; the parts about plan, rows and claims are shown action by action.
LEMMA WriteStep ==
    ASSUME IInv, TypeOK', NEW w \in Workers, StoreGrows, PaymentsStay,
           \A v \in Workers \ {w} : task'[v] = task[v],
           TaskIsSound(task[w])',
           PlanIsBacked', ActiveIsPaid', ClaimIsExclusive', ClaimIsKept',
           \A k \in Periods : row'[k].stale => k \in aged'
    PROVE  IInv'
  BY TasksKept DEF IInv, Grants, GrantsAreSound, StaleIsAged

LEMMA TablesStay ==
    ASSUME IInv, UNCHANGED <<store, payment>>
    PROVE  StoreGrows /\ PaymentsStay
  BY DEF StoreGrows, PaymentsStay, store, IInv, TypeOK

LEMMA ClaimStep ==
    ASSUME IInv, NEW w \in Workers, Claim(w)
    PROVE  IInv'
  <1> DEFINE c == task[w].k
  <1>1. c \in 1..bought /\ c \in Periods
    BY BoughtArePeriods
       DEF Claim, IInv, Grants, GrantsAreSound, TaskIsSound
  <1>2. CASE ~Claimable(row[c])
    <2>1. sub \in SubscriptionRow
      BY DEF IInv, TypeOK
    <2> QED
      BY <1>2, <2>1, DoneStep DEF Claim
  <1>3. CASE Claimable(row[c])
    <2>1. /\ row' = [row EXCEPT ![c].st = "processing", ![c].stale = FALSE]
          /\ Goto(w, "pay")
      BY <1>3 DEF Claim
    <2>2. "pay" \in Pcs /\ "pay" \in Granting /\ "claim" \notin Granting
      BY DEF Pcs, Granting
    <2>3. /\ task' \in [Workers -> Task]
          /\ task'[w].pc = "pay" /\ task'[w].k = c
          /\ \A v \in Workers \ {w} : task'[v] = task[v]
      BY <2>1, <2>2, GotoIsTask DEF IInv
    <2>4. /\ row' \in [Periods -> StoreRow]
          /\ row'[c].st = "processing" /\ ~row'[c].stale
          /\ \A k \in Periods \ {c} : row'[k] = row[k]
      BY <1>1, <2>1 DEF IInv, TypeOK, StoreRow, RowStates
    <2>5. TypeOK'
      BY <2>3, <2>4 DEF Claim, IInv, TypeOK, store
    <2>6. StoreGrows /\ PaymentsStay
      BY TablesStay DEF Claim
    <2>7. PlanIsBacked'
      BY <2>5, <2>6, BackingKept DEF Claim
    <2>8. ActiveIsPaid'
      BY <2>4, <2>6, RowsKept
    <2>9. TaskIsSound(task[w])'
      BY <1>1, <2>3 DEF TaskIsSound, Claim, store
    <2>10. \A k \in Periods : row'[k].stale => k \in aged'
      BY <2>4 DEF Claim, IInv, Grants, GrantsAreSound, StaleIsAged
    <2>11. c \notin aged => \A v \in Workers : ~Holds(task[v], c)
      <3> SUFFICES ASSUME c \notin aged, NEW v \in Workers, Holds(task[v], c)
                   PROVE  FALSE
        OBVIOUS
      <3>1. row[c].st \in {"processing", "revoked"} /\ ~row[c].stale
        BY <1>1 DEF IInv, Grants, GrantsAreSound, ClaimIsKept, StaleIsAged
      <3> QED
        BY <1>3, <3>1 DEF Claimable
    <2>12. aged' = aged
      BY DEF Claim
    <2>13. ClaimIsExclusive'
      <3> SUFFICES ASSUME NEW k \in Periods \ aged', NEW u \in Workers,
                          NEW v \in Workers,
                          Holds(task'[u], k), Holds(task'[v], k)
                   PROVE  u = v
        BY DEF ClaimIsExclusive, Holds
      <3>1. CASE k = c
        BY <2>3, <2>11, <2>12, <3>1
      <3>2. CASE k # c
        <4>1. u # w /\ v # w
          BY <2>3, <3>2 DEF Holds
        <4> QED
          BY <2>3, <2>12, <4>1 DEF IInv, Grants, ClaimIsExclusive
      <3> QED
        BY <3>1, <3>2
    <2>14. ClaimIsKept'
      <3> SUFFICES ASSUME NEW k \in Periods \ aged', NEW v \in Workers,
                          Holds(task'[v], k)
                   PROVE  row'[k].st \in {"processing", "revoked"}
        BY DEF ClaimIsKept, Holds
      <3>1. CASE k = c
        BY <2>4, <3>1
      <3>2. CASE k # c
        <4>1. v # w
          BY <2>3, <3>2 DEF Holds
        <4> QED
          BY <2>3, <2>4, <2>12, <3>2, <4>1
             DEF IInv, Grants, GrantsAreSound, ClaimIsKept
      <3> QED
        BY <3>1, <3>2
    <2> QED
      BY <2>3, <2>5, <2>6, <2>7, <2>8, <2>9, <2>10, <2>13, <2>14, WriteStep
  <1> QED
    BY <1>2, <1>3

LEMMA CreatePaymentStep ==
    ASSUME IInv, NEW w \in Workers, CreatePayment(w)
    PROVE  IInv'
  <1> DEFINE c == task[w].k
  <1>1. {"pay", "activate"} \subseteq Granting /\ "activate" \in Pcs
    BY DEF Pcs, Granting
  <1>2. c \in 1..bought /\ c \in Periods
    BY <1>1, BoughtArePeriods
       DEF CreatePayment, IInv, Grants, GrantsAreSound, TaskIsSound
  <1>3. /\ task' \in [Workers -> Task]
        /\ task'[w].pc = "activate" /\ task'[w].k = c
        /\ \A v \in Workers \ {w} : task'[v] = task[v]
    BY <1>1, GotoIsTask DEF CreatePayment, IInv
  <1>4. /\ payment' \in [Periods -> {"none", "paid", "refunded"}]
        /\ payment'[c] # "none"
        /\ PaymentsStay
    BY <1>2 DEF CreatePayment, IInv, TypeOK, PaymentsStay
  <1>5. TypeOK'
    BY <1>3, <1>4 DEF CreatePayment, IInv, TypeOK, store
  <1>6. StoreGrows
    BY DEF CreatePayment, StoreGrows, store, IInv, TypeOK
  <1>7. PlanIsBacked'
    BY <1>4, <1>5, <1>6, BackingKept DEF CreatePayment
  <1>8. ActiveIsPaid'
    BY <1>4, RowsKept DEF CreatePayment
  <1>9. NobodyStarts
    BY <1>1, <1>3 DEF NobodyStarts, Holds, CreatePayment
  <1>10. ClaimIsExclusive' /\ ClaimIsKept'
    BY <1>9, ClaimsKept DEF CreatePayment
  <1>11. TaskIsSound(task[w])'
    BY <1>2, <1>3, <1>4 DEF TaskIsSound, CreatePayment, store
  <1>12. \A k \in Periods : row'[k].stale => k \in aged'
    BY DEF CreatePayment, IInv, Grants, GrantsAreSound, StaleIsAged
  <1> QED
    BY <1>3, <1>4, <1>5, <1>6, <1>7, <1>8, <1>10, <1>11, <1>12, WriteStep

\* The plan that is activated is the one whose Payment was just written.
LEMMA ActivateStep ==
    ASSUME IInv, NEW w \in Workers, Activate(w)
    PROVE  IInv'
  <1> DEFINE c == task[w].k
  <1>1. /\ {"activate", "markActive", "autoOff"} \subseteq Granting \ {"pay"}
        /\ {"markActive", "autoOff"} \subseteq Pcs
    BY DEF Pcs, Granting
  <1>2. c \in 1..bought /\ c \in Periods /\ payment[c] # "none"
    BY <1>1, BoughtArePeriods
       DEF Activate, IInv, Grants, GrantsAreSound, TaskIsSound
  <1>3. /\ task' \in [Workers -> Task]
        /\ task'[w].pc \in {"markActive", "autoOff"} /\ task'[w].k = c
        /\ \A v \in Workers \ {w} : task'[v] = task[v]
    BY <1>1, GotoIsTask DEF Activate, IInv
  <1>4. /\ sub' \in SubscriptionRow
        /\ sub'.plan = plan[c] /\ sub'.renew = expires[c]
    <2>1. /\ sub \in SubscriptionRow
          /\ plan[c] \in Plans \cup {0} /\ expires[c] \in Nat
      BY <1>2 DEF IInv, TypeOK
    <2>2. sub' = ActivatedRow(sub, plan[c], expires[c])
      BY DEF Activate, ActivatePlan
    <2>3. ActivatedRow(sub, plan[c], expires[c]) \in SubscriptionRow
      BY <2>1, WrittenRows
    <2> QED
      BY <2>1, <2>2, <2>3 DEF ActivatedRow, SubscriptionRow
  <1>5. TypeOK'
    BY <1>3, <1>4 DEF Activate, IInv, TypeOK, store
  <1>6. StoreGrows /\ PaymentsStay
    BY TablesStay DEF Activate
  <1>7. PlanIsBacked'
    BY <1>2, <1>4 DEF PlanIsBacked, Activate, store
  <1>8. ActiveIsPaid'
    BY <1>6, RowsKept DEF Activate
  <1>9. NobodyStarts
    BY <1>1, <1>3 DEF NobodyStarts, Holds, Activate
  <1>10. ClaimIsExclusive' /\ ClaimIsKept'
    BY <1>9, ClaimsKept DEF Activate
  <1>11. TaskIsSound(task[w])'
    BY <1>1, <1>2, <1>3 DEF TaskIsSound, Activate, store
  <1>12. \A k \in Periods : row'[k].stale => k \in aged'
    BY DEF Activate, IInv, Grants, GrantsAreSound, StaleIsAged
  <1> QED
    BY <1>3, <1>5, <1>6, <1>7, <1>8, <1>10, <1>11, <1>12, WriteStep

\* A handler that has stopped granting changes its row for nobody else.
LEMMA ReleaseStep ==
    ASSUME IInv, TypeOK', NEW w \in Workers, StoreGrows, PaymentsStay,
           NEW c \in Periods,
           \A v \in Workers \ {w} : task'[v] = task[v],
           Calm(task'[w]),
           \/ Holds(task[w], c)
           \/ row'[c].st = "revoked",
           \A k \in Periods \ {c} : row'[k].st = row[k].st,
           \A k \in Periods : row'[k].stale => row[k].stale,
           UNCHANGED <<sub, aged>>, ActiveIsPaid'
    PROVE  IInv'
  <1>1. TaskIsSound(task[w])' /\ \A k \in Periods : ~Holds(task'[w], k)
    BY CalmIsSound
  <1>2. NobodyStarts
    BY <1>1 DEF NobodyStarts
  <1>3. PlanIsBacked'
    BY BackingKept
  <1>4. ASSUME NEW k \in Periods \ aged', NEW v \in Workers, Holds(task'[v], k)
        PROVE  row'[k].st \in {row[k].st, "revoked"}
    <2>1. v # w /\ Holds(task[v], k)
      BY <1>1, <1>2, <1>4 DEF NobodyStarts
    <2>2. ~Holds(task[w], k)
      BY <2>1 DEF IInv, Grants, ClaimIsExclusive
    <2> QED
      BY <2>2
  <1>5. ClaimIsExclusive' /\ ClaimIsKept'
    BY <1>2, <1>4, ClaimsKept
  <1>6. \A k \in Periods : row'[k].stale => k \in aged'
    BY DEF IInv, Grants, GrantsAreSound, StaleIsAged
  <1> QED
    BY <1>1, <1>3, <1>5, <1>6, WriteStep

LEMMA MarkActiveStep ==
    ASSUME IInv, NEW w \in Workers, MarkActive(w)
    PROVE  IInv'
  <1> DEFINE c == task[w].k
  <1>1. "markActive" \in Granting \ {"pay"}
    BY DEF Granting
  <1>2. c \in Periods /\ payment[c] # "none" /\ Holds(task[w], c)
    BY <1>1, BoughtArePeriods
       DEF MarkActive, IInv, Grants, GrantsAreSound, TaskIsSound, Holds
  <1>3. /\ task' \in [Workers -> Task] /\ Calm(task'[w])
        /\ \A v \in Workers \ {w} : task'[v] = task[v]
    BY DoneIsTask DEF MarkActive, IInv, Calm, Granting
  <1>4. /\ row' \in [Periods -> StoreRow]
        /\ row'[c].st = "active" /\ row'[c].pay /\ ~row'[c].stale
        /\ \A k \in Periods \ {c} : row'[k] = row[k]
    BY <1>2 DEF MarkActive, IInv, TypeOK, StoreRow, RowStates
  <1>5. TypeOK'
    BY <1>3, <1>4 DEF MarkActive, IInv, TypeOK, store
  <1>6. StoreGrows /\ PaymentsStay
    BY TablesStay DEF MarkActive
  <1>7. ActiveIsPaid'
    <2> SUFFICES ASSUME NEW k \in Periods, row'[k].st \in {"active", "expired"}
                 PROVE  row'[k].pay /\ payment'[k] # "none"
      BY DEF ActiveIsPaid
    <2>1. CASE k = c
      BY <1>2, <1>4, <2>1 DEF MarkActive
    <2>2. CASE k # c
      BY <1>4, <2>2 DEF MarkActive, IInv, Grants, ActiveIsPaid
    <2> QED
      BY <2>1, <2>2
  <1>8. \A k \in Periods : row'[k].stale => row[k].stale
    BY <1>4
  <1>9. \A k \in Periods \ {c} : row'[k].st = row[k].st
    BY <1>4
  <1> QED
    BY <1>2, <1>3, <1>5, <1>6, <1>7, <1>8, <1>9, ReleaseStep DEF MarkActive

LEMMA MarkFailedStep ==
    ASSUME IInv, NEW w \in Workers, MarkFailed(w)
    PROVE  IInv'
  <1> DEFINE c == task[w].k
  <1>1. c \in Periods /\ Holds(task[w], c)
    BY BoughtArePeriods
       DEF MarkFailed, IInv, Grants, GrantsAreSound, TaskIsSound, Holds
  <1>2. /\ task' \in [Workers -> Task] /\ Calm(task'[w])
        /\ \A v \in Workers \ {w} : task'[v] = task[v]
    <2>1. Calm(IdleTask)
      BY DEF IdleTask, Calm, Granting
    <2> QED
      BY <2>1, IdleIsTask, StartIsTask DEF MarkFailed, IInv
  <1>3. /\ row' \in [Periods -> StoreRow]
        /\ row'[c].st = "failed" /\ row'[c].stale = row[c].stale
        /\ \A k \in Periods \ {c} : row'[k] = row[k]
    BY <1>1 DEF MarkFailed, IInv, TypeOK, StoreRow, RowStates
  <1>4. TypeOK'
    BY <1>2, <1>3 DEF MarkFailed, IInv, TypeOK, store
  <1>5. StoreGrows /\ PaymentsStay
    BY TablesStay DEF MarkFailed
  <1>6. \A k \in Periods : row'[k].st \in {"active", "expired"} =>
            row[k].st \in {"active", "expired"} /\ row'[k].pay = row[k].pay
    BY <1>3
  <1>7. ActiveIsPaid'
    BY <1>5, <1>6, RowsKept
  <1>8. /\ \A k \in Periods : row'[k].stale => row[k].stale
        /\ \A k \in Periods \ {c} : row'[k].st = row[k].st
    BY <1>3
  <1> QED
    BY <1>1, <1>2, <1>4, <1>5, <1>7, <1>8, ReleaseStep DEF MarkFailed

LEMMA MarkRevokedStep ==
    ASSUME IInv, NEW w \in Workers, MarkRevoked(w)
    PROVE  IInv'
  <1> DEFINE c == task[w].k
  <1>1. sub \in SubscriptionRow
    BY DEF IInv, TypeOK
  <1>2. {"refundPayment", "findSub"} \subseteq Pcs \ (Granting \cup {"claim", "record"})
    BY DEF Pcs, Granting
  <1>3. CASE row[c].st = "revoked"
    BY <1>1, <1>3, DoneStep DEF MarkRevoked
  <1>4. CASE row[c].st # "revoked"
    <2>1. PICK pc \in {"refundPayment", "findSub"} : Goto(w, pc)
      BY <1>4 DEF MarkRevoked
    <2>2. row' = [row EXCEPT ![c].st = "revoked"]
      BY <1>4 DEF MarkRevoked
    <2>3. CASE c \notin Periods
      <3>1. row' = row
        BY <2>2, <2>3 DEF IInv, TypeOK
      <3> QED
        BY <1>2, <2>1, <3>1, GotoStep DEF MarkRevoked
    <2>4. CASE c \in Periods
      <3>1. /\ task' \in [Workers -> Task] /\ Calm(task'[w])
            /\ \A v \in Workers \ {w} : task'[v] = task[v]
        BY <1>2, <2>1, GotoIsTask DEF IInv, Calm
      <3>2. /\ row' \in [Periods -> StoreRow]
            /\ row'[c].st = "revoked" /\ row'[c].stale = row[c].stale
            /\ \A k \in Periods \ {c} : row'[k] = row[k]
        BY <2>2, <2>4 DEF IInv, TypeOK, StoreRow, RowStates
      <3>3. TypeOK'
        BY <3>1, <3>2 DEF MarkRevoked, IInv, TypeOK, store
      <3>4. StoreGrows /\ PaymentsStay
        BY TablesStay DEF MarkRevoked
      <3>5. \A k \in Periods : row'[k].st \in {"active", "expired"} =>
                row[k].st \in {"active", "expired"} /\ row'[k].pay = row[k].pay
        BY <3>2
      <3>6. ActiveIsPaid'
        BY <3>4, <3>5, RowsKept
      <3>7. /\ \A k \in Periods : row'[k].stale => row[k].stale
            /\ \A k \in Periods \ {c} : row'[k].st = row[k].st
        BY <3>2
      <3> QED
        BY <2>4, <3>1, <3>2, <3>3, <3>4, <3>6, <3>7, ReleaseStep DEF MarkRevoked
    <2> QED
      BY <2>3, <2>4
  <1> QED
    BY <1>3, <1>4

LEMMA MarkPaymentRefundedStep ==
    ASSUME IInv, NEW w \in Workers, MarkPaymentRefunded(w)
    PROVE  IInv'
  <1>1. "findSub" \in Pcs \ (Granting \cup {"claim", "record"})
    BY DEF Pcs, Granting
  <1>2. /\ task' \in [Workers -> Task] /\ Calm(task'[w])
        /\ \A v \in Workers \ {w} : task'[v] = task[v]
    BY <1>1, GotoIsTask DEF MarkPaymentRefunded, IInv, Calm
  <1>3. payment' \in [Periods -> {"none", "paid", "refunded"}] /\ PaymentsStay
    BY DEF MarkPaymentRefunded, IInv, TypeOK, PaymentsStay
  <1>4. TypeOK'
    BY <1>2, <1>3 DEF MarkPaymentRefunded, IInv, TypeOK, store
  <1>5. StoreGrows
    BY DEF MarkPaymentRefunded, StoreGrows, store, IInv, TypeOK
  <1>6. TaskIsSound(task[w])' /\ \A k \in Periods : ~Holds(task'[w], k)
    BY <1>2, CalmIsSound
  <1>7. PlanIsBacked'
    BY <1>3, <1>4, <1>5, BackingKept DEF MarkPaymentRefunded
  <1>8. ActiveIsPaid'
    BY <1>3, RowsKept DEF MarkPaymentRefunded
  <1>9. NobodyStarts
    BY <1>2, <1>6 DEF NobodyStarts
  <1>10. ClaimIsExclusive' /\ ClaimIsKept'
    BY <1>9, ClaimsKept DEF MarkPaymentRefunded
  <1>11. \A k \in Periods : row'[k].stale => k \in aged'
    BY DEF MarkPaymentRefunded, IInv, Grants, GrantsAreSound, StaleIsAged
  <1> QED
    BY <1>2, <1>3, <1>4, <1>5, <1>6, <1>7, <1>8, <1>10, <1>11, WriteStep

\* Only active rows expire, and none of those is being granted for the first time.
LEMMA ExpireRowsStep ==
    ASSUME IInv, NEW w \in Workers, ExpireRows(w)
    PROVE  IInv'
  <1>1. /\ task' \in [Workers -> Task] /\ Calm(task'[w])
        /\ \A v \in Workers \ {w} : task'[v] = task[v]
    <2>1. "expireSub" \in Pcs \ (Granting \cup {"claim", "record"})
      BY DEF Pcs, Granting
    <2>2. CASE Done(w)
      BY <2>2, DoneIsTask DEF IInv, Calm, Granting
    <2>3. CASE Goto(w, "expireSub")
      BY <2>1, <2>3, GotoIsTask DEF IInv, Calm
    <2> QED
      BY <2>2, <2>3 DEF ExpireRows
  <1>2. \A k \in Periods :
            /\ row'[k] \in StoreRow
            /\ row'[k].stale = row[k].stale /\ row'[k].pay = row[k].pay
            /\ \/ row'[k].st = row[k].st
               \/ row[k].st = "active" /\ row'[k].st = "expired"
    BY DEF ExpireRows, MayExpire, IInv, TypeOK, StoreRow, RowStates
  <1>3. row' \in [Periods -> StoreRow]
    BY <1>2 DEF ExpireRows
  <1>4. TypeOK'
    BY <1>1, <1>3 DEF ExpireRows, IInv, TypeOK, store
  <1>5. StoreGrows /\ PaymentsStay
    BY TablesStay DEF ExpireRows
  <1>6. TaskIsSound(task[w])' /\ \A k \in Periods : ~Holds(task'[w], k)
    BY <1>1, CalmIsSound
  <1>7. PlanIsBacked'
    BY <1>4, <1>5, BackingKept DEF ExpireRows
  <1>8. ActiveIsPaid'
    BY <1>2, <1>5, RowsKept
  <1>9. NobodyStarts /\ aged' = aged
    BY <1>1, <1>6 DEF NobodyStarts, ExpireRows
  <1>10. ASSUME NEW k \in Periods \ aged', NEW v \in Workers, Holds(task'[v], k)
         PROVE  row'[k].st \in {row[k].st, "revoked"}
    <2>1. row[k].st \in {"processing", "revoked"}
      BY <1>9, <1>10
         DEF NobodyStarts, IInv, Grants, GrantsAreSound, ClaimIsKept
    <2> QED
      BY <1>2, <2>1
  <1>11. ClaimIsExclusive' /\ ClaimIsKept'
    BY <1>9, <1>10, ClaimsKept
  <1>12. \A k \in Periods : row'[k].stale => k \in aged'
    BY <1>2, <1>9 DEF IInv, Grants, GrantsAreSound, StaleIsAged
  <1> QED
    BY <1>1, <1>4, <1>5, <1>6, <1>7, <1>8, <1>11, <1>12, WriteStep

-----------------------------------------------------------------------------
(* The store, and time.                                                    *)

\* No handler moves.
LEMMA WorldStep ==
    ASSUME IInv, TypeOK', StoreGrows, aged \subseteq aged',
           \A k \in Periods : row'[k].st = row[k].st /\ row'[k].pay = row[k].pay,
           \A k \in Periods : row'[k].stale => k \in aged',
           UNCHANGED <<payment, sub, task>>
    PROVE  IInv'
  <1>1. PaymentsStay /\ NobodyStarts
    BY DEF PaymentsStay, NobodyStarts
  <1>2. PlanIsBacked'
    BY <1>1, BackingKept
  <1>3. ActiveIsPaid'
    BY <1>1, RowsKept
  <1>4. ClaimIsExclusive' /\ ClaimIsKept'
    BY <1>1, ClaimsKept
  <1>5. ASSUME NEW v \in Workers PROVE TaskIsSound(task[v])'
    <2>1. TaskIsSound(task[v]) /\ task'[v] = task[v]
      BY DEF IInv, Grants, GrantsAreSound
    <2>2. bought \in Nat /\ bought' \in Nat /\ bought' >= bought
      BY StoreAssumption DEF StoreGrows, IInv, TypeOK
    <2> QED
      BY <2>1, <2>2 DEF TaskIsSound
  <1>6. StaleIsAged'
    BY DEF StaleIsAged
  <1> QED
    BY <1>2, <1>3, <1>4, <1>5, <1>6 DEF IInv, Grants, GrantsAreSound

LEMMA BuyStep ==
    ASSUME IInv, NEW p \in Plans, Buy(p)
    PROVE  IInv'
  <1>1. bought' = bought + 1 /\ bought' \in 0..MaxPeriods /\ bought \in Nat
    BY StoreAssumption DEF Buy, IInv, TypeOK
  <1>2. plan' \in [Periods -> Plans \cup {0}]
    BY DEF Buy, IInv, TypeOK
  <1>3. expires' \in [Periods -> Nat]
    <2> DEFINE e == (IF Running /\ p = plan[bought]
                     THEN expires[bought] ELSE now) + PeriodDays
    <2>1. CASE bought > 0
      <3>1. bought \in Periods
        BY <1>1, <2>1, BoughtArePeriods DEF IInv
      <3>2. e \in Nat
        BY <3>1, DaysAssumption DEF IInv, TypeOK
      <3> QED
        BY <3>2 DEF Buy, IInv, TypeOK
    <2>2. CASE bought = 0
      <3>1. ~Running
        BY <2>2 DEF Running
      <3>2. e \in Nat
        BY <3>1, DaysAssumption DEF IInv, TypeOK
      <3> QED
        BY <3>2 DEF Buy, IInv, TypeOK
    <2> QED
      BY <1>1, <2>1, <2>2
  <1>4. TypeOK'
    BY <1>1, <1>2, <1>3 DEF Buy, IInv, TypeOK
  <1>5. StoreGrows
    <2> SUFFICES ASSUME NEW k \in 1..bought
                 PROVE  plan'[k] = plan[k] /\ expires'[k] = expires[k]
      BY <1>1 DEF StoreGrows
    <2>1. k # bought + 1 /\ k \in Periods
      BY <1>1, BoughtArePeriods DEF IInv
    <2> QED
      BY <2>1 DEF Buy, IInv, TypeOK
  <1>6. \A k \in Periods : row'[k].stale => k \in aged'
    BY DEF Buy, IInv, Grants, GrantsAreSound, StaleIsAged
  <1> QED
    BY <1>4, <1>5, <1>6, WorldStep DEF Buy

LEMMA RefundStep ==
    ASSUME IInv, NEW k \in Periods, Refund(k)
    PROVE  IInv'
  <1>1. TypeOK'
    BY DEF Refund, IInv, TypeOK
  <1>2. StoreGrows
    BY DEF Refund, StoreGrows, IInv, TypeOK
  <1>3. \A j \in Periods : row'[j].stale => j \in aged'
    BY DEF Refund, IInv, Grants, GrantsAreSound, StaleIsAged
  <1> QED
    BY <1>1, <1>2, <1>3, WorldStep DEF Refund

LEMMA AgeStep ==
    ASSUME IInv, NEW k \in Periods, Age(k)
    PROVE  IInv'
  <1>1. /\ row' \in [Periods -> StoreRow]
        /\ row'[k].st = row[k].st /\ row'[k].pay = row[k].pay
        /\ \A j \in Periods \ {k} : row'[j] = row[j]
    BY DEF Age, IInv, TypeOK, StoreRow
  <1>2. aged' = aged \cup {k}
    BY DEF Age
  <1>3. TypeOK'
    BY <1>1, <1>2 DEF Age, IInv, TypeOK, store
  <1>4. StoreGrows
    BY TablesStay DEF Age
  <1>5. \A j \in Periods : row'[j].stale => j \in aged'
    BY <1>1, <1>2 DEF IInv, Grants, GrantsAreSound, StaleIsAged
  <1>6. \A j \in Periods : row'[j].st = row[j].st /\ row'[j].pay = row[j].pay
    BY <1>1
  <1> QED
    BY <1>2, <1>3, <1>4, <1>5, <1>6, WorldStep DEF Age

LEMMA TickStep ==
    ASSUME IInv, Tick \/ UNCHANGED vars
    PROVE  IInv'
  <1>1. now' \in Nat
    BY DEF Tick, vars, IInv, TypeOK
  <1>2. UNCHANGED <<store, row, payment, sub, seen, aged, task, faults>>
    BY DEF Tick, vars
  <1>3. TypeOK'
    BY <1>1, <1>2 DEF IInv, TypeOK, store
  <1>4. StoreGrows
    BY <1>2, TablesStay
  <1>5. \A k \in Periods : row'[k].stale => k \in aged'
    BY <1>2 DEF IInv, Grants, GrantsAreSound, StaleIsAged
  <1> QED
    BY <1>2, <1>3, <1>4, <1>5, WorldStep

-----------------------------------------------------------------------------
\* Nothing is bought, granted or claimed at first.
THEOREM InitSound == Init => IInv
  <1> SUFFICES ASSUME Init PROVE IInv
    OBVIOUS
  <1>1. FreeRow(0) \in SubscriptionRow
    BY DaysAssumption DEF FreeRow, SubscriptionRow, RowStatuses
  <1>2. TypeOK
    BY <1>1, IdleIsTask, StoreAssumption
       DEF Init, TypeOK, NoRow, StoreRow, RowStates
  <1>3. PlanIsBacked /\ ActiveIsPaid
    BY DEF Init, PlanIsBacked, ActiveIsPaid, isPaidPlan, FreeRow, NoRow
  <1>4. \A w \in Workers : /\ TaskIsSound(task[w])
                           /\ \A k \in Periods : ~Holds(task[w], k)
    BY DEF Init, TaskIsSound, Holds, IdleTask, Granting
  <1>5. ClaimIsExclusive /\ ClaimIsKept
    BY <1>4 DEF ClaimIsExclusive, ClaimIsKept
  <1>6. StaleIsAged
    BY DEF Init, StaleIsAged, NoRow
  <1> QED
    BY <1>2, <1>3, <1>4, <1>5, <1>6 DEF IInv, Grants, GrantsAreSound

\* Every step of every handler, of the store and of time keeps the invariant.
THEOREM NextSound == IInv /\ [Next]_vars => IInv'
  <1> SUFFICES ASSUME IInv, [Next]_vars PROVE IInv'
    OBVIOUS
  <1>1. CASE \E p \in Plans : Buy(p)
    BY <1>1, BuyStep
  <1>2. CASE \E k \in Periods : Refund(k) \/ Age(k)
    BY <1>2, RefundStep, AgeStep
  <1>3. ASSUME NEW w \in Workers, Begin(w) PROVE IInv'
    BY <1>3, VerifyStep, NotificationStep, RenewalStatusStep, ExpireIfNeededStep
       DEF Begin
  <1>4. ASSUME NEW w \in Workers, Progress(w) PROVE IInv'
    <2>1. CASE Claim(w) \/ CreatePayment(w) \/ Activate(w) \/ AutoOff(w)
               \/ MarkActive(w)
      BY <2>1, ClaimStep, CreatePaymentStep, ActivateStep, AutoOffStep,
         MarkActiveStep
    <2>2. CASE MarkRevoked(w) \/ MarkPaymentRefunded(w) \/ ExpireRows(w)
               \/ RecordNotification(w)
      BY <2>2, MarkRevokedStep, MarkPaymentRefundedStep, ExpireRowsStep, EndStep
    <2>3. CASE FindSubscription(w) \/ ExpireSubscription(w) \/ CancelAutoRenew(w)
               \/ DowngradeUser(w) \/ SetAutoRenewOff(w) \/ SetAutoRenewOn(w)
      BY <2>3, ReadingSteps, SubscriptionSteps
    <2> QED
      BY <1>4, <2>1, <2>2, <2>3 DEF Progress
  <1>5. ASSUME NEW w \in Workers, MarkFailed(w) \/ Abandon(w) PROVE IInv'
    BY <1>5, MarkFailedStep, EndStep
  <1>6. CASE Tick \/ UNCHANGED vars
    BY <1>6, TickStep
  <1> QED
    BY <1>1, <1>2, <1>3, <1>4, <1>5, <1>6 DEF Next

-----------------------------------------------------------------------------
\* The invariant holds in every reachable state.
THEOREM Invariance == Spec => []IInv
  BY InitSound, NextSound, PTL DEF Spec

\* Every variable keeps its type.
THEOREM TypeCorrect == Spec => []TypeOK
  <1>1. IInv => TypeOK
    BY DEF IInv
  <1> QED
    BY <1>1, Invariance, PTL

\* A paid plan is one the store sold, until the day the store named, and it has
\* a Payment, whoever granted it, how often, and wherever that failed.
THEOREM PlanBacked == Spec => []PlanIsBacked
  <1>1. IInv => PlanIsBacked
    BY DEF IInv, Grants
  <1> QED
    BY <1>1, Invariance, PTL

\* An active or expired store row has its Payment.
THEOREM ActivePaid == Spec => []ActiveIsPaid
  <1>1. IInv => ActiveIsPaid
    BY DEF IInv, Grants
  <1> QED
    BY <1>1, Invariance, PTL

\* No period is granted by two handlers while its claim is not stale.
THEOREM ClaimExclusive == Spec => []ClaimIsExclusive
  <1>1. IInv => ClaimIsExclusive
    BY DEF IInv, Grants
  <1> QED
    BY <1>1, Invariance, PTL

\* What a handler knew when it went on to grant still holds when it does.
THEOREM GrantsSound == Spec => []GrantsAreSound
  <1>1. IInv => GrantsAreSound
    BY DEF IInv, Grants
  <1> QED
    BY <1>1, Invariance, PTL

-----------------------------------------------------------------------------
(* StorePurchases implements StoreLedger.  What the invariant has to say   *)
(* besides: a handler that revokes has the word of the store for it, one   *)
(* that withdraws the plan has seen a period that is over, whatever was    *)
(* bought since, and a row that names a Payment has one.                   *)

SomeOver == refunded # {} \/ \E k \in 1..bought : expires[k] <= now
HasReason(t) ==
    /\ t.pc \in {"revoke", "refundPayment", "findSub"} => t.k \in refunded
    /\ t.pc \in {"revoke", "refundPayment"} /\ t.pay => payment[t.k] # "none"
    /\ t.pc = "refundPayment" => t.pay
    /\ t.pc = "downgrade" => SomeOver
Reasons ==
    /\ \A k \in 1..bought : plan[k] \in Plans
    /\ refunded \subseteq 1..bought
    /\ \A k \in Periods : row[k].pay => payment[k] # "none"
    /\ \A w \in Workers : HasReason(task[w])
LInv == IInv /\ Reasons

\* The terms and the plan, as StorePurchases!Ledger reads them.
Terms == [k \in Periods |-> IF k \in 1..bought
                            THEN [plan |-> plan[k], until |-> expires[k]]
                            ELSE <<>>]
Shown == IF isPaidPlan(sub) THEN [plan |-> sub.plan, until |-> sub.renew] ELSE <<>>

LEMMA Unsold ==
    ASSUME NEW p, NEW e
    PROVE  [plan |-> p, until |-> e] # <<>>
  <1>1. DOMAIN [plan |-> p, until |-> e] = {"plan", "until"}
    OBVIOUS
  <1>2. DOMAIN <<>> = {}
    OBVIOUS
  <1> QED
    BY <1>1, <1>2

\* A plan that counts as expired is one of a period that ran out.
LEMMA ExpiredIsOver ==
    ASSUME IInv, Expired
    PROVE  SomeOver
  <1>1. isPaidPlan(sub) /\ sub.renew <= now
    BY DEF Expired, getSubscriptionStatus, IInv, TypeOK, SubscriptionRow
  <1>2. PICK k \in 1..bought : expires[k] = sub.renew
    BY <1>1 DEF IInv, Grants, PlanIsBacked
  <1> QED
    BY <1>1, <1>2 DEF SomeOver

\* Steps the ledger does not see: of one worker, or of the rows alone.
Unseen ==
    /\ UNCHANGED <<now, store, payment>>
    /\ sub'.plan = sub.plan /\ sub'.renew = sub.renew
    /\ \A k \in Periods : row'[k].pay => row[k].pay \/ payment[k] # "none"

LEMMA UnseenStep ==
    ASSUME LInv, NEW w \in Workers, Unseen,
           \A v \in Workers \ {w} : task'[v] = task[v],
           HasReason(task[w])'
    PROVE  Reasons' /\ UNCHANGED Ledger!bvars
  <1>1. UNCHANGED <<now, bought, plan, expires, refunded, payment>>
    BY DEF Unseen, store
  <1>2. Reasons'
    BY <1>1 DEF Unseen, LInv, Reasons, HasReason, SomeOver
  <1>3. UNCHANGED Ledger!bvars
    BY <1>1 DEF Unseen, Ledger!bvars, isPaidPlan
  <1> QED
    BY <1>2, <1>3

\* A task that needs no reason.
Harmless(t) == t.pc \notin {"revoke", "refundPayment", "findSub", "downgrade"}
LEMMA HarmlessHasReason ==
    ASSUME NEW w \in Workers, Harmless(task'[w])
    PROVE  HasReason(task[w])'
  BY DEF Harmless, HasReason

LEMMA Moved ==
    ASSUME LInv, NEW w \in Workers
    PROVE  /\ \A pc \in Pcs : Goto(w, pc) =>
                /\ task'[w].pc = pc /\ task'[w].k = task[w].k /\ task'[w].pay = task[w].pay
                /\ \A v \in Workers \ {w} : task'[v] = task[v]
           /\ \A t \in Task : Start(w, t) =>
                /\ task'[w] = t
                /\ \A v \in Workers \ {w} : task'[v] = task[v]
           /\ Done(w) => /\ Harmless(task'[w])
                         /\ \A v \in Workers \ {w} : task'[v] = task[v]
  <1>1. ASSUME NEW pc \in Pcs, Goto(w, pc)
        PROVE  /\ task'[w].pc = pc /\ task'[w].k = task[w].k /\ task'[w].pay = task[w].pay
               /\ \A v \in Workers \ {w} : task'[v] = task[v]
    BY <1>1 DEF LInv, IInv, TypeOK, Task, Goto
  <1>2. ASSUME NEW t \in Task, Start(w, t)
        PROVE  task'[w] = t /\ \A v \in Workers \ {w} : task'[v] = task[v]
    BY <1>2, StartIsTask DEF LInv, IInv
  <1>3. ASSUME Done(w)
        PROVE  Harmless(task'[w]) /\ \A v \in Workers \ {w} : task'[v] = task[v]
    BY <1>3, DoneIsTask DEF LInv, IInv, Harmless
  <1> QED
    BY <1>1, <1>2, <1>3

LEMMA StoreSaysSo ==
    ASSUME NEW k \in Periods
    PROVE  /\ VerifiedState(k) = "revoked" => k \in refunded
           /\ \A kind \in Kinds : Reaction(kind, k) = "revoke" => kind = "refund"
           /\ \A kind \in Kinds : Reaction(kind, k) \notin {"refundPayment", "findSub", "downgrade"}
  BY DEF VerifiedState, FetchedState, SignedState, Reaction, Kinds

\* What starts a handler.
LEMMA BeginUnseen ==
    ASSUME LInv, NEW w \in Workers, Begin(w)
    PROVE  Reasons' /\ UNCHANGED Ledger!bvars
  <1>1. Unseen
    <2>1. UNCHANGED <<now, store, row, payment, sub>>
      <3>1. ASSUME NEW k \in Periods,
                   VerifyPurchased(w, k) \/ VerifyRevoked(w, k) \/ VerifyExpired(w, k)
            PROVE  UNCHANGED <<now, store, row, payment, sub>>
        BY <3>1 DEF VerifyPurchased, VerifyRevoked, VerifyExpired
      <3>2. ASSUME NEW msg \in Messages, ReceiveNotification(w, msg)
            PROVE  UNCHANGED <<now, store, row, payment, sub>>
        BY <3>2 DEF ReceiveNotification
      <3>3. ASSUME NEW pc \in {"cancel", "autoOn"}, ReceiveRenewalStatus(w, pc)
            PROVE  UNCHANGED <<now, store, row, payment, sub>>
        BY <3>3 DEF ReceiveRenewalStatus
      <3>4. CASE ExpireIfNeeded(w)
        BY <3>4 DEF ExpireIfNeeded
      <3> QED BY <3>1, <3>2, <3>3, <3>4 DEF Begin
    <2> QED BY <2>1 DEF Unseen
  <1>2. ASSUME NEW t \in Task, Start(w, t), HasReason(t),
               UNCHANGED <<now, store, row, payment, sub>>
        PROVE  HasReason(task[w])' /\ \A v \in Workers \ {w} : task'[v] = task[v]
    BY <1>2, Moved DEF HasReason, SomeOver, store
  <1>3. ASSUME NEW k \in Periods,
               VerifyPurchased(w, k) \/ VerifyRevoked(w, k) \/ VerifyExpired(w, k)
        PROVE  HasReason(task[w])' /\ \A v \in Workers \ {w} : task'[v] = task[v]
    <2>1. k \in 0..MaxPeriods /\ row[k].pay \in BOOLEAN /\ (row[k].pay => payment[k] # "none")
      BY PeriodsAreNumbers DEF LInv, IInv, TypeOK, StoreRow, Reasons
    <2>2. CASE VerifyPurchased(w, k)
      <3> DEFINE t == [IdleTask EXCEPT !.pc = "claim", !.k = k]
      <3>1. t \in Task /\ HasReason(t)
        BY <2>1 DEF IdleTask, Task, Pcs, HasReason
      <3> QED BY <1>2, <2>2, <3>1 DEF VerifyPurchased
    <2>3. CASE VerifyRevoked(w, k)
      <3> DEFINE t == [IdleTask EXCEPT !.pc = "revoke", !.k = k, !.pay = row[k].pay]
      <3>1. k \in refunded
        BY <2>3, StoreSaysSo DEF VerifyRevoked
      <3>2. t \in Task /\ t.pc = "revoke" /\ t.k = k /\ t.pay = row[k].pay
        BY <2>1 DEF IdleTask, Task, Pcs
      <3>3. HasReason(t)
        BY <2>1, <3>1, <3>2 DEF HasReason
      <3> QED BY <1>2, <2>3, <3>2, <3>3 DEF VerifyRevoked
    <2>4. CASE VerifyExpired(w, k)
      <3> DEFINE t == [IdleTask EXCEPT !.pc = "expireRows", !.k = k, !.rows = {k}]
      <3>1. t \in Task /\ HasReason(t)
        BY <2>1 DEF IdleTask, Task, Pcs, HasReason
      <3> QED BY <1>2, <2>4, <3>1 DEF VerifyExpired
    <2> QED BY <1>3, <2>2, <2>3, <2>4
  <1>4. ASSUME NEW msg \in Messages, ReceiveNotification(w, msg)
        PROVE  HasReason(task[w])' /\ \A v \in Workers \ {w} : task'[v] = task[v]
    <2>1. PICK kind \in Kinds, k \in Periods : msg = <<kind, k>>
      BY DEF Messages
    <2>2. msg[1] = kind /\ msg[2] = k
      BY <2>1
    <2> DEFINE t == [pc |-> Reaction(msg[1], msg[2]), k |-> msg[2], msg |-> msg,
                     pay |-> msg[1] = "refund" /\ row[msg[2]].pay,
                     rows |-> IF msg[1] = "expired" THEN Active ELSE {}]
    <2>3. t \in Task
      <3>1. t.pc \in Pcs /\ t.k \in 0..MaxPeriods /\ t.rows \in SUBSET Periods
        BY <2>2, ReactionIsSound, PeriodsAreNumbers DEF Active
      <3>2. t.pay \in BOOLEAN
        BY <2>2 DEF LInv, IInv, TypeOK, StoreRow
      <3> QED BY <3>1, <3>2 DEF Task
    <2>4. t.pc = "revoke" => k \in refunded
      <3>1. msg \in Sent
        BY <1>4 DEF ReceiveNotification
      <3> QED BY <2>1, <2>2, <3>1, StoreSaysSo DEF Sent
    <2>5. t.pc \notin {"refundPayment", "findSub", "downgrade"}
      BY <2>2, StoreSaysSo
    <2>6. t.pay => payment[t.k] # "none"
      BY <2>2 DEF LInv, Reasons
    <2>7. HasReason(t)
      BY <2>2, <2>4, <2>5, <2>6 DEF HasReason
    <2> QED BY <1>2, <1>4, <2>3, <2>7 DEF ReceiveNotification
  <1>5. ASSUME NEW pc \in {"cancel", "autoOn"}, ReceiveRenewalStatus(w, pc)
        PROVE  HasReason(task[w])' /\ \A v \in Workers \ {w} : task'[v] = task[v]
    <2> DEFINE t == [IdleTask EXCEPT !.pc = pc, !.k = bought]
    <2>1. t \in Task /\ HasReason(t)
      BY DEF IdleTask, Task, Pcs, LInv, IInv, TypeOK, HasReason
    <2> QED BY <1>2, <1>5, <2>1 DEF ReceiveRenewalStatus
  <1>6. ASSUME ExpireIfNeeded(w)
        PROVE  HasReason(task[w])' /\ \A v \in Workers \ {w} : task'[v] = task[v]
    <2> DEFINE t == [IdleTask EXCEPT !.pc = "downgrade"]
    <2>1. t \in Task /\ t.pc = "downgrade"
      BY IdleIsTask DEF IdleTask, Task, Pcs
    <2>2. HasReason(t)
      BY <1>6, <2>1, ExpiredIsOver DEF ExpireIfNeeded, HasReason, LInv
    <2> QED BY <1>2, <1>6, <2>1, <2>2 DEF ExpireIfNeeded
  <1> QED
    BY <1>1, <1>3, <1>4, <1>5, <1>6, UnseenStep DEF Begin

\* What a handler does that the ledger does not see.
LEMMA ProgressUnseen ==
    ASSUME LInv, NEW w \in Workers,
           \/ Claim(w) \/ AutoOff(w) \/ MarkActive(w) \/ MarkFailed(w)
           \/ MarkRevoked(w) \/ FindSubscription(w)
           \/ ExpireRows(w) \/ ExpireSubscription(w) \/ CancelAutoRenew(w)
           \/ SetAutoRenewOff(w) \/ SetAutoRenewOn(w)
           \/ RecordNotification(w) \/ Abandon(w)
    PROVE  Reasons' /\ UNCHANGED Ledger!bvars
  <1>1. HasReason(task[w]) /\ row \in [Periods -> StoreRow] /\ sub \in SubscriptionRow
    BY DEF LInv, Reasons, IInv, TypeOK
  <1>2. {"pay", "markActive", "refundPayment", "findSub", "downgrade", "expireSub", "setAuto"}
            \subseteq Pcs /\ IdleTask \in Task /\ IdleTask.pc = "idle"
    BY IdleIsTask DEF Pcs, Granting, IdleTask
  <1> DEFINE Others == \A v \in Workers \ {w} : task'[v] = task[v]
             Keeps == \A k \in Periods : row'[k].pay => row[k].pay \/ payment[k] # "none"
  <1>3. ASSUME UNCHANGED <<now, store, payment, sub>>, Keeps PROVE Unseen
    BY <1>3 DEF Unseen
  <1>4. ASSUME UNCHANGED <<now, store, payment, row>>,
               sub'.plan = sub.plan /\ sub'.renew = sub.renew
        PROVE  Unseen
    BY <1>4 DEF Unseen
  <1>5. CASE Claim(w)
    <2>1. Keeps /\ UNCHANGED <<now, store, payment, sub>>
      BY <1>1, <1>5 DEF Claim, StoreRow
    <2>2. Harmless(task'[w]) /\ Others
      BY <1>2, <1>5, Moved DEF Claim, Harmless
    <2> QED BY <1>3, <2>1, <2>2, HarmlessHasReason, UnseenStep
  <1>6. CASE AutoOff(w) \/ SetAutoRenewOff(w) \/ SetAutoRenewOn(w)
    <2>1. /\ UNCHANGED <<now, store, payment, row>>
          /\ sub'.plan = sub.plan /\ sub'.renew = sub.renew
      <3>1. PICK b : sub' = [sub EXCEPT !.auto = b]
        BY <1>6 DEF AutoOff, SetAutoRenewOff, SetAutoRenewOn, SetRenewal
      <3>2. sub'.plan = sub.plan /\ sub'.renew = sub.renew
        BY <1>1, <3>1 DEF SubscriptionRow
      <3> QED BY <1>6, <3>2 DEF AutoOff, SetAutoRenewOff, SetAutoRenewOn
    <2>2. Goto(w, "markActive") \/ Done(w)
      BY <1>6 DEF AutoOff, SetAutoRenewOff, SetAutoRenewOn
    <2>3. Harmless(task'[w]) /\ Others
      BY <1>2, <2>2, Moved DEF Harmless
    <2> QED BY <1>4, <2>1, <2>3, HarmlessHasReason, UnseenStep
  <1>7. CASE MarkActive(w)
    <2>1. task[w].k \in Periods /\ payment[task[w].k] # "none"
      <3>1. TaskIsSound(task[w]) /\ task[w].pc = "markActive"
        BY <1>7 DEF MarkActive, LInv, IInv, Grants, GrantsAreSound
      <3> QED BY <3>1, BoughtArePeriods DEF TaskIsSound, Granting, LInv, IInv
    <2>2. row' = [row EXCEPT ![task[w].k] = [st |-> "active", stale |-> FALSE, pay |-> TRUE]]
          /\ UNCHANGED <<now, store, payment, sub>>
      BY <1>7 DEF MarkActive
    <2>3. Keeps
      BY <1>1, <2>1, <2>2
    <2>4. Harmless(task'[w]) /\ Others
      BY <1>7, Moved DEF MarkActive
    <2> QED BY <1>3, <2>2, <2>3, <2>4, HarmlessHasReason, UnseenStep
  <1>8. CASE MarkFailed(w) \/ Abandon(w) \/ RecordNotification(w)
    <2>1. Keeps
      BY <1>1, <1>8 DEF MarkFailed, Abandon, RecordNotification, StoreRow
    <2>2. UNCHANGED <<now, store, payment, sub>> /\ Start(w, IdleTask)
      BY <1>8 DEF MarkFailed, Abandon, RecordNotification
    <2>3. Harmless(task'[w]) /\ Others
      BY <1>2, <2>2, Moved DEF Harmless
    <2> QED BY <1>3, <2>1, <2>2, <2>3, HarmlessHasReason, UnseenStep
  <1>9. CASE ExpireRows(w)
    <2>1. Keeps
      BY <1>1, <1>9 DEF ExpireRows, StoreRow
    <2>2. UNCHANGED <<now, store, payment, sub>> /\ (Goto(w, "expireSub") \/ Done(w))
      BY <1>9 DEF ExpireRows
    <2>3. Harmless(task'[w]) /\ Others
      BY <1>2, <2>2, Moved DEF Harmless
    <2> QED BY <1>3, <2>1, <2>2, <2>3, HarmlessHasReason, UnseenStep
  <1>10. CASE MarkRevoked(w)
    <2>1. Keeps
      BY <1>1, <1>10 DEF MarkRevoked, StoreRow
    <2>2. UNCHANGED <<now, store, payment, sub>> /\ task[w].pc = "revoke"
      BY <1>10 DEF MarkRevoked
    <2>3. HasReason(task[w])' /\ Others
      <3>1. CASE Done(w)
        BY <3>1, Moved, HarmlessHasReason
      <3>2. CASE Goto(w, IF task[w].pay THEN "refundPayment" ELSE "findSub")
        <4>1. /\ task'[w].pc = IF task[w].pay THEN "refundPayment" ELSE "findSub"
              /\ task'[w].k = task[w].k /\ task'[w].pay = task[w].pay /\ Others
          BY <1>2, <3>2, Moved
        <4> QED BY <1>1, <2>2, <4>1 DEF HasReason, store
      <3> QED BY <1>10, <3>1, <3>2 DEF MarkRevoked
    <2> QED BY <1>3, <2>1, <2>2, <2>3, UnseenStep
  <1>11. CASE FindSubscription(w) \/ ExpireSubscription(w) \/ CancelAutoRenew(w)
    <2>1. UNCHANGED <<now, store, row, payment, sub>>
      BY <1>11 DEF FindSubscription, ExpireSubscription, CancelAutoRenew
    <2>2. Done(w) \/ Goto(w, "setAuto") \/ (Goto(w, "downgrade") /\ SomeOver)
      <3>1. CASE FindSubscription(w)
        <4>1. SomeOver
          BY <1>1, <3>1 DEF FindSubscription, HasReason, SomeOver
        <4> QED BY <3>1, <4>1 DEF FindSubscription
      <3>2. CASE ExpireSubscription(w) \/ CancelAutoRenew(w)
        BY <3>2, ExpiredIsOver DEF ExpireSubscription, CancelAutoRenew, LInv
      <3> QED BY <1>11, <3>1, <3>2
    <2>3. HasReason(task[w])' /\ Others
      <3>1. CASE Done(w) \/ Goto(w, "setAuto")
        <4>1. Harmless(task'[w]) /\ Others
          BY <1>2, <3>1, Moved DEF Harmless
        <4> QED BY <4>1, HarmlessHasReason
      <3>2. CASE Goto(w, "downgrade") /\ SomeOver
        <4>1. task'[w].pc = "downgrade" /\ Others
          BY <1>2, <3>2, Moved
        <4> QED BY <2>1, <3>2, <4>1 DEF HasReason, SomeOver, store
      <3> QED BY <2>2, <3>1, <3>2
    <2> QED BY <1>3, <2>1, <2>3, UnseenStep
  <1> QED
    BY <1>5, <1>6, <1>7, <1>8, <1>9, <1>10, <1>11

\* A reason that was good stays good: nothing is taken back twice, and time passes.
LEMMA ReasonStays ==
    ASSUME LInv, TypeOK', StoreGrows, PaymentsStay, refunded \subseteq refunded', now <= now',
           NEW v \in Workers, task'[v] = task[v]
    PROVE  HasReason(task[v])'
  <1>1. HasReason(task[v]) /\ refunded \subseteq 1..bought /\ 1..bought \subseteq Periods
    BY BoughtArePeriods DEF LInv, Reasons, IInv
  <1>2. task[v].k \in refunded /\ payment[task[v].k] # "none" => payment'[task[v].k] # "none"
    BY <1>1 DEF PaymentsStay
  <1>3. SomeOver => SomeOver'
    <2>1. /\ bought \in Nat /\ bought' \in Nat /\ bought' >= bought
          /\ now \in Nat /\ now' \in Nat /\ now <= now'
      BY DEF LInv, IInv, TypeOK, StoreGrows
    <2>2. CASE refunded # {}
      BY <2>2 DEF SomeOver
    <2>3. ASSUME NEW k \in 1..bought, expires[k] <= now PROVE SomeOver'
      <3>1. k \in 1..bought' /\ expires'[k] = expires[k] /\ expires[k] \in Nat
        BY <1>1, <2>1 DEF StoreGrows, LInv, IInv, TypeOK
      <3> QED BY <2>1, <2>3, <3>1 DEF SomeOver
    <2> QED BY <2>2, <2>3 DEF SomeOver
  <1> QED
    BY <1>1, <1>2, <1>3 DEF HasReason

LEMMA SeenTables ==
    ASSUME LInv, Next
    PROVE  IInv' /\ TypeOK' /\ bought \in Nat /\ 1..bought \subseteq Periods
  BY NextSound, BoughtArePeriods DEF LInv, IInv

LEMMA BuyIsSell ==
    ASSUME LInv, NEW p \in Plans, Buy(p)
    PROVE  Reasons' /\ \E k \in Periods : Ledger!Sell(k)
  <1> DEFINE b == bought + 1
  <1>1. /\ bought \in Nat /\ bought' = b /\ b \in Periods /\ now \in Nat
        /\ 1..bought' = 1..bought \cup {b} /\ b \notin 1..bought
        /\ UNCHANGED <<now, refunded, row, payment, sub, task>>
    BY StoreAssumption DEF Buy, LInv, IInv, TypeOK, Periods
  <1>2. plan' = [plan EXCEPT ![b] = p] /\ expires'[b] > now
        /\ \A k \in Periods \ {b} : expires'[k] = expires[k] /\ plan'[k] = plan[k]
    <2>1. plan' = [plan EXCEPT ![b] = p]
          /\ expires' = [expires EXCEPT ![b] =
                 (IF Running /\ p = plan[bought] THEN expires[bought] ELSE now) + PeriodDays]
      BY DEF Buy
    <2>2. Running => expires[bought] > now /\ bought \in Periods
      BY <1>1, BoughtArePeriods DEF Running, LInv, IInv
    <2>3. expires'[b] = (IF Running /\ p = plan[bought] THEN expires[bought] ELSE now)
                        + PeriodDays
      BY <1>1, <2>1 DEF LInv, IInv, TypeOK
    <2>4. expires'[b] > now
      BY <1>1, <2>2, <2>3, DaysAssumption DEF LInv, IInv, TypeOK
    <2> QED BY <1>1, <2>1, <2>4 DEF LInv, IInv, TypeOK
  <1>3. TypeOK' /\ StoreGrows
    <2>1. TypeOK'
      BY BuyStep DEF LInv, IInv
    <2>2. \A k \in 1..bought : k \in Periods /\ k # b
      BY <1>1, BoughtArePeriods DEF LInv, IInv
    <2> QED BY <1>1, <1>2, <2>1, <2>2 DEF StoreGrows
  <1>4. Reasons'
    <2>1. \A w \in Workers : HasReason(task[w])'
      <3>1. PaymentsStay
        BY <1>1 DEF PaymentsStay
      <3> QED BY <1>1, <1>3, <3>1, ReasonStays
    <2>2. \A k \in 1..bought' : plan'[k] \in Plans
      BY <1>1, <1>2, <1>3 DEF LInv, Reasons, IInv, TypeOK, StoreGrows
    <2> QED BY <1>1, <2>1, <2>2 DEF LInv, Reasons
  <1>5. /\ Terms[b] = <<>> /\ Terms'[b] = [plan |-> plan'[b], until |-> expires'[b]]
        /\ \A k \in Periods \ {b} : Terms'[k] = Terms[k]
        /\ DOMAIN Terms' = Periods
    BY <1>1, <1>2 DEF Terms
  <1>6. Terms'[b] # <<>> /\ Terms'[b].until > now
    BY <1>2, <1>5, Unsold
  <1> QED
    BY <1>1, <1>4, <1>5, <1>6 DEF Ledger!Sell, Ledger!Sold, Ledger!Nothing, Terms

LEMMA RefundIsTakeBack ==
    ASSUME LInv, NEW k \in Periods, Refund(k)
    PROVE  Reasons' /\ Ledger!TakeBack(k)
  <1>1. /\ UNCHANGED <<now, bought, plan, expires, row, payment, sub, task>>
        /\ k \in 1..bought \ refunded /\ refunded' = refunded \cup {k}
    BY DEF Refund
  <1>2. TypeOK' /\ StoreGrows /\ PaymentsStay
    BY <1>1, RefundStep DEF LInv, IInv, StoreGrows, PaymentsStay, TypeOK
  <1>3. \A w \in Workers : HasReason(task[w])'
    <2>1. now \in Nat
      BY DEF LInv, IInv, TypeOK
    <2> QED BY <1>1, <1>2, <2>1, ReasonStays
  <1>4. Reasons'
    BY <1>1, <1>3 DEF LInv, Reasons
  <1>5. Terms[k] # <<>>
    BY <1>1, Unsold DEF Terms
  <1> QED
    BY <1>1, <1>4, <1>5 DEF Ledger!TakeBack, Ledger!Sold, Ledger!Nothing, Terms

LEMMA TickIsPass ==
    ASSUME LInv, Tick
    PROVE  Reasons' /\ Ledger!Pass
  <1>1. /\ UNCHANGED <<bought, plan, expires, refunded, row, payment, sub, task>>
        /\ now' = now + 1 /\ now \in Nat
    BY DEF Tick, store, LInv, IInv, TypeOK
  <1>2. TypeOK' /\ StoreGrows /\ PaymentsStay
    BY <1>1, TickStep DEF LInv, IInv, StoreGrows, PaymentsStay, TypeOK
  <1>3. \A w \in Workers : HasReason(task[w])'
    BY <1>1, <1>2, ReasonStays
  <1>4. Reasons'
    BY <1>1, <1>3 DEF LInv, Reasons
  <1> QED
    BY <1>1, <1>4 DEF Ledger!Pass, isPaidPlan

LEMMA AgeIsUnseen ==
    ASSUME LInv, NEW k \in Periods, Age(k)
    PROVE  Reasons' /\ UNCHANGED Ledger!bvars
  <1>1. UNCHANGED <<now, bought, plan, expires, refunded, payment, sub, task>>
    BY DEF Age, store
  <1>2. \A j \in Periods : row'[j].pay = row[j].pay
    BY DEF Age, LInv, IInv, TypeOK, StoreRow
  <1>3. Reasons'
    BY <1>1, <1>2 DEF LInv, Reasons, HasReason, SomeOver
  <1> QED
    BY <1>1, <1>3 DEF Ledger!bvars, isPaidPlan

\* The three writes of the handlers that the ledger sees, besides the downgrade.
LEMMA CreatePaymentIsReceive ==
    ASSUME LInv, NEW w \in Workers, CreatePayment(w)
    PROVE  /\ Reasons'
           /\ UNCHANGED Ledger!bvars \/ \E k \in Periods : Ledger!Receive(k)
  <1>1. PICK k : k = task[w].k
    OBVIOUS
  <1>2. k \in 1..bought /\ k \in Periods
    BY <1>1, BoughtArePeriods
       DEF CreatePayment, LInv, IInv, Grants, GrantsAreSound, TaskIsSound, Granting
  <1>3. /\ UNCHANGED <<now, bought, plan, expires, refunded, row, sub>>
        /\ payment' = [payment EXCEPT ![k] = IF @ = "none" THEN "paid" ELSE @]
        /\ Goto(w, "activate")
    BY <1>1 DEF CreatePayment, store
  <1>4. "activate" \in Pcs
    BY DEF Pcs, Granting
  <1>5. Harmless(task'[w]) /\ \A v \in Workers \ {w} : task'[v] = task[v]
    BY <1>3, <1>4, Moved DEF Harmless
  <1>6. TypeOK' /\ StoreGrows /\ PaymentsStay
    BY <1>3, CreatePaymentStep DEF LInv, IInv, StoreGrows, PaymentsStay, TypeOK
  <1>7. \A v \in Workers : HasReason(task[v])'
    <2>1. now \in Nat
      BY DEF LInv, IInv, TypeOK
    <2> QED BY <1>3, <1>5, <1>6, <2>1, ReasonStays, HarmlessHasReason
  <1>8. Reasons'
    BY <1>3, <1>6, <1>7 DEF LInv, Reasons, PaymentsStay
  <1>9. CASE payment[k] = "none"
    <2>1. payment' = [payment EXCEPT ![k] = "paid"]
      BY <1>3, <1>9
    <2>2. Terms[k] # <<>>
      BY <1>2, Unsold DEF Terms
    <2> QED BY <1>2, <1>3, <1>8, <1>9, <2>1, <2>2
            DEF Ledger!Receive, Ledger!Sold, Ledger!Nothing, Terms, isPaidPlan
  <1>10. CASE payment[k] # "none"
    <2>1. payment' = payment
      BY <1>3, <1>10 DEF LInv, IInv, TypeOK
    <2> QED BY <1>3, <1>8, <2>1 DEF Ledger!bvars, isPaidPlan
  <1> QED
    BY <1>9, <1>10

LEMMA ActivateIsGrant ==
    ASSUME LInv, NEW w \in Workers, Activate(w)
    PROVE  Reasons' /\ \E k \in Periods : Ledger!Grant(k)
  <1>1. PICK k : k = task[w].k
    OBVIOUS
  <1>2. k \in 1..bought /\ k \in Periods /\ payment[k] # "none"
    BY <1>1, BoughtArePeriods
       DEF Activate, LInv, IInv, Grants, GrantsAreSound, TaskIsSound, Granting
  <1>3. /\ UNCHANGED <<now, bought, plan, expires, refunded, row, payment>>
        /\ sub' = ActivatedRow(sub, plan[k], expires[k])
        /\ Goto(w, "markActive") \/ Goto(w, "autoOff")
    BY <1>1 DEF Activate, ActivatePlan, store
  <1>4. {"markActive", "autoOff"} \subseteq Pcs
    BY DEF Pcs, Granting
  <1>5. Harmless(task'[w]) /\ \A v \in Workers \ {w} : task'[v] = task[v]
    BY <1>3, <1>4, Moved DEF Harmless
  <1>6. TypeOK' /\ StoreGrows /\ PaymentsStay
    BY <1>3, ActivateStep DEF LInv, IInv, StoreGrows, PaymentsStay, TypeOK
  <1>7. \A v \in Workers : HasReason(task[v])'
    <2>1. now \in Nat
      BY DEF LInv, IInv, TypeOK
    <2> QED BY <1>3, <1>5, <1>6, <2>1, ReasonStays, HarmlessHasReason
  <1>8. Reasons'
    BY <1>3, <1>7 DEF LInv, Reasons
  <1>9. sub'.plan = plan[k] /\ sub'.renew = expires[k] /\ sub'.plan # 0
    <2>1. plan[k] # 0
      BY <1>2, PlansAssumption DEF LInv, Reasons
    <2> QED BY <1>3, <2>1 DEF ActivatedRow, LInv, IInv, TypeOK, SubscriptionRow
  <1>10. Shown' = Terms[k] /\ Terms[k] # <<>>
    BY <1>2, <1>9, Unsold DEF Shown, Terms, isPaidPlan
  <1> QED
    BY <1>2, <1>3, <1>8, <1>10
       DEF Ledger!Grant, Ledger!Sold, Ledger!Nothing, Terms, Shown

LEMMA RefundedIsCredit ==
    ASSUME LInv, NEW w \in Workers, MarkPaymentRefunded(w)
    PROVE  /\ Reasons'
           /\ UNCHANGED Ledger!bvars \/ \E k \in Periods : Ledger!Credit(k)
  <1>1. PICK k : k = task[w].k
    OBVIOUS
  <1>2. k \in refunded /\ k \in Periods /\ payment[k] \in {"paid", "refunded"}
    <2>1. HasReason(task[w]) /\ task[w].pc = "refundPayment"
      BY DEF MarkPaymentRefunded, LInv, Reasons
    <2>2. k \in refunded /\ payment[k] # "none"
      BY <1>1, <2>1 DEF HasReason
    <2> QED BY <2>2 DEF LInv, IInv, TypeOK
  <1>3. /\ UNCHANGED <<now, bought, plan, expires, refunded, row, sub>>
        /\ payment' = [payment EXCEPT ![k] = "refunded"]
        /\ Goto(w, "findSub")
    BY <1>1 DEF MarkPaymentRefunded, store
  <1>4. "findSub" \in Pcs
    BY DEF Pcs
  <1>5. /\ task'[w].pc = "findSub" /\ task'[w].k = k
        /\ \A v \in Workers \ {w} : task'[v] = task[v]
    BY <1>1, <1>3, <1>4, Moved
  <1>6. TypeOK' /\ StoreGrows /\ PaymentsStay
    BY <1>3, MarkPaymentRefundedStep DEF LInv, IInv, StoreGrows, PaymentsStay, TypeOK
  <1>7. \A v \in Workers : HasReason(task[v])'
    <2>1. now \in Nat
      BY DEF LInv, IInv, TypeOK
    <2>2. HasReason(task[w])'
      BY <1>2, <1>3, <1>5 DEF HasReason
    <2> QED BY <1>3, <1>5, <1>6, <2>1, <2>2, ReasonStays
  <1>8. Reasons'
    BY <1>3, <1>6, <1>7 DEF LInv, Reasons, PaymentsStay
  <1>9. CASE payment[k] = "paid"
    BY <1>2, <1>3, <1>8, <1>9 DEF Ledger!Credit, isPaidPlan
  <1>10. CASE payment[k] = "refunded"
    <2>1. payment' = payment
      BY <1>3, <1>10 DEF LInv, IInv, TypeOK
    <2> QED BY <1>3, <1>8, <2>1 DEF Ledger!bvars, isPaidPlan
  <1> QED
    BY <1>2, <1>9, <1>10

LEMMA DowngradeIsWithdraw ==
    ASSUME LInv, NEW w \in Workers, DowngradeUser(w)
    PROVE  Reasons' /\ Ledger!Withdraw
  <1>1. /\ UNCHANGED <<now, bought, plan, expires, refunded, row, payment>>
        /\ sub' = FreedRow(sub) /\ Done(w)
    BY DEF DowngradeUser, store
  <1>2. Harmless(task'[w]) /\ \A v \in Workers \ {w} : task'[v] = task[v]
    BY <1>1, Moved
  <1>3. Reasons'
    <2>1. \A v \in Workers : HasReason(task[v])'
      BY <1>1, <1>2, HarmlessHasReason DEF LInv, Reasons, HasReason, SomeOver
    <2> QED BY <1>1, <2>1 DEF LInv, Reasons
  <1>4. Shown' = <<>>
    BY <1>1 DEF Shown, isPaidPlan, FreedRow, LInv, IInv, TypeOK, SubscriptionRow
  <1>5. \E k \in Periods : Terms[k] # <<>> /\ (k \in refunded \/ Terms[k].until <= now)
    <2>1. SomeOver /\ refunded \subseteq 1..bought /\ 1..bought \subseteq Periods
      BY BoughtArePeriods DEF DowngradeUser, LInv, Reasons, HasReason, IInv
    <2>2. PICK k \in 1..bought : k \in refunded \/ expires[k] <= now
      BY <2>1 DEF SomeOver
    <2>3. Terms[k] = [plan |-> plan[k], until |-> expires[k]]
      BY <2>1, <2>2 DEF Terms
    <2> QED BY <2>1, <2>2, <2>3, Unsold
  <1> QED
    BY <1>1, <1>3, <1>4, <1>5
       DEF Ledger!Withdraw, Ledger!Sold, Ledger!Over, Ledger!Nothing, Terms, Shown

LEMMA LedgerStep ==
    ASSUME LInv, [Next]_vars
    PROVE  LInv' /\ [Ledger!BNext]_(Ledger!bvars)
  <1> DEFINE Good == Reasons' /\ (Ledger!BNext \/ UNCHANGED Ledger!bvars)
  <1>1. IInv'
    BY NextSound DEF LInv
  <1>2. CASE UNCHANGED vars
    <2>1. UNCHANGED <<now, bought, plan, expires, refunded, row, payment, sub, task>>
      BY <1>2 DEF vars, store
    <2> QED BY <1>1, <2>1 DEF LInv, Reasons, HasReason, SomeOver, Ledger!bvars, isPaidPlan
  <1>3. ASSUME NEW p \in Plans, Buy(p) PROVE Good
    BY <1>3, BuyIsSell DEF Ledger!BNext
  <1>4. ASSUME NEW k \in Periods, Refund(k) \/ Age(k) PROVE Good
    BY <1>4, RefundIsTakeBack, AgeIsUnseen DEF Ledger!BNext
  <1>5. ASSUME NEW w \in Workers, Begin(w) \/ MarkFailed(w) \/ Abandon(w) PROVE Good
    BY <1>5, BeginUnseen, ProgressUnseen
  <1>6. ASSUME NEW w \in Workers, Progress(w) PROVE Good
    <2>1. CASE CreatePayment(w)
      BY <2>1, CreatePaymentIsReceive DEF Ledger!BNext
    <2>2. CASE Activate(w)
      BY <2>2, ActivateIsGrant DEF Ledger!BNext
    <2>3. CASE MarkPaymentRefunded(w)
      BY <2>3, RefundedIsCredit DEF Ledger!BNext
    <2>4. CASE DowngradeUser(w)
      BY <2>4, DowngradeIsWithdraw DEF Ledger!BNext
    <2>5. CASE \/ Claim(w) \/ AutoOff(w) \/ MarkActive(w)
               \/ MarkRevoked(w) \/ FindSubscription(w)
               \/ ExpireRows(w) \/ ExpireSubscription(w) \/ CancelAutoRenew(w)
               \/ SetAutoRenewOff(w) \/ SetAutoRenewOn(w) \/ RecordNotification(w)
      BY <2>5, ProgressUnseen
    <2> QED BY <1>6, <2>1, <2>2, <2>3, <2>4, <2>5 DEF Progress
  <1>7. ASSUME Tick PROVE Good
    <2>1. Reasons' /\ Ledger!Pass
      BY <1>7, TickIsPass
    <2>2. Ledger!BNext
      BY <2>1, Zenon DEF Ledger!BNext
    <2> QED BY <2>1, <2>2, Zenon
  <1>8. CASE Next
    <2>1. Good
      BY <1>8, <1>3, <1>4, <1>5, <1>6, <1>7 DEF Next
    <2> QED BY <1>1, <2>1 DEF LInv
  <1> QED
    BY <1>2, <1>8

\* Client, notifications, retries, failures and the expiry of the plan implement
\* the store ledger, for any number of handlers, periods and plans.
THEOREM Refinement == Spec => ImplementsLedger
  <1>1. Init => LInv
    <2>1. ASSUME Init PROVE Reasons
      BY <2>1 DEF Init, Reasons, HasReason, IdleTask, NoRow
    <2> QED BY <2>1, InitSound DEF LInv
  <1>2. Init => Ledger!BInit
    <2> SUFFICES ASSUME Init PROVE Ledger!BInit
      OBVIOUS
    <2>1. ~isPaidPlan(sub) /\ 1..bought = {}
      BY DEF Init, FreeRow, isPaidPlan
    <2> QED BY <2>1 DEF Init, Ledger!BInit, Ledger!Nothing
  <1> QED
    BY <1>1, <1>2, LedgerStep, PTL DEF Spec, ImplementsLedger, Ledger!BSpec
=============================================================================
