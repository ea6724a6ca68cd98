---------------------------- MODULE StorePurchases ----------------------------
(***************************************************************************)
(* Store billing of subscriptions through the App Store: the client's      *)
(* verify call and Apple's server notifications, which both end in         *)
(* processVerified (store-purchases.service.ts), the claim of a store      *)
(* transaction, the grant and the revocation (store-entitlements.service). *)
(*                                                                         *)
(* One account and one subscription chain.  A store transaction is a       *)
(* period, numbered in the order of purchase.  Every database statement or *)
(* transaction is a step, and any number of handlers may be between two of *)
(* them.                                                                   *)
(***************************************************************************)
EXTENDS SubscriptionRows, FiniteSets

CONSTANTS
    Workers,    \* handlers that may run at the same time (bound)
    Roles,      \* what a worker may run (bound)
    MaxPeriods, \* bound on store transactions of the chain
    Refetches,  \* whether verify asks Apple again (API key configured)
    Linked,     \* whether a purchase carries the account token
    LastDay,    \* bound on time
    MaxNotices, \* bound on recorded notifications
    MaxFaults   \* bound on handlers that fail or die

ASSUME RolesAssumption ==
    Roles \in [Workers -> SUBSET {"verify", "notify", "renewal", "sweep"}]
ASSUME StoreAssumption ==
    /\ MaxPeriods \in Nat /\ LastDay \in Nat
    /\ MaxNotices \in Nat /\ MaxFaults \in Nat
    /\ Refetches \in BOOLEAN /\ Linked \in BOOLEAN

Periods == 1..MaxPeriods

VARIABLES
    now,      \* the day
    bought,   \* the store's side: how many periods were bought ...
    plan,     \* ... of which plan ...
    expires,  \* ... until when ...
    refunded, \* ... and which of them were refunded
    row,      \* StorePurchase rows
    payment,  \* Payment rows of the periods
    sub,      \* the account's Subscription row
    seen,     \* StoreNotification rows
    aged,     \* history: periods whose claim once went stale
    task, faults

store == <<bought, plan, expires, refunded>>
vars == <<now, store, row, payment, sub, seen, aged, task, faults>>

RowStates == {"none", "processing", "active", "expired", "revoked", "failed"}

\* stale: two minutes have passed since a processing row was claimed;
\* pay: the row has its paymentId.
StoreRow == [st : RowStates, stale : BOOLEAN, pay : BOOLEAN]
NoRow == [st |-> "none", stale |-> FALSE, pay |-> FALSE]

Kinds == {"subscribed", "expired", "refund"}
Messages == Kinds \X Periods
NoMessage == <<>>

Granting == {"pay", "activate", "autoOff", "markActive"}
Pcs == {"idle", "claim", "revoke", "refundPayment", "findSub", "downgrade",
        "expireRows", "expireSub", "cancel", "setAuto", "autoOn", "record"}
       \cup Granting

\* pay and rows are what the handler has read: the paymentId of the row it is
\* to revoke, and the active rows of the chain.
Task == [pc : Pcs, k : 0..MaxPeriods, msg : Messages \cup {NoMessage},
         pay : BOOLEAN, rows : SUBSET Periods]
IdleTask == [pc |-> "idle", k |-> 0, msg |-> NoMessage, pay |-> FALSE,
             rows |-> {}]

Active == {k \in Periods : row[k].st = "active"}
Chain == {k \in Periods : row[k].st # "none"}
\* (Mutant: a day early.)
MutantExpired == getSubscriptionStatus(sub, now + 1) = "expired"
Expired == getSubscriptionStatus(sub, now) = "expired"

Init ==
    /\ now = 0 /\ bought = 0 /\ refunded = {}
    /\ plan = [k \in Periods |-> 0] /\ expires = [k \in Periods |-> 0]
    /\ row = [k \in Periods |-> NoRow]
    /\ payment = [k \in Periods |-> "none"]
    /\ sub = FreeRow(0)
    /\ seen = {} /\ aged = {}
    /\ task = [w \in Workers |-> IdleTask]
    /\ faults = 0

Goto(w, pc) == task' = [task EXCEPT ![w].pc = pc]
Start(w, t) == task' = [task EXCEPT ![w] = t]

\* A notification is recorded once its handler is through.
Done(w) == IF task[w].msg = NoMessage THEN Start(w, IdleTask)
                                      ELSE Goto(w, "record")

-----------------------------------------------------------------------------
(* The store.                                                              *)

Running == bought > 0 /\ bought \notin refunded /\ expires[bought] > now

\* A new subscription, a renewal (at most a day early), or a change of plan,
\* which takes effect at once.
Buy(p) ==
    /\ bought < MaxPeriods
    /\ Running => p # plan[bought] \/ expires[bought] <= now + 1
    /\ bought' = bought + 1
    /\ plan' = [plan EXCEPT ![bought + 1] = p]
    /\ expires' = [expires EXCEPT ![bought + 1] =
                      (IF Running /\ p = plan[bought]
                       THEN expires[bought] ELSE now) + PeriodDays]
    /\ UNCHANGED <<now, refunded, row, payment, sub, seen, aged, task, faults>>

Refund(k) ==
    /\ k \in 1..bought \ refunded
    /\ refunded' = refunded \cup {k}
    /\ UNCHANGED <<now, bought, plan, expires, row, payment, sub, seen, aged,
                   task, faults>>

\* EXPIRED is sent for a period that no renewal followed in time.
Lapses(k) ==
    /\ expires[k] <= now
    /\ k < bought => expires[k + 1] > expires[k] + PeriodDays
Sent ==
    {<<"subscribed", k>> : k \in 1..bought}
    \cup {<<"expired", k>> : k \in {j \in 1..bought : Lapses(j)}}
    \cup {<<"refund", k>> : k \in refunded}

\* A signed transaction says when it expires, not whether it was refunded since.
SignedState(k) == IF expires[k] <= now THEN "expired" ELSE "purchased"
FetchedState(k) == IF k \in refunded THEN "revoked" ELSE SignedState(k)
VerifiedState(k) == IF Refetches THEN FetchedState(k) ELSE SignedState(k)

-----------------------------------------------------------------------------
(* Requests of the client.                                                 *)

VerifyPurchased(w, k) ==
    /\ task[w].pc = "idle" /\ "verify" \in Roles[w] /\ k \in 1..bought
    /\ VerifiedState(k) = "purchased"
    /\ Start(w, [IdleTask EXCEPT !.pc = "claim", !.k = k])
    /\ UNCHANGED <<now, store, row, payment, sub, seen, aged, faults>>

VerifyRevoked(w, k) ==
    /\ task[w].pc = "idle" /\ "verify" \in Roles[w] /\ k \in 1..bought
    /\ VerifiedState(k) = "revoked"
    /\ k \in Chain
    /\ Start(w, [IdleTask EXCEPT !.pc = "revoke", !.k = k, !.pay = row[k].pay])
    /\ UNCHANGED <<now, store, row, payment, sub, seen, aged, faults>>

VerifyExpired(w, k) ==
    /\ task[w].pc = "idle" /\ "verify" \in Roles[w] /\ k \in 1..bought
    /\ VerifiedState(k) = "expired"
    /\ k \in Chain
    /\ Start(w, [IdleTask EXCEPT !.pc = "expireRows", !.k = k, !.rows = {k}])
    /\ UNCHANGED <<now, store, row, payment, sub, seen, aged, faults>>

-----------------------------------------------------------------------------
(* Grants.                                                                 *)

\* Which rows claim gives to a caller besides its own new one.  (Mutants: any
\* row that is processing; none that is.)
MutantTakeOver(r) == r.st \in {"none", "failed", "processing"}
MutantNoReclaim(r) == r.st \in {"none", "failed"}
Claimable(r) ==
    r.st \in {"none", "failed"} \/ (r.st = "processing" /\ r.stale)

\* An insert, or else a read and an update that compares status and updatedAt:
\* whoever loses either race finds the row claimed.
Claim(w) ==
    /\ task[w].pc = "claim"
    /\ LET k == task[w].k
       IN  IF Claimable(row[k])
           THEN /\ row' = [row EXCEPT ![k].st = "processing", ![k].stale = FALSE]
                /\ Goto(w, "pay")
           ELSE Done(w) /\ UNCHANGED row
    /\ UNCHANGED <<now, store, payment, sub, seen, aged, faults>>

\* createPaidSubscriptionPayment: an upsert that changes no existing row.
CreatePayment(w) ==
    /\ task[w].pc = "pay"
    /\ payment' = [payment EXCEPT ![task[w].k] = IF @ = "none" THEN "paid" ELSE @]
    /\ Goto(w, "activate")
    /\ UNCHANGED <<now, store, row, sub, seen, aged, faults>>

\* activateFromPayment.  (Mutants: the period is added to the time left, as for
\* payments by card; the subscription takes the status of the store row.)
MutantStoreStatus(k) ==
    sub' = [ActivatedRow(sub, plan[k], expires[k]) EXCEPT !.status = "processing"]
MutantAddPeriod(k) == sub' = PaidRow(sub, plan[k], sub.renew, now)
ActivatePlan(k) == sub' = ActivatedRow(sub, plan[k], expires[k])

\* Only a notification can say that renewal is off.
Activate(w) ==
    /\ task[w].pc = "activate"
    /\ ActivatePlan(task[w].k)
    /\ \/ Goto(w, "markActive")
       \/ task[w].msg # NoMessage /\ Goto(w, "autoOff")
    /\ UNCHANGED <<now, store, row, payment, seen, aged, faults>>

\* setSubscriptionAutoRenew writes only a row that still has the plan.
SetRenewal(k, auto) ==
    sub' = [sub EXCEPT !.auto = IF sub.plan = plan[k] THEN auto ELSE @]

AutoOff(w) ==
    /\ task[w].pc = "autoOff"
    /\ SetRenewal(task[w].k, FALSE)
    /\ Goto(w, "markActive")
    /\ UNCHANGED <<now, store, row, payment, seen, aged, faults>>

\* Unconditional: whatever became of the row since it was claimed.
MarkActive(w) ==
    /\ task[w].pc = "markActive"
    /\ row' = [row EXCEPT ![task[w].k] =
                  [st |-> "active", stale |-> FALSE, pay |-> TRUE]]
    /\ Done(w)
    /\ UNCHANGED <<now, store, payment, sub, seen, aged, faults>>

\* A step of the grant throws; the caller gets the error.
MarkFailed(w) ==
    /\ task[w].pc \in Granting
    /\ faults < MaxFaults /\ faults' = faults + 1
    /\ row' = [row EXCEPT ![task[w].k].st = "failed"]
    /\ Start(w, IdleTask)
    /\ UNCHANGED <<now, store, payment, sub, seen, aged>>

-----------------------------------------------------------------------------
(* Revocation, expiry and renewal status.                                  *)

MarkRevoked(w) ==
    /\ task[w].pc = "revoke"
    /\ IF row[task[w].k].st = "revoked"
       THEN Done(w) /\ UNCHANGED row
       ELSE /\ row' = [row EXCEPT ![task[w].k].st = "revoked"]
            /\ Goto(w, IF task[w].pay THEN "refundPayment" ELSE "findSub")
    /\ UNCHANGED <<now, store, payment, sub, seen, aged, faults>>

MarkPaymentRefunded(w) ==
    /\ task[w].pc = "refundPayment"
    /\ payment' = [payment EXCEPT ![task[w].k] = "refunded"]
    /\ Goto(w, "findSub")
    /\ UNCHANGED <<now, store, row, sub, seen, aged, faults>>

\* Downgrades whatever period runs, if its plan is the refunded one.
FindSubscription(w) ==
    /\ task[w].pc = "findSub"
    /\ IF sub.plan = plan[task[w].k] THEN Goto(w, "downgrade") ELSE Done(w)
    /\ UNCHANGED <<now, store, row, payment, sub, seen, aged, faults>>

DowngradeUser(w) ==
    /\ task[w].pc = "downgrade"
    /\ sub' = FreedRow(sub)
    /\ Done(w)
    /\ UNCHANGED <<now, store, row, payment, seen, aged, faults>>

\* markExpired touches only rows that are still active.  (Mutant: any row.)
MutantAnyRow(k) == row[k].st # "none"
MayExpire(k) == row[k].st = "active"

ExpireRows(w) ==
    /\ task[w].pc = "expireRows"
    /\ row' = [k \in Periods |->
                  IF k \in task[w].rows /\ MayExpire(k)
                  THEN [row[k] EXCEPT !.st = "expired"] ELSE row[k]]
    /\ IF task[w].msg = NoMessage THEN Done(w) ELSE Goto(w, "expireSub")
    /\ UNCHANGED <<now, store, payment, sub, seen, aged, faults>>

ExpireSubscription(w) ==
    /\ task[w].pc = "expireSub"
    /\ IF Expired THEN Goto(w, "downgrade") ELSE Done(w)
    /\ UNCHANGED <<now, store, row, payment, sub, seen, aged, faults>>

\* cancelAutoRenew of SubscriptionLifecycle.
CancelAutoRenew(w) ==
    /\ task[w].pc = "cancel"
    /\ IF hasPaidAccess(sub, now) /\ ~isTrialRow(sub) THEN Goto(w, "setAuto")
       ELSE IF Expired /\ ~isTrialRow(sub) THEN Goto(w, "downgrade")
       ELSE Done(w)
    /\ UNCHANGED <<now, store, row, payment, sub, seen, aged, faults>>

SetAutoRenewOff(w) ==
    /\ task[w].pc = "setAuto"
    /\ sub' = [sub EXCEPT !.auto = FALSE]
    /\ Done(w)
    /\ UNCHANGED <<now, store, row, payment, seen, aged, faults>>

SetAutoRenewOn(w) ==
    /\ task[w].pc = "autoOn"
    /\ SetRenewal(task[w].k, TRUE)
    /\ Done(w)
    /\ UNCHANGED <<now, store, row, payment, seen, aged, faults>>

-----------------------------------------------------------------------------
(* App Store notifications.                                                *)

\* What a handler is about to do once it has read the chain.
Owned == Linked \/ Chain # {}
Reaction(kind, k) ==
    CASE kind = "subscribed" ->
            IF SignedState(k) = "purchased" /\ Owned THEN "claim" ELSE "record"
      [] kind = "expired" -> IF Chain # {} THEN "expireRows" ELSE "record"
      [] kind = "refund" -> IF k \in Chain THEN "revoke" ELSE "record"

\* notificationSeen, then the reads of applyAppleNotification.
ReceiveNotification(w, msg) ==
    /\ task[w].pc = "idle" /\ "notify" \in Roles[w]
    /\ msg \in Sent \ seen /\ Cardinality(seen) < MaxNotices
    /\ Start(w, [pc |-> Reaction(msg[1], msg[2]), k |-> msg[2], msg |-> msg,
                 pay |-> msg[1] = "refund" /\ row[msg[2]].pay,
                 rows |-> IF msg[1] = "expired" THEN Active ELSE {}])
    /\ UNCHANGED <<now, store, row, payment, sub, seen, aged, faults>>

\* DID_CHANGE_RENEWAL_STATUS: the customer changes renewal at any time, and
\* every change is a new notification.
ReceiveRenewalStatus(w, pc) ==
    /\ task[w].pc = "idle" /\ "renewal" \in Roles[w]
    /\ Active # {}
    /\ pc \in {"cancel", "autoOn"}
    /\ Start(w, [IdleTask EXCEPT !.pc = pc, !.k = bought])
    /\ UNCHANGED <<now, store, row, payment, sub, seen, aged, faults>>

RecordNotification(w) ==
    /\ task[w].pc = "record"
    /\ seen' = seen \cup {task[w].msg}
    /\ Start(w, IdleTask)
    /\ UNCHANGED <<now, store, row, payment, sub, aged, faults>>

-----------------------------------------------------------------------------
(* The rest of the system.                                                 *)

\* expireIfNeeded, by the daily batch or where the subscription is read.
ExpireIfNeeded(w) ==
    /\ task[w].pc = "idle" /\ "sweep" \in Roles[w]
    /\ Expired
    /\ Start(w, [IdleTask EXCEPT !.pc = "downgrade"])
    /\ UNCHANGED <<now, store, row, payment, sub, seen, aged, faults>>

\* Two minutes pass over a claim.
Age(k) ==
    /\ row[k].st = "processing" /\ ~row[k].stale
    /\ row' = [row EXCEPT ![k].stale = TRUE]
    /\ aged' = aged \cup {k}
    /\ UNCHANGED <<now, store, payment, sub, seen, task, faults>>

\* The process dies, or a statement outside of the grant throws.
Abandon(w) ==
    /\ task[w].pc # "idle"
    /\ faults < MaxFaults /\ faults' = faults + 1
    /\ Start(w, IdleTask)
    /\ UNCHANGED <<now, store, row, payment, sub, seen, aged>>

Tick ==
    /\ now < LastDay
    /\ now' = now + 1
    /\ UNCHANGED <<store, row, payment, sub, seen, aged, task, faults>>

-----------------------------------------------------------------------------
Progress(w) ==
    \/ Claim(w) \/ CreatePayment(w) \/ Activate(w) \/ AutoOff(w) \/ MarkActive(w)
    \/ MarkRevoked(w) \/ MarkPaymentRefunded(w) \/ FindSubscription(w)
    \/ DowngradeUser(w) \/ ExpireRows(w) \/ ExpireSubscription(w)
    \/ CancelAutoRenew(w) \/ SetAutoRenewOff(w) \/ SetAutoRenewOn(w)
    \/ RecordNotification(w)

Begin(w) ==
    \/ \E k \in Periods :
          VerifyPurchased(w, k) \/ VerifyRevoked(w, k) \/ VerifyExpired(w, k)
    \/ \E msg \in Messages : ReceiveNotification(w, msg)
    \/ \E pc \in {"cancel", "autoOn"} : ReceiveRenewalStatus(w, pc)
    \/ ExpireIfNeeded(w)

Next ==
    \/ \E p \in Plans : Buy(p)
    \/ \E k \in Periods : Refund(k) \/ Age(k)
    \/ \E w \in Workers : Begin(w) \/ Progress(w) \/ MarkFailed(w) \/ Abandon(w)
    \/ Tick

Spec == Init /\ [][Next]_vars

-----------------------------------------------------------------------------
(* Properties.                                                             *)

\* Every variable has its type.
TypeOK ==
    /\ now \in Nat /\ bought \in 0..MaxPeriods
    /\ plan \in [Periods -> Plans \cup {0}] /\ expires \in [Periods -> Nat]
    /\ refunded \subseteq Periods
    /\ row \in [Periods -> StoreRow]
    /\ payment \in [Periods -> {"none", "paid", "refunded"}]
    /\ sub \in SubscriptionRow
    /\ seen \subseteq Messages /\ aged \subseteq Periods
    /\ task \in [Workers -> Task]
    /\ faults \in Nat

\* Whoever of the client, the notifications and their retries grants, and how
\* often, fails or is overtaken: a paid plan is one the store sold, until the
\* day the store named, with a Payment row behind it.
PlanIsBacked ==
    isPaidPlan(sub) =>
        \E k \in 1..bought : /\ payment[k] # "none"
                             /\ plan[k] = sub.plan /\ expires[k] = sub.renew

\* A row that reached active, and one that expired, has its Payment, which a
\* later refund of the row can find.
ActiveIsPaid ==
    \A k \in Periods : row[k].st \in {"active", "expired"} =>
        row[k].pay /\ payment[k] # "none"

\* Worker's task t is granting period k.
Holds(t, k) == t.pc \in Granting /\ t.k = k

\* store-purchases.repository.ts: "Exactly one caller gets claimed: true": as
\* long as no claim of it went stale, two handlers never grant one period.
ClaimIsExclusive ==
    \A k \in Periods \ aged : \A v, w \in Workers :
        Holds(task[v], k) /\ Holds(task[w], k) => v = w

\* What a handler knew when it went on to grant still holds when it does: the
\* store sold the period, the Payment it wrote is there, and, while the claim is
\* not stale, nobody but a refund has touched the row.  Only notifications are
\* recorded.
TaskIsSound(t) ==
    /\ t.pc \in Granting \cup {"claim"} => t.k \in 1..bought
    /\ t.pc \in Granting \ {"pay"} => payment[t.k] # "none"
    /\ t.pc = "record" => t.msg # NoMessage
StaleIsAged == \A k \in Periods : row[k].stale => k \in aged
ClaimIsKept ==
    \A k \in Periods \ aged : \A w \in Workers :
        Holds(task[w], k) => row[k].st \in {"processing", "revoked"}
GrantsAreSound ==
    /\ \A w \in Workers : TaskIsSound(task[w])
    /\ StaleIsAged /\ ClaimIsKept

\* The client verifies until the server confirms; claims age.  Nothing is
\* assumed of notifications.
ClientRetries(k) == \E w \in Workers : VerifyPurchased(w, k)
FairSpec ==
    /\ Spec
    /\ \A w \in Workers : WF_vars(Progress(w))
    /\ \A k \in Periods : WF_vars(Age(k)) /\ SF_vars(ClientRetries(k))

\* A customer who has paid gets the plan while the period runs, even if the
\* grant failed half-way, or the process that held the claim died.
PurchaseIsGranted ==
    \A k \in Periods :
        k <= bought ~> \/ row[k].st \in {"active", "expired", "revoked"}
                       \/ k \in refunded \/ expires[k] <= now

-----------------------------------------------------------------------------
(* The ledger this implements.                                             *)

Ledger == INSTANCE StoreLedger WITH
    today <- now,
    terms <- [k \in Periods |-> IF k \in 1..bought
                                THEN [plan |-> plan[k], until |-> expires[k]]
                                ELSE <<>>],
    returned <- refunded,
    receipt <- payment,
    shown <- IF isPaidPlan(sub) THEN [plan |-> sub.plan, until |-> sub.renew]
                                ELSE <<>>

\* Whichever of the client, the notifications, their retries and the expiry
\* job acts, and on however old a read: what it writes is a step of the ledger,
\* so that no plan is granted without its receipt or with terms that were not
\* sold, no credit is given or undone twice, no plan is withdrawn for nothing.
ImplementsLedger == Ledger!BSpec

-----------------------------------------------------------------------------
(* Statements of the documentation the code does not keep.                 *)

\* iap-setup-ar.md: after a refund "the subscription is withdrawn": once the
\* notifications of a refunded purchase are through, its plan is gone.
Quiet == \A w \in Workers : task[w].pc = "idle"
RefundWithdraws ==
    Quiet => \A k \in refunded :
        (<<"refund", k>> \in seen /\ <<"subscribed", k>> \in seen)
        => ~(sub.plan = plan[k] /\ sub.renew = expires[k])
=============================================================================
