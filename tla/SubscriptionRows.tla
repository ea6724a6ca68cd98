--------------------------- MODULE SubscriptionRows ---------------------------
(***************************************************************************)
(* lib/subscription-lifecycle.ts and the writes of the Subscription row    *)
(* that every component shares: what a row grants at a given day, and what *)
(* a payment, a trial, a store period or a downgrade makes of it.          *)
(*                                                                         *)
(* Time is counted in days.  A paid plan is the number of its tier, and 0  *)
(* is the free plan.  Usage counters and badges are left out.              *)
(***************************************************************************)
EXTENDS Naturals

CONSTANTS
    Plans,      \* tiers of the paid plans
    TrialPlan,  \* the plan of the free trial
    GraceDays,  \* SUBSCRIPTION_GRACE_DAYS
    TrialDays,  \* TRIAL_DAYS
    PeriodDays, \* length of a paid period
    FreeDays    \* what a new free row's renewDate lies ahead

ASSUME PlansAssumption == Plans \subseteq Nat \ {0} /\ TrialPlan \in Plans
ASSUME DaysAssumption ==
    /\ GraceDays \in Nat /\ TrialDays \in Nat \ {0}
    /\ PeriodDays \in Nat \ {0} /\ FreeDays \in Nat

RowStatuses == {"active", "trial", "downgraded"}
SubscriptionRow == [plan : Plans \cup {0}, renew : Nat, auto : BOOLEAN,
                    status : RowStatuses, trialled : BOOLEAN]

isPaidPlan(row) == row.plan # 0
isTrialRow(row) == row.status = "trial" /\ isPaidPlan(row)

InGrace(row, now) == row.auto /\ now <= row.renew + GraceDays

hasPaidAccess(row, now) ==
    isPaidPlan(row) /\ (row.renew > now \/ InGrace(row, now))

getSubscriptionStatus(row, now) ==
    CASE ~isPaidPlan(row) -> "active"
      [] isPaidPlan(row) /\ row.renew > now ->
            IF row.auto THEN "active" ELSE "cancelled"
      [] isPaidPlan(row) /\ row.renew <= now ->
            IF InGrace(row, now) THEN "grace_period" ELSE "expired"

getEffectivePlanSlug(row, now) ==
    IF \/ hasPaidAccess(row, now)
       \/ isPaidPlan(row) /\ getSubscriptionStatus(row, now) = "grace_period"
    THEN row.plan ELSE 0

\* Blocks only the early renewal of the same, or a lower, paid plan.
shouldBlockSubscriptionPayment(row, target, now) ==
    /\ isPaidPlan(row) /\ row.status # "trial"
    /\ target <= row.plan
    /\ row.renew > now

-----------------------------------------------------------------------------
(* Writes.                                                                 *)

FreeRow(now) == [plan |-> 0, renew |-> now + FreeDays, auto |-> TRUE,
                 status |-> "active", trialled |-> FALSE]

\* processSuccessfulPayment: the period is added to what was left (base, the
\* renewDate it has read), never to the past.  (Mutants: it starts today; it starts when grace would have ended; the
\* row takes the status of the payment.)
MutantFromToday(row, target, base, now) ==
    [row EXCEPT !.plan = target, !.auto = TRUE, !.status = "active",
                !.renew = now + PeriodDays]
MutantAfterGrace(row, target, base, now) ==
    [row EXCEPT !.plan = target, !.auto = TRUE, !.status = "active",
                !.renew = (IF base > now THEN base ELSE now)
                          + GraceDays + PeriodDays]
MutantPaymentStatus(row, target, base, now) ==
    [row EXCEPT !.plan = target, !.auto = TRUE, !.status = "paid",
                !.renew = (IF base > now THEN base ELSE now)
                          + PeriodDays]
PaidRow(row, target, base, now) ==
    [row EXCEPT !.plan = target, !.auto = TRUE, !.status = "active",
                !.renew = (IF base > now THEN base ELSE now)
                          + PeriodDays]

TrialRow(row, now) ==
    [row EXCEPT !.plan = TrialPlan, !.auto = FALSE, !.status = "trial",
                !.renew = now + TrialDays, !.trialled = TRUE]

\* activatePaidPlanTx, as the store entitlements call it: renewDate becomes the
\* end of the period the store reports.
ActivatedRow(row, target, end) ==
    [row EXCEPT !.plan = target, !.auto = TRUE, !.status = "active",
                !.renew = end]

\* downgradeToFreeTx leaves renewDate and autoRenew as they are.
FreedRow(row) == [row EXCEPT !.plan = 0, !.status = "downgraded"]
=============================================================================
