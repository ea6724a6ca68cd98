# Sarh platform: verification of its concurrent core

This directory holds TLA+ models of the parts of the platform where handlers
that share rows race one another and a mistake costs somebody money, their
session or the stage: card payments through N-Genius (NI), the life of a
subscription, purchases through the App Store, refresh sessions, and the stage of
a live council. The models are translated from `src/backend-nest/src` and, for
the client of the sessions, `src/app`; TLC checks them on small instances and
TLAPS proves their safety properties for every value of the constants.

    tlc -workers 2 -config PaymentsCheckout.cfg MCPayments     # one run
    tlapm PaymentsProofs.tla                                   # one proof module

Paths below are relative to `src/backend-nest/src` unless they start with `src/`.

## 1. The system

The repository is a NestJS API (`src/backend-nest`, Prisma on PostgreSQL, Redis,
BullMQ), an Expo app (`src/app`), a Next.js admin panel (`src/admin-panel`) and
deployment files. The API runs as several processes beside one or more queue
workers: nothing in memory is shared between them, and the database's unique
indexes and conditional updates are what keeps handlers apart.

| Component | State | Operations | Hard behaviour | Correct when |
|---|---|---|---|---|
| Card payments (`payments/`) | `Payment`, `ListingFee`, in-flight map per process, NI's orders | initiate with reuse / refresh / archive of an open checkout, webhook, sync on return, 5-minute auto-sync, refund | all handlers act on a row they read before a call to NI; webhooks are lost, repeated, reordered; a payment can have two NI orders | paid only on a capture of the full price; granted once; one open checkout; a capture is settled in the end |
| Integrations (`integrations/`) | `IntegrationOrder`, `IntegrationWebhookEvent` | hosted checkout, staff retry, webhook inbox | NI created an order and the answer was lost; event marked processed at the end only | stored order is the payment's own; redelivery is harmless |
| Subscription lifecycle (`subscriptions/`, `queue/`) | `Subscription` row per account | lazily created free row, paid extension, trial, cancel, expiry at request time, daily batch, refund downgrade | every expiry decides on a row it read and writes without a condition; batch of 500 in no order | bought time is not lost, unpaid time is not given, one trial, expiry reaches every row as long as rows in grace leave room in the batch |
| Store purchases (`store-purchases/`) | `StorePurchase`, `StoreNotification`, `Payment`, `Subscription` | verify by the client, server notifications, claim, grant, revoke, expire, renewal toggles | claim takeover after 2 minutes, death in the middle of a grant, refund before purchase | one granter at a time, active only with a payment, plan only for a sold period |
| Refresh sessions (`auth/`, `users/services/user-settings.service.ts`, `src/app/contexts/AuthContext.tsx`) | `UserSession` rows, the replay of a rotation's answer in Redis, the token of a device | sign-in under a limit of 5, rotation, a 30 s grace for the replaced token, reuse revocation, sign-out, revocation of the others | no locks; two refreshes with one token; an answer lost after the swap; Redis misses; a device that gives up after 12 s | a token is rotated once; the grace ends; who only retries stays signed in; the limit is exceeded by overlapping sign-ins only |
| Stage of a council (`councils/`) | `CouncilMember` and `CouncilSpeakRequest` rows, `Council.status` | ask for the stage, accept, promote, demote, mute, kick, ban, moderators, leave, microphone, sweep of absent speakers, end | most writers take a lock on the council's row; microphone, withdrawal and sweep do not | one holder per seat, who may speak; no request left for somebody banned; muted means silent; roles are given by moderators only |
| Rest of the councils | scheduled start, reminders, codes and invites, cameras, presence | start when due, join with a code, heartbeat | presence and schedule read before they are acted on | one live council per owner, reminders once |
| Livestreams (`livestreams/`) | stream, live minutes used | start, end by host, end by LiveKit | both ends race | minutes billed once |
| Listings and boosts (`listings/`, `fees/`) | listing, boost dates, sale fee | free boost under a weekly quota, expiry job, sale | expiry batch against extension | quota kept, a running boost is not cleared |
| Messaging, gateway | conversations, receipts, sockets | send, read, presence | ordering of receipts | receipts move forward |
| Everything else | single rows | reads, single-row writes under a role check | little | unique indexes hold |

The money components meet in two tables. A *Payment* is opened by the checkout and
settled by a webhook or a sync; settling it writes the `Subscription` row (or the
`ListingFee`) in the same transaction. The `Subscription` row is also written by
the expiry batch, by requests of its owner, by the trial, by refunds and by
store purchases, which create Payment rows of their own. Sessions and councils
share no row with them, nor with each other.

## 2. Modules

| Module | Models |
|---|---|
| `Payments` | `payments.service.ts`, `payments.repository.ts`, `ni-fulfilment-guard.ts`, the NI client as far as its answers matter, the checkout and webhook services of `integrations/` |
| `PaymentLedger` | the abstract promise: a ledger in which money comes before `paid`, a grant is part of the settlement, and a settled payment can only be refunded |
| `ReferencePayments` | the abstract promise that `Payments` gives and `SubscriptionLifecycle` relies on: per reference one open payment, only the open one settles, no more refunds than settlements |
| `SubscriptionRows` | `lib/subscription-lifecycle.ts` and the writes of the Subscription row, as pure operators on one row |
| `SubscriptionLifecycle` | EXTENDS `SubscriptionRows`: `subscription-lifecycle.service.ts`, the trial service, the expiration job, and what payments do to the rows |
| `StorePurchases` | EXTENDS `SubscriptionRows`: `store-purchases.service.ts`, its repository, the entitlement service and the verifier, with the store as environment |
| `StoreLedger` | the abstract promise of store billing: what is granted was sold and has its receipt, a credit follows a refund, a plan is withdrawn only if some period is over |
| `AuthSessions` | the session statements of `auth.service.ts`, `auth.repository.ts` and `user-settings.service.ts`, with the app's refresh (`AuthContext.tsx`, `sessionRefresh.ts`) as the device |
| `SessionTokens` | the abstract promise of the session store: a token is issued once, the current one can become the replaced one, and what was retired stays retired |
| `Councils` | what `councils.service.ts` and `council-policy.ts` do to seats, roles, mutes and speak requests of one live council |
| `Stage` | the abstract promise of a stage: who may sit, speak, be silenced or barred, whoever locks what |
| `MCPayments`, `MCSubscriptionLifecycle`, `MCStorePurchases`, `MCAuthSessions`, `MCCouncils` | instances for TLC |
| `PaymentsProofs`, `PaymentsGrantsProofs`, `SubscriptionLifecycleProofs`, `StorePurchasesProofs`, `AuthSessionsProofs`, `AuthKeptProofs`, `AuthTokensProofs`, `CouncilsProofs` | theorems |

The abstract specifications have no workers, no programme points and no stale
reads. Each detailed module instantiates its own with a refinement mapping
(`Ledger`, `Reference`, `Store`, `Stage`), and its `Implements...` property says
that every step of a handler, late or early, is one step of the promise or none.

| Detailed module | Implements | Mapping |
|---|---|---|
| `Payments` | `PaymentLedger` | statuses; payments some own order was captured for, at their price; grants |
| `Payments` | `ReferencePayments` | references with a pending payment; the numbers of their settled and of their refunded payments |
| `SubscriptionLifecycle` | `ReferencePayments` | users with a pending payment; the histories `settled` and `refunded` |
| `StorePurchases` | `StoreLedger` | the terms of the periods bought; what the store took back; Payment rows; plan and date of a paid row |
| `AuthSessions` | `SessionTokens` | `cur` of a row that is live, `prev` of a row in grace, `owner` |
| `Councils` | `Stage` | members by seat; microphones; mutes; members banned or kicked; `ENDED` |

### Payments

A *worker* is a handler in execution; the set `Roles[w]` bounds what it may be:
`initiate`, `webhook`, `sync` (return URL and auto-sync share
`syncPaymentByOrderRef`) or `retry` (staff). `task[w]` holds its program point
and the locals that outlive an `await`: `snap` is the row as it was read. One
action is one statement or `$transaction`, or one call to NI.

| Code | Actions |
|---|---|
| `initiate`, `initiateInternal` | `Initiate`, `DeclareSale`, `CreatePending`, `ReturnExisting`, `CreateRaced` |
| `tryReuseExistingPendingPayment` | `WaitForUrl`, `VerifyCheckout`, `VerifyUnavailable`, `RefreshRead`, `RefreshWrite`, `Archive`, `Recreate`, `Resync` |
| `createHostedCheckout`, `updatePaymentCheckout` | `CreateCheckout`, `CreateCheckoutLost`, `CheckoutError`, `StoreCheckout`, `RetryCheckout` |
| `handleRaw`, `processWebhook`, `handleNIWebhook` | `ReceiveWebhook`, `ConfirmWithNi`, `MarkFailed`, `MarkRefunded`, `ReadPlan`, `Downgrade`, `Acknowledge` |
| `checkNiOrderForFulfilment` | `Verdict`, `FlagForReview` |
| `processSuccessfulPayment` | `ProcessSuccessfulPayment` |
| `syncPaymentByOrderRef` | `SyncStart`, `SyncFetch` |
| NI and the customer (external) | `CustomerPays`, `OrderFails`, `OrderRefunded`, `OrderReversed`, `Sent`, `NiClass` |

Abstractions. Prices are members of `Amounts`, and a subscription's target plan
is identified with its price. `renew` counts paid periods; nothing expires here.
NI chooses the amount of an order it registers, which is the case the guard
exists for. The reference in an event is the order's own (signed payloads are
not forged). A customer pays only on a page whose URL the platform gave out. The
IntegrationOrder row exists with the payment. The age of a row is not tracked,
so any row may be older or younger than a limit. `docs/payment-webhooks.md:5`
calls the webhook the only path to `paid`; the model follows the code, in which
the sync is another.

### SubscriptionLifecycle

A payment is here opened, given up, settled or refunded, and no Payment table is
needed: `ReferencePayments` is all this model takes of payments and what
`Payments` is proved to give. A settlement is `settlementReads`, `processSuccessfulPayment` (or `RollBack`): it
reads `renewDate` and writes it extended, and nothing locks the Subscription row
in between. A trial that starts just then loses its days, so `owed` does not
count such a trial; `PaidTimeIsKept` shows that no other order of events loses
any. Downgrades are two
steps: `BatchRead` / `expireIfNeeded` / `ReadPlan` decide, `BatchDowngrade` /
`downgradeUser` write, without a condition, as the code does. `BatchRead` takes
any `BatchLimit` of the rows past their date. `countPayments` and `activateTrial`
are the two statements of `activateTrialTx`, between which a payment may settle.
`Abandon` is a process that dies or a statement that throws: the rest of a batch
is then lost. Time is counted in days. `settled`, `refunded`, `trials` and `owed`
are histories the properties speak of.

### StorePurchases

One account and one subscription chain of the App Store. A *period* is a store
transaction. `Buy`, `Refund`, `Sent` and `VerifiedState` are the store;
`VerifyPurchased`/`VerifyRevoked`/`VerifyExpired` are the client's verification
after its answer from Apple, `ReceiveNotification` a server notification and
`ReceiveRenewalStatus` DID_CHANGE_RENEWAL_STATUS. `processVerified` goes through
`Claim`, `CreatePayment`, `Activate`, `AutoOff` and `MarkActive`, or fails with
`MarkFailed`; `applyRevoke` through `MarkRevoked`, `MarkPaymentRefunded`,
`FindSubscription` and `DowngradeUser`. `Age` lets a claim go stale at any time,
so that a takeover may race a grant that is only slow.

### AuthSessions

One account. A refresh token is a number, in the order the tokens are signed; a row
holds its current one (`cur`) and the one the last rotation replaced (`prev`),
which is accepted while `grace` holds. Nothing is locked, so an action is one
statement on the database or on Redis: a *worker* is a request being served, and
its `task` holds what it has read.

| Code | Actions |
|---|---|
| `login`, `verifyOtp`, `googleAuth`: `enforceSessionLimit`, `loginTransaction` | `SignIn`, `countUserSessions`, `findOldestSession`, `evictOldest`, `loginTransaction` |
| `refresh` | `Refresh`, `find`, `rotate`, `refind`, `cacheGracePair` |
| `refreshWithinGrace` | `pollCache`, `reissue`, `regrace` |
| `assertSessionUsable`, `revokeOnReuse` | `dropExpired`, `revokeOnReuse` |
| `logout`, `changePassword`, the settings | `logout`, `deleteAllSessions`, `revokeSession`, `findKeep`, `deleteOthers` |
| the device | `Send`, `Answer`, `GiveUp`, `SignOut` |
| time, crashes | `GraceEnds`, `Expires`, `Abandon` |

A device has one refresh in flight (`refreshInFlightRef`); it may give up while
the server still works, and then ask again with the token it still has. `strained`
is a history: it becomes true when the cached answer is not found after three
polls of Redis, or when a replaced token stops being accepted (its grace ends, or the next
rotation replaces the token that replaced it) while somebody still holds it.
`HonestIsKept` speaks of behaviours in which neither happened; the model allows
both. They do happen: an app that repeats a refresh 45 seconds after a lost answer
is beyond the 30 seconds, and is signed out. Not in the model: the
blacklist of access tokens, `account_disabled`, and registration, whose session is
that of a sign-in without others.

### Councils

One council that is live, its owner and the people who may join. A request that
takes the lock (`withCouncilLock`) is two actions: `Lock` checks and reads, `Commit`
writes what follows from what was read, or `Rollback` undoes it (timeout, unique
index, death). Between the two only what takes no lock can move: `setMic`,
`cancelRequest`, `join`, and the sweep, `sweepReads` and `sweepFrees`. A sweep frees
a row only if `updatedAt` is what it read; `seen` forgets a row that was written
since. Only a write that changes the row counts as one, so that a sweep meets a
few requests more than it would in the code. `overtaken` is a history of the
people a sweep took off stage while a request held the lock to act on them.

`src/docs/councils.md:20-22` counts the sweep among the seat changes that run under
the lock; in the code it does not. What that costs is said by `SpeakersAreSeated`:
only people `overtaken` in this way can be left a SPEAKER without a seat, who is
then a speaker for the list of members and a listener for the microphone. Seats,
mutes, requests and roles do not suffer. A request
that its user withdraws while a moderator accepts it still seats him, muted.

## 3. Runs

`expect: pass`:

| Run | Instance | Shows |
|---|---|---|
| `PaymentsCheckout` | 2 workers in 2 processes, 2 payments of one subscription, 1 NI order, 1 fault, webhooks lost and redelivered, fairness | never two open checkouts of a reference (`OnePendingPerReference`); `StoredOrderIsOwn`, `GrantedOnce`, `EntitlementIsCovered`, `StatusOnlyForward`; what handlers hold stays true (`Inductive`); the handlers implement `PaymentLedger` and `ReferencePayments`; `CaptureIsSettled` |
| `PaymentsFulfilment` | webhook, sync and staff retry of a listing fee declared twice, 1 payment, 2 NI orders of 2 possible amounts | `PaidMeansCaptured`, `EntitlementIsCovered` |
| `LifecycleRows` | 2 accounts, 2 workers, a batch of 1 row that may die, days 0 to 4 with sales on days 0 to 2, fairness | `PaidTimeIsKept`, `NoUnpaidAccess`, `TrialIsOnce`, `OnlyPaymentOvertakes`, `Inductive`; `ExpiredIsDowngraded`, under its two conditions |
| `StoreGrants` | client beside notifications, renewal toggles and expiry; 2 periods of 2 plans, 2 notices, takeovers | `PlanIsBacked`, `ActiveIsPaid`, `ClaimIsExclusive`, `GrantsAreSound`; implements `StoreLedger` |
| `StoreRetries` | 1 period, a grant that dies or fails anywhere, fairness | `PurchaseIsGranted` |
| `AuthRefresh` | a device that refreshes and signs out beside one that signs in and revokes the others; 2 requests at a time, a limit of 1, 2 sign-ins, 4 tokens | `RotatedOnce`, `GraceNotExtended`, `SessionsBounded`, `HonestIsKept`; implements `SessionTokens` |
| `CouncilStage` | 3 people beside the owner and one seat beside his, 2 requests at a time, 1 sweep, moderators who may do everything | `SeatIsFree`, `StageIsConsistent`, `PendingIsServable`, `MutedIsSilent`, `SpeakersAreSeated`, `RolesAreGiven`; implements `Stage` |

Each component's `TypeOK` is checked in one of its runs.

`expect: violation`, each the counterexample behind a finding:

| Run | Statement | What the code does |
|---|---|---|
| `DocCaptureReconciles` | comment at `payments/payments.service.ts:1043`: a capture after local failure must still reconcile | the confirmation passes, but `processSuccessfulPayment` updates pending rows only, so nothing changes and the event is acknowledged |
| `DocRefundRecorded` | `src/docs/refunds.md:5`: a refund marks the payment refunded | a refund event that meets a payment still pending is acknowledged; a sync that had already read the captured order then marks it paid for good |
| `DocGrace` | `src/docs/subscription-lifecycle.md:170`: the downgrade waits until grace ends | a payment between the read and the unconditional write is overtaken by the downgrade |
| `DocStoreRefund` | `src/docs/iap-setup-ar.md:158`: a refund withdraws the subscription | a refund notified before its purchase answers `unlinked` and is recorded; the purchase's older signed payload then grants |
| `DocLogoutEnds` | `src/docs/auth.md:89`: logout deletes the refresh session | signing out while a rotation's answer is lost or under way sends a token that is no longer current: nothing is deleted, and logout answers all the same |

Two workers are enough for a race of two handlers, which every known hazard is;
each is free to run again and again, so three handlers in turn are covered. Two
payments cover archive-and-recreate, two NI orders a staff retry or a lost
answer, a limit of one session an eviction and its overshoot, four tokens a rotation with a
replay and a re-issue on each of two sessions or three in a row on one; three
people for one seat a holder, one who takes the seat he leaves and one who moderates;
one fault a crash at any one point. `LastDay`, `LastSale`, `MaxPays`,
`MaxPeriods`, `MaxNotices`, `MaxLogins`, `MaxTokens` and `MaxFaults` end the state space, and the proofs
do not depend on any of them. In the liveness properties they say something more: that
faults are finitely many (all three properties), and that sales end and time
stops (`ExpiredIsDowngraded`, which therefore names what it needs of them as its
conditions, see Fairness). `CHECK_DEADLOCK` is off where a system in which
every bound is used up, or a council that is over, rightly stops. `IdSymmetry` permutes payments and orders
in safety runs only,
as do the symmetries of `MCAuthSessions` (workers) and `MCCouncils`.

A definition named `Mutant...` stands before the definition it spoils: it is the
same operator with a bug that is easy to make (a dropped guard, a period counted
from the wrong day, a claim taken over too early). Nothing uses it;
`PROJECT.json` says which property of which run fails when it takes the
operator's place, so that every property is known to be able to fail.

### Fairness

* `Payments!FairSpec`: a running handler goes on, or its checkout fails (WF of
  `Progress \/ CheckoutError`); the 5-minute
  timer polls a pending payment with an NI order again and again (SF of
  `AutoSync`; SF because workers may be busy, or the payment not pending, in
  between); NI does not report a captured order as in progress for ever
  (SF of `PollSeesCapture`). Nothing is assumed of webhooks, users, customers or
  staff. The code polls for 7 days and 50 rows per round: the property says what
  happens to a payment within that.
* `SubscriptionLifecycle!FairSpec`: time passes and a batch is started again and
  again (the daily job at 6:00 with its retries; both SF, because requests of one
  day do not put time or the job off), a running handler or settlement goes on. The
  job itself needs Redis and keeps its last run in memory; that it does start is
  assumed. Fairness is not enough for `ExpiredIsDowngraded`, because a batch
  chooses its 500 rows (`take: 500`, without an order) among expired rows and rows
  in grace alike. Two conditions are part of the property. `GraceLeavesRoom`: from some
  day on, fewer rows than a batch takes are in grace. `SalesAndFaultsEnd`: payments,
  trials and failures are finitely many, so that new rows do not expire, or batches
  die, for ever. The code ensures neither. In real time the first follows from an end
  of sales, since grace is over after some days; in the instance, where sales go
  on until two days before the clock stops, rows stay in grace for ever, and
  without the first condition TLC finds the counterexample: one row in grace
  fills every batch and an expired row keeps its plan.
* `StorePurchases!FairSpec`: a handler goes on, claims age, and the client
  verifies until it is confirmed (`src/app/services/iap.ts` finishes a store
  transaction only then). Nothing is assumed of notifications.

## 4. Proofs

| Module | Theorems |
|---|---|
| `PaymentsProofs` | `TypeCorrect`, `HandlersAreSound`, `PaidIsCaptured`, `StoredIsOwn`, `OneOpenCheckout`, `GrantIsOnce`, `StatusMovesForward`, `Refinement` |
| `PaymentsGrantsProofs` | `EntitlementsCovered`, `PerReference` |
| `SubscriptionLifecycleProofs` | `TypeCorrect`, `PaidTimeKept`, `AccessIsPaid`, `OneTrial`, `HandlersAreSound`, `ExpiryIsOvertakenByPaymentsOnly`, `PerReference` |
| `StorePurchasesProofs` | `TypeCorrect`, `PlanBacked`, `ActivePaid`, `ClaimExclusive`, `GrantsSound`, `Refinement` |
| `AuthSessionsProofs` | `TypeCorrect`, `TokensRotateOnce`, `GraceEndsForGood`, `SessionsStayBounded` |
| `AuthKeptProofs` | `HonestAreKept` |
| `AuthTokensProofs` | `Refinement`, `RefusedForGood` |
| `CouncilsProofs` | `TypeCorrect`, `SeatStaysFree`, `StageConsistent`, `PendingServable`, `MutedSilent`, `SpeakersSeated`, `RolesGiven`, `Refinement` |

Every invariant, every action property and every refinement of the passing runs is
a theorem; `RefusedForGood` and the `PerReference` of the lifecycle are theorems that
no run states.
They hold for all sets of users, devices, workers, payments, orders and plans
(payments, workers of the sessions, and members finite) and all bounds, under the named assumptions beside the constants (identifiers are
distinct from their `No...` values, lengths of periods are positive, and so on).

*Payments.* `GrantedOnce` is not inductive alone: what keeps it is that a handler
with `fulfilled` in its snapshot belongs to a settled payment, that a handler at
`fulfil` holds an order that covers the payment, and that a stored order is the
payment's own. `TaskIsSound` says so of every handler, `RowsAreSound` and
`OrdersAreOurs` of the tables, and `Inductive` is all of it. One lemma says which
facts about rows and orders every step keeps (a payment never becomes unsettled,
an order never changes its owner, captured stays captured); from it, `TaskIsSound`
of the handlers that do not move follows once for all actions, and each action
has only to account for its own handler and its own row. `StatusMovesForward`
and `Refinement` classify each step from the invariant as open, drop, fund,
settle, refund or a stutter of the ledger. `EntitlementsCovered` adds to that
invariant that the settled payments of a reference are at least as many as its periods
(`Backed`): they only grow, and only the settlement adds a period, together with
a payment. `PerReference` reads the numbers of a reference off the same steps: one
payment moves at a time (`OneMoves`), it keeps its reference, and if it is pending it
is the only one of its reference (`OnePendingPerReference`), so that to settle it
leaves none open and adds one to the settled. A payment that is refunded is settled and
not refunded yet, which is why there are more of the first than of the second
(`Counts`, on the cardinalities of finite sets).

*Lifecycle.* `PaidTimeIsKept` needs that a payment extends the later of today and
`renewDate` and that no writer shortens it; `NoUnpaidAccess` and `TrialIsOnce`
need the agreement of histories and rows (`HistoryIsSound`) and that what a
settlement has read is neither less than what is owed nor more than what is
accounted for (`SettlementIsSound`);
`OnlyPaymentOvertakes` needs to know that a row freed in the meantime shows
`downgraded`, so that no trial can start on it (`DecisionIsSound`). The proof has
one lemma per kind of row write, one for decisions that are kept, and one case
per action. `PerReference` needs of the invariant that a settlement under way has a
pending payment (`SettlementIsSound`). With the theorem of the same name about
`Payments` it joins the two models: what one assumes of payments the other proves,
although neither names the variables of the other.

*Store purchases.* `ActiveIsPaid` and `PlanIsBacked` survive takeovers because a
handler past `CreatePayment` has its period's Payment whatever others do to the
row (`TaskIsSound`). `ClaimIsExclusive` needs `ClaimIsKept`: a granted row whose
claim never went stale is `processing` or `revoked`, so that nobody can claim it.
`Refinement` needs `Reasons` besides: a handler about to credit or to withdraw holds a
reason that time cannot take away (the store did take the period back, there is a
receipt, some period is over). That it does not go stale is why a late `DowngradeUser`
is still a `Withdraw`; that the period it withdraws is the one that is over is not
claimed, and would be false (the hazard at `store-entitlements.service.ts:263`).

*Sessions.* `Owned` says where a token may be: in the row of the session it was signed
for, with the device that session belongs to, in the tasks of that device's requests, in
the cache under a token of the same owner. It holds whatever happens, and with it
`RotatedOnce` and `GraceNotExtended` follow from the conditions of the two swaps.
`SessionsBounded` counts the requests about to create a session with the sessions there
are, which makes it inductive. `HonestIsKept` needs `Sound`: while nothing was strained,
a device that has a session holds a token the row still takes (`Good`), a request that
presents one has not fallen through the steps (`Kept`), and the cache has the
row's current token under the replaced one (`RowSound`). `Refinement` rests on `Owned` and on `Issued` (a token that exists was
issued for a session that exists): the insert and the two conditional swaps are the only
statements that put a token into a row, and each puts in one that is new; every other
statement loses tokens. `RefusedForGood` is what a user takes from it: a refresh token
that is refused today, because it was replaced, evicted, signed out or revoked, is not
accepted tomorrow, whatever handlers still hold rows they read before.

*Councils.* The invariant of `CouncilsProofs` adds to the safety properties that one
request holds the lock at a time, that the row it read is the row there is but for a sweep
that freed its seat meanwhile (`Follows`), that what it checked is still so
(`Admitted`), and that a sweep which still may free a seat knows the role of that row
(`SweepIsFresh`, which is what the comparison of `updatedAt` gives). That
`firstFreeSeat` finds a free seat for any number of seats uses that the natural
numbers are well-founded. `Refinement` takes from that invariant that a seat read as
free under the lock is free at `Commit`, and that the row `Commit` writes is the one it
read but for a seat the sweep took; the writers without the lock are each one step of
the stage from the row as it is.

Only model-checked: liveness, which TLAPS does not handle under fairness
(`CaptureIsSettled`, `ExpiredIsDowngraded`, `PurchaseIsGranted`).

## 5. What is not modelled

Within the modelled parts: boosts, promotions and sale commissions as payment
types; the mock mode of NI; badges, live minutes, usage counters, caches and
notifications that follow a plan change; reminders; Google Play notifications,
more than one account per store chain and transfers between accounts.
Transactions run at PostgreSQL's default isolation. Those that read a row they
then write are two steps where another writer can come between
(`settlementReads` / `processSuccessfulPayment`, `countPayments` /
`activateTrial` in `SubscriptionLifecycle`); in `Payments` the settlement is one
step, because the only other writer of what it reads is another settlement of
the same reference, and `OnePendingPerReference` rules that out. The other
transactions are conditional or unconditional writes. A trial request and a
settlement are taken to end on the day they start. Metadata is `fulfilled` and `review`, the two marks that code reads.
The lost update of metadata by a checkout refresh, and the steps of a revocation
that die half-way, are in the models, but no document promises anything that a
property could hold them to.

Of the sessions: the blacklist of access tokens, disabled accounts, codes of the
OTP and of the second factor. Of the councils: scheduled starts and reminders,
private access, cameras and images, presence (any seated speaker may be absent for a
sweep, and the owner for `LockToEnd`), and the permissions sent to LiveKit after the
transaction, without a retry.

What the models show and no property promises: a session that was evicted or
revoked elsewhere and is then refreshed by its device presents a token no row
knows, and every other session of the account is signed out as well (`find`,
`revokeOnReuse`); `docs/auth.md`'s brief sixth session is `SessionsBounded`; a
request withdrawn while it is accepted seats its user; a checkout's refresh can lose
the mark of review. While sales go on and 500 or more rows are in grace on every day,
each daily batch may consist of such rows and pass over the same expired row, which
then keeps its plan in the table until its owner's next request expires it:
`ExpiredIsDowngraded` promises nothing there.

Most of the repository is pages, prompts, catalogues, search and record keeping over
single rows, where nothing competes and a model would only restate the code. The
other components are listed with their reasons in `PROJECT.json`.

## 6. What could follow

1. **Entitlements**: `Payments`, `SubscriptionLifecycle` and `StorePurchases`
   over one Subscription row, where a store renewal, a card payment, a trial and
   a downgrade overwrite one another. `ReferencePayments` is the first seam of it.
2. **Livestreams**: the two ends of a stream and the live minutes.
3. **Boosts**: the weekly quota and the expiry batch; boosts as a third kind of
   payment.
4. **Councils**: one live council per owner, scheduled starts against the
   owner's own, the absent host who comes back.
5. Google's notifications and a second account in `StorePurchases`.
