------------------------------ MODULE Payments ------------------------------
(***************************************************************************)
(* The N-Genius (NI) payment core of the API process:                      *)
(* payments.service.ts with payments.repository.ts, ni-fulfilment-guard.ts *)
(* and the webhook entry of ni-webhook.service.ts.                         *)
(*                                                                         *)
(* Three kinds of handler run concurrently, each a worker that interleaves *)
(* with the others at every await: `initiate` (open a checkout), the NI    *)
(* webhook, and `syncPaymentByOrderRef` (return URL and the 5-minute       *)
(* auto-sync).  A handler keeps the row it READ (`snap`) and acts on it    *)
(* later, as the code does; one action is one database statement or        *)
(* transaction, or one call to NI.                                         *)
(*                                                                         *)
(* Abstractions.  A price is a member of Amounts; a subscription's target  *)
(* plan is identified with its price, and plan 0 is the free plan.         *)
(* renew counts the paid periods added to renewDate.  The horizon is one   *)
(* billing period, so nothing expires (SubscriptionLifecycle has expiry).  *)
(***************************************************************************)
EXTENDS Naturals, FiniteSets

CONSTANTS
    PaymentIds,   \* rows the Payment table may come to hold (bound)
    Orders,       \* NI order UUIDs that may be issued (bound)
    Refs,         \* what is paid for: a Subscription id or a ListingFee id
    Kind,         \* [Refs -> Kinds], Payment.referenceType of the reference
    Amounts,      \* possible prices
    Workers,      \* handlers that may run at the same time (bound)
    ProcOf,       \* the API process a worker runs in
    Roles,        \* the handlers a worker may run (bound)
    MaxFaults,    \* bound on crashes, database errors and failed NI calls
    NoPayment, NoOrder, NoRef, NoEvent

Kinds == {"subscription", "listing_fee"}
EventKinds == {"captured", "failed", "refunded", "reversed"}

ASSUME IdsAssumption ==
    /\ NoPayment \notin PaymentIds
    /\ NoOrder \notin Orders
    /\ NoRef \notin Refs
    /\ NoEvent \notin EventKinds
ASSUME FiniteAssumption == IsFiniteSet(PaymentIds)
ASSUME KindAssumption == Kind \in [Refs -> Kinds]
ASSUME RolesAssumption ==
    Roles \in [Workers -> SUBSET {"initiate", "webhook", "sync", "retry"}]
ASSUME AmountsAssumption == Amounts \subseteq Nat \ {0}
ASSUME MaxFaultsAssumption == MaxFaults \in Nat

VARIABLES
    payment,  \* the Payment table
    sub,      \* Subscription rows: plan, and periods added to renewDate
    fee,      \* ListingFee rows: status, and commission once a sale is declared
    integration, \* IntegrationOrder rows: the NI order last stored, with its URL
    orders,   \* NI's own order records (external)
    events,   \* IntegrationWebhookEvent rows with processed = true
    task,     \* what each worker is doing, and what it has read
    grants,   \* history: how often a payment's entitlement was applied
    faults    \* how many faults have happened

vars == <<payment, sub, fee, integration, orders, events, task, grants, faults>>

-----------------------------------------------------------------------------
(* The Payment row, and NI's side.                                         *)

Statuses == {"none", "pending", "paid", "failed", "refunded"}

\* tx is transactionId once it holds an NI UUID, url says checkoutUrl is set;
\* fulfilled and review are metadata.subscriptionFulfilled / .reviewRequired.
Row == [status : Statuses, ref : Refs \cup {NoRef}, amt : Amounts \cup {0},
        tx : Orders \cup {NoOrder}, url : BOOLEAN,
        fulfilled : BOOLEAN, review : BOOLEAN]

NoRow == [status |-> "none", ref |-> NoRef, amt |-> 0, tx |-> NoOrder,
          url |-> FALSE, fulfilled |-> FALSE, review |-> FALSE]

\* The part of a row a handler reads and acts on later; the rest of the row
\* never changes.
Snapshot == [status : Statuses, tx : Orders \cup {NoOrder},
             fulfilled : BOOLEAN, review : BOOLEAN]

Snap(row) == [status |-> row.status, tx |-> row.tx,
              fulfilled |-> row.fulfilled, review |-> row.review]

OrderStates == {"none", "open", "captured", "failed", "refunded", "reversed"}

\* pay is the merchant reference; shown: somebody was given the page's URL;
\* cap: money was captured at some time.
NiOrder == [state : OrderStates, pay : PaymentIds \cup {NoPayment},
            amt : Amounts \cup {0}, shown : BOOLEAN, cap : BOOLEAN]

NoNiOrder == [state |-> "none", pay |-> NoPayment, amt |-> 0,
              shown |-> FALSE, cap |-> FALSE]

Messages == Orders \X EventKinds

\* The events NI has emitted for an order; it may deliver each of them any
\* number of times, in any order, or never.
Sent(o) ==
    {e \in EventKinds :
        \/ e = "captured" /\ orders[o].cap
        \/ e = orders[o].state /\ e # "captured"}

\* classifyNiOrderState(resolveNiOrderState(order)): what a read of the order
\* may report.  A read may still show a captured order as in progress.
\* (Mutant: an order in progress counts as paid.)
MutantOpenIsPaid(o) ==
    IF orders[o].state = "failed" THEN {"failed"} ELSE {"success", "processing"}
NiClass(o) ==
    CASE orders[o].state = "captured" -> {"success", "processing"}
      [] orders[o].state \in {"failed", "reversed"} -> {"failed"}
      [] OTHER -> {"processing"}

PendingFor(r) ==
    {p \in PaymentIds : payment[p].status = "pending" /\ payment[p].ref = r}
FreeRows == {p \in PaymentIds : payment[p].status = "none"}

-----------------------------------------------------------------------------
(* Workers.                                                                *)

InitiatePcs == {"declare", "create", "wait", "verify", "refresh", "rewrite",
                "archive", "recreate", "checkout", "store", "resync"}
WebhookPcs == {"confirm", "refund", "readPlan", "downgrade", "ack"}
SharedPcs == {"fetch", "flag", "fulfil", "fail"}
Pcs == {"idle"} \cup InitiatePcs \cup WebhookPcs \cup SharedPcs

Task == [pc : Pcs, r : Refs \cup {NoRef}, amt : Amounts \cup {0},
         p : PaymentIds \cup {NoPayment}, o : Orders \cup {NoOrder},
         ev : EventKinds \cup {NoEvent}, again : BOOLEAN, snap : Snapshot]

IdleTask == [pc |-> "idle", r |-> NoRef, amt |-> 0, p |-> NoPayment,
             o |-> NoOrder, ev |-> NoEvent, again |-> FALSE, snap |-> Snap(NoRow)]

Done(w) == task' = [task EXCEPT ![w] = IdleTask]
Goto(w, pc) == task' = [task EXCEPT ![w].pc = pc]

\* The in-process map that joins a second call for the same reference to the
\* one already running.
inFlightInitiations ==
    {<<ProcOf[w], task[w].r>> : w \in {v \in Workers : task[v].r # NoRef}}

\* The order the fulfilment guard reads: the UUID stored at checkout, or, when
\* checkout crashed before storing it, the one the webhook names.
VerifyRef(t) == IF t.snap.tx # NoOrder THEN t.snap.tx ELSE t.o

\* A webhook handler ends by marking its event processed, others just return.
Finish(w) == IF task[w].ev # NoEvent THEN Goto(w, "ack") ELSE Done(w)

Init ==
    /\ payment = [p \in PaymentIds |-> NoRow]
    /\ sub = [r \in Refs |-> [plan |-> 0, renew |-> 0]]
    /\ fee = [r \in Refs |-> [status |-> "pending", commission |-> 0]]
    /\ integration = [p \in PaymentIds |-> NoOrder]
    /\ orders = [o \in Orders |-> NoNiOrder]
    /\ events = {}
    /\ task = [w \in Workers |-> IdleTask]
    /\ grants = [p \in PaymentIds |-> 0]
    /\ faults = 0

Fault == faults < MaxFaults /\ faults' = faults + 1

-----------------------------------------------------------------------------
(* initiate                                                                *)

\* shouldBlockSubscriptionPayment / ensurePayableListingFee.
Payable(r, a) ==
    \/ Kind[r] = "subscription" /\ a > sub[r].plan
    \/ Kind[r] = "listing_fee" /\ fee[r].status = "pending"

Initiate(w, r, a) ==
    /\ task[w].pc = "idle" /\ "initiate" \in Roles[w]
    /\ <<ProcOf[w], r>> \notin inFlightInitiations
    /\ Payable(r, a)
    /\ task' = [task EXCEPT ![w] =
                  [IdleTask EXCEPT !.r = r, !.amt = a,
                     !.pc = IF Kind[r] = "listing_fee"
                            THEN "declare" ELSE "create"]]
    /\ UNCHANGED <<payment, sub, fee, integration, orders, events, grants, faults>>

\* recordListingFeeSaleAmount: only an unpaid fee takes the new commission.
DeclareSale(w) ==
    /\ task[w].pc = "declare"
    /\ fee' = IF fee[task[w].r].status = "pending"
              THEN [fee EXCEPT ![task[w].r].commission = task[w].amt]
              ELSE fee
    /\ Goto(w, "create")
    /\ UNCHANGED <<payment, sub, integration, orders, events, grants, faults>>

\* The partial unique index of the Payment table.  (Mutant: no such index.)
MutantNoIndex(r) == TRUE
MayInsert(r) == PendingFor(r) = {}

\* The row to insert.  (Mutant: it takes over the archived row's order.)
MutantInheritOrder(w) == [NoRow EXCEPT !.status = "pending", !.tx = task[w].o,
                             !.ref = task[w].r, !.amt = task[w].amt]
NewRow(w) == [NoRow EXCEPT !.status = "pending", !.ref = task[w].r,
                           !.amt = task[w].amt]

InsertPending(w, p, again) ==
    /\ MayInsert(task[w].r)
    /\ p \in FreeRows
    /\ payment' = [payment EXCEPT ![p] = NewRow(w)]
    /\ task' = [task EXCEPT ![w] =
                  [IdleTask EXCEPT !.pc = "checkout", !.r = task[w].r,
                                   !.p = p, !.again = again]]

CreatePending(w, p) ==
    /\ task[w].pc = "create"
    /\ InsertPending(w, p, FALSE)
    /\ UNCHANGED <<sub, fee, integration, orders, events, grants, faults>>

ReturnExisting(w, p) ==
    /\ task[w].pc = "create"
    /\ p \in PendingFor(task[w].r)
    /\ task' = [task EXCEPT ![w].p = p, ![w].snap = Snap(payment[p]),
                  ![w].o = payment[p].tx,
                  ![w].pc = IF payment[p].url THEN "verify" ELSE "wait"]
    /\ UNCHANGED <<payment, sub, fee, integration, orders, events, grants, faults>>

\* The insert loses the race for the partial unique index: the transaction is
\* aborted and the call ends with an error.  (So does an insert beyond the
\* bound PaymentIds.)
CreateRaced(w) ==
    /\ task[w].pc \in {"create", "recreate"}
    /\ PendingFor(task[w].r) # {} \/ FreeRows = {}
    /\ Done(w)
    /\ UNCHANGED <<payment, sub, fee, integration, orders, events, grants, faults>>

\* tryReuseExistingPendingPayment, no checkout URL yet: an old row is given
\* up, a young one is polled for 8 seconds and then answered with 409.  Age is
\* not tracked: any row may be older than STALE_PENDING_WITHOUT_CHECKOUT_MS.
WaitForUrl(w) ==
    /\ task[w].pc = "wait"
    /\ LET row == payment[task[w].p] IN
         \/ ~row.url /\ (Goto(w, "archive") \/ Done(w))
         \/ /\ row.url
            /\ task' = [task EXCEPT ![w].snap = Snap(row), ![w].o = row.tx,
                                    ![w].pc = "verify"]
    /\ UNCHANGED <<payment, sub, fee, integration, orders, events, grants, faults>>

\* verifyNiOrderForCheckout with an answer from NI.
VerifyCheckout(w) ==
    /\ task[w].pc = "verify"
    /\ IF task[w].o = NoOrder THEN Goto(w, "archive")
       ELSE \E c \in NiClass(task[w].o) :
              \/ c = "success" /\ Goto(w, "resync")
              \/ c = "failed" /\ Goto(w, "archive")
              \/ c = "processing" /\ (Done(w) \/ Goto(w, "refresh"))
    /\ UNCHANGED <<payment, sub, fee, integration, orders, events, grants, faults>>

\* 401, 403, 404, 5xx, a timeout or no payment link: the order is taken for
\* unusable, whatever its real state.
VerifyUnavailable(w) ==
    /\ task[w].pc = "verify"
    /\ Fault
    /\ Goto(w, "archive")
    /\ UNCHANGED <<payment, sub, fee, integration, orders, events, grants>>

\* The payment page has a new URL: re-read the metadata ...
RefreshRead(w) ==
    /\ task[w].pc = "refresh"
    /\ task' = [task EXCEPT ![w].snap = Snap(payment[task[w].p]),
                            ![w].pc = "rewrite"]
    /\ UNCHANGED <<payment, sub, fee, integration, orders, events, grants, faults>>

\* ... and write it back whole, with the URL (updatePaymentCheckout).
RefreshWrite(w) ==
    /\ task[w].pc = "rewrite"
    /\ payment' = [payment EXCEPT
                     ![task[w].p].tx = task[w].o,
                     ![task[w].p].url = TRUE,
                     ![task[w].p].fulfilled = task[w].snap.fulfilled,
                     ![task[w].p].review = task[w].snap.review]
    /\ Done(w)
    /\ UNCHANGED <<sub, fee, integration, orders, events, grants, faults>>

\* archiveInvalidPendingPayment; it throws when the row is no longer pending.
Archive(w) ==
    /\ task[w].pc = "archive"
    /\ IF payment[task[w].p].status = "pending"
       THEN /\ payment' = [payment EXCEPT ![task[w].p].status = "failed"]
            /\ Goto(w, "recreate")
       ELSE Done(w) /\ UNCHANGED payment
    /\ UNCHANGED <<sub, fee, integration, orders, events, grants, faults>>

Recreate(w, p) ==
    /\ task[w].pc = "recreate"
    /\ InsertPending(w, p, TRUE)
    /\ UNCHANGED <<sub, fee, integration, orders, events, grants, faults>>

\* NI registers an order for our merchant reference (gateway.createCheckout).
\* Its amount is NI's: the one case the fulfilment guard is there for.
RegisterOrder(w, o, a, shown) ==
    /\ task[w].pc = "checkout"
    /\ orders[o].state = "none"
    /\ orders' = [orders EXCEPT ![o] =
                    [state |-> "open", pay |-> task[w].p, amt |-> a,
                     shown |-> shown, cap |-> FALSE]]

\* createHostedCheckout with markSynced; a retry then answers with the URL and
\* leaves the Payment row as it is.
CreateCheckout(w, o, a) ==
    /\ RegisterOrder(w, o, a, task[w].r = NoRef)
    /\ integration' = [integration EXCEPT ![task[w].p] = o]
    /\ IF task[w].r = NoRef
       THEN Done(w)
       ELSE task' = [task EXCEPT ![w].o = o, ![w].pc = "store"]
    /\ UNCHANGED <<payment, sub, fee, events, grants, faults>>

\* The answer is lost and the client tries again: an orphan order is left.
CreateCheckoutLost(w, o, a) ==
    /\ RegisterOrder(w, o, a, FALSE)
    /\ Fault
    /\ UNCHANGED <<payment, sub, fee, integration, events, task, grants>>

\* All attempts failed: a first checkout keeps its row pending, one opened
\* after an archive is marked failed.
CheckoutError(w) ==
    /\ task[w].pc \in {"checkout", "store"}
    /\ \/ Fault
       \/ /\ task[w].pc = "checkout"   \* beyond the bound Orders
          /\ \A o \in Orders : orders[o].state # "none"
          /\ UNCHANGED faults
    /\ payment' = IF task[w].again /\ payment[task[w].p].status = "pending"
                  THEN [payment EXCEPT ![task[w].p].status = "failed"]
                  ELSE payment
    /\ Done(w)
    /\ UNCHANGED <<sub, fee, integration, orders, events, grants>>

\* What updatePaymentCheckout writes over the row: the metadata is the one
\* built at the start.  (Mutant: the merchant reference for the NI UUID.)
MutantStoreReference(t) ==
    [payment[t.p] EXCEPT !.tx = t.p, !.url = TRUE,
                         !.fulfilled = FALSE, !.review = FALSE]
StoredRow(t) == [payment[t.p] EXCEPT !.tx = t.o, !.url = TRUE,
                                     !.fulfilled = FALSE, !.review = FALSE]

\* updatePaymentCheckout is unconditional; the user is sent to the page.
StoreCheckout(w) ==
    /\ task[w].pc = "store"
    /\ payment' = [payment EXCEPT ![task[w].p] = StoredRow(task[w])]
    /\ orders' = [orders EXCEPT ![task[w].o].shown = TRUE]
    /\ Done(w)
    /\ UNCHANGED <<sub, fee, integration, events, grants, faults>>

\* NI says the pending payment is already paid: sync it.
Resync(w) ==
    /\ task[w].pc = "resync"
    /\ task' = [task EXCEPT ![w].snap = Snap(payment[task[w].p]),
                            ![w].pc = "fetch"]
    /\ UNCHANGED <<payment, sub, fee, integration, orders, events, grants, faults>>

\* retryFailedCheckout, by staff: no new order if one is stored already, for a
\* payment of any status.  (The IntegrationOrder row is taken to exist as soon
\* as the payment does.)
RetryCheckout(w, p) ==
    /\ task[w].pc = "idle" /\ "retry" \in Roles[w]
    /\ payment[p].status # "none"
    /\ IF integration[p] = NoOrder
       THEN /\ task' = [task EXCEPT ![w] =
                          [IdleTask EXCEPT !.p = p, !.pc = "checkout"]]
            /\ UNCHANGED orders
       ELSE /\ orders' = [orders EXCEPT ![integration[p]].shown = TRUE]
            /\ UNCHANGED task
    /\ UNCHANGED <<payment, sub, fee, integration, events, grants, faults>>

-----------------------------------------------------------------------------
(* The NI webhook: handleRaw, processWebhook, handleNIWebhook              *)

\* What the handler does next with the row it has read.  (Mutant: whatever
\* markPaymentRefunded would accept is refunded.)
MutantRefundAny(row, ev) ==
    CASE ev \in {"refunded", "reversed"} -> "refund"
      [] ev = "captured" /\ row.status = "pending" -> "confirm"
      [] OTHER -> "ack"
WebhookBranch(row, ev) ==
    CASE row.status = "refunded" -> "ack"
      [] row.status = "paid" ->
            IF ev \in {"refunded", "reversed"} THEN "refund" ELSE "ack"
      [] ev = "captured" -> IF row.review THEN "ack" ELSE "confirm"
      [] row.status = "pending" /\ ev \in {"failed", "reversed"} -> "fail"
      [] OTHER -> "ack"

ReceiveWebhook(w, o, ev) ==
    /\ task[w].pc = "idle" /\ "webhook" \in Roles[w]
    /\ ev \in Sent(o)
    /\ <<o, ev>> \notin events
    /\ LET p == orders[o].pay IN
         task' = [task EXCEPT ![w] =
                    [IdleTask EXCEPT !.p = p, !.o = o, !.ev = ev,
                       !.snap = Snap(payment[p]),
                       !.pc = WebhookBranch(payment[p], ev)]]
    /\ UNCHANGED <<payment, sub, fee, integration, orders, events, grants, faults>>

\* The verdict on an order NI reports as captured.  (Mutant: any amount will do.)
MutantAnyAmount(w, o) == "fulfil"
Verdict(w, o) ==
    IF orders[o].amt = payment[task[w].p].amt THEN "fulfil" ELSE "flag"

\* verifyNiOrderBeforeFulfilment, reading the order from NI.
ConfirmWithNi(w) ==
    /\ task[w].pc = "confirm"
    /\ LET o == VerifyRef(task[w]) IN
         \/ "success" \in NiClass(o) /\ Goto(w, Verdict(w, o))
         \/ NiClass(o) \ {"success"} # {} /\ Goto(w, "ack")
    /\ UNCHANGED <<payment, sub, fee, integration, orders, events, grants, faults>>

\* flagPaymentForReview
FlagForReview(w) ==
    /\ task[w].pc = "flag"
    /\ payment' = IF payment[task[w].p].status \in {"pending", "failed"}
                  THEN [payment EXCEPT ![task[w].p].review = TRUE]
                  ELSE payment
    /\ Finish(w)
    /\ UNCHANGED <<sub, fee, integration, orders, events, grants, faults>>

\* Whether the settled payment extends a subscription: not when the metadata
\* the handler has read says it already did.
Extends(t) == Kind[payment[t.p].ref] = "subscription" /\ ~t.snap.fulfilled

\* The row after processSuccessfulPayment; a subscription's metadata is the
\* snapshot plus subscriptionFulfilled.
PaidRow(t) ==
    [payment[t.p] EXCEPT !.status = "paid", !.tx = VerifyRef(t),
                         !.fulfilled = @ \/ Extends(t),
                         !.review = IF Extends(t) THEN t.snap.review ELSE @]

\* The guard of that transaction.  (Mutants: paid, or failed, rows pass too.)
MutantSettleAgain(p) == payment[p].status \in {"pending", "paid"}
MutantSettleFailed(p) == payment[p].status \in {"pending", "failed"}
MaySettle(p) == payment[p].status = "pending"

\* The subscription it leaves: renewDate is extended from its present value.
PaidSub(p) == [plan |-> payment[p].amt, renew |-> sub[payment[p].ref].renew + 1]

\* processSuccessfulPayment, one transaction.
ProcessSuccessfulPayment(w) ==
    /\ task[w].pc = "fulfil"
    /\ LET p == task[w].p
           r == payment[p].ref
       IN  IF ~MaySettle(p)
           THEN UNCHANGED <<payment, sub, fee, grants>>
           ELSE /\ payment' = [payment EXCEPT ![p] = PaidRow(task[w])]
                /\ sub' = IF Extends(task[w])
                          THEN [sub EXCEPT ![r] = PaidSub(p)] ELSE sub
                /\ fee' = IF Kind[r] = "listing_fee"
                          THEN [fee EXCEPT ![r].status = "paid"] ELSE fee
                /\ grants' = IF Extends(task[w]) \/ Kind[r] = "listing_fee"
                             THEN [grants EXCEPT ![p] = @ + 1] ELSE grants
    /\ Finish(w)
    /\ UNCHANGED <<integration, orders, events, faults>>

\* markPaymentFailedById
MarkFailed(w) ==
    /\ task[w].pc = "fail"
    /\ payment' = IF payment[task[w].p].status = "pending"
                  THEN [payment EXCEPT ![task[w].p].status = "failed"]
                  ELSE payment
    /\ Finish(w)
    /\ UNCHANGED <<sub, fee, integration, orders, events, grants, faults>>

\* markPaymentRefunded; the plan ends only if the SNAPSHOT says the payment
\* was fulfilled.
MarkRefunded(w) ==
    /\ task[w].pc = "refund"
    /\ LET t == task[w] IN
         IF payment[t.p].status \in {"paid", "pending", "failed"}
         THEN /\ payment' = [payment EXCEPT
                     ![t.p].status = "refunded",
                     ![t.p].fulfilled = @ \/ t.snap.fulfilled,
                     ![t.p].review = @ \/ t.snap.review]
              /\ Goto(w, IF t.snap.fulfilled THEN "readPlan" ELSE "ack")
         ELSE Goto(w, "ack") /\ UNCHANGED payment
    /\ UNCHANGED <<sub, fee, integration, orders, events, grants, faults>>

\* downgradeUser returns at once for a user whose plan is free already.
ReadPlan(w) ==
    /\ task[w].pc = "readPlan"
    /\ Goto(w, IF sub[payment[task[w].p].ref].plan = 0
               THEN "ack" ELSE "downgrade")
    /\ UNCHANGED <<payment, sub, fee, integration, orders, events, grants, faults>>

\* downgradeToFreeTx; renewDate is left as it is.
Downgrade(w) ==
    /\ task[w].pc = "downgrade"
    /\ sub' = [sub EXCEPT ![payment[task[w].p].ref].plan = 0]
    /\ Goto(w, "ack")
    /\ UNCHANGED <<payment, fee, integration, orders, events, grants, faults>>

\* markWebhookProcessed
Acknowledge(w) ==
    /\ task[w].pc = "ack"
    /\ events' = events \cup {<<task[w].o, task[w].ev>>}
    /\ Done(w)
    /\ UNCHANGED <<payment, sub, fee, integration, orders, grants, faults>>

-----------------------------------------------------------------------------
(* syncPaymentByOrderRef                                                   *)

SyncStart(w, p) ==
    /\ task[w].pc = "idle" /\ "sync" \in Roles[w]
    /\ payment[p].status \in {"pending", "failed"}
    /\ payment[p].tx # NoOrder
    /\ task' = [task EXCEPT ![w] =
                  [IdleTask EXCEPT !.p = p, !.snap = Snap(payment[p]),
                                   !.pc = "fetch"]]
    /\ UNCHANGED <<payment, sub, fee, integration, orders, events, grants, faults>>

\* Where a fetched order leads, given the row read before the fetch.  (Mutant:
\* a pending payment is left to its webhook.)
MutantLeavePending(w, c) ==
    IF c = "failed" /\ task[w].snap.status = "pending" THEN "fail" ELSE "idle"
SyncBranch(w, c) ==
    LET t == task[w] IN
    CASE t.snap.status \notin {"pending", "failed"} -> "idle"
      [] c = "success" /\ t.snap.review -> "idle"
      [] c = "success" -> Verdict(w, t.snap.tx)
      [] c = "failed" -> "fail"
      [] OTHER -> "idle"

SyncFetch(w, c) ==
    /\ task[w].pc = "fetch"
    /\ c \in NiClass(task[w].snap.tx)
    /\ IF SyncBranch(w, c) = "idle" THEN Done(w) ELSE Goto(w, SyncBranch(w, c))
    /\ UNCHANGED <<payment, sub, fee, integration, orders, events, grants, faults>>

-----------------------------------------------------------------------------
(* Faults, time, and NI.                                                   *)

\* The process dies, a statement throws, or NI cannot be reached: the handler
\* ends where it is.  A webhook's event stays unprocessed.
Abandon(w) ==
    /\ task[w].pc # "idle"
    /\ Fault
    /\ Done(w)
    /\ UNCHANGED <<payment, sub, fee, integration, orders, events, grants>>

NiMoves(o, from, to) ==
    /\ orders[o].state = from
    /\ orders' = [orders EXCEPT ![o].state = to,
                                ![o].cap = @ \/ to = "captured"]
    /\ UNCHANGED <<payment, sub, fee, integration, events, task, grants, faults>>

CustomerPays(o) == orders[o].shown /\ NiMoves(o, "open", "captured")
\* FAILED, DECLINED, CANCELLED, EXPIRED, or an authorisation reversed.
OrderFails(o) == NiMoves(o, "open", "failed")
OrderRefunded(o) == NiMoves(o, "captured", "refunded")
OrderReversed(o) == NiMoves(o, "captured", "reversed")

-----------------------------------------------------------------------------
\* The steps of a running handler that are not faults.
Progress(w) ==
    \/ DeclareSale(w) \/ (\E p \in PaymentIds : CreatePending(w, p))
    \/ (\E p \in PaymentIds : ReturnExisting(w, p)) \/ CreateRaced(w)
    \/ WaitForUrl(w) \/ VerifyCheckout(w) \/ RefreshRead(w) \/ RefreshWrite(w)
    \/ Archive(w) \/ (\E p \in PaymentIds : Recreate(w, p))
    \/ (\E o \in Orders, a \in Amounts : CreateCheckout(w, o, a))
    \/ StoreCheckout(w) \/ Resync(w)
    \/ ConfirmWithNi(w) \/ FlagForReview(w) \/ ProcessSuccessfulPayment(w)
    \/ MarkFailed(w) \/ MarkRefunded(w) \/ ReadPlan(w) \/ Downgrade(w)
    \/ Acknowledge(w)
    \/ (\E c \in {"success", "failed", "processing"} : SyncFetch(w, c))

Arrival(w) ==
    \/ \E r \in Refs, a \in Amounts : Initiate(w, r, a)
    \/ \E o \in Orders, ev \in EventKinds : ReceiveWebhook(w, o, ev)
    \/ \E p \in PaymentIds : SyncStart(w, p) \/ RetryCheckout(w, p)

FaultStep(w) ==
    \/ VerifyUnavailable(w) \/ CheckoutError(w) \/ Abandon(w)
    \/ \E o \in Orders, a \in Amounts : CreateCheckoutLost(w, o, a)

Environment ==
    \E o \in Orders : \/ CustomerPays(o) \/ OrderFails(o)
                      \/ OrderRefunded(o) \/ OrderReversed(o)

Next ==
    \/ \E w \in Workers : Progress(w) \/ Arrival(w) \/ FaultStep(w)
    \/ Environment

Spec == Init /\ [][Next]_vars

-----------------------------------------------------------------------------
(* Properties.                                                             *)

\* Every variable has its type.
TypeOK ==
    /\ payment \in [PaymentIds -> Row]
    /\ sub \in [Refs -> [plan : Amounts \cup {0}, renew : Nat]]
    /\ fee \in [Refs -> [status : {"pending", "paid"},
                        commission : Amounts \cup {0}]]
    /\ integration \in [PaymentIds -> Orders \cup {NoOrder}]
    /\ orders \in [Orders -> NiOrder]
    /\ events \subseteq Messages
    /\ task \in [Workers -> Task]
    /\ grants \in [PaymentIds -> Nat]
    /\ faults \in 0 .. MaxFaults

\* Order o belongs to payment p, asks for exactly its price, and was captured.
Covers(o, p) ==
    /\ orders[o].pay = p
    /\ orders[o].cap
    /\ orders[o].amt = payment[p].amt

\* A payment is only ever marked paid on the strength of an NI order of its
\* own that was captured for the full amount, whatever the handlers' snapshots
\* were and whichever of several NI orders was captured.
PaidMeansCaptured ==
    \A p \in PaymentIds : payment[p].status \in {"paid", "refunded"} =>
        \E o \in Orders : Covers(o, p)

\* The NI order stored with a payment carries that payment's own reference, so
\* the guard that reads the order by the stored UUID reads the right one.
StoredOrderIsOwn ==
    \A p \in PaymentIds : payment[p].tx # NoOrder =>
        orders[payment[p].tx].pay = p

\* However often webhook, sync and auto-sync race, the entitlement of a payment
\* is applied once, and exactly when the payment became paid.
GrantedOnce ==
    \A p \in PaymentIds :
        grants[p] = IF payment[p].status \in {"paid", "refunded"} THEN 1 ELSE 0

\* A reference never has two open checkouts.
OnePendingPerReference ==
    \A p, q \in PaymentIds :
        /\ payment[p].status = "pending" /\ payment[q].status = "pending"
        /\ payment[p].ref = payment[q].ref
        => p = q

\* A user holds no paid plan, no paid period and no settled fee that a captured
\* NI order for that price does not stand behind.
EntitlementIsCovered ==
    \A r \in Refs :
        LET covered == {p \in PaymentIds : payment[p].ref = r /\
                                           \E o \in Orders : Covers(o, p)}
        IN  /\ sub[r].plan # 0 => \E p \in covered : payment[p].amt = sub[r].plan
            /\ sub[r].renew <= Cardinality(covered)
            /\ fee[r].status = "paid" => covered # {}

\* A payment's status only moves forward: pending to paid or failed, paid to
\* refunded; failed and refunded are final, although markPaymentRefunded itself
\* accepts pending and failed rows.
Forward(from, to) ==
    \/ from = to
    \/ from = "none" /\ to = "pending"
    \/ from = "pending" /\ to \in {"paid", "failed"}
    \/ from = "paid" /\ to = "refunded"
StatusOnlyForward ==
    [][\A p \in PaymentIds : Forward(payment[p].status, payment'[p].status)]_vars

-----------------------------------------------------------------------------
(* The invariant that is inductive, in three parts.                        *)

Settled(p) == payment[p].status \in {"paid", "refunded"}

\* An NI order that exists is one of our payments'; captured means money came.
OrdersAreOurs ==
    \A o \in Orders :
        /\ orders[o].state = "none" => orders[o] = NoNiOrder
        /\ orders[o].state # "none" =>
              /\ orders[o].pay \in PaymentIds
              /\ payment[orders[o].pay].status # "none"
        /\ orders[o].state \in {"captured", "refunded", "reversed"} => orders[o].cap

\* Rows: unused ones are blank, and only a settled payment counts as fulfilled.
RowsAreSound ==
    \A p \in PaymentIds :
        /\ payment[p].status = "none" => payment[p] = NoRow
        /\ payment[p].status # "none" => payment[p].ref \in Refs
        /\ payment[p].fulfilled => Settled(p)
        /\ integration[p] # NoOrder => orders[integration[p]].pay = p

\* What a handler holds is still true of the tables when it acts on it.
TaskIsSound(t) ==
    /\ t.pc \in InitiatePcs \ {"checkout"} => t.r \in Refs
    /\ t.pc \notin {"idle", "declare", "create"} => t.p \in PaymentIds
    /\ t.p # NoPayment => payment[t.p].status # "none"
    /\ t.o # NoOrder => t.p \in PaymentIds /\ orders[t.o].pay = t.p
    /\ t.snap.tx # NoOrder => t.p \in PaymentIds /\ orders[t.snap.tx].pay = t.p
    /\ t.snap.fulfilled => t.p \in PaymentIds /\ Settled(t.p)
    /\ t.pc \in {"declare", "create"} => t.o = NoOrder
    /\ t.pc \in InitiatePcs => t.ev = NoEvent
    /\ t.pc \in {"refresh", "rewrite", "store", "resync"} => t.o # NoOrder
    /\ t.pc \in {"verify", "refresh", "rewrite", "resync"} /\ t.o # NoOrder =>
          payment[t.p].tx # NoOrder
    /\ t.pc = "fetch" => t.snap.tx # NoOrder
    /\ t.pc = "refund" => Settled(t.p)
    /\ t.pc = "fulfil" => VerifyRef(t) # NoOrder /\ Covers(VerifyRef(t), t.p)
    /\ t.pc \in WebhookPcs => t.ev # NoEvent
    /\ t.ev # NoEvent => t.o # NoOrder

\* At every step of every handler: what it read before an await and now acts on
\* (the stored order, the fulfilled mark, NI's verdict) still holds, whatever
\* the other handlers did meanwhile.
Inductive ==
    /\ OrdersAreOurs /\ RowsAreSound
    /\ \A w \in Workers : TaskIsSound(task[w])
    /\ PaidMeansCaptured /\ StoredOrderIsOwn /\ GrantedOnce
    /\ OnePendingPerReference

-----------------------------------------------------------------------------
(* The ledger this implements.                                             *)

Ledger == INSTANCE PaymentLedger WITH
    led <- [p \in PaymentIds |-> payment[p].status],
    funded <- {p \in PaymentIds : \E o \in Orders : Covers(o, p)},
    granted <- grants

\* Every step of the handlers is a step of the ledger or none at all.
ImplementsLedger == Ledger!LSpec

SettledOf(r) == {p \in PaymentIds : payment[p].ref = r /\ Settled(p)}
RefundedOf(r) ==
    {p \in PaymentIds : payment[p].ref = r /\ payment[p].status = "refunded"}

Reference == INSTANCE ReferencePayments WITH
    References <- Refs,
    opened <- {r \in Refs : PendingFor(r) # {}},
    paid <- [r \in Refs |-> Cardinality(SettledOf(r))],
    returned <- [r \in Refs |-> Cardinality(RefundedOf(r))]

\* What SubscriptionLifecycle takes of payments holds of them: one is open per
\* reference, and only the open one can settle, whichever handler got stale.
ImplementsReferencePayments == Reference!RSpec

-----------------------------------------------------------------------------
(* Liveness.                                                               *)

\* A running handler goes on; the 5-minute auto-sync keeps polling every
\* pending payment that has an NI order; NI does not hide a capture from it
\* for ever.  Nothing is assumed of webhook deliveries, users or customers.
AutoSync(p) == \E w \in Workers : SyncStart(w, p)
PollSeesCapture(p) ==
    \E w \in Workers : task[w].p = p /\ SyncFetch(w, "success")

FairSpec ==
    /\ Spec
    /\ \A w \in Workers : WF_vars(Progress(w) \/ CheckoutError(w))
    /\ \A p \in PaymentIds : SF_vars(AutoSync(p)) /\ SF_vars(PollSeesCapture(p))

\* Although every webhook may be lost, a pending payment whose stored order NI
\* has captured does not stay pending: it is settled, held for review, given
\* up as failed, or the money goes back.
CaptureIsSettled ==
    \A p \in PaymentIds, o \in Orders :
        (/\ payment[p].status = "pending" /\ payment[p].tx = o
         /\ orders[o].state = "captured")
        ~> (\/ payment[p].status # "pending" \/ payment[p].review
            \/ orders[o].state # "captured")

-----------------------------------------------------------------------------
(* Statements of the documentation the code does not keep.                 *)

Quiet == \A w \in Workers : task[w].pc = "idle"

\* payments.service.ts: a "capture after local failure ... must still
\* reconcile": when NI has confirmed the capture, the payment ends up paid.
CaptureReconciles ==
    [][\A w \in Workers :
          (/\ ProcessSuccessfulPayment(w)
           /\ orders[VerifyRef(task[w])].state = "captured") =>
              payment'[task[w].p].status \in {"paid", "refunded"}]_vars

\* refunds.md: a refund webhook marks the payment refunded.
RefundIsRecorded ==
    Quiet => \A p \in PaymentIds, o \in Orders :
        (payment[p].tx = o /\ <<o, "refunded">> \in events)
        => payment[p].status # "paid"
=============================================================================
