--------------------------- MODULE PaymentsProofs ---------------------------
(***************************************************************************)
(* What holds of Payments for every set of payments, orders, references    *)
(* and workers, and any number of faults: the type invariant, the safety   *)
(* invariants of the runs and the order of a payment's statuses.           *)
(*                                                                         *)
(* The argument.  IInv adds to the safety invariants what every handler    *)
(* holds (TaskIsSound) and the sanity of rows and orders.  A step is       *)
(* Kept-preserving: existing orders keep reference, amount and capture,    *)
(* existing rows keep reference and amount and stay settled, so what the   *)
(* OTHER handlers hold stays true (TaskKept); what remains per action is   *)
(* the row it writes and the task of its own worker.                       *)
(***************************************************************************)
EXTENDS Payments, TLAPS

IInv == TypeOK /\ Inductive

-----------------------------------------------------------------------------
(* Types.                                                                  *)

LEMMA GotoType ==
  ASSUME task \in [Workers -> Task], NEW w \in Workers, NEW pc \in Pcs, Goto(w, pc)
  PROVE  task' \in [Workers -> Task]
  BY DEF Goto, Task

LEMMA DoneType ==
  ASSUME task \in [Workers -> Task], NEW w \in Workers, Done(w)
  PROVE  task' \in [Workers -> Task]
  BY DEF Done, Task, IdleTask, Snapshot, Snap, NoRow, Pcs, Statuses

LEMMA IdleIsTask == IdleTask \in Task
  BY DEF Task, IdleTask, Snapshot, Snap, NoRow, Pcs, Statuses

LEMMA SnapType ==
  ASSUME NEW row \in Row
  PROVE  Snap(row) \in Snapshot
  BY DEF Row, Snap, Snapshot

\* A handler's task replaced by a well-typed one.
LEMMA TaskReplaced ==
  ASSUME task \in [Workers -> Task], NEW w \in Workers, NEW t \in Task,
         task' = [task EXCEPT ![w] = t]
  PROVE  task' \in [Workers -> Task]
  OBVIOUS

\* ... or with a new snapshot and program counter, and perhaps order and row.
LEMMA TaskSnapped ==
  ASSUME task \in [Workers -> Task], NEW w \in Workers, NEW sn \in Snapshot,
         NEW pc \in Pcs, NEW o \in Orders \cup {NoOrder},
         NEW p \in PaymentIds \cup {NoPayment}
  PROVE  /\ [task EXCEPT ![w].snap = sn, ![w].pc = pc] \in [Workers -> Task]
         /\ [task EXCEPT ![w].snap = sn, ![w].o = o, ![w].pc = pc]
               \in [Workers -> Task]
         /\ [task EXCEPT ![w].p = p, ![w].snap = sn, ![w].o = o, ![w].pc = pc]
               \in [Workers -> Task]
  <1>1. /\ [task[w] EXCEPT !.snap = sn, !.pc = pc] \in Task
        /\ [task[w] EXCEPT !.snap = sn, !.o = o, !.pc = pc] \in Task
        /\ [task[w] EXCEPT !.p = p, !.snap = sn, !.o = o, !.pc = pc] \in Task
    BY DEF Task
  <1>2. [task EXCEPT ![w].snap = sn, ![w].pc = pc] =
        [task EXCEPT ![w] = [task[w] EXCEPT !.snap = sn, !.pc = pc]]
    BY DEF Task
  <1>3. [task EXCEPT ![w].snap = sn, ![w].o = o, ![w].pc = pc] =
        [task EXCEPT ![w] = [task[w] EXCEPT !.snap = sn, !.o = o, !.pc = pc]]
    BY DEF Task
  <1>4. [task EXCEPT ![w].p = p, ![w].snap = sn, ![w].o = o, ![w].pc = pc] =
        [task EXCEPT ![w] = [task[w] EXCEPT !.p = p, !.snap = sn, !.o = o, !.pc = pc]]
    BY DEF Task
  <1> QED BY <1>1, <1>2, <1>3, <1>4

LEMMA RowReplaced ==
  ASSUME payment \in [PaymentIds -> Row], NEW p, NEW row \in Row,
         payment' = [payment EXCEPT ![p] = row]
  PROVE  payment' \in [PaymentIds -> Row]
  OBVIOUS

LEMMA StatusWritten ==
  ASSUME payment \in [PaymentIds -> Row], NEW p, NEW s \in Statuses,
         payment' = [payment EXCEPT ![p].status = s]
  PROVE  payment' \in [PaymentIds -> Row]
  BY DEF Row

LEMMA OrderShown ==
  ASSUME orders \in [Orders -> NiOrder], NEW o
  PROVE  [orders EXCEPT ![o].shown = TRUE] \in [Orders -> NiOrder]
  BY DEF NiOrder

LEMMA PcNames ==
  /\ InitiatePcs \subseteq Pcs
  /\ WebhookPcs \subseteq Pcs
  /\ SharedPcs \subseteq Pcs
  BY DEF Pcs

\* A handler that has a payment in hand holds an existing row.
LEMMA TaskRow ==
  ASSUME IInv, NEW w \in Workers, task[w].pc \notin {"idle", "declare", "create"}
  PROVE  /\ task[w].p \in PaymentIds
         /\ payment[task[w].p] \in Row
         /\ payment[task[w].p].status # "none"
         /\ payment[task[w].p].ref \in Refs
  <1>1. TaskIsSound(task[w]) /\ RowsAreSound BY DEF IInv, Inductive
  <1>2. task[w].p \in PaymentIds BY <1>1 DEF TaskIsSound
  <1>3. task[w].p # NoPayment BY <1>2, IdsAssumption
  <1>4. payment[task[w].p].status # "none" BY <1>1, <1>3 DEF TaskIsSound
  <1> QED BY <1>1, <1>2, <1>4 DEF RowsAreSound, IInv, TypeOK

LEMMA FieldTypes ==
  ASSUME IInv, NEW w \in Workers
  PROVE  /\ task[w] \in Task
         /\ task[w].pc \in Pcs
         /\ task[w].r \in Refs \cup {NoRef}
         /\ task[w].amt \in Amounts \cup {0}
         /\ task[w].p \in PaymentIds \cup {NoPayment}
         /\ task[w].o \in Orders \cup {NoOrder}
         /\ task[w].ev \in EventKinds \cup {NoEvent}
         /\ task[w].snap \in Snapshot
         /\ task[w].snap.tx \in Orders \cup {NoOrder}
         /\ task[w].snap.fulfilled \in BOOLEAN
         /\ task[w].snap.review \in BOOLEAN
  <1>1. task[w] \in Task BY DEF IInv, TypeOK
  <1>2. task[w].snap \in Snapshot BY <1>1 DEF Task
  <1> QED BY <1>1, <1>2 DEF Task, Snapshot

\* The steps that write nothing but the worker's own task.
QuietStep(w) ==
    \/ \E r \in Refs, a \in Amounts : Initiate(w, r, a)
    \/ \E p \in PaymentIds : ReturnExisting(w, p) \/ SyncStart(w, p)
    \/ CreateRaced(w) \/ WaitForUrl(w) \/ VerifyCheckout(w)
    \/ RefreshRead(w) \/ Resync(w) \/ ConfirmWithNi(w) \/ ReadPlan(w)
    \/ \E o \in Orders, ev \in EventKinds : ReceiveWebhook(w, o, ev)
    \/ \E c \in {"success", "failed", "processing"} : SyncFetch(w, c)

LEMMA QuietType ==
  ASSUME IInv, NEW w \in Workers, QuietStep(w)
  PROVE  task' \in [Workers -> Task]
  <1>0. task \in [Workers -> Task] BY DEF IInv, TypeOK
  <1>1. ASSUME NEW r \in Refs, NEW a \in Amounts, Initiate(w, r, a)
        PROVE  task' \in [Workers -> Task]
    <2> DEFINE t == [IdleTask EXCEPT !.r = r, !.amt = a,
                       !.pc = IF Kind[r] = "listing_fee"
                              THEN "declare" ELSE "create"]
    <2>1. {"declare", "create"} \subseteq Pcs BY DEF Pcs, InitiatePcs
    <2>3. t \in Task BY <2>1, IdleIsTask DEF Task
    <2>2. task' = [task EXCEPT ![w] = t] BY <1>1 DEF Initiate
    <2> QED BY <1>0, <2>2, <2>3, TaskReplaced
  <1>2. ASSUME NEW p \in PaymentIds, ReturnExisting(w, p)
        PROVE  task' \in [Workers -> Task]
    <2>1. /\ Snap(payment[p]) \in Snapshot
          /\ payment[p].tx \in Orders \cup {NoOrder}
      BY SnapType DEF IInv, TypeOK, Row
    <2>2. (IF payment[p].url THEN "verify" ELSE "wait") \in Pcs
      BY DEF Pcs, InitiatePcs
    <2>3. task' = [task EXCEPT ![w].p = p, ![w].snap = Snap(payment[p]),
                  ![w].o = payment[p].tx,
                  ![w].pc = IF payment[p].url THEN "verify" ELSE "wait"]
      BY <1>2 DEF ReturnExisting
    <2> QED BY <1>0, <2>1, <2>2, <2>3, TaskSnapped
  <1>3. ASSUME NEW p \in PaymentIds, SyncStart(w, p)
        PROVE  task' \in [Workers -> Task]
    <2> DEFINE t == [IdleTask EXCEPT !.p = p, !.snap = Snap(payment[p]),
                                     !.pc = "fetch"]
    <2>1. Snap(payment[p]) \in Snapshot BY SnapType DEF IInv, TypeOK
    <2>2. t \in Task BY <2>1, IdleIsTask DEF Task, Pcs, SharedPcs
    <2>3. task' = [task EXCEPT ![w] = t] BY <1>3 DEF SyncStart
    <2> QED BY <1>0, <2>2, <2>3, TaskReplaced
  <1>4. CASE CreateRaced(w) BY <1>0, <1>4, DoneType DEF CreateRaced
  <1>5. CASE WaitForUrl(w)
    <2> DEFINE row == payment[task[w].p]
    <2>1. row \in Row BY <1>5, TaskRow DEF WaitForUrl
    <2>2. CASE Done(w) BY <1>0, <2>2, DoneType
    <2>3. CASE Goto(w, "archive")
      BY <1>0, <2>3, GotoType DEF Pcs, InitiatePcs
    <2>4. CASE task' = [task EXCEPT ![w].snap = Snap(row), ![w].o = row.tx,
                                    ![w].pc = "verify"]
      <3>1. Snap(row) \in Snapshot /\ row.tx \in Orders \cup {NoOrder}
        BY <2>1, SnapType DEF Row
      <3>2. "verify" \in Pcs BY DEF Pcs, InitiatePcs
      <3> QED BY <1>0, <2>4, <3>1, <3>2, TaskSnapped
    <2> QED BY <1>5, <2>2, <2>3, <2>4 DEF WaitForUrl
  <1>6. CASE VerifyCheckout(w)
    <2>1. {"archive", "resync", "refresh"} \subseteq Pcs BY DEF Pcs, InitiatePcs
    <2> QED BY <1>0, <1>6, <2>1, GotoType, DoneType DEF VerifyCheckout
  <1>7. CASE RefreshRead(w) \/ Resync(w)
    <2>1. Snap(payment[task[w].p]) \in Snapshot
      BY <1>7, TaskRow, SnapType DEF RefreshRead, Resync
    <2>2. {"rewrite", "fetch"} \subseteq Pcs BY DEF Pcs, InitiatePcs, SharedPcs
    <2>3. PICK pc \in Pcs : task' = [task EXCEPT
              ![w].snap = Snap(payment[task[w].p]), ![w].pc = pc]
      BY <1>7, <2>2 DEF RefreshRead, Resync
    <2> QED BY <1>0, <2>1, <2>3, TaskSnapped
  <1>8. CASE ConfirmWithNi(w)
    <2>1. {"fulfil", "flag", "ack"} \subseteq Pcs BY DEF Pcs, WebhookPcs, SharedPcs
    <2> QED BY <1>0, <1>8, <2>1, GotoType DEF ConfirmWithNi, Verdict
  <1>9. CASE ReadPlan(w)
    <2>1. {"ack", "downgrade"} \subseteq Pcs BY DEF Pcs, WebhookPcs
    <2> QED BY <1>0, <1>9, <2>1, GotoType DEF ReadPlan
  <1>10. ASSUME NEW o \in Orders, NEW ev \in EventKinds, ReceiveWebhook(w, o, ev)
         PROVE  task' \in [Workers -> Task]
    <2> DEFINE p == orders[o].pay
               t == [IdleTask EXCEPT !.p = p, !.o = o, !.ev = ev,
                       !.snap = Snap(payment[p]),
                       !.pc = WebhookBranch(payment[p], ev)]
    <2>1. p \in PaymentIds BY <1>10 DEF ReceiveWebhook, IInv, TypeOK, Inductive,
                                        OrdersAreOurs, Sent, NoNiOrder, EventKinds
    <2>2. Snap(payment[p]) \in Snapshot BY <2>1, SnapType DEF IInv, TypeOK
    <2>3. WebhookBranch(payment[p], ev) \in Pcs
      BY DEF WebhookBranch, Pcs, WebhookPcs, SharedPcs
    <2>4. t \in Task BY <2>1, <2>2, <2>3, IdleIsTask DEF Task
    <2>5. task' = [task EXCEPT ![w] = t] BY <1>10 DEF ReceiveWebhook
    <2> QED BY <1>0, <2>4, <2>5, TaskReplaced
  <1>11. ASSUME NEW c \in {"success", "failed", "processing"}, SyncFetch(w, c)
         PROVE  task' \in [Workers -> Task]
    <2>1. SyncBranch(w, c) \in Pcs BY DEF SyncBranch, Verdict, Pcs, SharedPcs
    <2> QED BY <1>0, <1>11, <2>1, GotoType, DoneType DEF SyncFetch
  <1> QED BY <1>1, <1>2, <1>3, <1>4, <1>5, <1>6, <1>7, <1>8, <1>9, <1>10, <1>11
          DEF QuietStep

-----------------------------------------------------------------------------
(* Types: the steps that write the tables.                                 *)

LEMMA DeclareSaleType ==
  ASSUME IInv, NEW w \in Workers, DeclareSale(w)
  PROVE  TypeOK'
  <1>1. "create" \in Pcs BY DEF Pcs, InitiatePcs
  <1>2. task' \in [Workers -> Task]
    BY <1>1, GotoType DEF DeclareSale, IInv, TypeOK
  <1>3. task[w].amt \in Amounts \cup {0} BY FieldTypes
  <1>4. fee' \in [Refs -> [status : {"pending", "paid"},
                          commission : Amounts \cup {0}]]
    BY <1>3 DEF DeclareSale, IInv, TypeOK
  <1> QED BY <1>2, <1>4 DEF DeclareSale, IInv, TypeOK

LEMMA InsertType ==
  ASSUME IInv, NEW w \in Workers, NEW p \in PaymentIds, NEW again \in BOOLEAN,
         task[w].pc \in {"create", "recreate"}, InsertPending(w, p, again)
  PROVE  /\ payment' \in [PaymentIds -> Row]
         /\ task' \in [Workers -> Task]
         /\ task[w].r \in Refs
  <1>1. task[w].r \in Refs BY DEF IInv, Inductive, TaskIsSound, InitiatePcs
  <1>2. NewRow(w) \in Row
    BY <1>1, FieldTypes DEF NewRow, NoRow, Row, Statuses
  <1>3. payment' \in [PaymentIds -> Row]
    BY <1>2, RowReplaced DEF InsertPending, IInv, TypeOK
  <1> DEFINE t == [IdleTask EXCEPT !.pc = "checkout", !.r = task[w].r,
                                   !.p = p, !.again = again]
  <1>4. "checkout" \in Pcs BY DEF Pcs, InitiatePcs
  <1>5. t \in Task BY <1>1, <1>4, IdleIsTask DEF Task
  <1>6. task' \in [Workers -> Task]
    BY <1>5, TaskReplaced DEF InsertPending, IInv, TypeOK
  <1> QED BY <1>1, <1>3, <1>6

LEMMA CreateType ==
  ASSUME IInv, NEW w \in Workers, NEW p \in PaymentIds,
         CreatePending(w, p) \/ Recreate(w, p)
  PROVE  TypeOK'
  <1>1. CASE CreatePending(w, p)
    BY <1>1, InsertType DEF CreatePending, IInv, TypeOK
  <1>2. CASE Recreate(w, p)
    BY <1>2, InsertType DEF Recreate, IInv, TypeOK
  <1> QED BY <1>1, <1>2

LEMMA RefreshWriteType ==
  ASSUME IInv, NEW w \in Workers, RefreshWrite(w)
  PROVE  TypeOK'
  <1> DEFINE t == task[w]
  <1>1. t.p \in PaymentIds /\ payment[t.p] \in Row
    BY TaskRow DEF RefreshWrite
  <1>2. /\ t.o \in Orders \cup {NoOrder}
        /\ t.snap.fulfilled \in BOOLEAN /\ t.snap.review \in BOOLEAN
    BY FieldTypes
  <1>3. payment' = [payment EXCEPT ![t.p].tx = t.o, ![t.p].url = TRUE,
                      ![t.p].fulfilled = t.snap.fulfilled,
                      ![t.p].review = t.snap.review]
    BY DEF RefreshWrite
  <1>4. payment \in [PaymentIds -> Row] BY DEF IInv, TypeOK
  <1> HIDE DEF t
  <1>5. payment' \in [PaymentIds -> Row] BY <1>1, <1>2, <1>3, <1>4 DEF Row
  <1>6. task' \in [Workers -> Task]
    BY DoneType DEF RefreshWrite, IInv, TypeOK
  <1> QED BY <1>5, <1>6 DEF RefreshWrite, IInv, TypeOK

LEMMA FailingType ==
  ASSUME IInv, NEW w \in Workers, Archive(w) \/ MarkFailed(w) \/ CheckoutError(w)
  PROVE  TypeOK'
  <1>1. payment \in [PaymentIds -> Row] /\ task \in [Workers -> Task]
    BY DEF IInv, TypeOK
  <1>2. "failed" \in Statuses BY DEF Statuses
  <1>3. payment' = payment \/ payment' = [payment EXCEPT ![task[w].p].status = "failed"]
    BY DEF Archive, MarkFailed, CheckoutError
  <1>4. payment' \in [PaymentIds -> Row] BY <1>1, <1>2, <1>3, StatusWritten
  <1>5. {"recreate", "ack"} \subseteq Pcs BY DEF Pcs, InitiatePcs, WebhookPcs
  <1>6. task' \in [Workers -> Task]
    BY <1>1, <1>5, GotoType, DoneType DEF Archive, MarkFailed, CheckoutError, Finish
  <1>7. faults' \in 0 .. MaxFaults
    BY MaxFaultsAssumption
    DEF Archive, MarkFailed, CheckoutError, Fault, IInv, TypeOK
  <1> QED BY <1>4, <1>6, <1>7 DEF Archive, MarkFailed, CheckoutError, IInv, TypeOK

LEMMA CreateCheckoutType ==
  ASSUME IInv, NEW w \in Workers, NEW o \in Orders, NEW a \in Amounts,
         CreateCheckout(w, o, a) \/ CreateCheckoutLost(w, o, a)
  PROVE  TypeOK'
  <1>1. task[w].p \in PaymentIds
    BY TaskRow DEF CreateCheckout, CreateCheckoutLost, RegisterOrder
  <1>2. PICK shown \in BOOLEAN : orders' = [orders EXCEPT ![o] =
                    [state |-> "open", pay |-> task[w].p, amt |-> a,
                     shown |-> shown, cap |-> FALSE]]
    BY DEF CreateCheckout, CreateCheckoutLost, RegisterOrder
  <1>3. orders' \in [Orders -> NiOrder]
    BY <1>1, <1>2 DEF IInv, TypeOK, NiOrder, OrderStates
  <1>4. "store" \in Pcs BY DEF Pcs, InitiatePcs
  <1>5. task' \in [Workers -> Task]
    <2>1. CASE CreateCheckout(w, o, a) /\ task[w].r = NoRef
      BY <2>1, DoneType DEF CreateCheckout, IInv, TypeOK
    <2>2. CASE CreateCheckout(w, o, a) /\ task[w].r # NoRef
      <3>1. task \in [Workers -> Task] BY DEF IInv, TypeOK
      <3>2. task' = [task EXCEPT ![w].o = o, ![w].pc = "store"]
        BY <2>2 DEF CreateCheckout
      <3> QED BY <1>4, <3>1, <3>2 DEF Task
    <2>3. CASE CreateCheckoutLost(w, o, a)
      BY <2>3 DEF CreateCheckoutLost, IInv, TypeOK
    <2> QED BY <2>1, <2>2, <2>3
  <1>6. integration' \in [PaymentIds -> Orders \cup {NoOrder}]
    <2>1. CASE CreateCheckout(w, o, a)
      BY <2>1 DEF CreateCheckout, IInv, TypeOK
    <2>2. CASE CreateCheckoutLost(w, o, a)
      BY <2>2 DEF CreateCheckoutLost, IInv, TypeOK
    <2> QED BY <2>1, <2>2
  <1>7. faults' \in 0 .. MaxFaults
    <2>1. faults' = faults \/ Fault BY DEF CreateCheckout, CreateCheckoutLost
    <2> QED BY <2>1, MaxFaultsAssumption DEF Fault, IInv, TypeOK
  <1> QED BY <1>3, <1>5, <1>6, <1>7 DEF CreateCheckout, CreateCheckoutLost, IInv, TypeOK

LEMMA StoreCheckoutType ==
  ASSUME IInv, NEW w \in Workers, StoreCheckout(w)
  PROVE  TypeOK'
  <1>1. task[w].p \in PaymentIds /\ payment[task[w].p] \in Row
    BY TaskRow DEF StoreCheckout
  <1>2. StoredRow(task[w]) \in Row
    BY <1>1, FieldTypes DEF StoredRow, Row
  <1>3. payment' \in [PaymentIds -> Row]
    BY <1>2, RowReplaced DEF StoreCheckout, IInv, TypeOK
  <1>4. orders' \in [Orders -> NiOrder]
    BY OrderShown DEF StoreCheckout, IInv, TypeOK
  <1>5. task' \in [Workers -> Task]
    BY DoneType DEF StoreCheckout, IInv, TypeOK
  <1> QED BY <1>3, <1>4, <1>5 DEF StoreCheckout, IInv, TypeOK

LEMMA RetryType ==
  ASSUME IInv, NEW w \in Workers, NEW p \in PaymentIds, RetryCheckout(w, p)
  PROVE  TypeOK'
  <1> DEFINE t == [IdleTask EXCEPT !.p = p, !.pc = "checkout"]
  <1>1. "checkout" \in Pcs BY DEF Pcs, InitiatePcs
  <1>2. t \in Task BY <1>1, IdleIsTask DEF Task
  <1>3. task' = task \/ task' = [task EXCEPT ![w] = t] BY DEF RetryCheckout
  <1>4. task' \in [Workers -> Task] BY <1>2, <1>3, TaskReplaced DEF IInv, TypeOK
  <1>5. orders' \in [Orders -> NiOrder]
    BY OrderShown DEF RetryCheckout, IInv, TypeOK
  <1> QED BY <1>4, <1>5 DEF RetryCheckout, IInv, TypeOK

LEMMA ReviewType ==
  ASSUME IInv, NEW w \in Workers, FlagForReview(w)
  PROVE  TypeOK'
  <1>1. payment \in [PaymentIds -> Row] /\ task \in [Workers -> Task]
    BY DEF IInv, TypeOK
  <1>2. payment' \in [PaymentIds -> Row] BY <1>1 DEF FlagForReview, Row
  <1>3. "ack" \in Pcs BY DEF Pcs, WebhookPcs
  <1>4. task' \in [Workers -> Task]
    BY <1>1, <1>3, GotoType, DoneType DEF FlagForReview, Finish
  <1> QED BY <1>2, <1>4 DEF FlagForReview, IInv, TypeOK

\* A worker about to settle a payment holds an NI order.
LEMMA FulfilOrder ==
  ASSUME IInv, NEW w \in Workers, task[w].pc = "fulfil"
  PROVE  /\ VerifyRef(task[w]) \in Orders
         /\ Covers(VerifyRef(task[w]), task[w].p)
  <1>1. TaskIsSound(task[w]) BY DEF IInv, Inductive
  <1> QED BY <1>1, FieldTypes DEF TaskIsSound, VerifyRef

LEMMA SettleType ==
  ASSUME IInv, NEW w \in Workers, ProcessSuccessfulPayment(w)
  PROVE  TypeOK'
  <1> DEFINE t == task[w]
             p == t.p
             r == payment[p].ref
  <1>1. p \in PaymentIds /\ payment[p] \in Row /\ r \in Refs
    BY TaskRow DEF ProcessSuccessfulPayment
  <1>2. task' \in [Workers -> Task]
    <2>1. "ack" \in Pcs BY DEF Pcs, WebhookPcs
    <2> QED BY <2>1, GotoType, DoneType
            DEF ProcessSuccessfulPayment, Finish, IInv, TypeOK
  <1>3. CASE ~MaySettle(p)
    BY <1>2, <1>3 DEF ProcessSuccessfulPayment, IInv, TypeOK
  <1>4. CASE MaySettle(p)
    <2>1. VerifyRef(t) \in Orders BY FulfilOrder DEF ProcessSuccessfulPayment
    <2>2. Extends(t) \in BOOLEAN BY FieldTypes DEF Extends
    <2>3. PaidRow(t) \in Row
      BY <1>1, <2>1, <2>2, FieldTypes DEF PaidRow, Row, Statuses
    <2>4. payment' = [payment EXCEPT ![p] = PaidRow(t)]
      BY <1>4 DEF ProcessSuccessfulPayment
    <2>5. payment' \in [PaymentIds -> Row]
      BY <2>3, <2>4, RowReplaced DEF IInv, TypeOK
    <2>6. PaidSub(p) \in [plan : Amounts \cup {0}, renew : Nat]
      BY <1>1 DEF PaidSub, IInv, TypeOK, Row
    <2>7. sub' \in [Refs -> [plan : Amounts \cup {0}, renew : Nat]]
      <3>1. sub' = sub \/ sub' = [sub EXCEPT ![r] = PaidSub(p)]
        BY <1>4 DEF ProcessSuccessfulPayment
      <3> QED BY <1>1, <2>6, <3>1 DEF IInv, TypeOK
    <2>8. fee' \in [Refs -> [status : {"pending", "paid"},
                            commission : Amounts \cup {0}]]
      <3>1. fee' = fee \/ fee' = [fee EXCEPT ![r].status = "paid"]
        BY <1>4 DEF ProcessSuccessfulPayment
      <3>2. fee \in [Refs -> [status : {"pending", "paid"},
                              commission : Amounts \cup {0}]]
        BY DEF IInv, TypeOK
      <3> QED BY <1>1, <3>1, <3>2
    <2>9. grants' \in [PaymentIds -> Nat]
      <3>1. grants' = grants \/ grants' = [grants EXCEPT ![p] = @ + 1]
        BY <1>4 DEF ProcessSuccessfulPayment
      <3> QED BY <1>1, <3>1 DEF IInv, TypeOK
    <2> QED BY <1>2, <2>5, <2>7, <2>8, <2>9
            DEF ProcessSuccessfulPayment, IInv, TypeOK
  <1> QED BY <1>3, <1>4

LEMMA RefundType ==
  ASSUME IInv, NEW w \in Workers, MarkRefunded(w)
  PROVE  TypeOK'
  <1> DEFINE t == task[w]
  <1>1. payment \in [PaymentIds -> Row] /\ task \in [Workers -> Task]
    BY DEF IInv, TypeOK
  <1>2. t.p \in PaymentIds /\ payment[t.p] \in Row BY TaskRow DEF MarkRefunded
  <1>3. t.snap.fulfilled \in BOOLEAN /\ t.snap.review \in BOOLEAN BY FieldTypes
  <1>4. payment' \in [PaymentIds -> Row]
    <2>1. CASE payment[t.p].status \in {"paid", "pending", "failed"}
      <3>1. payment' = [payment EXCEPT
                     ![t.p].status = "refunded",
                     ![t.p].fulfilled = @ \/ t.snap.fulfilled,
                     ![t.p].review = @ \/ t.snap.review]
        BY <2>1 DEF MarkRefunded
      <3>2. "refunded" \in Statuses BY DEF Statuses
      <3> HIDE DEF t
      <3> QED BY <1>1, <1>2, <1>3, <3>1, <3>2 DEF Row
    <2>2. CASE payment[t.p].status \notin {"paid", "pending", "failed"}
      BY <1>1, <2>2 DEF MarkRefunded
    <2> QED BY <2>1, <2>2
  <1>5. {"readPlan", "ack"} \subseteq Pcs BY DEF Pcs, WebhookPcs
  <1>6. task' \in [Workers -> Task] BY <1>1, <1>5, GotoType DEF MarkRefunded
  <1> QED BY <1>4, <1>6 DEF MarkRefunded, IInv, TypeOK

LEMMA DowngradeType ==
  ASSUME IInv, NEW w \in Workers, Downgrade(w)
  PROVE  TypeOK'
  <1>1. "ack" \in Pcs BY DEF Pcs, WebhookPcs
  <1>2. task' \in [Workers -> Task]
    BY <1>1, GotoType DEF Downgrade, IInv, TypeOK
  <1>3. sub' \in [Refs -> [plan : Amounts \cup {0}, renew : Nat]]
    BY DEF Downgrade, IInv, TypeOK
  <1> QED BY <1>2, <1>3 DEF Downgrade, IInv, TypeOK

LEMMA AckType ==
  ASSUME IInv, NEW w \in Workers, Acknowledge(w)
  PROVE  TypeOK'
  <1>1. task' \in [Workers -> Task]
    BY DoneType DEF Acknowledge, IInv, TypeOK
  <1>2. TaskIsSound(task[w]) BY DEF IInv, Inductive
  <1>3. task[w].o \in Orders /\ task[w].ev \in EventKinds
    BY <1>2, FieldTypes DEF Acknowledge, TaskIsSound, WebhookPcs
  <1>4. events' \subseteq Messages
    BY <1>3 DEF Acknowledge, IInv, TypeOK, Messages
  <1> QED BY <1>1, <1>4 DEF Acknowledge, IInv, TypeOK

LEMMA FaultType ==
  ASSUME IInv, NEW w \in Workers, VerifyUnavailable(w) \/ Abandon(w)
  PROVE  TypeOK'
  <1>1. "archive" \in Pcs BY DEF Pcs, InitiatePcs
  <1>2. task' \in [Workers -> Task]
    BY <1>1, GotoType, DoneType DEF VerifyUnavailable, Abandon, IInv, TypeOK
  <1>3. faults' \in 0 .. MaxFaults
    BY MaxFaultsAssumption DEF VerifyUnavailable, Abandon, Fault, IInv, TypeOK
  <1> QED BY <1>2, <1>3 DEF VerifyUnavailable, Abandon, IInv, TypeOK

LEMMA NiType ==
  ASSUME IInv, Environment
  PROVE  TypeOK'
  <1>1. PICK o \in Orders, to \in OrderStates :
          orders' = [orders EXCEPT ![o].state = to, ![o].cap = @ \/ to = "captured"]
    BY DEF Environment, CustomerPays, OrderFails, OrderRefunded, OrderReversed,
           NiMoves, OrderStates
  <1>2. orders' \in [Orders -> NiOrder]
    BY <1>1 DEF IInv, TypeOK, NiOrder
  <1> QED BY <1>2 DEF Environment, CustomerPays, OrderFails, OrderRefunded,
                      OrderReversed, NiMoves, IInv, TypeOK

LEMMA TypeStep ==
  ASSUME IInv, [Next]_vars
  PROVE  TypeOK'
  <1>1. CASE UNCHANGED vars BY <1>1 DEF vars, IInv, TypeOK
  <1>2. ASSUME NEW w \in Workers, QuietStep(w)
        PROVE  TypeOK'
    <2>1. task' \in [Workers -> Task] BY <1>2, QuietType
    <2>2. UNCHANGED <<payment, sub, fee, integration, orders, events, grants, faults>>
      BY <1>2 DEF QuietStep, Initiate, ReturnExisting, SyncStart, CreateRaced,
                  WaitForUrl, VerifyCheckout, RefreshRead, Resync, ConfirmWithNi,
                  ReadPlan, ReceiveWebhook, SyncFetch
    <2> QED BY <2>1, <2>2 DEF IInv, TypeOK
  <1>3. ASSUME NEW w \in Workers, Progress(w) \/ Arrival(w) \/ FaultStep(w),
               ~QuietStep(w)
        PROVE  TypeOK'
    BY <1>3, DeclareSaleType, CreateType, RefreshWriteType, FailingType,
       CreateCheckoutType, StoreCheckoutType, RetryType, ReviewType, SettleType,
       RefundType, DowngradeType, AckType, FaultType
    DEF Progress, Arrival, FaultStep, QuietStep
  <1> QED BY <1>1, <1>2, <1>3, NiType DEF Next

-----------------------------------------------------------------------------
(* What a step keeps of the orders and rows that exist.                    *)

OrdersKept ==
    \A o \in Orders : orders[o].state # "none" =>
        /\ orders'[o].state # "none"
        /\ orders'[o].pay = orders[o].pay
        /\ orders'[o].amt = orders[o].amt
        /\ orders[o].cap => orders'[o].cap

RowsKept ==
    \A p \in PaymentIds : payment[p].status # "none" =>
        /\ payment'[p].status # "none"
        /\ payment'[p].ref = payment[p].ref
        /\ payment'[p].amt = payment[p].amt
        /\ payment[p].tx # NoOrder => payment'[p].tx # NoOrder
        /\ payment[p].status \in {"paid", "refunded"} =>
              payment'[p].status \in {"paid", "refunded"}

Kept == OrdersKept /\ RowsKept

LEMMA OwnedOrder ==
  ASSUME IInv, NEW o \in Orders, orders[o].state # "none" \/ orders[o].cap
                                 \/ orders[o].pay \in PaymentIds
  PROVE  /\ orders[o].state # "none"
         /\ orders[o].pay \in PaymentIds
         /\ payment[orders[o].pay].status # "none"
  <1>1. orders[o].state = "none" => orders[o] = NoNiOrder
    BY DEF IInv, Inductive, OrdersAreOurs
  <1>2. orders[o].state # "none" BY <1>1, IdsAssumption DEF NoNiOrder
  <1> QED BY <1>2 DEF IInv, Inductive, OrdersAreOurs

LEMMA CoversKept ==
  ASSUME IInv, Kept, NEW o \in Orders, NEW p \in PaymentIds, Covers(o, p)
  PROVE  Covers(o, p)'
  <1>1. orders[o].state # "none" /\ payment[p].status # "none"
    BY OwnedOrder DEF Covers
  <1> QED BY <1>1 DEF Kept, OrdersKept, RowsKept, Covers

\* What an idle handler holds is nothing.
LEMMA IdleSound ==
  ASSUME NEW t, t = IdleTask
  PROVE  TaskIsSound(t)'
  BY IdsAssumption DEF TaskIsSound, IdleTask, Snap, NoRow, InitiatePcs, WebhookPcs

\* What does not depend on where the handler stands.
LEMMA HeldKept ==
  ASSUME IInv, Kept, NEW w \in Workers
  PROVE  LET t == task[w] IN
         /\ t.p # NoPayment => payment'[t.p].status # "none"
         /\ t.o # NoOrder => t.p \in PaymentIds /\ orders'[t.o].pay = t.p
         /\ t.snap.tx # NoOrder =>
                t.p \in PaymentIds /\ orders'[t.snap.tx].pay = t.p
         /\ t.snap.fulfilled =>
                t.p \in PaymentIds /\ payment'[t.p].status \in {"paid", "refunded"}
         /\ t.ev # NoEvent => t.o # NoOrder
  <1> DEFINE t == task[w]
  <1>1. /\ TaskIsSound(t)
        /\ t.p \in PaymentIds \cup {NoPayment}
        /\ t.o \in Orders \cup {NoOrder}
        /\ t.snap.tx \in Orders \cup {NoOrder}
    BY FieldTypes DEF IInv, Inductive
  <1> HIDE DEF t
  <1>2. t.p # NoPayment => payment'[t.p].status # "none"
    BY <1>1 DEF TaskIsSound, Kept, RowsKept
  <1>3. ASSUME NEW o \in Orders, t.p \in PaymentIds, orders[o].pay = t.p
        PROVE  orders'[o].pay = t.p
    BY <1>3, OwnedOrder DEF Kept, OrdersKept
  <1>4. t.snap.fulfilled =>
            t.p \in PaymentIds /\ payment'[t.p].status \in {"paid", "refunded"}
    BY <1>1 DEF TaskIsSound, Kept, RowsKept, Settled
  <1> QED BY <1>1, <1>2, <1>3, <1>4 DEF t, TaskIsSound

\* A handler that does not move still holds the truth.
LEMMA TaskKept ==
  ASSUME IInv, Kept, NEW w \in Workers, task'[w] = task[w]
  PROVE  TaskIsSound(task[w])'
  <1> DEFINE t == task[w]
  <1>1. /\ TaskIsSound(t)
        /\ t.p \in PaymentIds \cup {NoPayment}
        /\ t.o \in Orders \cup {NoOrder}
        /\ t.snap.tx \in Orders \cup {NoOrder}
    BY FieldTypes DEF IInv, Inductive
  <1>2. /\ t.p # NoPayment => payment'[t.p].status # "none"
        /\ t.o # NoOrder => t.p \in PaymentIds /\ orders'[t.o].pay = t.p
        /\ t.snap.tx # NoOrder =>
               t.p \in PaymentIds /\ orders'[t.snap.tx].pay = t.p
        /\ t.snap.fulfilled =>
               t.p \in PaymentIds /\ payment'[t.p].status \in {"paid", "refunded"}
    BY HeldKept
  <1>3. t.pc = "fulfil" => Covers(VerifyRef(t), t.p)'
    <2> SUFFICES ASSUME t.pc = "fulfil" PROVE Covers(VerifyRef(t), t.p)'
      OBVIOUS
    <2>1. VerifyRef(t) \in Orders /\ Covers(VerifyRef(t), t.p) /\ t.p \in PaymentIds
      BY FulfilOrder, TaskRow
    <2>2. \A o \in Orders, p \in PaymentIds : Covers(o, p) => Covers(o, p)'
      BY CoversKept
    <2> QED BY <2>1, <2>2, task'[w] = task[w] DEF VerifyRef, Covers
  <1>4. t.pc = "refund" => payment'[t.p].status \in {"paid", "refunded"}
    BY <1>1, TaskRow DEF TaskIsSound, Kept, RowsKept, Settled
  <1>5. t.pc \in {"verify", "refresh", "rewrite", "resync"} /\ t.o # NoOrder =>
            payment'[t.p].tx # NoOrder
    BY <1>1, TaskRow DEF TaskIsSound, Kept, RowsKept
  <1>6. t' = t BY task'[w] = task[w]
  <1> HIDE DEF t
  <1>7. TaskIsSound(t)'
    BY <1>1, <1>2, <1>3, <1>4, <1>5, <1>6 DEF TaskIsSound, Settled
  <1> QED BY <1>7 DEF t

LEMMA DoneSound ==
  ASSUME IInv, NEW w \in Workers, Done(w)
  PROVE  TaskIsSound(task[w])'
  <1>1. task'[w] = IdleTask BY DEF Done, IInv, TypeOK
  <1> QED BY <1>1, IdleSound

\* A handler that moves to pc, keeping all it holds.
LEMMA GotoSound ==
  ASSUME IInv, Kept, NEW w \in Workers, NEW pc \in Pcs, Goto(w, pc),
         pc \in InitiatePcs \ {"checkout"} => task[w].r \in Refs,
         pc # "create" => task[w].p \in PaymentIds,
         pc \notin {"idle", "declare", "fetch"},
         pc = "create" => task[w].o = NoOrder,
         pc \in InitiatePcs => task[w].ev = NoEvent,
         pc \in {"refresh", "rewrite", "store", "resync"} =>
            task[w].o # NoOrder,
         pc \in {"verify", "refresh", "rewrite", "resync"} =>
            payment'[task[w].p].tx # NoOrder,
         pc = "refund" => payment'[task[w].p].status \in {"paid", "refunded"},
         pc = "fulfil" => /\ VerifyRef(task[w]) \in Orders
                          /\ Covers(VerifyRef(task[w]), task[w].p),
         pc \in WebhookPcs => task[w].ev # NoEvent
  PROVE  TaskIsSound(task[w])'
  <1> DEFINE t == task[w]
  <1>1. /\ t'.pc = pc /\ t'.r = t.r /\ t'.p = t.p /\ t'.o = t.o /\ t'.ev = t.ev
        /\ t'.snap = t.snap
    BY DEF Goto, IInv, TypeOK, Task
  <1>2. /\ t.p # NoPayment => payment'[t.p].status # "none"
        /\ t.o # NoOrder => t.p \in PaymentIds /\ orders'[t.o].pay = t.p
        /\ t.snap.tx # NoOrder =>
               t.p \in PaymentIds /\ orders'[t.snap.tx].pay = t.p
        /\ t.snap.fulfilled =>
               t.p \in PaymentIds /\ payment'[t.p].status \in {"paid", "refunded"}
        /\ t.ev # NoEvent => t.o # NoOrder
    BY HeldKept
  <1>3. pc = "fulfil" => (VerifyRef(t) # NoOrder /\ Covers(VerifyRef(t), t.p))'
    <2> SUFFICES ASSUME pc = "fulfil"
                 PROVE  (VerifyRef(t) # NoOrder /\ Covers(VerifyRef(t), t.p))'
      OBVIOUS
    <2>1. VerifyRef(t)' = VerifyRef(t) BY <1>1 DEF VerifyRef
    <2>2. \A o \in Orders, p \in PaymentIds : Covers(o, p) => Covers(o, p)'
      BY CoversKept
    <2>3. t.p \in PaymentIds OBVIOUS
    <2>4. Covers(VerifyRef(t), t.p)' BY <1>1, <2>1, <2>2, <2>3 DEF Covers
    <2> QED BY <2>1, <2>4, IdsAssumption
  <1> HIDE DEF t
  <1>4. TaskIsSound(t)' BY <1>1, <1>2, <1>3 DEF TaskIsSound, Settled, t
  <1> QED BY <1>4 DEF t

-----------------------------------------------------------------------------
(* The tables: what a write of a row, an insert and a new order preserve.  *)

TablesSound ==
    /\ OrdersAreOurs /\ RowsAreSound /\ PaidMeansCaptured /\ StoredOrderIsOwn
    /\ OnePendingPerReference

\* At most the page of some order was shown.
OnlyShown ==
    \A o \in Orders :
        /\ orders'[o].state = orders[o].state /\ orders'[o].pay = orders[o].pay
        /\ orders'[o].amt = orders[o].amt /\ orders'[o].cap = orders[o].cap
        /\ orders[o].state = "none" => orders'[o] = orders[o]

LEMMA PageShown ==
  ASSUME IInv, NEW q \in Orders, orders[q].pay \in PaymentIds,
         orders' = [orders EXCEPT ![q].shown = TRUE]
  PROVE  OnlyShown
  <1>1. orders[q].state # "none" BY OwnedOrder
  <1>2. \A o \in Orders : orders[o] \in NiOrder BY DEF IInv, TypeOK
  <1>3. \A o \in Orders : o # q => orders'[o] = orders[o] BY DEF IInv, TypeOK
  <1>4. orders'[q] = [orders[q] EXCEPT !.shown = TRUE] BY DEF IInv, TypeOK
  <1> QED BY <1>1, <1>2, <1>3, <1>4 DEF OnlyShown, NiOrder

\* Row p is replaced by one that keeps what the invariants rest on.
LEMMA RowWritten ==
  ASSUME IInv, NEW p \in PaymentIds, NEW row \in Row,
         OnlyShown, UNCHANGED integration,
         payment' = [payment EXCEPT ![p] = row],
         payment[p].status # "none", row.status # "none",
         row.ref = payment[p].ref, row.amt = payment[p].amt,
         payment[p].tx # NoOrder => row.tx # NoOrder,
         row.tx # NoOrder => orders[row.tx].pay = p,
         Settled(p) => row.status \in {"paid", "refunded"},
         row.status = "pending" => payment[p].status = "pending",
         row.fulfilled => row.status \in {"paid", "refunded"},
         row.status \in {"paid", "refunded"} => \E o \in Orders : Covers(o, p)
  PROVE  Kept /\ TablesSound'
  <1>0. /\ payment \in [PaymentIds -> Row] /\ orders \in [Orders -> NiOrder]
        /\ integration \in [PaymentIds -> Orders \cup {NoOrder}]
    BY DEF IInv, TypeOK
  <1>1. payment'[p] = row /\ \A q \in PaymentIds : q # p => payment'[q] = payment[q]
    BY <1>0
  <1>2. RowsKept BY <1>1 DEF RowsKept, Settled
  <1>3. OrdersKept BY DEF OrdersKept, OnlyShown
  <1>4. Kept BY <1>2, <1>3 DEF Kept
  <1>5. OrdersAreOurs'
    <2>1. OrdersAreOurs BY DEF IInv, Inductive
    <2>2. ASSUME NEW o \in Orders, orders'[o].state # "none"
          PROVE  /\ orders'[o].pay \in PaymentIds
                 /\ payment'[orders'[o].pay].status # "none"
      BY <1>2, <2>1, <2>2 DEF OrdersAreOurs, OnlyShown, RowsKept
    <2>3. ASSUME NEW o \in Orders
          PROVE  /\ orders'[o].state = "none" => orders'[o] = NoNiOrder
                 /\ orders'[o].state \in {"captured", "refunded", "reversed"} =>
                        orders'[o].cap
      BY <2>1 DEF OrdersAreOurs, OnlyShown
    <2> QED BY <2>2, <2>3 DEF OrdersAreOurs, NoNiOrder
  <1>6. RowsAreSound'
    <2>1. RowsAreSound BY DEF IInv, Inductive
    <2>2. ASSUME NEW q \in PaymentIds
          PROVE  /\ payment'[q].status = "none" => payment'[q] = NoRow
                 /\ payment'[q].status # "none" => payment'[q].ref \in Refs
                 /\ payment'[q].fulfilled =>
                        payment'[q].status \in {"paid", "refunded"}
      BY <1>1, <2>1 DEF RowsAreSound, Settled
    <2>3. ASSUME NEW q \in PaymentIds, integration[q] # NoOrder
          PROVE  orders'[integration[q]].pay = q
      BY <1>0, <2>1, <2>3 DEF RowsAreSound, OnlyShown
    <2> QED BY <2>2, <2>3 DEF RowsAreSound, Settled
  <1>7. PaidMeansCaptured'
    <2>1. ASSUME NEW q \in PaymentIds, payment'[q].status \in {"paid", "refunded"}
          PROVE  \E o \in Orders : Covers(o, q)
      BY <1>1, <2>1 DEF IInv, Inductive, PaidMeansCaptured
    <2>2. \A o \in Orders, q \in PaymentIds : Covers(o, q) => Covers(o, q)'
      BY <1>4, CoversKept
    <2> QED BY <2>1, <2>2 DEF PaidMeansCaptured
  <1>8. StoredOrderIsOwn'
    <2>1. ASSUME NEW q \in PaymentIds, payment'[q].tx # NoOrder
          PROVE  /\ payment'[q].tx \in Orders
                 /\ orders[payment'[q].tx].pay = q
      BY <1>0, <1>1, <2>1 DEF IInv, Inductive, StoredOrderIsOwn, Row
    <2> QED BY <2>1 DEF StoredOrderIsOwn, OnlyShown
  <1>9. OnePendingPerReference'
    BY <1>1 DEF IInv, Inductive, OnePendingPerReference
  <1> QED BY <1>4, <1>5, <1>6, <1>7, <1>8, <1>9 DEF TablesSound

\* No row and no order changes, but for a page shown.
LEMMA TablesQuiet ==
  ASSUME IInv, UNCHANGED <<payment, integration>>, OnlyShown
  PROVE  Kept /\ TablesSound'
  <1>0. /\ payment \in [PaymentIds -> Row] /\ orders \in [Orders -> NiOrder]
        /\ integration \in [PaymentIds -> Orders \cup {NoOrder}]
    BY DEF IInv, TypeOK
  <1>1. Kept BY DEF Kept, RowsKept, OrdersKept, OnlyShown
  <1>2. OrdersAreOurs'
    BY DEF IInv, Inductive, OrdersAreOurs, OnlyShown, NoNiOrder
  <1>3. RowsAreSound'
    BY <1>0 DEF IInv, Inductive, RowsAreSound, OnlyShown, Settled
  <1>4. PaidMeansCaptured'
    <2>1. \A o \in Orders, q \in PaymentIds : Covers(o, q) => Covers(o, q)'
      BY <1>1, CoversKept
    <2> QED BY <2>1 DEF IInv, Inductive, PaidMeansCaptured
  <1>5. StoredOrderIsOwn'
    BY <1>0 DEF IInv, Inductive, StoredOrderIsOwn, OnlyShown, Row
  <1>6. OnePendingPerReference'
    BY DEF IInv, Inductive, OnePendingPerReference
  <1> QED BY <1>1, <1>2, <1>3, <1>4, <1>5, <1>6 DEF TablesSound

\* A new pending row where there was none.
LEMMA RowInserted ==
  ASSUME IInv, NEW p \in PaymentIds, NEW row \in Row,
         UNCHANGED <<integration, orders>>,
         payment' = [payment EXCEPT ![p] = row], payment[p].status = "none",
         row.status = "pending", row.ref \in Refs, row.tx = NoOrder, ~row.fulfilled,
         PendingFor(row.ref) = {}
  PROVE  Kept /\ TablesSound'
  <1>0. /\ payment \in [PaymentIds -> Row] /\ orders \in [Orders -> NiOrder]
        /\ integration \in [PaymentIds -> Orders \cup {NoOrder}]
    BY DEF IInv, TypeOK
  <1>1. payment'[p] = row /\ \A q \in PaymentIds : q # p => payment'[q] = payment[q]
    BY <1>0
  <1>2. Kept BY <1>1 DEF Kept, RowsKept, OrdersKept
  <1>3. OrdersAreOurs'
    BY <1>1 DEF IInv, Inductive, OrdersAreOurs
  <1>4. RowsAreSound'
    BY <1>1 DEF IInv, Inductive, RowsAreSound, Settled
  <1>5. PaidMeansCaptured'
    <2>1. ASSUME NEW q \in PaymentIds, payment'[q].status \in {"paid", "refunded"}
          PROVE  \E o \in Orders : Covers(o, q)
      BY <1>1, <2>1 DEF IInv, Inductive, PaidMeansCaptured
    <2>2. \A o \in Orders, q \in PaymentIds : Covers(o, q) => Covers(o, q)'
      BY <1>2, CoversKept
    <2> QED BY <2>1, <2>2 DEF PaidMeansCaptured
  <1>6. StoredOrderIsOwn'
    BY <1>1 DEF IInv, Inductive, StoredOrderIsOwn
  <1>7. OnePendingPerReference'
    <2>1. \A q \in PaymentIds : payment[q].status = "pending" =>
              payment[q].ref # row.ref
      BY DEF PendingFor
    <2> QED BY <1>1, <2>1 DEF IInv, Inductive, OnePendingPerReference
  <1> QED BY <1>2, <1>3, <1>4, <1>5, <1>6, <1>7 DEF TablesSound

\* A new order for an existing row.
LEMMA OrderCreated ==
  ASSUME IInv, NEW o \in Orders, NEW p \in PaymentIds, NEW new \in NiOrder,
         orders[o].state = "none", payment[p].status # "none",
         orders' = [orders EXCEPT ![o] = new], UNCHANGED payment,
         new.state = "open", new.pay = p,
         \/ UNCHANGED integration
         \/ integration' = [integration EXCEPT ![p] = o]
  PROVE  Kept /\ TablesSound'
  <1>0. /\ payment \in [PaymentIds -> Row] /\ orders \in [Orders -> NiOrder]
        /\ integration \in [PaymentIds -> Orders \cup {NoOrder}]
    BY DEF IInv, TypeOK
  <1>1. orders'[o] = new /\ \A x \in Orders : x # o => orders'[x] = orders[x]
    BY <1>0
  <1>2. Kept BY <1>1 DEF Kept, RowsKept, OrdersKept
  <1>3. ASSUME NEW x \in Orders, NEW q \in PaymentIds, orders[x].pay = q
        PROVE  orders'[x].pay = q
    BY <1>1, <1>3, OwnedOrder
  <1>4. OrdersAreOurs'
    <2>1. OrdersAreOurs BY DEF IInv, Inductive
    <2> QED BY <1>1, <2>1 DEF OrdersAreOurs, NoNiOrder
  <1>5. RowsAreSound'
    <2>1. RowsAreSound BY DEF IInv, Inductive
    <2>2. ASSUME NEW q \in PaymentIds, integration'[q] # NoOrder
          PROVE  orders'[integration'[q]].pay = q
      <3>1. CASE integration'[q] = integration[q]
        BY <1>0, <1>3, <2>1, <2>2, <3>1 DEF RowsAreSound
      <3>2. CASE integration'[q] = o /\ q = p BY <1>1, <3>2
      <3> QED BY <1>0, <3>1, <3>2
    <2> QED BY <2>1, <2>2 DEF RowsAreSound, Settled
  <1>6. PaidMeansCaptured'
    <2>1. \A x \in Orders, q \in PaymentIds : Covers(x, q) => Covers(x, q)'
      BY <1>2, CoversKept
    <2> QED BY <2>1 DEF IInv, Inductive, PaidMeansCaptured
  <1>7. StoredOrderIsOwn'
    BY <1>0, <1>3 DEF IInv, Inductive, StoredOrderIsOwn, Row
  <1>8. OnePendingPerReference'
    BY DEF IInv, Inductive, OnePendingPerReference
  <1> QED BY <1>2, <1>4, <1>5, <1>6, <1>7, <1>8 DEF TablesSound

\* NI moves an order: paid, failed, or the money goes back.
LEMMA OrderMoved ==
  ASSUME IInv, Environment
  PROVE  Kept /\ TablesSound'
  <1>0. /\ payment \in [PaymentIds -> Row] /\ orders \in [Orders -> NiOrder]
        /\ integration \in [PaymentIds -> Orders \cup {NoOrder}]
    BY DEF IInv, TypeOK
  <1>1. UNCHANGED <<payment, integration>>
    BY DEF Environment, CustomerPays, OrderFails, OrderRefunded, OrderReversed,
           NiMoves
  <1>2. PICK o \in Orders, from \in {"open", "captured"},
             to \in {"captured", "failed", "refunded", "reversed"} :
          /\ orders[o].state = from
          /\ to \in {"captured", "failed"} \/ from = "captured"
          /\ orders' = [orders EXCEPT ![o].state = to,
                                      ![o].cap = @ \/ to = "captured"]
    BY DEF Environment, CustomerPays, OrderFails, OrderRefunded, OrderReversed,
           NiMoves
  <1>3. /\ orders'[o].state = to /\ orders'[o].pay = orders[o].pay
        /\ orders'[o].amt = orders[o].amt
        /\ orders'[o].cap = (orders[o].cap \/ to = "captured")
        /\ \A x \in Orders : x # o => orders'[x] = orders[x]
    BY <1>0, <1>2 DEF NiOrder
  <1>4. OrdersAreOurs BY DEF IInv, Inductive
  <1>5. Kept
    <2>1. RowsKept BY <1>1 DEF RowsKept
    <2>2. OrdersKept BY <1>3 DEF OrdersKept
    <2> QED BY <2>1, <2>2 DEF Kept
  <1>6. OrdersAreOurs'
    <2>1. orders[o].state # "none" BY <1>2
    <2>2. ASSUME NEW x \in Orders, x # o
          PROVE  /\ orders'[x].state = "none" => orders'[x] = NoNiOrder
                 /\ orders'[x].state # "none" =>
                       /\ orders'[x].pay \in PaymentIds
                       /\ payment'[orders'[x].pay].status # "none"
                 /\ orders'[x].state \in {"captured", "refunded", "reversed"} =>
                       orders'[x].cap
      BY <1>1, <1>3, <1>4, <2>2 DEF OrdersAreOurs
    <2>3. /\ orders'[o].state # "none"
          /\ orders'[o].pay \in PaymentIds
          /\ payment'[orders'[o].pay].status # "none"
      BY <1>1, <1>2, <1>3, <1>4, <2>1 DEF OrdersAreOurs
    <2>4. orders'[o].state \in {"captured", "refunded", "reversed"} => orders'[o].cap
      BY <1>2, <1>3, <1>4 DEF OrdersAreOurs
    <2> QED BY <2>2, <2>3, <2>4 DEF OrdersAreOurs, NoNiOrder
  <1>7. \A x \in Orders : orders'[x].pay = orders[x].pay BY <1>3
  <1>8. RowsAreSound'
    BY <1>0, <1>1, <1>7 DEF IInv, Inductive, RowsAreSound, Settled
  <1>9. PaidMeansCaptured'
    <2>1. \A x \in Orders, q \in PaymentIds : Covers(x, q) => Covers(x, q)'
      BY <1>5, CoversKept
    <2> QED BY <1>1, <2>1 DEF IInv, Inductive, PaidMeansCaptured
  <1>10. StoredOrderIsOwn'
    BY <1>0, <1>1, <1>7 DEF IInv, Inductive, StoredOrderIsOwn, Row
  <1>11. OnePendingPerReference'
    BY <1>1 DEF IInv, Inductive, OnePendingPerReference
  <1> QED BY <1>5, <1>6, <1>8, <1>9, <1>10, <1>11 DEF TablesSound

-----------------------------------------------------------------------------
(* What the handlers hold, action by action.                               *)

\* A sound step: the tables are sound and so is what every handler holds.
StepSound ==
    /\ Kept /\ TablesSound'
    /\ \A v \in Workers : TaskIsSound(task[v])'

LEMMA StepOf ==
  ASSUME IInv, Kept, TablesSound', NEW w \in Workers,
         \A v \in Workers : v # w => task'[v] = task[v],
         TaskIsSound(task[w])'
  PROVE  StepSound
  <1>1. ASSUME NEW v \in Workers PROVE TaskIsSound(task[v])'
    <2>1. CASE v = w BY <2>1
    <2>2. CASE v # w BY <2>2, TaskKept
    <2> QED BY <2>1, <2>2
  <1> QED BY <1>1 DEF StepSound

\* A step that changes no table, nor any other handler.
LEMMA QuietOf ==
  ASSUME IInv, NEW w \in Workers, UNCHANGED <<payment, integration, orders>>
  PROVE  Kept /\ TablesSound'
  <1>1. OnlyShown BY DEF OnlyShown
  <1> QED BY <1>1, TablesQuiet

\* What the invariants say of one row, and of one worker.
LEMMA RowHeld ==
  ASSUME IInv, NEW p \in PaymentIds
  PROVE  /\ payment[p].fulfilled => Settled(p)
         /\ payment[p].tx # NoOrder => orders[payment[p].tx].pay = p
         /\ payment[p].tx \in Orders \cup {NoOrder}
         /\ Settled(p) => \E o \in Orders : Covers(o, p)
  BY DEF IInv, TypeOK, Inductive, RowsAreSound, StoredOrderIsOwn,
         PaidMeansCaptured, Settled, Row

LEMMA Held ==
  ASSUME IInv, NEW w \in Workers
  PROVE  /\ TaskIsSound(task[w])
         /\ \A p \in PaymentIds :
               /\ payment[p].fulfilled => Settled(p)
               /\ payment[p].tx # NoOrder => orders[payment[p].tx].pay = p
               /\ payment[p].tx \in Orders \cup {NoOrder}
  BY RowHeld DEF IInv, Inductive

LEMMA InitiateSound ==
  ASSUME IInv, NEW w \in Workers, NEW r \in Refs, NEW a \in Amounts,
         Initiate(w, r, a)
  PROVE  StepSound
  <1>1. Kept /\ TablesSound' BY QuietOf DEF Initiate
  <1>2. \A v \in Workers : v # w => task'[v] = task[v]
    BY DEF Initiate, IInv, TypeOK
  <1>3. task'[w] = [IdleTask EXCEPT !.r = r, !.amt = a,
                      !.pc = IF Kind[r] = "listing_fee"
                             THEN "declare" ELSE "create"]
    BY DEF Initiate, IInv, TypeOK
  <1> DEFINE t == task[w]
  <1>4. /\ t'.r = r /\ t'.p = NoPayment /\ t'.o = NoOrder /\ t'.ev = NoEvent
        /\ t'.snap = Snap(NoRow) /\ t'.pc \in {"declare", "create"}
    BY <1>3 DEF IdleTask
  <1> HIDE DEF t
  <1>5. TaskIsSound(t)'
    BY <1>4, IdsAssumption DEF TaskIsSound, Snap, NoRow, WebhookPcs
  <1> QED BY <1>1, <1>2, <1>5, StepOf DEF t

\* A handler that has read row p and keeps its snapshot.
LEMMA ReadSound ==
  ASSUME IInv, NEW w \in Workers, NEW p \in PaymentIds,
         UNCHANGED <<payment, integration, orders>>,
         \A v \in Workers : v # w => task'[v] = task[v],
         payment[p].status # "none",
         task'[w].p = p, task'[w].snap = Snap(payment[p]),
         task'[w].o \in {NoOrder, payment[p].tx},
         task'[w].ev = NoEvent,
         \/ task'[w].pc \in {"wait", "verify"} /\ task'[w].r \in Refs
         \/ task'[w].pc = "rewrite" /\ task'[w].r \in Refs /\ task'[w].o # NoOrder
         \/ task'[w].pc = "fetch" /\ payment[p].tx # NoOrder
  PROVE  StepSound
  <1>1. Kept /\ TablesSound' BY QuietOf
  <1> DEFINE t == task[w]
  <1>2. /\ t'.snap.tx = payment[p].tx
        /\ t'.snap.fulfilled = payment[p].fulfilled
    BY DEF Snap
  <1>3. p # NoPayment BY IdsAssumption
  <1>4. /\ t'.p = p /\ t'.o \in {NoOrder, payment[p].tx} /\ t'.ev = NoEvent
        /\ \/ t'.pc \in {"wait", "verify"} /\ t'.r \in Refs
           \/ t'.pc = "rewrite" /\ t'.r \in Refs /\ t'.o # NoOrder
           \/ t'.pc = "fetch" /\ payment[p].tx # NoOrder
    OBVIOUS
  <1>5. /\ payment[p].fulfilled => Settled(p)
        /\ payment[p].tx # NoOrder => orders[payment[p].tx].pay = p
    BY Held
  <1> HIDE DEF t
  <1>6. TaskIsSound(t)'
    BY <1>2, <1>3, <1>4, <1>5 DEF TaskIsSound, Settled, WebhookPcs, InitiatePcs
  <1> QED BY <1>1, <1>6, StepOf DEF t

LEMMA CheckoutReads ==
  ASSUME IInv, NEW w \in Workers,
         \/ \E p \in PaymentIds : ReturnExisting(w, p) \/ SyncStart(w, p)
         \/ RefreshRead(w) \/ Resync(w)
  PROVE  StepSound
  <1>1. ASSUME NEW p \in PaymentIds, ReturnExisting(w, p)
        PROVE  StepSound
    <2>1. /\ task'[w].p = p /\ task'[w].snap = Snap(payment[p])
          /\ task'[w].o = payment[p].tx /\ task'[w].pc \in {"wait", "verify"}
          /\ task'[w].r = task[w].r /\ task'[w].ev = task[w].ev
          /\ \A v \in Workers : v # w => task'[v] = task[v]
      BY <1>1 DEF ReturnExisting, IInv, TypeOK, Task
    <2>2. task[w].r \in Refs /\ task[w].ev = NoEvent
      BY <1>1, Held DEF ReturnExisting, TaskIsSound, InitiatePcs
    <2>3. payment[p].status # "none" BY <1>1 DEF ReturnExisting, PendingFor
    <2>4. UNCHANGED <<payment, integration, orders>> BY <1>1 DEF ReturnExisting
    <2> QED BY <2>1, <2>2, <2>3, <2>4, ReadSound
  <1>2. ASSUME NEW p \in PaymentIds, SyncStart(w, p)
        PROVE  StepSound
    <2>1. /\ task'[w].p = p /\ task'[w].snap = Snap(payment[p])
          /\ task'[w].o = NoOrder /\ task'[w].pc = "fetch"
          /\ task'[w].ev = NoEvent
          /\ \A v \in Workers : v # w => task'[v] = task[v]
      BY <1>2 DEF SyncStart, IInv, TypeOK, IdleTask
    <2>2. payment[p].status # "none" /\ payment[p].tx # NoOrder
      BY <1>2 DEF SyncStart
    <2>3. UNCHANGED <<payment, integration, orders>> BY <1>2 DEF SyncStart
    <2> QED BY <2>1, <2>2, <2>3, ReadSound
  <1>3. CASE RefreshRead(w) \/ Resync(w)
    <2> DEFINE p == task[w].p
    <2>1. task[w].pc \in {"refresh", "resync"} BY <1>3 DEF RefreshRead, Resync
    <2>2. /\ p \in PaymentIds /\ payment[p].status # "none"
          /\ payment[p].tx # NoOrder /\ task[w].o # NoOrder
          /\ task[w].r \in Refs /\ task[w].ev = NoEvent
      BY <2>1, Held, TaskRow DEF TaskIsSound, InitiatePcs
    <2>3. /\ task'[w].p = p /\ task'[w].snap = Snap(payment[p])
          /\ task'[w].pc = (IF task[w].pc = "refresh" THEN "rewrite" ELSE "fetch")
          /\ task'[w].o = task[w].o
          /\ task'[w].r = task[w].r /\ task'[w].ev = task[w].ev
          /\ \A v \in Workers : v # w => task'[v] = task[v]
      BY <1>3 DEF RefreshRead, Resync, IInv, TypeOK, Task
    <2>4. UNCHANGED <<payment, integration, orders>>
      BY <1>3 DEF RefreshRead, Resync
    <2>5. Kept /\ TablesSound' BY <2>4, QuietOf
    <2> DEFINE t == task[w]
    <2>6. /\ TaskIsSound(t) /\ p # NoPayment
          /\ payment[p].fulfilled => Settled(p)
          /\ orders[payment[p].tx].pay = p
      BY <2>2, Held, IdsAssumption
    <2>7. /\ t'.snap.tx = payment[p].tx
          /\ t'.snap.fulfilled = payment[p].fulfilled
      BY <2>3 DEF Snap
    <2>8. /\ t'.p = p /\ t'.o = t.o /\ t'.r = t.r /\ t'.ev = t.ev
          /\ t'.pc \in {"rewrite", "fetch"} /\ t.p = p
      BY <2>3
    <2> HIDE DEF t, p
    <2>9. TaskIsSound(t)'
      BY <2>2, <2>4, <2>6, <2>7, <2>8
      DEF TaskIsSound, Settled, WebhookPcs, InitiatePcs, t
    <2> QED BY <2>3, <2>5, <2>9, StepOf DEF t
  <1> QED BY <1>1, <1>2, <1>3

LEMMA WaitSound ==
  ASSUME IInv, NEW w \in Workers, WaitForUrl(w)
  PROVE  StepSound
  <1> DEFINE p == task[w].p
             row == payment[p]
  <1>1. /\ p \in PaymentIds /\ row.status # "none"
        /\ task[w].r \in Refs /\ task[w].ev = NoEvent
    BY Held, TaskRow DEF WaitForUrl, TaskIsSound, InitiatePcs
  <1>2. UNCHANGED <<payment, integration, orders>> BY DEF WaitForUrl
  <1>3. Kept /\ TablesSound' BY <1>2, QuietOf
  <1>4. \A v \in Workers : v # w => task'[v] = task[v]
    BY DEF WaitForUrl, Goto, Done, IInv, TypeOK
  <1>5. CASE Done(w) BY <1>3, <1>4, <1>5, DoneSound, StepOf
  <1>6. CASE Goto(w, "archive")
    <2>1. "archive" \in Pcs /\ "archive" \notin WebhookPcs
      BY DEF Pcs, InitiatePcs, WebhookPcs
    <2>2. TaskIsSound(task[w])' BY <1>1, <1>3, <1>6, <2>1, GotoSound
    <2> QED BY <1>3, <1>4, <2>2, StepOf
  <1>7. CASE task' = [task EXCEPT ![w].snap = Snap(row), ![w].o = row.tx,
                                  ![w].pc = "verify"]
    <2>1. /\ task'[w].p = p /\ task'[w].snap = Snap(row)
          /\ task'[w].o = row.tx /\ task'[w].pc = "verify"
          /\ task'[w].r = task[w].r /\ task'[w].ev = task[w].ev
      BY <1>7 DEF IInv, TypeOK, Task
    <2> HIDE DEF p
    <2> QED BY <1>1, <1>2, <1>4, <2>1, ReadSound
  <1> QED BY <1>5, <1>6, <1>7 DEF WaitForUrl

\* A handler that leaves the tables alone and is done, or goes where what it
\* holds suffices.
LEMMA QuietDone ==
  ASSUME IInv, NEW w \in Workers, UNCHANGED <<payment, integration, orders>>,
         Done(w)
  PROVE  StepSound
  <1>1. Kept /\ TablesSound' BY QuietOf
  <1>2. \A v \in Workers : v # w => task'[v] = task[v] BY DEF Done, IInv, TypeOK
  <1> QED BY <1>1, <1>2, DoneSound, StepOf

LEMMA QuietGoto ==
  ASSUME IInv, NEW w \in Workers, NEW pc \in Pcs, Goto(w, pc),
         UNCHANGED <<payment, integration, orders>>,
         pc \in InitiatePcs \ {"checkout"} => task[w].r \in Refs,
         pc # "create" => task[w].p \in PaymentIds,
         pc \notin {"idle", "declare", "fetch"},
         pc = "create" => task[w].o = NoOrder,
         pc \in InitiatePcs => task[w].ev = NoEvent,
         pc \in {"refresh", "rewrite", "store", "resync"} =>
            task[w].o # NoOrder,
         pc \in {"verify", "refresh", "rewrite", "resync"} =>
            payment[task[w].p].tx # NoOrder,
         pc # "refund",
         pc = "fulfil" => /\ VerifyRef(task[w]) \in Orders
                          /\ Covers(VerifyRef(task[w]), task[w].p),
         pc \in WebhookPcs => task[w].ev # NoEvent
  PROVE  StepSound
  <1>1. Kept /\ TablesSound' BY QuietOf
  <1>2. \A v \in Workers : v # w => task'[v] = task[v] BY DEF Goto, IInv, TypeOK
  <1>3. TaskIsSound(task[w])' BY <1>1, GotoSound
  <1> QED BY <1>1, <1>2, <1>3, StepOf

LEMMA PcSorts ==
  /\ {"create", "archive", "resync", "refresh", "recreate"} \subseteq Pcs
  /\ {"ack", "downgrade", "readPlan", "flag", "fulfil", "fail"} \subseteq Pcs
  /\ {"create", "archive", "resync", "refresh", "recreate"} \cap WebhookPcs = {}
  /\ {"ack", "downgrade", "readPlan", "flag", "fulfil", "fail"}
        \cap InitiatePcs = {}
  /\ {"flag", "fulfil", "fail"} \cap WebhookPcs = {}
  BY DEF Pcs, InitiatePcs, WebhookPcs, SharedPcs

LEMMA DeclareSound ==
  ASSUME IInv, NEW w \in Workers, DeclareSale(w)
  PROVE  StepSound
  <1>1. task[w].r \in Refs /\ task[w].o = NoOrder /\ task[w].ev = NoEvent
    BY Held DEF DeclareSale, TaskIsSound, InitiatePcs
  <1>2. Goto(w, "create") /\ UNCHANGED <<payment, integration, orders>>
    BY DEF DeclareSale
  <1> QED BY <1>1, <1>2, PcSorts, QuietGoto

LEMMA VerifySound ==
  ASSUME IInv, NEW w \in Workers, VerifyCheckout(w) \/ VerifyUnavailable(w)
  PROVE  StepSound
  <1>1. /\ task[w].r \in Refs /\ task[w].ev = NoEvent
        /\ task[w].p \in PaymentIds
        /\ task[w].o # NoOrder => payment[task[w].p].tx # NoOrder
    BY Held, TaskRow
    DEF VerifyCheckout, VerifyUnavailable, TaskIsSound, InitiatePcs
  <1>2. UNCHANGED <<payment, integration, orders>>
    BY DEF VerifyCheckout, VerifyUnavailable
  <1>3. \/ Done(w) \/ Goto(w, "archive")
        \/ task[w].o # NoOrder /\ (Goto(w, "resync") \/ Goto(w, "refresh"))
    BY DEF VerifyCheckout, VerifyUnavailable
  <1>4. CASE Done(w) BY <1>2, <1>4, QuietDone
  <1>5. CASE Goto(w, "archive") BY <1>1, <1>2, <1>5, PcSorts, QuietGoto
  <1>6. CASE task[w].o # NoOrder /\ Goto(w, "resync")
    BY <1>1, <1>2, <1>6, PcSorts, QuietGoto
  <1>7. CASE task[w].o # NoOrder /\ Goto(w, "refresh")
    BY <1>1, <1>2, <1>7, PcSorts, QuietGoto
  <1> QED BY <1>3, <1>4, <1>5, <1>6, <1>7

LEMMA QuitSound ==
  ASSUME IInv, NEW w \in Workers, CreateRaced(w) \/ Abandon(w) \/ Acknowledge(w)
  PROVE  StepSound
  BY QuietDone DEF CreateRaced, Abandon, Acknowledge

\* NI reports an order of the payment as paid, for its price.
LEMMA VerdictCovers ==
  ASSUME IInv, NEW w \in Workers, NEW o \in Orders,
         task[w].p \in PaymentIds, orders[o].pay = task[w].p,
         "success" \in NiClass(o), Verdict(w, o) = "fulfil"
  PROVE  Covers(o, task[w].p)
  <1>1. orders[o].state = "captured" BY DEF NiClass
  <1>2. orders[o].cap BY <1>1 DEF IInv, Inductive, OrdersAreOurs
  <1>3. orders[o].amt = payment[task[w].p].amt BY DEF Verdict
  <1> QED BY <1>2, <1>3 DEF Covers

LEMMA ConfirmSound ==
  ASSUME IInv, NEW w \in Workers, ConfirmWithNi(w)
  PROVE  StepSound
  <1> DEFINE o == VerifyRef(task[w])
  <1>1. /\ task[w].p \in PaymentIds /\ task[w].ev # NoEvent
        /\ o \in Orders /\ orders[o].pay = task[w].p
    BY Held, TaskRow, FieldTypes
    DEF ConfirmWithNi, TaskIsSound, WebhookPcs, VerifyRef
  <1>2. UNCHANGED <<payment, integration, orders>> BY DEF ConfirmWithNi
  <1>3. \/ "success" \in NiClass(o) /\ Goto(w, Verdict(w, o))
        \/ Goto(w, "ack")
    BY DEF ConfirmWithNi
  <1> HIDE DEF o
  <1>4. CASE Goto(w, "ack") BY <1>1, <1>2, <1>4, PcSorts, QuietGoto
  <1>5. CASE "success" \in NiClass(o) /\ Goto(w, Verdict(w, o))
    <2>1. CASE Verdict(w, o) = "fulfil"
      <3>1. Covers(o, task[w].p) BY <1>1, <1>5, <2>1, VerdictCovers
      <3> QED BY <1>1, <1>2, <1>5, <2>1, <3>1, PcSorts, QuietGoto DEF o
    <2>2. CASE Verdict(w, o) = "flag"
      BY <1>1, <1>2, <1>5, <2>2, PcSorts, QuietGoto
    <2> QED BY <2>1, <2>2 DEF Verdict
  <1> QED BY <1>3, <1>4, <1>5

LEMMA FetchSound ==
  ASSUME IInv, NEW w \in Workers, NEW c \in {"success", "failed", "processing"},
         SyncFetch(w, c)
  PROVE  StepSound
  <1> DEFINE o == task[w].snap.tx
  <1>1. /\ task[w].p \in PaymentIds
        /\ o \in Orders /\ orders[o].pay = task[w].p
    BY Held, TaskRow, FieldTypes DEF SyncFetch, TaskIsSound
  <1>2. UNCHANGED <<payment, integration, orders>> BY DEF SyncFetch
  <1>3. CASE SyncBranch(w, c) = "idle"
    BY <1>2, <1>3, QuietDone DEF SyncFetch
  <1>4. CASE SyncBranch(w, c) # "idle"
    <2>1. Goto(w, SyncBranch(w, c)) BY <1>4 DEF SyncFetch
    <2>2. CASE SyncBranch(w, c) = "fail"
      BY <1>1, <1>2, <2>1, <2>2, PcSorts, QuietGoto
    <2>3. CASE SyncBranch(w, c) = Verdict(w, o) /\ c = "success"
      <3>1. CASE Verdict(w, o) = "flag"
        BY <1>1, <1>2, <2>1, <2>3, <3>1, PcSorts, QuietGoto
      <3>2. CASE Verdict(w, o) = "fulfil"
        <4>1. "success" \in NiClass(o) BY <2>3 DEF SyncFetch
        <4>2. Covers(o, task[w].p) BY <1>1, <3>2, <4>1, VerdictCovers
        <4>3. VerifyRef(task[w]) = o BY <1>1, IdsAssumption DEF VerifyRef
        <4> QED BY <1>1, <1>2, <2>1, <2>3, <3>2, <4>2, <4>3, PcSorts, QuietGoto
      <3> QED BY <3>1, <3>2 DEF Verdict
    <2>4. SyncBranch(w, c) = "fail" \/ (SyncBranch(w, c) = Verdict(w, o) /\ c = "success")
      BY <1>4 DEF SyncBranch
    <2> QED BY <2>2, <2>3, <2>4
  <1> QED BY <1>3, <1>4

LEMMA PlanSound ==
  ASSUME IInv, NEW w \in Workers, ReadPlan(w) \/ Downgrade(w)
  PROVE  StepSound
  <1>1. task[w].p \in PaymentIds /\ task[w].ev # NoEvent
    BY Held, TaskRow DEF ReadPlan, Downgrade, TaskIsSound, WebhookPcs
  <1>2. UNCHANGED <<payment, integration, orders>> BY DEF ReadPlan, Downgrade
  <1>3. Goto(w, "ack") \/ Goto(w, "downgrade") BY DEF ReadPlan, Downgrade
  <1>4. CASE Goto(w, "ack") BY <1>1, <1>2, <1>4, PcSorts, QuietGoto
  <1>5. CASE Goto(w, "downgrade") BY <1>1, <1>2, <1>5, PcSorts, QuietGoto
  <1> QED BY <1>3, <1>4, <1>5

LEMMA WebhookSound ==
  ASSUME IInv, NEW w \in Workers, NEW o \in Orders, NEW ev \in EventKinds,
         ReceiveWebhook(w, o, ev)
  PROVE  StepSound
  <1> DEFINE p == orders[o].pay
  <1>1. UNCHANGED <<payment, integration, orders>> BY DEF ReceiveWebhook
  <1>2. Kept /\ TablesSound' BY <1>1, QuietOf
  <1>3. \A v \in Workers : v # w => task'[v] = task[v]
    BY DEF ReceiveWebhook, IInv, TypeOK
  <1>4. orders[o].state # "none" \/ orders[o].cap
    BY DEF ReceiveWebhook, Sent, EventKinds
  <1>5. p \in PaymentIds /\ payment[p].status # "none" BY <1>4, OwnedOrder
  <1>6. /\ payment[p].fulfilled => Settled(p)
        /\ payment[p].tx # NoOrder => orders[payment[p].tx].pay = p
    BY <1>5, Held
  <1>7. /\ WebhookBranch(payment[p], ev) \in {"ack", "refund", "confirm", "fail"}
        /\ WebhookBranch(payment[p], ev) = "refund" => Settled(p)
    BY DEF WebhookBranch, Settled
  <1>8. task'[w] = [IdleTask EXCEPT !.p = p, !.o = o, !.ev = ev,
                       !.snap = Snap(payment[p]),
                       !.pc = WebhookBranch(payment[p], ev)]
    BY DEF ReceiveWebhook, IInv, TypeOK
  <1> DEFINE t == task[w]
  <1>9. /\ t'.p = p /\ t'.o = o /\ t'.ev = ev
        /\ t'.snap.tx = payment[p].tx /\ t'.snap.fulfilled = payment[p].fulfilled
        /\ t'.pc = WebhookBranch(payment[p], ev)
    BY <1>8 DEF IdleTask, Snap
  <1>10. orders[o].pay = p /\ o # NoOrder /\ ev # NoEvent /\ p # NoPayment
    BY <1>5, IdsAssumption
  <1> HIDE DEF t, p
  <1>11. TaskIsSound(t)'
    BY <1>1, <1>5, <1>6, <1>7, <1>9, <1>10
    DEF TaskIsSound, Settled, InitiatePcs
  <1> QED BY <1>2, <1>3, <1>11, StepOf DEF t

LEMMA InsertSound ==
  ASSUME IInv, NEW w \in Workers, NEW p \in PaymentIds,
         CreatePending(w, p) \/ Recreate(w, p)
  PROVE  StepSound
  <1>1. PICK again \in BOOLEAN : InsertPending(w, p, again)
    BY DEF CreatePending, Recreate
  <1>2. task[w].r \in Refs
    BY Held DEF CreatePending, Recreate, TaskIsSound, InitiatePcs
  <1>3. NewRow(w) \in Row
    BY <1>2, FieldTypes DEF NewRow, NoRow, Row, Statuses
  <1>4. /\ NewRow(w).status = "pending" /\ NewRow(w).ref = task[w].r
        /\ NewRow(w).tx = NoOrder /\ ~NewRow(w).fulfilled
    BY DEF NewRow, NoRow
  <1>5. /\ UNCHANGED <<integration, orders>>
        /\ payment' = [payment EXCEPT ![p] = NewRow(w)]
        /\ payment[p].status = "none" /\ PendingFor(task[w].r) = {}
    BY <1>1 DEF CreatePending, Recreate, InsertPending, MayInsert, FreeRows
  <1>6. Kept /\ TablesSound' BY <1>2, <1>3, <1>4, <1>5, RowInserted
  <1>7. /\ task'[w] = [IdleTask EXCEPT !.pc = "checkout", !.r = task[w].r,
                                       !.p = p, !.again = again]
        /\ \A v \in Workers : v # w => task'[v] = task[v]
    BY <1>1 DEF InsertPending, IInv, TypeOK
  <1>8. payment'[p].status # "none" BY <1>4, <1>5 DEF IInv, TypeOK
  <1> DEFINE t == task[w]
  <1>9. /\ t'.p = p /\ t'.o = NoOrder /\ t'.ev = NoEvent /\ t'.pc = "checkout"
        /\ t'.snap.tx = NoOrder /\ ~t'.snap.fulfilled
    BY <1>7 DEF IdleTask, Snap, NoRow
  <1> HIDE DEF t
  <1>10. TaskIsSound(t)' BY <1>8, <1>9 DEF TaskIsSound, WebhookPcs
  <1> QED BY <1>6, <1>7, <1>10, StepOf DEF t

\* The handler's row stays or is replaced, and the handler is done or moves on
\* to a step that needs nothing new.
LEMMA WriteSound ==
  ASSUME IInv, NEW w \in Workers, Kept, TablesSound',
         \/ Done(w)
         \/ Goto(w, "recreate") /\ task[w].pc = "archive"
         \/ Goto(w, "ack") /\ task[w].ev # NoEvent
         \/ Goto(w, "readPlan") /\ task[w].ev # NoEvent,
         task[w].pc \notin {"idle", "declare", "create"}
  PROVE  StepSound
  <1>1. \A v \in Workers : v # w => task'[v] = task[v]
    BY DEF Done, Goto, IInv, TypeOK
  <1>2. task[w].p \in PaymentIds BY TaskRow
  <1>3. CASE Done(w) BY <1>1, <1>3, DoneSound, StepOf
  <1>4. CASE Goto(w, "recreate") /\ task[w].pc = "archive"
    <2>1. task[w].r \in Refs /\ task[w].ev = NoEvent
      BY <1>4, Held DEF TaskIsSound, InitiatePcs
    <2>2. TaskIsSound(task[w])' BY <1>2, <1>4, <2>1, PcSorts, GotoSound
    <2> QED BY <1>1, <2>2, StepOf
  <1>5. CASE Goto(w, "ack") /\ task[w].ev # NoEvent
    <2>1. TaskIsSound(task[w])' BY <1>2, <1>5, PcSorts, GotoSound
    <2> QED BY <1>1, <2>1, StepOf
  <1>6. CASE Goto(w, "readPlan") /\ task[w].ev # NoEvent
    <2>1. TaskIsSound(task[w])' BY <1>2, <1>6, PcSorts, GotoSound
    <2> QED BY <1>1, <2>1, StepOf
  <1> QED BY <1>3, <1>4, <1>5, <1>6

\* The status of the pending row becomes failed, or nothing is written.
LEMMA FailWritten ==
  ASSUME IInv, NEW p \in PaymentIds, payment[p].status # "none",
         UNCHANGED <<integration, orders>>,
         \/ UNCHANGED payment
         \/ /\ payment[p].status = "pending"
            /\ payment' = [payment EXCEPT ![p].status = "failed"]
  PROVE  Kept /\ TablesSound'
  <1>1. CASE UNCHANGED payment
    <2>1. OnlyShown BY DEF OnlyShown
    <2> QED BY <1>1, <2>1, TablesQuiet
  <1>2. CASE /\ payment[p].status = "pending"
             /\ payment' = [payment EXCEPT ![p].status = "failed"]
    <2> DEFINE row == [payment[p] EXCEPT !.status = "failed"]
    <2>1. payment[p] \in Row BY DEF IInv, TypeOK
    <2>2. row \in Row BY <2>1 DEF Row, Statuses
    <2>3. payment' = [payment EXCEPT ![p] = row] BY <1>2, <2>1 DEF IInv, TypeOK
    <2>4. OnlyShown BY DEF OnlyShown
    <2>5. /\ payment[p].fulfilled => Settled(p)
          /\ payment[p].tx # NoOrder => orders[payment[p].tx].pay = p
      BY RowHeld
    <2>6. ~Settled(p) BY <1>2 DEF Settled
    <2>7. /\ row.status = "failed" /\ row.ref = payment[p].ref
          /\ row.amt = payment[p].amt /\ row.tx = payment[p].tx
          /\ row.fulfilled = payment[p].fulfilled
      BY <2>1 DEF Row
    <2> HIDE DEF row
    <2> QED BY <2>2, <2>3, <2>4, <2>5, <2>6, <2>7, RowWritten
  <1> QED BY <1>1, <1>2

LEMMA FailingSound ==
  ASSUME IInv, NEW w \in Workers, Archive(w) \/ MarkFailed(w) \/ CheckoutError(w)
  PROVE  StepSound
  <1> DEFINE p == task[w].p
  <1>1. /\ task[w].pc \in {"archive", "fail", "checkout", "store"}
        /\ UNCHANGED <<integration, orders>>
    BY DEF Archive, MarkFailed, CheckoutError
  <1>2. p \in PaymentIds /\ payment[p].status # "none" BY <1>1, TaskRow
  <1>3. \/ UNCHANGED payment
        \/ /\ payment[p].status = "pending"
           /\ payment' = [payment EXCEPT ![p].status = "failed"]
    BY DEF Archive, MarkFailed, CheckoutError
  <1>4. Kept /\ TablesSound' BY <1>1, <1>2, <1>3, FailWritten
  <1>5. \/ Done(w)
        \/ Goto(w, "recreate") /\ task[w].pc = "archive"
        \/ Goto(w, "ack") /\ task[w].ev # NoEvent
    BY DEF Archive, MarkFailed, CheckoutError, Finish
  <1> QED BY <1>1, <1>4, <1>5, WriteSound

LEMMA FlagSound ==
  ASSUME IInv, NEW w \in Workers, FlagForReview(w)
  PROVE  StepSound
  <1> DEFINE p == task[w].p
             row == [payment[p] EXCEPT !.review = TRUE]
  <1>1. p \in PaymentIds /\ payment[p] \in Row /\ payment[p].status # "none"
    BY TaskRow DEF FlagForReview
  <1>2. OnlyShown /\ UNCHANGED integration BY DEF FlagForReview, OnlyShown
  <1>3. CASE UNCHANGED payment
    <2>1. Kept /\ TablesSound' BY <1>2, <1>3, TablesQuiet
    <2> QED BY <2>1, WriteSound DEF FlagForReview, Finish
  <1>4. CASE payment' = [payment EXCEPT ![p].review = TRUE]
    <2>1. row \in Row BY <1>1 DEF Row
    <2>2. payment' = [payment EXCEPT ![p] = row]
      BY <1>1, <1>4 DEF IInv, TypeOK
    <2>3. /\ payment[p].fulfilled => Settled(p)
          /\ payment[p].tx # NoOrder => orders[payment[p].tx].pay = p
          /\ Settled(p) => \E o \in Orders : Covers(o, p)
      BY <1>1, RowHeld
    <2>4. /\ row.status = payment[p].status /\ row.ref = payment[p].ref
          /\ row.amt = payment[p].amt /\ row.tx = payment[p].tx
          /\ row.fulfilled = payment[p].fulfilled
      BY <1>1 DEF Row
    <2> HIDE DEF row, p
    <2>5. Kept /\ TablesSound'
      BY <1>1, <1>2, <2>1, <2>2, <2>3, <2>4, RowWritten DEF Settled
    <2> QED BY <2>5, WriteSound DEF FlagForReview, Finish
  <1> QED BY <1>3, <1>4 DEF FlagForReview

LEMMA RefreshSound ==
  ASSUME IInv, NEW w \in Workers, RefreshWrite(w)
  PROVE  StepSound
  <1> DEFINE t == task[w]
             p == t.p
             row == [payment[p] EXCEPT !.tx = t.o, !.url = TRUE,
                       !.fulfilled = t.snap.fulfilled, !.review = t.snap.review]
  <1>1. p \in PaymentIds /\ payment[p] \in Row /\ payment[p].status # "none"
    BY TaskRow DEF RefreshWrite
  <1>2. /\ t.o \in Orders /\ t.o # NoOrder /\ orders[t.o].pay = p
        /\ t.snap.fulfilled \in BOOLEAN /\ t.snap.review \in BOOLEAN
        /\ t.snap.fulfilled => Settled(p)
    BY Held, FieldTypes DEF RefreshWrite, TaskIsSound
  <1>3. Settled(p) => \E o \in Orders : Covers(o, p) BY <1>1, RowHeld
  <1>4. payment' = [payment EXCEPT ![p].tx = t.o, ![p].url = TRUE,
                       ![p].fulfilled = t.snap.fulfilled,
                       ![p].review = t.snap.review]
    BY DEF RefreshWrite
  <1>5. payment \in [PaymentIds -> Row] BY DEF IInv, TypeOK
  <1>6. OnlyShown /\ UNCHANGED integration /\ Done(w)
    BY DEF RefreshWrite, OnlyShown
  <1>7. task[w].pc = "rewrite" BY DEF RefreshWrite
  <1> HIDE DEF p, t
  <1>8. row \in Row BY <1>1, <1>2 DEF Row
  <1>9. payment' = [payment EXCEPT ![p] = row] BY <1>1, <1>4, <1>5 DEF Row
  <1>10. /\ row.status = payment[p].status /\ row.ref = payment[p].ref
         /\ row.amt = payment[p].amt /\ row.tx = t.o
         /\ row.fulfilled = t.snap.fulfilled
    BY <1>1 DEF Row
  <1> HIDE DEF row
  <1>11. Kept /\ TablesSound'
    BY <1>1, <1>2, <1>3, <1>6, <1>8, <1>9, <1>10, RowWritten DEF Settled
  <1> QED BY <1>6, <1>7, <1>11, WriteSound

LEMMA StoreSound ==
  ASSUME IInv, NEW w \in Workers, StoreCheckout(w)
  PROVE  StepSound
  <1> DEFINE t == task[w]
             p == t.p
             row == StoredRow(t)
  <1>1. p \in PaymentIds /\ payment[p] \in Row /\ payment[p].status # "none"
    BY TaskRow DEF StoreCheckout
  <1>2. t.o \in Orders /\ t.o # NoOrder /\ orders[t.o].pay = p
    BY Held, FieldTypes DEF StoreCheckout, TaskIsSound
  <1>3. Settled(p) => \E o \in Orders : Covers(o, p) BY <1>1, RowHeld
  <1>4. /\ payment' = [payment EXCEPT ![p] = row]
        /\ orders' = [orders EXCEPT ![t.o].shown = TRUE]
        /\ UNCHANGED integration /\ Done(w) /\ task[w].pc = "store"
    BY DEF StoreCheckout
  <1>5. OnlyShown BY <1>1, <1>2, <1>4, PageShown
  <1>6. row \in Row BY <1>1, <1>2 DEF StoredRow, Row
  <1>7. /\ row.status = payment[p].status /\ row.ref = payment[p].ref
        /\ row.amt = payment[p].amt /\ row.tx = t.o /\ ~row.fulfilled
    BY <1>1 DEF StoredRow, Row
  <1> HIDE DEF row, p, t
  <1>8. Kept /\ TablesSound'
    BY <1>1, <1>2, <1>3, <1>4, <1>5, <1>6, <1>7, RowWritten DEF Settled
  <1> QED BY <1>4, <1>8, WriteSound

LEMMA RefundSound ==
  ASSUME IInv, NEW w \in Workers, MarkRefunded(w)
  PROVE  StepSound
  <1> DEFINE t == task[w]
             p == t.p
             row == [payment[p] EXCEPT !.status = "refunded",
                       !.fulfilled = @ \/ t.snap.fulfilled,
                       !.review = @ \/ t.snap.review]
  <1>1. p \in PaymentIds /\ payment[p] \in Row /\ payment[p].status # "none"
    BY TaskRow DEF MarkRefunded
  <1>2. /\ Settled(p) /\ t.ev # NoEvent
        /\ t.snap.fulfilled \in BOOLEAN /\ t.snap.review \in BOOLEAN
    BY Held, FieldTypes DEF MarkRefunded, TaskIsSound, WebhookPcs
  <1>3. /\ \E o \in Orders : Covers(o, p)
        /\ payment[p].tx # NoOrder => orders[payment[p].tx].pay = p
    BY <1>1, <1>2, RowHeld
  <1>4. OnlyShown /\ UNCHANGED integration /\ task[w].pc = "refund"
    BY DEF MarkRefunded, OnlyShown
  <1>5. Goto(w, "readPlan") \/ Goto(w, "ack") BY DEF MarkRefunded
  <1>6. CASE UNCHANGED payment
    <2>1. Kept /\ TablesSound' BY <1>4, <1>6, TablesQuiet
    <2> QED BY <1>2, <1>4, <1>5, <2>1, WriteSound
  <1>7. CASE payment' = [payment EXCEPT ![p].status = "refunded",
                     ![p].fulfilled = @ \/ t.snap.fulfilled,
                     ![p].review = @ \/ t.snap.review]
    <2>0. payment \in [PaymentIds -> Row] BY DEF IInv, TypeOK
    <2>1. t.ev # NoEvent <=> task[w].ev # NoEvent OBVIOUS
    <2> HIDE DEF p, t
    <2>2. row \in Row BY <1>1, <1>2 DEF Row, Statuses
    <2>3. payment' = [payment EXCEPT ![p] = row] BY <1>1, <1>7, <2>0 DEF Row
    <2>4. /\ row.status = "refunded" /\ row.ref = payment[p].ref
          /\ row.amt = payment[p].amt /\ row.tx = payment[p].tx
      BY <1>1 DEF Row
    <2> HIDE DEF row
    <2>5. Kept /\ TablesSound'
      BY <1>1, <1>3, <1>4, <2>2, <2>3, <2>4, RowWritten
    <2> QED BY <1>2, <1>4, <1>5, <2>1, <2>5, WriteSound
  <1> QED BY <1>6, <1>7 DEF MarkRefunded

LEMMA SettleSound ==
  ASSUME IInv, NEW w \in Workers, ProcessSuccessfulPayment(w)
  PROVE  StepSound
  <1> DEFINE t == task[w]
             p == t.p
             row == PaidRow(t)
  <1>1. p \in PaymentIds /\ payment[p] \in Row /\ payment[p].status # "none"
    BY TaskRow DEF ProcessSuccessfulPayment
  <1>2. VerifyRef(t) \in Orders /\ Covers(VerifyRef(t), p)
    BY FulfilOrder DEF ProcessSuccessfulPayment
  <1>3. OnlyShown /\ UNCHANGED integration /\ task[w].pc = "fulfil"
    BY DEF ProcessSuccessfulPayment, OnlyShown
  <1>4. Done(w) \/ (Goto(w, "ack") /\ task[w].ev # NoEvent)
    BY DEF ProcessSuccessfulPayment, Finish
  <1>5. CASE UNCHANGED payment
    <2>1. Kept /\ TablesSound' BY <1>3, <1>5, TablesQuiet
    <2> QED BY <1>3, <1>4, <2>1, WriteSound
  <1>6. CASE payment' = [payment EXCEPT ![p] = row]
    <2>1. Extends(t) \in BOOLEAN /\ t.snap.review \in BOOLEAN
      BY FieldTypes DEF Extends
    <2>2. row \in Row BY <1>1, <1>2, <2>1 DEF PaidRow, Row, Statuses
    <2>3. /\ row.status = "paid" /\ row.ref = payment[p].ref
          /\ row.amt = payment[p].amt /\ row.tx = VerifyRef(t)
      BY <1>1 DEF PaidRow, Row
    <2>4. orders[VerifyRef(t)].pay = p /\ VerifyRef(t) # NoOrder
      BY <1>2, IdsAssumption DEF Covers
    <2> HIDE DEF row, p, t
    <2>5. Kept /\ TablesSound'
      BY <1>1, <1>2, <1>3, <1>6, <2>2, <2>3, <2>4, RowWritten
    <2> QED BY <1>3, <1>4, <2>5, WriteSound
  <1> QED BY <1>5, <1>6 DEF ProcessSuccessfulPayment

LEMMA CheckoutSound ==
  ASSUME IInv, NEW w \in Workers, NEW o \in Orders, NEW a \in Amounts,
         CreateCheckout(w, o, a) \/ CreateCheckoutLost(w, o, a)
  PROVE  StepSound
  <1> DEFINE p == task[w].p
  <1>1. p \in PaymentIds /\ payment[p].status # "none" /\ task[w].pc = "checkout"
    BY TaskRow DEF CreateCheckout, CreateCheckoutLost, RegisterOrder
  <1>2. PICK shown \in BOOLEAN : orders' = [orders EXCEPT ![o] =
                    [state |-> "open", pay |-> p, amt |-> a,
                     shown |-> shown, cap |-> FALSE]]
    BY DEF CreateCheckout, CreateCheckoutLost, RegisterOrder
  <1> DEFINE new == [state |-> "open", pay |-> p, amt |-> a,
                     shown |-> shown, cap |-> FALSE]
  <1>3. new \in NiOrder /\ new.state = "open" /\ new.pay = p
    BY <1>1 DEF NiOrder, OrderStates
  <1>4. /\ orders[o].state = "none" /\ UNCHANGED payment
        /\ UNCHANGED integration \/ integration' = [integration EXCEPT ![p] = o]
    BY DEF CreateCheckout, CreateCheckoutLost, RegisterOrder
  <1>5. Kept /\ TablesSound'
    <2> HIDE DEF new, p
    <2> QED BY <1>1, <1>2, <1>3, <1>4, OrderCreated DEF new
  <1>6. CASE UNCHANGED task \/ Done(w)
    <2>1. CASE UNCHANGED task
      <3>1. TaskIsSound(task[w])' BY <1>5, <2>1, TaskKept
      <3> QED BY <1>5, <2>1, <3>1, StepOf
    <2>2. CASE Done(w)
      BY <1>1, <1>5, <2>2, WriteSound
    <2> QED BY <1>6, <2>1, <2>2
  <1>7. CASE task' = [task EXCEPT ![w].o = o, ![w].pc = "store"] /\ task[w].r # NoRef
    <2> DEFINE t == task[w]
    <2>1. /\ t'.o = o /\ t'.pc = "store" /\ t'.r = t.r /\ t'.p = t.p
          /\ t'.ev = t.ev /\ t'.snap = t.snap
          /\ \A v \in Workers : v # w => task'[v] = task[v]
      BY <1>7 DEF IInv, TypeOK, Task
    <2>2. t.r \in Refs BY <1>7, FieldTypes
    <2>3. t.ev = NoEvent BY <1>1, Held DEF TaskIsSound, InitiatePcs
    <2>4. orders'[o].pay = t.p BY <1>2 DEF IInv, TypeOK
    <2>5. /\ payment'[t.p].status # "none"
          /\ t.snap.tx # NoOrder => orders'[t.snap.tx].pay = t.p
          /\ t.snap.fulfilled => payment'[t.p].status \in {"paid", "refunded"}
      BY <1>1, <1>4, <1>5, HeldKept
    <2>6. t.p \in PaymentIds /\ o # NoOrder BY <1>1, IdsAssumption
    <2> HIDE DEF t
    <2>7. TaskIsSound(t)'
      BY <2>1, <2>2, <2>3, <2>4, <2>5, <2>6 DEF TaskIsSound, Settled, WebhookPcs
    <2> QED BY <1>5, <2>1, <2>7, StepOf DEF t
  <1> QED BY <1>6, <1>7 DEF CreateCheckout, CreateCheckoutLost

LEMMA RetrySound ==
  ASSUME IInv, NEW w \in Workers, NEW p \in PaymentIds, RetryCheckout(w, p)
  PROVE  StepSound
  <1>1. UNCHANGED <<payment, integration>> /\ payment[p].status # "none"
    BY DEF RetryCheckout
  <1>2. CASE integration[p] = NoOrder
    <2>1. task' = [task EXCEPT ![w] = [IdleTask EXCEPT !.p = p, !.pc = "checkout"]]
      BY <1>2 DEF RetryCheckout
    <2>2. UNCHANGED orders BY <1>2 DEF RetryCheckout
    <2>3. Kept /\ TablesSound' BY <1>1, <2>2, QuietOf
    <2>4. task'[w] = [IdleTask EXCEPT !.p = p, !.pc = "checkout"]
      BY <2>1 DEF IInv, TypeOK
    <2>5. \A v \in Workers : v # w => task'[v] = task[v]
      BY <2>1 DEF IInv, TypeOK
    <2> DEFINE t == task[w]
    <2>6. /\ t'.p = p /\ t'.o = NoOrder /\ t'.ev = NoEvent /\ t'.pc = "checkout"
          /\ t'.snap.tx = NoOrder /\ ~t'.snap.fulfilled
      BY <2>4 DEF IdleTask, Snap, NoRow
    <2> HIDE DEF t
    <2>7. TaskIsSound(t)' BY <1>1, <2>6 DEF TaskIsSound, WebhookPcs
    <2> QED BY <2>3, <2>5, <2>7, StepOf DEF t
  <1>3. CASE integration[p] # NoOrder
    <2>1. /\ orders' = [orders EXCEPT ![integration[p]].shown = TRUE]
          /\ UNCHANGED task
      BY <1>3 DEF RetryCheckout
    <2>2. integration[p] \in Orders /\ orders[integration[p]].pay = p
      BY <1>3 DEF IInv, TypeOK, Inductive, RowsAreSound
    <2>3. OnlyShown BY <2>1, <2>2, PageShown
    <2>4. Kept /\ TablesSound' BY <1>1, <2>3, TablesQuiet
    <2>5. TaskIsSound(task[w])' BY <2>1, <2>4, TaskKept
    <2> QED BY <2>1, <2>4, <2>5, StepOf
  <1> QED BY <1>2, <1>3

LEMMA NiSound ==
  ASSUME IInv, Environment
  PROVE  StepSound
  <1>1. Kept /\ TablesSound' BY OrderMoved
  <1>2. UNCHANGED task
    BY DEF Environment, CustomerPays, OrderFails, OrderRefunded, OrderReversed,
           NiMoves
  <1>3. \A w \in Workers : TaskIsSound(task[w])' BY <1>1, <1>2, TaskKept
  <1> QED BY <1>1, <1>3 DEF StepSound

LEMMA AnyStepSound ==
  ASSUME IInv, Next
  PROVE  StepSound
  <1>1. ASSUME NEW w \in Workers, Progress(w)
        PROVE  StepSound
    BY <1>1, DeclareSound, InsertSound, CheckoutReads, QuitSound, WaitSound,
       VerifySound, RefreshSound, FailingSound, CheckoutSound, StoreSound,
       ConfirmSound, FlagSound, SettleSound, RefundSound, PlanSound, FetchSound
    DEF Progress
  <1>2. ASSUME NEW w \in Workers, Arrival(w)
        PROVE  StepSound
    BY <1>2, InitiateSound, WebhookSound, CheckoutReads, RetrySound DEF Arrival
  <1>3. ASSUME NEW w \in Workers, FaultStep(w)
        PROVE  StepSound
    BY <1>3, VerifySound, FailingSound, QuitSound, CheckoutSound DEF FaultStep
  <1> QED BY <1>1, <1>2, <1>3, NiSound DEF Next

-----------------------------------------------------------------------------
(* The ledger: every step is one of its steps, or none.                    *)

Led == [p \in PaymentIds |-> payment[p].status]
Funded == {p \in PaymentIds : \E o \in Orders : Covers(o, p)}

\* No captured order changes, and none comes up.
MoneySame ==
    \A o \in Orders : orders[o].cap \/ orders'[o].cap =>
        /\ orders'[o].cap = orders[o].cap
        /\ orders'[o].pay = orders[o].pay
        /\ orders'[o].amt = orders[o].amt

LEMMA FundedSame ==
  ASSUME IInv, Kept, MoneySame
  PROVE  Funded' = Funded
  <1>1. ASSUME NEW o \in Orders, NEW p \in PaymentIds, Covers(o, p)'
        PROVE  Covers(o, p)
    <2>1. /\ orders'[o].cap /\ orders'[o].pay = p
          /\ orders'[o].amt = payment'[p].amt
      BY <1>1 DEF Covers
    <2>2. /\ orders[o].cap /\ orders[o].pay = p
          /\ orders[o].amt = orders'[o].amt
      BY <2>1 DEF MoneySame
    <2>3. payment[p].status # "none" BY <2>2, OwnedOrder
    <2>4. payment'[p].amt = payment[p].amt BY <2>3 DEF Kept, RowsKept
    <2> QED BY <2>1, <2>2, <2>4 DEF Covers
  <1>2. \A o \in Orders, p \in PaymentIds : Covers(o, p) => Covers(o, p)'
    BY CoversKept
  <1> QED BY <1>1, <1>2 DEF Funded

\* The ledger steps, over Led and Funded.
LedgerMoves ==
    \/ Led' = Led /\ Funded' = Funded /\ grants' = grants
    \/ \E p \in PaymentIds :
         \/ /\ Funded' = Funded /\ grants' = grants
            /\ \/ payment[p].status = "none" /\ Led' = [Led EXCEPT ![p] = "pending"]
               \/ payment[p].status = "pending" /\ Led' = [Led EXCEPT ![p] = "failed"]
               \/ payment[p].status = "paid" /\ Led' = [Led EXCEPT ![p] = "refunded"]
         \/ /\ payment[p].status # "none"
            /\ Funded' = Funded \cup {p} /\ Led' = Led /\ grants' = grants
         \/ /\ payment[p].status = "pending" /\ p \in Funded
            /\ Led' = [Led EXCEPT ![p] = "paid"] /\ Funded' = Funded
            /\ grants' = [grants EXCEPT ![p] = @ + 1]

LEMMA ShownIsNotMoney ==
  ASSUME orders \in [Orders -> NiOrder], NEW o,
         UNCHANGED orders \/ orders' = [orders EXCEPT ![o].shown = TRUE]
  PROVE  MoneySame
  <1>1. ASSUME NEW x \in Orders
        PROVE  /\ orders'[x].cap = orders[x].cap
               /\ orders'[x].pay = orders[x].pay
               /\ orders'[x].amt = orders[x].amt
    <2>1. orders[x] \in NiOrder OBVIOUS
    <2>2. orders'[x] = orders[x] \/ orders'[x] = [orders[x] EXCEPT !.shown = TRUE]
      OBVIOUS
    <2> QED BY <2>1, <2>2 DEF NiOrder
  <1> QED BY <1>1 DEF MoneySame

\* The steps that leave every payment's status and the grants alone.
LEMMA LedgerQuiet ==
  ASSUME IInv, NEW w \in Workers,
         \/ QuietStep(w) \/ DeclareSale(w) \/ Downgrade(w) \/ Acknowledge(w)
         \/ VerifyUnavailable(w) \/ Abandon(w)
         \/ \E o \in Orders, a \in Amounts :
               CreateCheckout(w, o, a) \/ CreateCheckoutLost(w, o, a)
         \/ \E p \in PaymentIds : RetryCheckout(w, p)
  PROVE  UNCHANGED <<payment, grants>> /\ MoneySame
  <1>0. orders \in [Orders -> NiOrder] BY DEF IInv, TypeOK
  <1>1. CASE \/ QuietStep(w) \/ DeclareSale(w) \/ Downgrade(w) \/ Acknowledge(w)
             \/ VerifyUnavailable(w) \/ Abandon(w)
    <2>1. UNCHANGED <<payment, grants, orders>>
      BY <1>1 DEF QuietStep, Initiate, ReturnExisting, SyncStart, CreateRaced,
                  WaitForUrl, VerifyCheckout, RefreshRead, Resync, ConfirmWithNi,
                  ReadPlan, ReceiveWebhook, SyncFetch, DeclareSale, Downgrade,
                  Acknowledge, VerifyUnavailable, Abandon
    <2> QED BY <2>1 DEF MoneySame
  <1>2. ASSUME NEW o \in Orders, NEW a \in Amounts,
               CreateCheckout(w, o, a) \/ CreateCheckoutLost(w, o, a)
        PROVE  UNCHANGED <<payment, grants>> /\ MoneySame
    <2>1. UNCHANGED <<payment, grants>> /\ orders[o].state = "none"
      BY <1>2 DEF CreateCheckout, CreateCheckoutLost, RegisterOrder
    <2>2. PICK shown \in BOOLEAN : orders' = [orders EXCEPT ![o] =
                    [state |-> "open", pay |-> task[w].p, amt |-> a,
                     shown |-> shown, cap |-> FALSE]]
      BY <1>2 DEF CreateCheckout, CreateCheckoutLost, RegisterOrder
    <2>3. ~orders[o].cap
      BY <2>1 DEF IInv, Inductive, OrdersAreOurs, NoNiOrder
    <2> QED BY <1>0, <2>1, <2>2, <2>3 DEF MoneySame
  <1>3. ASSUME NEW p \in PaymentIds, RetryCheckout(w, p)
        PROVE  UNCHANGED <<payment, grants>> /\ MoneySame
    <2>1. UNCHANGED orders \/ orders' = [orders EXCEPT ![integration[p]].shown = TRUE]
      BY <1>3 DEF RetryCheckout
    <2>2. MoneySame BY <1>0, <2>1, ShownIsNotMoney
    <2> QED BY <1>3, <2>2 DEF RetryCheckout
  <1> QED BY <1>1, <1>2, <1>3

\* The steps that write one payment's row but do not settle it.
LEMMA LedgerWrites ==
  ASSUME IInv, NEW w \in Workers,
         \/ RefreshWrite(w) \/ Archive(w) \/ CheckoutError(w) \/ StoreCheckout(w)
         \/ FlagForReview(w) \/ MarkFailed(w) \/ MarkRefunded(w)
         \/ \E p \in PaymentIds : CreatePending(w, p) \/ Recreate(w, p)
  PROVE  /\ UNCHANGED grants /\ MoneySame
         /\ \/ Led' = Led
            \/ \E p \in PaymentIds :
                  \/ payment[p].status = "none" /\ Led' = [Led EXCEPT ![p] = "pending"]
                  \/ payment[p].status = "pending" /\ Led' = [Led EXCEPT ![p] = "failed"]
                  \/ payment[p].status = "paid" /\ Led' = [Led EXCEPT ![p] = "refunded"]
  <1>0. /\ payment \in [PaymentIds -> Row] /\ orders \in [Orders -> NiOrder]
    BY DEF IInv, TypeOK
  <1>1. UNCHANGED grants /\ MoneySame
    <2>1. UNCHANGED orders \/ orders' = [orders EXCEPT ![task[w].o].shown = TRUE]
      BY DEF RefreshWrite, Archive, CheckoutError, StoreCheckout, FlagForReview,
             MarkFailed, MarkRefunded, CreatePending, Recreate
    <2>2. UNCHANGED grants
      BY DEF RefreshWrite, Archive, CheckoutError, StoreCheckout, FlagForReview,
             MarkFailed, MarkRefunded, CreatePending, Recreate
    <2> QED BY <1>0, <2>1, <2>2, ShownIsNotMoney
  <1>2. CASE RefreshWrite(w) \/ StoreCheckout(w) \/ FlagForReview(w)
    <2>1. ASSUME NEW p \in PaymentIds
          PROVE  payment'[p].status = payment[p].status
      <3>1. payment[p] \in Row BY <1>0
      <3>2. CASE RefreshWrite(w) BY <1>0, <3>1, <3>2 DEF RefreshWrite, Row
      <3>3. CASE StoreCheckout(w)
        BY <1>0, <3>1, <3>3 DEF StoreCheckout, StoredRow, Row
      <3>4. CASE FlagForReview(w) BY <1>0, <3>1, <3>4 DEF FlagForReview, Row
      <3> QED BY <1>2, <3>2, <3>3, <3>4
    <2> QED BY <1>1, <2>1 DEF Led
  <1>3. CASE Archive(w) \/ MarkFailed(w) \/ CheckoutError(w)
    <2> DEFINE p == task[w].p
    <2>1. p \in PaymentIds
      BY <1>3, TaskRow DEF Archive, MarkFailed, CheckoutError
    <2>2. \/ UNCHANGED payment
          \/ /\ payment[p].status = "pending"
             /\ payment' = [payment EXCEPT ![p].status = "failed"]
      BY <1>3 DEF Archive, MarkFailed, CheckoutError
    <2> HIDE DEF p
    <2>3. CASE UNCHANGED payment BY <1>1, <2>3 DEF Led
    <2>4. CASE /\ payment[p].status = "pending"
               /\ payment' = [payment EXCEPT ![p].status = "failed"]
      <3>1. payment'[p] = [payment[p] EXCEPT !.status = "failed"] BY <1>0, <2>1, <2>4
      <3>2. payment[p] \in Row BY <1>0, <2>1
      <3>3. payment'[p].status = "failed" BY <3>1, <3>2 DEF Row
      <3>4. \A q \in PaymentIds : q # p => payment'[q] = payment[q] BY <1>0, <2>4
      <3>5. Led' = [Led EXCEPT ![p] = "failed"] BY <2>1, <3>3, <3>4 DEF Led
      <3> QED BY <1>1, <2>1, <2>4, <3>5
    <2> QED BY <2>2, <2>3, <2>4
  <1>4. CASE MarkRefunded(w)
    <2> DEFINE p == task[w].p
    <2>1. p \in PaymentIds /\ Settled(p)
      BY <1>4, TaskRow, Held DEF MarkRefunded, TaskIsSound
    <2>2. \/ UNCHANGED payment
          \/ /\ payment[p].status # "refunded"
             /\ payment'[p].status = "refunded"
             /\ \A q \in PaymentIds : q # p => payment'[q] = payment[q]
      BY <1>0, <1>4, <2>1 DEF MarkRefunded, Row
    <2> HIDE DEF p
    <2>3. CASE UNCHANGED payment BY <1>1, <2>3 DEF Led
    <2>4. CASE /\ payment[p].status # "refunded"
               /\ payment'[p].status = "refunded"
               /\ \A q \in PaymentIds : q # p => payment'[q] = payment[q]
      <3>1. payment[p].status = "paid" BY <2>1, <2>4 DEF Settled
      <3>2. Led' = [Led EXCEPT ![p] = "refunded"] BY <2>1, <2>4 DEF Led
      <3> QED BY <1>1, <2>1, <3>1, <3>2
    <2> QED BY <2>2, <2>3, <2>4
  <1>5. ASSUME NEW p \in PaymentIds, CreatePending(w, p) \/ Recreate(w, p)
        PROVE  /\ payment[p].status = "none"
               /\ Led' = [Led EXCEPT ![p] = "pending"]
    <2>1. /\ payment[p].status = "none"
          /\ payment' = [payment EXCEPT ![p] = NewRow(w)]
      BY <1>5 DEF CreatePending, Recreate, InsertPending, FreeRows
    <2>2. NewRow(w).status = "pending" BY DEF NewRow, NoRow
    <2> QED BY <1>0, <2>1, <2>2 DEF Led
  <1> QED BY <1>1, <1>2, <1>3, <1>4, <1>5

LEMMA LedgerSettles ==
  ASSUME IInv, NEW w \in Workers, ProcessSuccessfulPayment(w)
  PROVE  LedgerMoves
  <1> DEFINE t == task[w]
             p == t.p
  <1>0. /\ payment \in [PaymentIds -> Row] /\ orders \in [Orders -> NiOrder]
        /\ grants \in [PaymentIds -> Nat]
    BY DEF IInv, TypeOK
  <1>1. /\ p \in PaymentIds /\ payment[p] \in Row /\ payment[p].ref \in Refs
    BY TaskRow DEF ProcessSuccessfulPayment
  <1>2. Funded' = Funded
    <2>1. UNCHANGED orders BY DEF ProcessSuccessfulPayment
    <2>2. MoneySame BY <2>1 DEF MoneySame
    <2>3. Kept BY SettleSound DEF StepSound
    <2> QED BY <2>2, <2>3, FundedSame
  <1>3. CASE ~MaySettle(p)
    <2>1. UNCHANGED <<payment, grants>>
      BY <1>3 DEF ProcessSuccessfulPayment
    <2> QED BY <1>2, <2>1 DEF LedgerMoves, Led
  <1>4. CASE MaySettle(p)
    <2>1. p \in Funded
      BY <1>1, FulfilOrder DEF ProcessSuccessfulPayment, Funded
    <2>2. payment[p].status = "pending" BY <1>4 DEF MaySettle
    <2>3. ~t.snap.fulfilled
      <3>1. TaskIsSound(t) BY Held
      <3> QED BY <2>2, <3>1 DEF TaskIsSound, Settled
    <2>4. Extends(t) \/ Kind[payment[p].ref] = "listing_fee"
      BY <1>1, <2>3, KindAssumption DEF Extends, Kinds
    <2>5. grants' = [grants EXCEPT ![p] = @ + 1]
      BY <1>4, <2>4 DEF ProcessSuccessfulPayment
    <2>6. payment' = [payment EXCEPT ![p] = PaidRow(t)]
      BY <1>4 DEF ProcessSuccessfulPayment
    <2>7. PaidRow(t).status = "paid" BY <1>1 DEF PaidRow, Row
    <2>8. Led' = [Led EXCEPT ![p] = "paid"] BY <1>0, <1>1, <2>6, <2>7 DEF Led
    <2> QED BY <1>1, <1>2, <2>1, <2>2, <2>5, <2>8 DEF LedgerMoves
  <1> QED BY <1>3, <1>4

LEMMA LedgerFunds ==
  ASSUME IInv, Environment
  PROVE  LedgerMoves
  <1>0. orders \in [Orders -> NiOrder] BY DEF IInv, TypeOK
  <1>1. UNCHANGED <<payment, grants>>
    BY DEF Environment, CustomerPays, OrderFails, OrderRefunded, OrderReversed,
           NiMoves
  <1>2. PICK o \in Orders, to \in OrderStates :
          /\ orders[o].state # "none"
          /\ orders' = [orders EXCEPT ![o].state = to,
                                      ![o].cap = @ \/ to = "captured"]
    BY DEF Environment, CustomerPays, OrderFails, OrderRefunded, OrderReversed,
           NiMoves, OrderStates
  <1> DEFINE p == orders[o].pay
  <1>3. p \in PaymentIds /\ payment[p].status # "none" BY <1>2, OwnedOrder
  <1>4. /\ orders'[o].pay = p /\ orders'[o].amt = orders[o].amt
        /\ orders'[o].cap = (orders[o].cap \/ to = "captured")
        /\ \A x \in Orders : x # o => orders'[x] = orders[x]
    BY <1>0, <1>2 DEF NiOrder
  <1>5. \A x \in Orders, q \in PaymentIds : Covers(x, q) => Covers(x, q)'
    <2>1. Kept BY OrderMoved
    <2> QED BY <2>1, CoversKept
  <1>6. ASSUME NEW x \in Orders, NEW q \in PaymentIds, Covers(x, q)', q # p
        PROVE  Covers(x, q)
    <2>1. x # o BY <1>4, <1>6 DEF Covers
    <2> QED BY <1>1, <1>4, <1>6, <2>1 DEF Covers
  <1> HIDE DEF p
  <1>7. Funded' = Funded \/ Funded' = Funded \cup {p}
    BY <1>3, <1>5, <1>6 DEF Funded
  <1> QED BY <1>1, <1>3, <1>7 DEF LedgerMoves, Led

LEMMA LedgerStep ==
  ASSUME IInv, [Next]_vars
  PROVE  LedgerMoves
  <1>1. CASE UNCHANGED vars
    BY <1>1 DEF vars, LedgerMoves, Led, Funded, Covers
  <1>2. CASE Next
    <2>1. Kept BY <1>2, AnyStepSound DEF StepSound
    <2>2. ASSUME UNCHANGED <<payment, grants>>, MoneySame
          PROVE  LedgerMoves
      BY <2>1, <2>2, FundedSame DEF LedgerMoves, Led
    <2>3. ASSUME NEW w \in Workers,
                 \/ RefreshWrite(w) \/ Archive(w) \/ CheckoutError(w)
                 \/ StoreCheckout(w) \/ FlagForReview(w) \/ MarkFailed(w)
                 \/ MarkRefunded(w)
                 \/ \E p \in PaymentIds : CreatePending(w, p) \/ Recreate(w, p)
          PROVE  LedgerMoves
      <3>1. UNCHANGED grants /\ MoneySame BY <2>3, LedgerWrites
      <3>2. Funded' = Funded BY <2>1, <3>1, FundedSame
      <3> QED BY <2>3, <3>1, <3>2, LedgerWrites DEF LedgerMoves
    <2>4. ASSUME NEW w \in Workers,
                 \/ QuietStep(w) \/ DeclareSale(w) \/ Downgrade(w)
                 \/ Acknowledge(w) \/ VerifyUnavailable(w) \/ Abandon(w)
                 \/ \E o \in Orders, a \in Amounts :
                       CreateCheckout(w, o, a) \/ CreateCheckoutLost(w, o, a)
                 \/ \E p \in PaymentIds : RetryCheckout(w, p)
          PROVE  LedgerMoves
      <3>1. UNCHANGED <<payment, grants>> /\ MoneySame BY <2>4, LedgerQuiet
      <3> QED BY <2>2, <3>1
    <2>5. ASSUME NEW w \in Workers, Progress(w) \/ Arrival(w) \/ FaultStep(w)
          PROVE  LedgerMoves
      BY <2>3, <2>4, <2>5, LedgerSettles
      DEF Progress, Arrival, FaultStep, QuietStep
    <2> QED BY <1>2, <2>5, LedgerFunds DEF Next
  <1> QED BY <1>1, <1>2

-----------------------------------------------------------------------------
(* The invariant.                                                          *)

LEMMA InitSound ==
  ASSUME Init
  PROVE  IInv
  <1>1. NoRow \in Row BY DEF NoRow, Row, Statuses
  <1>2. NoNiOrder \in NiOrder BY DEF NoNiOrder, NiOrder, OrderStates
  <1>3. TypeOK
    BY <1>1, <1>2, IdleIsTask, MaxFaultsAssumption DEF Init, TypeOK, Messages
  <1>4. \A p \in PaymentIds : payment[p] = NoRow /\ integration[p] = NoOrder
    BY DEF Init
  <1>5. OrdersAreOurs BY DEF Init, OrdersAreOurs, NoNiOrder
  <1>6. RowsAreSound
    <2>1. NoRow.status = "none" /\ ~NoRow.fulfilled BY DEF NoRow
    <2> QED BY <1>4, <2>1 DEF RowsAreSound
  <1>7. ASSUME NEW w \in Workers PROVE TaskIsSound(task[w])
    <2> DEFINE t == task[w]
    <2>1. t = IdleTask BY DEF Init
    <2>2. /\ t.pc = "idle" /\ t.p = NoPayment /\ t.o = NoOrder /\ t.ev = NoEvent
          /\ t.snap.tx = NoOrder /\ ~t.snap.fulfilled
      BY <2>1 DEF IdleTask, Snap, NoRow
    <2> HIDE DEF t
    <2>3. TaskIsSound(t) BY <2>2 DEF TaskIsSound, InitiatePcs, WebhookPcs
    <2> QED BY <2>3 DEF t
  <1>8. PaidMeansCaptured /\ StoredOrderIsOwn /\ OnePendingPerReference
    BY <1>4 DEF PaidMeansCaptured, StoredOrderIsOwn, OnePendingPerReference, NoRow
  <1>9. GrantedOnce
    <2>1. \A p \in PaymentIds : payment[p].status = "none" BY <1>4 DEF NoRow
    <2>2. \A p \in PaymentIds : grants[p] = 0 BY DEF Init
    <2> QED BY <2>1, <2>2 DEF GrantedOnce
  <1> QED BY <1>3, <1>5, <1>6, <1>7, <1>8, <1>9 DEF IInv, Inductive

\* The statuses move forward, and a payment is granted when it is settled.
LEMMA LedgerKeeps ==
  ASSUME IInv, LedgerMoves
  PROVE  /\ GrantedOnce'
         /\ \A p \in PaymentIds : Forward(payment[p].status, payment'[p].status)
  <1>1. /\ grants \in [PaymentIds -> Nat] /\ GrantedOnce
    BY DEF IInv, TypeOK, Inductive
  <1>2. \A p \in PaymentIds : /\ Led[p] = payment[p].status
                              /\ Led'[p] = payment'[p].status
    BY DEF Led
  <1>3. Led = [p \in PaymentIds |-> Led[p]] BY DEF Led
  <1>4. ASSUME NEW q \in PaymentIds
        PROVE  /\ grants'[q] = IF payment'[q].status \in {"paid", "refunded"}
                               THEN 1 ELSE 0
               /\ Forward(payment[q].status, payment'[q].status)
    <2>1. grants[q] = IF Led[q] \in {"paid", "refunded"} THEN 1 ELSE 0
      BY <1>1, <1>2 DEF GrantedOnce
    <2>2. CASE Led' = Led /\ grants' = grants
      BY <1>2, <2>1, <2>2 DEF Forward
    <2>3. ASSUME NEW p \in PaymentIds, grants' = grants,
                 \/ Led[p] = "none" /\ Led' = [Led EXCEPT ![p] = "pending"]
                 \/ Led[p] = "pending" /\ Led' = [Led EXCEPT ![p] = "failed"]
                 \/ Led[p] = "paid" /\ Led' = [Led EXCEPT ![p] = "refunded"]
          PROVE  /\ grants'[q] = IF Led'[q] \in {"paid", "refunded"} THEN 1 ELSE 0
                 /\ Forward(Led[q], Led'[q])
      BY <1>3, <2>1, <2>3 DEF Forward
    <2>4. ASSUME NEW p \in PaymentIds, Led[p] = "pending",
                 Led' = [Led EXCEPT ![p] = "paid"],
                 grants' = [grants EXCEPT ![p] = @ + 1]
          PROVE  /\ grants'[q] = IF Led'[q] \in {"paid", "refunded"} THEN 1 ELSE 0
                 /\ Forward(Led[q], Led'[q])
      BY <1>1, <1>3, <2>1, <2>4 DEF Forward
    <2> QED BY <1>2, <2>2, <2>3, <2>4 DEF LedgerMoves
  <1> QED BY <1>4 DEF GrantedOnce

LEMMA IInvStep ==
  ASSUME IInv, [Next]_vars
  PROVE  IInv'
  <1>1. TypeOK' BY TypeStep
  <1>2. GrantedOnce' BY LedgerStep, LedgerKeeps
  <1>3. TablesSound' /\ \A w \in Workers : TaskIsSound(task[w])'
    <2>1. CASE Next BY <2>1, AnyStepSound DEF StepSound
    <2>2. CASE UNCHANGED vars
      <3>1. UNCHANGED <<payment, integration, orders, task>> BY <2>2 DEF vars
      <3>2. OnlyShown BY <3>1 DEF OnlyShown
      <3>3. Kept /\ TablesSound' BY <3>1, <3>2, TablesQuiet
      <3> QED BY <3>1, <3>3, TaskKept
    <2> QED BY <2>1, <2>2
  <1> QED BY <1>1, <1>2, <1>3 DEF IInv, Inductive, TablesSound

\* IInv holds in every reachable state: what each handler of
\* payments.service.ts has read and acts on later stays true of the tables.
THEOREM Invariance == Spec => []IInv
  BY InitSound, IInvStep, PTL DEF Spec

\* Every variable has its type.
THEOREM TypeCorrect == Spec => []TypeOK
  <1>1. IInv => TypeOK BY DEF IInv
  <1> QED BY <1>1, Invariance, PTL

\* Handlers' snapshots, tables and NI's orders agree (the invariant of the
\* runs that TLC checks).
THEOREM HandlersAreSound == Spec => []Inductive
  <1>1. IInv => Inductive BY DEF IInv
  <1> QED BY <1>1, Invariance, PTL

\* A payment is paid only on the strength of a captured order of its own, for
\* its full price (verifyNiOrderBeforeFulfilment, processSuccessfulPayment).
THEOREM PaidIsCaptured == Spec => []PaidMeansCaptured
  <1>1. IInv => PaidMeansCaptured BY DEF IInv, Inductive
  <1> QED BY <1>1, Invariance, PTL

\* The NI order stored with a payment is the payment's own.
THEOREM StoredIsOwn == Spec => []StoredOrderIsOwn
  <1>1. IInv => StoredOrderIsOwn BY DEF IInv, Inductive
  <1> QED BY <1>1, Invariance, PTL

\* At most one open checkout per reference, with any number of processes.
THEOREM OneOpenCheckout == Spec => []OnePendingPerReference
  <1>1. IInv => OnePendingPerReference BY DEF IInv, Inductive
  <1> QED BY <1>1, Invariance, PTL

\* A purchase is granted exactly once, when the payment is settled, however
\* many handlers, redeliveries and crashes there are.
THEOREM GrantIsOnce == Spec => []GrantedOnce
  <1>1. IInv => GrantedOnce BY DEF IInv, Inductive
  <1> QED BY <1>1, Invariance, PTL

\* A payment's status only moves forward.
THEOREM StatusMovesForward == Spec => StatusOnlyForward
  <1>1. ASSUME IInv, [Next]_vars
        PROVE  [\A p \in PaymentIds :
                  Forward(payment[p].status, payment'[p].status)]_vars
    BY <1>1, LedgerStep, LedgerKeeps
  <1> QED BY <1>1, Invariance, PTL DEF Spec, StatusOnlyForward

\* The handlers implement the abstract ledger.
THEOREM Refinement == Spec => ImplementsLedger
  <1>1. Init => Ledger!LInit
    <2> SUFFICES ASSUME Init PROVE Ledger!LInit OBVIOUS
    <2>1. \A p \in PaymentIds : payment[p].status = "none"
      BY DEF Init, NoRow
    <2>2. \A o \in Orders : ~orders[o].cap BY DEF Init, NoNiOrder
    <2> QED BY <2>1, <2>2 DEF Init, Ledger!LInit, Covers
  <1>2. ASSUME IInv, [Next]_vars
        PROVE  [Ledger!LNext]_(Ledger!lvars)
    <2>1. LedgerMoves BY <1>2, LedgerStep
    <2>2. \A p \in PaymentIds : Led[p] = payment[p].status BY DEF Led
    <2> QED BY <2>1, <2>2
            DEF LedgerMoves, Led, Funded, Ledger!LNext, Ledger!lvars, Ledger!Open,
                Ledger!Drop, Ledger!Fund, Ledger!Settle, Ledger!Refund
  <1> QED BY <1>1, <1>2, Invariance, PTL DEF Spec, ImplementsLedger, Ledger!LSpec
=============================================================================
