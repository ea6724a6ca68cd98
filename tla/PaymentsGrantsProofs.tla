------------------------ MODULE PaymentsGrantsProofs ------------------------
(***************************************************************************)
(* What a user holds is paid for: EntitlementIsCovered, for every set of   *)
(* payments, orders, references and workers.                               *)
(*                                                                         *)
(* The argument.  A settled payment stays settled and keeps its reference  *)
(* and its amount (RowsKept, AnyStepSound), so the settled payments of a   *)
(* reference only grow.  Only processSuccessfulPayment adds a period, and  *)
(* it adds a payment to them in the same step; every other writer leaves   *)
(* the periods and the fee's status alone, and either leaves the plan or   *)
(* takes it away.  That a settled payment has its capture is               *)
(* PaidMeansCaptured.                                                      *)
(*                                                                         *)
(* The second half shows that Payments implements ReferencePayments.       *)
(***************************************************************************)
EXTENDS PaymentsProofs, FiniteSetTheorems

Backed(r) ==
    /\ sub[r].plan # 0 => \E p \in SettledOf(r) : payment[p].amt = sub[r].plan
    /\ sub[r].renew <= Cardinality(SettledOf(r))
    /\ fee[r].status = "paid" => SettledOf(r) # {}

GInv == IInv /\ \A r \in Refs : Backed(r)

\* No period is added, no plan is given and no fee is settled.
Grantless ==
    \A r \in Refs :
        /\ sub'[r].plan \in {0, sub[r].plan} /\ sub'[r].renew = sub[r].renew
        /\ fee'[r].status = fee[r].status

-----------------------------------------------------------------------------
\* Finite sets of payments: a subset has no more of them, one more is one more.
LEMMA Counts ==
  ASSUME NEW S \in SUBSET PaymentIds, NEW T \in SUBSET PaymentIds, S \subseteq T
  PROVE  /\ Cardinality(S) \in Nat /\ Cardinality(T) \in Nat
         /\ Cardinality(S) <= Cardinality(T)
         /\ \A x \in T \ S : Cardinality(S) + 1 <= Cardinality(T)
  <1>1. IsFiniteSet(S) /\ IsFiniteSet(T)
    BY FiniteAssumption, FS_Subset
  <1>2. Cardinality(S) \in Nat /\ Cardinality(T) \in Nat
    BY <1>1, FS_CardinalityType
  <1>3. Cardinality(S) <= Cardinality(T)
    BY <1>1, FS_Subset
  <1>4. ASSUME NEW x \in T \ S PROVE Cardinality(S) + 1 <= Cardinality(T)
    <2>1. Cardinality(S \cup {x}) = Cardinality(S) + 1
      BY <1>1, <1>4, FS_AddElement
    <2>2. S \cup {x} \in SUBSET T
      BY <1>4
    <2>3. Cardinality(S \cup {x}) <= Cardinality(T)
      BY <1>1, <2>2, FS_Subset
    <2> QED BY <2>1, <2>3
  <1> QED BY <1>2, <1>3, <1>4

\* Settled payments stay so, with their reference and their amount.
LEMMA SettledGrows ==
  ASSUME Kept, NEW r
  PROVE  /\ SettledOf(r) \subseteq SettledOf(r)'
         /\ \A p \in SettledOf(r) : payment'[p].amt = payment[p].amt
  <1>1. ASSUME NEW p \in SettledOf(r)
        PROVE  p \in SettledOf(r)' /\ payment'[p].amt = payment[p].amt
    <2>1. p \in PaymentIds /\ payment[p].status \in {"paid", "refunded"}
          /\ payment[p].ref = r
      BY <1>1 DEF SettledOf, Settled
    <2>2. payment'[p].status \in {"paid", "refunded"}
          /\ payment'[p].ref = r /\ payment'[p].amt = payment[p].amt
      BY <2>1 DEF Kept, RowsKept
    <2> QED BY <2>1, <2>2 DEF SettledOf, Settled
  <1> QED BY <1>1

LEMMA Periods ==
  ASSUME IInv, NEW r \in Refs
  PROVE  sub[r].renew \in Nat /\ sub[r] \in [plan : Amounts \cup {0}, renew : Nat]
  BY DEF IInv, TypeOK

LEMMA GrantlessBacked ==
  ASSUME IInv, Kept, Grantless, NEW r \in Refs, Backed(r)
  PROVE  Backed(r)'
  <1>1. SettledOf(r) \subseteq SettledOf(r)'
        /\ \A p \in SettledOf(r) : payment'[p].amt = payment[p].amt
    BY SettledGrows
  <1>2. SettledOf(r) \in SUBSET PaymentIds /\ SettledOf(r)' \in SUBSET PaymentIds
    BY DEF SettledOf
  <1>3. /\ Cardinality(SettledOf(r)) \in Nat
        /\ Cardinality(SettledOf(r)') \in Nat
        /\ Cardinality(SettledOf(r)) <= Cardinality(SettledOf(r)')
    BY <1>1, <1>2, Counts
  <1>4. sub'[r].renew <= Cardinality(SettledOf(r)')
    <2>1. sub[r].renew <= Cardinality(SettledOf(r))
      BY DEF Backed
    <2>2. sub'[r].renew = sub[r].renew
      BY DEF Grantless
    <2> QED BY <1>3, <2>1, <2>2, Periods
  <1>5. sub'[r].plan # 0 => \E p \in SettledOf(r)' : payment'[p].amt = sub'[r].plan
    BY <1>1 DEF Grantless, Backed
  <1>6. fee'[r].status = "paid" => SettledOf(r)' # {}
    BY <1>1 DEF Grantless, Backed
  <1> QED BY <1>4, <1>5, <1>6 DEF Backed

\* The settlement backs what it grants with the payment it settles.
LEMMA SettleBacked ==
  ASSUME IInv, NEW w \in Workers, ProcessSuccessfulPayment(w),
         NEW r \in Refs, Backed(r)
  PROVE  Backed(r)'
  <1> PICK t : t = task[w]
    OBVIOUS
  <1>0. /\ t.p \in PaymentIds /\ payment[t.p] \in Row /\ payment[t.p].ref \in Refs
    BY TaskRow DEF ProcessSuccessfulPayment
  <1> PICK p \in PaymentIds, q \in Refs : p = t.p /\ q = payment[p].ref
    BY <1>0
  <1>1. payment[p] \in Row
    BY <1>0
  <1>2. Kept
    BY SettleSound DEF StepSound
  <1>3. CASE ~MaySettle(p)
    <2>1. UNCHANGED <<sub, fee>>
      BY <1>3 DEF ProcessSuccessfulPayment
    <2>2. Grantless
      BY <2>1 DEF Grantless
    <2> QED BY <1>2, <2>2, GrantlessBacked
  <1>4. CASE MaySettle(p)
    <2>1. /\ payment' = [payment EXCEPT ![p] = PaidRow(t)]
          /\ sub' = sub \/ sub' = [sub EXCEPT ![q] = PaidSub(p)]
          /\ fee' = fee \/ fee' = [fee EXCEPT ![q].status = "paid"]
      BY <1>4 DEF ProcessSuccessfulPayment
    <2>2. p \notin SettledOf(q)
      BY <1>4 DEF MaySettle, SettledOf, Settled
    <2>3. p \in SettledOf(q)' /\ payment'[p].amt = payment[p].amt
      <3>1. /\ PaidRow(t).status = "paid" /\ PaidRow(t).ref = q
            /\ PaidRow(t).amt = payment[p].amt
        BY <1>1 DEF PaidRow, Row
      <3>2. payment'[p] = PaidRow(t)
        BY <1>1, <2>1 DEF IInv, TypeOK
      <3> QED BY <1>1, <3>1, <3>2 DEF SettledOf, Settled
    <2>4. SettledOf(r) \subseteq SettledOf(r)'
          /\ \A x \in SettledOf(r) : payment'[x].amt = payment[x].amt
      BY <1>2, SettledGrows
    <2>5. SettledOf(r) \in SUBSET PaymentIds /\ SettledOf(r)' \in SUBSET PaymentIds
      BY DEF SettledOf
    <2>6. /\ Cardinality(SettledOf(r)) \in Nat
          /\ Cardinality(SettledOf(r)') \in Nat
          /\ Cardinality(SettledOf(r)) <= Cardinality(SettledOf(r)')
          /\ r = q => Cardinality(SettledOf(r)) + 1 <= Cardinality(SettledOf(r)')
      BY <2>2, <2>3, <2>4, <2>5, Counts
    <2>7. /\ sub'[r] = sub[r]
             \/ (r = q /\ sub'[r].plan = payment[p].amt
                 /\ sub'[r].renew = sub[r].renew + 1)
          /\ fee'[r].status = fee[r].status \/ r = q
      <3>1. sub \in [Refs -> [plan : Amounts \cup {0}, renew : Nat]]
            /\ fee \in [Refs -> [status : {"pending", "paid"},
                                 commission : Amounts \cup {0}]]
        BY DEF IInv, TypeOK
      <3>2. sub'[r] = sub[r]
            \/ (r = q /\ sub'[r].plan = payment[p].amt
                /\ sub'[r].renew = sub[r].renew + 1)
        BY <1>1, <2>1, <3>1 DEF PaidSub
      <3>3. fee'[r].status = fee[r].status \/ r = q
        BY <2>1, <3>1
      <3> QED BY <3>2, <3>3
    <2>8. sub'[r].renew <= Cardinality(SettledOf(r)')
      BY <2>6, <2>7, Periods DEF Backed
    <2>9. sub'[r].plan # 0
          => \E x \in SettledOf(r)' : payment'[x].amt = sub'[r].plan
      <3>1. CASE sub'[r] = sub[r]
        BY <2>4, <3>1 DEF Backed
      <3>2. CASE r = q /\ sub'[r].plan = payment[p].amt
        BY <2>3, <3>2
      <3> QED BY <2>7, <3>1, <3>2
    <2>10. fee'[r].status = "paid" => SettledOf(r)' # {}
      <3>1. CASE fee'[r].status = fee[r].status
        BY <2>4, <3>1 DEF Backed
      <3>2. CASE r = q
        BY <2>3, <3>2
      <3> QED BY <2>7, <3>1, <3>2
    <2> QED BY <2>8, <2>9, <2>10 DEF Backed
  <1> QED BY <1>3, <1>4

\* Nobody else grants.
LEMMA OthersGrantNothing ==
  ASSUME IInv, Next, \A w \in Workers : ~ProcessSuccessfulPayment(w)
  PROVE  Grantless
  <1>1. ASSUME UNCHANGED <<sub, fee>> PROVE Grantless
    BY <1>1 DEF Grantless
  <1>2. ASSUME NEW w \in Workers, QuietStep(w) PROVE Grantless
    BY <1>1, <1>2 DEF QuietStep, Initiate, ReturnExisting, SyncStart, CreateRaced,
      WaitForUrl, VerifyCheckout, RefreshRead, Resync, ConfirmWithNi, ReadPlan,
      ReceiveWebhook, SyncFetch
  <1>3. ASSUME NEW w \in Workers, DeclareSale(w) PROVE Grantless
    <2>1. fee \in [Refs -> [status : {"pending", "paid"},
                            commission : Amounts \cup {0}]]
      BY DEF IInv, TypeOK
    <2>2. \A r \in Refs : fee'[r].status = fee[r].status
      BY <1>3, <2>1 DEF DeclareSale
    <2> QED BY <1>3, <2>2 DEF Grantless, DeclareSale
  <1>4. ASSUME NEW w \in Workers, Downgrade(w) PROVE Grantless
    <2>1. sub \in [Refs -> [plan : Amounts \cup {0}, renew : Nat]]
      BY DEF IInv, TypeOK
    <2>2. \A r \in Refs : sub'[r].plan \in {0, sub[r].plan}
                          /\ sub'[r].renew = sub[r].renew
      BY <1>4, <2>1 DEF Downgrade
    <2> QED BY <1>4, <2>2 DEF Grantless, Downgrade
  <1>5. ASSUME NEW w \in Workers, Progress(w) \/ Arrival(w) \/ FaultStep(w),
               ~QuietStep(w), ~DeclareSale(w), ~Downgrade(w)
        PROVE  Grantless
    <2>1. ~ProcessSuccessfulPayment(w)
      OBVIOUS
    <2>2. UNCHANGED <<sub, fee>>
      <3>1. CASE \/ \E p \in PaymentIds : CreatePending(w, p) \/ Recreate(w, p)
                                          \/ RetryCheckout(w, p)
                 \/ RefreshWrite(w) \/ Archive(w) \/ MarkFailed(w)
                 \/ FlagForReview(w) \/ MarkRefunded(w) \/ Acknowledge(w)
        BY <3>1 DEF CreatePending, Recreate, RetryCheckout, RefreshWrite, Archive,
             MarkFailed, FlagForReview, MarkRefunded, Acknowledge
      <3>2. CASE \/ \E o \in Orders, a \in Amounts :
                       CreateCheckout(w, o, a) \/ CreateCheckoutLost(w, o, a)
                 \/ CheckoutError(w) \/ StoreCheckout(w) \/ VerifyUnavailable(w)
                 \/ Abandon(w)
        BY <3>2 DEF CreateCheckout, CreateCheckoutLost, CheckoutError, StoreCheckout,
             VerifyUnavailable, Abandon
      <3> QED BY <1>5, <2>1, <3>1, <3>2 DEF Progress, Arrival, FaultStep, QuietStep
    <2> QED BY <1>1, <2>2
  <1>6. ASSUME Environment PROVE Grantless
    BY <1>1, <1>6 DEF Environment, CustomerPays, OrderFails, OrderRefunded,
      OrderReversed, NiMoves
  <1> QED BY <1>2, <1>3, <1>4, <1>5, <1>6 DEF Next

-----------------------------------------------------------------------------
LEMMA GInvInit ==
  ASSUME Init
  PROVE  GInv
  <1>1. ASSUME NEW r \in Refs PROVE Backed(r)
    <2>1. sub[r].plan = 0 /\ sub[r].renew = 0 /\ fee[r].status = "pending"
      BY DEF Init
    <2>2. SettledOf(r) \in SUBSET PaymentIds
      BY DEF SettledOf
    <2>3. Cardinality(SettledOf(r)) \in Nat
      BY <2>2, Counts
    <2> QED BY <2>1, <2>3 DEF Backed
  <1> QED BY <1>1, InitSound DEF GInv

LEMMA GInvStep ==
  ASSUME GInv, [Next]_vars
  PROVE  GInv'
  <1>1. IInv /\ IInv'
    BY IInvStep DEF GInv
  <1>2. ASSUME NEW r \in Refs PROVE Backed(r)'
    <2>1. Backed(r)
      BY DEF GInv
    <2>2. CASE UNCHANGED vars
      BY <2>1, <2>2 DEF vars, Backed, SettledOf, Settled
    <2>3. ASSUME NEW w \in Workers, ProcessSuccessfulPayment(w) PROVE Backed(r)'
      BY <1>1, <2>1, <2>3, SettleBacked
    <2>4. CASE Next /\ \A w \in Workers : ~ProcessSuccessfulPayment(w)
      <3>1. Kept
        BY <1>1, <2>4, AnyStepSound DEF StepSound
      <3> QED BY <1>1, <2>1, <2>4, <3>1, OthersGrantNothing, GrantlessBacked
    <2> QED BY <2>2, <2>3, <2>4
  <1> QED BY <1>1, <1>2 DEF GInv

\* Nobody holds a plan, a period or a settled fee that no captured order of that
\* price stands behind, however webhook, sync, retry and refund race.
THEOREM EntitlementsCovered == Spec => []EntitlementIsCovered
  <1>1. GInv => EntitlementIsCovered
    <2> SUFFICES ASSUME GInv, NEW r \in Refs
                 PROVE  LET covered == {p \in PaymentIds : payment[p].ref = r /\
                                           \E o \in Orders : Covers(o, p)}
                        IN  /\ sub[r].plan # 0 =>
                                 \E p \in covered : payment[p].amt = sub[r].plan
                            /\ sub[r].renew <= Cardinality(covered)
                            /\ fee[r].status = "paid" => covered # {}
      BY DEF EntitlementIsCovered
    <2> DEFINE covered == {p \in PaymentIds : payment[p].ref = r /\
                                           \E o \in Orders : Covers(o, p)}
    <2>1. SettledOf(r) \subseteq covered
      BY DEF GInv, IInv, Inductive, PaidMeansCaptured, SettledOf, Settled
    <2>2. SettledOf(r) \in SUBSET PaymentIds /\ covered \in SUBSET PaymentIds
      BY DEF SettledOf
    <2> HIDE DEF covered
    <2>3. /\ Cardinality(SettledOf(r)) \in Nat /\ Cardinality(covered) \in Nat
          /\ Cardinality(SettledOf(r)) <= Cardinality(covered)
      BY <2>1, <2>2, Counts
    <2>4. Backed(r) /\ sub[r].renew \in Nat
      BY Periods DEF GInv
    <2>5. /\ sub[r].plan # 0 => \E p \in covered : payment[p].amt = sub[r].plan
          /\ sub[r].renew <= Cardinality(covered)
          /\ fee[r].status = "paid" => covered # {}
      BY <2>1, <2>3, <2>4 DEF Backed
    <2> QED BY <2>5 DEF covered
  <1> QED BY <1>1, GInvInit, GInvStep, PTL DEF Spec

-----------------------------------------------------------------------------
(* The payments of one reference.  A step of the ledger moves one payment; *)
(* which sets of its reference it enters and leaves is read off its        *)
(* status, and that it was alone in PendingFor is OnePendingPerReference.  *)

\* What a payment that keeps its status belongs to.
LEMMA Remains ==
  ASSUME Kept, NEW r, NEW q \in PaymentIds,
         payment'[q].status = payment[q].status
  PROVE  /\ q \in PendingFor(r)' <=> q \in PendingFor(r)
         /\ q \in SettledOf(r)' <=> q \in SettledOf(r)
         /\ q \in RefundedOf(r)' <=> q \in RefundedOf(r)
  <1>1. CASE payment[q].status = "none"
    BY <1>1 DEF PendingFor, SettledOf, RefundedOf, Settled
  <1>2. CASE payment[q].status # "none"
    <2>1. payment'[q].ref = payment[q].ref
      BY <1>2 DEF Kept, RowsKept
    <2> QED BY <2>1 DEF PendingFor, SettledOf, RefundedOf, Settled
  <1> QED BY <1>1, <1>2

\* Two sets of payments that agree on one payment and on all the others.
LEMMA SameSet ==
  ASSUME NEW S, NEW T, NEW p, S \subseteq PaymentIds, T \subseteq PaymentIds,
         p \in S <=> p \in T,
         \A q \in PaymentIds \ {p} : q \in S <=> q \in T
  PROVE  S = T
  <1>1. ASSUME NEW x \in S PROVE x \in T
    BY <1>1
  <1>2. ASSUME NEW x \in T PROVE x \in S
    BY <1>2
  <1> QED BY <1>1, <1>2

\* What the payments of a reference show, in numbers.
Shows(r) == <<PendingFor(r) # {}, Cardinality(SettledOf(r)), Cardinality(RefundedOf(r))>>

LEMMA ShowsSame ==
  ASSUME NEW r, PendingFor(r)' = PendingFor(r), SettledOf(r)' = SettledOf(r),
         RefundedOf(r)' = RefundedOf(r)
  PROVE  Shows(r)' = Shows(r)
  BY DEF Shows

\* Only the reference of the payment that moves shows anything new.
LEMMA OthersShowTheSame ==
  ASSUME Kept, NEW p \in PaymentIds, NEW r, r # payment'[p].ref,
         \A q \in PaymentIds \ {p} : payment'[q].status = payment[q].status
  PROVE  Shows(r)' = Shows(r)
  <1>1. p \notin PendingFor(r) /\ p \notin SettledOf(r) /\ p \notin RefundedOf(r)
    <2>1. payment[p].status = "none" \/ payment[p].ref # r
      BY DEF Kept, RowsKept
    <2> QED BY <2>1 DEF PendingFor, SettledOf, RefundedOf, Settled
  <1>2. p \notin PendingFor(r)' /\ p \notin SettledOf(r)' /\ p \notin RefundedOf(r)'
    BY DEF PendingFor, SettledOf, RefundedOf
  <1>3. /\ PendingFor(r) \subseteq PaymentIds /\ PendingFor(r)' \subseteq PaymentIds
        /\ SettledOf(r) \subseteq PaymentIds /\ SettledOf(r)' \subseteq PaymentIds
        /\ RefundedOf(r) \subseteq PaymentIds /\ RefundedOf(r)' \subseteq PaymentIds
    BY DEF PendingFor, SettledOf, RefundedOf
  <1>4. \A q \in PaymentIds \ {p} : /\ q \in PendingFor(r)' <=> q \in PendingFor(r)
                                    /\ q \in SettledOf(r)' <=> q \in SettledOf(r)
                                    /\ q \in RefundedOf(r)' <=> q \in RefundedOf(r)
    BY Remains
  <1>5. PendingFor(r)' = PendingFor(r)
    BY <1>1, <1>2, <1>3, <1>4, SameSet
  <1>6. SettledOf(r)' = SettledOf(r)
    BY <1>1, <1>2, <1>3, <1>4, SameSet
  <1>7. RefundedOf(r)' = RefundedOf(r)
    BY <1>1, <1>2, <1>3, <1>4, SameSet
  <1> QED BY <1>5, <1>6, <1>7, ShowsSame

\* The sets of the moved payment's own reference.
LEMMA OwnSets ==
  ASSUME IInv, IInv', Kept, NEW p \in PaymentIds, NEW r,
         r = payment'[p].ref, payment'[p].status # payment[p].status,
         Forward(payment[p].status, payment'[p].status),
         \A q \in PaymentIds \ {p} : payment'[q].status = payment[q].status
  PROVE  /\ payment[p].status = "pending" => PendingFor(r) = {p}
         /\ payment'[p].status = "pending" => PendingFor(r) = {} /\ PendingFor(r)' # {}
         /\ payment[p].status = "pending" => PendingFor(r)' = {}
         /\ payment[p].status # "pending" /\ payment'[p].status # "pending"
               => PendingFor(r)' = PendingFor(r)
         /\ SettledOf(r)' = IF payment'[p].status \in {"paid", "refunded"}
                            THEN SettledOf(r) \cup {p} ELSE SettledOf(r)
         /\ RefundedOf(r)' = IF payment'[p].status = "refunded"
                             THEN RefundedOf(r) \cup {p} ELSE RefundedOf(r)
  <1>1. payment[p].status # "none" => payment[p].ref = r
    BY DEF Kept, RowsKept
  <1>2. OnePendingPerReference /\ OnePendingPerReference'
    BY DEF IInv, Inductive
  <1>3. \A q \in PaymentIds \ {p} : /\ q \in PendingFor(r)' <=> q \in PendingFor(r)
                                    /\ q \in SettledOf(r)' <=> q \in SettledOf(r)
                                    /\ q \in RefundedOf(r)' <=> q \in RefundedOf(r)
    BY Remains
  <1>4. /\ p \in PendingFor(r) <=> payment[p].status = "pending"
        /\ p \in PendingFor(r)' <=> payment'[p].status = "pending"
        /\ p \in SettledOf(r)' <=> payment'[p].status \in {"paid", "refunded"}
        /\ p \in RefundedOf(r)' <=> payment'[p].status = "refunded"
    BY <1>1 DEF PendingFor, SettledOf, RefundedOf, Settled
  <1>5. /\ p \in SettledOf(r) => payment'[p].status \in {"paid", "refunded"}
        /\ p \notin RefundedOf(r)
    BY DEF SettledOf, RefundedOf, Settled, Forward
  <1>6. ASSUME NEW q \in PendingFor(r), p \in PendingFor(r) PROVE q = p
    BY <1>2, <1>6 DEF PendingFor, OnePendingPerReference
  <1>7. ASSUME NEW q \in PendingFor(r)', p \in PendingFor(r)' PROVE q = p
    BY <1>2, <1>7 DEF PendingFor, OnePendingPerReference
  <1>8. /\ PendingFor(r) \subseteq PaymentIds /\ PendingFor(r)' \subseteq PaymentIds
        /\ SettledOf(r) \subseteq PaymentIds /\ SettledOf(r)' \subseteq PaymentIds
        /\ RefundedOf(r) \subseteq PaymentIds /\ RefundedOf(r)' \subseteq PaymentIds
    BY DEF PendingFor, SettledOf, RefundedOf
  <1>9. payment[p].status = "pending" => PendingFor(r) = {p} /\ PendingFor(r)' = {}
    <2>1. ASSUME payment[p].status = "pending"
          PROVE  PendingFor(r) = {p} /\ PendingFor(r)' = {}
      <3>1. PendingFor(r) = {p}
        BY <1>4, <1>6, <2>1
      <3>2. PendingFor(r)' = {}
        BY <1>3, <1>4, <1>8, <2>1, <3>1
      <3> QED BY <3>1, <3>2
    <2> QED BY <2>1
  <1>10. payment'[p].status = "pending" => PendingFor(r) = {} /\ PendingFor(r)' # {}
    <2>1. ASSUME payment'[p].status = "pending", NEW q \in PendingFor(r) PROVE FALSE
      <3>1. q # p
        BY <1>4, <2>1
      <3>2. q \in PendingFor(r)'
        BY <1>3, <1>8, <2>1, <3>1
      <3> QED BY <1>4, <1>7, <2>1, <3>1, <3>2
    <2> QED BY <1>4, <2>1
  <1>11. payment[p].status # "pending" /\ payment'[p].status # "pending"
            => PendingFor(r)' = PendingFor(r)
    <2>1. ASSUME p \notin PendingFor(r), p \notin PendingFor(r)'
          PROVE  PendingFor(r)' = PendingFor(r)
      BY <1>3, <1>8, <2>1, SameSet
    <2> QED BY <1>4, <2>1
  <1>12. SettledOf(r)' = IF payment'[p].status \in {"paid", "refunded"}
                         THEN SettledOf(r) \cup {p} ELSE SettledOf(r)
    <2>1. \A q \in PaymentIds \ {p} : q \in SettledOf(r)' <=> q \in SettledOf(r)
      BY <1>3
    <2>2. CASE p \in SettledOf(r)'
      <3>1. SettledOf(r)' = SettledOf(r) \cup {p}
        BY <1>8, <2>1, <2>2
      <3> QED BY <1>4, <2>2, <3>1
    <2>3. CASE p \notin SettledOf(r)'
      <3>1. p \notin SettledOf(r)
        BY <1>4, <1>5, <2>3
      <3>2. SettledOf(r)' = SettledOf(r)
        BY <1>8, <2>1, <2>3, <3>1, SameSet
      <3> QED BY <1>4, <2>3, <3>2
    <2> QED BY <2>2, <2>3
  <1>13. RefundedOf(r)' = IF payment'[p].status = "refunded"
                          THEN RefundedOf(r) \cup {p} ELSE RefundedOf(r)
    <2>1. \A q \in PaymentIds \ {p} : q \in RefundedOf(r)' <=> q \in RefundedOf(r)
      BY <1>3
    <2>2. CASE p \in RefundedOf(r)'
      <3>1. RefundedOf(r)' = RefundedOf(r) \cup {p}
        BY <1>8, <2>1, <2>2
      <3> QED BY <1>4, <2>2, <3>1
    <2>3. CASE p \notin RefundedOf(r)'
      <3>1. RefundedOf(r)' = RefundedOf(r)
        BY <1>5, <1>8, <2>1, <2>3
      <3> QED BY <1>4, <2>3, <3>1
    <2> QED BY <2>2, <2>3
  <1> QED BY <1>9, <1>10, <1>11, <1>12, <1>13

-----------------------------------------------------------------------------
OpenedRefs == {r \in Refs : PendingFor(r) # {}}
PaidCount == [r \in Refs |-> Cardinality(SettledOf(r))]
RefundedCount == [r \in Refs |-> Cardinality(RefundedOf(r))]

\* How many were settled, and how many of them refunded.
LEMMA SettledNumbers ==
  ASSUME NEW r
  PROVE  /\ SettledOf(r) \in SUBSET PaymentIds
         /\ RefundedOf(r) \in SUBSET SettledOf(r)
         /\ Cardinality(SettledOf(r)) \in Nat /\ Cardinality(RefundedOf(r)) \in Nat
         /\ IsFiniteSet(SettledOf(r)) /\ IsFiniteSet(RefundedOf(r))
  <1>1. SettledOf(r) \in SUBSET PaymentIds /\ RefundedOf(r) \in SUBSET SettledOf(r)
    BY DEF SettledOf, RefundedOf, Settled
  <1>2. IsFiniteSet(SettledOf(r)) /\ IsFiniteSet(RefundedOf(r))
    BY <1>1, FiniteAssumption, FS_Subset
  <1> QED BY <1>1, <1>2, FS_CardinalityType

\* What the references show, when one of them, r, shows something new.
LEMMA ShownElsewhere ==
  ASSUME NEW r \in Refs, \A s \in Refs \ {r} : Shows(s)' = Shows(s)
  PROVE  /\ OpenedRefs' = IF PendingFor(r)' # {} THEN OpenedRefs \cup {r}
                          ELSE OpenedRefs \ {r}
         /\ PaidCount' = [PaidCount EXCEPT ![r] = Cardinality(SettledOf(r)')]
         /\ RefundedCount' = [RefundedCount EXCEPT ![r] = Cardinality(RefundedOf(r)')]
  <1>1. ASSUME NEW s \in Refs \ {r}
        PROVE  /\ PendingFor(s)' # {} <=> PendingFor(s) # {}
               /\ Cardinality(SettledOf(s)') = Cardinality(SettledOf(s))
               /\ Cardinality(RefundedOf(s)') = Cardinality(RefundedOf(s))
    BY <1>1 DEF Shows
  <1>2. OpenedRefs' = IF PendingFor(r)' # {} THEN OpenedRefs \cup {r}
                      ELSE OpenedRefs \ {r}
    BY <1>1 DEF OpenedRefs
  <1>3. PaidCount' = [PaidCount EXCEPT ![r] = Cardinality(SettledOf(r)')]
    BY <1>1 DEF PaidCount
  <1>4. RefundedCount' = [RefundedCount EXCEPT ![r] = Cardinality(RefundedOf(r)')]
    BY <1>1 DEF RefundedCount
  <1> QED BY <1>2, <1>3, <1>4

\* One payment of reference r moves.
RefMoves(r) ==
    \/ /\ r \notin OpenedRefs /\ OpenedRefs' = OpenedRefs \cup {r}
       /\ PaidCount' = PaidCount /\ RefundedCount' = RefundedCount
    \/ /\ r \in OpenedRefs /\ OpenedRefs' = OpenedRefs \ {r}
       /\ PaidCount' = PaidCount /\ RefundedCount' = RefundedCount
    \/ /\ r \in OpenedRefs /\ OpenedRefs' = OpenedRefs \ {r}
       /\ PaidCount' = [PaidCount EXCEPT ![r] = @ + 1]
       /\ RefundedCount' = RefundedCount
    \/ /\ RefundedCount[r] < PaidCount[r]
       /\ RefundedCount' = [RefundedCount EXCEPT ![r] = @ + 1]
       /\ OpenedRefs' = OpenedRefs /\ PaidCount' = PaidCount

LEMMA PaymentMoves ==
  ASSUME IInv, IInv', Kept, NEW p \in PaymentIds,
         payment'[p].status # payment[p].status,
         Forward(payment[p].status, payment'[p].status),
         \A q \in PaymentIds \ {p} : payment'[q].status = payment[q].status
  PROVE  \E r \in Refs : RefMoves(r)
  <1>1. payment'[p].ref \in Refs
    <2>1. payment'[p].status # "none"
      BY DEF Forward
    <2> QED BY <2>1 DEF IInv, Inductive, RowsAreSound
  <1>2. PICK r \in Refs : r = payment'[p].ref
    BY <1>1
  <1>3. /\ OpenedRefs' = IF PendingFor(r)' # {} THEN OpenedRefs \cup {r}
                         ELSE OpenedRefs \ {r}
        /\ PaidCount' = [PaidCount EXCEPT ![r] = Cardinality(SettledOf(r)')]
        /\ RefundedCount' = [RefundedCount EXCEPT ![r] = Cardinality(RefundedOf(r)')]
    <2>1. \A s \in Refs \ {r} : Shows(s)' = Shows(s)
      BY <1>2, OthersShowTheSame
    <2> QED BY <2>1, ShownElsewhere
  <1>4. /\ payment[p].status = "pending" => PendingFor(r) = {p}
        /\ payment'[p].status = "pending" => PendingFor(r) = {} /\ PendingFor(r)' # {}
        /\ payment[p].status = "pending" => PendingFor(r)' = {}
        /\ payment[p].status # "pending" /\ payment'[p].status # "pending"
              => PendingFor(r)' = PendingFor(r)
        /\ SettledOf(r)' = IF payment'[p].status \in {"paid", "refunded"}
                           THEN SettledOf(r) \cup {p} ELSE SettledOf(r)
        /\ RefundedOf(r)' = IF payment'[p].status = "refunded"
                            THEN RefundedOf(r) \cup {p} ELSE RefundedOf(r)
    BY <1>2, OwnSets
  <1>5. r \in OpenedRefs <=> PendingFor(r) # {}
    BY DEF OpenedRefs
  <1>6. /\ PaidCount[r] = Cardinality(SettledOf(r))
        /\ RefundedCount[r] = Cardinality(RefundedOf(r))
    BY DEF PaidCount, RefundedCount
  <1>7. ASSUME Cardinality(SettledOf(r)') = Cardinality(SettledOf(r))
        PROVE  PaidCount' = PaidCount
    BY <1>3, <1>6, <1>7 DEF PaidCount
  <1>8. ASSUME Cardinality(RefundedOf(r)') = Cardinality(RefundedOf(r))
        PROVE  RefundedCount' = RefundedCount
    BY <1>3, <1>6, <1>8 DEF RefundedCount
  <1>9. CASE payment[p].status = "none" /\ payment'[p].status = "pending"
    <2>1. PaidCount' = PaidCount /\ RefundedCount' = RefundedCount
      BY <1>4, <1>7, <1>8, <1>9
    <2>2. r \notin OpenedRefs /\ OpenedRefs' = OpenedRefs \cup {r}
      BY <1>3, <1>4, <1>5, <1>9
    <2> QED BY <2>1, <2>2 DEF RefMoves
  <1>10. CASE payment[p].status = "pending" /\ payment'[p].status = "failed"
    <2>1. PaidCount' = PaidCount /\ RefundedCount' = RefundedCount
      BY <1>4, <1>7, <1>8, <1>10
    <2>2. r \in OpenedRefs /\ OpenedRefs' = OpenedRefs \ {r}
      BY <1>3, <1>4, <1>5, <1>10
    <2> QED BY <2>1, <2>2 DEF RefMoves
  <1>11. CASE payment[p].status = "pending" /\ payment'[p].status = "paid"
    <2>1. p \notin SettledOf(r)
      BY <1>11 DEF SettledOf, Settled
    <2>2. Cardinality(SettledOf(r)') = Cardinality(SettledOf(r)) + 1
      <3>1. SettledOf(r)' = SettledOf(r) \cup {p}
        BY <1>4, <1>11
      <3> QED BY <2>1, <3>1, SettledNumbers, FS_AddElement
    <2>3. PaidCount' = [PaidCount EXCEPT ![r] = @ + 1]
      BY <1>3, <1>6, <2>2
    <2>4. RefundedCount' = RefundedCount
      BY <1>4, <1>8, <1>11
    <2>5. r \in OpenedRefs /\ OpenedRefs' = OpenedRefs \ {r}
      BY <1>3, <1>4, <1>5, <1>11
    <2> QED BY <2>3, <2>4, <2>5 DEF RefMoves
  <1>12. CASE payment[p].status = "paid" /\ payment'[p].status = "refunded"
    <2>1. p \in SettledOf(r) /\ p \notin RefundedOf(r)
      <3>1. payment[p].ref = r
        BY <1>2, <1>12 DEF Kept, RowsKept
      <3> QED BY <1>12, <3>1 DEF SettledOf, RefundedOf, Settled
    <2>2. Cardinality(RefundedOf(r)') = Cardinality(RefundedOf(r)) + 1
      <3>1. RefundedOf(r)' = RefundedOf(r) \cup {p}
        BY <1>4, <1>12
      <3> QED BY <2>1, <3>1, SettledNumbers, FS_AddElement
    <2>3. RefundedCount' = [RefundedCount EXCEPT ![r] = @ + 1]
      BY <1>3, <1>6, <2>2
    <2>4. RefundedCount[r] < PaidCount[r]
      <3>1. /\ SettledOf(r) \in SUBSET PaymentIds /\ RefundedOf(r) \in SUBSET PaymentIds
            /\ RefundedOf(r) \subseteq SettledOf(r)
        BY SettledNumbers
      <3>2. /\ Cardinality(RefundedOf(r)) \in Nat /\ Cardinality(SettledOf(r)) \in Nat
            /\ Cardinality(RefundedOf(r)) + 1 <= Cardinality(SettledOf(r))
        BY <2>1, <3>1, Counts
      <3> QED BY <1>6, <3>2
    <2>5. PaidCount' = PaidCount
      <3>1. SettledOf(r)' = SettledOf(r) \cup {p}
        BY <1>4, <1>12
      <3>2. SettledOf(r)' = SettledOf(r)
        BY <2>1, <3>1
      <3> QED BY <1>7, <3>2
    <2>6. OpenedRefs' = OpenedRefs
      <3>1. PendingFor(r)' = PendingFor(r)
        BY <1>4, <1>12
      <3> QED BY <1>3, <1>5, <3>1
    <2> QED BY <2>3, <2>4, <2>5, <2>6 DEF RefMoves
  <1> QED BY <1>9, <1>10, <1>11, <1>12 DEF Forward

\* At most one payment changes its status in a step.
LEMMA OneMoves ==
  ASSUME LedgerMoves
  PROVE  \/ \A q \in PaymentIds : payment'[q].status = payment[q].status
         \/ \E p \in PaymentIds :
               /\ payment'[p].status # payment[p].status
               /\ \A q \in PaymentIds \ {p} : payment'[q].status = payment[q].status
  <1>1. \A p \in PaymentIds : Led[p] = payment[p].status /\ Led'[p] = payment'[p].status
    BY DEF Led
  <1>2. Led = [p \in PaymentIds |-> Led[p]]
    BY DEF Led
  <1>3. Led' = Led \/ \E p \in PaymentIds, s \in Statuses : Led' = [Led EXCEPT ![p] = s]
    BY DEF LedgerMoves, Statuses
  <1>4. CASE Led' = Led
    BY <1>1, <1>4
  <1>5. ASSUME NEW p \in PaymentIds, NEW s \in Statuses, Led' = [Led EXCEPT ![p] = s]
        PROVE  \A q \in PaymentIds \ {p} : payment'[q].status = payment[q].status
    BY <1>1, <1>2, <1>5
  <1> QED BY <1>3, <1>4, <1>5

LEMMA ReferenceStep ==
  ASSUME IInv, [Next]_vars
  PROVE  \/ UNCHANGED <<OpenedRefs, PaidCount, RefundedCount>>
         \/ \E r \in Refs : RefMoves(r)
  <1>1. IInv' /\ LedgerMoves
    BY IInvStep, LedgerStep
  <1>2. \A p \in PaymentIds : Forward(payment[p].status, payment'[p].status)
    BY <1>1, LedgerKeeps
  <1>3. CASE UNCHANGED vars
    BY <1>3 DEF vars, OpenedRefs, PaidCount, RefundedCount, PendingFor, SettledOf,
                RefundedOf, Settled
  <1>4. CASE Next
    <2>1. Kept
      BY <1>4, AnyStepSound DEF StepSound
    <2>2. CASE \A q \in PaymentIds : payment'[q].status = payment[q].status
      <3>1. ASSUME NEW r \in Refs
            PROVE  /\ PendingFor(r)' = PendingFor(r) /\ SettledOf(r)' = SettledOf(r)
                   /\ RefundedOf(r)' = RefundedOf(r)
        <4>1. \A q \in PaymentIds : /\ q \in PendingFor(r)' <=> q \in PendingFor(r)
                                    /\ q \in SettledOf(r)' <=> q \in SettledOf(r)
                                    /\ q \in RefundedOf(r)' <=> q \in RefundedOf(r)
          BY <2>1, <2>2, Remains
        <4>2. PendingFor(r)' = PendingFor(r)
          BY <4>1 DEF PendingFor
        <4>3. SettledOf(r)' = SettledOf(r)
          BY <4>1 DEF SettledOf
        <4>4. RefundedOf(r)' = RefundedOf(r)
          BY <4>1 DEF RefundedOf
        <4> QED BY <4>2, <4>3, <4>4
      <3> QED BY <3>1 DEF OpenedRefs, PaidCount, RefundedCount
    <2>3. ASSUME NEW p \in PaymentIds, payment'[p].status # payment[p].status,
                 \A q \in PaymentIds \ {p} : payment'[q].status = payment[q].status
          PROVE  \E r \in Refs : RefMoves(r)
      BY <1>1, <1>2, <2>1, <2>3, PaymentMoves
    <2> QED BY <1>1, <2>2, <2>3, OneMoves
  <1> QED BY <1>3, <1>4

\* What SubscriptionLifecycle takes of payments, Payments gives: one payment is
\* open per reference, only the open one settles, and only settled ones are
\* refunded, for any number of payments, orders, references and handlers.
THEOREM PerReference == Spec => ImplementsReferencePayments
  <1>1. Init => Reference!RInit
    <2> SUFFICES ASSUME Init PROVE Reference!RInit
      OBVIOUS
    <2>1. \A p \in PaymentIds : payment[p].status = "none"
      BY DEF Init, NoRow
    <2>2. \A r \in Refs : PendingFor(r) = {} /\ SettledOf(r) = {} /\ RefundedOf(r) = {}
      BY <2>1 DEF PendingFor, SettledOf, RefundedOf, Settled
    <2>3. \A r \in Refs : Cardinality(SettledOf(r)) = 0 /\ Cardinality(RefundedOf(r)) = 0
      BY <2>2, FS_EmptySet
    <2> QED BY <2>2, <2>3 DEF Reference!RInit
  <1>2. IInv /\ [Next]_vars => [Reference!RNext]_(Reference!rvars)
    <2> SUFFICES ASSUME IInv, [Next]_vars
                 PROVE  [Reference!RNext]_(Reference!rvars)
      OBVIOUS
    <2>1. CASE UNCHANGED <<OpenedRefs, PaidCount, RefundedCount>>
      BY <2>1 DEF Reference!rvars, OpenedRefs, PaidCount, RefundedCount
    <2>2. ASSUME NEW r \in Refs, RefMoves(r) PROVE Reference!RNext
      <3>1. \/ Reference!Open(r) \/ Reference!Close(r)
            \/ Reference!Settle(r) \/ Reference!Return(r)
        BY <2>2 DEF RefMoves, Reference!Open, Reference!Close, Reference!Settle,
                    Reference!Return, OpenedRefs, PaidCount, RefundedCount
      <3> QED BY <3>1, Zenon DEF Reference!RNext
    <2> QED BY <2>1, <2>2, ReferenceStep
  <1> QED
    BY <1>1, <1>2, Invariance, PTL DEF Spec, ImplementsReferencePayments, Reference!RSpec
=============================================================================
