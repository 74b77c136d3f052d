------------------------------ MODULE Payments ------------------------------
(***************************************************************************)
(* The orders of one entitlement owner in one workspace: checkout, the     *)
(* payment notifications of Robokassa (live mode), the pages that a        *)
(* customer returns to, the entitlements that paid orders grant, and       *)
(* refunds.                                                                *)
(*                                                                         *)
(* A worker is an invocation of a route or a page; when it ends, the next  *)
(* invocation may take its name.  A statement outside a transaction is one *)
(* step; the transaction that grants an entitlement is visible to others   *)
(* when it commits, and it holds two locks until then: that of the order   *)
(* it has updated and the advisory one of the owner.  Both are derived     *)
(* from the workers' program counters.  A refund that succeeds runs its    *)
(* triggers in the same statement.                                         *)
(*                                                                         *)
(* Times are ticks and durations of plans are lengths in ticks; money is   *)
(* counted in parts of the price of an order.                              *)
(***************************************************************************)
EXTENDS Integers, FiniteSets, FiniteSetsExt, Functions

CONSTANTS
    Orders,         \* ids of checkout orders, in the order of their creation
    Workers,        \* invocations of the webhook and of the pages
    Refunds,        \* refund requests of the operator
    Duration,       \* ticks of access that an order buys (duration_days)
    Price,          \* parts into which refunds may split the price of an order
    MaxTime,        \* the last tick
    MaxFaults,      \* crashes, rejected statements and lost answers
    None            \* no worker, no order

ASSUME OrdersAreIds == Orders \subseteq Nat \ {0} /\ IsFiniteSet(Orders)
ASSUME RefundsAreFinite == IsFiniteSet(Refunds)
ASSUME DurationsArePositive == Duration \in [Orders -> Nat \ {0}]
ASSUME BoundsArePositive == Price \in Nat \ {0} /\ MaxTime \in Nat \ {0} /\ MaxFaults \in Nat
ASSUME NoneIsNothing == None \notin Workers /\ None \notin Orders

VARIABLES
    captured,   \* when Robokassa took the money for an order, 0 if it did not
    order,      \* status and provider of each checkout order
    event,      \* the billing_webhook_events row of each order's notification
    ent,        \* the entitlement of each order: its start (0 if there is none), revoked or not
    w,          \* the local state of each worker
    refund,     \* the payment_refunds rows
    robo,       \* what Robokassa makes of a refund request
    ask,        \* the operator's call that creates a refund, and the answer it got
    answers,    \* answers on the state of a refund that are still to be written down
    faults

shop == <<order, event, ent, w>>
back == <<refund, robo, ask, answers>>
vars == <<captured, shop, back, faults>>

Statuses == {"created", "pending", "unavailable", "failed", "canceled", "paid", "refunded"}
Holding == {"commit", "visitCommit"}        \* the advisory lock of the owner
InTransaction == {"grant", "commit"}        \* the row lock of the order
Labels == {"idle", "pay", "finish", "fail", "visitPay", "visitPending",
           "visitGrant", "cancel"} \cup Holding \cup InTransaction

Idle == [pc |-> "idle", order |-> None, start |-> 0]

Init ==
    /\ captured = [o \in Orders |-> 0]
    /\ order = [o \in Orders |-> [status |-> "created", provider |-> FALSE]]
    /\ event = [o \in Orders |-> [status |-> "absent", token |-> None]]
    /\ ent = [o \in Orders |-> [start |-> 0, revoked |-> FALSE]]
    /\ w = [x \in Workers |-> Idle]
    /\ refund = [r \in Refunds |-> [status |-> "absent", order |-> None, amount |-> 1, id |-> FALSE]]
    /\ robo = [r \in Refunds |-> "unknown"]
    /\ ask = [r \in Refunds |-> "none"]
    /\ answers = [r \in Refunds |-> {}]
    /\ faults = 0

At(x, label) == w[x].pc = label
Goto(x, label) == w' = [w EXCEPT ![x].pc = label]
Ends(x) == w' = [w EXCEPT ![x] = Idle]
OrderOf(x) == w[x].order
Begins(x, o, label) == At(x, "idle") /\ w' = [w EXCEPT ![x] = [Idle EXCEPT !.pc = label, !.order = o]]

\* Nobody else has updated the row of the order in a transaction that is still open.
RowIsFree(o) == \A x \in Workers : OrderOf(x) = o => w[x].pc \notin InTransaction
OwnerIsIgnored == TRUE
\* pg_advisory_xact_lock('checkout-entitlement:' || workspace || ':' || owner)
OwnerIsFree == \A x \in Workers : w[x].pc \notin Holding

-----------------------------------------------------------------------------
(* Checkout and the bank *)

\* startCheckoutOrder, after its INSERT: the customer is sent to Robokassa, or not.
Offer(o) ==
    /\ order[o].status = "created"
    /\ \/ order' = [order EXCEPT ![o] = [status |-> "pending", provider |-> TRUE]]
       \/ \E s \in {"unavailable", "failed"} : order' = [order EXCEPT ![o].status = s]
    /\ UNCHANGED <<captured, event, ent, w, back, faults>>

\* The customer pays; the form stays open whatever becomes of the order here.
Capture(o) ==
    /\ order[o].provider
    /\ captured[o] = 0
    /\ \E t \in 1..MaxTime :
          /\ \A p \in Orders : captured[p] <= t
          /\ captured' = [captured EXCEPT ![o] = t]
    /\ UNCHANGED <<shop, back, faults>>

MayBecomeUnlessRefunded(o, status) == order[o].status = "refunded" => status = "refunded"

\* The trigger enforce_checkout_order_payment_transition lets an order become this.
MayBecome(o, status) ==
    /\ order[o].status = "refunded" => status = "refunded"
    /\ order[o].status = "paid" => status \in {"paid", "refunded"}

-----------------------------------------------------------------------------
(* The webhook of Robokassa *)

ClaimableOnce(o) == event[o].status \in {"absent", "failed"}
Claimable(o) == event[o].status \in {"absent", "failed", "processing"}

\* A notification arrives, for the first time or again, and its event row is claimed
\* (one in processing has been so for ten minutes, or not); OpStateExt confirms the payment.
Deliver(x, o) ==
    /\ captured[o] # 0
    /\ Claimable(o)
    /\ Begins(x, o, "pay")
    /\ event' = [event EXCEPT ![o] = [status |-> "processing", token |-> x]]
    /\ UNCHANGED <<captured, order, ent, back, faults>>

\* BEGIN and updateCheckoutOrder: the row is locked, the trigger may refuse.
Pay(x) ==
    LET o == OrderOf(x) IN
    /\ At(x, "pay")
    /\ RowIsFree(o)
    /\ Goto(x, IF MayBecome(o, "paid") THEN "grant" ELSE "fail")
    /\ UNCHANGED <<captured, order, event, ent, back, faults>>

Granted(o) == ent[o].start # 0
EndOf(o) == ent[o].start + Duration[o]
\* WHERE revoked_at IS NULL AND checkout.status = 'paid'
Counts(o) == Granted(o) /\ ~ent[o].revoked /\ order[o].status = "paid"

\* access_start: behind everything that the owner still has.
AccessStart(o) == Max({captured[o]} \cup {EndOf(p) : p \in {q \in Orders : Counts(q)}})

\* insertPaidOrderEntitlement waits for the advisory lock and inserts the entitlement of
\* the order, ON CONFLICT (order_id) DO NOTHING.
Inserts(x, label) ==
    LET o == OrderOf(x) IN
    /\ OwnerIsFree
    /\ w' = [w EXCEPT ![x].pc = label, ![x].start = IF Granted(o) THEN 0 ELSE AccessStart(o)]

Grant(x) ==
    /\ At(x, "grant")
    /\ Inserts(x, "commit")
    /\ UNCHANGED <<captured, order, event, ent, back, faults>>

\* What the transaction of x has inserted becomes visible.
Publishes(x) ==
    ent' = [ent EXCEPT ![OrderOf(x)].start = IF w[x].start = 0 THEN @ ELSE w[x].start]

Commits(x) ==
    /\ At(x, "commit")
    /\ order' = [order EXCEPT ![OrderOf(x)].status = "paid"]
    /\ Publishes(x)
    /\ UNCHANGED <<captured, event, back>>

Commit(x) == Commits(x) /\ Goto(x, "finish") /\ UNCHANGED faults

\* UPDATE billing_webhook_events ... WHERE claim_token = $5
Closes(x, status) ==
    LET o == OrderOf(x) IN
    event' = [event EXCEPT ![o] = IF @.token = x THEN [status |-> status, token |-> None]
                                  ELSE @]

FinishAnyway(x) ==
    /\ w[x].pc \in {"finish", "fail"} /\ Closes(x, "processed")
    /\ Ends(x)
    /\ UNCHANGED <<captured, order, ent, back, faults>>
Finish(x) ==
    /\ \/ At(x, "finish") /\ Closes(x, "processed")
       \/ At(x, "fail") /\ Closes(x, "failed")
    /\ Ends(x)
    /\ UNCHANGED <<captured, order, ent, back, faults>>

-----------------------------------------------------------------------------
(* The pages that the customer returns to *)

\* The success page and the onboarding: an order that is paid gets what it is owed, one that
\* is not is looked up at Robokassa.
Visit(x, o) ==
    /\ order[o].status # "created"
    /\ \/ order[o].status = "paid" /\ Begins(x, o, "visitGrant")
       \/ /\ order[o].status # "paid" /\ order[o].provider
          /\ Begins(x, o, IF captured[o] # 0 THEN "visitPay" ELSE "visitPending")
    /\ UNCHANGED <<captured, order, event, ent, back, faults>>

\* updateCheckoutOrder outside a transaction, with a status decided on earlier.
Writes(x, status, label) ==
    LET o == OrderOf(x) IN
    /\ RowIsFree(o)
    /\ IF MayBecome(o, status)
       THEN order' = [order EXCEPT ![o].status = status] /\ Goto(x, label)
       ELSE UNCHANGED order /\ Ends(x)
    /\ UNCHANGED <<captured, event, ent, back, faults>>

VisitPay(x) == At(x, "visitPay") /\ Writes(x, "paid", "visitGrant")

VisitPending(x) ==
    /\ At(x, "visitPending")
    /\ RowIsFree(OrderOf(x))
    /\ Ends(x)
    /\ order' = [order EXCEPT ![OrderOf(x)].status =
                    IF MayBecome(OrderOf(x), "pending") THEN "pending" ELSE @]
    /\ UNCHANGED <<captured, event, ent, back, faults>>

\* ensurePaidOrderEntitlement in a transaction of its own.
VisitGrant(x) ==
    /\ At(x, "visitGrant")
    /\ IF order[OrderOf(x)].status = "paid" THEN Inserts(x, "visitCommit") ELSE Ends(x)
    /\ UNCHANGED <<captured, order, event, ent, back, faults>>

VisitCommit(x) ==
    /\ At(x, "visitCommit")
    /\ Publishes(x)
    /\ Ends(x)
    /\ UNCHANGED <<captured, order, event, back, faults>>

\* The cancel page reads the order, and markCheckoutOrderCanceled writes what it read.
VisitCancel(x, o) ==
    /\ order[o].status \notin {"created", "paid", "unavailable"}
    /\ Begins(x, o, "cancel")
    /\ UNCHANGED <<captured, order, event, ent, back, faults>>

Cancel(x) ==
    /\ At(x, "cancel")
    /\ RowIsFree(OrderOf(x))
    /\ Ends(x)
    /\ order' = [order EXCEPT ![OrderOf(x)].status =
                    IF MayBecome(OrderOf(x), "canceled") THEN "canceled" ELSE @]
    /\ UNCHANGED <<captured, event, ent, back, faults>>

-----------------------------------------------------------------------------
(* Refunds *)

RefundsOf(o, statuses) == {r \in Refunds : refund[r].order = o /\ refund[r].status \in statuses}
SumOf(f) == FoldFunction(+, 0, f)
Total(refunds) == SumOf([r \in refunds |-> refund[r].amount])

\* normalizePositiveMinor: what an operator may ask for.
Amounts == 1..Price

\* requestRobokassaRefund up to its COMMIT: the order is locked, the trigger
\* enforce_payment_refund_amount counts what is reserved.
Reserved == {"creating", "requested", "processing", "succeeded"}
RequestRefund(r, o) ==
    /\ refund[r].status = "absent"
    /\ RowIsFree(o)
    /\ order[o].status = "paid"
    /\ \E amount \in Amounts :
          /\ Total(RefundsOf(o, Reserved)) + amount <= Price
          /\ refund' = [refund EXCEPT ![r] = [status |-> "creating", order |-> o, amount |-> amount,
                                              id |-> FALSE]]
    /\ ask' = [ask EXCEPT ![r] = "call"]
    /\ UNCHANGED <<captured, shop, robo, answers, faults>>

\* createRobokassaRefund: Robokassa accepts the request or not, and says so.
AskRobokassa(r) ==
    /\ ask[r] = "call"
    /\ \/ robo' = [robo EXCEPT ![r] = "accepted"] /\ ask' = [ask EXCEPT ![r] = "ok"]
       \/ UNCHANGED robo /\ ask' = [ask EXCEPT ![r] = "failed"]
    /\ UNCHANGED <<captured, shop, refund, answers, faults>>

\* Robokassa accepts the request, and its answer comes too late or not at all.
LoseAnswer(r) ==
    /\ ask[r] = "call"
    /\ faults < MaxFaults
    /\ faults' = faults + 1
    /\ robo' = [robo EXCEPT ![r] = "accepted"]
    /\ ask' = [ask EXCEPT ![r] = "failed"]
    /\ UNCHANGED <<captured, shop, refund, answers>>

\* updateRefund: the row keeps the request id, or it is marked as failed.
NoteAnswer(r) ==
    /\ ask[r] \in {"ok", "failed"}
    /\ RowIsFree(refund[r].order)
    /\ refund' = [refund EXCEPT ![r] = [@ EXCEPT !.status = IF ask[r] = "ok" THEN "requested" ELSE "failed",
                                                 !.id = (ask[r] = "ok")]]
    /\ ask' = [ask EXCEPT ![r] = "none"]
    /\ UNCHANGED <<captured, shop, robo, answers, faults>>

\* The operator's request dies between two of its steps.
CrashRefund(r) ==
    /\ ask[r] # "none"
    /\ faults < MaxFaults
    /\ faults' = faults + 1
    /\ ask' = [ask EXCEPT ![r] = "none"]
    /\ UNCHANGED <<captured, shop, refund, robo, answers>>

Settle(r) ==
    /\ robo[r] = "accepted"
    /\ \E s \in {"finished", "rejected"} : robo' = [robo EXCEPT ![r] = s]
    /\ UNCHANGED <<captured, shop, refund, ask, answers, faults>>

\* syncRobokassaRefund reads the row and asks for the state; several may be on their way.
StateAsHoped(r) == IF robo[r] = "rejected" THEN "failed" ELSE "succeeded"
StateIn(r) == CASE robo[r] = "finished" -> "succeeded" [] robo[r] = "rejected" -> "failed"
                [] OTHER -> "processing"
AskState(r) ==
    /\ refund[r].id
    /\ refund[r].status \notin {"succeeded", "failed"}
    /\ answers' = [answers EXCEPT ![r] = @ \cup {StateIn(r)}]
    /\ UNCHANGED <<captured, shop, refund, robo, ask, faults>>

\* The transitions of enforce_payment_refund_amount.
RefundMayBecome(r, status) ==
    \/ refund[r].status = status
    \/ refund[r].status \in {"requested", "processing"}

\* What is left of the owner's access: without the order o, in the order of payment.
Left(o) == {p \in Orders \ {o} : Counts(p)}
Before(p, q) == captured[p] < captured[q] \/ (captured[p] = captured[q] /\ p < q)
\* No access that was bought ends later than this.
Horizon == MaxTime + Cardinality(Orders) * Max({0} \cup {Duration[p] : p \in Orders})
\* starts are those that the loop of reconcile_checkout_entitlements_after_full_refund
\* gives to the orders in left.
IsCompact(starts, left) ==
    \A q \in left :
        starts[q] = Max({captured[q]} \cup {starts[p] + Duration[p] : p \in {p \in left : Before(p, q)}})

Revoke(o) ==
    IF ~Granted(o) THEN UNCHANGED ent
    ELSE \E starts \in [Left(o) -> 1..Horizon] :
            /\ IsCompact(starts, Left(o))
            /\ ent' = [p \in Orders |->
                          IF p = o THEN [ent[p] EXCEPT !.revoked = TRUE]
                          ELSE IF p \in Left(o) THEN [ent[p] EXCEPT !.start = starts[p]] ELSE ent[p]]

\* An answer is written down.  The refund that completes the price turns the order into a
\* refunded one (reconcile_checkout_order_after_refund_success), which ends its access.
NoteState(r, status) ==
    LET o == refund[r].order
        completes == /\ status = "succeeded"
                     /\ refund[r].status # "succeeded"
                     /\ Total(RefundsOf(o, {"succeeded"}) \cup {r}) = Price
                     /\ order[o].status = "paid"
        may == /\ RefundMayBecome(r, status)
               /\ status = "succeeded" => Total(RefundsOf(o, {"succeeded"}) \cup {r}) <= Price
    IN /\ status \in answers[r]
       /\ RowIsFree(o)
       /\ answers' = [answers EXCEPT ![r] = @ \ {status}]
       /\ IF may THEN refund' = [refund EXCEPT ![r].status = status] ELSE UNCHANGED refund
       /\ IF may /\ completes
          THEN order' = [order EXCEPT ![o].status = "refunded"] /\ Revoke(o)
          ELSE UNCHANGED <<order, ent>>
       /\ UNCHANGED <<captured, event, w, robo, ask, faults>>

-----------------------------------------------------------------------------
(* Faults *)

\* Robokassa or the database does not answer: a transaction is rolled back, the webhook
\* marks its event as failed, a page shows an error.
Throw(x) ==
    /\ faults < MaxFaults
    /\ faults' = faults + 1
    /\ \/ w[x].pc \in {"pay"} \cup InTransaction /\ w' = [w EXCEPT ![x].pc = "fail", ![x].start = 0]
       \/ At(x, "finish") /\ Goto(x, "fail")
    /\ UNCHANGED <<captured, order, event, ent, back>>

\* The transaction is committed, and the webhook does not learn of it.
LoseCommit(x) ==
    /\ Commits(x)
    /\ Goto(x, "fail")
    /\ faults < MaxFaults
    /\ faults' = faults + 1

Crash(x) ==
    /\ ~At(x, "idle")
    /\ Ends(x)
    /\ faults < MaxFaults
    /\ faults' = faults + 1
    /\ UNCHANGED <<captured, order, event, ent, back>>

-----------------------------------------------------------------------------

WorkerStep(x) ==
    \/ Pay(x) \/ Grant(x) \/ Commit(x) \/ Finish(x)
    \/ VisitPay(x) \/ VisitPending(x) \/ VisitGrant(x) \/ VisitCommit(x) \/ Cancel(x)

RefundStep(r) ==
    \/ \E o \in Orders : RequestRefund(r, o)
    \/ AskRobokassa(r) \/ LoseAnswer(r) \/ NoteAnswer(r) \/ CrashRefund(r) \/ Settle(r) \/ AskState(r)
    \/ \E s \in {"processing", "succeeded", "failed"} : NoteState(r, s)

Next ==
    \/ \E o \in Orders : Offer(o) \/ Capture(o)
    \/ \E x \in Workers : \E o \in Orders : Deliver(x, o) \/ Visit(x, o) \/ VisitCancel(x, o)
    \/ \E x \in Workers : WorkerStep(x) \/ Throw(x) \/ LoseCommit(x) \/ Crash(x)
    \/ \E r \in Refunds : RefundStep(r)

\* Invocations run, waits for a lock end, and Robokassa repeats a notification
\* until it is acknowledged.
Fairness ==
    /\ \A x \in Workers : SF_vars(WorkerStep(x))
    /\ \A o \in Orders : SF_vars(\E x \in Workers : Deliver(x, o))

Spec == Init /\ [][Next]_vars
FairSpec == Spec /\ Fairness

-----------------------------------------------------------------------------
(* Properties *)

Entitlements == [start : Nat, revoked : BOOLEAN]
Locals == [pc : Labels, order : Orders \cup {None}, start : Nat]
RefundRows == [status : {"absent", "failed"} \cup Reserved, order : Orders \cup {None},
               amount : 1..Price, id : BOOLEAN]

\* Every variable keeps its type; a worker that is not idle and a refund that exists are
\* about an order.
TypeOK ==
    /\ captured \in [Orders -> 0..MaxTime]
    /\ order \in [Orders -> [status : Statuses, provider : BOOLEAN]]
    /\ event \in [Orders -> [status : {"absent", "processing", "processed", "failed"},
                             token : Workers \cup {None}]]
    /\ ent \in [Orders -> Entitlements]
    /\ w \in [Workers -> Locals]
    /\ refund \in [Refunds -> RefundRows]
    /\ robo \in [Refunds -> {"unknown", "accepted", "finished", "rejected"}]
    /\ ask \in [Refunds -> {"none", "call", "ok", "failed"}]
    /\ answers \in [Refunds -> SUBSET {"processing", "succeeded", "failed"}]
    /\ faults \in 0..MaxFaults
    /\ \A x \in Workers : ~At(x, "idle") => OrderOf(x) \in Orders
    /\ \A r \in Refunds : refund[r].status # "absent" => refund[r].order \in Orders

\* A notification that is acknowledged, and so never repeated, has left an order with its
\* entitlement, whatever crashed, was rolled back or was claimed by another invocation.
ProcessedIsGranted == \A o \in Orders : event[o].status = "processed" => Granted(o) /\ order[o].status \in {"paid", "refunded"}

\* The access that was bought is one chain: no two entitlements of an owner overlap, so
\* that no paid day is lost, whatever is granted, refunded and compacted at the same time
\* ("purchases must stack without overlap").
AccessIsOneChain ==
    \A o, p \in Orders : o # p /\ Counts(o) /\ Counts(p) => EndOf(o) <= ent[p].start \/ EndOf(p) <= ent[o].start

\* Nobody believes the browser: an order is paid for only if the bank has the money, and
\* refunded only if the bank has given all of it back.
MoneyIsReal ==
    \A o \in Orders :
        /\ order[o].status = "paid" \/ Granted(o) => captured[o] # 0
        /\ order[o].status = "refunded" =>
              \E given \in SUBSET {r \in Refunds : refund[r].order = o /\ robo[r] = "finished"} : Total(given) = Price

\* A page that read the order before it was paid, a late notification or a second refund
\* takes nobody's access away: it ends by a full refund of its own order only.
AccessEndsByRefund ==
    [][\A o \in Orders : Counts(o) /\ ~Counts(o)' => order'[o].status = "refunded"]_vars

\* What Robokassa has collected is granted in the end, or was given back
\* (PROCESSING_RECLAIM_TIMEOUT_MINUTES, the 503 that makes it repeat the notification).
CapturedIsGranted ==
    \A o \in Orders : captured[o] # 0 ~> Counts(o) \/ order[o].status = "refunded"

\* What Robokassa was asked to give back and accepted is never more than the price
\* ("refund reservations must not exceed the paid amount").
AcceptedRefundsWithinPrice ==
    \A o \in Orders : Total({r \in Refunds : refund[r].order = o /\ robo[r] \in {"accepted", "finished"}}) <= Price

\* Access starts when it was paid for or when the one before it ends ("remaining week and
\* quarter purchases must be compacted after refund").
AccessHasNoGap ==
    \A o \in Orders : Counts(o) =>
        ent[o].start = captured[o] \/ \E p \in Orders : Counts(p) /\ EndOf(p) = ent[o].start
=============================================================================
