------------------------------ MODULE OrderSaga ------------------------------
(***************************************************************************)
(* The order saga, _process_order of services/shared/orchestrator.py, with *)
(* the handlers it drives: POST /inventory/{id}/reserve and /release, POST *)
(* /pay and POST /notify, and the orders table it checkpoints itself in.   *)
(* Several sagas run at once (HTTP requests, the batch generator and the   *)
(* load simulator) on the stock of one product; products are separate rows *)
(* and do not interact.                                                    *)
(*                                                                         *)
(* An HTTP attempt of a hop has one of these ends:                         *)
(*   - the handler commits and the caller reads its answer;                *)
(*   - the handler refuses or fails and commits nothing;                   *)
(*   - it is lost: the caller gets an exception (timeout, reset) and the   *)
(*     handler may still run, at any later time, or never.  late counts    *)
(*     these requests.  An error answer sent after the commit is the same  *)
(*     to the caller as a lost answer.                                     *)
(* The handlers of one product, order, payment and notification are single *)
(* database transactions, so each is one step.  Durations, prices, the     *)
(* user's and product's data and the messages are left out.                *)
(***************************************************************************)
EXTENDS Integers, FiniteSets, FiniteSetsExt

CONSTANTS
  Orders,           \* sagas, one per order request
  Quantity,         \* the requested quantity of each: any int, it is not validated
  InitialStock,     \* products.quantity
  Attempts,         \* attempts a retried hop may make: 1, or RETRY_COUNT + 1
  FraudScore,       \* the fixed score of build_security
  FraudThreshold,   \* FRAUD_THRESHOLD
  Faults,           \* which of FaultKinds happen
  OperatorWrites    \* what PATCH /orders/{id}/status writes

\* lost: an HTTP attempt ends in an exception although its handler may run;
\* release: the release request is refused; commit: a commit or refresh of the
\* orders table raises; crash: the saga's task ends; operator: its row is edited.
FaultKinds == {"lost", "release", "commit", "crash", "operator"}
\* What the properties tell apart: a pay request was lost, an operator edited the row,
\* anything else.  A lost notification troubles no order.
Troubles == {"pay", "operator", "other"}

RowStatuses == {"pending", "confirmed", "processing", "paid", "shipped", "delivered",
                "cancelled", "returned"}
\* internal_status as the saga writes it; any other text stands for an operator's.
SagaInternals == {"payment_pending", "payment_failed", "payment_verified",
                  "completed_notification_failed", "completed"}
Rows == [status : RowStatuses, internal : SagaInternals \cup {"other"}]
NoRow == [status |-> "none", internal |-> "none"]

ASSUME OrdersAssumption == IsFiniteSet(Orders)
ASSUME QuantityAssumption == Quantity \in [Orders -> Int]
ASSUME StockAssumption == InitialStock \in Nat
ASSUME AttemptsAssumption == Attempts \subseteq Nat \ {0} /\ Attempts # {}
ASSUME FraudAssumption == FraudScore \in Int /\ FraudThreshold \in Int
ASSUME FaultsAssumption == Faults \subseteq FaultKinds
ASSUME OperatorAssumption == OperatorWrites \subseteq Rows

VARIABLES
  pc,             \* where each saga is
  left,           \* attempts left of the hop it is in
  row,            \* its row of the orders table
  resp,           \* status of the OrderResponse it returned
  stock,          \* products.quantity
  payments,       \* completed rows of the payments table, per order
  notifications,  \* sent rows of the notifications table, per order
  late,           \* lost requests a handler may still run, per order and hop
  reserves,       \* history: reservations committed for the order
  releases,       \* history: releases committed for the order
  charges,        \* history: payments completed for the order
  met             \* history: the troubles the order has met

sagaVars == <<pc, left, resp>>
inventoryVars == <<stock, reserves, releases>>
paymentVars == <<payments, charges>>
vars == <<sagaVars, row, inventoryVars, paymentVars, notifications, late, met>>

Hops == {"reserve", "pay", "notify", "release"}
\* new: not started; gate: before payment_cb.call; completing and warning: before
\* the last checkpoint; done: it returned; dead: its task was cancelled or crashed.
Steps == {"new", "reserving", "inserting", "gate", "paying", "cancelling", "releasing",
          "confirming", "notifying", "completing", "warning", "done", "dead"}
Responses == {"none", "success", "warning", "error", "held"}

TypeOK ==
  /\ pc \in [Orders -> Steps]
  /\ left \in [Orders -> Nat]
  /\ row \in [Orders -> Rows \cup {NoRow}]
  /\ resp \in [Orders -> Responses]
  /\ stock \in Nat
  /\ payments \in [Orders -> Nat]
  /\ notifications \in [Orders -> Nat]
  /\ late \in [Orders -> [Hops -> Nat]]
  /\ reserves \in [Orders -> Nat]
  /\ releases \in [Orders -> Nat]
  /\ charges \in [Orders -> Nat]
  /\ met \in [Orders -> SUBSET Troubles]

Init ==
  /\ pc = [o \in Orders |-> "new"]
  /\ left = [o \in Orders |-> 0]
  /\ row = [o \in Orders |-> NoRow]
  /\ resp = [o \in Orders |-> "none"]
  /\ stock = InitialStock
  /\ payments = [o \in Orders |-> 0]
  /\ notifications = [o \in Orders |-> 0]
  /\ late = [o \in Orders |-> [h \in Hops |-> 0]]
  /\ reserves = [o \in Orders |-> 0]
  /\ releases = [o \in Orders |-> 0]
  /\ charges = [o \in Orders |-> 0]
  /\ met = [o \in Orders |-> {}]

-----------------------------------------------------------------------------
(* Control of a saga *)

Goto(o, step) ==
  /\ pc' = [pc EXCEPT ![o] = step]
  /\ UNCHANGED <<left, resp>>

\* Enter a hop that is retried: RETRY_ENABLED and RETRY_COUNT are read once, here.
StartHop(o, step) ==
  /\ pc' = [pc EXCEPT ![o] = step]
  /\ \E n \in Attempts : left' = [left EXCEPT ![o] = n]
  /\ UNCHANGED resp

Return(o, status) ==
  /\ pc' = [pc EXCEPT ![o] = "done"]
  /\ resp' = [resp EXCEPT ![o] = status]
  /\ UNCHANGED left

\* Mutant: one attempt too many.
TryAgain_OffByOne(o) ==
  /\ left[o] >= 1
  /\ left' = [left EXCEPT ![o] = @ - 1]
  /\ UNCHANGED <<pc, resp>>

\* An attempt failed and others are left.
TryAgain(o) ==
  /\ left[o] > 1
  /\ left' = [left EXCEPT ![o] = @ - 1]
  /\ UNCHANGED <<pc, resp>>

\* The order meets a trouble of kind k.
Meet(o, k) == met' = [met EXCEPT ![o] = @ \cup {k}]

Lose(o, h) == late' = [late EXCEPT ![o][h] = @ + 1]

\* An attempt fails without effect, or is lost.
FailedAttempt(o, h) ==
  \/ UNCHANGED <<late, met>>
  \/ /\ "lost" \in Faults
     /\ Lose(o, h)
     /\ CASE h = "pay" -> Meet(o, "pay")
          [] h = "notify" -> UNCHANGED met
          [] OTHER -> Meet(o, "other")

-----------------------------------------------------------------------------
(* Effects of the handlers *)

\* Mutant: the UPDATE has lost its guard and the table its CHECK.
CanReserve_Always(o) == o \in Orders

\* reserve_inventory: UPDATE ... SET quantity = quantity - q WHERE quantity >= q.
CanReserve(o) == stock >= Quantity[o]

Reserve(o) ==
  /\ CanReserve(o)
  /\ stock' = stock - Quantity[o]
  /\ reserves' = [reserves EXCEPT ![o] = @ + 1]
  /\ UNCHANGED releases

\* release_inventory: UPDATE ... SET quantity = quantity + q, under the table's
\* CHECK (quantity >= 0), which a negative q can violate.
CanRelease(o) == stock + Quantity[o] >= 0

Release(o) ==
  /\ CanRelease(o)
  /\ stock' = stock + Quantity[o]
  /\ releases' = [releases EXCEPT ![o] = @ + 1]
  /\ UNCHANGED reserves

\* process_payment with outcome completed; payments.order_id REFERENCES orders(id).
\* There is no idempotency key: every request that runs inserts a row.
Charge(o) ==
  /\ row[o] # NoRow
  /\ payments' = [payments EXCEPT ![o] = @ + 1]
  /\ charges' = [charges EXCEPT ![o] = @ + 1]

\* send_notification with outcome sent; notifications.order_id REFERENCES orders(id).
Notify(o) ==
  /\ row[o] # NoRow
  /\ notifications' = [notifications EXCEPT ![o] = @ + 1]

-----------------------------------------------------------------------------
(* Before the reservation nothing is written. *)

\* Simulated failure, or the user or availability request failed or answered no.
Refuse(o) ==
  /\ pc[o] = "new"
  /\ Return(o, "error")
  /\ UNCHANGED <<row, inventoryVars, paymentVars, notifications, late, met>>

\* The inventory answers that there are units, and shows how many.
Available(o) == stock > 0 /\ stock >= Quantity[o]

\* The product is available in the quantity asked for, at the time of the answer.
\* Then the fraud score decides between a held order and the reservation.
CheckAvailability(o) ==
  /\ pc[o] = "new"
  /\ Available(o)
  /\ IF FraudScore > FraudThreshold
     THEN Return(o, "held")
     ELSE StartHop(o, "reserving")
  /\ UNCHANGED <<row, inventoryVars, paymentVars, notifications, late, met>>

-----------------------------------------------------------------------------
(* Reservation: exceptions and 5xx are retried, a 4xx is not. *)

ReserveOk(o) ==
  /\ pc[o] = "reserving"
  /\ Reserve(o)
  /\ Goto(o, "inserting")
  /\ UNCHANGED <<row, paymentVars, notifications, late, met>>

\* 400: not enough stock any more.
ReserveRefused(o) ==
  /\ pc[o] = "reserving"
  /\ ~CanReserve(o)
  /\ Return(o, "error")
  /\ UNCHANGED <<row, inventoryVars, paymentVars, notifications, late, met>>

\* When the last attempt fails the order is answered with an error and nothing is
\* released, although a lost attempt may have reserved or may still reserve.
ReserveFails(o) ==
  /\ pc[o] = "reserving"
  /\ FailedAttempt(o, "reserve")
  /\ \/ TryAgain(o)
     \/ left[o] = 1 /\ Return(o, "error")
  /\ UNCHANGED <<row, inventoryVars, paymentVars, notifications>>

-----------------------------------------------------------------------------
(* The row is inserted as confirmed / payment_pending. *)

\* orders.quantity has CHECK (quantity > 0).
Inserted(o) ==
  /\ Quantity[o] > 0
  /\ row' = [row EXCEPT ![o] = [status |-> "confirmed", internal |-> "payment_pending"]]

Insert(o) ==
  /\ pc[o] = "inserting"
  /\ Inserted(o)
  /\ Goto(o, "gate")
  /\ UNCHANGED <<inventoryVars, paymentVars, notifications, late, met>>

\* add, commit or refresh raised: the row may have been committed all the same
\* (commit acknowledged too late, or refresh failed).
InsertFails(o) ==
  /\ pc[o] = "inserting"
  /\ \/ /\ "commit" \in Faults
        /\ UNCHANGED row \/ Inserted(o)
        /\ Meet(o, "other")
     \/ /\ Quantity[o] <= 0
        /\ UNCHANGED <<row, met>>
  /\ Goto(o, "releasing")
  /\ UNCHANGED <<inventoryVars, paymentVars, notifications, late>>

-----------------------------------------------------------------------------
(* Payment: payment_cb.call(do_payment).                                   *)

\* The breaker lets the call through.
BreakerAdmits(o) ==
  /\ pc[o] = "gate"
  /\ StartHop(o, "paying")
  /\ UNCHANGED <<row, inventoryVars, paymentVars, notifications, late, met>>

\* CircuitBreakerError: a payment error without any request.
BreakerRejects(o) ==
  /\ pc[o] = "gate"
  /\ Goto(o, "cancelling")
  /\ UNCHANGED <<row, inventoryVars, paymentVars, notifications, late, met>>

\* Mutant: the customer is notified before the paid checkpoint.
PayOk_NotifyFirst(o) ==
  /\ pc[o] = "paying"
  /\ Charge(o)
  /\ StartHop(o, "notifying")
  /\ UNCHANGED <<row, inventoryVars, notifications, late, met>>

PayOk(o) ==
  /\ pc[o] = "paying"
  /\ Charge(o)
  /\ Goto(o, "confirming")
  /\ UNCHANGED <<row, inventoryVars, notifications, late, met>>

\* Mutant: a last attempt that is lost counts as a payment.
PayFails_Optimistic(o) ==
  /\ pc[o] = "paying"
  /\ FailedAttempt(o, "pay")
  /\ \/ TryAgain(o)
     \/ left[o] = 1 /\ Goto(o, "confirming")
  /\ UNCHANGED <<row, inventoryVars, paymentVars, notifications>>

\* Mutant: a last attempt that is lost may have been charged, so the order is answered
\* with an error and keeps its units.
PayFails_KeepsUnits(o) ==
  /\ pc[o] = "paying"
  /\ FailedAttempt(o, "pay")
  /\ \/ TryAgain(o)
     \/ left[o] = 1 /\ late' = late /\ Goto(o, "cancelling")
     \/ left[o] = 1 /\ late' # late /\ Return(o, "error")
  /\ UNCHANGED <<row, inventoryVars, paymentVars, notifications>>

\* Exception, status >= 400 or a body whose status is not success: all are retried.
PayFails(o) ==
  /\ pc[o] = "paying"
  /\ FailedAttempt(o, "pay")
  /\ \/ TryAgain(o)
     \/ left[o] = 1 /\ Goto(o, "cancelling")
  /\ UNCHANGED <<row, inventoryVars, paymentVars, notifications>>

-----------------------------------------------------------------------------
(* Checkpoints: persist_order_state, i.e. sync_db_order, commit and refresh. *)

\* The UPDATE the commit sends: the columns whose value differs from the one loaded
\* at the previous refresh, which is what the saga wrote there, not what the row
\* holds now.  It fails (StaleDataError) when the row is gone.
Checkpoint(o, loadedStatus, status, internal) ==
  /\ row[o] # NoRow
  /\ row' = [row EXCEPT ![o].status = IF status = loadedStatus THEN @ ELSE status,
                        ![o].internal = internal]

\* commit or refresh raised; the update may have been committed.
CheckpointFails(o, loadedStatus, status, internal) ==
  \/ /\ "commit" \in Faults
     /\ UNCHANGED row \/ Checkpoint(o, loadedStatus, status, internal)
     /\ Meet(o, "other")
  \/ /\ row[o] = NoRow
     /\ UNCHANGED <<row, met>>

\* Mutant: a failed payment does not release the reservation.
PersistCancelled_NoRelease(o) ==
  /\ pc[o] = "cancelling"
  /\ Checkpoint(o, "confirmed", "cancelled", "payment_failed")
  /\ Return(o, "error")
  /\ UNCHANGED <<inventoryVars, paymentVars, notifications, late, met>>

PersistCancelled(o) ==
  /\ pc[o] = "cancelling"
  /\ Checkpoint(o, "confirmed", "cancelled", "payment_failed")
  /\ Goto(o, "releasing")
  /\ UNCHANGED <<inventoryVars, paymentVars, notifications, late, met>>

\* The error is answered here, before release_inventory.
PersistCancelledFails(o) ==
  /\ pc[o] = "cancelling"
  /\ CheckpointFails(o, "confirmed", "cancelled", "payment_failed")
  /\ Return(o, "error")
  /\ UNCHANGED <<inventoryVars, paymentVars, notifications, late>>

PersistPaid(o) ==
  /\ pc[o] = "confirming"
  /\ Checkpoint(o, "confirmed", "paid", "payment_verified")
  /\ StartHop(o, "notifying")
  /\ UNCHANGED <<inventoryVars, paymentVars, notifications, late, met>>

\* Mutant: the failed paid checkpoint is compensated although it may be committed.
PersistPaidFails_Releases(o) ==
  /\ pc[o] = "confirming"
  /\ CheckpointFails(o, "confirmed", "paid", "payment_verified")
  /\ Goto(o, "releasing")
  /\ UNCHANGED <<inventoryVars, paymentVars, notifications, late>>

PersistPaidFails(o) ==
  /\ pc[o] = "confirming"
  /\ CheckpointFails(o, "confirmed", "paid", "payment_verified")
  /\ Return(o, "error")
  /\ UNCHANGED <<inventoryVars, paymentVars, notifications, late>>

\* The last checkpoint writes paid over paid: an operator's status stays.
PersistFinal(o) ==
  /\ \/ /\ pc[o] = "completing"
        /\ Checkpoint(o, "paid", "paid", "completed")
        /\ Return(o, "success")
     \/ /\ pc[o] = "warning"
        /\ Checkpoint(o, "paid", "paid", "completed_notification_failed")
        /\ Return(o, "warning")
  /\ UNCHANGED <<inventoryVars, paymentVars, notifications, late, met>>

\* Mutant: the last checkpoint is outside the try, so the saga ends without an answer.
PersistFinalFails_Raises(o) ==
  /\ \/ /\ pc[o] = "completing"
        /\ CheckpointFails(o, "paid", "paid", "completed")
     \/ /\ pc[o] = "warning"
        /\ CheckpointFails(o, "paid", "paid", "completed_notification_failed")
  /\ Goto(o, "done")
  /\ UNCHANGED <<inventoryVars, paymentVars, notifications, late>>

PersistFinalFails(o) ==
  /\ \/ /\ pc[o] = "completing"
        /\ CheckpointFails(o, "paid", "paid", "completed")
     \/ /\ pc[o] = "warning"
        /\ CheckpointFails(o, "paid", "paid", "completed_notification_failed")
  /\ Return(o, "error")
  /\ UNCHANGED <<inventoryVars, paymentVars, notifications, late>>

-----------------------------------------------------------------------------
(* Compensation: one attempt, whose failure only changes the message. *)

ReleaseOk(o) ==
  /\ pc[o] = "releasing"
  /\ Release(o)
  /\ Return(o, "error")
  /\ UNCHANGED <<row, paymentVars, notifications, late, met>>

ReleaseFails(o) ==
  /\ pc[o] = "releasing"
  /\ \/ "lost" \in Faults /\ Lose(o, "release") /\ Meet(o, "other")
     \/ "release" \in Faults /\ Meet(o, "other") /\ UNCHANGED late
     \/ ~CanRelease(o) /\ UNCHANGED <<late, met>>
  /\ Return(o, "error")
  /\ UNCHANGED <<row, inventoryVars, paymentVars, notifications>>

-----------------------------------------------------------------------------
(* Notification: every failure is retried, the last one is a warning. *)

NotifyOk(o) ==
  /\ pc[o] = "notifying"
  /\ Notify(o)
  /\ Goto(o, "completing")
  /\ UNCHANGED <<row, inventoryVars, paymentVars, late, met>>

NotifyFails(o) ==
  /\ pc[o] = "notifying"
  /\ FailedAttempt(o, "notify")
  /\ \/ TryAgain(o)
     \/ left[o] = 1 /\ Goto(o, "warning")
  /\ UNCHANGED <<row, inventoryVars, paymentVars, notifications>>

-----------------------------------------------------------------------------
(* Lost requests, crashes and operators *)

Arrive(o, h) ==
  /\ late[o][h] > 0
  /\ late' = [late EXCEPT ![o][h] = @ - 1]

LateReserve(o) ==
  /\ Arrive(o, "reserve")
  /\ Reserve(o)
  /\ UNCHANGED <<sagaVars, row, paymentVars, notifications, met>>

LatePay(o) ==
  /\ Arrive(o, "pay")
  /\ Charge(o)
  /\ UNCHANGED <<sagaVars, row, inventoryVars, notifications, met>>

LateNotify(o) ==
  /\ Arrive(o, "notify")
  /\ Notify(o)
  /\ UNCHANGED <<sagaVars, row, inventoryVars, paymentVars, met>>

LateRelease(o) ==
  /\ Arrive(o, "release")
  /\ Release(o)
  /\ UNCHANGED <<sagaVars, row, paymentVars, notifications, met>>

\* It never reached the handler, or the handler failed.
NeverArrives(o) ==
  /\ \E h \in Hops : Arrive(o, h)
  /\ UNCHANGED <<sagaVars, row, inventoryVars, paymentVars, notifications, met>>

\* The hop whose answer a saga awaits in a step.
Awaited == [reserving |-> "reserve", paying |-> "pay",
            notifying |-> "notify", releasing |-> "release"]

\* The pod dies, or simulate_stop cancels the task that runs the saga.  Nothing
\* resumes it.  A request it was waiting for may still run.
Crash(o) ==
  /\ "crash" \in Faults
  /\ pc[o] \notin {"new", "done", "dead"}
  /\ pc' = [pc EXCEPT ![o] = "dead"]
  /\ IF pc[o] \in DOMAIN Awaited THEN Lose(o, Awaited[pc[o]]) ELSE UNCHANGED late
  /\ Meet(o, "other")
  /\ UNCHANGED <<left, resp, row, inventoryVars, paymentVars, notifications>>

\* PATCH /orders/{id}/status.
OperatorUpdates(o) ==
  /\ "operator" \in Faults
  /\ row[o] # NoRow
  /\ \E r \in OperatorWrites : row' = [row EXCEPT ![o] = r]
  /\ Meet(o, "operator")
  /\ UNCHANGED <<sagaVars, inventoryVars, paymentVars, notifications, late>>

\* DELETE /orders/{id}; payments and notifications go ON DELETE CASCADE.
OperatorDeletes(o) ==
  /\ "operator" \in Faults
  /\ row[o] # NoRow
  /\ row' = [row EXCEPT ![o] = NoRow]
  /\ payments' = [payments EXCEPT ![o] = 0]
  /\ notifications' = [notifications EXCEPT ![o] = 0]
  /\ Meet(o, "operator")
  /\ UNCHANGED <<sagaVars, inventoryVars, charges, late>>

Saga(o) ==
  \/ Refuse(o) \/ CheckAvailability(o)
  \/ ReserveOk(o) \/ ReserveRefused(o) \/ ReserveFails(o)
  \/ Insert(o) \/ InsertFails(o)
  \/ BreakerAdmits(o) \/ BreakerRejects(o) \/ PayOk(o) \/ PayFails(o)
  \/ PersistCancelled(o) \/ PersistCancelledFails(o)
  \/ PersistPaid(o) \/ PersistPaidFails(o)
  \/ NotifyOk(o) \/ NotifyFails(o)
  \/ PersistFinal(o) \/ PersistFinalFails(o)
  \/ ReleaseOk(o) \/ ReleaseFails(o)

Environment(o) ==
  \/ LateReserve(o) \/ LatePay(o) \/ LateNotify(o) \/ LateRelease(o) \/ NeverArrives(o)
  \/ Crash(o) \/ OperatorUpdates(o) \/ OperatorDeletes(o)

Next == \E o \in Orders : Saga(o) \/ Environment(o)

Spec == Init /\ [][Next]_vars

\* A saga that is running takes its next step: every attempt it awaits ends, with an
\* answer or with HTTP_TIMEOUT.
Fairness == \A o \in Orders : WF_vars(Saga(o))

FairSpec == Spec /\ Fairness

-----------------------------------------------------------------------------
(* Safety *)

\* The row says the order was paid.
Verified(o) ==
  row[o].internal \in {"payment_verified", "completed_notification_failed", "completed"}

\* The units some orders ask for.
UnitsOf(S) == MapThenSumSet(LAMBDA o : Quantity[o], S)

\* The saga is between its reservation and its end, or told the client of a success.
HasUnits(o) ==
  \/ pc[o] \in Steps \ {"new", "reserving", "done", "dead"}
  \/ resp[o] \in {"success", "warning"}

\* The units missing from the stock are those of the orders in progress or sold: never
\* fewer (nothing a running or sold order took is given back under it, by a late request
\* or another saga), and no more either as long as only pay and notify requests are
\* lost: a retry does not reserve again, and no failing order keeps its units, even one
\* whose last payment attempt may be charged later.
StockMatchesOrders ==
  LET missing == InitialStock - stock
      held == UnitsOf({o \in Orders : HasUnits(o)})
  IN /\ held <= missing
     /\ (\A o \in Orders : met[o] \subseteq {"pay"}) => held = missing

\* The orders recorded as paid ask together for no more units than there were.
NoOversell ==
  UnitsOf({o \in Orders : Verified(o) /\ "operator" \notin met[o]}) <= InitialStock

\* An order recorded as paid has a completed payment and keeps a reservation,
\* unless an operator edited its row: no late, retried or duplicated request of
\* the saga gives its units back or records a payment that did not happen.
PaidOrderIsBacked ==
  \A o \in Orders :
    Verified(o) /\ "operator" \notin met[o] => payments[o] >= 1 /\ reserves[o] > releases[o]

\* The compensation is never applied twice, nor to an order without a reservation,
\* nor to one that has been recorded as paid.
CompensatedOnce ==
  \A o \in Orders :
    /\ releases[o] <= 1
    /\ releases[o] <= reserves[o]
    /\ releases[o] = 1 /\ Verified(o) => "operator" \in met[o]

\* Only paid orders are announced to the customer as such, late requests included.
NotifiedOnlyIfPaid ==
  \A o \in Orders :
    notifications[o] > 0 => charges[o] >= 1 /\ ("operator" \notin met[o] => Verified(o))

\* An order is charged more than once only after a pay request of it was lost, whatever
\* else failed, crashed or came late; its units are reserved more than once only after
\* something else of it was lost or failed; and neither happens more often than a hop
\* has attempts.
ExactlyOnceUnlessLost ==
  \A o \in Orders :
    /\ "pay" \notin met[o] => charges[o] <= 1
    /\ "other" \notin met[o] => reserves[o] <= 1
    /\ \E n \in Attempts : charges[o] <= n
    /\ \E n \in Attempts : reserves[o] <= n

\* An order that met no fault is all or nothing, whatever happens to the others: a
\* success or warning is charged once, holds its units and is recorded as paid; an
\* error is not charged, holds no unit and is recorded, if at all, as cancelled.
AllOrNothing ==
  \A o \in Orders : pc[o] = "done" /\ met[o] = {} =>
    IF resp[o] \in {"success", "warning"}
    THEN charges[o] = 1 /\ reserves[o] = 1 /\ releases[o] = 0 /\ Verified(o)
    ELSE /\ charges[o] = 0
         /\ reserves[o] = releases[o]
         /\ row[o] \in {NoRow, [status |-> "cancelled", internal |-> "payment_failed"]}

\* An order answered with an error does not keep units reserved.
ErrorReleases ==
  \A o \in Orders : resp[o] = "error" => reserves[o] = releases[o]

\* What makes the three invariants about compensation, payment and notification
\* inductive: where a saga is determines what has been done for its order, and a
\* lost request counts as if it had been run.
NoCharge(o) == charges[o] = 0 /\ late[o]["pay"] = 0
NoNotice(o) == notifications[o] = 0 /\ late[o]["notify"] = 0
NoRelease(o) == releases[o] = 0 /\ late[o]["release"] = 0
ByOperator(o) == "operator" \in met[o]

OrderInv(o) ==
  /\ pc[o] \in {"new", "reserving", "inserting"} => row[o] = NoRow /\ NoCharge(o)
  /\ pc[o] \notin {"new", "reserving", "done", "dead"} => reserves[o] >= 1
  /\ pc[o] \notin {"done", "dead"} => NoRelease(o)
  /\ pc[o] \notin {"notifying", "completing", "warning", "done", "dead"} => NoNotice(o)
  /\ pc[o] \in {"gate", "paying", "cancelling", "releasing", "confirming"} =>
       ByOperator(o) \/ ~Verified(o)
  /\ pc[o] = "confirming" => charges[o] >= 1 /\ (ByOperator(o) \/ payments[o] >= 1)
  /\ pc[o] \in {"notifying", "completing", "warning"} =>
       charges[o] >= 1 /\ (ByOperator(o) \/ Verified(o))
  /\ releases[o] + late[o]["release"] <= 1
  /\ NoRelease(o) \/ reserves[o] >= 1
  /\ Verified(o) => \/ ByOperator(o)
                    \/ payments[o] >= 1 /\ reserves[o] >= 1 /\ NoRelease(o)
  /\ NoNotice(o) \/ (charges[o] >= 1 /\ (ByOperator(o) \/ Verified(o)))

SagaInv == \A o \in Orders : OrderInv(o)

\* What the client of an order can tell from what it is told.
AnswerOf(o) ==
  IF resp[o] = "none" THEN "none"
  ELSE IF resp[o] \in {"success", "warning"} THEN "bought" ELSE "not bought"

\* The saga keeps the contract of an order: no step of it, of a late request, of a crash
\* or of an operator charges before it holds, gives back twice or gives back what was
\* sold, even after the saga has answered.
Contract == INSTANCE OrderContract WITH
  holds <- reserves,
  charged <- [o \in Orders |-> charges[o] >= 1],
  returned <- [o \in Orders |-> releases[o] >= 1],
  answer <- [o \in Orders |-> AnswerOf(o)]
KeepsContract == Contract!ContractSpec

-----------------------------------------------------------------------------
(* Liveness *)

\* Every saga that started is answered in the end, whatever fails or is lost on its way,
\* unless its process ends or its task is cancelled.
EveryOrderAnswered ==
  <>[](\A o \in Orders : pc[o] \in {"new", "dead"} \/ resp[o] # "none")
=============================================================================
