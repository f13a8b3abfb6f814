--------------------------- MODULE OrderSagaProofs ---------------------------
(***************************************************************************)
(* Proofs about OrderSaga for any set of orders, any quantities, stock and *)
(* numbers of attempts, and any combination of faults: type correctness    *)
(* (the stock is never negative), and the invariants about payment,        *)
(* compensation and notification, from the inductive invariant SagaInv;    *)
(* how often an order is reserved and charged, and that one which met no   *)
(* fault is all or nothing, from TriesInv, SureInv, KeptInv and CleanInv;  *)
(* and the stock, a sum over all orders (NoOversell, StockMatchesOrders).  *)
(*                                                                         *)
(* The actions of OrderSaga are built from a few operators on the state of *)
(* one order.  The first part says of each of them what it leaves at that  *)
(* order, and that it leaves every other order alone; the steps below cite *)
(* these facts instead of expanding the operators.                         *)
(***************************************************************************)
EXTENDS OrderSaga, TLAPS, FiniteSetTheorems, WellFoundedInduction

USE DEF Hops, Steps, Responses, Troubles, sagaVars, inventoryVars, paymentVars

SagaTypes ==
  pc \in [Orders -> Steps] /\ left \in [Orders -> Nat] /\ resp \in [Orders -> Responses]
RowType == row \in [Orders -> Rows \cup {NoRow}]
StockTypes ==
  stock \in Nat /\ reserves \in [Orders -> Nat] /\ releases \in [Orders -> Nat]
PaymentTypes == payments \in [Orders -> Nat] /\ charges \in [Orders -> Nat]
NoticeType == notifications \in [Orders -> Nat]
LateType == late \in [Orders -> [Hops -> Nat]]
MetType == met \in [Orders -> SUBSET Troubles]

LEMMA TypeParts ==
  ASSUME SagaTypes', RowType', StockTypes', PaymentTypes', NoticeType', LateType', MetType'
  PROVE  TypeOK'
BY DEF TypeOK, SagaTypes, RowType, StockTypes, PaymentTypes, NoticeType, LateType, MetType

LEMMA UnchangedTypes ==
  ASSUME TypeOK
  PROVE  /\ UNCHANGED sagaVars => SagaTypes'
         /\ UNCHANGED row => RowType'
         /\ UNCHANGED inventoryVars => StockTypes'
         /\ UNCHANGED paymentVars => PaymentTypes'
         /\ UNCHANGED notifications => NoticeType'
         /\ UNCHANGED late => LateType'
         /\ UNCHANGED met => MetType'
BY DEF TypeOK, SagaTypes, RowType, StockTypes, PaymentTypes, NoticeType, LateType, MetType

\* An order whose state, the shared stock aside, a step leaves alone.
Untouched(p) ==
  /\ pc'[p] = pc[p] /\ row'[p] = row[p] /\ payments'[p] = payments[p]
  /\ charges'[p] = charges[p] /\ notifications'[p] = notifications[p]
  /\ late'[p] = late[p] /\ reserves'[p] = reserves[p] /\ releases'[p] = releases[p]
  /\ met'[p] = met[p]

-----------------------------------------------------------------------------
(* Facts about the operators *)

LEMMA GotoFacts ==
  ASSUME TypeOK, NEW o \in Orders, NEW s \in Steps, Goto(o, s)
  PROVE  SagaTypes' /\ pc'[o] = s /\ \A p \in Orders \ {o} : pc'[p] = pc[p]
BY DEF TypeOK, Goto, SagaTypes

LEMMA StartHopFacts ==
  ASSUME TypeOK, NEW o \in Orders, NEW s \in Steps, StartHop(o, s)
  PROVE  SagaTypes' /\ pc'[o] = s /\ \A p \in Orders \ {o} : pc'[p] = pc[p]
<1>1. PICK n \in Nat : left' = [left EXCEPT ![o] = n]
  BY AttemptsAssumption DEF StartHop
<1>2. QED
  BY <1>1 DEF TypeOK, StartHop, SagaTypes

LEMMA ReturnFacts ==
  ASSUME TypeOK, NEW o \in Orders, NEW r \in Responses, Return(o, r)
  PROVE  SagaTypes' /\ pc'[o] = "done" /\ \A p \in Orders \ {o} : pc'[p] = pc[p]
BY DEF TypeOK, Return, SagaTypes

LEMMA TryAgainFacts ==
  ASSUME TypeOK, NEW o \in Orders, TryAgain(o)
  PROVE  SagaTypes' /\ pc' = pc
BY DEF TypeOK, TryAgain, SagaTypes

\* What a fault adds to the faults an order has met.
LEMMA MeetFacts ==
  ASSUME TypeOK, NEW o \in Orders, NEW k \in Troubles, Meet(o, k)
  PROVE  /\ MetType' /\ met'[o] = met[o] \cup {k}
         /\ \A p \in Orders \ {o} : met'[p] = met[p]
BY DEF TypeOK, Meet, MetType

LEMMA LoseFacts ==
  ASSUME TypeOK, NEW o \in Orders, NEW h \in Hops, Lose(o, h)
  PROVE  /\ LateType' /\ late'[o][h] = late[o][h] + 1
         /\ \A g \in Hops \ {h} : late'[o][g] = late[o][g]
         /\ \A p \in Orders \ {o} : late'[p] = late[p]
BY DEF TypeOK, Lose, LateType

LEMMA ArriveFacts ==
  ASSUME TypeOK, NEW o \in Orders, NEW h \in Hops, Arrive(o, h)
  PROVE  /\ LateType' /\ late[o][h] > 0 /\ late'[o][h] = late[o][h] - 1
         /\ \A g \in Hops \ {h} : late'[o][g] = late[o][g]
         /\ \A p \in Orders \ {o} : late'[p] = late[p]
BY DEF TypeOK, Arrive, LateType

\* A failed attempt leaves the requests of the other hops and other orders as they
\* are, and is no operator's doing.
LEMMA FailedAttemptFacts ==
  ASSUME TypeOK, NEW o \in Orders, NEW h \in Hops, FailedAttempt(o, h)
  PROVE  /\ LateType' /\ MetType'
         /\ late'[o][h] \in {late[o][h], late[o][h] + 1}
         /\ \A g \in Hops \ {h} : late'[o][g] = late[o][g]
         /\ met'[o] \in {met[o], met[o] \cup {"pay"}, met[o] \cup {"other"}}
         /\ \A p \in Orders \ {o} : late'[p] = late[p] /\ met'[p] = met[p]
         /\ h = "pay" /\ "pay" \notin met'[o] => late'[o] = late[o]
         /\ h = "reserve" /\ "other" \notin met'[o] => late'[o] = late[o]
<1>1. CASE UNCHANGED <<late, met>>
  BY <1>1 DEF TypeOK, LateType, MetType
<1>2. CASE Lose(o, h) /\ UNCHANGED met /\ h = "notify"
  BY <1>2, LoseFacts DEF TypeOK, MetType
<1>3. CASE Lose(o, h) /\ Meet(o, "pay") /\ h = "pay"
  BY <1>3, LoseFacts, MeetFacts
<1>4. CASE Lose(o, h) /\ Meet(o, "other") /\ h \notin {"pay", "notify"}
  BY <1>4, LoseFacts, MeetFacts
<1>5. QED
  BY <1>1, <1>2, <1>3, <1>4 DEF FailedAttempt

LEMMA ReserveFacts ==
  ASSUME TypeOK, NEW o \in Orders, Reserve(o)
  PROVE  /\ StockTypes' /\ reserves'[o] = reserves[o] + 1 /\ releases' = releases
         /\ \A p \in Orders \ {o} : reserves'[p] = reserves[p]
<1>1. stock \in Nat /\ Quantity[o] \in Int /\ stock >= Quantity[o]
  BY QuantityAssumption DEF TypeOK, Reserve, CanReserve
<1>2. stock' = stock - Quantity[o]
  BY DEF Reserve
<1>3. stock' \in Nat
  BY <1>1, <1>2
<1>4. QED
  BY <1>3 DEF TypeOK, Reserve, StockTypes

LEMMA ReleaseFacts ==
  ASSUME TypeOK, NEW o \in Orders, Release(o)
  PROVE  /\ StockTypes' /\ releases'[o] = releases[o] + 1 /\ reserves' = reserves
         /\ \A p \in Orders \ {o} : releases'[p] = releases[p]
<1>1. stock' \in Nat
  BY QuantityAssumption DEF TypeOK, Release, CanRelease
<1>2. QED
  BY <1>1 DEF TypeOK, Release, StockTypes

LEMMA ChargeFacts ==
  ASSUME TypeOK, NEW o \in Orders, Charge(o)
  PROVE  /\ PaymentTypes' /\ row[o] # NoRow
         /\ payments'[o] = payments[o] + 1 /\ charges'[o] = charges[o] + 1
         /\ \A p \in Orders \ {o} : payments'[p] = payments[p] /\ charges'[p] = charges[p]
BY DEF TypeOK, Charge, PaymentTypes

LEMMA NotifyFacts ==
  ASSUME TypeOK, NEW o \in Orders, Notify(o)
  PROVE  /\ NoticeType' /\ row[o] # NoRow
         /\ notifications'[o] = notifications[o] + 1
         /\ \A p \in Orders \ {o} : notifications'[p] = notifications[p]
BY DEF TypeOK, Notify, NoticeType

\* The row a saga inserts does not say that the order was paid.
LEMMA InsertedFacts ==
  ASSUME TypeOK, NEW o \in Orders, Inserted(o)
  PROVE  RowType' /\ ~Verified(o)' /\ \A p \in Orders \ {o} : row'[p] = row[p]
<1>1. [status |-> "confirmed", internal |-> "payment_pending"] \in Rows
  BY DEF Rows, RowStatuses, SagaInternals
<1>2. RowType' /\ row'[o] = [status |-> "confirmed", internal |-> "payment_pending"]
  BY <1>1 DEF TypeOK, RowType, Inserted
<1>3. QED
  BY <1>2 DEF TypeOK, Inserted, Verified

LEMMA CheckpointFacts ==
  ASSUME TypeOK, NEW o \in Orders, NEW l \in RowStatuses, NEW s \in RowStatuses,
         NEW i \in SagaInternals, Checkpoint(o, l, s, i)
  PROVE  RowType' /\ row'[o].internal = i /\ \A p \in Orders \ {o} : row'[p] = row[p]
<1>1. row[o] \in Rows
  BY DEF TypeOK, Checkpoint
<1>2. PICK t \in RowStatuses :
        row' = [row EXCEPT ![o] = [row[o] EXCEPT !.status = t, !.internal = i]]
  <2>1. row' = [row EXCEPT ![o].status = IF s = l THEN @ ELSE s, ![o].internal = i]
    BY DEF Checkpoint
  <2>2. row[o].status \in RowStatuses
    BY <1>1 DEF Rows
  <2>3. CASE s = l
    BY <2>1, <2>2, <2>3 DEF TypeOK
  <2>4. CASE s # l
    BY <2>1, <2>4 DEF TypeOK
  <2>5. QED
    BY <2>3, <2>4
<1>3. [row[o] EXCEPT !.status = t, !.internal = i] \in Rows
  BY <1>1, <1>2 DEF Rows
<1>4. [row[o] EXCEPT !.status = t, !.internal = i].internal = i
  BY <1>1 DEF Rows
<1>5. QED
  BY <1>2, <1>3, <1>4 DEF TypeOK, RowType

\* A failed checkpoint leaves the row or writes it; writing it does not make an order
\* paid unless internal says so.
LEMMA CheckpointFailsFacts ==
  ASSUME TypeOK, NEW o \in Orders, NEW l \in RowStatuses, NEW s \in RowStatuses,
         NEW i \in SagaInternals, CheckpointFails(o, l, s, i)
  PROVE  /\ RowType' /\ MetType'
         /\ row'[o] = row[o] \/ row'[o].internal = i
         /\ met'[o] \in {met[o], met[o] \cup {"other"}}
         /\ \A p \in Orders \ {o} : row'[p] = row[p] /\ met'[p] = met[p]
<1>1. RowType' /\ (row'[o] = row[o] \/ row'[o].internal = i)
        /\ \A p \in Orders \ {o} : row'[p] = row[p]
  <2>1. CASE UNCHANGED row
    BY <2>1 DEF TypeOK, RowType
  <2>2. CASE Checkpoint(o, l, s, i)
    BY <2>2, CheckpointFacts
  <2>3. QED
    BY <2>1, <2>2 DEF CheckpointFails
<1>2. CASE Meet(o, "other")
  BY <1>1, <1>2, MeetFacts
<1>3. CASE UNCHANGED met
  BY <1>1, <1>3 DEF TypeOK, MetType
<1>4. QED
  BY <1>2, <1>3 DEF CheckpointFails

-----------------------------------------------------------------------------
(* Every step of an order keeps the types and leaves the other orders alone. *)

Frame(o) == TypeOK' /\ \A p \in Orders \ {o} : Untouched(p)

LEMMA OrderStep ==
  ASSUME TypeOK, NEW o \in Orders, Saga(o) \/ Environment(o)
  PROVE  Frame(o)
<1> USE TypeParts, UnchangedTypes DEF Frame, Untouched
<1>1. CASE Refuse(o)
  BY <1>1, ReturnFacts DEF Refuse
<1>2. CASE CheckAvailability(o)
  BY <1>2, ReturnFacts, StartHopFacts DEF CheckAvailability
<1>3. CASE ReserveOk(o)
  BY <1>3, ReserveFacts, GotoFacts DEF ReserveOk
<1>4. CASE ReserveRefused(o)
  BY <1>4, ReturnFacts DEF ReserveRefused
<1>5. CASE ReserveFails(o)
  BY <1>5, FailedAttemptFacts, TryAgainFacts, ReturnFacts DEF ReserveFails
<1>6. CASE Insert(o)
  BY <1>6, InsertedFacts, GotoFacts DEF Insert
<1>7. CASE InsertFails(o)
  BY <1>7, InsertedFacts, GotoFacts, MeetFacts DEF InsertFails
<1>8. CASE BreakerAdmits(o)
  BY <1>8, StartHopFacts DEF BreakerAdmits
<1>9. CASE BreakerRejects(o)
  BY <1>9, GotoFacts DEF BreakerRejects
<1>10. CASE PayOk(o)
  BY <1>10, ChargeFacts, GotoFacts DEF PayOk
<1>11. CASE PayFails(o)
  BY <1>11, FailedAttemptFacts, TryAgainFacts, GotoFacts DEF PayFails
<1>12. CASE PersistCancelled(o)
  BY <1>12, CheckpointFacts, GotoFacts DEF PersistCancelled, RowStatuses, SagaInternals
<1>13. CASE PersistCancelledFails(o)
  BY <1>13, CheckpointFailsFacts, ReturnFacts DEF PersistCancelledFails, RowStatuses, SagaInternals
<1>14. CASE PersistPaid(o)
  BY <1>14, CheckpointFacts, StartHopFacts DEF PersistPaid, RowStatuses, SagaInternals
<1>15. CASE PersistPaidFails(o)
  BY <1>15, CheckpointFailsFacts, ReturnFacts DEF PersistPaidFails, RowStatuses, SagaInternals
<1>16. CASE PersistFinal(o)
  BY <1>16, CheckpointFacts, ReturnFacts DEF PersistFinal, RowStatuses, SagaInternals
<1>17. CASE PersistFinalFails(o)
  BY <1>17, CheckpointFailsFacts, ReturnFacts DEF PersistFinalFails, RowStatuses, SagaInternals
<1>18. CASE NotifyOk(o)
  BY <1>18, NotifyFacts, GotoFacts DEF NotifyOk
<1>19. CASE NotifyFails(o)
  BY <1>19, FailedAttemptFacts, TryAgainFacts, GotoFacts DEF NotifyFails
<1>20. CASE ReleaseOk(o)
  BY <1>20, ReleaseFacts, ReturnFacts DEF ReleaseOk
<1>21. CASE ReleaseFails(o)
  BY <1>21, LoseFacts, MeetFacts, ReturnFacts DEF ReleaseFails
<1>22. CASE LateReserve(o)
  BY <1>22, ArriveFacts, ReserveFacts DEF LateReserve
<1>23. CASE LatePay(o)
  BY <1>23, ArriveFacts, ChargeFacts DEF LatePay
<1>24. CASE LateNotify(o)
  BY <1>24, ArriveFacts, NotifyFacts DEF LateNotify
<1>25. CASE LateRelease(o)
  BY <1>25, ArriveFacts, ReleaseFacts DEF LateRelease
<1>26. CASE NeverArrives(o)
  BY <1>26, ArriveFacts DEF NeverArrives
<1>27. CASE Crash(o)
  <2>1. SagaTypes' /\ \A p \in Orders \ {o} : pc'[p] = pc[p]
    BY <1>27 DEF Crash, TypeOK, SagaTypes
  <2>2. LateType' /\ \A p \in Orders \ {o} : late'[p] = late[p]
    BY <1>27, LoseFacts DEF Crash, Awaited
  <2>3. MetType' /\ \A p \in Orders \ {o} : met'[p] = met[p]
    BY <1>27, MeetFacts DEF Crash
  <2>4. QED
    BY <1>27, <2>1, <2>2, <2>3 DEF Crash
<1>28. CASE OperatorUpdates(o)
  <2>1. RowType' /\ \A p \in Orders \ {o} : row'[p] = row[p]
    BY <1>28, OperatorAssumption DEF OperatorUpdates, TypeOK, RowType
  <2>2. QED
    BY <1>28, <2>1, MeetFacts DEF OperatorUpdates
<1>29. CASE OperatorDeletes(o)
  <2>1. RowType' /\ \A p \in Orders \ {o} : row'[p] = row[p]
    BY <1>29 DEF OperatorDeletes, TypeOK, RowType
  <2>2. PaymentTypes' /\ NoticeType'
    BY <1>29 DEF OperatorDeletes, TypeOK, PaymentTypes, NoticeType
  <2>3. \A p \in Orders \ {o} :
          payments'[p] = payments[p] /\ notifications'[p] = notifications[p]
    BY <1>29 DEF OperatorDeletes, TypeOK
  <2>4. QED
    BY <1>29, <2>1, <2>2, <2>3, MeetFacts DEF OperatorDeletes
<1> QED
  BY <1>1, <1>2, <1>3, <1>4, <1>5, <1>6, <1>7, <1>8, <1>9, <1>10, <1>11, <1>12, <1>13,
     <1>14, <1>15, <1>16, <1>17, <1>18, <1>19, <1>20, <1>21, <1>22, <1>23, <1>24, <1>25,
     <1>26, <1>27, <1>28, <1>29
  DEF Saga, Environment

\* Every variable keeps its type; the stock in particular never goes below zero,
\* whatever is reserved and released, late or out of order, in any quantity.
THEOREM SagaTypeCorrect == Spec => []TypeOK
<1>1. Init => TypeOK
  BY StockAssumption DEF Init, TypeOK
<1>2. TypeOK /\ [Next]_vars => TypeOK'
  <2>1. SUFFICES ASSUME TypeOK, [Next]_vars
                 PROVE  TypeOK'
    OBVIOUS
  <2>2. CASE Next
    BY <2>1, <2>2, OrderStep DEF Next, Frame
  <2>3. CASE UNCHANGED vars
    BY <2>1, <2>3 DEF TypeOK, vars
  <2>4. QED
    BY <2>1, <2>2, <2>3
<1>3. QED
  BY <1>1, <1>2, PTL DEF Spec

-----------------------------------------------------------------------------
(* Where a saga is determines what has been done for its order.             *)

\* The values of one order.
LEMMA OrderValues ==
  ASSUME TypeOK, NEW o \in Orders
  PROVE  /\ charges[o] \in Nat /\ payments[o] \in Nat /\ notifications[o] \in Nat
         /\ reserves[o] \in Nat /\ releases[o] \in Nat
         /\ \A h \in Hops : late[o][h] \in Nat
BY DEF TypeOK

LEMMA OrderInvStep ==
  ASSUME TypeOK, NEW o \in Orders, OrderInv(o), Saga(o) \/ Environment(o)
  PROVE  OrderInv(o)'
<1> USE OrderValues DEF OrderInv, NoCharge, NoNotice, NoRelease, ByOperator, Verified
<1>1. CASE Refuse(o)
  BY <1>1, ReturnFacts DEF Refuse
<1>2. CASE CheckAvailability(o)
  BY <1>2, ReturnFacts, StartHopFacts DEF CheckAvailability
<1>3. CASE ReserveOk(o)
  BY <1>3, ReserveFacts, GotoFacts DEF ReserveOk
<1>4. CASE ReserveRefused(o)
  BY <1>4, ReturnFacts DEF ReserveRefused
<1>5. CASE ReserveFails(o)
  BY <1>5, FailedAttemptFacts, TryAgainFacts, ReturnFacts DEF ReserveFails
<1>6. CASE Insert(o)
  BY <1>6, InsertedFacts, GotoFacts DEF Insert
<1>7. CASE InsertFails(o)
  <2>1. ~Verified(o)'
    BY <1>7, InsertedFacts DEF InsertFails, NoRow
  <2>2. pc'[o] = "releasing"
    BY <1>7, GotoFacts DEF InsertFails
  <2>3. QED
    BY <1>7, <2>1, <2>2 DEF InsertFails
<1>8. CASE BreakerAdmits(o)
  BY <1>8, StartHopFacts DEF BreakerAdmits
<1>9. CASE BreakerRejects(o)
  BY <1>9, GotoFacts DEF BreakerRejects
<1>10. CASE PayOk(o)
  BY <1>10, ChargeFacts, GotoFacts DEF PayOk
<1>11. CASE PayFails(o)
  BY <1>11, FailedAttemptFacts, TryAgainFacts, GotoFacts DEF PayFails
<1>12. CASE PersistCancelled(o)
  BY <1>12, CheckpointFacts, GotoFacts DEF PersistCancelled, RowStatuses, SagaInternals
<1>13. CASE PersistCancelledFails(o)
  BY <1>13, CheckpointFailsFacts, ReturnFacts DEF PersistCancelledFails, RowStatuses, SagaInternals
<1>14. CASE PersistPaid(o)
  BY <1>14, CheckpointFacts, StartHopFacts DEF PersistPaid, RowStatuses, SagaInternals
<1>15. CASE PersistPaidFails(o)
  BY <1>15, CheckpointFailsFacts, ReturnFacts DEF PersistPaidFails, RowStatuses, SagaInternals
<1>16. CASE PersistFinal(o)
  BY <1>16, CheckpointFacts, ReturnFacts DEF PersistFinal, RowStatuses, SagaInternals
<1>17. CASE PersistFinalFails(o)
  BY <1>17, CheckpointFailsFacts, ReturnFacts DEF PersistFinalFails, RowStatuses, SagaInternals
<1>18. CASE NotifyOk(o)
  BY <1>18, NotifyFacts, GotoFacts DEF NotifyOk
<1>19. CASE NotifyFails(o)
  BY <1>19, FailedAttemptFacts, TryAgainFacts, GotoFacts DEF NotifyFails
<1>20. CASE ReleaseOk(o)
  BY <1>20, ReleaseFacts, ReturnFacts DEF ReleaseOk
<1>21. CASE ReleaseFails(o)
  BY <1>21, LoseFacts, MeetFacts, ReturnFacts DEF ReleaseFails
<1>22. CASE LateReserve(o)
  BY <1>22, ArriveFacts, ReserveFacts DEF LateReserve
<1>23. CASE LatePay(o)
  BY <1>23, ArriveFacts, ChargeFacts DEF LatePay
<1>24. CASE LateNotify(o)
  BY <1>24, ArriveFacts, NotifyFacts DEF LateNotify
<1>25. CASE LateRelease(o)
  BY <1>25, ArriveFacts, ReleaseFacts DEF LateRelease
<1>26. CASE NeverArrives(o)
  BY <1>26, ArriveFacts DEF NeverArrives
<1>27. CASE Crash(o)
  <2>1. pc'[o] = "dead"
    BY <1>27 DEF Crash, TypeOK
  <2>2. CASE pc[o] \in DOMAIN Awaited
    <3>1. Lose(o, Awaited[pc[o]])
      BY <1>27, <2>2 DEF Crash
    <3>2. PICK h \in Hops : /\ Lose(o, h)
                            /\ h = "pay" => pc[o] = "paying"
                            /\ h = "notify" => pc[o] = "notifying"
                            /\ h = "release" => pc[o] = "releasing"
      BY <2>2, <3>1 DEF Awaited
    <3>3. /\ late'[o][h] = late[o][h] + 1
          /\ \A g \in Hops \ {h} : late'[o][g] = late[o][g]
      BY <3>2, LoseFacts
    <3>4. QED
      BY <1>27, <2>1, <3>2, <3>3, MeetFacts DEF Crash
  <2>3. CASE pc[o] \notin DOMAIN Awaited
    BY <1>27, <2>1, <2>3, MeetFacts DEF Crash
  <2>4. QED
    BY <2>2, <2>3
<1>28. CASE OperatorUpdates(o)
  BY <1>28, MeetFacts DEF OperatorUpdates
<1>29. CASE OperatorDeletes(o)
  BY <1>29, MeetFacts DEF OperatorDeletes
<1> QED
  BY <1>1, <1>2, <1>3, <1>4, <1>5, <1>6, <1>7, <1>8, <1>9, <1>10, <1>11, <1>12, <1>13,
     <1>14, <1>15, <1>16, <1>17, <1>18, <1>19, <1>20, <1>21, <1>22, <1>23, <1>24, <1>25,
     <1>26, <1>27, <1>28, <1>29
  DEF Saga, Environment

\* Nothing in the invariant of an order but its own state.
LEMMA OrderInvUntouched ==
  ASSUME NEW p \in Orders, OrderInv(p), Untouched(p)
  PROVE  OrderInv(p)'
BY DEF OrderInv, NoCharge, NoNotice, NoRelease, ByOperator, Verified, Untouched

LEMMA SagaInvInductive ==
  ASSUME TypeOK, SagaInv, [Next]_vars
  PROVE  SagaInv'
<1>1. CASE Next
  <2>1. PICK o \in Orders : Saga(o) \/ Environment(o)
    BY <1>1 DEF Next
  <2>2. OrderInv(o)'
    BY <2>1, OrderInvStep DEF SagaInv
  <2>3. \A p \in Orders \ {o} : OrderInv(p)'
    BY <2>1, OrderStep, OrderInvUntouched DEF SagaInv, Frame
  <2>4. QED
    BY <2>2, <2>3 DEF SagaInv
<1>2. CASE UNCHANGED vars
  <2>1. \A p \in Orders : Untouched(p)
    BY <1>2 DEF vars, Untouched
  <2>2. QED
    BY <2>1, OrderInvUntouched DEF SagaInv
<1>3. QED
  BY <1>1, <1>2

\* The strengthening of the three invariants below: the step a saga is in bounds what
\* was charged, reserved, released and announced, requests still to run included.
THEOREM SagaInvariant == Spec => []SagaInv
<1>1. Init => SagaInv
  BY DEF Init, SagaInv, OrderInv, NoCharge, NoNotice, NoRelease, ByOperator, Verified, NoRow
<1>2. TypeOK /\ SagaInv /\ [Next]_vars => SagaInv'
  BY SagaInvInductive
<1>3. QED
  BY <1>1, <1>2, SagaTypeCorrect, PTL DEF Spec

-----------------------------------------------------------------------------
(* The invariants that the runs check, from SagaInv. *)

\* No interleaving of retries, lost requests, failures and crashes leaves an order
\* recorded as paid without a payment, or gives its units back.
THEOREM PaidIsAlwaysBacked == Spec => []PaidOrderIsBacked
<1>1. TypeOK /\ SagaInv => PaidOrderIsBacked
  <2>1. SUFFICES ASSUME TypeOK, NEW o \in Orders, OrderInv(o)
                 PROVE  Verified(o) /\ "operator" \notin met[o]
                          => payments[o] >= 1 /\ reserves[o] > releases[o]
    BY DEF SagaInv, PaidOrderIsBacked
  <2>2. QED
    BY <2>1, OrderValues DEF OrderInv, NoRelease, ByOperator
<1>2. QED
  BY <1>1, SagaInvariant, SagaTypeCorrect, PTL

\* release_inventory takes effect at most once per order and never on a paid one.
THEOREM CompensationIsAppliedOnce == Spec => []CompensatedOnce
<1>1. TypeOK /\ SagaInv => CompensatedOnce
  <2>1. SUFFICES ASSUME TypeOK, NEW o \in Orders, OrderInv(o)
                 PROVE  /\ releases[o] <= 1
                        /\ releases[o] <= reserves[o]
                        /\ releases[o] = 1 /\ Verified(o) => "operator" \in met[o]
    BY DEF SagaInv, CompensatedOnce
  <2>2. QED
    BY <2>1, OrderValues DEF OrderInv, NoRelease, ByOperator
<1>2. QED
  BY <1>1, SagaInvariant, SagaTypeCorrect, PTL

\* The customer hears of a payment only once it is completed and recorded.
THEOREM NotificationFollowsPayment == Spec => []NotifiedOnlyIfPaid
<1>1. TypeOK /\ SagaInv => NotifiedOnlyIfPaid
  <2>1. SUFFICES ASSUME TypeOK, NEW o \in Orders, OrderInv(o)
                 PROVE  notifications[o] > 0
                          => charges[o] >= 1 /\ ("operator" \notin met[o] => Verified(o))
    BY DEF SagaInv, NotifiedOnlyIfPaid
  <2>2. QED
    BY <2>1, OrderValues DEF OrderInv, NoNotice, ByOperator
<1>2. QED
  BY <1>1, SagaInvariant, SagaTypeCorrect, PTL

-----------------------------------------------------------------------------
(* The saga implements OrderContract. *)

\* What a step of an order does to what the contract is about.
Silent == UNCHANGED <<reserves, releases, charges, resp>>
Holds(o) == Reserve(o) /\ UNCHANGED <<charges, resp>>
Charges(o) ==
  /\ Charge(o)
  /\ UNCHANGED <<reserves, releases, resp>>
  /\ pc[o] = "paying" \/ late[o]["pay"] > 0
Answering(o) ==
  /\ \E r \in Responses \ {"none"} :
       Return(o, r) /\ (AnswerOf(o)' = "bought" => pc[o] \in {"completing", "warning"})
  /\ pc[o] \notin {"done", "dead"}
  /\ UNCHANGED <<reserves, releases, charges>>
GivesBack(o) ==
  /\ Release(o)
  /\ UNCHANGED charges
  /\ \/ pc[o] = "releasing" /\ Return(o, "error")
     \/ late[o]["release"] > 0 /\ UNCHANGED resp

Effect(o) == Silent \/ Holds(o) \/ Charges(o) \/ Answering(o) \/ GivesBack(o)

LEMMA ReturnAnswers ==
  ASSUME TypeOK, NEW o \in Orders, NEW r \in Responses \ {"none"}, Return(o, r)
  PROVE  /\ resp' = [resp EXCEPT ![o] = r]
         /\ AnswerOf(o)' = IF r \in {"success", "warning"} THEN "bought" ELSE "not bought"
         /\ \A p \in Orders \ {o} : AnswerOf(p)' = AnswerOf(p)
BY DEF TypeOK, Return, AnswerOf

LEMMA ErrorAnswers ==
  ASSUME TypeOK, NEW o \in Orders, Return(o, "error")
  PROVE  /\ resp' = [resp EXCEPT ![o] = "error"] /\ AnswerOf(o)' = "not bought"
         /\ \A p \in Orders \ {o} : resp'[p] = resp[p] /\ AnswerOf(p)' = AnswerOf(p)
BY DEF TypeOK, Return, AnswerOf

LEMMA AnsweringFacts ==
  ASSUME TypeOK, NEW o \in Orders, NEW r \in Responses \ {"none"}, Return(o, r),
         pc[o] \notin {"done", "dead"}, UNCHANGED <<reserves, releases, charges>>,
         r \in {"success", "warning"} => pc[o] \in {"completing", "warning"}
  PROVE  Answering(o)
BY ReturnAnswers DEF Answering

LEMMA StepEffect ==
  ASSUME TypeOK, NEW o \in Orders, Saga(o) \/ Environment(o)
  PROVE  Effect(o)
<1> USE DEF Effect
<1>1. CASE \/ Refuse(o) \/ ReserveRefused(o) \/ PersistCancelledFails(o)
           \/ PersistPaidFails(o) \/ ReleaseFails(o)
  <2>1. Return(o, "error") /\ pc[o] \notin {"done", "dead"}
    BY <1>1 DEF Refuse, ReserveRefused, PersistCancelledFails, PersistPaidFails, ReleaseFails
  <2>2. UNCHANGED <<reserves, releases, charges>>
    BY <1>1 DEF Refuse, ReserveRefused, PersistCancelledFails, PersistPaidFails, ReleaseFails
  <2>3. QED
    BY <2>1, <2>2, AnsweringFacts
<1>2. CASE CheckAvailability(o)
  BY <1>2, AnsweringFacts DEF CheckAvailability, Silent, StartHop
<1>3. CASE ReserveFails(o) \/ NotifyFails(o) \/ PayFails(o)
  <2>1. UNCHANGED <<reserves, releases, charges>> /\ pc[o] \notin {"done", "dead"}
    BY <1>3 DEF ReserveFails, NotifyFails, PayFails
  <2>2. Return(o, "error") \/ UNCHANGED resp
    BY <1>3 DEF ReserveFails, NotifyFails, PayFails, TryAgain, Goto
  <2>3. QED
    BY <2>1, <2>2, AnsweringFacts DEF Silent
<1>4. CASE PersistFinal(o) \/ PersistFinalFails(o)
  <2>1. /\ UNCHANGED <<reserves, releases, charges>>
        /\ pc[o] \in {"completing", "warning"}
    BY <1>4 DEF PersistFinal, PersistFinalFails
  <2>2. \E r \in {"success", "warning", "error"} : Return(o, r)
    BY <1>4 DEF PersistFinal, PersistFinalFails
  <2>3. QED
    BY <2>1, <2>2, AnsweringFacts
<1>5. CASE ReserveOk(o) \/ LateReserve(o)
  BY <1>5 DEF ReserveOk, LateReserve, Holds, Goto
<1>6. CASE PayOk(o) \/ LatePay(o)
  BY <1>6 DEF PayOk, LatePay, Arrive, Charges, Goto
<1>7. CASE ReleaseOk(o) \/ LateRelease(o)
  BY <1>7 DEF ReleaseOk, LateRelease, Arrive, GivesBack
<1>8. CASE \/ Insert(o) \/ InsertFails(o) \/ BreakerAdmits(o) \/ BreakerRejects(o)
           \/ PersistCancelled(o) \/ PersistPaid(o) \/ NotifyOk(o)
  BY <1>8 DEF Insert, InsertFails, BreakerAdmits, BreakerRejects, PersistCancelled,
              PersistPaid, NotifyOk, Silent, Goto, StartHop
<1>9. CASE \/ LateNotify(o) \/ NeverArrives(o) \/ Crash(o)
           \/ OperatorUpdates(o) \/ OperatorDeletes(o)
  BY <1>9 DEF LateNotify, NeverArrives, Crash, OperatorUpdates, OperatorDeletes, Silent
<1>10. QED
  BY <1>1, <1>2, <1>3, <1>4, <1>5, <1>6, <1>7, <1>8, <1>9 DEF Saga, Environment

\* What SagaInv leaves open: who may have been charged, and what an answer implies.
AnswerInv(o) ==
  /\ charges[o] >= 1 \/ late[o]["pay"] > 0 => reserves[o] >= 1
  /\ resp[o] # "none" => pc[o] = "done"
  /\ AnswerOf(o) = "bought" => charges[o] >= 1 /\ NoRelease(o)

ContractInv == \A o \in Orders : AnswerInv(o)

LEMMA AnswerInvStep ==
  ASSUME TypeOK, NEW o \in Orders, OrderInv(o), AnswerInv(o), Saga(o) \/ Environment(o)
  PROVE  AnswerInv(o)'
<1> USE OrderValues DEF AnswerInv, NoRelease
<1>1. OrderInv(o)' /\ TypeOK'
  BY OrderInvStep, OrderStep DEF Frame
<1>2. late'[o]["pay"] > late[o]["pay"] => pc[o] = "paying"
  <2>1. CASE PayFails(o)
    BY <2>1 DEF PayFails
  <2>2. CASE Crash(o)
    <3>1. CASE pc[o] \in DOMAIN Awaited /\ pc[o] # "paying"
      <4>1. PICK h \in Hops \ {"pay"} : Lose(o, h)
        BY <2>2, <3>1 DEF Crash, Awaited
      <4>2. QED
        BY <4>1, LoseFacts
    <3>2. QED
      BY <2>2, <3>1 DEF Crash
  <2>3. CASE ReserveFails(o) \/ NotifyFails(o)
    BY <2>3, FailedAttemptFacts DEF ReserveFails, NotifyFails
  <2>4. CASE ReleaseFails(o)
    BY <2>4, LoseFacts DEF ReleaseFails
  <2>5. CASE LatePay(o) \/ LateReserve(o) \/ LateNotify(o) \/ LateRelease(o) \/ NeverArrives(o)
    BY <2>5, ArriveFacts DEF LatePay, LateReserve, LateNotify, LateRelease, NeverArrives
  <2>6. QED
    BY <2>1, <2>2, <2>3, <2>4, <2>5
    DEF Saga, Environment, Refuse, CheckAvailability, ReserveOk, ReserveRefused, Insert,
        InsertFails, BreakerAdmits, BreakerRejects, PayOk, PersistCancelled,
        PersistCancelledFails, PersistPaid, PersistPaidFails, NotifyOk, PersistFinal,
        PersistFinalFails, ReleaseOk, OperatorUpdates, OperatorDeletes
<1>3. reserves'[o] >= reserves[o]
  BY StepEffect, ReserveFacts, ReleaseFacts
  DEF Effect, Silent, Holds, Charges, Answering, GivesBack
<1>4. charges'[o] > charges[o] => reserves[o] >= 1
  BY StepEffect DEF Effect, Silent, Holds, Charges, Answering, GivesBack, OrderInv
<1>5. charges'[o] >= charges[o]
  BY StepEffect, ChargeFacts DEF Effect, Silent, Holds, Charges, Answering, GivesBack
<1>6. charges'[o] >= 1 \/ late'[o]["pay"] > 0 => reserves'[o] >= 1
  <2>1. /\ charges'[o] \in Nat /\ reserves'[o] \in Nat /\ late'[o]["pay"] \in Nat
    BY <1>1 DEF TypeOK
  <2>2. CASE charges[o] >= 1 \/ late[o]["pay"] > 0
    BY <1>3, <2>1, <2>2
  <2>3. CASE charges'[o] > charges[o]
    BY <1>3, <1>4, <2>1, <2>3
  <2>4. CASE late'[o]["pay"] > late[o]["pay"]
    <3>1. reserves[o] >= 1
      BY <1>2, <2>4 DEF OrderInv
    <3>2. QED
      BY <1>3, <2>1, <3>1
  <2>5. QED
    BY <2>1, <2>2, <2>3, <2>4
<1>7. pc[o] = "done" => Environment(o) /\ ~Crash(o)
  BY DEF Saga, Crash, Refuse, CheckAvailability, ReserveOk, ReserveRefused, ReserveFails,
    Insert, InsertFails, BreakerAdmits, BreakerRejects, PayOk, PayFails, PersistCancelled,
    PersistCancelledFails, PersistPaid, PersistPaidFails, NotifyOk, NotifyFails,
    PersistFinal, PersistFinalFails, ReleaseOk, ReleaseFails
<1>8. pc[o] = "done" =>
         UNCHANGED <<pc, resp>> /\ late'[o]["release"] <= late[o]["release"]
  BY <1>7, ArriveFacts DEF Environment, LateReserve, LatePay, LateNotify, LateRelease,
    NeverArrives, OperatorUpdates, OperatorDeletes
<1>9. resp'[o] # "none" => pc'[o] = "done"
  BY <1>8, StepEffect, ReturnFacts DEF Effect, Silent, Holds, Charges, Answering, GivesBack
<1>10. AnswerOf(o)' = "bought" => charges'[o] >= 1 /\ NoRelease(o)'
  <2>1. CASE AnswerOf(o) = "bought"
    <3>1. pc[o] = "done" /\ NoRelease(o) /\ charges[o] >= 1
      BY <2>1 DEF AnswerOf
    <3>2. releases' = releases
      BY <3>1, StepEffect DEF Effect, Silent, Holds, Reserve, Charges, Answering, GivesBack
    <3>3. late'[o]["release"] <= late[o]["release"]
      BY <3>1, <1>8
    <3>4. charges'[o] \in Nat /\ late'[o]["release"] \in Nat
      BY <1>1 DEF TypeOK
    <3>5. QED
      BY <1>5, <3>1, <3>2, <3>3, <3>4
  <2>2. CASE AnswerOf(o) # "bought" /\ AnswerOf(o)' = "bought"
    <3>1. Answering(o) /\ pc[o] \in {"completing", "warning"}
      <4>1. ~GivesBack(o)
        <5>1. CASE Return(o, "error")
          BY <2>2, <5>1, ErrorAnswers
        <5>2. CASE UNCHANGED resp
          BY <2>2, <5>2 DEF AnswerOf
        <5>3. QED
          BY <5>1, <5>2 DEF GivesBack
      <4>2. ~(Silent \/ Holds(o) \/ Charges(o))
        BY <2>2 DEF Silent, Holds, Charges, AnswerOf
      <4>3. QED
        BY <2>2, <4>1, <4>2, StepEffect DEF Effect, Answering
    <3>2. charges[o] >= 1 /\ NoRelease(o)
      BY <3>1 DEF OrderInv
    <3>3. late' = late /\ UNCHANGED <<releases, charges>>
      <4>1. pc'[o] # pc[o] /\ pc'[o] # "dead" /\ resp' # resp
        BY <2>2, <3>1, ReturnFacts DEF Answering, AnswerOf
      <4>2. PersistFinal(o) \/ PersistFinalFails(o)
        BY <3>1, <4>1 DEF Saga, Environment, Refuse, CheckAvailability, ReserveOk,
          ReserveRefused, ReserveFails, Insert, InsertFails, BreakerAdmits, BreakerRejects,
          PayOk, PayFails, PersistCancelled, PersistCancelledFails, PersistPaid,
          PersistPaidFails, NotifyOk, NotifyFails, ReleaseOk, ReleaseFails, LateReserve,
          LatePay, LateNotify, LateRelease, NeverArrives, Crash, OperatorUpdates,
          OperatorDeletes
      <4>3. QED
        BY <4>2 DEF PersistFinal, PersistFinalFails
    <3>4. QED
      BY <3>2, <3>3
  <2>3. QED
    BY <2>1, <2>2
<1>11. QED
  BY <1>6, <1>9, <1>10

\* The abstract state, variable by variable.
ChargedOf == [o \in Orders |-> charges[o] >= 1]
ReturnedOf == [o \in Orders |-> releases[o] >= 1]
AnswersOf == [o \in Orders |-> AnswerOf(o)]
AbstractState == <<reserves, ChargedOf, ReturnedOf, AnswersOf>>

LEMMA EffectImplements ==
  ASSUME TypeOK, TypeOK', NEW o \in Orders, OrderInv(o), AnswerInv(o), Effect(o)
  PROVE  Contract!ContractNext \/ UNCHANGED AbstractState
<1> USE OrderValues DEF ChargedOf, ReturnedOf, AnswersOf, AbstractState
<1>1. CASE Silent
  BY <1>1 DEF Silent, AnswerOf
<1>2. CASE Holds(o)
  <2>1. reserves' = [reserves EXCEPT ![o] = @ + 1] /\ UNCHANGED <<ChargedOf, ReturnedOf, AnswersOf>>
    BY <1>2 DEF Holds, Reserve, AnswerOf
  <2>2. Contract!Hold(o)
    BY <2>1 DEF Contract!Hold
  <2>3. QED
    BY <2>2 DEF Contract!ContractNext
<1>3. CASE Charges(o)
  <2>1. reserves[o] >= 1
    BY <1>3 DEF Charges, OrderInv, AnswerInv
  <2>2. ChargedOf' = [ChargedOf EXCEPT ![o] = TRUE]
    <3>1. charges'[o] >= 1 /\ \A p \in Orders \ {o} : charges'[p] = charges[p]
      BY <1>3, ChargeFacts DEF Charges
    <3>2. (charges'[o] >= 1) = TRUE
      BY <3>1
    <3>3. QED
      BY <3>1, <3>2, Zenon
  <2>3. UNCHANGED <<reserves, ReturnedOf, AnswersOf>>
    BY <1>3 DEF Charges, AnswerOf
  <2>4. Contract!Charge(o)
    BY <2>1, <2>2, <2>3 DEF Contract!Charge
  <2>5. QED
    BY <2>4 DEF Contract!ContractNext
<1>4. CASE Answering(o)
  <2>1. AnswersOf[o] = "none"
    BY <1>4 DEF Answering, AnswerInv, AnswerOf
  <2>2. UNCHANGED <<reserves, ChargedOf, ReturnedOf>>
    BY <1>4 DEF Answering
  <2>3. PICK a \in {"bought", "not bought"} :
          /\ AnswersOf' = [AnswersOf EXCEPT ![o] = a]
          /\ a = "bought" => pc[o] \in {"completing", "warning"}
    BY <1>4, ReturnAnswers DEF Answering
  <2>4. CASE a = "bought"
    <3>1. ChargedOf[o] /\ ~ReturnedOf[o]
      <4>1. charges[o] >= 1 /\ ~(releases[o] >= 1)
        BY <2>3, <2>4 DEF OrderInv, NoRelease
      <4>2. QED
        BY <4>1, Zenon
    <3>2. Contract!Buy(o)
      BY <2>1, <2>2, <2>3, <2>4, <3>1 DEF Contract!Buy
    <3>3. QED
      BY <3>2 DEF Contract!ContractNext
  <2>5. CASE a = "not bought"
    <3>1. Contract!Decline(o)
      BY <2>1, <2>2, <2>3, <2>5 DEF Contract!Decline
    <3>2. QED
      BY <3>1 DEF Contract!ContractNext
  <2>6. QED
    BY <2>3, <2>4, <2>5
<1>5. CASE GivesBack(o)
  <2>1. reserves[o] >= 1 /\ releases[o] = 0 /\ AnswersOf[o] # "bought"
    <3>1. CASE pc[o] = "releasing"
      <4>1. reserves[o] >= 1 /\ releases[o] = 0
        BY <3>1 DEF OrderInv, NoRelease
      <4>2. AnswerOf(o) # "bought"
        BY <3>1 DEF AnswerInv, AnswerOf
      <4>3. QED
        BY <4>1, <4>2
    <3>2. CASE late[o]["release"] > 0
      <4>1. reserves[o] >= 1 /\ releases[o] = 0
        BY <3>2 DEF OrderInv, NoRelease
      <4>2. AnswerOf(o) # "bought"
        BY <3>2 DEF AnswerInv, NoRelease
      <4>3. QED
        BY <4>1, <4>2
    <3>3. QED
      BY <1>5, <3>1, <3>2 DEF GivesBack
  <2>6. ~ReturnedOf[o]
    <3>1. ~(releases[o] >= 1)
      BY <2>1
    <3>2. QED
      BY <3>1, Zenon
  <2>2. ReturnedOf' = [ReturnedOf EXCEPT ![o] = TRUE] /\ UNCHANGED <<reserves, ChargedOf>>
    <3>1. releases'[o] >= 1 /\ \A p \in Orders \ {o} : releases'[p] = releases[p]
      BY <1>5, ReleaseFacts DEF GivesBack
    <3>2. (releases'[o] >= 1) = TRUE
      BY <3>1
    <3>3. ReturnedOf' = [ReturnedOf EXCEPT ![o] = TRUE]
      BY <3>1, <3>2, Zenon
    <3>4. UNCHANGED <<reserves, ChargedOf>>
      BY <1>5 DEF GivesBack, Release
    <3>5. QED
      BY <3>3, <3>4
  <2>3. CASE Return(o, "error")
    <3>1. AnswersOf' = [AnswersOf EXCEPT ![o] = "not bought"]
      BY <2>3, ErrorAnswers
    <3>2. Contract!GiveBack(o)
      BY <2>1, <2>2, <2>6, <3>1 DEF Contract!GiveBack
    <3>3. QED
      BY <3>2 DEF Contract!ContractNext
  <2>4. CASE UNCHANGED resp
    <3>1. AnswersOf' = AnswersOf
      BY <2>4 DEF AnswerOf
    <3>2. CASE AnswerOf(o) = "none"
      <4>1. Contract!GiveBackUnanswered(o)
        BY <2>1, <2>2, <2>6, <3>1, <3>2 DEF Contract!GiveBackUnanswered
      <4>2. QED
        BY <4>1 DEF Contract!ContractNext
    <3>3. CASE AnswerOf(o) = "not bought"
      <4>1. AnswersOf' = [AnswersOf EXCEPT ![o] = "not bought"]
        BY <3>1, <3>3
      <4>2. Contract!GiveBack(o)
        BY <2>1, <2>2, <2>6, <4>1 DEF Contract!GiveBack
      <4>3. QED
        BY <4>2 DEF Contract!ContractNext
    <3>4. QED
      BY <2>1, <3>2, <3>3 DEF AnswerOf
  <2>5. QED
    BY <1>5, <2>3, <2>4 DEF GivesBack
<1>6. QED
  BY <1>1, <1>2, <1>3, <1>4, <1>5 DEF Effect

\* Nothing in AnswerInv but the order's own state.
LEMMA ContractInvInductive ==
  ASSUME TypeOK, SagaInv, ContractInv, [Next]_vars
  PROVE  ContractInv'
<1>1. CASE Next
  <2>1. PICK o \in Orders : Saga(o) \/ Environment(o)
    BY <1>1 DEF Next
  <2>2. AnswerInv(o)'
    BY <2>1, AnswerInvStep DEF SagaInv, ContractInv
  <2>3. ASSUME NEW p \in Orders \ {o}
        PROVE  AnswerInv(p)'
    <3>1. Untouched(p)
      BY <2>1, OrderStep DEF Frame
    <3>2. resp'[p] = resp[p]
      <4>1. CASE Answering(o) \/ GivesBack(o)
        <5>1. UNCHANGED resp \/ \E r \in Responses : resp' = [resp EXCEPT ![o] = r]
          BY <4>1 DEF Answering, GivesBack, Return
        <5>2. QED
          BY <5>1 DEF TypeOK
      <4>2. CASE Silent \/ Holds(o) \/ Charges(o)
        BY <4>2 DEF Silent, Holds, Charges
      <4>3. QED
        BY <2>1, <4>1, <4>2, StepEffect DEF Effect
    <3>3. QED
      BY <3>1, <3>2 DEF ContractInv, AnswerInv, AnswerOf, NoRelease, Untouched
  <2>4. QED
    BY <2>2, <2>3 DEF ContractInv
<1>2. CASE UNCHANGED vars
  BY <1>2 DEF vars, ContractInv, AnswerInv, AnswerOf, NoRelease
<1>3. QED
  BY <1>1, <1>2

LEMMA ContractInvariant == Spec => []ContractInv
<1>1. Init => ContractInv
  BY DEF Init, ContractInv, AnswerInv, AnswerOf, NoRelease
<1>2. TypeOK /\ SagaInv /\ ContractInv /\ [Next]_vars => ContractInv'
  BY ContractInvInductive
<1>3. QED
  BY <1>1, <1>2, SagaInvariant, SagaTypeCorrect, PTL DEF Spec

\* With every fault it can meet, and every late request, _process_order and the handlers
\* it calls implement OrderContract: charged only for units that were held, given back at
\* most once, answered at most once, and a client told of a success is charged and keeps
\* its units.  One told of an error may have been charged, or be charged later.
THEOREM SagaKeepsContract == Spec => KeepsContract
<1>1. Init => Contract!ContractInit
  <2>1. SUFFICES ASSUME Init
                 PROVE  Contract!ContractInit
    OBVIOUS
  <2>2. \A o \in Orders : /\ (charges[o] >= 1) = FALSE /\ (releases[o] >= 1) = FALSE
                          /\ AnswerOf(o) = "none"
    BY <2>1 DEF Init, AnswerOf
  <2>3. reserves = [o \in Orders |-> 0]
    BY <2>1 DEF Init
  <2>4. QED
    BY <2>2, <2>3, Zenon DEF Contract!ContractInit
<1>2. TypeOK /\ TypeOK' /\ SagaInv /\ ContractInv /\ [Next]_vars
        => [Contract!ContractNext]_(Contract!contract)
  <2>1. SUFFICES ASSUME TypeOK, TypeOK', SagaInv, ContractInv, [Next]_vars
                 PROVE  Contract!ContractNext \/ UNCHANGED AbstractState
    BY DEF Contract!contract, AbstractState, ChargedOf, ReturnedOf, AnswersOf
  <2>2. CASE Next
    <3>1. PICK o \in Orders : Saga(o) \/ Environment(o)
      BY <2>2 DEF Next
    <3>2. OrderInv(o) /\ AnswerInv(o) /\ Effect(o)
      BY <2>1, <3>1, StepEffect DEF SagaInv, ContractInv
    <3>3. QED
      BY <2>1, <3>2, EffectImplements
  <2>3. CASE UNCHANGED vars
    BY <2>3 DEF vars, AbstractState, ChargedOf, ReturnedOf, AnswersOf, AnswerOf
  <2>4. QED
    BY <2>1, <2>2, <2>3
<1>3. QED
  BY <1>1, <1>2, SagaInvariant, ContractInvariant, SagaTypeCorrect, PTL
  DEF Spec, KeepsContract, Contract!ContractSpec

-----------------------------------------------------------------------------
(* How often an order is reserved and charged (ExactlyOnceUnlessLost), and *)
(* that an order which met no fault is all or nothing (AllOrNothing).  The *)
(* first follows from TriesInv and SureInv, the second from KeptInv and    *)
(* CleanInv as well, which need quantities that are not negative: the      *)
(* compensation of a negative one can be refused.                          *)

\* The attempts a hop of the order may still make.
LeftOf(o, step) == IF pc[o] = step THEN left[o] ELSE 0

\* What was run for an order, what may still be run and the attempts left are together no
\* more than the attempts its hop began with.
TriesInv(o) ==
  /\ pc[o] = "new" => reserves[o] = 0 /\ late[o]["reserve"] = 0
  /\ pc[o] \in {"new", "reserving", "inserting", "gate"} => NoCharge(o)
  /\ pc[o] \in {"reserving", "paying"} => left[o] >= 1
  /\ \E n \in Attempts : reserves[o] + late[o]["reserve"] + LeftOf(o, "reserving") <= n
  /\ \E n \in Attempts : charges[o] + late[o]["pay"] + LeftOf(o, "paying") <= n

\* Without the trouble that doubles it, what was run and what may still be run of a hop are
\* together at most one request, and none before the hop.
SureInv(o) ==
  /\ "pay" \notin met[o] =>
       /\ charges[o] + late[o]["pay"] <= 1
       /\ pc[o] \in {"new", "reserving", "inserting", "gate", "paying", "cancelling"}
            => charges[o] + late[o]["pay"] = 0
  /\ "other" \notin met[o] =>
       /\ reserves[o] + late[o]["reserve"] <= 1
       /\ pc[o] \in {"new", "reserving"} => reserves[o] + late[o]["reserve"] = 0

\* The units of an order that at most lost pay and notify requests: it has them from its
\* reservation to its end, and keeps them if it was sold.
KeptInv(o) ==
  met[o] \subseteq {"pay"} =>
    /\ pc[o] # "dead" /\ late[o]["reserve"] = 0 /\ late[o]["release"] = 0
    /\ pc[o] # "done" => releases[o] = 0
    /\ pc[o] \in {"new", "reserving"} => reserves[o] = 0
    /\ pc[o] \notin {"new", "reserving", "done"} => reserves[o] = 1
    /\ pc[o] \in {"gate", "paying", "cancelling", "confirming", "notifying", "completing",
                  "warning"} => row[o] # NoRow
    /\ pc[o] = "done" =>
         IF resp[o] \in {"success", "warning"}
         THEN reserves[o] = 1 /\ releases[o] = 0
         ELSE reserves[o] = releases[o]

\* What the orders table holds of an order that met no fault, and what it was answered.
Pending == [status |-> "confirmed", internal |-> "payment_pending"]
Cancelled == [status |-> "cancelled", internal |-> "payment_failed"]

Ended(o) ==
  IF resp[o] \in {"success", "warning"}
  THEN charges[o] = 1 /\ Verified(o)
  ELSE charges[o] = 0 /\ row[o] \in {NoRow, Cancelled}

CleanInv(o) ==
  met[o] = {} =>
    /\ late[o]["pay"] = 0
    /\ pc[o] \in {"new", "reserving", "inserting", "gate", "paying", "cancelling"}
         => charges[o] = 0
    /\ pc[o] \in {"new", "reserving", "inserting"} => row[o] = NoRow
    /\ pc[o] \in {"gate", "paying", "cancelling", "confirming"} => row[o] = Pending
    /\ pc[o] = "releasing" => charges[o] = 0 /\ row[o] \in {NoRow, Cancelled}
    /\ pc[o] \in {"confirming", "notifying", "completing", "warning"} => charges[o] = 1
    /\ pc[o] \in {"notifying", "completing", "warning"} => Verified(o)
    /\ pc[o] = "done" => Ended(o)

OnceInv == \A o \in Orders : TriesInv(o) /\ SureInv(o)
NoFaultInv == \A o \in Orders : KeptInv(o) /\ CleanInv(o)

-----------------------------------------------------------------------------
(* What the steps do to the attempts left, and to where a saga is *)

LEMMA LeftFacts ==
  ASSUME TypeOK, NEW o \in Orders
  PROVE  /\ \A s \in Steps : Goto(o, s) => pc'[o] = s /\ left' = left
         /\ \A s \in Steps : StartHop(o, s) => pc'[o] = s /\ left'[o] \in Attempts
         /\ \A r \in Responses : Return(o, r) => pc'[o] = "done" /\ left' = left /\ resp'[o] = r
         /\ TryAgain(o) => pc' = pc /\ left[o] > 1 /\ left'[o] = left[o] - 1
<1>1. left[o] \in Nat /\ pc \in [Orders -> Steps] /\ left \in [Orders -> Nat]
      /\ resp \in [Orders -> Responses]
  BY DEF TypeOK
<1>2. QED
  BY <1>1 DEF Goto, StartHop, Return, TryAgain

LEMMA TriesInvStep ==
  ASSUME TypeOK, NEW o \in Orders, TriesInv(o), Saga(o) \/ Environment(o)
  PROVE  TriesInv(o)'
<1> USE OrderValues, AttemptsAssumption, LeftFacts DEF TriesInv, NoCharge, LeftOf
<1>0. /\ left[o] \in Nat /\ pc[o] \in Steps
      /\ \A n \in Attempts : n \in Nat /\ n >= 1
  BY DEF TypeOK
<1>1. CASE Refuse(o) \/ ReserveRefused(o)
  BY <1>0, <1>1 DEF Refuse, ReserveRefused
<1>2. CASE CheckAvailability(o)
  BY <1>0, <1>2 DEF CheckAvailability
<1>3. CASE ReserveOk(o)
  BY <1>0, <1>3, ReserveFacts DEF ReserveOk
<1>4. CASE ReserveFails(o)
  <2>1. /\ pc[o] = "reserving" /\ UNCHANGED <<reserves, charges>>
        /\ late'[o]["reserve"] \in {late[o]["reserve"], late[o]["reserve"] + 1}
        /\ late'[o]["pay"] = late[o]["pay"]
    BY <1>4, FailedAttemptFacts DEF ReserveFails
  <2>2. CASE TryAgain(o)
    BY <1>0, <2>1, <2>2
  <2>3. CASE left[o] = 1 /\ Return(o, "error")
    BY <1>0, <2>1, <2>3
  <2>4. QED
    BY <1>4, <2>2, <2>3 DEF ReserveFails
<1>5. CASE Insert(o) \/ InsertFails(o)
  BY <1>0, <1>5 DEF Insert, InsertFails
<1>6. CASE BreakerAdmits(o) \/ BreakerRejects(o)
  <2>1. UNCHANGED <<reserves, charges, late>> /\ pc[o] = "gate"
    BY <1>6 DEF BreakerAdmits, BreakerRejects
  <2>2. CASE StartHop(o, "paying")
    BY <1>0, <2>1, <2>2
  <2>3. CASE Goto(o, "cancelling")
    BY <1>0, <2>1, <2>3
  <2>4. QED
    BY <1>6, <2>2, <2>3 DEF BreakerAdmits, BreakerRejects
<1>7. CASE PayOk(o)
  <2>1. /\ pc[o] = "paying" /\ pc'[o] = "confirming" /\ UNCHANGED <<left, reserves, late>>
        /\ charges'[o] = charges[o] + 1
    BY <1>7, ChargeFacts DEF PayOk
  <2>2. /\ charges'[o] + late'[o]["pay"] + LeftOf(o, "paying")'
             <= charges[o] + late[o]["pay"] + LeftOf(o, "paying")
        /\ reserves'[o] + late'[o]["reserve"] + LeftOf(o, "reserving")'
             = reserves[o] + late[o]["reserve"] + LeftOf(o, "reserving")
    BY <1>0, <2>1
  <2>3. PICK m \in Attempts : charges[o] + late[o]["pay"] + LeftOf(o, "paying") <= m
    OBVIOUS
  <2>4. charges'[o] + late'[o]["pay"] + LeftOf(o, "paying")' <= m
    BY <1>0, <2>1, <2>2, <2>3
  <2>5. QED
    BY <1>0, <2>1, <2>2, <2>4
<1>8. CASE PayFails(o)
  <2>0. PICK m \in Attempts : charges[o] + late[o]["pay"] + LeftOf(o, "paying") <= m
    OBVIOUS
  <2>1. /\ pc[o] = "paying" /\ UNCHANGED <<reserves, charges>>
        /\ late'[o]["pay"] \in {late[o]["pay"], late[o]["pay"] + 1}
        /\ late'[o]["reserve"] = late[o]["reserve"]
    BY <1>8, FailedAttemptFacts DEF PayFails
  <2>2. CASE TryAgain(o)
    <3>1. charges'[o] + late'[o]["pay"] + LeftOf(o, "paying")' <= m
      BY <1>0, <2>0, <2>1, <2>2
    <3>2. reserves'[o] + late'[o]["reserve"] + LeftOf(o, "reserving")'
            = reserves[o] + late[o]["reserve"] + LeftOf(o, "reserving")
      BY <2>1, <2>2
    <3>3. QED
      BY <1>0, <2>1, <2>2, <3>1, <3>2
  <2>3. CASE left[o] = 1 /\ Goto(o, "cancelling")
    <3>1. charges'[o] + late'[o]["pay"] + LeftOf(o, "paying")' <= m
      BY <1>0, <2>0, <2>1, <2>3
    <3>2. reserves'[o] + late'[o]["reserve"] + LeftOf(o, "reserving")'
            = reserves[o] + late[o]["reserve"] + LeftOf(o, "reserving")
      BY <2>1, <2>3
    <3>3. QED
      BY <1>0, <2>1, <2>3, <3>1, <3>2
  <2>4. QED
    BY <1>8, <2>2, <2>3 DEF PayFails
<1>9. CASE \/ PersistCancelled(o) \/ PersistCancelledFails(o) \/ PersistPaid(o)
           \/ PersistPaidFails(o) \/ PersistFinal(o) \/ PersistFinalFails(o)
  BY <1>0, <1>9 DEF PersistCancelled, PersistCancelledFails, PersistPaid, PersistPaidFails,
                    PersistFinal, PersistFinalFails
<1>10. CASE NotifyOk(o) \/ NotifyFails(o)
  BY <1>0, <1>10, FailedAttemptFacts DEF NotifyOk, NotifyFails
<1>11. CASE ReleaseOk(o) \/ ReleaseFails(o)
  BY <1>0, <1>11, ReleaseFacts, LoseFacts DEF ReleaseOk, ReleaseFails
<1>12. CASE LateReserve(o)
  BY <1>0, <1>12, ReserveFacts, ArriveFacts DEF LateReserve
<1>13. CASE LatePay(o)
  <2>0. PICK m \in Attempts : charges[o] + late[o]["pay"] + LeftOf(o, "paying") <= m
    OBVIOUS
  <2>1. /\ UNCHANGED <<pc, left, reserves>> /\ charges'[o] = charges[o] + 1
        /\ late[o]["pay"] > 0 /\ late'[o]["pay"] = late[o]["pay"] - 1
        /\ late'[o]["reserve"] = late[o]["reserve"]
    BY <1>13, ChargeFacts, ArriveFacts DEF LatePay
  <2>2. charges'[o] + late'[o]["pay"] + LeftOf(o, "paying")' <= m
    BY <1>0, <2>0, <2>1
  <2>3. pc[o] \notin {"new", "reserving", "inserting", "gate"}
    BY <2>1
  <2>4. QED
    BY <1>0, <2>1, <2>2, <2>3
<1>14. CASE LateNotify(o) \/ NeverArrives(o)
  <2>1. UNCHANGED <<pc, left, reserves, charges>>
    BY <1>14 DEF LateNotify, NeverArrives
  <2>2. /\ late'[o]["pay"] \in {late[o]["pay"], late[o]["pay"] - 1} /\ late'[o]["pay"] \in Nat
        /\ late'[o]["reserve"] \in {late[o]["reserve"], late[o]["reserve"] - 1}
        /\ late'[o]["reserve"] \in Nat
    <3>1. PICK h \in Hops : Arrive(o, h)
      BY <1>14 DEF LateNotify, NeverArrives
    <3>2. QED
      BY <1>0, <3>1, ArriveFacts
  <2>3. /\ charges'[o] + late'[o]["pay"] + LeftOf(o, "paying")'
             <= charges[o] + late[o]["pay"] + LeftOf(o, "paying")
        /\ reserves'[o] + late'[o]["reserve"] + LeftOf(o, "reserving")'
             <= reserves[o] + late[o]["reserve"] + LeftOf(o, "reserving")
    BY <1>0, <2>1, <2>2
  <2>4. PICK m \in Attempts : charges[o] + late[o]["pay"] + LeftOf(o, "paying") <= m
    OBVIOUS
  <2>5. PICK n \in Attempts : reserves[o] + late[o]["reserve"] + LeftOf(o, "reserving") <= n
    OBVIOUS
  <2>6. /\ charges'[o] + late'[o]["pay"] + LeftOf(o, "paying")' <= m
        /\ reserves'[o] + late'[o]["reserve"] + LeftOf(o, "reserving")' <= n
    BY <1>0, <2>1, <2>2, <2>3, <2>4, <2>5
  <2>7. QED
    BY <1>0, <2>1, <2>2, <2>6
<1>15. CASE LateRelease(o)
  <2>1. /\ UNCHANGED <<pc, left, reserves, charges>>
        /\ late'[o]["pay"] = late[o]["pay"] /\ late'[o]["reserve"] = late[o]["reserve"]
    BY <1>15, ArriveFacts DEF LateRelease, Release
  <2>2. QED
    BY <1>0, <2>1
<1>16. CASE Crash(o)
  <2>1. pc'[o] = "dead" /\ UNCHANGED <<left, reserves, charges>>
    BY <1>16 DEF Crash, TypeOK
  <2>2. /\ late'[o]["reserve"] <= late[o]["reserve"] + LeftOf(o, "reserving")
        /\ late'[o]["pay"] <= late[o]["pay"] + LeftOf(o, "paying")
        /\ late'[o]["reserve"] \in Nat /\ late'[o]["pay"] \in Nat
    <3>1. CASE pc[o] \in DOMAIN Awaited
      <4>1. Lose(o, Awaited[pc[o]])
        BY <1>16, <3>1 DEF Crash
      <4>2. PICK h \in Hops : /\ Lose(o, h)
                              /\ h = "reserve" => pc[o] = "reserving"
                              /\ h = "pay" => pc[o] = "paying"
        BY <3>1, <4>1 DEF Awaited
      <4>3. QED
        BY <1>0, <4>2, LoseFacts
    <3>2. CASE UNCHANGED late
      BY <1>0, <3>2
    <3>3. QED
      BY <1>16, <3>1, <3>2 DEF Crash
  <2>3. QED
    BY <1>0, <2>1, <2>2
<1>17. CASE OperatorUpdates(o) \/ OperatorDeletes(o)
  BY <1>0, <1>17 DEF OperatorUpdates, OperatorDeletes
<1>18. QED
  BY <1>1, <1>2, <1>3, <1>4, <1>5, <1>6, <1>7, <1>8, <1>9, <1>10, <1>11, <1>12, <1>13,
     <1>14, <1>15, <1>16, <1>17
  DEF Saga, Environment

\* What troubled an order is not forgotten.
LEMMA TroublesStay ==
  ASSUME TypeOK, NEW o \in Orders, Saga(o) \/ Environment(o)
  PROVE  met[o] \subseteq met'[o]
BY MeetFacts, FailedAttemptFacts, CheckpointFailsFacts
   DEF Saga, Environment, Refuse, CheckAvailability, ReserveOk, ReserveRefused,
       ReserveFails, Insert, InsertFails, BreakerAdmits, BreakerRejects, PayOk, PayFails,
       PersistCancelled, PersistCancelledFails, PersistPaid, PersistPaidFails,
       PersistFinal, PersistFinalFails, ReleaseOk, ReleaseFails, NotifyOk, NotifyFails,
       LateReserve, LatePay, LateNotify, LateRelease, NeverArrives, Crash,
       OperatorUpdates, OperatorDeletes, RowStatuses, SagaInternals

\* A crash loses the request the saga waits for, and no other.
LEMMA CrashFacts ==
  ASSUME TypeOK, NEW o \in Orders, Crash(o)
  PROVE  /\ pc'[o] = "dead" /\ met'[o] = met[o] \cup {"other"}
         /\ late'[o]["pay"] \in {late[o]["pay"], late[o]["pay"] + 1}
         /\ pc[o] # "paying" => late'[o]["pay"] = late[o]["pay"]
<1>1. pc'[o] = "dead" /\ met'[o] = met[o] \cup {"other"}
  BY MeetFacts DEF Crash, TypeOK
<1>2. CASE pc[o] \in DOMAIN Awaited
  <2>1. Lose(o, Awaited[pc[o]])
    BY <1>2 DEF Crash
  <2>2. PICK h \in Hops : Lose(o, h) /\ (h = "pay" => pc[o] = "paying")
    BY <1>2, <2>1 DEF Awaited
  <2>3. QED
    BY <1>1, <2>2, LoseFacts
<1>3. CASE UNCHANGED late
  BY <1>1, <1>3
<1>4. QED
  BY <1>2, <1>3 DEF Crash

\* The first half of SureInv: the charges of an order that lost no pay request.
LEMMA SurePay ==
  ASSUME TypeOK, NEW o \in Orders, SureInv(o), Saga(o) \/ Environment(o),
         "pay" \notin met'[o]
  PROVE  /\ charges'[o] + late'[o]["pay"] <= 1
         /\ pc'[o] \in {"new", "reserving", "inserting", "gate", "paying", "cancelling"}
              => charges'[o] + late'[o]["pay"] = 0
<1>0. /\ pc[o] \in Steps
      /\ charges[o] + late[o]["pay"] <= 1
      /\ pc[o] \in {"new", "reserving", "inserting", "gate", "paying", "cancelling"}
           => charges[o] + late[o]["pay"] = 0
  BY TroublesStay DEF SureInv, TypeOK
<1> USE OrderValues, LeftFacts
<1>1. CASE \/ Refuse(o) \/ CheckAvailability(o) \/ ReserveOk(o) \/ ReserveRefused(o)
           \/ ReserveFails(o) \/ Insert(o) \/ InsertFails(o)
  <2>1. charges' = charges /\ late'[o]["pay"] = late[o]["pay"]
    BY <1>1, FailedAttemptFacts DEF Refuse, CheckAvailability, ReserveOk, ReserveRefused,
                                    ReserveFails, Insert, InsertFails
  <2>2. pc[o] \in {"new", "reserving", "inserting"}
    BY <1>1 DEF Refuse, CheckAvailability, ReserveOk, ReserveRefused, ReserveFails,
                Insert, InsertFails
  <2>3. QED
    BY <1>0, <2>1, <2>2
<1>2. CASE BreakerAdmits(o) \/ BreakerRejects(o)
  BY <1>0, <1>2 DEF BreakerAdmits, BreakerRejects
<1>3. CASE PayFails(o)
  <2>1. charges' = charges /\ late'[o] = late[o] /\ pc[o] = "paying"
    BY <1>3, FailedAttemptFacts DEF PayFails
  <2>2. QED
    BY <1>0, <2>1
<1>4. CASE PayOk(o)
  BY <1>0, <1>4, ChargeFacts DEF PayOk
<1>5. CASE \/ PersistCancelled(o) \/ PersistCancelledFails(o) \/ PersistPaid(o)
           \/ PersistPaidFails(o) \/ PersistFinal(o) \/ PersistFinalFails(o)
  BY <1>0, <1>5 DEF PersistCancelled, PersistCancelledFails, PersistPaid, PersistPaidFails,
                    PersistFinal, PersistFinalFails
<1>6. CASE NotifyOk(o) \/ NotifyFails(o)
  <2>1. charges' = charges /\ late'[o]["pay"] = late[o]["pay"] /\ pc[o] = "notifying"
    BY <1>6, FailedAttemptFacts DEF NotifyOk, NotifyFails
  <2>2. pc'[o] \in {"notifying", "completing", "warning"}
    BY <1>6 DEF NotifyOk, NotifyFails
  <2>3. QED
    BY <1>0, <2>1, <2>2
<1>7. CASE ReleaseOk(o) \/ ReleaseFails(o)
  <2>1. charges' = charges /\ late'[o]["pay"] = late[o]["pay"] /\ pc'[o] = "done"
    BY <1>7, LoseFacts DEF ReleaseOk, ReleaseFails
  <2>2. QED
    BY <1>0, <2>1
<1>8. CASE LatePay(o)
  <2>1. /\ charges'[o] = charges[o] + 1 /\ pc' = pc
        /\ late[o]["pay"] > 0 /\ late'[o]["pay"] = late[o]["pay"] - 1
    BY <1>8, ChargeFacts, ArriveFacts DEF LatePay
  <2>2. QED
    BY <1>0, <2>1
<1>9. CASE LateReserve(o) \/ LateNotify(o) \/ LateRelease(o) \/ NeverArrives(o)
  <2>1. charges' = charges /\ pc' = pc
    BY <1>9 DEF LateReserve, LateNotify, LateRelease, NeverArrives
  <2>2. PICK h \in Hops : Arrive(o, h)
    BY <1>9 DEF LateReserve, LateNotify, LateRelease, NeverArrives
  <2>3. late'[o]["pay"] <= late[o]["pay"] /\ late'[o]["pay"] \in Nat
    BY <2>2, ArriveFacts
  <2>4. late[o]["pay"] \in Nat /\ charges[o] \in Nat
    OBVIOUS
  <2>5. charges'[o] + late'[o]["pay"] <= charges[o] + late[o]["pay"]
        /\ charges'[o] + late'[o]["pay"] \in Nat
    BY <2>1, <2>3, <2>4
  <2>6. QED
    BY <1>0, <2>1, <2>4, <2>5
<1>10. CASE Crash(o)
  <2>1. charges' = charges
    BY <1>10 DEF Crash
  <2>2. QED
    BY <1>0, <1>10, <2>1, CrashFacts
<1>11. CASE OperatorUpdates(o) \/ OperatorDeletes(o)
  BY <1>0, <1>11 DEF OperatorUpdates, OperatorDeletes
<1>12. QED
  BY <1>1, <1>2, <1>3, <1>4, <1>5, <1>6, <1>7, <1>8, <1>9, <1>10, <1>11
  DEF Saga, Environment

\* The second half: its reservations, while nothing but pay and notify requests of it failed.
LEMMA SureReserve ==
  ASSUME TypeOK, NEW o \in Orders, SureInv(o), Saga(o) \/ Environment(o),
         "other" \notin met'[o]
  PROVE  /\ reserves'[o] + late'[o]["reserve"] <= 1
         /\ pc'[o] \in {"new", "reserving"} => reserves'[o] + late'[o]["reserve"] = 0
<1>0. /\ pc[o] \in Steps
      /\ reserves[o] + late[o]["reserve"] <= 1
      /\ pc[o] \in {"new", "reserving"} => reserves[o] + late[o]["reserve"] = 0
  BY TroublesStay DEF SureInv, TypeOK
<1> USE OrderValues, LeftFacts
<1>1. CASE \/ Refuse(o) \/ CheckAvailability(o) \/ ReserveRefused(o) \/ Insert(o)
           \/ InsertFails(o)
  BY <1>0, <1>1 DEF Refuse, CheckAvailability, ReserveRefused, Insert, InsertFails
<1>2. CASE ReserveOk(o)
  BY <1>0, <1>2, ReserveFacts DEF ReserveOk
<1>3. CASE ReserveFails(o)
  <2>1. reserves' = reserves /\ late'[o] = late[o] /\ pc[o] = "reserving"
    BY <1>3, FailedAttemptFacts DEF ReserveFails
  <2>2. QED
    BY <1>0, <2>1
<1>4. CASE \/ BreakerAdmits(o) \/ BreakerRejects(o) \/ PayOk(o) \/ PersistCancelled(o)
           \/ PersistCancelledFails(o) \/ PersistPaid(o) \/ PersistPaidFails(o)
           \/ PersistFinal(o) \/ PersistFinalFails(o)
  BY <1>0, <1>4 DEF BreakerAdmits, BreakerRejects, PayOk, PersistCancelled,
     PersistCancelledFails, PersistPaid, PersistPaidFails, PersistFinal, PersistFinalFails
<1>5. CASE PayFails(o) \/ NotifyOk(o) \/ NotifyFails(o)
  <2>1. reserves' = reserves /\ late'[o]["reserve"] = late[o]["reserve"]
    BY <1>5, FailedAttemptFacts DEF PayFails, NotifyOk, NotifyFails
  <2>2. pc'[o] \notin {"new", "reserving"}
    BY <1>5 DEF PayFails, NotifyOk, NotifyFails
  <2>3. QED
    BY <1>0, <2>1, <2>2
<1>6. CASE ReleaseOk(o) \/ ReleaseFails(o)
  <2>1. reserves' = reserves /\ late'[o]["reserve"] = late[o]["reserve"] /\ pc'[o] = "done"
    BY <1>6, LoseFacts, ReleaseFacts DEF ReleaseOk, ReleaseFails, Release
  <2>2. QED
    BY <1>0, <2>1
<1>7. CASE LateReserve(o)
  <2>1. /\ reserves'[o] = reserves[o] + 1 /\ pc' = pc
        /\ late[o]["reserve"] > 0 /\ late'[o]["reserve"] = late[o]["reserve"] - 1
    BY <1>7, ReserveFacts, ArriveFacts DEF LateReserve
  <2>2. QED
    BY <1>0, <2>1
<1>8. CASE LatePay(o) \/ LateNotify(o) \/ LateRelease(o) \/ NeverArrives(o)
  <2>1. reserves' = reserves /\ pc' = pc
    BY <1>8 DEF LatePay, LateNotify, LateRelease, NeverArrives, Release
  <2>2. PICK h \in Hops : Arrive(o, h)
    BY <1>8 DEF LatePay, LateNotify, LateRelease, NeverArrives
  <2>3. late'[o]["reserve"] <= late[o]["reserve"] /\ late'[o]["reserve"] \in Nat
    BY <2>2, ArriveFacts
  <2>4. QED
    BY <1>0, <2>1, <2>3
<1>9. ~Crash(o)
  BY CrashFacts
<1>10. CASE OperatorUpdates(o) \/ OperatorDeletes(o)
  BY <1>0, <1>10 DEF OperatorUpdates, OperatorDeletes
<1>11. QED
  BY <1>1, <1>2, <1>3, <1>4, <1>5, <1>6, <1>7, <1>8, <1>9, <1>10 DEF Saga, Environment

LEMMA SureInvStep ==
  ASSUME TypeOK, NEW o \in Orders, SureInv(o), Saga(o) \/ Environment(o)
  PROVE  SureInv(o)'
BY SurePay, SureReserve DEF SureInv

-----------------------------------------------------------------------------
(* The units of an order that lost nothing but pay and notify requests *)

\* A failed checkpoint is a fault, unless the row is gone.
LEMMA CleanCheckpoint ==
  ASSUME TypeOK, NEW o \in Orders, NEW l \in RowStatuses, NEW s \in RowStatuses,
         NEW i \in SagaInternals, CheckpointFails(o, l, s, i), "other" \notin met'[o]
  PROVE  row[o] = NoRow
BY MeetFacts DEF CheckpointFails

\* The steps such an order can take.
LEMMA KeptStep ==
  ASSUME TypeOK, NEW o \in Orders, KeptInv(o), Quantity[o] >= 0,
         Saga(o) \/ Environment(o), met'[o] \subseteq {"pay"}
  PROVE  /\ met[o] \subseteq {"pay"}
         /\ \/ Refuse(o) \/ CheckAvailability(o) \/ ReserveOk(o) \/ ReserveRefused(o)
            \/ ReserveFails(o) \/ Insert(o) \/ InsertFails(o)
            \/ BreakerAdmits(o) \/ BreakerRejects(o) \/ PayOk(o) \/ PayFails(o)
            \/ PersistCancelled(o) \/ PersistPaid(o) \/ PersistFinal(o)
            \/ NotifyOk(o) \/ NotifyFails(o) \/ ReleaseOk(o)
            \/ LatePay(o) \/ LateNotify(o) \/ NeverArrives(o)
<1>1. met[o] \subseteq {"pay"} /\ "other" \notin met'[o] /\ "operator" \notin met'[o]
  BY TroublesStay
<1>2. pc[o] \in {"cancelling", "confirming", "completing", "warning"} => row[o] # NoRow
  BY <1>1 DEF KeptInv
<1>3. ~(PersistCancelledFails(o) \/ PersistPaidFails(o) \/ PersistFinalFails(o))
  BY <1>1, <1>2, CleanCheckpoint DEF PersistCancelledFails, PersistPaidFails,
                               PersistFinalFails, RowStatuses, SagaInternals
<1>4. ~ReleaseFails(o)
  <2>1. stock + Quantity[o] >= 0
    BY QuantityAssumption DEF TypeOK
  <2>2. QED
    BY <1>1, <2>1, MeetFacts DEF ReleaseFails, CanRelease
<1>5. ~(OperatorUpdates(o) \/ OperatorDeletes(o))
  BY <1>1, MeetFacts DEF OperatorUpdates, OperatorDeletes
<1>6. ~Crash(o)
  BY <1>1, CrashFacts
<1>7. ~(LateReserve(o) \/ LateRelease(o))
  BY <1>1 DEF KeptInv, LateReserve, LateRelease, Arrive
<1>8. QED
  BY <1>1, <1>3, <1>4, <1>5, <1>6, <1>7 DEF Saga, Environment

\* Such an order loses no reserve and no release request.
LEMMA KeptLate ==
  ASSUME TypeOK, NEW o \in Orders, KeptInv(o), Quantity[o] >= 0,
         Saga(o) \/ Environment(o), met'[o] \subseteq {"pay"}
  PROVE  late'[o]["reserve"] = 0 /\ late'[o]["release"] = 0
<1>0. /\ late[o]["reserve"] = 0 /\ late[o]["release"] = 0 /\ "other" \notin met'[o]
  BY KeptStep DEF KeptInv
<1>1. CASE ReserveFails(o) \/ PayFails(o) \/ NotifyFails(o)
  BY <1>0, <1>1, FailedAttemptFacts DEF ReserveFails, PayFails, NotifyFails
<1>2. CASE LatePay(o) \/ LateNotify(o) \/ NeverArrives(o)
  <2>1. PICK h \in Hops : Arrive(o, h)
    BY <1>2 DEF LatePay, LateNotify, NeverArrives
  <2>2. h \notin {"reserve", "release"}
    BY <1>0, <2>1 DEF Arrive
  <2>3. QED
    BY <1>0, <2>1, <2>2, ArriveFacts
<1>3. CASE \/ Refuse(o) \/ CheckAvailability(o) \/ ReserveOk(o) \/ ReserveRefused(o)
           \/ Insert(o) \/ InsertFails(o)
           \/ BreakerAdmits(o) \/ BreakerRejects(o) \/ PayOk(o)
           \/ PersistCancelled(o) \/ PersistPaid(o) \/ PersistFinal(o)
           \/ NotifyOk(o) \/ ReleaseOk(o)
  BY <1>0, <1>3 DEF Refuse, CheckAvailability, ReserveOk, ReserveRefused, Insert,
     InsertFails, BreakerAdmits, BreakerRejects, PayOk, PersistCancelled, PersistPaid,
     PersistFinal, NotifyOk, ReleaseOk
<1>4. QED
  BY <1>1, <1>2, <1>3, KeptStep

LEMMA KeptInvStep ==
  ASSUME TypeOK, NEW o \in Orders, KeptInv(o), Quantity[o] >= 0, Saga(o) \/ Environment(o)
  PROVE  KeptInv(o)'
<1> SUFFICES ASSUME met'[o] \subseteq {"pay"} PROVE KeptInv(o)'
  BY DEF KeptInv
<1> USE OrderValues, LeftFacts, KeptLate DEF KeptInv
<1>0. met[o] \subseteq {"pay"} /\ pc[o] \in Steps
  BY KeptStep DEF TypeOK
<1>1. CASE Refuse(o) \/ CheckAvailability(o) \/ ReserveRefused(o) \/ ReserveFails(o)
  <2>1. UNCHANGED <<row, reserves, releases>> /\ pc[o] \in {"new", "reserving"}
    BY <1>1 DEF Refuse, CheckAvailability, ReserveRefused, ReserveFails
  <2>2. \/ pc'[o] = "done" /\ resp'[o] \in {"error", "held"}
        \/ pc'[o] = "reserving"
    BY <1>1 DEF Refuse, CheckAvailability, ReserveRefused, ReserveFails
  <2>3. QED
    BY <1>0, <2>1, <2>2
<1>2. CASE ReserveOk(o)
  BY <1>0, <1>2, ReserveFacts DEF ReserveOk
<1>3. CASE Insert(o)
  <2>1. row'[o] = Pending
    BY <1>3 DEF Insert, Inserted, Pending, TypeOK
  <2>2. QED
    BY <1>0, <1>3, <2>1 DEF Insert, Pending, NoRow
<1>4. CASE InsertFails(o)
  BY <1>0, <1>4 DEF InsertFails
<1>5. CASE BreakerAdmits(o) \/ BreakerRejects(o) \/ PayFails(o)
  <2>1. UNCHANGED <<row, reserves, releases>> /\ pc[o] \in {"gate", "paying"}
    BY <1>5 DEF BreakerAdmits, BreakerRejects, PayFails
  <2>2. pc'[o] \in {"paying", "cancelling"}
    BY <1>5 DEF BreakerAdmits, BreakerRejects, PayFails
  <2>3. QED
    BY <1>0, <2>1, <2>2
<1>6. CASE PayOk(o)
  BY <1>0, <1>6 DEF PayOk
<1>7. CASE PersistCancelled(o)
  BY <1>0, <1>7 DEF PersistCancelled
<1>8. CASE PersistPaid(o)
  <2>1. row'[o].internal = "payment_verified"
    BY <1>8, CheckpointFacts DEF PersistPaid, RowStatuses, SagaInternals
  <2>2. UNCHANGED <<reserves, releases>> /\ pc[o] = "confirming" /\ pc'[o] = "notifying"
    BY <1>8 DEF PersistPaid
  <2>3. QED
    BY <1>0, <2>1, <2>2 DEF NoRow
<1>9. CASE PersistFinal(o)
  <2>1. /\ UNCHANGED <<reserves, releases>> /\ pc[o] \in {"completing", "warning"}
        /\ pc'[o] = "done" /\ resp'[o] \in {"success", "warning"}
    BY <1>9 DEF PersistFinal
  <2>2. QED
    BY <1>0, <2>1
<1>10. CASE NotifyOk(o) \/ NotifyFails(o)
  <2>1. UNCHANGED <<row, reserves, releases>> /\ pc[o] = "notifying"
    BY <1>10 DEF NotifyOk, NotifyFails
  <2>2. pc'[o] \in {"notifying", "completing", "warning"}
    BY <1>10 DEF NotifyOk, NotifyFails
  <2>3. QED
    BY <1>0, <2>1, <2>2
<1>11. CASE ReleaseOk(o)
  <2>1. UNCHANGED <<row, reserves>> /\ releases'[o] = releases[o] + 1 /\ pc[o] = "releasing"
        /\ pc'[o] = "done" /\ resp'[o] = "error"
    BY <1>0, <1>11, ReleaseFacts DEF ReleaseOk
  <2>2. QED
    BY <1>0, <2>1
<1>12. CASE LatePay(o) \/ LateNotify(o) \/ NeverArrives(o)
  <2>1. UNCHANGED <<pc, resp, row, reserves, releases>>
    BY <1>12 DEF LatePay, LateNotify, NeverArrives
  <2>2. QED
    BY <1>0, <2>1
<1>13. QED
  BY <1>1, <1>2, <1>3, <1>4, <1>5, <1>6, <1>7, <1>8, <1>9, <1>10, <1>11, <1>12, KeptStep

-----------------------------------------------------------------------------
(* An order that met no fault *)

\* Nothing of such an order is charged late.
LEMMA CleanStep ==
  ASSUME TypeOK, NEW o \in Orders, CleanInv(o), Saga(o) \/ Environment(o), met'[o] = {}
  PROVE  met[o] = {} /\ ~LatePay(o) /\ late'[o]["pay"] = 0
<1>1. met[o] = {} /\ late[o]["pay"] = 0
  BY TroublesStay DEF CleanInv
<1>2. ~LatePay(o)
  BY <1>1 DEF LatePay, Arrive
<1>3. CASE ReserveFails(o) \/ PayFails(o) \/ NotifyFails(o)
  <2>1. PICK h \in {"reserve", "pay", "notify"} : FailedAttempt(o, h)
    BY <1>3 DEF ReserveFails, PayFails, NotifyFails
  <2>2. late'[o]["pay"] = 0
    BY <1>1, <2>1, FailedAttemptFacts
  <2>3. QED
    BY <1>1, <1>2, <2>2
<1>4. CASE LateReserve(o) \/ LateNotify(o) \/ LateRelease(o) \/ NeverArrives(o)
  <2>1. PICK h \in Hops : Arrive(o, h)
    BY <1>4 DEF LateReserve, LateNotify, LateRelease, NeverArrives
  <2>2. h # "pay"
    BY <1>1, <2>1 DEF Arrive
  <2>3. QED
    BY <1>1, <1>2, <2>1, <2>2, ArriveFacts
<1>5. ~Crash(o)
  BY CrashFacts
<1>6. CASE ReleaseFails(o)
  BY <1>1, <1>2, <1>6, LoseFacts DEF ReleaseFails
<1>7. CASE \/ Refuse(o) \/ CheckAvailability(o) \/ ReserveOk(o) \/ ReserveRefused(o)
           \/ Insert(o) \/ InsertFails(o) \/ BreakerAdmits(o) \/ BreakerRejects(o)
           \/ PayOk(o) \/ PersistCancelled(o) \/ PersistCancelledFails(o) \/ PersistPaid(o)
           \/ PersistPaidFails(o) \/ PersistFinal(o) \/ PersistFinalFails(o)
           \/ NotifyOk(o) \/ ReleaseOk(o) \/ OperatorUpdates(o) \/ OperatorDeletes(o)
  BY <1>1, <1>2, <1>7 DEF Refuse, CheckAvailability, ReserveOk, ReserveRefused, Insert,
     InsertFails, BreakerAdmits, BreakerRejects, PayOk, PersistCancelled,
     PersistCancelledFails, PersistPaid, PersistPaidFails, PersistFinal,
     PersistFinalFails, NotifyOk, ReleaseOk, OperatorUpdates, OperatorDeletes
<1>8. QED
  BY <1>2, <1>3, <1>4, <1>5, <1>6, <1>7 DEF Saga, Environment

LEMMA CleanInvStep ==
  ASSUME TypeOK, NEW o \in Orders, KeptInv(o), CleanInv(o), Quantity[o] >= 0,
         Saga(o) \/ Environment(o)
  PROVE  CleanInv(o)'
<1> SUFFICES ASSUME met'[o] = {} PROVE CleanInv(o)'
  BY DEF CleanInv
<1> USE OrderValues, LeftFacts, CleanStep DEF CleanInv, Ended
<1>0. /\ met[o] = {} /\ pc[o] \in Steps /\ met'[o] \subseteq {"pay"}
      /\ late'[o]["pay"] = 0
      /\ pc[o] \in {"new", "reserving", "inserting", "gate", "paying", "cancelling"}
           => charges[o] = 0
  BY DEF TypeOK
<1>1. CASE Refuse(o) \/ CheckAvailability(o) \/ ReserveRefused(o) \/ ReserveFails(o)
  <2>1. UNCHANGED <<row, reserves, releases, charges>> /\ pc[o] \in {"new", "reserving"}
    BY <1>1 DEF Refuse, CheckAvailability, ReserveRefused, ReserveFails
  <2>2. \/ pc'[o] = "done" /\ resp'[o] \in {"error", "held"}
        \/ pc'[o] = "reserving"
    BY <1>1 DEF Refuse, CheckAvailability, ReserveRefused, ReserveFails
  <2>3. QED
    BY <1>0, <2>1, <2>2
<1>2. CASE ReserveOk(o)
  BY <1>0, <1>2, ReserveFacts DEF ReserveOk
<1>3. CASE Insert(o)
  <2>1. row'[o] = Pending
    BY <1>3 DEF Insert, Inserted, Pending, TypeOK
  <2>2. QED
    BY <1>0, <1>3, <2>1 DEF Insert
<1>4. CASE InsertFails(o)
  <2>1. row' = row
    BY <1>4, MeetFacts DEF InsertFails
  <2>2. QED
    BY <1>0, <1>4, <2>1 DEF InsertFails
<1>5. CASE BreakerAdmits(o) \/ BreakerRejects(o) \/ PayFails(o)
  <2>1. UNCHANGED <<row, reserves, releases, charges>> /\ pc[o] \in {"gate", "paying"}
    BY <1>5 DEF BreakerAdmits, BreakerRejects, PayFails
  <2>2. pc'[o] \in {"paying", "cancelling"}
    BY <1>5 DEF BreakerAdmits, BreakerRejects, PayFails
  <2>3. QED
    BY <1>0, <2>1, <2>2
<1>6. CASE PayOk(o)
  <2>1. UNCHANGED <<row, reserves, releases>> /\ charges'[o] = 1
        /\ pc[o] = "paying" /\ pc'[o] = "confirming"
    BY <1>0, <1>6, ChargeFacts DEF PayOk
  <2>2. QED
    BY <1>0, <2>1
<1>7. CASE PersistCancelled(o)
  <2>1. row[o] = Pending
    BY <1>0, <1>7 DEF PersistCancelled
  <2>2. row'[o] = Cancelled
    BY <1>7, <2>1 DEF PersistCancelled, Checkpoint, Pending, Cancelled, TypeOK
  <2>3. QED
    BY <1>0, <1>7, <2>2 DEF PersistCancelled
<1>8. CASE PersistPaid(o)
  <2>1. row'[o].internal = "payment_verified"
    BY <1>8, CheckpointFacts DEF PersistPaid, RowStatuses, SagaInternals
  <2>2. UNCHANGED <<reserves, releases, charges>> /\ pc[o] = "confirming" /\ pc'[o] = "notifying"
    BY <1>8 DEF PersistPaid
  <2>3. QED
    BY <1>0, <2>1, <2>2 DEF Verified
<1>9. CASE PersistFinal(o)
  <2>1. row'[o].internal \in {"completed", "completed_notification_failed"}
    BY <1>9, CheckpointFacts DEF PersistFinal, RowStatuses, SagaInternals
  <2>2. /\ UNCHANGED <<reserves, releases, charges>> /\ pc[o] \in {"completing", "warning"}
        /\ pc'[o] = "done" /\ resp'[o] \in {"success", "warning"}
    BY <1>9 DEF PersistFinal
  <2>3. QED
    BY <1>0, <2>1, <2>2 DEF Verified
<1>10. CASE NotifyOk(o) \/ NotifyFails(o)
  <2>1. UNCHANGED <<row, reserves, releases, charges>> /\ pc[o] = "notifying"
    BY <1>10 DEF NotifyOk, NotifyFails
  <2>2. pc'[o] \in {"notifying", "completing", "warning"}
    BY <1>10 DEF NotifyOk, NotifyFails
  <2>3. QED
    BY <1>0, <2>1, <2>2 DEF Verified
<1>11. CASE ReleaseOk(o)
  <2>1. UNCHANGED <<row, charges>> /\ pc[o] = "releasing"
        /\ pc'[o] = "done" /\ resp'[o] = "error"
    BY <1>0, <1>11 DEF ReleaseOk
  <2>2. QED
    BY <1>0, <2>1
<1>12. CASE LateNotify(o) \/ NeverArrives(o)
  <2>1. UNCHANGED <<pc, resp, row, charges>>
    BY <1>12 DEF LateNotify, NeverArrives
  <2>2. QED
    BY <1>0, <2>1 DEF Verified
<1>13. QED
  BY <1>0, <1>1, <1>2, <1>3, <1>4, <1>5, <1>6, <1>7, <1>8, <1>9, <1>10, <1>11, <1>12,
     KeptStep

-----------------------------------------------------------------------------
\* Nothing in the invariants of an order but its own state.
LEMMA UntouchedInvs ==
  ASSUME NEW p \in Orders, Untouched(p), left'[p] = left[p], resp'[p] = resp[p]
  PROVE  /\ TriesInv(p) => TriesInv(p)'
         /\ SureInv(p) => SureInv(p)'
         /\ KeptInv(p) => KeptInv(p)'
         /\ CleanInv(p) => CleanInv(p)'
BY DEF TriesInv, SureInv, KeptInv, CleanInv, Ended, LeftOf, NoCharge, Verified, Untouched

\* A step of an order changes neither the attempts nor the answer of another.
LEMMA OwnAttempts ==
  ASSUME TypeOK, NEW o \in Orders, Saga(o) \/ Environment(o), NEW p \in Orders \ {o}
  PROVE  left'[p] = left[p] /\ resp'[p] = resp[p]
<1>1. /\ \A s \in Steps : Goto(o, s) \/ StartHop(o, s) => left'[p] = left[p] /\ resp'[p] = resp[p]
      /\ \A r \in Responses : Return(o, r) => left'[p] = left[p] /\ resp'[p] = resp[p]
      /\ TryAgain(o) => left'[p] = left[p] /\ resp'[p] = resp[p]
  BY DEF TypeOK, Goto, StartHop, Return, TryAgain
<1>2. CASE Saga(o)
  BY <1>1, <1>2
     DEF Saga, Refuse, CheckAvailability, ReserveOk, ReserveRefused, ReserveFails, Insert,
         InsertFails, BreakerAdmits, BreakerRejects, PayOk, PayFails, PersistCancelled,
         PersistCancelledFails, PersistPaid, PersistPaidFails, PersistFinal,
         PersistFinalFails, ReleaseOk, ReleaseFails, NotifyOk, NotifyFails
<1>3. CASE Environment(o)
  BY <1>3 DEF Environment, LateReserve, LatePay, LateNotify, LateRelease, NeverArrives,
              Crash, OperatorUpdates, OperatorDeletes
<1>4. QED
  BY <1>2, <1>3

LEMMA OnceInductive ==
  ASSUME TypeOK, OnceInv, [Next]_vars
  PROVE  /\ OnceInv'
         /\ (\A o \in Orders : Quantity[o] >= 0) /\ NoFaultInv => NoFaultInv'
<1>1. CASE Next
  <2>1. PICK o \in Orders : Saga(o) \/ Environment(o)
    BY <1>1 DEF Next
  <2>2. \A p \in Orders \ {o} : Untouched(p) /\ left'[p] = left[p] /\ resp'[p] = resp[p]
    BY <2>1, OrderStep, OwnAttempts DEF Frame
  <2>3. \A p \in Orders \ {o} : TriesInv(p)' /\ SureInv(p)'
    BY <2>2, UntouchedInvs DEF OnceInv
  <2>4. \A p \in Orders \ {o} : KeptInv(p) /\ CleanInv(p) => KeptInv(p)' /\ CleanInv(p)'
    BY <2>2, UntouchedInvs
  <2>5. TriesInv(o)' /\ SureInv(o)'
    BY <2>1, TriesInvStep, SureInvStep DEF OnceInv
  <2>6. Quantity[o] >= 0 /\ KeptInv(o) /\ CleanInv(o) => KeptInv(o)' /\ CleanInv(o)'
    BY <2>1, KeptInvStep, CleanInvStep
  <2>7. OnceInv'
    BY <2>3, <2>5 DEF OnceInv
  <2>8. (\A p \in Orders : Quantity[p] >= 0) /\ NoFaultInv => NoFaultInv'
    BY <2>4, <2>6 DEF NoFaultInv
  <2>9. QED
    BY <2>7, <2>8
<1>2. CASE UNCHANGED vars
  <2>1. \A p \in Orders : Untouched(p) /\ left'[p] = left[p] /\ resp'[p] = resp[p]
    BY <1>2 DEF vars, Untouched
  <2>2. QED
    BY <2>1, UntouchedInvs DEF OnceInv, NoFaultInv
<1>3. QED
  BY <1>1, <1>2

LEMMA OnceInit == Init => OnceInv /\ NoFaultInv
<1> SUFFICES ASSUME Init, NEW o \in Orders
             PROVE  TriesInv(o) /\ SureInv(o) /\ KeptInv(o) /\ CleanInv(o)
  BY DEF OnceInv, NoFaultInv
<1>1. /\ pc[o] = "new" /\ reserves[o] = 0 /\ charges[o] = 0 /\ releases[o] = 0
      /\ row[o] = NoRow /\ \A h \in Hops : late[o][h] = 0
  BY DEF Init
<1>2. reserves[o] + late[o]["reserve"] + LeftOf(o, "reserving") = 0
      /\ charges[o] + late[o]["pay"] + LeftOf(o, "paying") = 0
  BY <1>1 DEF LeftOf
<1>3. \E n \in Attempts : 0 <= n
  <2>1. PICK n : n \in Attempts
    BY AttemptsAssumption
  <2>2. 0 <= n
    BY <2>1, AttemptsAssumption
  <2>3. QED
    BY <2>1, <2>2
<1>4. TriesInv(o)
  BY <1>1, <1>2, <1>3 DEF TriesInv, NoCharge
<1>5. QED
  BY <1>1, <1>4 DEF SureInv, KeptInv, CleanInv

LEMMA OnceInvariant == Spec => []OnceInv
<1>1. TypeOK /\ OnceInv /\ [Next]_vars => OnceInv'
  BY OnceInductive
<1>2. Init => OnceInv
  BY OnceInit
<1>3. QED
  BY <1>1, <1>2, SagaTypeCorrect, PTL DEF Spec

\* No order is reserved or charged more often than a hop has attempts; nor charged more
\* than once unless a pay request of it was lost, nor reserved more than once unless
\* something else of it was lost or failed, for any numbers of attempts and orders.
THEOREM OrdersAreChargedOnce == Spec => []ExactlyOnceUnlessLost
<1>1. TypeOK /\ OnceInv => ExactlyOnceUnlessLost
  <2>1. SUFFICES ASSUME TypeOK, NEW o \in Orders, TriesInv(o), SureInv(o)
                 PROVE  /\ "pay" \notin met[o] => charges[o] <= 1
                        /\ "other" \notin met[o] => reserves[o] <= 1
                        /\ \E n \in Attempts : charges[o] <= n
                        /\ \E n \in Attempts : reserves[o] <= n
    BY DEF OnceInv, ExactlyOnceUnlessLost
  <2>2. LeftOf(o, "reserving") \in Nat /\ LeftOf(o, "paying") \in Nat
    BY <2>1 DEF LeftOf, TypeOK
  <2>3. PICK n \in Attempts : charges[o] + late[o]["pay"] + LeftOf(o, "paying") <= n
    BY <2>1 DEF TriesInv
  <2>4. charges[o] <= n
    BY <2>1, <2>2, <2>3, OrderValues, AttemptsAssumption
  <2>5. PICK m \in Attempts : reserves[o] + late[o]["reserve"] + LeftOf(o, "reserving") <= m
    BY <2>1 DEF TriesInv
  <2>6. reserves[o] <= m
    BY <2>1, <2>2, <2>5, OrderValues, AttemptsAssumption
  <2>7. /\ "pay" \notin met[o] => charges[o] <= 1
        /\ "other" \notin met[o] => reserves[o] <= 1
    BY <2>1, OrderValues DEF SureInv
  <2>8. QED
    BY <2>4, <2>6, <2>7
<1>2. QED
  BY <1>1, OnceInvariant, SagaTypeCorrect, PTL

\* An order that met no fault is all or nothing, beside any number of other orders that met
\* some, as long as no quantity is negative.
THEOREM FaultlessOrdersAreAtomic ==
  ASSUME \A o \in Orders : Quantity[o] >= 0
  PROVE  Spec => []AllOrNothing
<1>1. Init => NoFaultInv
  BY OnceInit
<1>2. TypeOK /\ OnceInv /\ NoFaultInv /\ [Next]_vars => NoFaultInv'
  BY OnceInductive
<1>3. NoFaultInv => AllOrNothing
  BY DEF NoFaultInv, KeptInv, CleanInv, Ended, AllOrNothing, Cancelled
<1>4. QED
  BY <1>1, <1>2, <1>3, OnceInvariant, SagaTypeCorrect, PTL DEF Spec

-----------------------------------------------------------------------------
(* The stock: the paid orders ask together for no more units than there    *)
(* were (NoOversell), and the units missing from the stock are those of    *)
(* the orders in progress or sold (StockMatchesOrders).                    *)
(* Both are about sums over all orders, so what a sum over a finite set is *)
(* comes first: that it exists, that any element can be taken out of it    *)
(* first, and how it changes with one of its terms.                        *)
HIDE DEF Hops, Steps, Responses, Troubles, sagaVars, inventoryVars, paymentVars

\* Induction over the subsets of a finite set, for a property given as a set of subsets.
LEMMA SubsetInduction ==
  ASSUME NEW S, IsFiniteSet(S), NEW P \in SUBSET (SUBSET S),
         \A s \in SUBSET S : (\A t \in SUBSET s : t # s => t \in P) => s \in P
  PROVE  \A s \in SUBSET S : s \in P
<1>1. IsWellFoundedOn(StrictSubsetOrdering(S), SUBSET S)
  BY FS_StrictSubsetOrderingWellFounded, FS_FiniteSubsetsOfFinite
<1> DEFINE Bad == (SUBSET S) \ P
<1>2. SUFFICES ASSUME Bad # {}
               PROVE  FALSE
  OBVIOUS
<1>3. Bad \subseteq SUBSET S
  OBVIOUS
<1> HIDE DEF Bad
<1>4. PICK s \in Bad : \A t \in Bad : ~ (<<t, s>> \in StrictSubsetOrdering(S))
  BY <1>1, <1>2, <1>3, WFMin
<1>5. \A t \in SUBSET s : t # s => t \in P
  BY <1>4 DEF StrictSubsetOrdering, Bad
<1>6. QED
  BY <1>4, <1>5 DEF Bad

\* The element a sum takes next, and what it means that g[s] is the sum of w over s, for
\* every subset s of S: what MapThenSumSet computes with.
First(s) == CHOOSE x \in s : TRUE
IsSum(g, w, S) ==
  g = [s \in SUBSET S |-> IF s = {} THEN 0 ELSE w[First(s)] + g[s \ {First(s)}]]

LEMMA FirstIsOne == ASSUME NEW s, s # {} PROVE First(s) \in s
BY DEF First

LEMMA SumEquation ==
  ASSUME NEW S, NEW w, NEW g, IsSum(g, w, S), NEW s \in SUBSET S
  PROVE  g[s] = IF s = {} THEN 0 ELSE w[First(s)] + g[s \ {First(s)}]
<1> DEFINE h == [r \in SUBSET S |-> IF r = {} THEN 0 ELSE w[First(r)] + g[r \ {First(r)}]]
<1>1. h[s] = IF s = {} THEN 0 ELSE w[First(s)] + g[s \ {First(s)}]
  OBVIOUS
<1>2. g = h
  BY DEF IsSum
<1> HIDE DEF h
<1>3. QED
  BY <1>1, <1>2

\* A sum over s does not depend on the set s is taken from.
LEMMA SumUnique ==
  ASSUME NEW S, IsFiniteSet(S), NEW T, NEW w, NEW g, NEW h,
         IsSum(g, w, S), IsSum(h, w, T)
  PROVE  \A s \in SUBSET (S \cap T) : g[s] = h[s]
<1> DEFINE R == S \cap T
           P == {s \in SUBSET R : g[s] = h[s]}
<1>1. IsFiniteSet(R)
  BY FS_Subset
<1>2. ASSUME NEW s \in SUBSET R, \A t \in SUBSET s : t # s => t \in P
      PROVE  s \in P
  <2>1. s \in SUBSET S /\ s \in SUBSET T
    OBVIOUS
  <2>2. CASE s = {}
    BY <2>1, <2>2, SumEquation
  <2>3. CASE s # {}
    <3>1. s \ {First(s)} \in SUBSET s /\ s \ {First(s)} # s
      BY <2>3, FirstIsOne
    <3>2. g[s \ {First(s)}] = h[s \ {First(s)}]
      BY <1>2, <3>1
    <3>3. QED
      BY <2>1, <2>3, <3>2, SumEquation
  <2>4. QED
    BY <2>2, <2>3
<1>3. P \in SUBSET (SUBSET R)
  OBVIOUS
<1>4. \A s \in SUBSET R : s \in P
  <2> HIDE DEF P, R
  <2>1. QED
    BY <1>1, <1>2, <1>3, SubsetInduction
<1>5. QED
  BY <1>4

LEMMA SumInt ==
  ASSUME NEW S, IsFiniteSet(S), NEW w \in [S -> Int], NEW g, IsSum(g, w, S)
  PROVE  \A s \in SUBSET S : g[s] \in Int
<1> DEFINE P == {s \in SUBSET S : g[s] \in Int}
<1>1. ASSUME NEW s \in SUBSET S, \A t \in SUBSET s : t # s => t \in P
      PROVE  s \in P
  <2>1. CASE s = {}
    BY <2>1, SumEquation
  <2>2. CASE s # {}
    <3>1. s \ {First(s)} \in SUBSET s /\ s \ {First(s)} # s /\ First(s) \in S
      BY <2>2, FirstIsOne
    <3>2. g[s \ {First(s)}] \in Int /\ w[First(s)] \in Int
      BY <1>1, <3>1
    <3>3. g[s] = w[First(s)] + g[s \ {First(s)}]
      BY <2>2, SumEquation
    <3>4. QED
      BY <3>2, <3>3
  <2>3. QED
    BY <2>1, <2>2
<1>2. \A s \in SUBSET S : s \in P
  <2> HIDE DEF P
  <2>1. P \in SUBSET (SUBSET S)
    BY DEF P
  <2>2. QED
    BY <1>1, <2>1, SubsetInduction
<1>3. QED
  BY <1>2

LEMMA SumExists ==
  ASSUME NEW S, IsFiniteSet(S), NEW w
  PROVE  \E g : IsSum(g, w, S)
<1> DEFINE P == {T \in SUBSET S : \E g : IsSum(g, w, T)}
<1>1. ASSUME NEW T \in SUBSET S, \A t \in SUBSET T : t # T => t \in P
      PROVE  T \in P
  <2> DEFINE G(t) == CHOOSE g : IsSum(g, w, t)
             g == [s \in SUBSET T |-> IF s = {} THEN 0
                     ELSE w[First(s)] + G(s \ {First(s)})[s \ {First(s)}]]
  <2>1. \A t \in SUBSET T : t # T => IsSum(G(t), w, t)
    BY <1>1
  <2> HIDE DEF G
  <2>2. ASSUME NEW t \in SUBSET T, t # T
        PROVE  G(t)[t] = g[t]
    <3>1. IsSum(G(t), w, t)
      BY <2>1, <2>2
    <3>2. CASE t = {}
      BY <3>1, <3>2, SumEquation
    <3>3. CASE t # {}
      <4> DEFINE r == t \ {First(t)}
      <4>1. r \in SUBSET t /\ r \in SUBSET T /\ r # T
        BY <2>2
      <4>2. IsSum(G(r), w, r)
        BY <2>1, <4>1
      <4>3. IsFiniteSet(t) /\ t \cap r = r
        BY <1>1, FS_Subset
      <4>4. G(t)[r] = G(r)[r]
        BY <3>1, <4>2, <4>3, SumUnique
      <4>5. G(t)[t] = w[First(t)] + G(t)[r]
        BY <3>1, <3>3, SumEquation
      <4>6. g[t] = w[First(t)] + G(r)[r]
        BY <3>3
      <4>7. QED
        BY <4>4, <4>5, <4>6
    <3>4. QED
      BY <3>2, <3>3
  <2>3. ASSUME NEW s \in SUBSET T, s # {}
        PROVE  G(s \ {First(s)})[s \ {First(s)}] = g[s \ {First(s)}]
    <3>1. s \ {First(s)} \in SUBSET T /\ s \ {First(s)} # T
      BY <2>3, FirstIsOne
    <3>2. QED
      BY <2>2, <3>1
  <2>4. g = [s \in SUBSET T |-> IF s = {} THEN 0 ELSE w[First(s)] + g[s \ {First(s)}]]
    <3> DEFINE h == [s \in SUBSET T |-> IF s = {} THEN 0 ELSE w[First(s)] + g[s \ {First(s)}]]
    <3>1. \A s \in SUBSET T : g[s] = h[s]
      BY <2>3
    <3>2. QED
      BY <3>1
  <2>5. QED
    BY <2>4 DEF IsSum
<1>2. \A T \in SUBSET S : T \in P
  <2> HIDE DEF P
  <2>1. P \in SUBSET (SUBSET S)
    BY DEF P
  <2>2. QED
    BY <1>1, <2>1, SubsetInduction
<1>3. QED
  BY <1>2

\* Any element may be taken first.
TakesAny(g, w, S) == \A s \in SUBSET S : \A x \in s : g[s] = w[x] + g[s \ {x}]

LEMMA SumTakesAny ==
  ASSUME NEW S, IsFiniteSet(S), NEW w \in [S -> Int], NEW g, IsSum(g, w, S)
  PROVE  TakesAny(g, w, S)
<1> DEFINE P == {s \in SUBSET S : \A x \in s : g[s] = w[x] + g[s \ {x}]}
<1>1. ASSUME NEW s \in SUBSET S, \A t \in SUBSET s : t # s => t \in P
      PROVE  s \in P
  <2>1. ASSUME NEW x \in s
        PROVE  g[s] = w[x] + g[s \ {x}]
    <3> DEFINE y == First(s)
    <3>1. y \in s /\ y \in S /\ x \in S
      BY FirstIsOne
    <3>2. g[s] = w[y] + g[s \ {y}]
      BY <3>1, SumEquation
    <3>3. CASE x = y
      BY <3>2, <3>3
    <3>4. CASE x # y
      <4>1. s \ {y} \in P /\ x \in s \ {y}
        BY <1>1, <3>1, <3>4
      <4>2. s \ {x} \in P /\ y \in s \ {x}
        BY <1>1, <3>1, <3>4
      <4>3. g[s \ {y}] = w[x] + g[(s \ {y}) \ {x}]
        BY <4>1
      <4>4. g[s \ {x}] = w[y] + g[(s \ {x}) \ {y}]
        BY <4>2
      <4> DEFINE rest == (s \ {y}) \ {x}
      <4>5. (s \ {x}) \ {y} = rest /\ rest \in SUBSET S
        OBVIOUS
      <4>6. g[rest] \in Int
        BY <4>5, SumInt
      <4>7. w[x] \in Int /\ w[y] \in Int
        BY <3>1
      <4> HIDE DEF y, rest
      <4>8. g[s] = w[y] + (w[x] + g[rest]) /\ g[s \ {x}] = w[y] + g[rest]
        BY <3>2, <4>3, <4>4, <4>5 DEF rest
      <4>9. QED
        BY <4>6, <4>7, <4>8
    <3>5. QED
      BY <3>3, <3>4
  <2>2. QED
    BY <2>1
<1>2. \A s \in SUBSET S : s \in P
  <2> HIDE DEF P
  <2>1. P \in SUBSET (SUBSET S)
    BY DEF P
  <2>2. QED
    BY <1>1, <2>1, SubsetInduction
<1>3. QED
  BY <1>2 DEF TakesAny

\* A sum only changes with its terms.
LEMMA SumAgrees ==
  ASSUME NEW S, IsFiniteSet(S), NEW v, NEW w, NEW g, NEW h, IsSum(g, v, S), IsSum(h, w, S),
         NEW A \in SUBSET S, \A x \in A : v[x] = w[x]
  PROVE  g[A] = h[A]
<1> DEFINE P == {s \in SUBSET A : g[s] = h[s]}
<1>1. IsFiniteSet(A)
  BY FS_Subset
<1>2. ASSUME NEW s \in SUBSET A, \A t \in SUBSET s : t # s => t \in P
      PROVE  s \in P
  <2>1. s \in SUBSET S
    OBVIOUS
  <2>2. CASE s = {}
    BY <2>1, <2>2, SumEquation
  <2>3. CASE s # {}
    <3>1. s \ {First(s)} \in SUBSET s /\ s \ {First(s)} # s /\ First(s) \in A
      BY <2>3, FirstIsOne
    <3>2. g[s \ {First(s)}] = h[s \ {First(s)}]
      BY <1>2, <3>1
    <3>3. QED
      BY <2>1, <2>3, <3>1, <3>2, SumEquation
  <2>4. QED
    BY <2>2, <2>3
<1>3. P \in SUBSET (SUBSET A)
  OBVIOUS
<1>4. \A s \in SUBSET A : s \in P
  <2> HIDE DEF P
  <2>1. QED
    BY <1>1, <1>2, <1>3, SubsetInduction
<1>5. QED
  BY <1>4

\* When one term changes the sum changes by as much.
LEMMA SumChanges ==
  ASSUME NEW S, IsFiniteSet(S), NEW v \in [S -> Int], NEW w \in [S -> Int],
         NEW g, NEW h, IsSum(g, v, S), IsSum(h, w, S),
         NEW x \in S, \A y \in S \ {x} : v[y] = w[y]
  PROVE  h[S] = g[S] + (w[x] - v[x])
<1>1. TakesAny(g, v, S) /\ TakesAny(h, w, S)
  BY SumTakesAny
<1>2. g[S] = v[x] + g[S \ {x}] /\ h[S] = w[x] + h[S \ {x}]
  BY <1>1 DEF TakesAny
<1>3. g[S \ {x}] = h[S \ {x}]
  BY SumAgrees
<1>4. g[S \ {x}] \in Int /\ v[x] \in Int /\ w[x] \in Int
  BY SumInt
<1>5. QED
  BY <1>1, <1>2, <1>3, <1>4

\* Smaller terms over fewer elements make a smaller sum.
LEMMA SumMonotone ==
  ASSUME NEW S, IsFiniteSet(S), NEW A \in SUBSET S,
         NEW v \in [A -> Int], NEW w \in [S -> Int],
         NEW g, NEW h, IsSum(g, v, A), IsSum(h, w, S),
         \A x \in A : v[x] <= w[x], \A x \in S : 0 <= w[x]
  PROVE  g[A] <= h[S]
<1> DEFINE P == {s \in SUBSET S : g[s \cap A] <= h[s]}
<1>1. IsFiniteSet(A)
  BY FS_Subset
<1>2. ASSUME NEW s \in SUBSET S, \A t \in SUBSET s : t # s => t \in P
      PROVE  s \in P
  <2>1. CASE s = {}
    <3>1. g[s \cap A] = 0 /\ h[s] = 0
      <4>1. s \cap A = {} /\ s \cap A \in SUBSET A
        BY <2>1
      <4>2. QED
        BY <2>1, <4>1, SumEquation
    <3>2. QED
      BY <3>1
  <2>2. CASE s # {}
    <3> DEFINE x == First(s)
               r == s \ {x}
    <3>1. x \in s /\ x \in S
      BY <2>2, FirstIsOne
    <3>2. h[s] = w[x] + h[r]
      <4>1. TakesAny(h, w, S)
        BY SumTakesAny
      <4>2. QED
        BY <3>1, <4>1 DEF TakesAny
    <3>3. r \in SUBSET S /\ g[r \cap A] <= h[r]
      BY <1>2, <3>1
    <3>4. h[r] \in Int /\ w[x] \in Int
      BY <3>1, <3>3, SumInt
    <3>5. g[r \cap A] \in Int
      BY <1>1, SumInt
    <3>6. CASE x \in A
      <4>1. (s \cap A) \ {x} = r \cap A
        OBVIOUS
      <4>2. TakesAny(g, v, A)
        BY <1>1, SumTakesAny
      <4>3. g[s \cap A] = v[x] + g[r \cap A]
        BY <3>1, <3>6, <4>1, <4>2 DEF TakesAny
      <4>4. v[x] \in Int /\ v[x] <= w[x]
        BY <3>6
      <4> HIDE DEF x, r
      <4>5. QED
        BY <3>2, <3>3, <3>4, <3>5, <4>3, <4>4
    <3>7. CASE x \notin A
      <4>1. s \cap A = r \cap A
        BY <3>7
      <4>2. 0 <= w[x]
        BY <3>1
      <4> HIDE DEF x, r
      <4>3. QED
        BY <3>2, <3>3, <3>4, <3>5, <4>1, <4>2
    <3>8. QED
      BY <3>6, <3>7
  <2>3. QED
    BY <2>1, <2>2
<1>3. \A s \in SUBSET S : s \in P
  <2> HIDE DEF P
  <2>1. P \in SUBSET (SUBSET S)
    BY DEF P
  <2>2. QED
    BY <1>2, <2>1, SubsetInduction
<1>4. S \cap A = A
  OBVIOUS
<1>5. QED
  BY <1>3, <1>4

\* Terms that are zero outside a set add nothing to the sum over it.
LEMMA SumRestricts ==
  ASSUME NEW S, IsFiniteSet(S), NEW A \in SUBSET S,
         NEW v \in [A -> Int], NEW w \in [S -> Int],
         NEW g, NEW h, IsSum(g, v, A), IsSum(h, w, S),
         \A x \in A : v[x] = w[x], \A x \in S \ A : w[x] = 0
  PROVE  g[A] = h[S]
<1> DEFINE P == {s \in SUBSET S : g[s \cap A] = h[s]}
<1>1. IsFiniteSet(A)
  BY FS_Subset
<1>2. ASSUME NEW s \in SUBSET S, \A t \in SUBSET s : t # s => t \in P
      PROVE  s \in P
  <2>1. CASE s = {}
    <3>1. g[s \cap A] = 0 /\ h[s] = 0
      <4>1. s \cap A = {} /\ s \cap A \in SUBSET A
        BY <2>1
      <4>2. g[s \cap A] = 0
        BY <4>1, SumEquation
      <4>3. h[s] = 0
        BY <2>1, SumEquation
      <4>4. QED
        BY <4>2, <4>3
    <3>2. QED
      BY <3>1
  <2>2. CASE s # {}
    <3> DEFINE x == First(s)
               r == s \ {x}
    <3>1. x \in s /\ x \in S
      BY <2>2, FirstIsOne
    <3>2. h[s] = w[x] + h[r]
      <4>1. TakesAny(h, w, S)
        BY SumTakesAny
      <4>2. QED
        BY <3>1, <4>1 DEF TakesAny
    <3>3. r \in SUBSET S /\ g[r \cap A] = h[r]
      BY <1>2, <3>1
    <3>4. h[r] \in Int /\ w[x] \in Int
      BY <3>1, <3>3, SumInt
    <3>5. CASE x \in A
      <4>1. (s \cap A) \ {x} = r \cap A
        OBVIOUS
      <4>2. TakesAny(g, v, A)
        BY <1>1, SumTakesAny
      <4>3. g[s \cap A] = v[x] + g[r \cap A]
        BY <3>1, <3>5, <4>1, <4>2 DEF TakesAny
      <4>4. v[x] = w[x]
        BY <3>5
      <4> HIDE DEF x, r
      <4>5. QED
        BY <3>2, <3>3, <4>3, <4>4
    <3>6. CASE x \notin A
      <4>1. s \cap A = r \cap A
        BY <3>6
      <4>2. w[x] = 0
        BY <3>1, <3>6
      <4>3. g[s \cap A] = h[r]
        BY <3>3, <4>1
      <4> HIDE DEF x, r
      <4>4. h[s] = h[r]
        BY <3>2, <3>4, <4>2
      <4>5. QED
        BY <4>3, <4>4
    <3>7. QED
      BY <3>5, <3>6
  <2>3. QED
    BY <2>1, <2>2
<1>3. \A s \in SUBSET S : s \in P
  <2> HIDE DEF P
  <2>1. P \in SUBSET (SUBSET S)
    BY DEF P
  <2>2. QED
    BY <1>2, <2>1, SubsetInduction
<1>4. S \cap A = A
  OBVIOUS
<1>5. QED
  BY <1>3, <1>4

LEMMA SumOfNothing ==
  ASSUME NEW S, IsFiniteSet(S), NEW w, NEW g, IsSum(g, w, S), \A x \in S : w[x] = 0
  PROVE  g[S] = 0
<1> DEFINE P == {s \in SUBSET S : g[s] = 0}
<1>1. ASSUME NEW s \in SUBSET S, \A t \in SUBSET s : t # s => t \in P
      PROVE  s \in P
  <2>1. CASE s = {}
    BY <2>1, SumEquation
  <2>2. CASE s # {}
    <3>1. s \ {First(s)} \in SUBSET s /\ s \ {First(s)} # s /\ First(s) \in S
      BY <2>2, FirstIsOne
    <3>2. g[s \ {First(s)}] = 0 /\ w[First(s)] = 0
      BY <1>1, <3>1
    <3>3. g[s] = w[First(s)] + g[s \ {First(s)}]
      BY <2>2, SumEquation
    <3>4. QED
      BY <3>2, <3>3
  <2>3. QED
    BY <2>1, <2>2
<1>2. \A s \in SUBSET S : s \in P
  <2> HIDE DEF P
  <2>1. P \in SUBSET (SUBSET S)
    BY DEF P
  <2>2. QED
    BY <1>1, <2>1, SubsetInduction
<1>3. QED
  BY <1>2

-----------------------------------------------------------------------------
(* The sums of OrderSaga *)

\* What the reservations of each order took and its releases did not give back, and the
\* total over all orders.
UnitsHeld(taken, returned) ==
  MapThenSumSet(LAMBDA o : Quantity[o] * (taken[o] - returned[o]), Orders)
Held(taken, returned) == [o \in Orders |-> Quantity[o] * (taken[o] - returned[o])]

LEMMA HeldIsSum ==
  ASSUME NEW a \in [Orders -> Int], NEW b \in [Orders -> Int]
  PROVE  /\ Held(a, b) \in [Orders -> Int]
         /\ \E g : IsSum(g, Held(a, b), Orders) /\ UnitsHeld(a, b) = g[Orders]
<1> DEFINE iter[s \in SUBSET Orders] ==
             IF s = {} THEN 0
             ELSE Quantity[First(s)] * (a[First(s)] - b[First(s)]) + iter[s \ {First(s)}]
<1>1. UnitsHeld(a, b) = iter[Orders]
  BY DEF UnitsHeld, MapThenSumSet, MapThenFoldSet, First
<1>2. Held(a, b) \in [Orders -> Int]
  BY QuantityAssumption DEF Held
<1>3. PICK g : IsSum(g, Held(a, b), Orders)
  BY OrdersAssumption, SumExists
<1>4. \A s \in SUBSET Orders : s # {} =>
        Held(a, b)[First(s)] = Quantity[First(s)] * (a[First(s)] - b[First(s)])
  BY FirstIsOne DEF Held
<1>5. \A h : (h = [s \in SUBSET Orders |->
                     IF s = {} THEN 0
                     ELSE Quantity[First(s)] * (a[First(s)] - b[First(s)]) + h[s \ {First(s)}]])
               <=> IsSum(h, Held(a, b), Orders)
  BY <1>4 DEF IsSum
<1>6. IsSum(iter, Held(a, b), Orders)
  BY <1>3, <1>5
<1> HIDE DEF iter
<1>7. QED
  BY <1>1, <1>2, <1>6

LEMMA UnitsIsSum ==
  ASSUME NEW S \in SUBSET Orders
  PROVE  \E g : IsSum(g, Quantity, S) /\ UnitsOf(S) = g[S]
<1> DEFINE iter[s \in SUBSET S] ==
             IF s = {} THEN 0 ELSE Quantity[First(s)] + iter[s \ {First(s)}]
<1>1. UnitsOf(S) = iter[S]
  BY DEF UnitsOf, MapThenSumSet, MapThenFoldSet, First
<1>2. IsFiniteSet(S)
  BY OrdersAssumption, FS_Subset
<1>3. \E g : IsSum(g, Quantity, S)
  BY <1>2, SumExists
<1>4. IsSum(iter, Quantity, S)
  BY <1>3 DEF IsSum
<1> HIDE DEF iter
<1>5. QED
  BY <1>1, <1>4

LEMMA HeldInt ==
  ASSUME NEW a \in [Orders -> Int], NEW b \in [Orders -> Int]
  PROVE  UnitsHeld(a, b) \in Int
<1>1. Held(a, b) \in [Orders -> Int]
  BY HeldIsSum
<1>2. PICK g : IsSum(g, Held(a, b), Orders) /\ UnitsHeld(a, b) = g[Orders]
  BY HeldIsSum
<1>3. QED
  BY <1>1, <1>2, OrdersAssumption, SumInt

\* What one order takes or gives back is what the total changes by.
LEMMA HeldChanges ==
  ASSUME NEW a \in [Orders -> Int], NEW b \in [Orders -> Int],
         NEW c \in [Orders -> Int], NEW d \in [Orders -> Int], NEW o \in Orders,
         \A p \in Orders \ {o} : a[p] = c[p] /\ b[p] = d[p]
  PROVE  UnitsHeld(c, d) = UnitsHeld(a, b)
                             + (Quantity[o] * (c[o] - d[o]) - Quantity[o] * (a[o] - b[o]))
<1> DEFINE v == Held(a, b)
           w == Held(c, d)
<1>1. v \in [Orders -> Int] /\ w \in [Orders -> Int]
  BY HeldIsSum
<1>2. PICK g : IsSum(g, v, Orders) /\ UnitsHeld(a, b) = g[Orders]
  BY HeldIsSum
<1>3. PICK h : IsSum(h, w, Orders) /\ UnitsHeld(c, d) = h[Orders]
  BY HeldIsSum
<1>4. \A p \in Orders \ {o} : v[p] = w[p]
  BY DEF Held
<1>5. v[o] = Quantity[o] * (a[o] - b[o]) /\ w[o] = Quantity[o] * (c[o] - d[o])
  BY DEF Held
<1> HIDE DEF v, w
<1>6. h[Orders] = g[Orders] + (w[o] - v[o])
  BY <1>1, <1>2, <1>3, <1>4, OrdersAssumption, SumChanges
<1>7. QED
  BY <1>2, <1>3, <1>5, <1>6

-----------------------------------------------------------------------------
(* The stock *)

\* The stock changes only by a reservation or a release of one order, in time or late.
LEMMA StockSteps ==
  ASSUME NEW o \in Orders, Saga(o) \/ Environment(o)
  PROVE  UNCHANGED inventoryVars \/ Reserve(o) \/ Release(o)
<1>1. CASE Saga(o)
  BY <1>1 DEF Saga, Refuse, CheckAvailability, ReserveOk, ReserveRefused, ReserveFails,
     Insert, InsertFails, BreakerAdmits, BreakerRejects, PayOk, PayFails, PersistCancelled,
     PersistCancelledFails, PersistPaid, PersistPaidFails, NotifyOk, NotifyFails,
     PersistFinal, PersistFinalFails, ReleaseOk, ReleaseFails
<1>2. CASE Environment(o)
  BY <1>2 DEF Environment, LateReserve, LatePay, LateNotify, LateRelease, NeverArrives,
     Crash, OperatorUpdates, OperatorDeletes
<1>3. QED
  BY <1>1, <1>2

\* The history counters count what moves the stock; the sums below start from here.
StockAccounting == stock + UnitsHeld(reserves, releases) = InitialStock

LEMMA AccountingStep ==
  ASSUME TypeOK, TypeOK', StockAccounting, NEW o \in Orders, Reserve(o) \/ Release(o)
  PROVE  StockAccounting'
<1>1. /\ reserves \in [Orders -> Int] /\ releases \in [Orders -> Int]
      /\ reserves' \in [Orders -> Int] /\ releases' \in [Orders -> Int]
  BY DEF TypeOK
<1>2. /\ reserves[o] \in Int /\ releases[o] \in Int /\ Quantity[o] \in Int
      /\ stock \in Int /\ InitialStock \in Int /\ UnitsHeld(reserves, releases) \in Int
  <2>1. UnitsHeld(reserves, releases) \in Int
    BY <1>1, HeldInt
  <2>2. QED
    BY <1>1, <2>1, QuantityAssumption, StockAssumption DEF TypeOK
<1>3. \A p \in Orders \ {o} : reserves[p] = reserves'[p] /\ releases[p] = releases'[p]
  BY <1>1 DEF Reserve, Release
<1>4. UnitsHeld(reserves', releases') = UnitsHeld(reserves, releases)
        + (Quantity[o] * (reserves'[o] - releases'[o])
             - Quantity[o] * (reserves[o] - releases[o]))
  BY <1>1, <1>3, HeldChanges
<1>5. CASE Reserve(o)
  <2>1. /\ stock' = stock - Quantity[o]
        /\ reserves'[o] = reserves[o] + 1 /\ releases'[o] = releases[o]
    BY <1>1, <1>5 DEF Reserve
  <2>2. Quantity[o] * (reserves'[o] - releases'[o]) - Quantity[o] * (reserves[o] - releases[o])
          = Quantity[o]
    BY <1>2, <2>1
  <2>3. QED
    BY <1>2, <1>4, <2>1, <2>2 DEF StockAccounting
<1>6. CASE Release(o)
  <2>1. /\ stock' = stock + Quantity[o]
        /\ reserves'[o] = reserves[o] /\ releases'[o] = releases[o] + 1
    BY <1>1, <1>6 DEF Release
  <2>2. Quantity[o] * (reserves'[o] - releases'[o]) - Quantity[o] * (reserves[o] - releases[o])
          = - Quantity[o]
    BY <1>2, <2>1
  <2>3. QED
    BY <1>2, <1>4, <2>1, <2>2 DEF StockAccounting
<1>7. QED
  BY <1>5, <1>6

LEMMA StockIsAccountedFor == Spec => []StockAccounting
<1>1. Init => StockAccounting
  <2>1. SUFFICES ASSUME Init
                 PROVE  StockAccounting
    OBVIOUS
  <2>2. reserves \in [Orders -> Int] /\ releases \in [Orders -> Int]
    BY <2>1 DEF Init
  <2>3. PICK g : IsSum(g, Held(reserves, releases), Orders)
                 /\ UnitsHeld(reserves, releases) = g[Orders]
    BY <2>2, HeldIsSum
  <2>4. \A o \in Orders : Held(reserves, releases)[o] = 0
    <3>1. ASSUME NEW o \in Orders
          PROVE  Quantity[o] * (reserves[o] - releases[o]) = 0
      <4>1. reserves[o] - releases[o] = 0 /\ Quantity[o] \in Int
        BY <2>1, QuantityAssumption DEF Init
      <4>2. QED
        BY <4>1
    <3>2. QED
      BY <3>1 DEF Held
  <2>5. UnitsHeld(reserves, releases) = 0
    BY <2>3, <2>4, OrdersAssumption, SumOfNothing
  <2>6. QED
    BY <2>1, <2>5, StockAssumption DEF Init, StockAccounting
<1>2. TypeOK /\ TypeOK' /\ StockAccounting /\ [Next]_vars => StockAccounting'
  <2>1. SUFFICES ASSUME TypeOK, TypeOK', StockAccounting, [Next]_vars
                 PROVE  StockAccounting'
    OBVIOUS
  <2>2. CASE UNCHANGED inventoryVars
    BY <2>1, <2>2 DEF StockAccounting, inventoryVars
  <2>3. CASE \E o \in Orders : Reserve(o) \/ Release(o)
    BY <2>1, <2>3, AccountingStep
  <2>4. QED
    BY <2>1, <2>2, <2>3, StockSteps DEF Next, vars
<1>3. QED
  BY <1>1, <1>2, SagaTypeCorrect, PTL DEF Spec

\* The orders recorded as paid never ask together for more than there was, provided that no
\* quantity is negative: PaidOrderIsBacked and CompensatedOnce say that each of them holds
\* its units and no order less than none, and StockAccounting that what is held was there.
THEOREM PaidOrdersFitTheStock ==
  ASSUME \A o \in Orders : Quantity[o] >= 0
  PROVE  Spec => []NoOversell
<1>1. ASSUME TypeOK, StockAccounting, PaidOrderIsBacked, CompensatedOnce
      PROVE  NoOversell
  <2> DEFINE paid == {o \in Orders : Verified(o) /\ "operator" \notin met[o]}
             w == Held(reserves, releases)
  <2>1. reserves \in [Orders -> Int] /\ releases \in [Orders -> Int]
    BY <1>1 DEF TypeOK
  <2>2. PICK g : IsSum(g, Quantity, paid) /\ UnitsOf(paid) = g[paid]
    BY UnitsIsSum
  <2>3. w \in [Orders -> Int]
    BY <2>1, HeldIsSum
  <2>4. PICK h : IsSum(h, w, Orders) /\ UnitsHeld(reserves, releases) = h[Orders]
    BY <2>1, HeldIsSum
  <2>5. ASSUME NEW o \in Orders
        PROVE  0 <= w[o] /\ (o \in paid => Quantity[o] <= w[o])
    <3>1. w[o] = Quantity[o] * (reserves[o] - releases[o])
      BY DEF Held
    <3>2. reserves[o] \in Nat /\ releases[o] \in Nat /\ Quantity[o] \in Nat
      BY <1>1, QuantityAssumption DEF TypeOK
    <3>3. releases[o] <= reserves[o] /\ (o \in paid => reserves[o] > releases[o])
      BY <1>1 DEF CompensatedOnce, PaidOrderIsBacked
    <3> DEFINE n == reserves[o] - releases[o]
    <3>4. n \in Nat /\ (o \in paid => n >= 1)
      BY <3>2, <3>3
    <3> HIDE DEF n
    <3>5. 0 <= Quantity[o] * n /\ (o \in paid => Quantity[o] <= Quantity[o] * n)
      BY <3>2, <3>4
    <3>6. QED
      BY <3>1, <3>5 DEF n
  <2> DEFINE v == [o \in paid |-> Quantity[o]]
  <2>6. v \in [paid -> Int]
    BY QuantityAssumption
  <2>7. IsSum(g, v, paid)
    <3> HIDE DEF paid
    <3>1. \A s \in SUBSET paid : s # {} => v[First(s)] = Quantity[First(s)]
      BY FirstIsOne
    <3> HIDE DEF v
    <3>2. QED
      BY <2>2, <3>1 DEF IsSum
  <2>8. paid \in SUBSET Orders /\ \A o \in paid : v[o] <= w[o]
    BY <2>5
  <2> HIDE DEF paid, v, w
  <2>9. g[paid] <= h[Orders]
    BY <2>2, <2>3, <2>4, <2>5, <2>6, <2>7, <2>8, OrdersAssumption, SumMonotone
  <2>10. UnitsHeld(reserves, releases) \in Int /\ stock \in Nat /\ InitialStock \in Nat
    BY <1>1, <2>1, HeldInt, StockAssumption DEF TypeOK
  <2>11. UnitsHeld(reserves, releases) <= InitialStock
    BY <1>1, <2>10 DEF StockAccounting
  <2>12. UnitsOf(paid) <= InitialStock
    <3>1. g[paid] \in Int
      BY <2>6, <2>7, <2>8, OrdersAssumption, FS_Subset, SumInt
    <3>2. QED
      BY <2>2, <2>4, <2>9, <2>10, <2>11, <3>1
  <2>13. QED
    BY <2>12 DEF NoOversell, paid
<1>2. QED
  BY <1>1, StockIsAccountedFor, PaidIsAlwaysBacked, CompensationIsAppliedOnce,
     SagaTypeCorrect, PTL
\* An order in progress or sold has its units, and an order that lost nothing but pay and
\* notify requests has them then and only then.
LEMMA UnitsOfOrder ==
  ASSUME TypeOK, SagaInv, ContractInv, NEW o \in Orders
  PROVE  /\ HasUnits(o) => reserves[o] - releases[o] >= 1
         /\ KeptInv(o) /\ met[o] \subseteq {"pay"} =>
              reserves[o] - releases[o] = IF HasUnits(o) THEN 1 ELSE 0
<1> USE OrderValues
<1>1. OrderInv(o) /\ AnswerInv(o) /\ pc[o] \in Steps /\ resp[o] \in Responses
  BY DEF SagaInv, ContractInv, TypeOK
<1>2. HasUnits(o) => reserves[o] >= 1 /\ releases[o] = 0
  <2>1. CASE pc[o] \in Steps \ {"new", "reserving", "done", "dead"}
    BY <1>1, <2>1 DEF OrderInv, NoRelease, Steps
  <2>2. CASE resp[o] \in {"success", "warning"}
    <3>1. AnswerOf(o) = "bought"
      BY <2>2 DEF AnswerOf
    <3>2. QED
      BY <1>1, <3>1 DEF AnswerInv, NoRelease
  <2>3. QED
    BY <2>1, <2>2 DEF HasUnits
<1>3. ASSUME KeptInv(o), met[o] \subseteq {"pay"}
      PROVE  reserves[o] - releases[o] = IF HasUnits(o) THEN 1 ELSE 0
  <2>1. CASE pc[o] \in {"new", "reserving"}
    <3>1. ~HasUnits(o)
      BY <1>1, <2>1 DEF AnswerInv, HasUnits
    <3>2. QED
      BY <1>3, <2>1, <3>1 DEF KeptInv
  <2>2. CASE pc[o] = "done"
    <3>1. HasUnits(o) <=> resp[o] \in {"success", "warning"}
      BY <2>2 DEF HasUnits
    <3>2. QED
      BY <1>3, <2>2, <3>1 DEF KeptInv
  <2>3. CASE pc[o] \notin {"new", "reserving", "done"}
    <3>1. pc[o] # "dead" /\ reserves[o] = 1 /\ releases[o] = 0
      BY <1>3, <2>3 DEF KeptInv
    <3>2. HasUnits(o)
      BY <1>1, <2>3, <3>1 DEF HasUnits
    <3>3. QED
      BY <3>1, <3>2
  <2>4. QED
    BY <2>1, <2>2, <2>3
<1>4. QED
  BY <1>2, <1>3

\* For any orders with quantities that are not negative: what running and sold orders took
\* is never given back under them, and nothing else is missing from the stock as long as
\* only pay and notify requests are lost.  SagaInv and ContractInv give the first half
\* order by order, KeptInv the second; the sums over the orders do the rest.
THEOREM StockAlwaysMatchesOrders ==
  ASSUME \A o \in Orders : Quantity[o] >= 0
  PROVE  Spec => []StockMatchesOrders
<1>1. ASSUME TypeOK, StockAccounting, SagaInv, ContractInv, NoFaultInv, CompensatedOnce
      PROVE  StockMatchesOrders
  <2> DEFINE held == {o \in Orders : HasUnits(o)}
             w == Held(reserves, releases)
             v == [o \in held |-> Quantity[o]]
  <2>1. reserves \in [Orders -> Int] /\ releases \in [Orders -> Int]
    BY <1>1 DEF TypeOK
  <2>2. PICK g : IsSum(g, Quantity, held) /\ UnitsOf(held) = g[held]
    BY UnitsIsSum
  <2>3. w \in [Orders -> Int]
    BY <2>1, HeldIsSum
  <2>4. PICK h : IsSum(h, w, Orders) /\ UnitsHeld(reserves, releases) = h[Orders]
    BY <2>1, HeldIsSum
  <2>5. ASSUME NEW o \in Orders
        PROVE  /\ 0 <= w[o] /\ (o \in held => Quantity[o] <= w[o])
               /\ met[o] \subseteq {"pay"} => w[o] = IF o \in held THEN Quantity[o] ELSE 0
    <3> DEFINE n == reserves[o] - releases[o]
    <3>1. w[o] = Quantity[o] * n
      BY DEF Held
    <3>2. Quantity[o] \in Nat /\ n \in Nat
      BY <1>1, QuantityAssumption DEF TypeOK, CompensatedOnce
    <3>3. /\ o \in held => n >= 1
          /\ met[o] \subseteq {"pay"} => n = IF o \in held THEN 1 ELSE 0
      BY <1>1, UnitsOfOrder DEF NoFaultInv
    <3> HIDE DEF n, w, held
    <3>4. 0 <= Quantity[o] * n /\ (o \in held => Quantity[o] <= Quantity[o] * n)
      BY <3>2, <3>3
    <3>5. met[o] \subseteq {"pay"} => Quantity[o] * n = IF o \in held THEN Quantity[o] ELSE 0
      BY <3>2, <3>3
    <3>6. QED
      BY <3>1, <3>4, <3>5
  <2>6. v \in [held -> Int]
    BY QuantityAssumption
  <2>7. IsSum(g, v, held)
    <3> HIDE DEF held
    <3>1. \A s \in SUBSET held : s # {} => v[First(s)] = Quantity[First(s)]
      BY FirstIsOne
    <3> HIDE DEF v
    <3>2. QED
      BY <2>2, <3>1 DEF IsSum
  <2>8. held \in SUBSET Orders /\ \A o \in held : v[o] = Quantity[o]
    OBVIOUS
  <2> HIDE DEF held, v, w
  <2>9. g[held] <= h[Orders]
    BY <2>2, <2>3, <2>4, <2>5, <2>6, <2>7, <2>8, OrdersAssumption, SumMonotone
  <2>10. ASSUME \A o \in Orders : met[o] \subseteq {"pay"}
         PROVE  g[held] = h[Orders]
    <3>1. /\ \A o \in held : v[o] = w[o]
          /\ \A o \in Orders \ held : w[o] = 0
      BY <2>5, <2>8, <2>10
    <3>2. QED
      BY <2>3, <2>4, <2>6, <2>7, <2>8, <3>1, OrdersAssumption, SumRestricts
  <2>11. InitialStock - stock = h[Orders]
    <3>1. UnitsHeld(reserves, releases) \in Int /\ stock \in Nat /\ InitialStock \in Nat
      BY <1>1, <2>1, HeldInt, StockAssumption DEF TypeOK
    <3>2. QED
      BY <1>1, <2>4, <3>1 DEF StockAccounting
  <2>12. QED
    BY <2>2, <2>9, <2>10, <2>11 DEF StockMatchesOrders, held
<1>2. Init => NoFaultInv
  BY OnceInit
<1>3. TypeOK /\ OnceInv /\ NoFaultInv /\ [Next]_vars => NoFaultInv'
  BY OnceInductive
<1>4. QED
  BY <1>1, <1>2, <1>3, OnceInvariant, SagaInvariant, ContractInvariant, StockIsAccountedFor,
     CompensationIsAppliedOnce, SagaTypeCorrect, PTL DEF Spec
=============================================================================
