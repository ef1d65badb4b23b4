------------------------ MODULE BookingOrdersProofs ------------------------
(***************************************************************************)
(* Proofs about BookingOrders: its type invariant, and the invariant about *)
(* money with what it needs to be inductive.                               *)
(***************************************************************************)
EXTENDS BookingOrders, FiniteSetTheorems, TLAPS

\* What a booking owes is part of what it holds, and what it holds beyond its
\* due (refund_owed).
LEMMA OwedBounds ==
  ASSUME TypeOK, NEW b \in Bookings, NEW st, NEW sum \in Nat
  PROVE  /\ Owed(b, st, sum) \in Nat
         /\ Owed(b, st, sum) <= sum
         /\ sum - Owed(b, st, sum) \in Nat
BY AmountsAssumption DEF TypeOK, Owed

\* The refund plan_refund records is part of the money (settle_capture).
LEMMA ToRefundBounds ==
  ASSUME TypeOK, NEW b \in Bookings, NEW settled, NEW sum \in Nat
  PROVE  /\ ToRefund(b, settled, sum) \in Nat
         /\ ToRefund(b, settled, sum) <= sum
         /\ sum - ToRefund(b, settled, sum) \in Nat
BY OwedBounds DEF ToRefund

\* A settlement leaves the booking in a status and with a reason of its type.
LEMMA AfterTypes ==
  ASSUME TypeOK, NEW b \in Bookings, NEW settled
  PROVE  StatusAfter(b, settled) \in Statuses /\ ReasonAfter(b, settled) \in Reasons
BY DEF TypeOK, StatusAfter, ReasonAfter, Statuses, Reasons

\* Settling any amount keeps the types of the rows it writes.
LEMMA SettleTypes ==
  ASSUME TypeOK, NEW b \in Bookings, NEW amount \in Nat, NEW t, Settle(b, amount, t)
  PROVE  /\ clock' = clock /\ day' = day /\ seats' = seats /\ hold' = hold
         /\ kept' = kept /\ asked' = asked /\ overdue' = overdue /\ call' = call
         /\ released' = released /\ rzp' = rzp /\ takenAt' = takenAt
         /\ status' \in [Bookings -> Statuses]
         /\ reason' \in [Bookings -> Reasons]
         /\ paid' \in [Bookings -> Nat]
         /\ refunded' \in [Bookings -> Nat]
         /\ aside' \in [Departures -> 0..MaxAside]
<1> DEFINE sum == paid[b] + amount
           settled == Settled(b, sum, t)
           back == ToRefund(b, settled, sum)
<1>1. sum \in Nat
  BY DEF TypeOK
<1>2. back \in Nat /\ sum - back \in Nat
  BY <1>1, ToRefundBounds
<1>3. StatusAfter(b, settled) \in Statuses /\ ReasonAfter(b, settled) \in Reasons
  BY AfterTypes
<1>4. status' \in [Bookings -> Statuses] /\ reason' \in [Bookings -> Reasons]
  <2>1. /\ status' = [status EXCEPT ![b] = StatusAfter(b, settled)]
        /\ reason' = [reason EXCEPT ![b] = ReasonAfter(b, settled)]
    BY DEF Settle
  <2> QED
    BY <2>1, <1>3 DEF TypeOK
<1>5. paid' \in [Bookings -> Nat] /\ refunded' \in [Bookings -> Nat]
  <2>1. /\ paid' = [paid EXCEPT ![b] = sum - back]
        /\ refunded' = [refunded EXCEPT ![b] = refunded[b] + back]
    BY DEF Settle
  <2> HIDE DEF back
  <2> QED
    BY <2>1, <1>2 DEF TypeOK
<1>6. aside' \in [Departures -> 0..MaxAside]
  <2>1. PICK n \in 0..aside[DepartureOf[b]] : aside' = [aside EXCEPT ![DepartureOf[b]] = n]
    BY DEF Settle
  <2>2. DepartureOf[b] \in Departures /\ aside[DepartureOf[b]] \in 0..MaxAside
    BY RowsAssumption DEF TypeOK
  <2>3. n \in 0..MaxAside
    BY <2>2, TimesAssumption
  <2> QED
    BY <2>1, <2>3 DEF TypeOK
<1> QED
  BY <1>4, <1>5, <1>6 DEF Settle

\* A walk leaves a number of seats within its bound set aside on every departure.
LEMMA WalkTypes ==
  ASSUME TypeOK, NEW B, NEW d \in Departures, Walk(B, d)
  PROVE  aside' \in [Departures -> 0..MaxAside]
BY TimesAssumption DEF Walk, TypeOK

-----------------------------------------------------------------------------
(* The inductive invariant.                                                 *)

\* A booking keeps money only when it was finally cancelled.
KeptOnlyWhenFinal ==
  \A b \in Bookings :
    status[b] # "cancelled" \/ reason[b] = "hold_expired" => kept[b] = 0

\* Money can be taken only for an order that was opened, of a booking that exists.
OrdersExist ==
  /\ \A b \in Bookings : call[b] # "none" => status[b] # "none"
  /\ \A p \in Payments : rzp[p] # "none" => call[PaymentOf[p]] = "open"

MoneyInv == TypeOK /\ MoneyHasAHome /\ KeptOnlyWhenFinal /\ OrdersExist

\* Money that lands on a booking that exists, enough for its order while that
\* still waits: it ends up behind seats or on its way back, and what the
\* booking holds and gives back grows by just that money (settle_capture).
LEMMA SettleMoney ==
  ASSUME MoneyInv, NEW b \in Bookings, NEW amount \in Nat, NEW t,
         status[b] # "none", AwaitingPayment(b) => amount >= Ask[b],
         Settle(b, amount, t)
  PROVE  /\ status'[b] # "none"
         /\ status'[b] \in Sold => Ask[b] <= paid'[b] /\ paid'[b] <= Total[b]
         /\ status'[b] \in {"confirmed", "completed"} => paid'[b] = Total[b]
         /\ status'[b] = "partially_paid" => paid'[b] < Total[b]
         /\ status'[b] = "cancelled" /\ reason'[b] # "hold_expired"
              => paid'[b] = kept[b]
         /\ ~ (status'[b] = "pending")
         /\ ~ (status'[b] = "cancelled" /\ reason'[b] = "hold_expired")
         /\ status'[b] # "cancelled" => kept[b] = 0
         /\ status[b] = "cancelled" /\ reason[b] # "hold_expired"
              => status'[b] = status[b] /\ reason'[b] = reason[b] /\ paid'[b] = paid[b]
         /\ status[b] \in Sold => status'[b] \in Sold
         /\ status'[b] = "completed" => status[b] = "completed"
         /\ paid'[b] + refunded'[b] = paid[b] + refunded[b] + amount
         /\ \A c \in Bookings \ {b} :
              /\ status'[c] = status[c] /\ reason'[c] = reason[c]
              /\ paid'[c] = paid[c] /\ refunded'[c] = refunded[c]
<1> DEFINE sum == paid[b] + amount
           settled == Settled(b, sum, t)
           back == ToRefund(b, settled, sum)
<1>1. /\ sum \in Nat /\ Ask[b] \in Nat /\ Total[b] \in Nat /\ Ask[b] <= Total[b]
      /\ paid[b] \in Nat /\ kept[b] \in Nat /\ refunded[b] \in Nat
      /\ Ask[b] > 0
  BY AmountsAssumption DEF MoneyInv, TypeOK
<1>2. /\ status' = [status EXCEPT ![b] = StatusAfter(b, settled)]
      /\ reason' = [reason EXCEPT ![b] = ReasonAfter(b, settled)]
      /\ paid' = [paid EXCEPT ![b] = sum - back]
      /\ refunded' = [refunded EXCEPT ![b] = refunded[b] + back]
  BY DEF Settle
<1>3. back \in Nat /\ back <= sum
  BY <1>1, ToRefundBounds DEF MoneyInv
<1>4. /\ status'[b] = StatusAfter(b, settled) /\ reason'[b] = ReasonAfter(b, settled)
      /\ paid'[b] = sum - back /\ refunded'[b] = refunded[b] + back
      /\ \A c \in Bookings \ {b} :
              /\ status'[c] = status[c] /\ reason'[c] = reason[c]
              /\ paid'[c] = paid[c] /\ refunded'[c] = refunded[c]
  <2> HIDE DEF back, settled, sum
  <2> QED
    BY <1>2 DEF MoneyInv, TypeOK
<1>5. paid'[b] + refunded'[b] = paid[b] + refunded[b] + amount
  <2> HIDE DEF back
  <2> QED
    BY <1>1, <1>3, <1>4
<1>6. /\ status[b] \in Sold => Ask[b] <= paid[b] /\ paid[b] <= Total[b] /\ kept[b] = 0
      /\ status[b] \in {"confirmed", "completed"} => paid[b] = Total[b]
      /\ status[b] = "cancelled" /\ reason[b] # "hold_expired" => paid[b] = kept[b]
      /\ AwaitingPayment(b) => paid[b] = 0 /\ kept[b] = 0
  BY DEF MoneyInv, MoneyHasAHome, KeptOnlyWhenFinal, AwaitingPayment, Sold
<1>7. /\ status[b] \in {"pending", "partially_paid", "confirmed", "completed", "cancelled"}
      /\ AwaitingPayment(b) <=> \/ status[b] = "pending"
                                \/ status[b] = "cancelled" /\ reason[b] = "hold_expired"
  BY DEF MoneyInv, TypeOK, Statuses, AwaitingPayment
<1>8. CASE status[b] = "partially_paid"
  <2>1. settled = IF sum >= Total[b] THEN "paid_in_full" ELSE "balance_part"
    BY <1>7, <1>8 DEF Settled
  <2>2. CASE sum >= Total[b]
    <3>1. back = sum - Total[b]
      BY <2>1, <2>2, <1>1 DEF ToRefund, Owed, StatusAfter
    <3>2. StatusAfter(b, settled) = "confirmed"
      BY <2>1, <2>2 DEF StatusAfter
    <3> QED
      BY <3>1, <3>2, <1>1, <1>4, <1>5, <1>6, <1>8 DEF Sold
  <2>3. CASE ~ (sum >= Total[b])
    <3>1. back = 0
      BY <2>1, <2>3 DEF ToRefund
    <3>2. StatusAfter(b, settled) = "partially_paid"
      BY <2>1, <2>3, <1>8 DEF StatusAfter
    <3> QED
      BY <3>1, <3>2, <1>1, <1>4, <1>5, <1>6, <1>8, <2>3 DEF Sold
  <2> QED
    BY <2>2, <2>3
<1>9. CASE status[b] # "partially_paid" /\ ~ AwaitingPayment(b)
  <2>1. settled = "not_pending"
    BY <1>9 DEF Settled
  <2>2. StatusAfter(b, settled) = status[b] /\ ReasonAfter(b, settled) = reason[b]
    BY <2>1 DEF StatusAfter, ReasonAfter
  <2>3. back = Owed(b, status[b], sum)
    BY <2>1, <2>2 DEF ToRefund
  <2>4. CASE status[b] = "cancelled"
    <3>1. back = amount
      BY <2>3, <2>4, <1>1, <1>6, <1>7, <1>9 DEF Owed
    <3> QED
      BY <3>1, <2>2, <2>4, <1>1, <1>4, <1>5, <1>6, <1>7, <1>9 DEF Sold
  <2>5. CASE status[b] \in {"confirmed", "completed"}
    <3>1. back = amount
      BY <2>3, <2>5, <1>1, <1>6 DEF Owed
    <3> QED
      BY <3>1, <2>2, <2>5, <1>1, <1>4, <1>5, <1>6 DEF Sold
  <2> QED
    BY <2>4, <2>5, <1>7, <1>9
<1>10. CASE AwaitingPayment(b)
  <2>1. sum = amount /\ sum >= Ask[b] /\ status[b] # "partially_paid"
    BY <1>10, <1>1, <1>6, <1>7
  <2>2. CASE SeatsThere(b, t) /\ sum >= Total[b]
    <3>1. settled = "confirmed"
      BY <2>1, <2>2, <1>1, <1>10 DEF Settled
    <3>2. StatusAfter(b, settled) = "confirmed" /\ back = sum - Total[b]
      BY <3>1, <2>2, <1>1 DEF StatusAfter, ToRefund, Owed
    <3> QED
      BY <3>2, <1>1, <1>4, <1>5, <1>6, <1>7, <1>10 DEF Sold
  <2>3. CASE SeatsThere(b, t) /\ ~ (sum >= Total[b])
    <3>1. settled = "deposit"
      BY <2>1, <2>3, <1>1, <1>10 DEF Settled
    <3>2. StatusAfter(b, settled) = "partially_paid" /\ back = 0
      BY <3>1, <2>3, <1>1 DEF StatusAfter, ToRefund, Owed
    <3> QED
      BY <3>2, <2>1, <2>3, <1>1, <1>4, <1>5, <1>6, <1>7, <1>10 DEF Sold
  <2>4. CASE ~ SeatsThere(b, t)
    <3>1. settled = "seats_gone"
      BY <2>1, <2>4, <1>1, <1>10 DEF Settled
    <3>2. /\ StatusAfter(b, settled) = "cancelled"
          /\ ReasonAfter(b, settled) = "seats_gone"
          /\ back = sum
      BY <3>1, <1>1, <1>6, <1>10 DEF StatusAfter, ReasonAfter, ToRefund, Owed
    <3>3. status'[b] = "cancelled" /\ reason'[b] = "seats_gone" /\ paid'[b] = 0
      BY <3>2, <1>1, <1>4
    <3> HIDE DEF settled, back, sum
    <3> QED
      BY <3>3, <1>4, <1>5, <1>6, <1>7, <1>10 DEF Sold
  <2> QED
    BY <2>2, <2>3, <2>4
<1> QED
  BY <1>8, <1>9, <1>10

-----------------------------------------------------------------------------
\* The type invariant of every handler's rows.
LEMMA TypeInit == Init => TypeOK
BY TimesAssumption DEF Init, TypeOK, Statuses, Reasons

\* Every step keeps the types; mark_paid needs that a booking which still
\* awaits its payment holds no more than its price.
LEMMA TypeStep == MoneyInv /\ [Next]_vars => TypeOK'
<1> SUFFICES ASSUME MoneyInv, [Next]_vars
             PROVE  TypeOK'
  OBVIOUS
<1> USE RowsAssumption, TimesAssumption
<1>0. TypeOK /\ MoneyHasAHome
  BY DEF MoneyInv
<1> USE <1>0
<1>1. CASE Tick
  BY <1>1 DEF Tick, TypeOK, rowVars
<1>2. CASE Sweep
  BY <1>2 DEF Sweep, TypeOK, Statuses, Reasons
<1>3. ASSUME NEW d \in Departures, DayPasses(d) PROVE TypeOK'
  BY <1>3 DEF DayPasses, TypeOK, rowVars
<1>4. ASSUME NEW d \in Departures, SetAside(d) PROVE TypeOK'
  BY <1>4, WalkTypes DEF SetAside, TypeOK, rowVars
<1>5. ASSUME NEW d \in Departures, NEW n \in SeatTotals, SaveSeats(d, n) PROVE TypeOK'
  BY <1>5 DEF SaveSeats, TypeOK, rowVars
<1>6. ASSUME NEW b \in Bookings, OrderOpened(b) PROVE TypeOK'
  BY <1>6 DEF OrderOpened, TypeOK, rowVars
<1>7. ASSUME NEW b \in Bookings, OrderLost(b) PROVE TypeOK'
  BY <1>7 DEF OrderLost, TypeOK, rowVars
<1>8. ASSUME NEW b \in Bookings, NEW t \in Began, OrderRefused(b, t) PROVE TypeOK'
  <2>0. t \in Nat
    BY DEF Began, TypeOK
  <2>1. hold' \in [Bookings -> Nat]
    BY <1>8, <2>0 DEF OrderRefused, TypeOK
  <2>2. /\ call' \in [Bookings -> {"none", "calling", "open", "lost", "refused"}]
        /\ released' \in [Bookings -> [Bookings -> Nat]]
    BY <1>8 DEF OrderRefused, TypeOK
  <2> QED
    BY <1>8, <2>1, <2>2 DEF OrderRefused, TypeOK
<1>9. ASSUME NEW b \in Bookings, ReleaseHold(b) PROVE TypeOK'
  <2>1. aside' \in [Departures -> 0..MaxAside]
    BY <1>9, WalkTypes DEF ReleaseHold
  <2>2. hold' \in [Bookings -> Nat]
    BY <1>9 DEF ReleaseHold, TypeOK
  <2> QED
    BY <1>9, <2>1, <2>2 DEF ReleaseHold, TypeOK, Statuses, Reasons
<1>10. ASSUME NEW b \in Bookings, MarkPaid(b) PROVE TypeOK'
  <2>1. Total[b] - paid[b] \in Nat
    <3>1. AwaitingPayment(b)
      BY <1>10 DEF MarkPaid
    <3>2. paid[b] = 0
      BY <3>1 DEF MoneyHasAHome
    <3>3. Total[b] \in Nat
      BY AmountsAssumption
    <3> QED
      BY <3>2, <3>3
  <2>2. offline' \in [Bookings -> Nat]
    <3> DEFINE rest == Total[b] - paid[b]
    <3>1. offline' = [offline EXCEPT ![b] = offline[b] + rest] /\ rest \in Nat
      BY <1>10, <2>1 DEF MarkPaid
    <3> HIDE DEF rest
    <3> QED
      BY <3>1 DEF TypeOK
  <2>3. Settle(b, Total[b] - paid[b], clock) /\ row' = row
    BY <1>10 DEF MarkPaid
  <2> QED
    BY <2>1, <2>2, <2>3, SettleTypes DEF TypeOK
<1>11. ASSUME NEW b \in Bookings, RequestCancellation(b) PROVE TypeOK'
  BY <1>11 DEF RequestCancellation, TypeOK
<1>12. ASSUME NEW b \in Bookings, Reject(b) PROVE TypeOK'
  BY <1>12 DEF Reject, TypeOK
<1>13. ASSUME NEW b \in Bookings, NEW t \in Began, PlaceOrder(b, t) PROVE TypeOK'
  <2>1. t \in Nat /\ t + Hold \in Nat
    BY DEF Began, TypeOK
  <2>2. hold' \in [Bookings -> Nat]
    BY <1>13, <2>1 DEF PlaceOrder, TypeOK
  <2>3. released' \in [Bookings -> [Bookings -> Nat]]
    BY <1>13 DEF PlaceOrder, TypeOK
  <2> QED
    BY <1>13, <2>2, <2>3 DEF PlaceOrder, TypeOK, Statuses
<1>14. ASSUME NEW b \in Bookings, NEW r \in 0..paid[b], Approve(b, r) PROVE TypeOK'
  <2> DEFINE price == IF paid[b] < Total[b] THEN paid[b] ELSE Total[b]
             keeps == IF price > r THEN price - r ELSE 0
  <2>1. /\ paid[b] \in Nat /\ Total[b] \in Nat /\ r \in Nat /\ refunded[b] \in Nat
    BY AmountsAssumption DEF TypeOK
  <2>2. keeps \in Nat /\ paid[b] - keeps \in Nat
    BY <2>1
  <2>3. /\ kept' = [kept EXCEPT ![b] = keeps]
        /\ paid' = [paid EXCEPT ![b] = keeps]
        /\ refunded' = [refunded EXCEPT ![b] = refunded[b] + (paid[b] - keeps)]
    BY <1>14 DEF Approve
  <2>4. /\ kept' \in [Bookings -> Nat] /\ paid' \in [Bookings -> Nat]
        /\ refunded' \in [Bookings -> Nat]
    <3> HIDE DEF keeps
    <3> QED
      BY <2>1, <2>2, <2>3 DEF TypeOK
  <2>5. aside' \in [Departures -> 0..MaxAside]
    BY <1>14, WalkTypes DEF Approve
  <2> QED
    BY <1>14, <2>4, <2>5 DEF Approve, TypeOK, Statuses, Reasons
<1>20. ASSUME NEW b \in Bookings, GraceEnds(b) \/ ExtendDue(b) PROVE TypeOK'
  <2>1. overdue' \in [Bookings -> BOOLEAN]
    <3>1. PICK late \in BOOLEAN : overdue' = [overdue EXCEPT ![b] = late]
      BY <1>20 DEF GraceEnds, ExtendDue
    <3> QED
      BY <3>1, Zenon DEF TypeOK
  <2> QED
    BY <1>20, <2>1 DEF GraceEnds, ExtendDue, TypeOK
<1>21. ASSUME NEW b \in Bookings, MarkBalancePaid(b) PROVE TypeOK'
  <2>1. Total[b] - paid[b] \in Nat
    <3>1. paid[b] < Total[b]
      BY <1>21 DEF MarkBalancePaid
    <3>2. Total[b] \in Nat /\ paid[b] \in Nat
      BY AmountsAssumption DEF TypeOK
    <3> QED
      BY <3>1, <3>2
  <2>2. offline' \in [Bookings -> Nat]
    <3> DEFINE rest == Total[b] - paid[b]
    <3>1. offline' = [offline EXCEPT ![b] = offline[b] + rest] /\ rest \in Nat
      BY <1>21, <2>1 DEF MarkBalancePaid
    <3> HIDE DEF rest
    <3> QED
      BY <3>1 DEF TypeOK
  <2>3. Settle(b, Total[b] - paid[b], clock) /\ row' = row
    BY <1>21 DEF MarkBalancePaid
  <2> QED
    BY <2>1, <2>2, <2>3, SettleTypes DEF TypeOK
<1>22. ASSUME NEW b \in Bookings, NEW r \in 0..paid[b], CancelOverdue(b, r) PROVE TypeOK'
  <2>1. /\ paid[b] \in Nat /\ r \in Nat /\ refunded[b] \in Nat /\ paid[b] - r \in Nat
    BY DEF TypeOK
  <2>2. /\ kept' \in [Bookings -> Nat] /\ paid' \in [Bookings -> Nat]
        /\ refunded' \in [Bookings -> Nat]
    BY <1>22, <2>1 DEF CancelOverdue, CancelForBalance, TypeOK
  <2>3. aside' \in [Departures -> 0..MaxAside]
    BY <1>22, WalkTypes DEF CancelOverdue, CancelForBalance
  <2> QED
    BY <1>22, <2>2, <2>3 DEF CancelOverdue, CancelForBalance, TypeOK, Statuses, Reasons
<1>15. ASSUME NEW p \in Payments, PayFails(p) PROVE TypeOK'
  BY <1>15 DEF PayFails, TypeOK, rowVars
<1>16. ASSUME NEW p \in Payments, Pay(p) PROVE TypeOK'
  BY <1>16 DEF Pay, TypeOK, rowVars
<1>17. ASSUME NEW p \in Payments, RecordFailed(p) PROVE TypeOK'
  BY <1>17 DEF RecordFailed, TypeOK, rowVars
<1>18. ASSUME NEW p \in Payments, NEW t \in Began, Capture(p, t) PROVE TypeOK'
  <2>1. PaymentOf[p] \in Bookings /\ Ask[PaymentOf[p]] \in Nat
    BY AmountsAssumption
  <2> QED
    BY <1>18, <2>1, SettleTypes DEF Capture, TypeOK
<1>19. CASE UNCHANGED vars
  BY <1>19 DEF vars, TypeOK
<1> QED
  BY <1>1, <1>2, <1>3, <1>4, <1>5, <1>6, <1>7, <1>8, <1>9, <1>10, <1>11, <1>12,
     <1>13, <1>14, <1>15, <1>16, <1>17, <1>18, <1>19, <1>20, <1>21, <1>22 DEF Next

-----------------------------------------------------------------------------
(* The invariant about money.                                               *)

\* Money lands on bookings that exist, enough for their order.
LEMMA CaptureSettles ==
  ASSUME MoneyInv, NEW p \in Payments, NEW t, Capture(p, t)
  PROVE  /\ PaymentOf[p] \in Bookings /\ Ask[PaymentOf[p]] \in Nat
         /\ status[PaymentOf[p]] # "none"
         /\ Settle(PaymentOf[p], Ask[PaymentOf[p]], t)
BY RowsAssumption, AmountsAssumption DEF Capture, MoneyInv, OrdersExist

\* An offline payment is the whole price of a booking that held nothing.
LEMMA MarkPaidSettles ==
  ASSUME MoneyInv, NEW b \in Bookings, MarkPaid(b)
  PROVE  /\ Total[b] - paid[b] \in Nat /\ Total[b] - paid[b] >= Ask[b]
         /\ status[b] # "none"
         /\ Settle(b, Total[b] - paid[b], clock)
<1>1. AwaitingPayment(b) /\ Settle(b, Total[b] - paid[b], clock)
  BY DEF MarkPaid
<1>2. paid[b] = 0 /\ status[b] # "none"
  BY <1>1 DEF MoneyInv, MoneyHasAHome, AwaitingPayment
<1>3. Total[b] \in Nat /\ Ask[b] \in Nat /\ Ask[b] <= Total[b]
  BY AmountsAssumption
<1> QED
  BY <1>1, <1>2, <1>3

\* The balance paid offline is what a part-paid booking still lacks.
LEMMA MarkBalanceSettles ==
  ASSUME MoneyInv, NEW b \in Bookings, MarkBalancePaid(b)
  PROVE  /\ Total[b] - paid[b] \in Nat
         /\ status[b] # "none" /\ ~ AwaitingPayment(b)
         /\ Settle(b, Total[b] - paid[b], clock)
<1>1. /\ status[b] = "partially_paid" /\ paid[b] < Total[b]
      /\ Settle(b, Total[b] - paid[b], clock)
  BY DEF MarkBalancePaid
<1>2. Total[b] \in Nat /\ paid[b] \in Nat
  BY AmountsAssumption DEF MoneyInv, TypeOK
<1> QED
  BY <1>1, <1>2 DEF AwaitingPayment

\* A settlement keeps every booking's money at home.
LEMMA SettleKeepsHome ==
  ASSUME MoneyInv, NEW b \in Bookings, NEW amount \in Nat, NEW t,
         status[b] # "none", AwaitingPayment(b) => amount >= Ask[b],
         Settle(b, amount, t)
  PROVE  MoneyHasAHome' /\ KeptOnlyWhenFinal' /\ OrdersExist'
<1>1. kept' = kept /\ call' = call /\ rzp' = rzp
  BY DEF Settle
<1>2. MoneyHasAHome'
  <2> SUFFICES ASSUME NEW c \in Bookings
               PROVE  /\ status'[c] \in Sold => Ask[c] <= paid'[c] /\ paid'[c] <= Total[c]
                      /\ status'[c] \in {"confirmed", "completed"} => paid'[c] = Total[c]
                      /\ status'[c] = "partially_paid" => paid'[c] < Total[c]
                      /\ status'[c] = "cancelled" /\ reason'[c] # "hold_expired"
                           => paid'[c] = kept'[c]
                      /\ status'[c] = "none" \/ AwaitingPayment(c)' => paid'[c] = 0
    BY DEF MoneyHasAHome
  <2>1. CASE c = b
    BY <2>1, <1>1, SettleMoney DEF AwaitingPayment
  <2>2. CASE c # b
    <3>1. status'[c] = status[c] /\ reason'[c] = reason[c] /\ paid'[c] = paid[c]
      BY <2>2, SettleMoney
    <3>2. AwaitingPayment(c)' <=> AwaitingPayment(c)
      BY <3>1 DEF AwaitingPayment
    <3> QED
      BY <3>1, <3>2, <1>1 DEF MoneyInv, MoneyHasAHome
  <2> QED
    BY <2>1, <2>2
<1>3. KeptOnlyWhenFinal'
  <2> SUFFICES ASSUME NEW c \in Bookings,
                      status'[c] # "cancelled" \/ reason'[c] = "hold_expired"
               PROVE  kept[c] = 0
    BY <1>1 DEF KeptOnlyWhenFinal
  <2>1. CASE c = b
    BY <2>1, SettleMoney
  <2>2. CASE c # b
    <3>1. status'[c] = status[c] /\ reason'[c] = reason[c]
      BY <2>2, SettleMoney
    <3> QED
      BY <3>1 DEF MoneyInv, KeptOnlyWhenFinal
  <2> QED
    BY <2>1, <2>2
<1>4. OrdersExist'
  <2>1. ASSUME NEW c \in Bookings, status[c] # "none" PROVE status'[c] # "none"
    BY <2>1, SettleMoney
  <2> QED
    BY <2>1, <1>1 DEF MoneyInv, OrdersExist
<1> QED
  BY <1>2, <1>3, <1>4

LEMMA MoneyInit == Init => MoneyInv
BY TypeInit DEF Init, MoneyInv, MoneyHasAHome, KeptOnlyWhenFinal, OrdersExist, Sold

\* Every step keeps the money at home.
LEMMA MoneyStep == MoneyInv /\ [Next]_vars => MoneyInv'
<1> SUFFICES ASSUME MoneyInv, [Next]_vars
             PROVE  MoneyInv'
  OBVIOUS
<1>0. TypeOK'
  BY TypeStep
<1> DEFINE Home == MoneyHasAHome /\ KeptOnlyWhenFinal /\ OrdersExist
<1>a. ASSUME UNCHANGED <<status, reason, paid, kept, call, rzp>> PROVE Home'
  BY <1>a DEF MoneyInv, MoneyHasAHome, KeptOnlyWhenFinal, OrdersExist, AwaitingPayment
<1>1. ASSUME Tick PROVE Home'
  BY <1>1, <1>a DEF Tick, rowVars
<1>2. ASSUME Sweep PROVE Home'
  <2>1. ASSUME NEW b \in Bookings
        PROVE  /\ \/ status'[b] = status[b] /\ reason'[b] = reason[b]
                  \/ /\ status[b] = "pending"
                     /\ status'[b] = "cancelled" /\ reason'[b] = "hold_expired"
                  \/ /\ status[b] = "confirmed" /\ status'[b] = "completed"
                     /\ reason'[b] = reason[b]
               /\ paid'[b] = paid[b] /\ kept'[b] = kept[b]
    BY <1>2 DEF Sweep, Expired, Departed
  <2>2. MoneyHasAHome' /\ KeptOnlyWhenFinal'
    BY <2>1 DEF MoneyInv, MoneyHasAHome, KeptOnlyWhenFinal, AwaitingPayment, Sold
  <2>3. OrdersExist'
    BY <1>2, <2>1 DEF Sweep, MoneyInv, OrdersExist
  <2> QED
    BY <2>2, <2>3
<1>3. ASSUME NEW d \in Departures, DayPasses(d) PROVE Home'
  BY <1>3, <1>a DEF DayPasses, rowVars
<1>4. ASSUME NEW d \in Departures, SetAside(d) PROVE Home'
  BY <1>4, <1>a DEF SetAside, rowVars
<1>5. ASSUME NEW d \in Departures, NEW n \in SeatTotals, SaveSeats(d, n) PROVE Home'
  BY <1>5, <1>a DEF SaveSeats, rowVars
<1>6. ASSUME NEW b \in Bookings,
             OrderOpened(b) \/ OrderLost(b) \/ \E t \in Began : OrderRefused(b, t)
      PROVE  Home'
  <2>1. /\ status' = status /\ reason' = reason /\ paid' = paid /\ kept' = kept
        /\ rzp' = rzp /\ call[b] = "calling"
        /\ \E end : call' = [call EXCEPT ![b] = end]
    BY <1>6 DEF OrderOpened, OrderLost, OrderRefused, rowVars
  <2>2. MoneyHasAHome' /\ KeptOnlyWhenFinal'
    BY <2>1 DEF MoneyInv, MoneyHasAHome, KeptOnlyWhenFinal, AwaitingPayment
  <2>3. OrdersExist'
    BY <2>1, RowsAssumption DEF MoneyInv, TypeOK, OrdersExist
  <2> QED
    BY <2>2, <2>3
<1>9. ASSUME NEW b \in Bookings, ReleaseHold(b) PROVE Home'
  <2>1. /\ status[b] = "pending"
        /\ status'[b] = "cancelled" /\ reason'[b] = "owner_released"
        /\ \A c \in Bookings \ {b} : status'[c] = status[c] /\ reason'[c] = reason[c]
        /\ paid' = paid /\ kept' = kept /\ call' = call /\ rzp' = rzp
    BY <1>9 DEF ReleaseHold, MoneyInv, TypeOK
  <2>2. MoneyHasAHome' /\ KeptOnlyWhenFinal'
    BY <2>1 DEF MoneyInv, MoneyHasAHome, KeptOnlyWhenFinal, AwaitingPayment, Sold
  <2>3. OrdersExist'
    BY <2>1 DEF MoneyInv, OrdersExist
  <2> QED
    BY <2>2, <2>3
<1>10. ASSUME NEW b \in Bookings, MarkPaid(b) PROVE Home'
  BY <1>10, MarkPaidSettles, SettleKeepsHome
<1>11. ASSUME NEW b \in Bookings,
              \/ RequestCancellation(b) \/ Reject(b) \/ GraceEnds(b) \/ ExtendDue(b)
       PROVE  Home'
  BY <1>11, <1>a DEF RequestCancellation, Reject, GraceEnds, ExtendDue
<1>12. ASSUME NEW b \in Bookings, MarkBalancePaid(b) PROVE Home'
  BY <1>12, MarkBalanceSettles, SettleKeepsHome
<1>13. ASSUME NEW b \in Bookings, NEW t \in Began, PlaceOrder(b, t) PROVE Home'
  <2>1. /\ status[b] = "none" /\ status'[b] = "pending"
        /\ \A c \in Bookings \ {b} : status'[c] = status[c] /\ call'[c] = call[c]
        /\ reason' = reason /\ paid' = paid /\ kept' = kept /\ rzp' = rzp
    BY <1>13 DEF PlaceOrder, MoneyInv, TypeOK
  <2>2. MoneyHasAHome' /\ KeptOnlyWhenFinal'
    BY <2>1 DEF MoneyInv, MoneyHasAHome, KeptOnlyWhenFinal, AwaitingPayment, Sold
  <2>3. call[b] = "none"
    BY <2>1 DEF MoneyInv, OrdersExist
  <2>4. OrdersExist'
    BY <2>1, <2>3, RowsAssumption DEF MoneyInv, OrdersExist
  <2> QED
    BY <2>2, <2>4
<1>14. ASSUME NEW b \in Bookings, NEW r \in 0..paid[b], Approve(b, r) PROVE Home'
  <2>1. /\ status[b] \in Sold /\ kept'[b] = paid'[b]
        /\ status'[b] = "cancelled" /\ reason'[b] = "cancellation_approved"
        /\ \A c \in Bookings \ {b} : /\ status'[c] = status[c] /\ reason'[c] = reason[c]
                                     /\ paid'[c] = paid[c] /\ kept'[c] = kept[c]
        /\ call' = call /\ rzp' = rzp
    BY <1>14 DEF Approve, Cancellable, Sold, MoneyInv, TypeOK
  <2>2. MoneyHasAHome' /\ KeptOnlyWhenFinal'
    BY <2>1 DEF MoneyInv, MoneyHasAHome, KeptOnlyWhenFinal, AwaitingPayment, Sold
  <2>3. OrdersExist'
    BY <2>1 DEF MoneyInv, OrdersExist, Sold
  <2> QED
    BY <2>2, <2>3
<1>16. ASSUME NEW b \in Bookings, NEW r \in 0..paid[b], CancelOverdue(b, r) PROVE Home'
  <2>1. /\ status[b] = "partially_paid" /\ kept'[b] = paid'[b]
        /\ status'[b] = "cancelled" /\ reason'[b] = "balance_unpaid"
        /\ \A c \in Bookings \ {b} : /\ status'[c] = status[c] /\ reason'[c] = reason[c]
                                     /\ paid'[c] = paid[c] /\ kept'[c] = kept[c]
        /\ call' = call /\ rzp' = rzp
    BY <1>16 DEF CancelOverdue, CancelForBalance, MoneyInv, TypeOK
  <2>2. MoneyHasAHome' /\ KeptOnlyWhenFinal'
    BY <2>1 DEF MoneyInv, MoneyHasAHome, KeptOnlyWhenFinal, AwaitingPayment, Sold
  <2>3. OrdersExist'
    BY <2>1 DEF MoneyInv, OrdersExist
  <2> QED
    BY <2>2, <2>3
<1>15. ASSUME NEW p \in Payments, PayFails(p) \/ Pay(p) PROVE Home'
  <2>1. /\ call[PaymentOf[p]] = "open" /\ call' = call
        /\ \A q \in Payments \ {p} : rzp'[q] = rzp[q]
        /\ status' = status /\ reason' = reason /\ paid' = paid /\ kept' = kept
    BY <1>15 DEF PayFails, Pay, rowVars, MoneyInv, TypeOK
  <2>2. MoneyHasAHome' /\ KeptOnlyWhenFinal'
    BY <2>1 DEF MoneyInv, MoneyHasAHome, KeptOnlyWhenFinal, AwaitingPayment
  <2>3. OrdersExist'
    BY <2>1 DEF MoneyInv, OrdersExist
  <2> QED
    BY <2>2, <2>3
<1>17. ASSUME NEW p \in Payments, RecordFailed(p) PROVE Home'
  BY <1>17, <1>a DEF RecordFailed, rowVars
<1>18. ASSUME NEW p \in Payments, NEW t \in Began, Capture(p, t) PROVE Home'
  <2>1. Ask[PaymentOf[p]] >= Ask[PaymentOf[p]]
    BY <1>18, CaptureSettles
  <2> QED
    BY <1>18, <2>1, CaptureSettles, SettleKeepsHome
<1>19. ASSUME UNCHANGED vars PROVE Home'
  BY <1>19, <1>a DEF vars
<1>20. Home'
  <2> HIDE DEF Home
  <2> QED
    BY <1>1, <1>2, <1>3, <1>4, <1>5, <1>6, <1>9, <1>10, <1>11, <1>12, <1>13, <1>14,
       <1>15, <1>16, <1>17, <1>18, <1>19 DEF Next
<1> QED
  BY <1>0, <1>20 DEF MoneyInv

\* Every row and clock stays in its range.
THEOREM TypeCorrect == Spec => []TypeOK
<1>1. MoneyInv => TypeOK
  BY DEF MoneyInv
<1> QED
  BY <1>1, MoneyInit, MoneyStep, PTL DEF Spec

\* For every number of bookings, payments and amounts: seats are behind money
\* paid for them, and money held has a booking behind it or a decision to keep
\* it (settle_capture, resolve_cancellation, plan_refund).
THEOREM MoneyStaysAtHome == Spec => []MoneyHasAHome
<1>1. MoneyInv => MoneyHasAHome
  BY DEF MoneyInv
<1> QED
  BY <1>1, MoneyInit, MoneyStep, PTL DEF Spec

-----------------------------------------------------------------------------
(* Conservation of money.                                                   *)

\* A newly captured payment is one more of its booking's captured payments,
\* and of nobody else's.
LEMMA OneMoreCaptured ==
  ASSUME TypeOK, NEW p \in Payments, row[p] # "captured",
         row' = [row EXCEPT ![p] = "captured"]
  PROVE  /\ Cardinality(CapturedOf(PaymentOf[p])) \in Nat
         /\ Cardinality(CapturedOf(PaymentOf[p]))'
              = Cardinality(CapturedOf(PaymentOf[p])) + 1
         /\ \A c \in Bookings \ {PaymentOf[p]} : CapturedOf(c)' = CapturedOf(c)
<1> DEFINE b == PaymentOf[p]
<1>1. IsFiniteSet(CapturedOf(b))
  BY RowsAssumption, FS_Subset DEF CapturedOf
<1>2. CapturedOf(b)' = CapturedOf(b) \union {p} /\ p \notin CapturedOf(b)
  BY DEF CapturedOf, TypeOK
<1>3. \A c \in Bookings \ {b} : CapturedOf(c)' = CapturedOf(c)
  BY DEF CapturedOf, TypeOK
<1> QED
  BY <1>1, <1>2, <1>3, FS_AddElement, FS_CardinalityType

LEMMA AccountedInit == Init => MoneyAccounted
<1> SUFFICES ASSUME Init, NEW b \in Bookings
             PROVE  paid[b] + refunded[b] = offline[b] + Ask[b] * Cardinality(CapturedOf(b))
  BY DEF MoneyAccounted
<1>1. CapturedOf(b) = {}
  BY DEF Init, CapturedOf
<1>2. Cardinality(CapturedOf(b)) = 0
  BY <1>1, FS_EmptySet
<1>3. Ask[b] \in Nat
  BY AmountsAssumption
<1> QED
  BY <1>2, <1>3 DEF Init

\* Every step moves as much money into what is held and refunded as it
\* captures or records.
LEMMA AccountedStep == MoneyInv /\ MoneyAccounted /\ [Next]_vars => MoneyAccounted'
<1> SUFFICES ASSUME MoneyInv, MoneyAccounted, [Next]_vars
             PROVE  MoneyAccounted'
  OBVIOUS
<1>0. TypeOK
  BY DEF MoneyInv
<1>1. ASSUME UNCHANGED <<paid, refunded, offline>>,
             \A b \in Bookings : CapturedOf(b)' = CapturedOf(b)
      PROVE  MoneyAccounted'
  BY <1>1 DEF MoneyAccounted
<1>2. ASSUME UNCHANGED <<paid, refunded, offline, row>> PROVE MoneyAccounted'
  BY <1>1, <1>2 DEF CapturedOf
<1>3. ASSUME \/ Tick \/ Sweep
             \/ \E d \in Departures : DayPasses(d) \/ SetAside(d)
             \/ \E d \in Departures, n \in SeatTotals : SaveSeats(d, n)
      PROVE  MoneyAccounted'
  BY <1>2, <1>3 DEF Tick, Sweep, DayPasses, SetAside, SaveSeats, rowVars
<1>4. ASSUME \E b \in Bookings : \/ OrderOpened(b) \/ OrderLost(b)
                                 \/ ReleaseHold(b) \/ RequestCancellation(b) \/ Reject(b)
                                 \/ GraceEnds(b) \/ ExtendDue(b)
      PROVE  MoneyAccounted'
  BY <1>2, <1>4 DEF OrderOpened, OrderLost, ReleaseHold, RequestCancellation, Reject,
                    GraceEnds, ExtendDue, rowVars
<1>5. ASSUME \/ \E b \in Bookings, t \in Began : PlaceOrder(b, t) \/ OrderRefused(b, t)
             \/ \E p \in Payments : PayFails(p) \/ Pay(p)
             \/ UNCHANGED vars
      PROVE  MoneyAccounted'
  BY <1>2, <1>5 DEF PlaceOrder, OrderRefused, PayFails, Pay, rowVars, vars
<1>6. ASSUME NEW p \in Payments, RecordFailed(p) PROVE MoneyAccounted'
  <2>1. UNCHANGED <<paid, refunded, offline>>
    BY <1>6 DEF RecordFailed, rowVars
  <2>2. \A b \in Bookings : CapturedOf(b)' = CapturedOf(b)
    BY <1>0, <1>6 DEF RecordFailed, CapturedOf, TypeOK
  <2> QED
    BY <1>1, <2>1, <2>2
<1>7. ASSUME NEW b \in Bookings, MarkPaid(b) \/ MarkBalancePaid(b)
      PROVE  MoneyAccounted'
  <2> DEFINE rest == Total[b] - paid[b]
  <2>1. /\ rest \in Nat /\ (AwaitingPayment(b) => rest >= Ask[b])
        /\ status[b] # "none" /\ Settle(b, rest, clock)
    BY <1>7, MarkPaidSettles, MarkBalanceSettles
  <2>2. /\ offline' = [offline EXCEPT ![b] = offline[b] + rest]
        /\ row' = row
    BY <1>7 DEF MarkPaid, MarkBalancePaid
  <2> HIDE DEF rest
  <2>3. /\ paid'[b] + refunded'[b] = paid[b] + refunded[b] + rest
        /\ \A c \in Bookings \ {b} : paid'[c] = paid[c] /\ refunded'[c] = refunded[c]
    BY <2>1, SettleMoney
  <2>4. /\ offline'[b] = offline[b] + rest
        /\ \A c \in Bookings \ {b} : offline'[c] = offline[c]
    BY <1>0, <2>2 DEF TypeOK
  <2> SUFFICES ASSUME NEW c \in Bookings
               PROVE  paid'[c] + refunded'[c]
                        = offline'[c] + Ask[c] * Cardinality(CapturedOf(c))'
    BY DEF MoneyAccounted
  <2>5. CapturedOf(c)' = CapturedOf(c)
    BY <2>2 DEF CapturedOf
  <2>6. paid[c] + refunded[c] = offline[c] + Ask[c] * Cardinality(CapturedOf(c))
    BY DEF MoneyAccounted
  <2>7. CASE c # b
    BY <2>3, <2>4, <2>5, <2>6, <2>7
  <2>8. CASE c = b
    <3>1. /\ Ask[b] * Cardinality(CapturedOf(b)) \in Int /\ offline[b] \in Nat
      <4>1. IsFiniteSet(CapturedOf(b))
        BY RowsAssumption, FS_Subset DEF CapturedOf
      <4>2. Cardinality(CapturedOf(b)) \in Nat /\ Ask[b] \in Nat
        BY <4>1, FS_CardinalityType, AmountsAssumption
      <4> QED
        BY <4>2, <1>0 DEF TypeOK
    <3> DEFINE captured == Ask[b] * Cardinality(CapturedOf(b))
    <3>2. /\ paid[b] + refunded[b] = offline[b] + captured /\ captured \in Int
          /\ Ask[b] * Cardinality(CapturedOf(b))' = captured
      BY <3>1, <2>5, <2>6, <2>8
    <3> HIDE DEF captured
    <3> QED
      BY <3>1, <3>2, <2>1, <2>3, <2>4, <2>8
  <2> QED
    BY <2>7, <2>8
<1>8. ASSUME NEW b \in Bookings, NEW r \in 0..paid[b], Approve(b, r)
      PROVE  MoneyAccounted'
  <2>1. PICK keeps \in Nat :
          /\ keeps <= paid[b]
          /\ paid' = [paid EXCEPT ![b] = keeps]
          /\ refunded' = [refunded EXCEPT ![b] = refunded[b] + (paid[b] - keeps)]
    <3> DEFINE price == IF paid[b] < Total[b] THEN paid[b] ELSE Total[b]
               keeps == IF price > r THEN price - r ELSE 0
    <3>1. paid[b] \in Nat /\ Total[b] \in Nat /\ r \in Nat
      BY <1>0, AmountsAssumption DEF TypeOK
    <3>2. keeps \in Nat /\ keeps <= paid[b]
      BY <3>1
    <3>3. /\ paid' = [paid EXCEPT ![b] = keeps]
          /\ refunded' = [refunded EXCEPT ![b] = refunded[b] + (paid[b] - keeps)]
      BY <1>8 DEF Approve
    <3> HIDE DEF keeps
    <3> QED
      BY <3>2, <3>3
  <2>2. offline' = offline /\ row' = row
    BY <1>8 DEF Approve
  <2>3. \A c \in Bookings : paid'[c] + refunded'[c] = paid[c] + refunded[c]
    BY <1>0, <2>1 DEF TypeOK
  <2>4. \A c \in Bookings : CapturedOf(c)' = CapturedOf(c)
    BY <2>2 DEF CapturedOf
  <2> QED
    BY <2>2, <2>3, <2>4 DEF MoneyAccounted
<1>10. ASSUME NEW b \in Bookings, NEW r \in 0..paid[b], CancelOverdue(b, r)
       PROVE  MoneyAccounted'
  <2>1. /\ offline' = offline /\ row' = row
        /\ paid' = [paid EXCEPT ![b] = paid[b] - r]
        /\ refunded' = [refunded EXCEPT ![b] = refunded[b] + r]
    BY <1>10 DEF CancelOverdue, CancelForBalance
  <2>2. \A c \in Bookings : paid'[c] + refunded'[c] = paid[c] + refunded[c]
    BY <1>0, <2>1 DEF TypeOK
  <2>3. \A c \in Bookings : CapturedOf(c)' = CapturedOf(c)
    BY <2>1 DEF CapturedOf
  <2> QED
    BY <2>1, <2>2, <2>3 DEF MoneyAccounted
<1>9. ASSUME NEW p \in Payments, NEW t \in Began, Capture(p, t) PROVE MoneyAccounted'
  <2> DEFINE b == PaymentOf[p]
  <2>1. b \in Bookings /\ Ask[b] \in Nat /\ status[b] # "none" /\ Settle(b, Ask[b], t)
    BY <1>9, CaptureSettles
  <2>2. /\ row[p] # "captured" /\ row' = [row EXCEPT ![p] = "captured"]
        /\ offline' = offline
    BY <1>9 DEF Capture
  <2>3. /\ paid'[b] + refunded'[b] = paid[b] + refunded[b] + Ask[b]
        /\ \A c \in Bookings \ {b} : paid'[c] = paid[c] /\ refunded'[c] = refunded[c]
    <3>1. Ask[b] >= Ask[b]
      BY <2>1
    <3> QED
      BY <2>1, <3>1, SettleMoney
  <2> DEFINE n == Cardinality(CapturedOf(b))
             m == Cardinality(CapturedOf(b))'
  <2>4. /\ n \in Nat /\ m = n + 1
        /\ \A c \in Bookings \ {b} : CapturedOf(c)' = CapturedOf(c)
    BY <1>0, <2>2, OneMoreCaptured
  <2>5. paid[b] + refunded[b] = offline[b] + Ask[b] * n
    BY <2>1 DEF MoneyAccounted
  <2>6. paid'[b] + refunded'[b] = offline'[b] + Ask[b] * m
    <3>1. offline[b] \in Nat
      BY <1>0, <2>1 DEF TypeOK
    <3> HIDE DEF b, n, m
    <3>2. Ask[b] * m = Ask[b] * n + Ask[b]
      BY <2>1, <2>4
    <3>3. Ask[b] * n \in Int
      BY <2>1, <2>4
    <3> QED
      BY <2>1, <2>2, <2>3, <2>5, <3>1, <3>2, <3>3
  <2>7. \A c \in Bookings \ {b} :
          paid'[c] + refunded'[c] = offline'[c] + Ask[c] * Cardinality(CapturedOf(c))'
    BY <2>2, <2>3, <2>4 DEF MoneyAccounted
  <2> QED
    BY <2>6, <2>7 DEF MoneyAccounted
<1> QED
  BY <1>3, <1>4, <1>5, <1>6, <1>7, <1>8, <1>9, <1>10 DEF Next

\* Conservation: whatever order captures, replays, failure events, offline
\* payments and decisions come in, what a booking holds and what its refund
\* rows give back are what its payments captured.
THEOREM MoneyIsAccounted == Spec => []MoneyAccounted
BY AccountedInit, AccountedStep, MoneyInit, MoneyStep, PTL DEF Spec

-----------------------------------------------------------------------------
(* Final cancellations and sold seats.                                      *)

\* What becomes of one booking in one step: it is left alone, or one of the
\* handlers that write it takes it from a status to another.
LEMMA BookingStep ==
  ASSUME MoneyInv, [Next]_vars, NEW b \in Bookings
  PROVE  \/ /\ status'[b] = status[b] /\ reason'[b] = reason[b]
            /\ paid'[b] = paid[b] /\ kept'[b] = kept[b]
         \/ status[b] = "none" /\ status'[b] = "pending"
         \/ /\ status[b] = "pending" /\ status'[b] = "cancelled"
         \/ /\ status[b] = "confirmed" /\ status'[b] = "completed"
            /\ asked[b] # "requested" /\ paid[b] = Total[b]
         \/ /\ status[b] \in Cancellable /\ status'[b] = "cancelled"
            /\ asked[b] = "requested" /\ asked'[b] = "approved"
            /\ reason'[b] = "cancellation_approved"
         \/ /\ status[b] = "partially_paid" /\ status'[b] = "cancelled"
            /\ asked[b] # "requested" /\ overdue[b] /\ paid[b] < Total[b]
            /\ reason'[b] = "balance_unpaid"
         \/ /\ status[b] = "cancelled" /\ reason[b] # "hold_expired"
              => /\ status'[b] = status[b] /\ reason'[b] = reason[b]
                 /\ paid'[b] = paid[b]
            /\ status[b] \in Sold => status'[b] \in Sold
            /\ status'[b] = "completed" => status[b] = "completed"
            /\ kept'[b] = kept[b]
<1> DEFINE Alone == /\ status'[b] = status[b] /\ reason'[b] = reason[b]
                    /\ paid'[b] = paid[b] /\ kept'[b] = kept[b]
<1>1. ASSUME \/ Tick \/ UNCHANGED vars
             \/ \E d \in Departures : DayPasses(d) \/ SetAside(d)
             \/ \E d \in Departures, n \in SeatTotals : SaveSeats(d, n)
             \/ \E c \in Bookings : \/ OrderOpened(c) \/ OrderLost(c)
                                    \/ RequestCancellation(c) \/ Reject(c)
                                    \/ GraceEnds(c) \/ ExtendDue(c)
             \/ \E c \in Bookings, t \in Began : OrderRefused(c, t)
             \/ \E p \in Payments : PayFails(p) \/ Pay(p) \/ RecordFailed(p)
      PROVE  Alone
  BY <1>1 DEF Tick, vars, DayPasses, SetAside, SaveSeats, OrderOpened, OrderLost,
              OrderRefused, RequestCancellation, Reject, GraceEnds, ExtendDue,
              PayFails, Pay, RecordFailed, rowVars
<1>2. ASSUME Sweep
      PROVE  \/ Alone
             \/ status[b] = "pending" /\ status'[b] = "cancelled"
             \/ /\ status[b] = "confirmed" /\ status'[b] = "completed"
                /\ asked[b] # "requested" /\ paid[b] = Total[b]
  BY <1>2 DEF Sweep, Expired, Departed, MoneyInv, MoneyHasAHome
<1>3. ASSUME NEW c \in Bookings, ReleaseHold(c)
      PROVE  Alone \/ (status[b] = "pending" /\ status'[b] = "cancelled")
  BY <1>3 DEF ReleaseHold, MoneyInv, TypeOK
<1>4. ASSUME NEW c \in Bookings, NEW t \in Began, PlaceOrder(c, t)
      PROVE  Alone \/ (status[b] = "none" /\ status'[b] = "pending")
  BY <1>4 DEF PlaceOrder, MoneyInv, TypeOK
<1>5. ASSUME NEW c \in Bookings, NEW r \in 0..paid[c], Approve(c, r)
      PROVE  \/ Alone
             \/ /\ status[b] \in Cancellable /\ status'[b] = "cancelled"
                /\ asked[b] = "requested" /\ asked'[b] = "approved"
                /\ reason'[b] = "cancellation_approved"
  BY <1>5 DEF Approve, MoneyInv, TypeOK
<1>9. ASSUME NEW c \in Bookings, NEW r \in 0..paid[c], CancelOverdue(c, r)
      PROVE  \/ Alone
             \/ /\ status[b] = "partially_paid" /\ status'[b] = "cancelled"
                /\ asked[b] # "requested" /\ overdue[b] /\ paid[b] < Total[b]
                /\ reason'[b] = "balance_unpaid"
  BY <1>9 DEF CancelOverdue, CancelForBalance, MoneyInv, MoneyHasAHome, TypeOK
<1>6. ASSUME NEW c \in Bookings, NEW amount \in Nat, NEW t, status[c] # "none",
             AwaitingPayment(c) => amount >= Ask[c], Settle(c, amount, t)
      PROVE  \/ Alone
             \/ /\ status[b] = "cancelled" /\ reason[b] # "hold_expired"
                  => /\ status'[b] = status[b] /\ reason'[b] = reason[b]
                     /\ paid'[b] = paid[b]
                /\ status[b] \in Sold => status'[b] \in Sold
                /\ status'[b] = "completed" => status[b] = "completed"
                /\ kept'[b] = kept[b]
  <2>1. kept' = kept
    BY <1>6 DEF Settle
  <2>2. CASE c = b
    BY <1>6, <2>1, <2>2, SettleMoney
  <2>3. CASE c # b
    BY <1>6, <2>1, <2>3, SettleMoney
  <2> QED
    BY <2>2, <2>3
<1>7. CASE \E c \in Bookings : MarkPaid(c) \/ MarkBalancePaid(c)
  BY <1>6, <1>7, MarkPaidSettles, MarkBalanceSettles
<1>8. CASE \E p \in Payments, t \in Began : Capture(p, t)
  <2>1. PICK p \in Payments, t \in Began : Capture(p, t)
    BY <1>8
  <2>2. /\ PaymentOf[p] \in Bookings /\ Ask[PaymentOf[p]] \in Nat
        /\ status[PaymentOf[p]] # "none" /\ Settle(PaymentOf[p], Ask[PaymentOf[p]], t)
        /\ Ask[PaymentOf[p]] >= Ask[PaymentOf[p]]
    BY <2>1, CaptureSettles
  <2> QED
    BY <1>6, <2>2
<1> QED
  BY <1>1, <1>2, <1>3, <1>4, <1>5, <1>7, <1>8, <1>9 DEF Next

\* A booking cancelled for good is never revived by money that lands late, and
\* keeps exactly what the decision kept.
THEOREM CancellationsStand == Spec => FinalCancellationStands
<1>1. MoneyInv /\ [Next]_vars
        => \A b \in Bookings :
             status[b] = "cancelled" /\ reason[b] # "hold_expired"
               => /\ status'[b] = status[b] /\ reason'[b] = reason[b]
                  /\ kept'[b] = kept[b] /\ paid'[b] = paid[b]
  BY BookingStep DEF Cancellable
<1> QED
  BY <1>1, MoneyInit, MoneyStep, PTL DEF Spec, FinalCancellationStands

\* Paid seats are lost only by approving a request, or by the daily tidy on a
\* part-paid booking past its grace with no request open; trips end only when
\* paid in full and with no request open.
THEOREM SoldStaysSold == Spec => SoldSeatsStand
<1>1. MoneyInv /\ [Next]_vars
        => \A b \in Bookings :
             /\ status[b] \in Sold /\ status'[b] \notin Sold
                  => \/ /\ asked[b] = "requested" /\ asked'[b] = "approved"
                        /\ reason'[b] = "cancellation_approved"
                     \/ /\ asked[b] # "requested" /\ overdue[b]
                        /\ status[b] = "partially_paid" /\ paid[b] < Total[b]
                        /\ reason'[b] = "balance_unpaid"
             /\ status'[b] = "completed" /\ status[b] # "completed"
                  => asked[b] # "requested" /\ paid[b] = Total[b]
  BY BookingStep DEF Sold
<1> QED
  BY <1>1, MoneyInit, MoneyStep, PTL DEF Spec, SoldSeatsStand

=============================================================================
