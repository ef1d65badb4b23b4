---------------------------- MODULE BookingOrders ----------------------------
(***************************************************************************)
(* A web booking from the seat hold to the money that settles it: the      *)
(* order (services/booking/orders.py), the captures that land on it        *)
(* (payments.py, webhook.py), the desk's mark-paid and release (desk.py),  *)
(* a cancellation request and its decision (account.py, resolve.py), the   *)
(* balance of a deposit booking (balance.py) and the daily sweep           *)
(* (sweep.py).                                                             *)
(*                                                                         *)
(* Every handler that decides about seats runs under the departure's row   *)
(* lock, so its effects are one step; the calls to Razorpay happen between *)
(* such steps.  What stays visible inside a step is the clock: a           *)
(* transaction compares holds with now(), the time it BEGAN, and only      *)
(* lock_booking with clock_timestamp(), the time it got its locks.         *)
(***************************************************************************)
EXTENDS Integers, FiniteSets

CONSTANTS
  Bookings,      (* booking rows that may come to exist                     *)
  Travellers,    (* booking_travellers rows                                 *)
  Departures,    (* departures rows                                         *)
  Payments,      (* Razorpay payment ids: attempts to pay a booking's order *)
  BookingOf,     (* traveller -> the booking it is on                       *)
  DepartureOf,   (* booking -> its departure                                *)
  Email, Phone,  (* booking -> contact_email, contact_phone                 *)
  Total, Ask,    (* booking -> total_paise, and what its order asks for:    *)
                 (* deposit_paise, or the total when it is paid in full     *)
  PaymentOf,     (* payment -> the booking whose order it pays              *)
  SeatTotals,    (* the seats_total values the owner may save               *)
  Hold,          (* HOLD, orders.py: the length of a seat hold              *)
  LapsedFor,     (* LAPSED_FOR, sweep.py: how long lapsed before the sweep  *)
  MaxWait,       (* bound: how long a transaction waits for its locks       *)
  MaxClock,      (* bound: the last instant at which an order may begin     *)
  MaxAside,      (* bound: the seats offers and date changes may set aside  *)
  Attended,      (* bound: the bookings the desk and a cancellation request *)
                 (* touch                                                   *)
  Passing        (* bound: the departures whose date comes nearer           *)

ASSUME RowsAssumption ==
  /\ IsFiniteSet(Travellers) /\ IsFiniteSet(Payments)
  /\ BookingOf \in [Travellers -> Bookings]
  /\ DepartureOf \in [Bookings -> Departures]
  /\ \A b \in Bookings : \E x \in Travellers : BookingOf[x] = b
  /\ PaymentOf \in [Payments -> Bookings]
  /\ SeatTotals \subseteq Nat

ASSUME AmountsAssumption ==
  /\ Total \in [Bookings -> Nat \ {0}]
  /\ Ask \in [Bookings -> Nat \ {0}]
  /\ \A b \in Bookings : Ask[b] <= Total[b]

ASSUME TimesAssumption ==
  /\ Hold \in Nat \ {0}
  /\ LapsedFor \in Nat /\ MaxWait \in Nat /\ MaxClock \in Nat /\ MaxAside \in Nat

VARIABLES
  clock,     (* the database clock                                          *)
  day,       (* departure -> where its date is: bookable, soon or past      *)
  seats,     (* departure -> seats_total                                    *)
  aside,     (* departure -> seats set aside by unexpired waitlist offers   *)
             (* and by held date changes (other components' rows)           *)
  status,    (* booking -> status, "none" before the row exists             *)
  reason,    (* booking -> cancel_reason                                    *)
  hold,      (* booking -> hold_expires_at                                  *)
  paid,      (* booking -> paid_paise                                       *)
  kept,      (* booking -> kept_paise                                       *)
  refunded,  (* booking -> the sum of its refund rows                       *)
  offline,   (* booking -> what mark_paid recorded as an offline payment    *)
  asked,     (* booking -> its booking_cancellations row's status           *)
  overdue,   (* booking -> its balance_due_on and the grace are past        *)
  call,      (* booking -> where its create_booking_order call is           *)
  released,  (* booking -> the holds that call released, with their old     *)
             (* expiry (0: not released): Released, in the request's memory *)
  rzp,       (* payment -> what happened to it at Razorpay                  *)
  takenAt,   (* payment -> when Razorpay captured it                        *)
  row        (* payment -> the status of its payments row                   *)

rowVars == <<status, reason, hold, paid, kept, refunded, offline, asked, overdue>>
vars == <<clock, day, seats, aside, status, reason, hold, paid, kept,
          refunded, offline, asked, overdue, call, released, rzp, takenAt, row>>

Statuses == {"none", "pending", "partially_paid", "confirmed", "completed", "cancelled"}
Reasons  == {"none", "hold_expired", "seats_gone", "owner_released",
             "cancellation_approved", "balance_unpaid"}
Sold     == {"partially_paid", "confirmed", "completed"}
Cancellable == {"partially_paid", "confirmed"}

-----------------------------------------------------------------------------
(* Seats: the view departure_availability and the checks made on it.        *)

\* The bookings whose travellers the view counts, in a transaction begun at t.
Holding(t) ==
  {b \in Bookings : status[b] \in Sold \/ (status[b] = "pending" /\ hold[b] > t)}

Party(b) == {x \in Travellers : BookingOf[x] = b}

\* The travellers on departure d of the bookings in B.
Seated(B, d) ==
  {x \in Travellers : BookingOf[x] \in B /\ DepartureOf[BookingOf[x]] = d}

SeatsLeft(B, d) ==
  LET left == seats[d] - Cardinality(Seated(B, d)) - aside[d]
  IN  IF left > 0 THEN left ELSE 0

Fits(B, b) == Cardinality(Party(b)) <= SeatsLeft(B, DepartureOf[b])

Live(b) == status[b] = "pending" /\ hold[b] > clock

\* Mutant of SeatsThere: a lapsed hold is not re-checked.
TrustsTheHold(b, t) == status[b] = "pending" \/ Fits(Holding(t), b)

\* seats_short = 0: a live hold already counts the party; otherwise the view,
\* as the transaction begun at t reads it, must have room for the party.
SeatsThere(b, t) == Live(b) \/ Fits(Holding(t), b)

SameContact(b, c) == Email[b] = Email[c] \/ Phone[b] = Phone[c]

\* When the transaction that now has its locks may have begun.
Began == {t \in 0..clock : clock - t <= MaxWait}

\* One waitlist walk on d when the bookings in B hold seats: lapsed offers end
\* and new ones are made only for seats that are free.
Walk(B, d) ==
  \E n \in 0..MaxAside :
    /\ n <= aside[d] \/ n + Cardinality(Seated(B, d)) <= seats[d]
    /\ aside' = [aside EXCEPT ![d] = n]

-----------------------------------------------------------------------------
Init ==
  /\ clock = 0
  /\ day = [d \in Departures |-> "bookable"]
  /\ seats \in [Departures -> SeatTotals]
  /\ aside = [d \in Departures |-> 0]
  /\ status = [b \in Bookings |-> "none"]
  /\ reason = [b \in Bookings |-> "none"]
  /\ hold = [b \in Bookings |-> 0]
  /\ paid = [b \in Bookings |-> 0]
  /\ kept = [b \in Bookings |-> 0]
  /\ refunded = [b \in Bookings |-> 0]
  /\ offline = [b \in Bookings |-> 0]
  /\ asked = [b \in Bookings |-> "none"]
  /\ overdue = [b \in Bookings |-> FALSE]
  /\ call = [b \in Bookings |-> "none"]
  /\ released = [b \in Bookings |-> [c \in Bookings |-> 0]]
  /\ rzp = [p \in Payments |-> "none"]
  /\ takenAt = [p \in Payments |-> 0]
  /\ row = [p \in Payments |-> "none"]

\* A hold lapsed for longer than LAPSED_FOR, which the sweep cancels.
Expired(b) == status[b] = "pending" /\ hold[b] + LapsedFor < clock

\* Time passes while an order may begin or a hold has not lapsed for long.
Tick ==
  /\ clock <= MaxClock \/ \E b \in Bookings : status[b] = "pending" /\ ~ Expired(b)
  /\ clock' = clock + 1
  /\ UNCHANGED <<day, seats, aside, rowVars, call, released, rzp, takenAt, row>>

\* The departure's date comes closer: too soon to book online, then past.
DayPasses(d) ==
  /\ d \in Passing
  /\ \/ day[d] = "bookable" /\ day' = [day EXCEPT ![d] = "soon"]
     \/ day[d] = "soon" /\ day' = [day EXCEPT ![d] = "past"]
  /\ UNCHANGED <<clock, seats, aside, rowVars, call, released, rzp, takenAt, row>>

\* The owner saves the package form: seats_total is written as sent, with no
\* check against the seats already taken.
SaveSeats(d, n) ==
  /\ n # seats[d]
  /\ seats' = [seats EXCEPT ![d] = n]
  /\ UNCHANGED <<clock, day, aside, rowVars, call, released, rzp, takenAt, row>>

\* A walk of its own (the cron's, or the one committed before an order), an
\* offer or a date change's hold that begins or ends.
SetAside(d) ==
  /\ Walk(Holding(clock), d)
  /\ UNCHANGED <<clock, day, seats, rowVars, call, released, rzp, takenAt, row>>

-----------------------------------------------------------------------------
(* The order.                                                               *)

\* Mutant of ToRelease: every hold on the date is replaced, a stranger's too.
ReleasesTheDate(b, t) ==
  {c \in Bookings : /\ status[c] = "pending" /\ hold[c] > t
                    /\ DepartureOf[b] = DepartureOf[c]}

\* The live web holds of the same email or phone (_release_holds).
ToRelease(b, t) ==
  {c \in Bookings : status[c] = "pending" /\ hold[c] > t /\ SameContact(b, c)}

\* First transaction of create_booking_order, begun at t.
PlaceOrder(b, t) ==
  LET rel == ToRelease(b, t)
  IN /\ clock <= MaxClock
     /\ status[b] = "none" /\ day[DepartureOf[b]] = "bookable"
     /\ Fits(Holding(t) \ rel, b)
     /\ status' = [status EXCEPT ![b] = "pending"]
     /\ hold' = [c \in Bookings |-> IF c = b THEN t + Hold
                                    ELSE IF c \in rel THEN t ELSE hold[c]]
     /\ released' = [released EXCEPT
                       ![b] = [c \in Bookings |-> IF c \in rel THEN hold[c] ELSE 0]]
     /\ call' = [call EXCEPT ![b] = "calling"]
     /\ UNCHANGED <<clock, day, seats, aside, reason, paid, kept, refunded, offline,
                    asked, overdue, rzp, takenAt, row>>

\* Razorpay opened the order: the payments row is written, under no lock and
\* whatever became of the booking meanwhile.
OrderOpened(b) ==
  /\ call[b] = "calling"
  /\ call' = [call EXCEPT ![b] = "open"]
  /\ released' = [released EXCEPT ![b] = [c \in Bookings |-> 0]]
  /\ UNCHANGED <<clock, day, seats, aside, rowVars, rzp, takenAt, row>>

\* The request died before the second transaction: the hold stays, unpayable.
OrderLost(b) ==
  /\ call[b] = "calling"
  /\ call' = [call EXCEPT ![b] = "lost"]
  /\ released' = [released EXCEPT ![b] = [c \in Bookings |-> 0]]
  /\ UNCHANGED <<clock, day, seats, aside, rowVars, rzp, takenAt, row>>

\* The released holds that may be given back, their seats apart: the old expiry
\* is compared with the time the transaction began, the hold itself with the
\* time it got its locks.
Restorable(b, t) ==
  {c \in Bookings : /\ released[b][c] > t
                    /\ status[c] = "pending" /\ ~ Live(c)}

\* Mutant of GivenBack: holds are given back without looking at the seats.
GivesAllBack(R, B, cand) == R = cand

\* R is what giving holds back one after another, each only while its party
\* still fits, may come to when the bookings in B hold seats.
GivenBack(R, B, cand) ==
  /\ R \subseteq cand
  /\ \A c \in R : Fits((B \union R) \ {c}, c)
  /\ \A c \in cand \ R : ~ Fits(B \union R, c)

\* Razorpay could not open the order (_undo_hold, begun at t): the new hold ends
\* and the holds it replaced are given back.
OrderRefused(b, t) ==
  /\ call[b] = "calling"
  /\ \E R \in SUBSET Restorable(b, t) :
       /\ GivenBack(R, Holding(t) \ (IF status[b] = "pending" THEN {b} ELSE {}),
                    Restorable(b, t))
       /\ hold' = [c \in Bookings |->
                     IF c \in R THEN released[b][c]
                     ELSE IF c = b /\ status[b] = "pending" THEN t ELSE hold[c]]
  /\ call' = [call EXCEPT ![b] = "refused"]
  /\ released' = [released EXCEPT ![b] = [c \in Bookings |-> 0]]
  /\ UNCHANGED <<clock, day, seats, aside, status, reason, paid, kept, refunded,
                 offline, asked, overdue, rzp, takenAt, row>>

-----------------------------------------------------------------------------
(* Captures.                                                                *)

\* At Razorpay, an attempt to pay an open order fails ...
PayFails(p) ==
  /\ call[PaymentOf[p]] = "open" /\ rzp[p] = "none"
  /\ rzp' = [rzp EXCEPT ![p] = "failed"]
  /\ UNCHANGED <<clock, day, seats, aside, rowVars, call, released, takenAt, row>>

\* ... or is captured, at once or after it was reported as failed (a late
\* authorisation).
Pay(p) ==
  /\ call[PaymentOf[p]] = "open" /\ rzp[p] \in {"none", "failed"}
  /\ rzp' = [rzp EXCEPT ![p] = IF @ = "failed" THEN "recovered" ELSE "captured"]
  /\ takenAt' = [takenAt EXCEPT ![p] = clock]
  /\ UNCHANGED <<clock, day, seats, aside, rowVars, call, released, row>>

\* Mutant of AwaitingPayment: any cancelled booking takes a late payment.
AnyCancelledAwaits(b) == status[b] \in {"pending", "cancelled"}

AwaitingPayment(b) ==
  \/ status[b] = "pending"
  \/ status[b] = "cancelled" /\ reason[b] = "hold_expired"

\* What settle_capture makes of money that brings the booking to `sum`, in a
\* transaction begun at t.
Settled(b, sum, t) ==
  CASE status[b] = "partially_paid" ->
         IF sum >= Total[b] THEN "paid_in_full" ELSE "balance_part"
    [] status[b] # "partially_paid" /\ ~ AwaitingPayment(b) -> "not_pending"
    [] AwaitingPayment(b) /\ sum < Ask[b] -> "part_paid"
    [] AwaitingPayment(b) /\ sum >= Ask[b] /\ SeatsThere(b, t) ->
         IF sum >= Total[b] THEN "confirmed" ELSE "deposit"
    [] OTHER -> "seats_gone"

StatusAfter(b, settled) ==
  CASE settled \in {"paid_in_full", "confirmed"} -> "confirmed"
    [] settled = "deposit" -> "partially_paid"
    [] settled = "seats_gone" -> "cancelled"
    [] OTHER -> status[b]

ReasonAfter(b, settled) ==
  CASE settled \in {"confirmed", "deposit"} -> "none"
    [] settled = "seats_gone" -> "seats_gone"
    [] OTHER -> reason[b]

\* Mutant of Owed: the difference is not held at zero.
OwedUnclamped(b, st, sum) == sum - (IF st = "cancelled" THEN kept[b] ELSE Total[b])

\* refund_owed on a booking that holds `sum`: a cancelled one owes all it did
\* not keep, any other what goes beyond its total.
Owed(b, st, sum) ==
  LET due == IF st = "cancelled" THEN kept[b] ELSE Total[b]
  IN  IF sum > due THEN sum - due ELSE 0

\* Mutant of ToRefund: only what goes beyond a live booking's price is planned.
RefundsSurplusOnly(b, settled, sum) ==
  IF settled \in {"confirmed", "deposit", "paid_in_full"}
  THEN Owed(b, StatusAfter(b, settled), sum) ELSE 0

\* plan_refund runs for money with no booking behind it and for a surplus.
ToRefund(b, settled, sum) ==
  IF settled \in {"seats_gone", "not_pending", "confirmed", "deposit", "paid_in_full"}
  THEN Owed(b, StatusAfter(b, settled), sum) ELSE 0

\* settle_capture: the money, the booking, the planned refund, and the end of
\* this email's waitlist entry when the booking now holds its seats.
Settle(b, amount, t) ==
  LET sum     == paid[b] + amount
      settled == Settled(b, sum, t)
      back    == ToRefund(b, settled, sum)
      d       == DepartureOf[b]
  IN /\ status' = [status EXCEPT ![b] = StatusAfter(b, settled)]
     /\ reason' = [reason EXCEPT ![b] = ReasonAfter(b, settled)]
     /\ paid' = [paid EXCEPT ![b] = sum - back]
     /\ refunded' = [refunded EXCEPT ![b] = @ + back]
     /\ \E n \in 0..aside[d] :
          /\ n = aside[d] \/ settled \in {"confirmed", "deposit"}
          /\ aside' = [aside EXCEPT ![d] = n]
     /\ UNCHANGED <<clock, day, seats, hold, kept, asked, overdue, call, released, rzp,
                    takenAt>>

\* Mutant of Capture: a replayed callback or webhook is applied again.
CapturesReplays(p, t) ==
  /\ rzp[p] \in {"captured", "recovered"} /\ takenAt[p] <= t
  /\ row' = [row EXCEPT ![p] = "captured"]
  /\ Settle(PaymentOf[p], Ask[PaymentOf[p]], t)
  /\ UNCHANGED offline

\* capture_razorpay_payment, reached by the Checkout callback, a sync or the
\* webhook, any number of times: a payment already settled is a replay.
Capture(p, t) ==
  /\ rzp[p] \in {"captured", "recovered"}
  /\ takenAt[p] <= t
  /\ row[p] # "captured"
  /\ row' = [row EXCEPT ![p] = "captured"]
  /\ Settle(PaymentOf[p], Ask[PaymentOf[p]], t)
  /\ UNCHANGED offline

\* record_failed_payment: the failure event, which may come after the capture.
RecordFailed(p) ==
  /\ rzp[p] \in {"failed", "recovered"}
  /\ row[p] = "none"
  /\ row' = [row EXCEPT ![p] = "failed"]
  /\ UNCHANGED <<clock, day, seats, aside, rowVars, call, released, rzp, takenAt>>

-----------------------------------------------------------------------------
(* The desk, the customer's cancellation request and the daily sweep.       *)

\* mark_paid: an offline payment of the rest, only when the seats are there (a
\* wait for the locks only makes it refuse more often; it is left out).
MarkPaid(b) ==
  /\ b \in Attended
  /\ AwaitingPayment(b)
  /\ SeatsThere(b, clock)
  /\ offline' = [offline EXCEPT ![b] = @ + (Total[b] - paid[b])]
  /\ Settle(b, Total[b] - paid[b], clock)
  /\ UNCHANGED row

\* release_hold: the seats free at once and the waitlist walks them.
ReleaseHold(b) ==
  /\ b \in Attended
  /\ status[b] = "pending"
  /\ status' = [status EXCEPT ![b] = "cancelled"]
  /\ reason' = [reason EXCEPT ![b] = "owner_released"]
  /\ hold' = [hold EXCEPT ![b] = IF @ < clock THEN @ ELSE clock]
  /\ Walk(Holding(clock) \ {b}, DepartureOf[b])
  /\ UNCHANGED <<clock, day, seats, paid, kept, refunded, offline, asked, overdue,
                 call, released, rzp, takenAt, row>>

\* request_cancellation: one request per booking, before its date has passed.
RequestCancellation(b) ==
  /\ b \in Attended
  /\ status[b] \in Cancellable /\ asked[b] = "none"
  /\ day[DepartureOf[b]] # "past"
  /\ asked' = [asked EXCEPT ![b] = "requested"]
  /\ UNCHANGED <<clock, day, seats, aside, status, reason, hold, paid, kept, refunded,
                 offline, overdue, call, released, rzp, takenAt, row>>

\* resolve_cancellation, approved with a refund of r: the booking keeps the
\* price's share not refunded, and everything else goes back.
Approve(b, r) ==
  LET price == IF paid[b] < Total[b] THEN paid[b] ELSE Total[b]
      keeps == IF price > r THEN price - r ELSE 0
  IN /\ asked[b] = "requested" /\ status[b] \in Cancellable
     /\ r <= paid[b]
     /\ asked' = [asked EXCEPT ![b] = "approved"]
     /\ status' = [status EXCEPT ![b] = "cancelled"]
     /\ reason' = [reason EXCEPT ![b] = "cancellation_approved"]
     /\ kept' = [kept EXCEPT ![b] = keeps]
     /\ paid' = [paid EXCEPT ![b] = keeps]
     /\ refunded' = [refunded EXCEPT ![b] = @ + (paid[b] - keeps)]
     /\ Walk(Holding(clock) \ {b}, DepartureOf[b])
     /\ UNCHANGED <<clock, day, seats, hold, offline, overdue, call, released, rzp,
                    takenAt, row>>

\* resolve_cancellation, rejected: the booking stands.
Reject(b) ==
  /\ asked[b] = "requested"
  /\ asked' = [asked EXCEPT ![b] = "rejected"]
  /\ UNCHANGED <<clock, day, seats, aside, status, reason, hold, paid, kept, refunded,
                 offline, overdue, call, released, rzp, takenAt, row>>

\* The balance's due day and its grace pass without the balance.
GraceEnds(b) ==
  /\ status[b] = "partially_paid" /\ ~ overdue[b]
  /\ overdue' = [overdue EXCEPT ![b] = TRUE]
  /\ UNCHANGED <<clock, day, seats, aside, status, reason, hold, paid, kept, refunded,
                 offline, asked, call, released, rzp, takenAt, row>>

\* extend_due: the owner gives a part-paid booking a later due day, today or
\* after, whose grace still ends before the date.
ExtendDue(b) ==
  /\ b \in Attended
  /\ status[b] = "partially_paid" /\ overdue[b] /\ day[DepartureOf[b]] # "past"
  /\ overdue' = [overdue EXCEPT ![b] = FALSE]
  /\ UNCHANGED <<clock, day, seats, aside, status, reason, hold, paid, kept, refunded,
                 offline, asked, call, released, rzp, takenAt, row>>

\* mark_balance_paid: the rest, paid offline.
MarkBalancePaid(b) ==
  /\ b \in Attended
  /\ status[b] = "partially_paid" /\ paid[b] < Total[b]
  /\ offline' = [offline EXCEPT ![b] = @ + (Total[b] - paid[b])]
  /\ Settle(b, Total[b] - paid[b], clock)
  /\ UNCHANGED row

\* The daily tidy cancels b and gives back r of what it holds (the agreed
\* cancellation terms); the rest is kept, the freed seats are walked.
CancelForBalance(b, r) ==
  /\ status' = [status EXCEPT ![b] = "cancelled"]
  /\ reason' = [reason EXCEPT ![b] = "balance_unpaid"]
  /\ kept' = [kept EXCEPT ![b] = paid[b] - r]
  /\ paid' = [paid EXCEPT ![b] = @ - r]
  /\ refunded' = [refunded EXCEPT ![b] = @ + r]
  /\ Walk(Holding(clock) \ {b}, DepartureOf[b])
  /\ UNCHANGED <<clock, day, seats, hold, offline, asked, overdue, call, released, rzp,
                 takenAt, row>>

\* Mutant of CancelOverdue: a booking the tidy listed is not looked at again
\* under its lock, so a request that came in meanwhile is passed over.
CancelsListed(b, r) ==
  /\ status[b] = "partially_paid" /\ overdue[b]
  /\ r <= paid[b]
  /\ CancelForBalance(b, r)

\* _cancel_overdue, under the booking's lock: only a booking still part-paid and
\* overdue, with no cancellation request open.
CancelOverdue(b, r) ==
  /\ status[b] = "partially_paid" /\ overdue[b]
  /\ asked[b] # "requested"
  /\ r <= paid[b]
  /\ CancelForBalance(b, r)

Departed(b) ==
  /\ status[b] = "confirmed" /\ day[DepartureOf[b]] = "past"
  /\ asked[b] # "requested"

\* Mutant of Sweep: only bookings with an order that can still be paid lapse.
SweepsOpenOrders ==
  /\ \E b \in Bookings : Expired(b) /\ call[b] = "open"
  /\ status' = [b \in Bookings |-> IF Expired(b) /\ call[b] = "open" THEN "cancelled"
                                   ELSE status[b]]
  /\ reason' = [b \in Bookings |-> IF Expired(b) /\ call[b] = "open" THEN "hold_expired"
                                   ELSE reason[b]]
  /\ UNCHANGED <<clock, day, seats, aside, hold, paid, kept, refunded, offline, asked,
                 overdue, call, released, rzp, takenAt, row>>

\* sweep_bookings: guarded updates of every row that qualifies, without the
\* departure lock; the daily job takes it one row set at a time.
Sweep ==
  /\ \E b \in Bookings : Expired(b) \/ Departed(b)
  /\ status' = [b \in Bookings |-> IF Expired(b) THEN "cancelled"
                                   ELSE IF Departed(b) THEN "completed" ELSE status[b]]
  /\ reason' = [b \in Bookings |-> IF Expired(b) THEN "hold_expired" ELSE reason[b]]
  /\ UNCHANGED <<clock, day, seats, aside, hold, paid, kept, refunded, offline, asked,
                 overdue, call, released, rzp, takenAt, row>>

-----------------------------------------------------------------------------
Next ==
  \/ Tick \/ Sweep
  \/ \E d \in Departures : DayPasses(d) \/ SetAside(d)
  \/ \E d \in Departures, n \in SeatTotals : SaveSeats(d, n)
  \/ \E b \in Bookings : \/ OrderOpened(b) \/ OrderLost(b)
                         \/ ReleaseHold(b) \/ MarkPaid(b)
                         \/ RequestCancellation(b) \/ Reject(b)
                         \/ GraceEnds(b) \/ ExtendDue(b) \/ MarkBalancePaid(b)
  \/ \E b \in Bookings, t \in Began : PlaceOrder(b, t) \/ OrderRefused(b, t)
  \/ \E b \in Bookings : \E r \in 0..paid[b] : Approve(b, r) \/ CancelOverdue(b, r)
  \/ \E p \in Payments : PayFails(p) \/ Pay(p) \/ RecordFailed(p)
  \/ \E p \in Payments, t \in Began : Capture(p, t)

Spec == Init /\ [][Next]_vars

(* Fairness: time passes, the daily job runs, a request's handler ends, and *)
(* Razorpay repeats a webhook until it is answered.                         *)
CallEnds(b) ==
  OrderOpened(b) \/ OrderLost(b) \/ \E t \in Began : OrderRefused(b, t)
Delivered(p) == \E t \in Began : Capture(p, t)

Fairness ==
  /\ WF_vars(Tick) /\ WF_vars(Sweep)
  /\ \A b \in Bookings : WF_vars(CallEnds(b))
  /\ \A p \in Payments : WF_vars(Delivered(p))

FairSpec == Spec /\ Fairness

-----------------------------------------------------------------------------
(* Invariants.                                                              *)

\* The type invariant: every row and clock stays in its range.
TypeOK ==
  /\ clock \in Nat
  /\ day \in [Departures -> {"bookable", "soon", "past"}]
  /\ seats \in [Departures -> SeatTotals]
  /\ aside \in [Departures -> 0..MaxAside]
  /\ status \in [Bookings -> Statuses]
  /\ reason \in [Bookings -> Reasons]
  /\ hold \in [Bookings -> Nat]
  /\ paid \in [Bookings -> Nat]
  /\ kept \in [Bookings -> Nat]
  /\ refunded \in [Bookings -> Nat]
  /\ offline \in [Bookings -> Nat]
  /\ asked \in [Bookings -> {"none", "requested", "approved", "rejected"}]
  /\ overdue \in [Bookings -> BOOLEAN]
  /\ call \in [Bookings -> {"none", "calling", "open", "lost", "refused"}]
  /\ released \in [Bookings -> [Bookings -> Nat]]
  /\ rzp \in [Payments -> {"none", "failed", "captured", "recovered"}]
  /\ takenAt \in [Payments -> Nat]
  /\ row \in [Payments -> {"none", "failed", "captured"}]

CapturedOf(b) == {p \in Payments : PaymentOf[p] = b /\ row[p] = "captured"}

\* Conservation: what a booking holds and what its refund rows give back are
\* together what its payments rows captured, whatever order checkout
\* callbacks, syncs, webhooks, replays and failure events arrive in
\* (capture_razorpay_payment, settle_capture, plan_refund).
MoneyAccounted ==
  \A b \in Bookings :
    paid[b] + refunded[b] = offline[b] + Ask[b] * Cardinality(CapturedOf(b))

\* Every rupee has a reason to be held: a booking that holds seats has been
\* paid at least what its order asked and never more than its price, a
\* confirmed one the whole price, a part-paid one less; a finally cancelled one
\* holds only what the decision or the terms keep; one still awaiting payment
\* holds nothing.
MoneyHasAHome ==
  \A b \in Bookings :
    /\ status[b] \in Sold => Ask[b] <= paid[b] /\ paid[b] <= Total[b]
    /\ status[b] \in {"confirmed", "completed"} => paid[b] = Total[b]
    /\ status[b] = "partially_paid" => paid[b] < Total[b]
    /\ status[b] = "cancelled" /\ reason[b] # "hold_expired" => paid[b] = kept[b]
    /\ status[b] = "none" \/ AwaitingPayment(b) => paid[b] = 0

\* At most one active hold per email or phone (docs/03-requirements-v2.md, R15).
OneHoldPerContact ==
  \A b, c \in Bookings : b # c /\ Live(b) /\ Live(c) => ~ SameContact(b, c)

-----------------------------------------------------------------------------
(* Action properties.                                                       *)

TakenSeats(d) == Cardinality(Seated(Holding(clock), d))

\* No double selling: a step that seats a traveller who was not seated before
\* leaves the date within its seats, offers and date-change holds included.
\* Only the owner saving fewer seats than are taken can bring it beyond them.
SeatsGivenOnlyWhenFree ==
  [][\A d \in Departures :
       ~ (Seated(Holding(clock), d)' \subseteq Seated(Holding(clock), d))
         => TakenSeats(d)' + aside'[d] <= seats'[d]]_vars

\* A final cancellation stands: money that lands later on a booking released
\* by the owner, cancelled on request or for want of seats never revives it,
\* nor changes what it keeps.
FinalCancellationStands ==
  [][\A b \in Bookings :
       status[b] = "cancelled" /\ reason[b] # "hold_expired"
         => /\ status'[b] = status[b] /\ reason'[b] = reason[b]
            /\ kept'[b] = kept[b] /\ paid'[b] = paid[b]]_vars

\* Paid seats are lost in two ways only: the approval of a request the customer
\* made, or the daily tidy on a part-paid booking past its grace while no
\* request of the customer's is open.  A trip is never marked completed while
\* such a request is open (resolve_cancellation, _cancel_overdue, sweep_bookings).
SoldSeatsStand ==
  [][\A b \in Bookings :
       /\ status[b] \in Sold /\ status'[b] \notin Sold
            => \/ /\ asked[b] = "requested" /\ asked'[b] = "approved"
                  /\ reason'[b] = "cancellation_approved"
               \/ /\ asked[b] # "requested" /\ overdue[b]
                  /\ status[b] = "partially_paid" /\ paid[b] < Total[b]
                  /\ reason'[b] = "balance_unpaid"
       /\ status'[b] = "completed" /\ status[b] # "completed"
            => asked[b] # "requested" /\ paid[b] = Total[b]]_vars

\* An unlapsed hold of a booking that stays pending is ended only by an order
\* of the same email or phone, or by the failure of its own order: never by a
\* stranger's order, capture or undo.
StrangersHoldsStand ==
  [][\A c \in Bookings :
       Live(c) /\ status'[c] = "pending" /\ hold'[c] < hold[c]
         => \/ call[c] = "calling" /\ call'[c] = "refused"
            \/ \E b \in Bookings : /\ status[b] = "none" /\ status'[b] = "pending"
                                   /\ SameContact(b, c)]_vars

\* "Enough seats -> confirm as normal" (docs/03-requirements-v2.md, R16, late
\* capture): money is answered with seats_gone only when the party no longer
\* fits beside the seats that others hold.
SeatsGoneOnlyWhenTaken ==
  [][\A b \in Bookings :
       reason'[b] = "seats_gone" /\ reason[b] # "seats_gone"
         => ~ Fits(Holding(clock) \ {b}, b)]_vars

-----------------------------------------------------------------------------
(* Liveness.                                                                *)

\* No booking stays pending: it is paid, released or swept.
PendingEnds == \A b \in Bookings : status[b] = "pending" ~> status[b] # "pending"

\* Money captured at Razorpay ends up behind seats, or on its way back.
CapturedMoneySettles ==
  \A p \in Payments :
    rzp[p] \in {"captured", "recovered"}
      ~> /\ row[p] = "captured"
         /\ \/ status[PaymentOf[p]] \in Sold
            \/ paid[PaymentOf[p]] = kept[PaymentOf[p]]

-----------------------------------------------------------------------------
(* The promise about seats.                                                 *)

Phase ==
  [b \in Bookings |->
     CASE status[b] = "none" -> "none"
       [] status[b] \in Sold -> "sold"
       [] Live(b) -> "held"
       [] AwaitingPayment(b) /\ ~ Live(b) -> "lapsed"
       [] OTHER -> "closed"]

Promise == INSTANCE SeatPromise WITH phase <- Phase

\* The handlers keep the promise about seats: every step of theirs is one of
\* its steps, or changes nothing it speaks of.
KeepsSeatPromise == Promise!Spec

=============================================================================
