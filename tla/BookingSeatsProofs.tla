------------------------- MODULE BookingSeatsProofs -------------------------
(***************************************************************************)
(* Proofs about BookingOrders: seats are given only when they are free,    *)
(* nobody loses a hold to a stranger, and together the handlers keep the   *)
(* promise about seats (SeatPromise).                                      *)
(***************************************************************************)
EXTENDS BookingOrdersProofs

\* Counting: the seated and a party are finite, and more bookings seat more.
LEMMA SeatedCount ==
  ASSUME NEW B, NEW C, NEW d, B \subseteq C
  PROVE  /\ Cardinality(Seated(B, d)) \in Nat
         /\ Cardinality(Seated(B, d)) <= Cardinality(Seated(C, d))
<1>1. Seated(B, d) \subseteq Seated(C, d) /\ Seated(C, d) \subseteq Travellers
  BY DEF Seated
<1>2. IsFiniteSet(Seated(C, d))
  BY <1>1, RowsAssumption, FS_Subset
<1> QED
  BY <1>1, <1>2, FS_Subset, FS_CardinalityType

\* A departure's seats and what is set aside of them are numbers.
LEMMA DateNumbers ==
  ASSUME TypeOK, NEW d \in Departures
  PROVE  seats[d] \in Nat /\ aside[d] \in Nat
<1>1. seats[d] \in SeatTotals /\ aside[d] \in 0..MaxAside
  BY DEF TypeOK
<1>2. aside[d] \in Nat
  <2>1. MaxAside \in Nat
    BY TimesAssumption
  <2> QED
    BY <1>1, <2>1
<1>3. seats[d] \in Nat
  <2>1. SeatTotals \subseteq Nat
    BY RowsAssumption
  <2> QED
    BY <1>1, <2>1
<1> QED
  BY <1>2, <1>3

\* A party that fits beside the bookings in B can be seated with them
\* (_seats_left and seats_short against the view departure_availability).
LEMMA FitsMakesRoom ==
  ASSUME TypeOK, NEW b \in Bookings, NEW B, Fits(B, b)
  PROVE  Cardinality(Seated(B \union {b}, DepartureOf[b])) + aside[DepartureOf[b]]
           <= seats[DepartureOf[b]]
<1> DEFINE d == DepartureOf[b]
           S == Seated(B, d)
           P == Party(b)
           U == Seated(B \union {b}, d)
<1>1. IsFiniteSet(S) /\ IsFiniteSet(P) /\ P # {}
  BY RowsAssumption, FS_Subset DEF Seated, Party
<1>2. U \subseteq S \union P
  BY DEF Seated, Party
<1>3. /\ IsFiniteSet(S \union P)
      /\ Cardinality(S \union P) <= Cardinality(S) + Cardinality(P)
  <2>1. /\ IsFiniteSet(S \union P) /\ IsFiniteSet(S \intersect P)
        /\ Cardinality(S \union P)
             = Cardinality(S) + Cardinality(P) - Cardinality(S \intersect P)
    BY <1>1, FS_Union, FS_Intersection
  <2> QED
    BY <1>1, <2>1, FS_CardinalityType
<1>4. Cardinality(U) <= Cardinality(S) + Cardinality(P)
  <2>1. IsFiniteSet(U) /\ Cardinality(U) <= Cardinality(S \union P)
    BY <1>2, <1>3, FS_Subset
  <2> QED
    BY <1>1, <1>3, <2>1, FS_CardinalityType
<1>5. Cardinality(P) \in Nat /\ Cardinality(P) > 0 /\ Cardinality(S) \in Nat
      /\ Cardinality(U) \in Nat
  <2>1. Cardinality(P) # 0
    BY <1>1, FS_EmptySet
  <2>2. IsFiniteSet(U)
    BY <1>2, <1>3, FS_Subset
  <2> QED
    BY <1>1, <2>1, <2>2, FS_CardinalityType
<1>6. d \in Departures /\ seats[d] \in Nat /\ aside[d] \in Nat
  BY RowsAssumption, DateNumbers
<1>7. Cardinality(P) <= seats[d] - Cardinality(S) - aside[d]
  <2> DEFINE left == seats[d] - Cardinality(S) - aside[d]
  <2>1. Cardinality(P) <= IF left > 0 THEN left ELSE 0
    BY DEF Fits, SeatsLeft
  <2> HIDE DEF P
  <2> QED
    BY <1>5, <1>6, <2>1
<1> HIDE DEF S, P, U
<1> QED
  BY <1>4, <1>5, <1>6, <1>7 DEF U

\* A hold counted now was counted when the transaction began.
LEMMA HoldingShrinks ==
  ASSUME TypeOK, NEW t \in Began
  PROVE  /\ t \in Nat /\ t <= clock
         /\ Holding(clock) \subseteq Holding(t)
BY DEF TypeOK, Began, Holding

\* Who newly holds seats after a step was given room for the whole party, with
\* everybody who holds seats beside it.
GivenRoom(b) ==
  Cardinality(Seated(Holding(clock), DepartureOf[b]))' + aside'[DepartureOf[b]]
    <= seats'[DepartureOf[b]]

\* The first transaction of an order gives seats only to its own party.
LEMMA PlaceOrderSeats ==
  ASSUME TypeOK, NEW b \in Bookings, NEW t \in Began, PlaceOrder(b, t)
  PROVE  /\ Holding(clock)' \subseteq Holding(clock) \union {b}
         /\ GivenRoom(b)
<1> DEFINE B == Holding(t) \ ToRelease(b, t)
<1>1. t \in Nat /\ t <= clock /\ Holding(clock) \subseteq Holding(t)
  BY HoldingShrinks
<1>2. /\ Fits(B, b) /\ status' = [status EXCEPT ![b] = "pending"]
      /\ hold' = [c \in Bookings |-> IF c = b THEN t + Hold
                                     ELSE IF c \in ToRelease(b, t) THEN t ELSE hold[c]]
      /\ UNCHANGED <<clock, seats, aside>>
  BY DEF PlaceOrder
<1>3. \A c \in Bookings \ {b} :
        c \in Holding(clock)' => c \in Holding(clock) /\ c \notin ToRelease(b, t)
  BY <1>1, <1>2 DEF Holding, ToRelease, TypeOK, Sold
<1>4. Holding(clock)' \subseteq B \union {b}
  BY <1>1, <1>3 DEF Holding
<1>5. GivenRoom(b)
  <2> SUFFICES Cardinality(Seated(Holding(clock), DepartureOf[b]))'
                 + aside[DepartureOf[b]] <= seats[DepartureOf[b]]
    BY <1>2 DEF GivenRoom
  <2> DEFINE d == DepartureOf[b]
  <2>1. Cardinality(Seated(B \union {b}, d)) + aside[d] <= seats[d]
    BY <1>2, FitsMakesRoom
  <2>2. /\ Cardinality(Seated(Holding(clock)', d)) \in Nat
        /\ Cardinality(Seated(Holding(clock)', d)) <= Cardinality(Seated(B \union {b}, d))
    BY <1>4, SeatedCount
  <2>3. Seated(Holding(clock), d)' = Seated(Holding(clock)', d)
    BY DEF Seated
  <2>4. aside[d] \in Nat /\ seats[d] \in Nat /\ Cardinality(Seated(B \union {b}, d)) \in Nat
    BY RowsAssumption, DateNumbers, SeatedCount
  <2> QED
    BY <2>1, <2>2, <2>3, <2>4
<1> QED
  BY <1>3, <1>5 DEF Holding

\* Holds are given back only to parties that fit beside all the others.
LEMMA OrderRefusedSeats ==
  ASSUME TypeOK, NEW b \in Bookings, NEW t \in Began, OrderRefused(b, t)
  PROVE  \E R \in SUBSET Bookings :
           /\ Holding(clock)' \subseteq Holding(clock) \union R
           /\ \A c \in R : ~ Live(c) /\ GivenRoom(c)
           /\ \A c \in Bookings \ (R \union {b}) : hold'[c] = hold[c]
<1> DEFINE B == Holding(t) \ (IF status[b] = "pending" THEN {b} ELSE {})
<1>0. t \in Nat /\ t <= clock /\ Holding(clock) \subseteq Holding(t)
  BY HoldingShrinks
<1>1. PICK R \in SUBSET Restorable(b, t) :
        /\ GivenBack(R, B, Restorable(b, t))
        /\ hold' = [c \in Bookings |->
                      IF c \in R THEN released[b][c]
                      ELSE IF c = b /\ status[b] = "pending" THEN t ELSE hold[c]]
  BY DEF OrderRefused
<1>2. UNCHANGED <<clock, seats, aside, status>>
  BY DEF OrderRefused
<1>3. R \subseteq Bookings /\ \A c \in R : ~ Live(c)
  BY <1>1 DEF Restorable
<1>4. /\ Holding(clock)' \subseteq B \union R
      /\ Holding(clock)' \subseteq Holding(clock) \union R
  <2> SUFFICES ASSUME NEW c \in Bookings, c \in Holding(clock)', c \notin R
               PROVE  c \in B /\ c \in Holding(clock)
    BY DEF Holding
  <2>1. status'[c] = status[c] /\ clock' = clock
    BY <1>2
  <2>2. c = b => status[b] # "pending"
    BY <1>0, <1>1, <1>2 DEF Holding, TypeOK, Sold
  <2>3. hold'[c] = hold[c]
    BY <1>1, <2>2
  <2>4. c \in Holding(clock)
    BY <2>1, <2>3 DEF Holding
  <2> QED
    BY <1>0, <2>2, <2>4
<1>5. ASSUME NEW c \in R PROVE GivenRoom(c)
  <2> SUFFICES Cardinality(Seated(Holding(clock), DepartureOf[c]))'
                 + aside[DepartureOf[c]] <= seats[DepartureOf[c]]
    BY <1>2 DEF GivenRoom
  <2> DEFINE d == DepartureOf[c]
             C == ((B \union R) \ {c}) \union {c}
  <2>1. Fits((B \union R) \ {c}, c) /\ c \in Bookings
    BY <1>1, <1>3 DEF GivenBack
  <2>2. Cardinality(Seated(C, d)) + aside[d] <= seats[d]
    BY <2>1, FitsMakesRoom
  <2>3. /\ Cardinality(Seated(Holding(clock)', d)) \in Nat
        /\ Cardinality(Seated(Holding(clock)', d)) <= Cardinality(Seated(C, d))
    BY <1>4, SeatedCount
  <2>4. Seated(Holding(clock), d)' = Seated(Holding(clock)', d)
    BY DEF Seated
  <2>5. aside[d] \in Nat /\ seats[d] \in Nat /\ Cardinality(Seated(C, d)) \in Nat
    BY <2>1, RowsAssumption, DateNumbers, SeatedCount
  <2> QED
    BY <2>2, <2>3, <2>4, <2>5
<1>6. \A c \in Bookings \ (R \union {b}) : hold'[c] = hold[c]
  BY <1>1
<1> QED
  BY <1>3, <1>4, <1>5, <1>6

\* Money gives seats only to a party that holds them or that they are free for.
LEMMA SettleSeats ==
  ASSUME MoneyInv, NEW b \in Bookings, NEW amount \in Nat, NEW t \in Began,
         Settle(b, amount, t)
  PROVE  /\ Holding(clock)' \subseteq Holding(clock) \union {b}
         /\ b \in Holding(clock) \/ b \notin Holding(clock)' \/ GivenRoom(b)
<1> DEFINE settled == Settled(b, paid[b] + amount, t)
<1>0. TypeOK
  BY DEF MoneyInv
<1>1. /\ status' = [status EXCEPT ![b] = StatusAfter(b, settled)]
      /\ UNCHANGED <<clock, seats, hold>>
      /\ \E n \in 0..aside[DepartureOf[b]] : aside' = [aside EXCEPT ![DepartureOf[b]] = n]
  BY DEF Settle
<1>2. \A c \in Bookings \ {b} : status'[c] = status[c]
  <2> HIDE DEF settled
  <2> QED
    BY <1>0, <1>1 DEF TypeOK
<1>3. Holding(clock)' \subseteq Holding(clock) \union {b}
  BY <1>1, <1>2 DEF Holding
<1>4. ASSUME b \notin Holding(clock), b \in Holding(clock)'
      PROVE  SeatsThere(b, t) /\ ~ Live(b)
  <2>1. status'[b] = StatusAfter(b, settled)
    <3> HIDE DEF settled
    <3> QED
      BY <1>0, <1>1 DEF TypeOK
  <2>2. StatusAfter(b, settled) # status[b]
    BY <1>1, <1>4, <2>1 DEF Holding
  <2>3. status[b] \notin Sold
    BY <1>4 DEF Holding
  <2>4. settled \in {"confirmed", "deposit"}
    <3>1. settled \in {"confirmed", "deposit", "paid_in_full", "seats_gone"}
      <4> HIDE DEF settled
      <4> QED
        BY <2>2 DEF StatusAfter
    <3>2. settled # "seats_gone"
      <4> HIDE DEF settled
      <4> QED
        BY <1>4, <2>1 DEF StatusAfter, Holding, Sold
    <3>3. settled # "paid_in_full"
      BY <2>3 DEF Settled, Sold
    <3> QED
      BY <3>1, <3>2, <3>3
  <2>5. SeatsThere(b, t)
    BY <2>3, <2>4 DEF Settled, Sold
  <2> QED
    BY <1>4, <2>5 DEF Holding, Live
<1>5. ASSUME b \notin Holding(clock), b \in Holding(clock)'
      PROVE  Cardinality(Seated(Holding(clock), DepartureOf[b]))' + aside'[DepartureOf[b]]
               <= seats'[DepartureOf[b]]
  <2> DEFINE d == DepartureOf[b]
             C == Holding(t) \union {b}
  <2>1. Fits(Holding(t), b)
    BY <1>4, <1>5 DEF SeatsThere
  <2>2. Cardinality(Seated(C, d)) + aside[d] <= seats[d]
    BY <1>0, <2>1, FitsMakesRoom
  <2>3. Holding(clock)' \subseteq C
    BY <1>0, <1>3, HoldingShrinks
  <2>4. /\ Cardinality(Seated(Holding(clock)', d)) \in Nat
        /\ Cardinality(Seated(Holding(clock)', d)) <= Cardinality(Seated(C, d))
    BY <2>3, SeatedCount
  <2>5. Seated(Holding(clock), d)' = Seated(Holding(clock)', d)
    BY DEF Seated
  <2>6. aside[d] \in Nat /\ seats[d] \in Nat /\ Cardinality(Seated(C, d)) \in Nat
        /\ d \in Departures
    BY <1>0, RowsAssumption, DateNumbers, SeatedCount
  <2>7. aside'[d] \in Nat /\ aside'[d] <= aside[d] /\ seats' = seats
    BY <1>0, <1>1, <2>6, TimesAssumption DEF TypeOK
  <2> QED
    BY <2>2, <2>4, <2>5, <2>6, <2>7
<1> QED
  BY <1>3, <1>5 DEF GivenRoom

-----------------------------------------------------------------------------
\* Every step seats only the parties it was given room for.
LEMMA SeatsStep ==
  ASSUME MoneyInv, [Next]_vars
  PROVE  \E R \in SUBSET Bookings :
           /\ Holding(clock)' \subseteq Holding(clock) \union R
           /\ \A b \in R : GivenRoom(b)
<1> DEFINE Given == \E R \in SUBSET Bookings :
                      /\ Holding(clock)' \subseteq Holding(clock) \union R
                      /\ \A b \in R : GivenRoom(b)
<1>0. TypeOK
  BY DEF MoneyInv
<1>1. ASSUME Holding(clock)' \subseteq Holding(clock) PROVE Given
  <2>1. /\ {} \in SUBSET Bookings
        /\ Holding(clock)' \subseteq Holding(clock) \union {}
        /\ \A b \in {} : GivenRoom(b)
    BY <1>1
  <2> QED
    BY <2>1
<1>2. ASSUME NEW b \in Bookings, Holding(clock)' \subseteq Holding(clock) \union {b},
             b \in Holding(clock) \/ b \notin Holding(clock)' \/ GivenRoom(b)
      PROVE  Given
  <2>1. CASE GivenRoom(b)
    <3>1. {b} \in SUBSET Bookings /\ \A c \in {b} : GivenRoom(c)
      BY <2>1
    <3> QED
      BY <1>2, <3>1
  <2>2. CASE ~ GivenRoom(b)
    BY <1>1, <1>2, <2>2
  <2> QED
    BY <2>1, <2>2
<1>3. ASSUME Tick PROVE Given
  <2>1. clock \in Nat /\ clock' = clock + 1 /\ status' = status /\ hold' = hold
        /\ \A b \in Bookings : hold[b] \in Nat
    BY <1>0, <1>3 DEF Tick, rowVars, TypeOK
  <2> QED
    BY <1>1, <2>1 DEF Holding
<1>4. ASSUME Sweep PROVE Given
  <2>1. \A b \in Bookings :
          /\ status'[b] = "pending" => status[b] = "pending"
          /\ status'[b] \in Sold => status[b] \in Sold
    BY <1>4 DEF Sweep, Departed, Sold
  <2>2. clock' = clock /\ hold' = hold
    BY <1>4 DEF Sweep
  <2> QED
    BY <1>1, <2>1, <2>2 DEF Holding
<1>5. ASSUME \/ UNCHANGED vars
             \/ \E d \in Departures : DayPasses(d) \/ SetAside(d)
             \/ \E d \in Departures, n \in SeatTotals : SaveSeats(d, n)
             \/ \E b \in Bookings : \/ OrderOpened(b) \/ OrderLost(b)
                                    \/ RequestCancellation(b) \/ Reject(b)
                                    \/ GraceEnds(b) \/ ExtendDue(b)
             \/ \E p \in Payments : PayFails(p) \/ Pay(p) \/ RecordFailed(p)
      PROVE  Given
  <2>1. UNCHANGED <<clock, status, hold>>
    BY <1>5 DEF vars, DayPasses, SetAside, SaveSeats, OrderOpened, OrderLost,
                RequestCancellation, Reject, GraceEnds, ExtendDue, PayFails, Pay,
                RecordFailed, rowVars
  <2> QED
    BY <1>1, <2>1 DEF Holding
<1>6. ASSUME NEW b \in Bookings, NEW t \in Began, OrderRefused(b, t) PROVE Given
  BY <1>0, <1>6, OrderRefusedSeats
<1>7. ASSUME NEW b \in Bookings, ReleaseHold(b) PROVE Given
  BY <1>0, <1>1, <1>7 DEF ReleaseHold, Holding, TypeOK, Sold
<1>8. ASSUME NEW b \in Bookings, MarkPaid(b) \/ MarkBalancePaid(b) PROVE Given
  <2>1. Total[b] - paid[b] \in Nat /\ Settle(b, Total[b] - paid[b], clock)
    BY <1>8, MarkPaidSettles, MarkBalanceSettles
  <2>2. clock \in Began
    BY <1>0, TimesAssumption DEF Began, TypeOK
  <2> QED
    BY <1>2, <2>1, <2>2, SettleSeats
<1>9. ASSUME NEW b \in Bookings, NEW t \in Began, PlaceOrder(b, t) PROVE Given
  BY <1>0, <1>2, <1>9, PlaceOrderSeats
<1>10. ASSUME NEW b \in Bookings, NEW r \in 0..paid[b], Approve(b, r) PROVE Given
  BY <1>0, <1>1, <1>10 DEF Approve, Holding, TypeOK, Sold
<1>12. ASSUME NEW b \in Bookings, NEW r \in 0..paid[b], CancelOverdue(b, r) PROVE Given
  BY <1>0, <1>1, <1>12 DEF CancelOverdue, CancelForBalance, Holding, TypeOK, Sold
<1>11. ASSUME NEW p \in Payments, NEW t \in Began, Capture(p, t) PROVE Given
  BY <1>2, <1>11, CaptureSettles, SettleSeats
<1> QED
  <2> HIDE DEF Given
  <2>1. Given
    BY <1>3, <1>4, <1>5, <1>6, <1>7, <1>8, <1>9, <1>10, <1>11, <1>12 DEF Next
  <2> QED
    BY <2>1 DEF Given

\* No double selling, for every number of bookings, travellers and seats: a
\* step that seats a traveller leaves the date within its seats.
THEOREM NoDoubleSelling == Spec => SeatsGivenOnlyWhenFree
<1>1. ASSUME MoneyInv, [Next]_vars
      PROVE  \A d \in Departures :
               ~ (Seated(Holding(clock), d)' \subseteq Seated(Holding(clock), d))
                 => TakenSeats(d)' + aside'[d] <= seats'[d]
  <2> SUFFICES ASSUME NEW d \in Departures,
                      ~ (Seated(Holding(clock), d)' \subseteq Seated(Holding(clock), d))
               PROVE  TakenSeats(d)' + aside'[d] <= seats'[d]
    OBVIOUS
  <2>1. PICK R \in SUBSET Bookings :
          /\ Holding(clock)' \subseteq Holding(clock) \union R
          /\ \A b \in R : GivenRoom(b)
    BY <1>1, SeatsStep
  <2>2. PICK x \in Seated(Holding(clock), d)' : x \notin Seated(Holding(clock), d)
    OBVIOUS
  <2>3. /\ x \in Travellers /\ BookingOf[x] \in Holding(clock)'
        /\ DepartureOf[BookingOf[x]] = d /\ BookingOf[x] \notin Holding(clock)
    BY <2>2 DEF Seated
  <2>4. BookingOf[x] \in R
    BY <2>1, <2>3
  <2> QED
    BY <2>1, <2>3, <2>4 DEF GivenRoom, TakenSeats
<1> QED
  BY <1>1, MoneyInit, MoneyStep, PTL DEF Spec, SeatsGivenOnlyWhenFree

\* Nobody loses an unlapsed hold to a stranger: only an order of the same email
\* or phone, or the failure of its own order, ends a hold that stays pending.
THEOREM HoldsStand == Spec => StrangersHoldsStand
<1> DEFINE Stands(c) ==
      Live(c) /\ status'[c] = "pending" /\ hold'[c] < hold[c]
        => \/ call[c] = "calling" /\ call'[c] = "refused"
           \/ \E b \in Bookings : /\ status[b] = "none" /\ status'[b] = "pending"
                                  /\ SameContact(b, c)
<1>1. ASSUME TypeOK, [Next]_vars, NEW c \in Bookings PROVE Stands(c)
  <2>0. hold[c] \in Nat /\ clock \in Nat
    BY <1>1 DEF TypeOK
  <2>1. ASSUME hold'[c] = hold[c] PROVE Stands(c)
    BY <2>0, <2>1
  <2>2. ASSUME \/ Tick \/ Sweep \/ UNCHANGED vars
               \/ \E d \in Departures : DayPasses(d) \/ SetAside(d)
               \/ \E d \in Departures, n \in SeatTotals : SaveSeats(d, n)
               \/ \E b \in Bookings : \/ OrderOpened(b) \/ OrderLost(b) \/ MarkPaid(b)
                                      \/ RequestCancellation(b) \/ Reject(b)
                                      \/ GraceEnds(b) \/ ExtendDue(b)
                                      \/ MarkBalancePaid(b)
               \/ \E b \in Bookings : \E r \in 0..paid[b] :
                    Approve(b, r) \/ CancelOverdue(b, r)
               \/ \E p \in Payments : PayFails(p) \/ Pay(p) \/ RecordFailed(p)
               \/ \E p \in Payments, t \in Began : Capture(p, t)
        PROVE  Stands(c)
    <3>1. hold' = hold
      BY <2>2 DEF Tick, Sweep, vars, DayPasses, SetAside, SaveSeats, OrderOpened,
                  OrderLost, MarkPaid, RequestCancellation, Reject, GraceEnds, ExtendDue,
                  MarkBalancePaid, Approve, CancelOverdue, CancelForBalance, PayFails,
                  Pay, RecordFailed, Capture, Settle, rowVars
    <3> QED
      BY <2>1, <3>1
  <2>3. ASSUME NEW b \in Bookings, ReleaseHold(b) PROVE Stands(c)
    <3>1. CASE c = b
      BY <1>1, <2>3, <3>1 DEF ReleaseHold, TypeOK
    <3>2. CASE c # b
      BY <1>1, <2>1, <2>3, <3>2 DEF ReleaseHold, TypeOK
    <3> QED
      BY <3>1, <3>2
  <2>4. ASSUME NEW b \in Bookings, NEW t \in Began, OrderRefused(b, t) PROVE Stands(c)
    <3>1. PICK R \in SUBSET Bookings :
            /\ \A e \in R : ~ Live(e)
            /\ \A e \in Bookings \ (R \union {b}) : hold'[e] = hold[e]
      BY <1>1, <2>4, OrderRefusedSeats
    <3>2. call[b] = "calling" /\ call'[b] = "refused"
      BY <1>1, <2>4 DEF OrderRefused, TypeOK
    <3> QED
      BY <2>1, <3>1, <3>2
  <2>5. ASSUME NEW b \in Bookings, NEW t \in Began, PlaceOrder(b, t) PROVE Stands(c)
    <3>1. /\ status[b] = "none" /\ status'[b] = "pending"
          /\ hold' = [e \in Bookings |-> IF e = b THEN t + Hold
                                         ELSE IF e \in ToRelease(b, t) THEN t ELSE hold[e]]
      BY <1>1, <2>5 DEF PlaceOrder, TypeOK
    <3>2. CASE c = b
      BY <3>1, <3>2 DEF Live
    <3>3. CASE c # b /\ c \notin ToRelease(b, t)
      BY <2>1, <3>1, <3>3
    <3>4. CASE c \in ToRelease(b, t)
      BY <3>1, <3>4 DEF ToRelease
    <3> QED
      BY <3>2, <3>3, <3>4
  <2> QED
    BY <1>1, <2>2, <2>3, <2>4, <2>5 DEF Next
<1>2. MoneyInv => TypeOK
  BY DEF MoneyInv
<1>3. MoneyInv /\ [Next]_vars => \A c \in Bookings : Stands(c)
  BY <1>1, <1>2
<1> QED
  BY <1>3, MoneyInit, MoneyStep, PTL DEF Spec, StrangersHoldsStand

-----------------------------------------------------------------------------
(* The handlers of BookingOrders implement SeatPromise.                     *)

\* What each phase stands for in the booking's row.
PhaseMeans(b) ==
  /\ Phase[b] = "none" <=> status[b] = "none"
  /\ Phase[b] = "sold" <=> status[b] \in Sold
  /\ Phase[b] = "held" <=> Live(b)
  /\ Phase[b] = "lapsed" <=> AwaitingPayment(b) /\ ~ Live(b)
  /\ Phase[b] = "closed" <=> status[b] = "cancelled" /\ reason[b] # "hold_expired"
  /\ Phase[b] \in {"none", "sold", "held", "lapsed", "closed"}

LEMMA PhaseNow == ASSUME TypeOK, NEW b \in Bookings PROVE PhaseMeans(b)
<1>1. status[b] \in Statuses
  BY DEF TypeOK
<1> QED
  BY <1>1 DEF PhaseMeans, Phase, Live, AwaitingPayment, Statuses, Sold

LEMMA PhaseNext == ASSUME TypeOK', NEW b \in Bookings PROVE PhaseMeans(b)'
<1>1. status'[b] \in Statuses
  BY DEF TypeOK
<1> QED
  BY <1>1 DEF PhaseMeans, Phase, Live, AwaitingPayment, Statuses, Sold

\* SeatPromise counts with the same Cardinality.
LEMMA SameCount == ASSUME NEW S PROVE Promise!Cardinality(S) = Cardinality(S)
BY DEF Promise!Cardinality, Cardinality

\* The promise counts the seats the view counts.
LEMMA SeatedNow ==
  ASSUME TypeOK, NEW d PROVE Promise!Seated(d) = Seated(Holding(clock), d)
<1>1. \A b \in Bookings : Phase[b] \in {"held", "sold"} <=> b \in Holding(clock)
  BY PhaseNow DEF PhaseMeans, Holding, Live
<1>2. \A x \in Travellers : BookingOf[x] \in Bookings
  BY RowsAssumption
<1> QED
  BY <1>1, <1>2 DEF Promise!Seated, Seated

LEMMA SeatedNext ==
  ASSUME TypeOK', NEW d \in Departures
  PROVE  Promise!Seated(d)' = Seated(Holding(clock), d)'
<1>1. \A b \in Bookings : Phase'[b] \in {"held", "sold"} <=> b \in Holding(clock)'
  BY PhaseNext DEF PhaseMeans, Holding, Live
<1>2. \A x \in Travellers : BookingOf[x] \in Bookings
  BY RowsAssumption
<1> QED
  BY <1>1, <1>2 DEF Promise!Seated, Seated

\* Room for a party in the view is room in the promise.
LEMMA RoomNext ==
  ASSUME TypeOK', NEW b \in Bookings, GivenRoom(b)
  PROVE  Promise!Room(DepartureOf[b])'
<1>1. DepartureOf[b] \in Departures
  BY RowsAssumption
<1> QED
  BY <1>1, SeatedNext, SameCount DEF GivenRoom, Promise!Room

LEMMA PromiseInit == Init => Promise!Init
BY DEF Init, Promise!Init, Phase, Sold, Live, AwaitingPayment

\* A walk hands out free seats only.
LEMMA WalkIsFree ==
  ASSUME TypeOK, TypeOK', NEW B, NEW d \in Departures, Walk(B, d), seats' = seats,
         Holding(clock)' \subseteq B
  PROVE  /\ \E n \in 0..MaxAside : aside' = [aside EXCEPT ![d] = n]
         /\ aside'[d] <= aside[d] \/ Promise!Room(d)'
<1>1. PICK n \in 0..MaxAside :
        /\ n <= aside[d] \/ n + Cardinality(Seated(B, d)) <= seats[d]
        /\ aside' = [aside EXCEPT ![d] = n]
  BY DEF Walk
<1>2. aside'[d] = n
  BY <1>1 DEF TypeOK
<1>3. CASE n <= aside[d]
  BY <1>1, <1>2, <1>3
<1>4. CASE n + Cardinality(Seated(B, d)) <= seats[d]
  <2>1. /\ Cardinality(Seated(Holding(clock)', d)) \in Nat
        /\ Cardinality(Seated(Holding(clock)', d)) <= Cardinality(Seated(B, d))
        /\ Cardinality(Seated(B, d)) \in Nat
    BY SeatedCount
  <2>2. Seated(Holding(clock), d)' = Seated(Holding(clock)', d)
    BY DEF Seated
  <2>3. n \in Nat /\ seats[d] \in Nat
    BY <1>1, TimesAssumption, DateNumbers
  <2>4. Cardinality(Promise!Seated(d))' + aside'[d] <= seats'[d]
    BY <1>2, <1>4, <2>1, <2>2, <2>3, SeatedNext
  <2> QED
    BY <1>1, <2>4, SameCount DEF Promise!Room
<1> QED
  BY <1>1, <1>3, <1>4

\* A booking that ends, whose seats a walk hands on.
LEMMA EndIsClose ==
  ASSUME TypeOK, TypeOK', NEW b \in Bookings,
         status[b] \in Sold \union {"pending"},
         status' = [status EXCEPT ![b] = "cancelled"],
         reason'[b] # "hold_expired",
         \A c \in Bookings \ {b} : reason'[c] = reason[c] /\ hold'[c] = hold[c],
         clock' = clock, seats' = seats,
         Walk(Holding(clock) \ {b}, DepartureOf[b])
  PROVE  Promise!Close(b)
<1>1. Phase[b] \in {"held", "lapsed", "sold"}
  BY PhaseNow DEF PhaseMeans, AwaitingPayment
<1>2. status'[b] = "cancelled" /\ \A c \in Bookings \ {b} : status'[c] = status[c]
  BY DEF TypeOK
<1>3. Phase' = [Phase EXCEPT ![b] = "closed"]
  BY <1>2 DEF Phase, Live, AwaitingPayment, Sold
<1>4. Holding(clock)' \subseteq Holding(clock) \ {b}
  BY <1>2 DEF Holding, Sold
<1>5. DepartureOf[b] \in Departures
  BY RowsAssumption
<1> QED
  BY <1>1, <1>3, <1>4, <1>5, WalkIsFree DEF Promise!Close

\* Orders, their undo and the clock: bookings come to hold seats that are
\* free, and lose them by lapsing.
LEMMA HoldsAreReseats ==
  ASSUME TypeOK, TypeOK', seats' = seats, aside' = aside,
         \A c \in Bookings :
           /\ \/ status'[c] = status[c]
              \/ status[c] = "none" /\ status'[c] = "pending"
           /\ reason'[c] = reason[c],
         \A c \in Bookings : ~ Live(c) /\ Live(c)' => GivenRoom(c)
  PROVE  Promise!Next
<1> DEFINE H == {c \in Bookings : ~ Live(c) /\ Live(c)'}
           L == {c \in Bookings : Phase[c] \in {"none", "held"} /\ Phase'[c] = "lapsed"}
<1>1. ASSUME NEW c \in Bookings
      PROVE  /\ c \in H => Phase[c] \in {"none", "lapsed"} /\ Phase'[c] = "held"
             /\ c \in L => c \notin H
             /\ c \notin H /\ c \notin L => Phase'[c] = Phase[c]
  <2>1. PhaseMeans(c) /\ PhaseMeans(c)'
    BY PhaseNow, PhaseNext
  <2>2. AwaitingPayment(c)' <=> \/ status'[c] = "pending"
                                \/ status'[c] = "cancelled" /\ reason'[c] = "hold_expired"
    BY DEF AwaitingPayment
  <2>3. AwaitingPayment(c) <=> \/ status[c] = "pending"
                               \/ status[c] = "cancelled" /\ reason[c] = "hold_expired"
    BY DEF AwaitingPayment
  <2>4. (Live(c) => status[c] = "pending") /\ (Live(c)' => status'[c] = "pending")
    BY DEF Live
  <2> QED
    BY <2>1, <2>2, <2>3, <2>4 DEF PhaseMeans, Sold
<1>2. Phase' = [c \in Bookings |-> IF c \in H THEN "held"
                                   ELSE IF c \in L THEN "lapsed" ELSE Phase[c]]
  <2>1. Phase' = [c \in Bookings |-> Phase'[c]]
    BY DEF Phase
  <2> QED
    BY <1>1, <2>1
<1>3. \A c \in H : Promise!Room(DepartureOf[c])'
  BY RoomNext
<1>4. /\ H \in SUBSET (Promise!With("none") \union Promise!With("lapsed"))
      /\ L \in SUBSET (Promise!With("none") \union Promise!With("held"))
  BY <1>1 DEF Promise!With
<1> HIDE DEF H, L
<1>5. Promise!Reseat(H, L)
  BY <1>2, <1>3 DEF Promise!Reseat
<1> QED
  BY <1>4, <1>5 DEF Promise!Next

\* Money on a booking that exists sells its seats, closes it, or changes
\* nothing the promise speaks of.
LEMMA SettleIsSell ==
  ASSUME MoneyInv, TypeOK', NEW b \in Bookings, NEW amount \in Nat, NEW t \in Began,
         status[b] # "none", Settle(b, amount, t)
  PROVE  Promise!Next \/ UNCHANGED Promise!vars
<1> DEFINE settled == Settled(b, paid[b] + amount, t)
           d == DepartureOf[b]
<1>0. TypeOK /\ d \in Departures
  BY RowsAssumption DEF MoneyInv
<1>1. /\ status' = [status EXCEPT ![b] = StatusAfter(b, settled)]
      /\ reason' = [reason EXCEPT ![b] = ReasonAfter(b, settled)]
      /\ UNCHANGED <<clock, seats, hold>>
  BY DEF Settle
<1>2. PICK n \in 0..aside[d] :
        /\ n = aside[d] \/ settled \in {"confirmed", "deposit"}
        /\ aside' = [aside EXCEPT ![d] = n]
  BY DEF Settle
<1>3. /\ status'[b] = StatusAfter(b, settled) /\ reason'[b] = ReasonAfter(b, settled)
      /\ \A c \in Bookings \ {b} : status'[c] = status[c] /\ reason'[c] = reason[c]
  <2> HIDE DEF settled
  <2> QED
    BY <1>0, <1>1 DEF TypeOK
<1>4. PhaseMeans(b) /\ PhaseMeans(b)'
  BY <1>0, PhaseNow, PhaseNext
<1>5. ASSUME NEW ph, Phase'[b] = ph PROVE Phase' = [Phase EXCEPT ![b] = ph]
  <2>1. ASSUME NEW c \in Bookings \ {b} PROVE Phase'[c] = Phase[c]
    <3>1. /\ status'[c] = status[c] /\ reason'[c] = reason[c]
          /\ hold' = hold /\ clock' = clock
      BY <1>1, <1>3
    <3> QED
      BY <3>1 DEF Phase, Live, AwaitingPayment
  <2>2. Phase' = [c \in Bookings |-> Phase'[c]] /\ Phase = [c \in Bookings |-> Phase[c]]
    BY DEF Phase
  <2> QED
    BY <1>5, <2>1, <2>2
<1>6. aside' = aside \/ settled \in {"confirmed", "deposit"}
  BY <1>0, <1>2 DEF TypeOK
<1>7. CASE settled \in {"confirmed", "deposit"}
  <2>1. AwaitingPayment(b) /\ SeatsThere(b, t) /\ status[b] \notin Sold
    <3>1. status[b] # "partially_paid"
      BY <1>7 DEF Settled, AwaitingPayment
    <3>2. AwaitingPayment(b)
      BY <1>7, <3>1 DEF Settled
    <3>3. SeatsThere(b, t)
      BY <1>7, <3>1, <3>2 DEF Settled
    <3> QED
      BY <3>2, <3>3 DEF AwaitingPayment, Sold
  <2>2. Phase[b] \in {"held", "lapsed"}
    BY <1>4, <2>1 DEF PhaseMeans
  <2>3. status'[b] \in Sold
    <3> HIDE DEF settled
    <3> QED
      BY <1>3, <1>7 DEF StatusAfter, Sold
  <2>4. Phase' = [Phase EXCEPT ![b] = "sold"]
    BY <1>4, <1>5, <2>3 DEF PhaseMeans
  <2>5. ASSUME Phase[b] = "lapsed" PROVE Promise!Room(d)'
    <3>1. b \notin Holding(clock) /\ b \in Holding(clock)'
      BY <1>4, <2>1, <2>3, <2>5 DEF PhaseMeans, Holding, Live
    <3> QED
      BY <3>1, SettleSeats, RoomNext
  <2>6. Promise!Sell(b)
    BY <1>1, <1>2, <2>2, <2>4, <2>5 DEF Promise!Sell
  <2> QED
    BY <2>6 DEF Promise!Next
<1>8. CASE settled = "seats_gone"
  <2>1. AwaitingPayment(b) /\ ~ SeatsThere(b, t)
    <3>0. paid[b] + amount \in Nat /\ Ask[b] \in Nat
      BY <1>0, AmountsAssumption DEF TypeOK
    <3>1. status[b] # "partially_paid"
      BY <1>8 DEF Settled, AwaitingPayment
    <3>2. AwaitingPayment(b)
      BY <1>8, <3>1 DEF Settled
    <3>3. ~ SeatsThere(b, t)
      BY <1>8, <3>0, <3>1, <3>2 DEF Settled
    <3> QED
      BY <3>2, <3>3
  <2>2. Phase[b] = "lapsed"
    BY <1>4, <2>1 DEF PhaseMeans, SeatsThere
  <2>3. status'[b] = "cancelled" /\ reason'[b] = "seats_gone"
    <3> HIDE DEF settled
    <3> QED
      BY <1>3, <1>8 DEF StatusAfter, ReasonAfter
  <2>4. Phase' = [Phase EXCEPT ![b] = "closed"]
    BY <1>4, <1>5, <2>3 DEF PhaseMeans
  <2>5. aside' = [aside EXCEPT ![d] = aside[d]] /\ aside[d] \in 0..MaxAside
        /\ aside'[d] <= aside[d]
    BY <1>0, <1>6, <1>8, DateNumbers DEF TypeOK
  <2>6. Promise!Close(b)
    BY <1>1, <2>2, <2>4, <2>5 DEF Promise!Close
  <2> QED
    BY <2>6 DEF Promise!Next
<1>9. CASE settled \notin {"confirmed", "deposit", "seats_gone"}
  <2>1. ReasonAfter(b, settled) = reason[b]
    <3> HIDE DEF settled
    <3> QED
      BY <1>9 DEF ReasonAfter
  <2>2. StatusAfter(b, settled) = status[b] \/ (status[b] \in Sold /\ status'[b] \in Sold)
    <3>1. settled = "paid_in_full" => status[b] = "partially_paid"
      BY DEF Settled, AwaitingPayment
    <3> HIDE DEF settled
    <3> QED
      BY <1>3, <1>9, <3>1 DEF StatusAfter, Sold
  <2>3. Phase'[b] = Phase[b]
    <3>1. CASE StatusAfter(b, settled) = status[b]
      BY <1>1, <1>3, <2>1, <3>1 DEF Phase, Live, AwaitingPayment
    <3>2. CASE status[b] \in Sold /\ status'[b] \in Sold
      BY <1>4, <3>2 DEF PhaseMeans
    <3> QED
      BY <2>2, <3>1, <3>2
  <2>4. Phase' = [Phase EXCEPT ![b] = Phase[b]]
    BY <1>5, <2>3
  <2>5. Phase' = Phase
    BY <2>4 DEF Phase
  <2> QED
    BY <1>1, <1>6, <1>9, <2>5 DEF Promise!vars
<1> QED
  BY <1>7, <1>8, <1>9

-----------------------------------------------------------------------------
\* Every step of the handlers is a step of the promise, or a stutter.
LEMMA PromiseStep == MoneyInv /\ [Next]_vars => [Promise!Next]_(Promise!vars)
<1> SUFFICES ASSUME MoneyInv, [Next]_vars
             PROVE  Promise!Next \/ UNCHANGED Promise!vars
  OBVIOUS
<1>0. TypeOK /\ TypeOK'
  BY TypeStep DEF MoneyInv
<1>1. ASSUME UNCHANGED <<clock, status, reason, hold, seats, aside>>
      PROVE  UNCHANGED Promise!vars
  BY <1>1 DEF Promise!vars, Phase, Live, AwaitingPayment
<1>2. CASE Tick
  <2>1. ASSUME NEW c \in Bookings, Live(c)' PROVE Live(c)
    BY <1>0, <1>2, <2>1 DEF Tick, rowVars, Live, TypeOK
  <2> QED
    BY <1>0, <1>2, <2>1, HoldsAreReseats DEF Tick, rowVars
<1>3. CASE Sweep
  <2>1. ASSUME NEW c \in Bookings PROVE Phase'[c] = Phase[c]
    <3>1. PhaseMeans(c) /\ PhaseMeans(c)'
      BY <1>0, PhaseNow, PhaseNext
    <3>2. /\ clock' = clock /\ hold' = hold
          /\ \/ status'[c] = status[c] /\ reason'[c] = reason[c]
             \/ Expired(c) /\ status'[c] = "cancelled" /\ reason'[c] = "hold_expired"
             \/ status[c] = "confirmed" /\ status'[c] = "completed"
      BY <1>3 DEF Sweep, Departed
    <3>3. CASE status'[c] = status[c] /\ reason'[c] = reason[c]
      BY <3>2, <3>3 DEF Phase, Live, AwaitingPayment
    <3>4. CASE Expired(c) /\ status'[c] = "cancelled" /\ reason'[c] = "hold_expired"
      <4>1. status[c] = "pending" /\ ~ Live(c)
        BY <1>0, <3>4, TimesAssumption DEF Expired, Live, TypeOK
      <4>2. Phase[c] = "lapsed" /\ Phase'[c] = "lapsed"
        BY <3>1, <3>4, <4>1 DEF PhaseMeans, AwaitingPayment, Live
      <4> QED
        BY <4>2
    <3>5. CASE status[c] = "confirmed" /\ status'[c] = "completed"
      BY <3>1, <3>5 DEF PhaseMeans, Sold
    <3> QED
      BY <3>2, <3>3, <3>4, <3>5
  <2>2. Phase' = Phase
    <3>1. Phase' = [c \in Bookings |-> Phase'[c]] /\ Phase = [c \in Bookings |-> Phase[c]]
      BY DEF Phase
    <3> QED
      BY <2>1, <3>1
  <2> QED
    BY <1>3, <2>2 DEF Sweep, Promise!vars
<1>4. CASE \/ UNCHANGED vars
           \/ \E d \in Departures : DayPasses(d)
           \/ \E b \in Bookings : \/ OrderOpened(b) \/ OrderLost(b)
                                  \/ RequestCancellation(b) \/ Reject(b)
                                  \/ GraceEnds(b) \/ ExtendDue(b)
           \/ \E p \in Payments : PayFails(p) \/ Pay(p) \/ RecordFailed(p)
  BY <1>1, <1>4 DEF vars, DayPasses, OrderOpened, OrderLost, RequestCancellation,
                    Reject, GraceEnds, ExtendDue, PayFails, Pay, RecordFailed, rowVars
<1>5. ASSUME NEW d \in Departures, SetAside(d) PROVE Promise!Next
  <2>1. /\ Walk(Holding(clock), d) /\ seats' = seats
        /\ UNCHANGED <<clock, status, reason, hold>>
    BY <1>5 DEF SetAside, rowVars
  <2>2. Holding(clock)' \subseteq Holding(clock) /\ Phase' = Phase
    BY <2>1 DEF Holding, Phase, Live, AwaitingPayment
  <2>3. Promise!SetAside(d)
    BY <1>0, <2>1, <2>2, WalkIsFree DEF Promise!SetAside
  <2> QED
    BY <2>3 DEF Promise!Next
<1>6. ASSUME NEW d \in Departures, NEW n \in SeatTotals, SaveSeats(d, n)
      PROVE  Promise!Next
  <2>1. seats' = [seats EXCEPT ![d] = n] /\ aside' = aside
        /\ UNCHANGED <<clock, status, reason, hold>>
    BY <1>6 DEF SaveSeats, rowVars
  <2>2. Phase' = Phase
    BY <2>1 DEF Phase, Live, AwaitingPayment
  <2>3. Promise!Resize(d)
    BY <2>1, <2>2 DEF Promise!Resize
  <2> QED
    BY <2>3 DEF Promise!Next
<1>7. ASSUME NEW b \in Bookings, NEW t \in Began, OrderRefused(b, t) PROVE Promise!Next
  <2>1. PICK R \in SUBSET Bookings :
          /\ Holding(clock)' \subseteq Holding(clock) \union R
          /\ \A c \in R : ~ Live(c) /\ GivenRoom(c)
    BY <1>0, <1>7, OrderRefusedSeats
  <2>2. UNCHANGED <<clock, seats, aside, status, reason>>
    BY <1>7 DEF OrderRefused
  <2>3. ASSUME NEW c \in Bookings, ~ Live(c), Live(c)' PROVE GivenRoom(c)
    BY <2>1, <2>2, <2>3 DEF Live, Holding, Sold
  <2> QED
    BY <1>0, <2>2, <2>3, HoldsAreReseats
<1>8. ASSUME NEW b \in Bookings, NEW t \in Began, PlaceOrder(b, t) PROVE Promise!Next
  <2>1. Holding(clock)' \subseteq Holding(clock) \union {b} /\ GivenRoom(b)
    BY <1>0, <1>8, PlaceOrderSeats
  <2>2. /\ UNCHANGED <<clock, seats, aside, reason>>
        /\ \A c \in Bookings : \/ status'[c] = status[c]
                               \/ status[c] = "none" /\ status'[c] = "pending"
    BY <1>0, <1>8 DEF PlaceOrder, TypeOK
  <2>3. ASSUME NEW c \in Bookings, ~ Live(c), Live(c)' PROVE GivenRoom(c)
    BY <2>1, <2>2, <2>3 DEF Live, Holding, Sold
  <2> QED
    BY <1>0, <2>2, <2>3, HoldsAreReseats
<1>9. ASSUME NEW b \in Bookings, ReleaseHold(b) PROVE Promise!Next
  <2>1. /\ status[b] = "pending" /\ status' = [status EXCEPT ![b] = "cancelled"]
        /\ clock' = clock /\ seats' = seats
        /\ Walk(Holding(clock) \ {b}, DepartureOf[b])
    BY <1>9 DEF ReleaseHold
  <2>2. /\ reason'[b] = "owner_released"
        /\ \A c \in Bookings \ {b} : reason'[c] = reason[c] /\ hold'[c] = hold[c]
    BY <1>0, <1>9 DEF ReleaseHold, TypeOK
  <2>3. Promise!Close(b)
    BY <1>0, <2>1, <2>2, EndIsClose
  <2> QED
    BY <2>3 DEF Promise!Next
<1>10. ASSUME NEW b \in Bookings, NEW r \in 0..paid[b], Approve(b, r) PROVE Promise!Next
  <2>1. /\ status[b] \in Sold /\ status' = [status EXCEPT ![b] = "cancelled"]
        /\ clock' = clock /\ seats' = seats
        /\ Walk(Holding(clock) \ {b}, DepartureOf[b])
    BY <1>10 DEF Approve, Cancellable, Sold
  <2>2. /\ reason'[b] = "cancellation_approved"
        /\ \A c \in Bookings \ {b} : reason'[c] = reason[c] /\ hold'[c] = hold[c]
    BY <1>0, <1>10 DEF Approve, TypeOK
  <2>3. Promise!Close(b)
    BY <1>0, <2>1, <2>2, EndIsClose
  <2> QED
    BY <2>3 DEF Promise!Next
<1>13. ASSUME NEW b \in Bookings, NEW r \in 0..paid[b], CancelOverdue(b, r)
       PROVE  Promise!Next
  <2>1. /\ status[b] \in Sold /\ status' = [status EXCEPT ![b] = "cancelled"]
        /\ clock' = clock /\ seats' = seats
        /\ Walk(Holding(clock) \ {b}, DepartureOf[b])
    BY <1>13 DEF CancelOverdue, CancelForBalance, Sold
  <2>2. /\ reason'[b] = "balance_unpaid"
        /\ \A c \in Bookings \ {b} : reason'[c] = reason[c] /\ hold'[c] = hold[c]
    BY <1>0, <1>13 DEF CancelOverdue, CancelForBalance, TypeOK
  <2>3. Promise!Close(b)
    BY <1>0, <2>1, <2>2, EndIsClose
  <2> QED
    BY <2>3 DEF Promise!Next
<1>11. ASSUME NEW b \in Bookings, MarkPaid(b) \/ MarkBalancePaid(b)
       PROVE  Promise!Next \/ UNCHANGED Promise!vars
  <2>1. clock \in Began
    BY <1>0, TimesAssumption DEF Began, TypeOK
  <2> QED
    BY <1>0, <1>11, <2>1, MarkPaidSettles, MarkBalanceSettles, SettleIsSell
<1>12. ASSUME NEW p \in Payments, NEW t \in Began, Capture(p, t)
       PROVE  Promise!Next \/ UNCHANGED Promise!vars
  BY <1>0, <1>12, CaptureSettles, SettleIsSell
<1> QED
  BY <1>2, <1>3, <1>4, <1>5, <1>6, <1>7, <1>8, <1>9, <1>10, <1>11, <1>12, <1>13 DEF Next

\* The handlers keep the promise about seats, for every number of bookings,
\* seats and clock bounds: BookingOrders implements SeatPromise.
THEOREM PromiseKept == Spec => KeepsSeatPromise
BY PromiseInit, PromiseStep, MoneyInit, MoneyStep, PTL
   DEF Spec, KeepsSeatPromise, Promise!Spec

=============================================================================
