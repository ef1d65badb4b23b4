\* b1 pays a deposit on an order that can be captured twice, against seats set
\* aside for others; the desk, a cancellation request, the sweep and the tidy
\* meet it; with fairness.
CONSTANTS
  b1 = b1  b2 = b2  b3 = b3
  t1 = t1  t2 = t2  t3 = t3  t4 = t4
  d1 = d1
  p1 = p1  p2 = p2  p3 = p3
  Bookings = {b1}
  Travellers = {t1}
  Departures = {d1}
  Payments = {p1, p2}
  BookingOf <- SoloBookingOf
  DepartureOf <- SoloDate
  Email <- SoloContact
  Phone <- SoloContact
  Total <- SoloTotal
  Ask <- SoloAsk
  PaymentOf <- SoloPaymentOf
  SeatTotals = {1}
  Hold = 1
  LapsedFor = 0
  MaxWait = 1
  MaxClock = 1
  MaxAside = 1
  Attended = {b1}
  Passing = {d1}
SPECIFICATION FairSpec
INVARIANTS TypeOK MoneyAccounted MoneyHasAHome
PROPERTIES PendingEnds CapturedMoneySettles FinalCancellationStands SoldSeatsStand
CHECK_DEADLOCK FALSE
