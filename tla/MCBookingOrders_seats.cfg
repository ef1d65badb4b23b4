\* Three orders of overlapping contacts (b1 and b2 share an email, b2 and b3 a
\* phone) on one date of one or two seats, orders refused by Razorpay.
CONSTANTS
  b1 = b1  b2 = b2  b3 = b3
  t1 = t1  t2 = t2  t3 = t3  t4 = t4
  d1 = d1
  p1 = p1  p2 = p2  p3 = p3
  Bookings = {b1, b2, b3}
  Travellers = {t1, t2, t3, t4}
  Departures = {d1}
  Payments = {p1}
  BookingOf <- OneDateBookingOf
  DepartureOf <- OneDate
  Email <- SharedEmail
  Phone <- SharedPhone
  Total <- FullTotal
  Ask <- FullTotal
  PaymentOf <- P1Only
  SeatTotals = {1, 2}
  Hold = 2
  LapsedFor = 0
  MaxWait = 1
  MaxClock = 1
  MaxAside = 1
  Attended = {}
  Passing = {}
SPECIFICATION Spec
PROPERTIES SeatsGivenOnlyWhenFree StrangersHoldsStand KeepsSeatPromise
CHECK_DEADLOCK FALSE
