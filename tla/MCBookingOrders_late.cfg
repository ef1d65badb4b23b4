\* Three orders of overlapping contacts on one date of two seats; a capture may
\* wait for its locks until its hold has ended.
CONSTANTS
  b1 = b1  b2 = b2  b3 = b3
  t1 = t1  t2 = t2  t3 = t3  t4 = t4
  d1 = d1
  p1 = p1  p2 = p2  p3 = p3
  Bookings = {b1, b2, b3}
  Travellers = {t1, t2, t3, t4}
  Departures = {d1}
  Payments = {p1}
  BookingOf <- OneDateBookingOf
  DepartureOf <- OneDate
  Email <- SharedEmail
  Phone <- SharedPhone
  Total <- FullTotal
  Ask <- FullTotal
  PaymentOf <- P1Only
  SeatTotals = {2}
  Hold = 2
  LapsedFor = 0
  MaxWait = 1
  MaxClock = 1
  MaxAside = 1
  Attended = {}
  Passing = {}
SPECIFICATION Spec
PROPERTIES SeatsGoneOnlyWhenTaken
CHECK_DEADLOCK FALSE
