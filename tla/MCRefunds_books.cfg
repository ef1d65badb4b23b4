\* Two payments, the newer made offline, one sender, with fairness.
CONSTANTS
  r1 = r1  r2 = r2  r3 = r3
  p1 = p1  p2 = p2
  s1 = s1  s2 = s2
  Rows = {r1, r2, r3}
  Payments = {p1, p2}
  PaymentOf <- TwoPaymentsOf
  Amount <- TwoAmounts
  Age <- TwoAges
  Offline = {p2}
  Total = 2
  Dues = {1}
  Lines = {1}
  Senders = {s1}
  MaxMade = 1
SPECIFICATION FairSpec
INVARIANTS TypeOK FlagTells PaymentsHoldIt
PROPERTY RefundsEnd
CHECK_DEADLOCK FALSE
