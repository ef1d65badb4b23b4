\* One payment, two senders; Razorpay may forget a key, and make what it had
\* refused.
CONSTANTS
  r1 = r1  r2 = r2  r3 = r3
  p1 = p1  p2 = p2
  s1 = s1  s2 = s2
  Rows = {r1, r2}
  Payments = {p1}
  PaymentOf <- OnePaymentOf
  Amount <- OneAmount
  Age <- OneAge
  Offline = {}
  Total = 1
  Dues = {}
  Lines = {1}
  Senders = {s1, s2}
  MaxMade = 2
SPECIFICATION Spec
SYMMETRY Alike
INVARIANTS MoneyAdds BooksMatch LeftIsOffTheBooks
PROPERTY KeepsRefundPromise
CHECK_DEADLOCK FALSE
