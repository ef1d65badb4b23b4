\* One extra bought on a part-paid booking and taken off by the owner.
CONSTANTS
  d1 = d1  d2 = d2  b1 = b1  x1 = x1  transfer = transfer  None = None
  Dates = {d1, d2}
  Capacity <- TwoCapacities
  Fare <- TwoFares
  Near = {}
  Fee = 0
  Parties = {1, 2}
  Addons = {transfer}
  Price <- OnePrice
  Changes = {}
  Parts = {b1}
  Extras = {x1}
  AddonOf <- OneExtraOf
  Wanted = {}
  MaxFees = 0
  MaxPays <- ExtraTwice
SPECIFICATION Spec
INVARIANT ConfirmedIsPaid
CHECK_DEADLOCK FALSE
