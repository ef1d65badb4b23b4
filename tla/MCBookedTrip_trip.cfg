\* Two changes, a part of the balance and an extra that may be paid for twice,
\* against the owner, the tidy, and one other traveller on the second date.
CONSTANTS
  d1 = d1  d2 = d2  b1 = b1  x1 = x1  transfer = transfer  None = None
  Dates = {d1, d2}
  Capacity <- TwoCapacities
  Fare <- TwoFares
  Near = {d2}
  Fee = 1
  Parties = {1, 2}
  Addons = {transfer}
  Price <- OnePrice
  Changes = {1, 2}
  Parts = {b1}
  Extras = {x1}
  AddonOf <- OneExtraOf
  Wanted = {d2}
  MaxFees = 0
  MaxPays <- ExtraTwice
SPECIFICATION Spec
INVARIANTS TypeOK NoDateOversold TotalIsThePrice HoldsItsMoney OneOnlineChange
PROPERTY ChangeMoneyMovesOrReturns
CHECK_DEADLOCK FALSE
