\* Two orders for the last seat, no reads, and one call lost or window hidden,
\* with fairness.
CONSTANTS
  o1 = o1  o2 = o2  alone = alone  pair = pair  None = None
  Orders = {o1, o2}
  Forms = {alone}
  Party <- OneParty
  Seats = 1
  Slots = {}
  MaxTroubles = 1
SPECIFICATION FairSpec
INVARIANTS TypeOK PaidTwiceOnlyAfterTrouble OutcomesAreTrue
PROPERTIES BusyEnds TakenMoneyIsTold
CHECK_DEADLOCK FALSE
