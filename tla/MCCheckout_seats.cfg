\* A departure of one seat, a party of one or of two (which never fits), two
\* orders, and a read of the departures in flight beside every other step.
CONSTANTS
  o1 = o1  o2 = o2  alone = alone  pair = pair  None = None
  Orders = {o1, o2}
  Forms = {alone, pair}
  Party <- TwoParties
  Seats = 1
  Slots = {1}
  MaxTroubles = 0
SPECIFICATION Spec
SYMMETRY Alike
INVARIANTS OwnSeatsCountOnce
CHECK_DEADLOCK FALSE
