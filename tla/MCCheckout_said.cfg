\* One order and no trouble: its hold ends before the window is closed.
CONSTANTS
  o1 = o1  o2 = o2  alone = alone  pair = pair  None = None
  Orders = {o1}
  Forms = {alone}
  Party <- OneParty
  Seats = 1
  Slots = {}
  MaxTroubles = 0
SPECIFICATION Spec
INVARIANT PaymentSaidIsTaken
CHECK_DEADLOCK FALSE
