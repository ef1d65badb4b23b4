\* A couple and someone alone wait for two seats; four ticks, offers of two.
CONSTANTS
  ana = ana  bo = bo  None = None
  People = {ana, bo}
  Party <- Couples
  Sizes = {1, 2}
  Capacity = 2
  Bookings = {1, 2}
  OfferFor = 2
  MinOffer = 2
  MaxOffers = 1
  HoldFor = 1
  LastJoin = 1
  MaxCalls = 1
  Cutoff = 4
SPECIFICATION Spec
INVARIANTS TypeOK NoSeatTwice ClaimKeepsItsHold
PROPERTIES ServedInOrder ListEnds
