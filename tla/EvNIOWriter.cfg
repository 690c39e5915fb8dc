SPECIFICATION FairSpec
CONSTANTS
  p1 = p1
  p2 = p2
  Pumps = {p1, p2}
  NoPump = NoPump
  MaxBlock = 2
  MaxBytes = 5
  MaxMore = 1
INVARIANTS TypeOK NoStall CallbacksFindWork InOrder EmptyMeansDelivered
PROPERTIES ImplementsByteStream Drains
