SPECIFICATION Spec
CONSTANTS
  p1 = p1
  Pumps = {p1}
  NoPump = NoPump
  MaxBlock = 2
  MaxBytes = 3
  MaxMore = 1
INVARIANT ErrorsAreIOErrors
