SPECIFICATION FairSpec
CONSTANTS
  a = a  b = b  c = c
  NULL = NULL
  Members <- Three
  Reading = {a, b, c}
  Capacity = 1
  MaxMessages = 2
INVARIANTS TypeOK OneOrder
PROPERTIES ReadersAreAnswered
