\* A station that closes and opens, suppression, and two access categories with one
\* credit each, so that one borrows of the other.
CONSTANTS
  NDests = 2
  NAC = 2
  NPackets = 2
  Slots = {s1, s2}
  NoSlot = NoSlot
  PsqLen = 3
  Hi = 2
  Low = 1
  Explicit = FALSE
  BusFails = FALSE
  Deletes = FALSE
  Upsets = 2
  MaxRequest = 0
  Credits <- OneEach
  Traffic <- OneStation
  s1 = s1
  s2 = s2
  s3 = s3
  s4 = s4
  s5 = s5
SPECIFICATION FairSpec
INVARIANT CountsExact
INVARIANT CreditBalance
PROPERTY EarliestFirst
PROPERTY EventuallyFinalised
CHECK_DEADLOCK FALSE
