\* A ring of four slots, two different messages, the bus going down and up.
SPECIFICATION Spec
CONSTANTS
  Depth = 4
  MaxBatch = 3
  Suspends = TRUE
  Items <- MCItems
  Stale = none
  m1 = m1
  m2 = m2
  none = none
INVARIANTS PointersInOrder UnreadFilled
PROPERTIES PublishedImmutable RefinesFifo DrainedRingAccepts
