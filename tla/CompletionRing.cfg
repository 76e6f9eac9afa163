\* Two kinds of message, the bus going down and up at any step.
SPECIFICATION FairSpec
CONSTANTS
  Depth = 4
  Threshold = 2
  Suspends = TRUE
  Items <- MCItems
  Stale = none
  m1 = m1
  m2 = m2
  none = none
PROPERTIES RefinesFifo SlotsReturned MessageHandled
