\* One flow and three packets, no failures: the exact properties, and liveness with
\* as many packet ids as packets.
SPECIFICATION FairSpec
CONSTANTS
  NFlows = 1
  NPackets = 3
  PktIds = {i1, i2, i3}
  NoPkt = NoPkt
  Slots = 1
  Trickle = 2
  Delay = 2
  Flush1 = 1
  Flush2 = 2
  Outruns = FALSE
  Refuses = FALSE
  TimesOut = FALSE
  Suspends = FALSE
  i1 = i1
  i2 = i2
  i3 = i3
INVARIANTS QuietRemoval OutstandingExact DeviceRingsBacked PacketsInOrder
PROPERTIES EventuallyFinalised
CHECK_DEADLOCK FALSE
