\* Two flows that share one packet id; requests refused, deletions that time out, the
\* bus going down.
SPECIFICATION Spec
CONSTANTS
  NFlows = 2
  NPackets = 2
  PktIds = {i1}
  NoPkt = NoPkt
  Slots = 1
  Trickle = 2
  Delay = 2
  Flush1 = 1
  Flush2 = 2
  Outruns = TRUE
  Refuses = TRUE
  TimesOut = TRUE
  Suspends = TRUE
  i1 = i1
  i2 = i2
  i3 = i3
SYMMETRY Symmetric
INVARIANTS PacketsConserved WorkerOnOpenRing
CHECK_DEADLOCK FALSE
