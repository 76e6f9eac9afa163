\* Two rings of one interface and one sender; the worker is not queued for a packet
\* whose ring has one outstanding.
SPECIFICATION FairSpec
CONSTANTS
  Rings = {r1, r2}
  Senders = {s1}
  Low = 3
  High = 3
  MaxLen = 4
  Delay = 1
  Trickle = 1
  MaxOut = 1
  RacyDelete = FALSE
  NoRing = NoRing
  r1 = r1
  r2 = r2
  s1 = s1
  s2 = s2
INVARIANTS StoppedMeansBlocked BlockedHasBacklog
PROPERTY StopIsLifted
