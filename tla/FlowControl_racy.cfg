\* A ring deleted while a sender appends to it.
SPECIFICATION FlowSpec
CONSTANTS
  Rings = {r1, r2}
  Senders = {s1, s2}
  Low = 3
  High = 3
  MaxLen = 5
  Delay = 1
  Trickle = 1
  MaxOut = 1
  RacyDelete = TRUE
  NoRing = NoRing
  r1 = r1
  r2 = r2
  s1 = s1
  s2 = s2
SYMMETRY Symmetric
INVARIANTS StoppedMeansBlocked
