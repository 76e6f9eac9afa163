\* The bus refuses and loses packets, queues overflow, nodes are deleted; explicit credits.
CONSTANTS
  NDests = 2
  NAC = 1
  NPackets = 3
  Slots = {s1, s2, s3}
  NoSlot = NoSlot
  PsqLen = 2
  Hi = 1
  Low = 0
  Explicit = TRUE
  BusFails = TRUE
  Deletes = TRUE
  Upsets = 2
  MaxRequest = 1
  Credits <- TwoOfAll
  Traffic <- OneNode
  s1 = s1
  s2 = s2
  s3 = s3
  s4 = s4
  s5 = s5
SPECIFICATION Spec
SYMMETRY Symmetric
INVARIANT StopHasAReason
INVARIANT CreditBalance
INVARIANT PacketsConserved
CHECK_DEADLOCK FALSE
