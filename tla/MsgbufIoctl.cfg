\* Three commands, two buffers for answers, one of each other kind, no id to spare.
SPECIFICATION Spec
CONSTANTS
  NPktIds = 4
  MaxPost <- TwoAnswers
  Threshold = 1
  CtlSlots = 2
  MaxQueries = 3
  AllocFails = TRUE
  TimesOut = TRUE
  Suspends = TRUE
INVARIANTS BuffersAccounted AnswersMatch LentBuffersKept WakeNotLost
CHECK_DEADLOCK FALSE
