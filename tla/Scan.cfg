\* One scan, split or of 6 GHz channels only, and one abort, scheduled scan or closing of the
\* interface, with events and time-outs that come late.
SPECIFICATION FairSpec
CONSTANTS
  MaxScans = 1
  MaxUpsets = 1
  MaxEvents = 1
  Forms = {"split", "six"}
  NoReq = NoReq
INVARIANTS TwiceOnlyByOverlap AnsweredOnce VerdictTrue
PROPERTY EventuallyAnswered
CHECK_DEADLOCK FALSE
