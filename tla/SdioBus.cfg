\* Two commands with timeouts against data and events, with a window of three frames,
\* one failing transfer, and numbers that wrap.
SPECIFICATION Spec
CONSTANTS
  Wrap = 8
  MaxAhead = 3
  TxctlCredits = 1
  Glom = 1
  TXQLEN = 2
  TXHI = 2
  TXLOW = 1
  TxBound = 1
  RxBound = 1
  Window = 3
  MaxFifo = 1
  MaxCmds = 2
  TimesOut = TRUE
  MaxFails = 1
  MaxFrames = 2
INVARIANTS WindowRespected VerdictTrue AnswersKept NothingForgotten
