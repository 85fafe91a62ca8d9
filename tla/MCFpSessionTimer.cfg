CONSTANTS
  W = 2
  Pd = {1, 2, 3}
  NULL = NULL
  SendTimeout = 2
  RstWin = 4
  TsBits = 3
  WordBits = 5
  SeqBase <- MCSeqBase
  ClockInit = 8
  MaxClock = 13
  AckRunLens <- MCAckRunLens
  ResetStamps = {0, 2}
SPECIFICATION Spec
INVARIANT TimerCoversWindow
