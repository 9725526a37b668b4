SPECIFICATION SpecInput
CONSTANTS
  AV = {"video", "audio"}
  Subs = {"subs"}
  Decoded = {"video"}
  Threshold = 10
  Tenth = 1
  Duration <- Durations
  Early = 1
  WrapBits = 9
  AV_NOPTS_VALUE <- NoPts
  Ahead = {"audio"}
  StartTime = 50
  EnabledStart = 52
  Clocks <- ClocksOf
  Skew = 2
  Loss = 3
  Restarts = 2
  LastTime = 64
INVARIANTS
  InSync
PROPERTIES
  Settles
  NoSetback
CHECK_DEADLOCK FALSE
