SPECIFICATION Spec
CONSTANTS
  Bits = 4
  Minute = 6
  Deadline = 1
  TenSec = 2
  Video <- TheVideo
  Audio <- TheAudio
  Teletext <- TheTeletext
  DvbSub <- TheDvbSub
  Clock <- TheClock
  NoPts <- TheNoPts
  Start = {11, 15}
  Gap = 3
  Jitter = 1
  Delay = 1
  Frame = 2
  Horizon = 33
INVARIANTS
  Correct
PROPERTIES
  SubsNearPcr
CHECK_DEADLOCK FALSE
