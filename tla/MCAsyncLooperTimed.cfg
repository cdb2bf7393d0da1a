SPECIFICATION FairSpec
CONSTANTS
  Task = {t1}
  Event = {e1, e2}
  RingBytes = 72
  CmdBytes = 24
  Timeout = {0, 2}
  TimeMod = 16
  Start = 0
  MaxClock = 3
  MaxCalls = 3
  MaxLives = 1
CHECK_DEADLOCK FALSE
INVARIANTS NoMissedDeadline
PROPERTIES NoEventLost NoEarlyTimeout CommandsTaken
