SPECIFICATION Spec
CONSTANTS
  Task = {t1, t2}
  Event = {e1, e2}
  RingBytes = 100
  CmdBytes = 24
  Timeout = {0, 2}
  TimeMod = 16
  Start = 14
  MaxClock = 14
  MaxCalls = 5
  MaxLives = 2
CHECK_DEADLOCK FALSE
SYMMETRY Symmetric
INVARIANTS TypeOK SlotOwnership NoLostWakeup SemBounded
