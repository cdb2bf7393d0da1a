SPECIFICATION Spec
CONSTANTS
  Topic = {t1}
  QoSs = {0, 1, 2}
  MaxHandlers = 2
  MaxPacketId = 3
  Refusal = {0, 5}
  Grant = {0, 1, 128}
  CharSigned = TRUE
  KeepAlive = TRUE
  MaxRequests = 4
  MaxTimeouts = 1
  MaxDrops = 1
  MaxIncoming = 1
CHECK_DEADLOCK FALSE
INVARIANTS ClientSound
PROPERTIES AnswersTrue
