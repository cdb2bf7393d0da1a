SPECIFICATION Spec
CONSTANTS
  Topic = {t1}
  QoSs = {1}
  MaxHandlers = 2
  MaxPacketId = 65535
  Refusal = {0, 5}
  Grant = {0, 1, 128}
  CharSigned = FALSE
  KeepAlive = FALSE
  MaxRequests = 4
  MaxTimeouts = 1
  MaxDrops = 0
  MaxIncoming = 0
CHECK_DEADLOCK FALSE
INVARIANT AckMatched
