SPECIFICATION FairSpec
CONSTANTS
  Clients = {"mqtt", "upload"}
  Cap = 5
  SendLen = 2
  ConnectLen = 1
  DisconnectLen = 1
  MaxCalls = 3
  MaxRestarts = 1
CHECK_DEADLOCK FALSE
INVARIANTS AnswerInPlace CallsAccounted
PROPERTIES CallReturns
