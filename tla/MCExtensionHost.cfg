SPECIFICATION FairSpec
CONSTANTS
  Data = {a}
  NoData = NoData
  HandsOver = TRUE
  MaxSend <- TwoFromClient
  MaxKeepAlive = 0
  MaxFaults = 2
  MaxLoss = 0
  MaxSockets = 5
INVARIANTS
  ExactlyOnceInOrder
  StreamWaitsForAdoption
  TimersArmed
  HandshakeStartsClean
  NoGapAfterReconnection
PROPERTIES
  ClientMessagesDelivered
  QueuesDrain
CHECK_DEADLOCK FALSE
