SPECIFICATION FairCloseSpec
CONSTANTS
  Data = {a}
  NoData = NoData
  HandsOver = TRUE
  MaxSend <- OneFromServer
  MaxKeepAlive = 0
  MaxFaults = 2
  MaxLoss = 0
  MaxSockets = 5
PROPERTIES
  ServerMessagesDelivered
  QueuesDrain
CHECK_DEADLOCK FALSE
