SPECIFICATION Spec
CONSTANTS
  Data = {a, b}
  NoData = NoData
  HandsOver = FALSE
  MaxSend <- TwoFromServer
  MaxKeepAlive = 1
  MaxFaults = 1
  MaxLoss = 2
  MaxSockets = 3
SYMMETRY Payloads
INVARIANTS
  TypeOK
  ExactlyOnceInOrder
  ForgottenOnlyWhenDelivered
  UnackQueueExact
  NoGapAfterReconnection
PROPERTIES
  ImplementsChannel
CHECK_DEADLOCK FALSE
