SPECIFICATION Spec
CONSTANTS
  Ids = {id}
  MaxFragments = 2
  DeliveryTimeout = 5
  ReceiveTimeout = 5
  ReplayWindow = 12
  ACKResendInterval = 2
  TXFlushInterval = 4
  MaxDelay = 1
INVARIANT SuccessMeansDelivered
