SPECIFICATION FairSpec
CONSTANTS
  Ops = {"Control"}
  CommandCapacity = 1
  EventCapacity = 2
  SeqModulus = 2
  NonceModulus = 1
  MaxCalls = 2
  MaxKeepalives = 1
PROPERTIES
  DisconnectReturns
  AcceptedIsSettled
  DisconnectProgresses
