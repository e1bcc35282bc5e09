SPECIFICATION Spec
CONSTANTS
  Ops = {"Raw", "BadRaw", "Pcm", "BadPcm", "Control"}
  CommandCapacity = 2
  EventCapacity = 2
  SeqModulus = 2
  NonceModulus = 2
  MaxCalls = 2
  MaxKeepalives = 1
INVARIANTS
  TypeOK
  StopsOnlyWhenAsked
  EventsAreFramed
  OneOrderedStream
  NonceNeverReused
PROPERTIES
  ImplementsStream
