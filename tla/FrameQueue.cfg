CONSTANTS
  QueueCapacity = 3
  MaxPushes = 8
SPECIFICATION QueueSpec
INVARIANTS
  QueueTypeOK
PROPERTIES
  QueueImplementsWindow
