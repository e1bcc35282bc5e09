SPECIFICATION Spec
CONSTANTS
  KeepaliveInterval = 10
  RecvWait = 1
  DrainTime = 2
  ReadWait = 4
INVARIANTS
  KeepaliveInTime
  CommandIsPrompt
  DisconnectIsPrompt
