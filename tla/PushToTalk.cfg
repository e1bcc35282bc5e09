SPECIFICATION Spec
CONSTANTS
  Senders = {a, b}
  NoOne = NoOne
  CommandCapacity = 1
  EventCapacity = 2
  FramesPerTick = 1
  MaxSessions = 2
  MaxCalls = 3
  MaxTurns = 2
SYMMETRY MCSymmetry
INVARIANTS
  TypeOK
  OneWorker
  AudioIsAnnounced
  StuckTalkIsLoss
  TalkerIsCurrent
  LabelsMatchSession
  MuteIsOneself
