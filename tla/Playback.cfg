CONSTANTS
  PcmRate = 2
  OutputRate = 5
  PhaseLimit = 9
  FrameSamples = 3
  FrameCapacity = 2
  MaxFrames = 5
SPECIFICATION FairSpec
INVARIANTS
  TypeOK
PROPERTIES
  ImplementsWindow
  SpeechMovesOn
