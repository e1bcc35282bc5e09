CONSTANTS
  PcmRate = 2
  InputRate = 3
  PhaseLimit = 7
  FrameSamples = 2
  QueueCapacity = 2
  FramesPerTick = 2
  MaxHeard = 15
  MaxPresses = 2
SPECIFICATION Spec
INVARIANT NothingFromBeforePress
