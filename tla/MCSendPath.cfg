SPECIFICATION MCFairSpec
CONSTANTS
  MaxBytes = 4
  MaxControls = 1
  TLS13 = 1
  Fragments = {1, 3}
  Override = 8
  MaxOverhead = 2
  Overheads = {1, 2}
  ControlSize = 2
  MinPayload = 1
  ResizeThreshold = 2
  BeastSplit = 0
  DynamicBuffers = 1
INVARIANT StreamSafe
PROPERTIES ImplementsStream AllSent
