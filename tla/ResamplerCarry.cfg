SPECIFICATION Spec
CONSTANTS
  BufferLength = 19
  Pad = 5
  InSize = 6
  OutSize = 7
  Unit = 4
  Steps = {3, 4, 6}
  LongestStep = 6
  Reach <- ReachOfOne
  Bad = Bad
  MaxSamples = 18
INVARIANT FedInOrder
