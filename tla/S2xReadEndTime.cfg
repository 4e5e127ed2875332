SPECIFICATION Spec
CONSTANTS
  Channels = 2
  Capacity = 2
  Second = 3
  SampleTicks = 1
  RealTicks = 1
  Scale = 4
  ErrorGain = 4
  Proportional = 2
  SteerGain = 8
  StartTime = 4
  EndTime = 11
  TimestampEvery = 2
  Jitter = 1
  MaxSamples = 12
INVARIANT NothingAfterEnd
