SPECIFICATION Spec
CONSTANTS
  MinDelta = 2
  MaxDelta = 4
  Tolerance = 3
  SampleTicks = 1
  RecordCapacity = 2
  Second = 1
  LeapSecond = 40
  Cut = 6
  NameUnit = 4
  StartTime = 0
  EndTime = 20
  MaxSamples = 4
  MaxTime = 9
  MaxLost = 1
  NULL = NULL
INVARIANT WindowComplete
