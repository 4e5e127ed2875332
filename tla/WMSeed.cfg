SPECIFICATION Spec
CONSTANTS
  MinDelta = 2
  MaxDelta = 4
  Tolerance = 3
  SampleTicks = 1
  RecordCapacity = 2
  Second = 2
  LeapSecond = 8
  Cut = 2
  NameUnit = 1
  StartTime = 3
  EndTime = 11
  MaxSamples = 7
  MaxTime = 12
  MaxLost = 2
  NULL = NULL
INVARIANTS TypeOK WindowComplete RecordsSound TimesAscend OneFilePerSection QueueIsBacklog
