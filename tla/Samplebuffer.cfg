SPECIFICATION Spec
CONSTANTS
  Sample = {2, 4}
  InitialSize = 2
  MaxSamples = 7
  Garbage = Garbage
INVARIANT TypeOK
PROPERTY ImplementsQueue
