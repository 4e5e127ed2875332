SPECIFICATION Spec
CONSTANTS
  Channels = 3
  BlockWords = 4
  Words = {1, 7, 13, 65536}
  Addresses = {3, 5}
INVARIANT LostCountExact
