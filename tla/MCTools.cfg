SPECIFICATION Spec
CONSTANTS
  Channels = 3
  BlockWords = 4
  Addresses = {2, 3, 4}
  StripWords <- SomeWords
  MseedWords = {1, 7, 13, 65536}
  BlockParts = 2
  ChunkParts = 6
  MaxParts = 17
  EndAddresses = {0, 1, 2, 5, 7}
  MaxPackets = 3
  Wrap = 8
  Offsets <- SomeOffsets
INVARIANTS DecodesFrames WholeDataTaken SamplesCounted OnlySamplesStripped CopyExact ShiftedOnce
