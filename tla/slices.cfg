SPECIFICATION SampleSpec
CONSTANTS
  Pictures <- AllPictures
  Slot = {0, 1, 2, 3}
  MaxRefs = 2
  Commands <- CommandLists
  MaxPics = 4
  MaxDamaged = 2
  SetNals <- AllSets
  Ids = {0, 1}
  MaxTaken = 3
  MaxPixels = 1024
INVARIANTS
  NeighboursAsStandard
  IntraReadsUnfiltered
  DeblockedAsStandard
  MbaffNeighboursAsStandard
  ReadAsCoded
  VectorsAsStandard
  GroupsHaveTheirUnits
  MarkedAsStandard
  ListsAsStandard
  WeightsAsStandard
  NumbersUnwrapped
  BuffersKept
  SetsAgree
CHECK_DEADLOCK FALSE
