SPECIFICATION HalfSpec
CONSTANTS
  Pictures = {}
  Slot = {0, 1, 2, 3}
  MaxRefs = 2
  Commands = {}
  MaxPics = 4
  MaxDamaged = 0
  SetNals = {}
  Ids = {0, 1}
  MaxTaken = 3
  MaxPixels = 1024
INVARIANT NumbersUnwrapped
CHECK_DEADLOCK FALSE
