\* Two files, two regions, in a word of eight pages of two bytes.
CONSTANTS
  Word = 16
  Page = 2
  FirstBreak = 2
  MmapBase = 8
  Addrs = {0, 9}
  Lengths = {0, 1, 3, 15}
  MaxFD = 4
  MaxRegions = 2
SPECIFICATION Spec
INVARIANT TypeOK
INVARIANT HandlesOwned
INVARIANT ChosenApart
PROPERTY DescriptorsNeverReused
CHECK_DEADLOCK FALSE
