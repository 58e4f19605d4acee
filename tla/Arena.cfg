CONSTANTS
  SizeMax = 31
  Alignment = 4
  Header = 6
  FirstCapacity = 8
  CapacityLimit = 16
  Sizes <- EdgeSizes
  MaxChunks = 2
SPECIFICATION ArenaSpec
INVARIANTS BlocksSound
