CONSTANTS
  MaxNodes = 5
  Trees <- AllTrees
  HeaderBytes = 3
  LineBytes <- ShortLines
  FirstBytes = 4
  FirstSlots = 1
  SizeMax = 127
  MaxObject = 32
SPECIFICATION Spec
INVARIANTS BuffersSound Preorder
