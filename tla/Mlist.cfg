CONSTANTS
  Lists <- AllLists
  InStyles = {0, 2, 5}
  MaxPlain = 4
  MaxScripted = 3
SPECIFICATION FairSpec
INVARIANTS ArrayFilled NoImpossiblePair
PROPERTIES PromiseKept
