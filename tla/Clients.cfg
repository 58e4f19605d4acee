SPECIFICATION FairSpec
CONSTANTS
  Trees  <- AllTrees
  Errors <- AllErrors
  Words  <- AllWords
  MaxNodes = 4
  MaxWords = 4
  SizeMax  = 420
  MaxInput = 9
  Margin   = 2
  RoomMax  = 8
INVARIANTS AnswerFaithful BlocksKept InputWhole CommandTruthful
PROPERTIES Terminates
