CONSTANTS
  Sources <- ListSources
  Names = {}
  DepthLimit = 3
  Math = TRUE
  MaxColumns = 2
SPECIFICATION FairSpec
INVARIANTS TypeOK DestinationOpen RangesFaithful RecordedAsWritten
PROPERTIES WrittenOnce Terminates
