CONSTANTS
  Sources <- ConstructSources
  Names = {"matrix","cases","unknown"}
  DepthLimit = 3
  Math = TRUE
  MaxColumns = 2
SPECIFICATION Spec
INVARIANTS FramesInOrder VerdictJustified OneOwner ConstructsFaithful
PROPERTIES NestingRefined
