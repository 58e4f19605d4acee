CONSTANTS
  Sources <- DocumentSources
  Names = {}
  DepthLimit = 3
  Math = FALSE
  MaxColumns = 2
SPECIFICATION Spec
INVARIANTS DocumentRules
