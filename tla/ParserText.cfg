CONSTANTS
  Sources <- TextSources
  Names = {}
  DepthLimit = 3
  Math = TRUE
  MaxColumns = 2
SPECIFICATION Spec
INVARIANTS TextIsDocumentContent
