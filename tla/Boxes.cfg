SPECIFICATION Spec
CONSTANTS
  Unit <- MCUnit
  Raise <- MCRaise
  Param <- MCParam
  Glyphs <- MCGlyphs
  Operators <- MCOperators
  Accents <- MCAccents
  Ladders <- MCLadders
  Delimiters <- MCDelimiters
  Sign = "sqrt"
  Parens <- MCParens
  Environments <- MCEnvironments
  Shapes <- MCShapes
  BigTargets <- MCBigTargets
  NullDelimiterSpace = 1200
  ScriptSpace = 500
  DelimiterShortfall = 5000
  InStyles <- MCInStyles
  MaxNested = 2
INVARIANTS BoxWhole SourceOrder FractionClear Clearances DelimitersFit GridAligned
