SPECIFICATION FairSpec
CONSTANTS
  MaxText = 6
  MaxBytes = 4
  Sources <- AllSources
  Keys <- Names
  Tables <- AllTables
  Below <- NameBelow
  Fractions <- AllFractions
  One = 65536
INVARIANTS DecodedExactly TokensFaithful SearchRight PrintedShortest
PROPERTIES Terminates
