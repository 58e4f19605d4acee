CONSTANTS
  Threads = {t1, t2}
  Blocks = {b1, b2, b3, b4}
  MaxChunks = 2
SPECIFICATION Spec
INVARIANTS Owned ReadersSafe OutParameters
SYMMETRY Symmetry
