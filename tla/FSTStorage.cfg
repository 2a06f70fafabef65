\* Four labels, words of two bits; the sizes of the code's types.
CONSTANTS
  Fanout = 4
  WordSize = 2
  PositionRange = 65536
  MaxLevel = 3
  RankBlock = 4
  SampleInterval = 2
  LinearBelow = 2
  BinaryBelow = 4
  Ratios = {0, 1}
  Inputs <- MCInputs
  Keys = {}
  NegativeBytes = FALSE
  PositionBytes = 4
  WordBytes = 8
  Buffers = {64, 1000}

SPECIFICATION StorageSpec

INVARIANTS
  StorageTypeOK
  SizeExact
  CellsDisjoint
  LoadedExact
  WordsAligned

CHECK_DEADLOCK FALSE
