\* Tries without a dense part.
CONSTANTS
  Fanout = 4
  WordSize = 2
  PositionRange = 65536
  MaxLevel = 3
  RankBlock = 4
  SampleInterval = 2
  LinearBelow = 2
  BinaryBelow = 4
  Ratios = {0}
  Inputs <- SparseOnlyInputs
  Keys <- MCKeys
  NegativeBytes = FALSE

SPECIFICATION FSTSpec

INVARIANT AbsentKeysMissed
