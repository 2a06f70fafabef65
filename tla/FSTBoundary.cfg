\* The last node may end in another word than it starts in.
CONSTANTS
  Fanout = 4
  WordSize = 2
  PositionRange = 65536
  MaxLevel = 3
  RankBlock = 4
  SampleInterval = 2
  LinearBelow = 2
  BinaryBelow = 4
  Ratios = {1}
  Inputs <- MCInputs
  Keys <- MCKeys
  NegativeBytes = FALSE

SPECIFICATION FSTSpec

INVARIANT AbsentKeysMissed
