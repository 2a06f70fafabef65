\* Four labels, words of two bits.
CONSTANTS
  Fanout = 4
  WordSize = 2
  PositionRange = 65536
  MaxLevel = 3
  RankBlock = 4
  SampleInterval = 2
  LinearBelow = 2
  BinaryBelow = 4
  Ratios = {0, 1}
  Inputs <- MCInputs
  Keys <- MCKeys
  NegativeBytes = FALSE

SPECIFICATION FSTFairSpec

INVARIANTS
  FSTTypeOK
  StandsAtNode
  StoredKeysFound
  AbsentKeysMissedInside
  NodeNumbersExact
  AmacExactInside
  NodeContents
  SparseNodeCollapsed

PROPERTY CallsReturn
