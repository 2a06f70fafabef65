\* Ranges whose right key is to be included.
CONSTANTS
  Fanout = 4
  WordSize = 2
  PositionRange = 65536
  MaxLevel = 3
  RankBlock = 4
  SampleInterval = 2
  LinearBelow = 2
  BinaryBelow = 4
  Ratios = {0, 1}
  Inputs <- MCInputs
  Keys = {}
  NegativeBytes = FALSE
  SeekKeys <- MCSeekKeys
  RangeKeys <- MCRangeKeys
  MaxRetreats = 2
  MaxScan = 12
  AnySeek = FALSE
  AnyRetreat = FALSE

SPECIFICATION IterFairSpec

INVARIANT RightIncluded
