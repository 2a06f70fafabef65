\* Words of four bits, two words a block, a sample for every second 1 bit.
CONSTANTS
  WordSize = 4
  RankBlock = 8
  SampleInterval = 2
  MaxBits = 9
  LevelLists <- MCLevelLists

SPECIFICATION Spec

INVARIANTS
  ConcatenationExact
  RankExact
  SelectExact
  NextExactInside
  PrevExact

\* A client asks one question of each bit vector.
CHECK_DEADLOCK FALSE
