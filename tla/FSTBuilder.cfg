\* All sorted prefix-free key lists of the bounds in MCFSTBuilder.
CONSTANTS
  Fanout = 4
  WordSize = 2
  PositionRange = 65536
  MaxLevel = 3
  Ratios = {0, 1}
  Inputs <- MCInputs

SPECIFICATION FairSpec

INVARIANTS
  TypeOK
  LoudsAligned
  ValuesAligned
  NodesSorted
  SlotsSuffice
  DenseMirrorsSparse

PROPERTIES
  BuildsAbstractTrie
  BuildCompletes
