CONSTANTS
  Locs <- MCLocs
  Trees <- MCTrees
  Configs <- MCConfigs
  Operands <- MCOperands
  Entries <- MCEntries
  Fold <- MCFold
  MaxHops = 2
  MaxLinks = 3
  MaxChanges = 1
SPECIFICATION Spec
INVARIANT PathsTrue
PROPERTY Forward
