SPECIFICATION Spec
CONSTANTS
  MAX_BLOCK = 9
  MAX_INODE = 5
  INODES_PER_BLOCK = 5
  MAX_DIR_ENTRY = 3
  DIRECT = 1
  Kills = FALSE
  Torn = {}
  MaxCommands = 7
  Names = {a, b}
  Sizes = {1, 2}
  Data = {d1, d2}
SYMMETRY MCSymmetry
INVARIANT ExistingDiskMounts
CHECK_DEADLOCK FALSE
