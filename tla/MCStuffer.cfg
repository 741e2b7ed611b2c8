CONSTANTS
  MaxU32 = 5
  MinGrowth = 2
  PageSize = 2
SPECIFICATION Spec
INVARIANTS Valid ResidueBelowMark RawPointerNotDangling
