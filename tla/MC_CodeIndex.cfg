CONSTANTS
  Files = {f1, f2}
  MaxFiles = 2
  MaxWrites = 3
  MaxBuilds = 2
  MaxCrashes = 1
SPECIFICATION Spec
INVARIANTS RecordedIsCurrent NothingUnsaved PassedIsIndexed
CHECK_DEADLOCK FALSE
