CONSTANTS
  MaxRuns = 2
  MaxPrompts = 1
  Projects = {p1}
  Commands = {dev, build}
  DevCommands = {dev}
  None = None
SPECIFICATION Spec
INVARIANTS NoOrphans StopsAreNotCrashes
PROPERTY UrlOutlivesSiblings
CHECK_DEADLOCK FALSE
