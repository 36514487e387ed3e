CONSTANTS
  MaxRuns = 1
  MaxPrompts = 2
  Projects = {p1}
  Commands = {dev, build}
  DevCommands = {dev}
  None = None
SPECIFICATION Spec
PROPERTIES ClosedRunsLeave EveryRunEnds
CHECK_DEADLOCK FALSE
