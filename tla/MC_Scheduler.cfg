CONSTANTS
  Projects = {p1}
  Sorts <- MCSorts
  MaxAdds = 2
  MaxNow = 3
  MaxCrashes = 1
  Every = 2
  Day = 2
  Week = 2
  At = 1
  Weekday = 1
  Throttle = 2
  KeepReminders = TRUE
  LosesWrites = FALSE
SPECIFICATION Spec
INVARIANTS IdsAreFree RemovedStaysRemoved
PROPERTY OncePerOccasion OneshotFires
CHECK_DEADLOCK FALSE
