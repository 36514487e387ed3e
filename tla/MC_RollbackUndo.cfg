CONSTANTS
  Files = {f1}
  Callers = {c1, c2}
  MaxCalls = 2
  MaxWrites = 2
  MaxOutside = 1
  MaxJournal = 1
SPECIFICATION Spec
PROPERTIES UndoSparesUserCommits EveryCallReturns
CHECK_DEADLOCK FALSE
