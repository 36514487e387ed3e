CONSTANTS
  Files = {f1, f2}
  Callers = {c1, c2}
  MaxCalls = 3
  MaxWrites = 2
  MaxOutside = 0
  MaxJournal = 1
SPECIFICATION Spec
SYMMETRY Symmetry
INVARIANTS HonestHistory JournalIsOldest 
CHECK_DEADLOCK FALSE
