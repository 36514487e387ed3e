CONSTANTS
  Sessions = {s1}
  Users = {u1}
  None = None
  Slots = {k1, k2}
  MaxCalls = 3
  MaxReads = 2
  MaxMessages = 2
  MaxFaults = 1
SPECIFICATION Spec
INVARIANTS NoMessageLost CountsAgree SharesSurvive
CHECK_DEADLOCK FALSE
PROPERTY EveryCallReturns
