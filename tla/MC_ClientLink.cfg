CONSTANTS
  Sockets = {k1, k2}
  NoSocket = NoSocket
  NoTurn = NoTurn
  QueueCap = 1
  MaxMessages = 2
  MaxMounts = 2
  MaxBreaks = 1
  MaxNotices = 1
  MaxToggles = 1
SPECIFICATION Spec
INVARIANTS OneLiveSocket MessagesStartInOrder AiFlagAgrees
PROPERTY EveryMessageLeaves
CHECK_DEADLOCK FALSE
