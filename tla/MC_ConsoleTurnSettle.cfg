\* One connection, two calls in a reply; no late or foreign approve_task; no
\* symmetry, for the liveness.
SPECIFICATION Spec
CONSTANTS
  Conns = {c1}
  Activities = {a1, a2}
  Projects = {p1}
  GatedTools = {writeFile}
  CustomTools = {}
  AlwaysTools = {riskyCommand}
  FreeTools = {safeCommand, readFile}
  Commands = {riskyCommand, safeCommand}
  ReadOnlyTools = {readFile}
  MaxCalls = 2
  MaxRounds = 1
  StrayApprovals = FALSE
INVARIANTS
  NoOrphanedPromise
PROPERTIES
  AbortedTurnWindsDown
  EverythingEnds
CHECK_DEADLOCK FALSE
