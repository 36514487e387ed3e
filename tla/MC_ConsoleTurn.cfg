\* Two connections, two projects: who may approve what, where a grant counts.
SPECIFICATION Spec
CONSTANTS
  Conns = {c1, c2}
  Activities = {a1, a2}
  Projects = {p1, p2}
  GatedTools = {writeFile}
  CustomTools = {}
  AlwaysTools = {riskyCommand}
  FreeTools = {}
  Commands = {riskyCommand}
  ReadOnlyTools = {}
  MaxCalls = 1
  MaxRounds = 1
  StrayApprovals = TRUE
SYMMETRY Symmetry
INVARIANTS
  ConsentBeforeRun
  OneTurnPerConnection
PROPERTIES
  CancelSparesOthers
  GrantsAreEarned
CHECK_DEADLOCK FALSE
