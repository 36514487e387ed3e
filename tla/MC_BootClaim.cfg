CONSTANTS
  Launchers = {l1, l2}
  MaxRounds = 2
  Nobody = Nobody
  Absent = Absent
  Faults = {"torn", "depart", "age", "miss", "nocreate"}
SPECIFICATION ClaimSpec
 
PROPERTIES DeadClaimNeverBlocks EveryLauncherReturns
CHECK_DEADLOCK FALSE
