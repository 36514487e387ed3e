------------------------------ MODULE BootClaim ------------------------------
(***************************************************************************)
(* server/bootClaim.js and acquireConsole() of bin/cli.js: the launchers   *)
(* of one machine and the claim file that is to let exactly one of them    *)
(* boot a console, in its own process, while the others wait and attach.   *)
(*                                                                         *)
(* Launchers are separate processes, so every system call on the file is a *)
(* step of its own.  What the environment may do is a constant:            *)
(*   "torn"     another process runs between the open and the write        *)
(*   "depart"   a launcher's process ends, by itself or killed             *)
(*   "age"      a claim outlives CLAIM_TTL_MS                              *)
(*   "miss"     a probe of a console that is up times out                  *)
(*   "nocreate" the claim file cannot be created                           *)
(***************************************************************************)
EXTENDS Integers, FiniteSets

CONSTANTS
  Launchers,
  MaxRounds,  \* maxRounds of acquireConsole
  Faults,
  Nobody,     \* the owner of a claim nobody can read
  Absent      \* there is no claim file

ASSUME RoundsAssumption == MaxRounds \in Nat \ {0}
ASSUME FaultsAssumption == Faults \subseteq {"torn", "depart", "age", "miss", "nocreate"}

ASSUME NobodyAssumption == Nobody \notin Launchers

(* What readClaim returns: a torn or missing claim has no owner. *)
Claim == [owner : Launchers \cup {Nobody}, aged : BOOLEAN]
File == [claim : Claim, open : SUBSET Launchers]
ASSUME AbsentAssumption == Absent \notin File

NoClaim == [owner |-> Nobody, aged |-> FALSE]

VARIABLES
  pc,       \* pc[l]: where launcher l stands
  round,    \* round[l]: the round of acquireConsole's loop
  attempt,  \* attempt[l]: the attempt of acquireBootClaim's loop
  held,     \* held[l]: the claim l has read or is about to write
  claimed,  \* the launchers acquireBootClaim returned a claimPath to
  console,  \* console[l]: the server in l's process
  file,     \* the claim file: Absent, or its claim and who has it open
  astray    \* a claim was removed that nobody had shown to be dead (observation)

claimVars == <<pc, round, attempt, held, claimed, console, file, astray>>

Booting == {"write", "boot", "port_read", "port_open", "port_write", "running"}
Gone == {"idle", "failed", "ended"}
Steps == Booting \cup Gone \cup
  {"probe", "create", "read", "check", "unlink", "wait", "recheck", "attached", "release"}

ClaimInit ==
  /\ pc = [l \in Launchers |-> "idle"]
  /\ round = [l \in Launchers |-> 1]
  /\ attempt = [l \in Launchers |-> 1]
  /\ held = [l \in Launchers |-> NoClaim]
  /\ claimed = {}
  /\ console = [l \in Launchers |-> "down"]
  /\ file = Absent
  /\ astray = FALSE

-----------------------------------------------------------------------------
Goto(l, step) == pc' = [pc EXCEPT ![l] = step]

Up == {l \in Launchers : console[l] # "down"}
Ready == {l \in Launchers : console[l] = "ready"}

(* readClaim(filePath) *)
ReadClaim == IF file = Absent THEN NoClaim ELSE file.claim

(* Mutant: a claim that cannot be read is left alone. *)
StaleUnlessUnreadable(c) ==
  c.owner # Nobody /\ (c.aged \/ pc[c.owner] \in Gone)

(* isStaleClaim(claim): unreadable, older than the TTL, or its owner gone. *)
IsStale(c) == c.owner = Nobody \/ c.aged \/ pc[c.owner] \in Gone

(* A user starts launcher l. *)
Start(l) ==
  /\ pc[l] = "idle"
  /\ Goto(l, "probe")
  /\ UNCHANGED <<round, attempt, held, claimed, console, file, astray>>

(* findConsoleReadyPort, then probeRunningPort: either makes l attach. *)
Probe(l) ==
  /\ pc[l] = "probe"
  /\ \/ Up # {} /\ Goto(l, "attached") /\ UNCHANGED attempt
     \/ /\ Up = {} \/ "miss" \in Faults
        /\ Goto(l, "create")
        /\ attempt' = [attempt EXCEPT ![l] = 1]
  /\ UNCHANGED <<round, held, claimed, console, file, astray>>

(* A write by path or descriptor that replaces what the file says. *)
Opened(l, step, next) ==
  IF "torn" \in Faults
  THEN /\ file' = [claim |-> NoClaim,
                   open |-> {l} \cup (IF file = Absent THEN {} ELSE file.open)]
       /\ Goto(l, step)
  ELSE /\ file' = [claim |-> held'[l], open |-> {}]
       /\ Goto(l, next)

(* Mutant: 'w' for 'wx'. *)
CreateClaimOver(l) ==
  /\ pc[l] = "create"
  /\ held' = [held EXCEPT ![l] = [owner |-> l, aged |-> FALSE]]
  /\ claimed' = claimed \cup {l}
  /\ Opened(l, "write", "boot")
  /\ UNCHANGED <<round, attempt, console, astray>>

(* openSync(filePath, 'wx'), and its write when nothing can come between. *)
CreateClaim(l) ==
  /\ pc[l] = "create" /\ file = Absent
  /\ held' = [held EXCEPT ![l] = [owner |-> l, aged |-> FALSE]]
  /\ claimed' = claimed \cup {l}
  /\ Opened(l, "write", "boot")
  /\ UNCHANGED <<round, attempt, console, astray>>

(* EEXIST *)
LoseCreate(l) ==
  /\ pc[l] = "create" /\ file # Absent
  /\ Goto(l, "read")
  /\ UNCHANGED <<round, attempt, held, claimed, console, file, astray>>

(* Any other error: `unusable`, the launcher boots without a claim. *)
CannotCreate(l) ==
  /\ "nocreate" \in Faults
  /\ pc[l] = "create"
  /\ Goto(l, "boot")
  /\ UNCHANGED <<round, attempt, held, claimed, console, file, astray>>

(* The write lands in the file l opened, if it is still the claim file. *)
WriteClaim(l) ==
  /\ pc[l] \in {"write", "port_write"}
  /\ file' = IF file # Absent /\ l \in file.open
             THEN [claim |-> held[l], open |-> file.open \ {l}]
             ELSE file
  /\ Goto(l, IF pc[l] = "write" THEN "boot" ELSE "running")
  /\ UNCHANGED <<round, attempt, held, claimed, console, astray>>

ReadExisting(l) ==
  /\ pc[l] = "read"
  /\ held' = [held EXCEPT ![l] = ReadClaim]
  /\ Goto(l, "check")
  /\ UNCHANGED <<round, attempt, claimed, console, file, astray>>

(* isStaleClaim(existing): somebody is booting, or the claim is removed. *)
CheckStale(l) ==
  /\ pc[l] = "check"
  /\ Goto(l, IF IsStale(held[l]) THEN "unlink" ELSE "wait")
  /\ UNCHANGED <<round, attempt, held, claimed, console, file, astray>>

(* The file is not the claim that l judged any more, or that claim is not  *)
(* dead: it is being written, or it only outlived the TTL.                 *)
RemovesAstray(l) ==
  /\ file # Absent
  /\ \/ file.claim.owner # held[l].owner
     \/ \E m \in file.open : pc[m] \notin Gone
     \/ held[l].aged /\ held[l].owner # Nobody /\ pc[held[l].owner] \notin Gone

(* unlinkSync, whatever the file is by now; then the second attempt. *)
UnlinkStale(l) ==
  /\ pc[l] = "unlink"
  /\ astray' = (astray \/ RemovesAstray(l))
  /\ file' = Absent
  /\ attempt' = [attempt EXCEPT ![l] = 2]
  /\ Goto(l, IF attempt[l] = 1 THEN "create" ELSE "wait")
  /\ UNCHANGED <<round, held, claimed, console>>

-----------------------------------------------------------------------------
(* Mutant: the rounds are not counted. *)
NextRoundUncounted(l) == Goto(l, "probe") /\ UNCHANGED round

(* The loop of acquireConsole comes round, or throws after the last one. *)
NextRound(l) ==
  IF round[l] < MaxRounds
  THEN Goto(l, "probe") /\ round' = [round EXCEPT ![l] = @ + 1]
  ELSE Goto(l, "failed") /\ UNCHANGED round

(* waitForConsole: a console got ready, or the deadline passed. *)
Wait(l) ==
  /\ pc[l] = "wait"
  /\ \/ Ready # {} /\ Goto(l, "recheck") /\ UNCHANGED round
     \/ NextRound(l)
  /\ UNCHANGED <<attempt, held, claimed, console, file, astray>>

(* stillAlive *)
Recheck(l) ==
  /\ pc[l] = "recheck"
  /\ \/ Ready # {} /\ Goto(l, "attached") /\ UNCHANGED round
     \/ (Ready = {} \/ "miss" \in Faults) /\ NextRound(l)
  /\ UNCHANGED <<attempt, held, claimed, console, file, astray>>

(* startServer returns the port its server is bound to. *)
Bind(l) ==
  /\ pc[l] = "boot"
  /\ console' = [console EXCEPT ![l] = "bound"]
  /\ Goto(l, IF l \in claimed THEN "port_read" ELSE "running")
  /\ UNCHANGED <<round, attempt, held, claimed, file, astray>>

BecomeReady(l) ==
  /\ console[l] = "bound"
  /\ console' = [console EXCEPT ![l] = "ready"]
  /\ UNCHANGED <<pc, round, attempt, held, claimed, file, astray>>

(* setClaimPort: reads the claim, or makes one of its own ... *)
ReadForPort(l) ==
  /\ pc[l] = "port_read"
  /\ held' = [held EXCEPT ![l] =
       IF ReadClaim.owner = Nobody THEN [owner |-> l, aged |-> FALSE] ELSE ReadClaim]
  /\ Goto(l, "port_open")
  /\ UNCHANGED <<round, attempt, claimed, console, file, astray>>

(* ... and writes it back whoever's it is: writeFileSync truncates first. *)
OpenForPort(l) ==
  /\ pc[l] = "port_open"
  /\ held' = held
  /\ Opened(l, "port_write", "running")
  /\ UNCHANGED <<round, attempt, claimed, console, astray>>

(***************************************************************************)
(* The launcher exits, or startServer throws: releaseBootClaim reads the   *)
(* claim and then removes it, unless it names somebody else.  The console  *)
(* goes with the process.                                                  *)
(***************************************************************************)
Exit(l) ==
  /\ "depart" \in Faults
  /\ pc[l] \in {"boot", "running"}
  /\ console' = [console EXCEPT ![l] = "down"]
  /\ Goto(l, IF l \in claimed /\ ReadClaim.owner \in {l, Nobody}
             THEN "release" ELSE "ended")
  /\ UNCHANGED <<round, attempt, held, claimed, file, astray>>

Release(l) ==
  /\ pc[l] = "release"
  /\ file' = Absent
  /\ Goto(l, "ended")
  /\ UNCHANGED <<round, attempt, held, claimed, console, astray>>

(* Killed, or out of time to bind: the claim file stays behind. *)
Die(l) ==
  /\ "depart" \in Faults
  /\ pc[l] \notin Gone
  /\ console' = [console EXCEPT ![l] = "down"]
  /\ Goto(l, "ended")
  /\ UNCHANGED <<round, attempt, held, claimed, file, astray>>

(* CLAIM_TTL_MS passes over the claim. *)
Age ==
  /\ "age" \in Faults
  /\ file # Absent /\ ~file.claim.aged /\ file.claim.owner # Nobody
  /\ file' = [file EXCEPT !.claim.aged = TRUE]
  /\ UNCHANGED <<pc, round, attempt, held, claimed, console, astray>>

(* The steps a launcher takes by itself. *)
Step(l) ==
  \/ Probe(l) \/ CreateClaim(l) \/ LoseCreate(l) \/ CannotCreate(l)
  \/ WriteClaim(l) \/ ReadExisting(l) \/ CheckStale(l) \/ UnlinkStale(l)
  \/ Wait(l) \/ Recheck(l)
  \/ Bind(l) \/ BecomeReady(l) \/ ReadForPort(l) \/ OpenForPort(l) \/ Release(l)

ClaimNext ==
  \/ \E l \in Launchers : Start(l) \/ Step(l) \/ Exit(l) \/ Die(l)
  \/ Age

(* A launcher that runs goes on: its probes and waits have deadlines, and  *)
(* startServer binds within two minutes or ends the process (Die).         *)
ClaimSpec == ClaimInit /\ [][ClaimNext]_claimVars /\ \A l \in Launchers : WF_claimVars(Step(l))

-----------------------------------------------------------------------------
ClaimTypeOK ==
  /\ pc \in [Launchers -> Steps]
  /\ round \in [Launchers -> 1 .. MaxRounds]
  /\ attempt \in [Launchers -> 1 .. 2]
  /\ held \in [Launchers -> Claim]
  /\ claimed \subseteq Launchers
  /\ console \in [Launchers -> {"down", "bound", "ready"}]
  /\ file \in File \cup {Absent}
  /\ astray \in BOOLEAN

(* "Exactly one launcher can win this" (bootClaim.js:79): whatever dies,   *)
(* is torn or ages, two launchers that were given the claim boot together  *)
(* only after the claim of a living one was removed: one that had been     *)
(* replaced since it was read (bootClaim.js:94-101), that was being        *)
(* written (80-82), or that outlived its TTL.                              *)
ClaimExcludes ==
  ~astray => \A l, m \in claimed : pc[l] \in Booting /\ pc[m] \in Booting => l = m

(* "a crashed launcher never blocks the next one forever"                  *)
(* (bootClaim.js:12-13): whatever the launchers before it left in the      *)
(* claim file, a launcher that is alone boots, unless it dies itself.      *)
DeadClaimNeverBlocks ==
  \A l \in Launchers :
    (pc[l] = "probe" /\ \A m \in Launchers \ {l} : pc[m] \in {"attached", "failed", "ended"})
      ~> (pc[l] \in {"running", "ended"})

(* "a launcher must not wait forever for a console that keeps appearing    *)
(* and dying" (bin/cli.js:164-165): every launcher attaches, runs a        *)
(* console, gives up or is killed.                                         *)
EveryLauncherReturns ==
  \A l \in Launchers :
    (pc[l] = "probe") ~> (pc[l] \in {"attached", "running", "failed", "ended"})

-----------------------------------------------------------------------------
(* What comments of the code say and its behaviours do not keep *)

(* "exactly one launcher may boot, the others wait for that console to     *)
(* answer and attach to it" (bin/cli.js:152-153): no two launchers boot or *)
(* run a console at the same time.                                         *)
AtMostOneConsole ==
  \A l, m \in Launchers : pc[l] \in Booting /\ pc[m] \in Booting => l = m
=============================================================================
