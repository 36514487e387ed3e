------------------------------- MODULE Executor -------------------------------
(***************************************************************************)
(* server/executor.js and its leaves executorClose.js, executorPorts.js,   *)
(* executorProcesses.js, executorUrlRecovery.js: the commands the console  *)
(* spawns, the timers that detach a run which does not end by itself, the  *)
(* registry `stop server` works from, the dev URL of a project and the     *)
(* checks made after a detached process has closed.                        *)
(*                                                                         *)
(* A child is a shell; the server it brings up may outlive it (Windows     *)
(* npm wrappers).  A server answers at an address that goes with its       *)
(* project and command.  Runs are numbered in the order they start, the    *)
(* order in which the registry lists them.                                 *)
(***************************************************************************)
EXTENDS Integers, FiniteSets

CONSTANTS
  MaxRuns,      \* bound of the model: executeCommand calls that spawn
  MaxPrompts,   \* bound of the model: port prompts printed by one run
  Projects,
  Commands,
  DevCommands,  \* isDevServerCommand
  None

ASSUME BoundsAssumption == MaxRuns \in Nat /\ MaxPrompts \in Nat
ASSUME CommandsAssumption == DevCommands \subseteq Commands
ASSUME NoneAssumption == None \notin Projects \cup Commands

Runs == 1 .. MaxRuns

VARIABLES
  proj, cmd,   \* what run e runs, and for which project
  child,       \* "none", "alive", "exited" (exitCode set) or "closed"
  serving,     \* the server run e brought up answers (environment)
  waiting,     \* run e sits at a port prompt (environment)
  stopped,     \* the runs a user stopped (observation)
  tracked,     \* the runs with an entry in runningProcesses
  detached,
  ended,       \* an `end` was sent and executeCommand's promise resolved
  grace,       \* detachTimer is pending
  lost,        \* so is an earlier one that detachTimer names no more
  force,       \* forceDetachTimer is pending
  asked,       \* portPromptAsked
  prompts,     \* port prompts printed so far
  cards,       \* pendingConfirmations, as <<run, what for>>
  url,         \* state.lastDevUrls, as the command whose server it names
  recovering,  \* recoverDevUrlAfterDetach is under way for run e
  watch,       \* the check that follows the close of a detached run
  notified     \* the runs reported as crashed

envVars   == <<proj, cmd, serving, waiting, stopped, prompts>>
timerVars == <<grace, lost, force, asked>>
vars == <<envVars, timerVars, child, tracked, detached, ended, cards, url,
          recovering, watch, notified>>

NoWatch == [step |-> "none", at |-> None]
Watches == [step : {"none", "drop"}, at : {None}]
             \cup [step : {"first", "second", "spared"}, at : Commands]

Init ==
  /\ proj = [e \in Runs |-> None]
  /\ cmd = [e \in Runs |-> None]
  /\ child = [e \in Runs |-> "none"]
  /\ serving = [e \in Runs |-> FALSE]
  /\ waiting = [e \in Runs |-> FALSE]
  /\ stopped = {}
  /\ tracked = {}
  /\ detached = [e \in Runs |-> FALSE]
  /\ ended = [e \in Runs |-> FALSE]
  /\ grace = [e \in Runs |-> FALSE]
  /\ lost = [e \in Runs |-> FALSE]
  /\ force = [e \in Runs |-> FALSE]
  /\ asked = [e \in Runs |-> FALSE]
  /\ prompts = [e \in Runs |-> 0]
  /\ cards = {}
  /\ url = [p \in Projects |-> None]
  /\ recovering = [e \in Runs |-> FALSE]
  /\ watch = [e \in Runs |-> NoWatch]
  /\ notified = {}

-----------------------------------------------------------------------------
Set(f, e, v) == [f EXCEPT ![e] = v]
IsDev(e) == cmd[e] \in DevCommands
Output(e) == child[e] \in {"alive", "exited"}

(* getTrackedProcesses(p) *)
Tracked(p) == {e \in tracked : proj[e] = p}

(* The entry `find` meets first among those of p that run c. *)
IsFirst(e, p, c) ==
  /\ e \in Tracked(p) /\ cmd[e] = c
  /\ \A r \in Tracked(p) : cmd[r] = c => e <= r

(* A probe of the address of p's command c finds a server. *)
Answers(p, c) == \E r \in Runs : proj[r] = p /\ cmd[r] = c /\ serving[r]

(* removeTrackedProcess(p, pid of e) *)
Untrack(e) == tracked' = tracked \ {e}

(* forgetDevUrl(p) when nothing of p is left in the registry. *)
ForgetIfIdle(p, gone) ==
  url' = IF Tracked(p) \subseteq gone THEN Set(url, p, None) ELSE url

(***************************************************************************)
(* executeCommand: refused when the first tracked run of the same command  *)
(* has a live child; else the child is spawned and the run registered, and *)
(* its force-detach timer starts.                                          *)
(***************************************************************************)
Start(e, p, c) ==
  /\ child[e] = "none" /\ \A r \in Runs : child[r] = "none" => e <= r
  /\ \A r \in Runs : IsFirst(r, p, c) => child[r] # "alive"
  /\ proj' = Set(proj, e, p)
  /\ cmd' = Set(cmd, e, c)
  /\ child' = Set(child, e, "alive")
  /\ tracked' = tracked \cup {e}
  /\ force' = Set(force, e, TRUE)
  /\ UNCHANGED <<serving, waiting, stopped, detached, ended, grace, lost, asked,
                 prompts, cards, url, recovering, watch, notified>>

(* The child's `error` event: it could not be spawned. *)
SpawnFails(e) ==
  /\ child[e] = "alive" /\ e \in tracked
  /\ ~serving[e] /\ prompts[e] = 0 /\ ~ended[e]
  /\ child' = Set(child, e, "exited")
  /\ Untrack(e)
  /\ grace' = Set(grace, e, FALSE)
  /\ force' = Set(force, e, FALSE)
  /\ ForgetIfIdle(proj[e], {e})
  /\ ended' = Set(ended, e, TRUE)
  /\ UNCHANGED <<envVars, lost, asked, detached, cards, recovering, watch, notified>>

(* The server comes up without a word, or goes down. *)
ServerChanges(e) ==
  /\ \/ child[e] = "alive" /\ ~serving[e]
     \/ serving[e]
  /\ serving' = Set(serving, e, ~serving[e])
  /\ UNCHANGED <<proj, cmd, waiting, stopped, prompts, timerVars, child, tracked,
                 detached, ended, cards, url, recovering, watch, notified>>

(***************************************************************************)
(* A chunk of output with a URL, detached or not: the URL is recorded and  *)
(* a dev server gets its grace.  The timer is started whether or not one   *)
(* is pending, and detachTimer names the last one only.  Output may be     *)
(* read after its process was killed.                                      *)
(***************************************************************************)
PrintUrl(e) ==
  /\ Output(e)
  /\ serving' = IF child[e] = "exited" /\ e \in stopped THEN serving
                                                      ELSE Set(serving, e, TRUE)
  /\ url' = Set(url, proj[e], cmd[e])
  /\ IF IsDev(e) /\ ~detached[e]
     THEN /\ lost' = Set(lost, e, lost[e] \/ grace[e])
          /\ grace' = Set(grace, e, TRUE)
     ELSE UNCHANGED <<lost, grace>>
  /\ UNCHANGED <<proj, cmd, waiting, stopped, prompts, force, asked, child, tracked,
                 detached, ended, cards, recovering, watch, notified>>

(* Mutant: the timer of the prompt is not started. *)
PrintPromptUnbounded(e) ==
  /\ child[e] = "alive" /\ ~waiting[e] /\ prompts[e] < MaxPrompts
  /\ prompts' = Set(prompts, e, prompts[e] + 1)
  /\ waiting' = Set(waiting, e, TRUE)
  /\ IF IsDev(e) /\ ~detached[e] /\ ~asked[e]
     THEN /\ cards' = cards \cup {<<e, "prompt">>}
          /\ asked' = Set(asked, e, TRUE)
          /\ force' = Set(force, e, FALSE)
     ELSE UNCHANGED <<cards, asked, force>>
  /\ UNCHANGED <<proj, cmd, serving, stopped, grace, lost, child, tracked, detached,
                 ended, url, recovering, watch, notified>>

(* A chunk with a port prompt: a card asks the user, and the force-detach  *)
(* timer starts anew with the time the user has to answer.                 *)
PrintPrompt(e) ==
  /\ child[e] = "alive" /\ ~waiting[e] /\ prompts[e] < MaxPrompts
  /\ prompts' = Set(prompts, e, prompts[e] + 1)
  /\ waiting' = Set(waiting, e, TRUE)
  /\ IF IsDev(e) /\ ~detached[e] /\ ~asked[e]
     THEN /\ cards' = cards \cup {<<e, "prompt">>}
          /\ asked' = Set(asked, e, TRUE)
          /\ force' = Set(force, e, TRUE)
     ELSE UNCHANGED <<cards, asked, force>>
  /\ UNCHANGED <<proj, cmd, serving, stopped, grace, lost, child, tracked, detached,
                 ended, url, recovering, watch, notified>>

(* The user answers the card: the reply goes to the first tracked run of   *)
(* the same command, whose stdin is writable while its child lives.        *)
AnswerPrompt(e) ==
  /\ <<e, "prompt">> \in cards
  /\ cards' = cards \ {<<e, "prompt">>}
  /\ \/ \E r \in Runs :
          /\ IsFirst(r, proj[e], cmd[e]) /\ child[r] = "alive"
          /\ waiting' = Set(waiting, r, FALSE)
          /\ force' = Set(force, r, TRUE)
          /\ asked' = Set(asked, r, FALSE)
     \/ /\ \A r \in Runs : IsFirst(r, proj[e], cmd[e]) => child[r] # "alive"
        /\ UNCHANGED <<waiting, force, asked>>
  /\ UNCHANGED <<proj, cmd, serving, stopped, prompts, grace, lost, child, tracked,
                 detached, ended, url, recovering, watch, notified>>

(* A card expires, is released with its connection, or is answered: a      *)
(* confirmed retry is a Start.                                             *)
DropCard(card) ==
  /\ card \in cards
  /\ cards' = cards \ {card}
  /\ UNCHANGED <<envVars, timerVars, child, tracked, detached, ended, url, recovering,
                 watch, notified>>

-----------------------------------------------------------------------------
(* detach(): clears the timers it knows of, sends `end`, and looks for the *)
(* URL of a dev server that has not printed one.                           *)
Detach(e) ==
  /\ detached' = Set(detached, e, TRUE)
  /\ ended' = Set(ended, e, TRUE)
  /\ grace' = Set(grace, e, FALSE)
  /\ force' = Set(force, e, FALSE)
  /\ recovering' = Set(recovering, e, recovering[e] \/ (IsDev(e) /\ url[proj[e]] = None))

(* DEV_URL_DETACH_GRACE_MS after a URL. *)
GraceElapsed(e) ==
  /\ \/ grace[e] /\ UNCHANGED lost
     \/ lost[e] /\ lost' = Set(lost, e, FALSE)
  /\ IF detached[e] THEN UNCHANGED <<detached, ended, grace, force, recovering>>
                    ELSE Detach(e)
  /\ UNCHANGED <<envVars, asked, child, tracked, cards, url, watch, notified>>

(* The force-detach timer, or the one of a prompt nobody answered. *)
ForceElapsed(e) ==
  /\ force[e]
  /\ IF detached[e]
     THEN force' = Set(force, e, FALSE) /\ UNCHANGED <<detached, ended, grace, recovering>>
     ELSE Detach(e)
  /\ UNCHANGED <<envVars, lost, asked, child, tracked, cards, url, watch, notified>>

(* The URL of p becomes that of a server which answers. *)
Discovered(p) == \E c \in Commands : Answers(p, c) /\ url' = Set(url, p, c)

(* The probe of the candidate ports.  It may miss a server that is up; that *)
(* there was no URL is checked before a probe, not when it answers.         *)
Recover(e) ==
  /\ recovering[e]
  /\ recovering' = Set(recovering, e, FALSE)
  /\ UNCHANGED url \/ Discovered(proj[e])
  /\ UNCHANGED <<envVars, timerVars, child, tracked, detached, ended, cards, watch, notified>>

(* The searches of the chat and of the dashboard probe those ports too. *)
Discover(p) ==
  /\ Discovered(p)
  /\ UNCHANGED <<envVars, timerVars, child, tracked, detached, ended, cards, recovering,
                 watch, notified>>

(* After the kill of a server that is not in the registry (for which see   *)
(* ServerChanges) the URL of a project with nothing tracked is forgotten.  *)
ForgetUntracked(p) ==
  /\ ForgetIfIdle(p, {})
  /\ UNCHANGED <<envVars, timerVars, child, tracked, detached, ended, cards, recovering,
                 watch, notified>>

(* The child's `exit` event; nobody listens, but exitCode is set. *)
Exit(e) ==
  /\ child[e] = "alive"
  /\ child' = Set(child, e, "exited")
  /\ waiting' = Set(waiting, e, FALSE)
  /\ serving' \in {serving, Set(serving, e, FALSE)}
  /\ e \in stopped => ~serving'[e]
  /\ UNCHANGED <<proj, cmd, stopped, prompts, timerVars, tracked, detached, ended, cards,
                 url, recovering, watch, notified>>

(* Mutant: the whole project goes from the registry. *)
CloseAttachedAll(e, code) ==
  /\ tracked' = tracked \ Tracked(proj[e])
  /\ \/ /\ code = "failed" /\ IsDev(e)
        /\ cards' = cards \cup {<<e, "retry">>}
     \/ UNCHANGED cards
  /\ ended' = Set(ended, e, TRUE)
  /\ UNCHANGED watch

(* The `close` of a run that is not detached: its own entry goes, and a    *)
(* dev server that failed on a busy port gets a retry card; a code of null *)
(* ("killed") is taken for a stop.                                         *)
CloseAttached(e, code) ==
  /\ Untrack(e)
  /\ \/ /\ code = "failed" /\ IsDev(e)
        /\ cards' = cards \cup {<<e, "retry">>}
     \/ UNCHANGED cards
  /\ ended' = Set(ended, e, TRUE)
  /\ UNCHANGED watch

(* Mutant: without a URL the entry is kept. *)
CloseDetachedKeeping(e) ==
  /\ watch' = Set(watch, e,
       IF url[proj[e]] = None THEN NoWatch
                              ELSE [step |-> "first", at |-> url[proj[e]]])
  /\ UNCHANGED <<tracked, cards, ended>>

(* The `close` of a detached run: after a delay its project's URL will be  *)
(* probed, or the entry dropped if there is none.                          *)
CloseDetached(e) ==
  /\ watch' = Set(watch, e,
       IF url[proj[e]] = None THEN [step |-> "drop", at |-> None]
                              ELSE [step |-> "first", at |-> url[proj[e]]])
  /\ UNCHANGED <<tracked, cards, ended>>

(* createCloseHandler *)
Close(e, code) ==
  /\ child[e] = "exited"
  /\ child' = Set(child, e, "closed")
  /\ grace' = Set(grace, e, FALSE)
  /\ force' = Set(force, e, FALSE)
  /\ IF detached[e] THEN CloseDetached(e) ELSE CloseAttached(e, code)
  /\ UNCHANGED <<envVars, lost, asked, detached, url, recovering, notified>>

(* DETACHED_EXIT_PROBE_DELAY_MS later, no URL to probe. *)
DropQuiet(e) ==
  /\ watch[e].step = "drop"
  /\ watch' = Set(watch, e, NoWatch)
  /\ Untrack(e)
  /\ UNCHANGED <<envVars, timerVars, child, detached, ended, cards, url, recovering, notified>>

(* The server is taken for dead: the entry goes, and if it was still there *)
(* the user is told of a crash.                                            *)
DeclareDead(e) ==
  /\ watch' = Set(watch, e, NoWatch)
  /\ Untrack(e)
  /\ IF e \in tracked
     THEN ForgetIfIdle(proj[e], {e}) /\ notified' = notified \cup {e}
     ELSE UNCHANGED <<url, notified>>

(* A probe of the recorded URL: an answer spares the entry, a refusal or   *)
(* the second of two timeouts ends it.                                     *)
ProbeClosed(e) ==
  /\ watch[e].step \in {"first", "second"}
  /\ \/ /\ Answers(proj[e], watch[e].at)
        /\ watch' = Set(watch, e, [watch[e] EXCEPT !.step = "spared"])
        /\ UNCHANGED <<tracked, url, notified>>
     \/ /\ watch[e].step = "first"
        /\ watch' = Set(watch, e, [watch[e] EXCEPT !.step = "second"])
        /\ UNCHANGED <<tracked, url, notified>>
     \/ /\ watch[e].step = "second" \/ ~Answers(proj[e], watch[e].at)
        /\ DeclareDead(e)
  /\ UNCHANGED <<envVars, timerVars, child, detached, ended, cards, recovering>>

-----------------------------------------------------------------------------
(* Mutant: the entries stay until their children close. *)
StopKeepingEntries(p, who) ==
  /\ who # {} /\ who \subseteq Tracked(p)
  /\ stopped' = stopped \cup who
  /\ ForgetIfIdle(p, who)
  /\ UNCHANGED <<proj, cmd, serving, waiting, prompts, timerVars, child, tracked, detached,
                 ended, cards, recovering, watch, notified>>

(* Mutant: the URL goes with the first process stopped. *)
StopForgettingUrl(p, who) ==
  /\ who # {} /\ who \subseteq Tracked(p)
  /\ stopped' = stopped \cup who
  /\ tracked' = tracked \ who
  /\ url' = Set(url, p, None)
  /\ UNCHANGED <<proj, cmd, serving, waiting, prompts, timerVars, child, detached, ended,
                 cards, recovering, watch, notified>>

(* stopTrackedProcess(p): those of its runs that the target or the turn    *)
(* key picks are killed and forgotten.                                     *)
Stop(p, who) ==
  /\ who # {} /\ who \subseteq Tracked(p)
  /\ stopped' = stopped \cup who
  /\ tracked' = tracked \ who
  /\ ForgetIfIdle(p, who)
  /\ UNCHANGED <<proj, cmd, serving, waiting, prompts, timerVars, child, detached, ended,
                 cards, recovering, watch, notified>>

ServerStep(e) ==
  \/ GraceElapsed(e) \/ ForceElapsed(e) \/ Recover(e)
  \/ DropQuiet(e) \/ ProbeClosed(e)
  \/ \E code \in {"ok", "failed", "killed"} : Close(e, code)

EnvironmentStep(e) ==
  \/ \E p \in Projects, c \in Commands : Start(e, p, c)
  \/ SpawnFails(e) \/ ServerChanges(e) \/ PrintUrl(e) \/ PrintPrompt(e)
  \/ AnswerPrompt(e) \/ Exit(e)

Next ==
  \/ \E e \in Runs : ServerStep(e) \/ EnvironmentStep(e)
  \/ \E p \in Projects :
       \/ Discover(p) \/ ForgetUntracked(p)
       \/ \E who \in SUBSET Tracked(p) : Stop(p, who)
  \/ \E card \in cards : DropCard(card)

(* Timers fire, probes return and a child that exited closes; no command   *)
(* has to end or to print anything, and no user has to act.                *)
Fairness ==
  \A e \in Runs :
    /\ WF_vars(GraceElapsed(e)) /\ WF_vars(ForceElapsed(e))
    /\ WF_vars(DropQuiet(e)) /\ WF_vars(ProbeClosed(e))
    /\ WF_vars(\E code \in {"ok", "failed", "killed"} : Close(e, code))

Spec == Init /\ [][Next]_vars /\ Fairness

-----------------------------------------------------------------------------
TypeOK ==
  /\ proj \in [Runs -> Projects \cup {None}]
  /\ cmd \in [Runs -> Commands \cup {None}]
  /\ child \in [Runs -> {"none", "alive", "exited", "closed"}]
  /\ {serving, waiting, detached, ended, grace, lost, force, asked, recovering}
       \subseteq [Runs -> BOOLEAN]
  /\ stopped \cup tracked \cup notified \subseteq Runs
  /\ prompts \in [Runs -> 0 .. MaxPrompts]
  /\ cards \subseteq Runs \X {"prompt", "retry"}
  /\ url \in [Projects -> Commands \cup {None}]
  /\ watch \in [Runs -> Watches]

(* "a short build exiting next to a dev server can't orphan it"            *)
(* (executorClose.js:60-61): a live child that nobody stopped is in the    *)
(* registry, where `stop server` finds it.                                 *)
NoOrphans ==
  \A e \in Runs : child[e] = "alive" /\ e \notin stopped => e \in tracked

(* "an entry that was still tracked when the process died means it was     *)
(* never deliberately stopped" (executorClose.js:166-167): no stop is      *)
(* reported as a crash, however the stop falls between the close, the      *)
(* delay and the probes.                                                   *)
StopsAreNotCrashes == notified \cap stopped = {}

(* "The recorded URL can belong to a sibling process still running"        *)
(* (executorClose.js:160-161): a project's URL is only forgotten when      *)
(* nothing of it is tracked any more.                                      *)
UrlOutlivesSiblings ==
  [][\A p \in Projects : url[p] # None /\ url'[p] = None => Tracked(p)' = {}]_vars

(* Every run sends an `end` and resolves its promise: a command that ends, *)
(* one that never does, one that sits at a prompt nobody answers           *)
(* (executor.js:289-294).                                                  *)
EveryRunEnds == \A e \in Runs : (child[e] # "none") ~> ended[e]

(* A closed run leaves the registry, unless its project's URL answered:    *)
(* no "phantom running server with a dead PID" (executorClose.js:120-121). *)
ClosedRunsLeave ==
  \A e \in Runs :
    (child[e] = "closed" /\ e \in tracked)
      ~> (e \notin tracked \/ watch[e].step = "spared")

-----------------------------------------------------------------------------
(* Disagreements with the comments of the source. *)

(* "a literal duplicate of a command that is already tracked" is refused   *)
(* (executor.js:104-105).                                                  *)
NoDuplicates ==
  \A e, r \in tracked :
    child[e] = "alive" /\ child[r] = "alive" /\ proj[e] = proj[r] /\ cmd[e] = cmd[r]
      => e = r

(* Clearing both timers at the close is to prevent "a second,              *)
(* contradictory `still running in the background` end"                    *)
(* (executorClose.js:44-46).                                               *)
NoDetachAfterClose ==
  [][\A e \in Runs : child[e] = "closed" => detached'[e] = detached[e]]_vars

(* An entry used to live on forever, "reporting a phantom `running` server *)
(* with a dead PID" (executorClose.js:117-121): once the child has closed  *)
(* and its project's servers are down for good, the entry goes.            *)
PhantomsLeave ==
  \A e \in Runs :
    <>[](child[e] = "closed" /\ \A r \in Runs : ~serving[r]) => <>[](e \notin tracked)

(* The timer is cleared "so the console doesn't claim `Dev server is       *)
(* running` while it's actually just sitting at this prompt"               *)
(* (executor.js:290-291): no grace runs out while a card is open.          *)
NoClaimAtPrompt ==
  [][\A e \in Runs :
       <<e, "prompt">> \in cards /\ waiting[e] /\ detached'[e] /\ ~detached[e]
         => ~GraceElapsed(e)]_vars

(* "a deliberately CANCELLED run [...] must never get a `retry?` card"     *)
(* (executorClose.js:81-82).                                               *)
NoRetryAfterStop == \A e \in stopped : <<e, "retry">> \notin cards

(* "the reply must reach the one that's actually sitting at the prompt"    *)
(* (connectionConfirm.js:83-84).                                           *)
ReplyReaches ==
  [][\A e \in Runs :
       AnswerPrompt(e) /\ child[e] = "alive" /\ e \in tracked => ~waiting'[e]]_vars
=============================================================================
