---------------------------- MODULE ExecutorProofs ----------------------------
(***************************************************************************)
(* For any projects, commands and number of runs: no live process is lost  *)
(* from the registry, and no stop is reported as a crash.  Both follow     *)
(* from where a run can be when it is tracked, watched, stopped, reported. *)
(***************************************************************************)
EXTENDS Executor, TLAPS

(* Only a run whose child has closed is watched. *)
WatchedAreClosed ==
  \A e \in Runs : watch[e].step # "none" => child[e] = "closed"

(* The registry holds nothing that was stopped or reported. *)
TrackedAreOpen == tracked \cap (stopped \cup notified) = {}

(* A run that has not started is nowhere. *)
UnbornAreNowhere ==
  \A e \in Runs : child[e] = "none" => e \notin stopped \cup notified \cup tracked

(* A run that has started has a project and a command. *)
BornAreNamed ==
  \A e \in Runs : child[e] # "none" => proj[e] \in Projects /\ cmd[e] \in Commands

Registry ==
  /\ WatchedAreClosed
  /\ TrackedAreOpen
  /\ UnbornAreNowhere
  /\ NoOrphans
  /\ StopsAreNotCrashes

IInv == TypeOK /\ BornAreNamed /\ Registry

-----------------------------------------------------------------------------
LEMMA SetType ==
  ASSUME NEW T, NEW f \in [Runs -> T], NEW e \in Runs, NEW v \in T
  PROVE  Set(f, e, v) \in [Runs -> T]
  BY DEF Set

LEMMA SetTrue ==
  ASSUME NEW f \in [Runs -> BOOLEAN], NEW e \in Runs
  PROVE  Set(f, e, TRUE) \in [Runs -> BOOLEAN]
  BY SetType

LEMMA SetFalse ==
  ASSUME NEW f \in [Runs -> BOOLEAN], NEW e \in Runs
  PROVE  Set(f, e, FALSE) \in [Runs -> BOOLEAN]
  BY SetType

(* ~a and a \/ b are flags whatever a and b are. *)
LEMMA SetFlag ==
  ASSUME NEW f \in [Runs -> BOOLEAN], NEW e \in Runs
  PROVE  /\ Set(f, e, TRUE) \in [Runs -> BOOLEAN]
         /\ Set(f, e, FALSE) \in [Runs -> BOOLEAN]
         /\ \A a : Set(f, e, ~a) \in [Runs -> BOOLEAN]
         /\ \A a, b : Set(f, e, a \/ b) \in [Runs -> BOOLEAN]
  BY ZenonT(60) DEF Set

LEMMA SetUrl ==
  ASSUME url \in [Projects -> Commands \cup {None}],
         NEW p, NEW c \in Commands \cup {None}
  PROVE  Set(url, p, c) \in [Projects -> Commands \cup {None}]
  BY DEF Set

LEMMA ForgetType ==
  ASSUME NEW p, NEW gone, url \in [Projects -> Commands \cup {None}],
         ForgetIfIdle(p, gone)
  PROVE  url' \in [Projects -> Commands \cup {None}]
  BY SetUrl DEF ForgetIfIdle

LEMMA DetachType ==
  ASSUME NEW e \in Runs, Detach(e),
         detached \in [Runs -> BOOLEAN], ended \in [Runs -> BOOLEAN],
         grace \in [Runs -> BOOLEAN], force \in [Runs -> BOOLEAN],
         recovering \in [Runs -> BOOLEAN]
  PROVE  /\ detached' \in [Runs -> BOOLEAN] /\ ended' \in [Runs -> BOOLEAN]
         /\ grace' \in [Runs -> BOOLEAN] /\ force' \in [Runs -> BOOLEAN]
         /\ recovering' \in [Runs -> BOOLEAN]
  BY SetFlag, ZenonT(60) DEF Detach

LEMMA TypeInit == Init => TypeOK /\ BornAreNamed
  <1> SUFFICES ASSUME Init PROVE TypeOK /\ BornAreNamed
    OBVIOUS
  <1>1. \A v \in BOOLEAN : [e \in Runs |-> v] \in [Runs -> BOOLEAN]
    BY ZenonT(60)
  <1>2. {serving, waiting, detached, ended, grace, lost, force, asked, recovering}
          \subseteq [Runs -> BOOLEAN]
    BY <1>1, ZenonT(60) DEF Init
  <1>3. watch \in [Runs -> Watches]
    BY DEF Init, NoWatch, Watches
  <1>4. prompts \in [Runs -> 0 .. MaxPrompts]
    BY BoundsAssumption DEF Init
  <1>5. QED
    BY <1>2, <1>3, <1>4 DEF Init, TypeOK, BornAreNamed

-----------------------------------------------------------------------------
(* Every action preserves the types, and the names of what has started. *)
LEMMA TypeStep == TypeOK /\ BornAreNamed /\ [Next]_vars => TypeOK' /\ BornAreNamed'
  <1> SUFFICES ASSUME TypeOK, BornAreNamed, [Next]_vars
               PROVE  TypeOK' /\ BornAreNamed'
    OBVIOUS
  <1>t. /\ proj \in [Runs -> Projects \cup {None}]
        /\ cmd \in [Runs -> Commands \cup {None}]
        /\ child \in [Runs -> {"none", "alive", "exited", "closed"}]
        /\ prompts \in [Runs -> 0 .. MaxPrompts]
        /\ url \in [Projects -> Commands \cup {None}]
        /\ watch \in [Runs -> Watches]
        /\ cards \subseteq Runs \X {"prompt", "retry"}
    BY DEF TypeOK
  <1>f. /\ serving \in [Runs -> BOOLEAN] /\ waiting \in [Runs -> BOOLEAN]
        /\ detached \in [Runs -> BOOLEAN] /\ ended \in [Runs -> BOOLEAN]
        /\ grace \in [Runs -> BOOLEAN] /\ lost \in [Runs -> BOOLEAN]
        /\ force \in [Runs -> BOOLEAN] /\ asked \in [Runs -> BOOLEAN]
        /\ recovering \in [Runs -> BOOLEAN]
    BY ZenonT(60) DEF TypeOK
  <1>u. ASSUME proj' = proj, cmd' = cmd,
               \A e \in Runs : child[e] = "none" => child'[e] = "none"
        PROVE  BornAreNamed'
    BY <1>u DEF BornAreNamed
  <1>1. ASSUME NEW e \in Runs, NEW p \in Projects, NEW c \in Commands, Start(e, p, c)
        PROVE  TypeOK' /\ BornAreNamed'
    <2>1. force' \in [Runs -> BOOLEAN]
      BY <1>1, <1>f, SetFlag, ZenonT(60) DEF Start
    <2>2. /\ proj' \in [Runs -> Projects \cup {None}]
          /\ cmd' \in [Runs -> Commands \cup {None}]
          /\ child' \in [Runs -> {"none", "alive", "exited", "closed"}]
      BY <1>1, <1>t DEF Start, Set
    <2>3. TypeOK'
      BY <1>1, <1>t, <1>f, <2>1, <2>2 DEF Start, TypeOK
    <2>4. BornAreNamed'
      BY <1>1, <1>t DEF Start, BornAreNamed, Set
    <2>5. QED
      BY <2>3, <2>4
  <1>2. ASSUME NEW e \in Runs, SpawnFails(e)
        PROVE  TypeOK' /\ BornAreNamed'
    <2>1. /\ grace' \in [Runs -> BOOLEAN] /\ force' \in [Runs -> BOOLEAN]
          /\ ended' \in [Runs -> BOOLEAN]
      BY <1>2, <1>f, SetFlag, ZenonT(60) DEF SpawnFails
    <2>2. url' \in [Projects -> Commands \cup {None}]
      BY <1>2, <1>t, ForgetType DEF SpawnFails
    <2>3. child' \in [Runs -> {"none", "alive", "exited", "closed"}]
      BY <1>2, <1>t DEF SpawnFails, Set
    <2>4. TypeOK'
      BY <1>2, <1>t, <1>f, <2>1, <2>2, <2>3 DEF SpawnFails, Untrack, envVars, TypeOK
    <2>5. BornAreNamed'
      BY <1>2, <1>t, <1>u DEF SpawnFails, envVars, Set
    <2>6. QED
      BY <2>4, <2>5
  <1>3. ASSUME NEW e \in Runs, ServerChanges(e)
        PROVE  TypeOK' /\ BornAreNamed'
    <2>1. /\ serving' \in [Runs -> BOOLEAN]
      BY <1>3, <1>f, SetFlag, ZenonT(60) DEF ServerChanges
    <2>2. TypeOK'
      BY <1>3, <1>t, <1>f, <2>1 DEF ServerChanges, envVars, timerVars, TypeOK
    <2>3. BornAreNamed'
      BY <1>3, <1>t, <1>u DEF ServerChanges, envVars, Set
    <2>4. QED
      BY <2>2, <2>3
  <1>4. ASSUME NEW e \in Runs, PrintUrl(e)
        PROVE  TypeOK' /\ BornAreNamed'
    <2>s. serving' \in [Runs -> BOOLEAN]
      <3>1. CASE child[e] = "exited" /\ e \in stopped
        BY <1>4, <1>f, <3>1, ZenonT(60) DEF PrintUrl
      <3>2. CASE ~(child[e] = "exited" /\ e \in stopped)
        BY <1>4, <1>f, <3>2, SetFlag, ZenonT(60) DEF PrintUrl
      <3>3. QED
        BY <3>1, <3>2
    <2>1. lost' \in [Runs -> BOOLEAN] /\ grace' \in [Runs -> BOOLEAN]
      <3>1. CASE IsDev(e) /\ ~detached[e]
        <4>1. /\ lost' = Set(lost, e, lost[e] \/ grace[e])
              /\ grace' = Set(grace, e, TRUE)
          BY <1>4, <3>1, ZenonT(60) DEF PrintUrl
        <4>2. Set(lost, e, lost[e] \/ grace[e]) \in [Runs -> BOOLEAN]
          BY <1>f, SetFlag, ZenonT(60)
        <4>3. QED
          BY <1>f, <4>1, <4>2, SetFlag, ZenonT(60)
      <3>2. CASE ~(IsDev(e) /\ ~detached[e])
        BY <1>4, <1>f, <3>2, SetFlag, ZenonT(60) DEF PrintUrl
      <3>3. QED
        BY <3>1, <3>2
    <2>2. url' \in [Projects -> Commands \cup {None}]
      BY <1>4, <1>t, SetUrl DEF PrintUrl
    <2>3. TypeOK'
      BY <1>4, <1>t, <1>f, <2>s, <2>1, <2>2 DEF PrintUrl, envVars, timerVars, TypeOK
    <2>4. BornAreNamed'
      BY <1>4, <1>t, <1>u DEF PrintUrl, envVars, Set
    <2>5. QED
      BY <2>3, <2>4
  <1>5. ASSUME NEW e \in Runs, PrintPrompt(e)
        PROVE  TypeOK' /\ BornAreNamed'
    <2>1. /\ waiting' \in [Runs -> BOOLEAN]
          /\ asked' \in [Runs -> BOOLEAN]
          /\ force' \in [Runs -> BOOLEAN]
      <3>1. waiting' = Set(waiting, e, TRUE)
        BY <1>5, ZenonT(60) DEF PrintPrompt
      <3>2. asked' = asked \/ asked' = Set(asked, e, TRUE)
        BY <1>5, ZenonT(60) DEF PrintPrompt
      <3>3. force' = force \/ force' = Set(force, e, TRUE)
        BY <1>5, ZenonT(60) DEF PrintPrompt
      <3>4. waiting' \in [Runs -> BOOLEAN]
        BY <1>f, <3>1, SetTrue, ZenonT(60)
      <3>5. asked' \in [Runs -> BOOLEAN]
        BY <1>f, <3>2, SetTrue, ZenonT(60)
      <3>6. force' \in [Runs -> BOOLEAN]
        BY <1>f, <3>3, SetTrue, ZenonT(60)
      <3>7. QED
        BY <3>4, <3>5, <3>6
    <2>2. prompts' \in [Runs -> 0 .. MaxPrompts]
      BY <1>5, <1>t, BoundsAssumption DEF PrintPrompt, Set
    <2>3. TypeOK'
      <3>1. cards' \subseteq Runs \X {"prompt", "retry"}
        <4>1. cards' = cards \cup {<<e, "prompt">>} \/ cards' = cards
          BY <1>5, ZenonT(60) DEF PrintPrompt
        <4>2. QED
          BY <1>t, <4>1
      <3>2. QED
        BY <1>5, <1>t, <1>f, <2>1, <2>2, <3>1 DEF PrintPrompt, TypeOK
    <2>4. BornAreNamed'
      BY <1>5, <1>t, <1>u DEF PrintPrompt, envVars, Set
    <2>5. QED
      BY <2>3, <2>4
  <1>6. ASSUME NEW e \in Runs, AnswerPrompt(e)
        PROVE  TypeOK' /\ BornAreNamed'
    <2>1. /\ waiting' \in [Runs -> BOOLEAN]
          /\ force' \in [Runs -> BOOLEAN]
          /\ asked' \in [Runs -> BOOLEAN]
      <3>1. CASE UNCHANGED <<waiting, force, asked>>
        BY <1>f, <3>1
      <3>2. CASE \E r \in Runs :
                   /\ waiting' = Set(waiting, r, FALSE)
                   /\ force' = Set(force, r, TRUE)
                   /\ asked' = Set(asked, r, FALSE)
        <4>1. PICK r \in Runs : /\ waiting' = Set(waiting, r, FALSE)
                                /\ force' = Set(force, r, TRUE)
                                /\ asked' = Set(asked, r, FALSE)
          BY <3>2, ZenonT(60)
        <4>2. QED
          BY <1>f, <4>1, SetFlag, ZenonT(60)
      <3>3. QED
        BY <1>6, <3>1, <3>2, ZenonT(60) DEF AnswerPrompt
    <2>2. TypeOK'
      BY <1>6, <1>t, <1>f, <2>1 DEF AnswerPrompt, envVars, timerVars, TypeOK
    <2>3. BornAreNamed'
      BY <1>6, <1>t, <1>u DEF AnswerPrompt, envVars, Set
    <2>4. QED
      BY <2>2, <2>3
  <1>7. ASSUME NEW card \in cards, DropCard(card)
        PROVE  TypeOK' /\ BornAreNamed'
    <2>1. TypeOK'
      BY <1>7, <1>t, <1>f DEF DropCard, envVars, timerVars, TypeOK
    <2>2. BornAreNamed'
      BY <1>7, <1>t, <1>u DEF DropCard, envVars, Set
    <2>3. QED
      BY <2>1, <2>2
  <1>8. ASSUME NEW e \in Runs, GraceElapsed(e)
        PROVE  TypeOK' /\ BornAreNamed'
    <2>1. /\ lost' \in [Runs -> BOOLEAN]
          /\ detached' \in [Runs -> BOOLEAN]
          /\ ended' \in [Runs -> BOOLEAN]
          /\ grace' \in [Runs -> BOOLEAN]
          /\ force' \in [Runs -> BOOLEAN]
          /\ recovering' \in [Runs -> BOOLEAN]
      <3>1. lost' \in [Runs -> BOOLEAN]
        <4>1. lost' = lost \/ lost' = Set(lost, e, FALSE)
          BY <1>8, ZenonT(60) DEF GraceElapsed
        <4>2. QED
          BY <1>f, <4>1, SetFalse, ZenonT(60)
      <3>2. CASE detached[e]
        BY <1>8, <1>f, <3>1, <3>2 DEF GraceElapsed
      <3>3. CASE ~detached[e]
        BY <1>8, <1>f, <3>1, <3>3, DetachType, ZenonT(60) DEF GraceElapsed
      <3>4. QED
        BY <3>2, <3>3
    <2>2. TypeOK'
      BY <1>8, <1>t, <1>f, <2>1 DEF GraceElapsed, Detach, envVars, timerVars, TypeOK
    <2>3. BornAreNamed'
      BY <1>8, <1>t, <1>u DEF GraceElapsed, Detach, envVars, Set
    <2>4. QED
      BY <2>2, <2>3
  <1>9. ASSUME NEW e \in Runs, ForceElapsed(e)
        PROVE  TypeOK' /\ BornAreNamed'
    <2>1. /\ detached' \in [Runs -> BOOLEAN]
          /\ ended' \in [Runs -> BOOLEAN]
          /\ grace' \in [Runs -> BOOLEAN]
          /\ force' \in [Runs -> BOOLEAN]
          /\ recovering' \in [Runs -> BOOLEAN]
      <3>1. CASE detached[e]
        BY <1>9, <1>f, <3>1, SetFlag, ZenonT(60) DEF ForceElapsed
      <3>2. CASE ~detached[e]
        BY <1>9, <1>f, <3>2, DetachType, ZenonT(60) DEF ForceElapsed
      <3>3. QED
        BY <3>1, <3>2
    <2>2. TypeOK'
      BY <1>9, <1>t, <1>f, <2>1 DEF ForceElapsed, Detach, envVars, timerVars, TypeOK
    <2>3. BornAreNamed'
      BY <1>9, <1>t, <1>u DEF ForceElapsed, Detach, envVars, Set
    <2>4. QED
      BY <2>2, <2>3
  <1>10. ASSUME NEW e \in Runs, Recover(e)
        PROVE  TypeOK' /\ BornAreNamed'
    <2>1. /\ recovering' \in [Runs -> BOOLEAN]
      BY <1>10, <1>f, SetFlag, ZenonT(60) DEF Recover
    <2>2. url' \in [Projects -> Commands \cup {None}]
      BY <1>10, <1>t, SetUrl DEF Recover, Discovered
    <2>3. TypeOK'
      BY <1>10, <1>t, <1>f, <2>1, <2>2 DEF Recover, envVars, timerVars, TypeOK
    <2>4. BornAreNamed'
      BY <1>10, <1>t, <1>u DEF Recover, envVars, Set
    <2>5. QED
      BY <2>3, <2>4
  <1>11. ASSUME NEW e \in Runs, Exit(e)
        PROVE  TypeOK' /\ BornAreNamed'
    <2>1. /\ serving' \in [Runs -> BOOLEAN]
          /\ waiting' \in [Runs -> BOOLEAN]
      <3>1. serving' = serving \/ serving' = Set(serving, e, FALSE)
        BY <1>11, ZenonT(60) DEF Exit
      <3>2. QED
        <4>1. waiting' = Set(waiting, e, FALSE)
          BY <1>11, ZenonT(60) DEF Exit
        <4>2. serving' \in [Runs -> BOOLEAN]
          BY <1>f, <3>1, SetFalse, ZenonT(60)
        <4>3. waiting' \in [Runs -> BOOLEAN]
          BY <1>f, <4>1, SetFalse, ZenonT(60)
        <4>4. QED
          BY <4>2, <4>3
    <2>2. child' \in [Runs -> {"none", "alive", "exited", "closed"}]
      BY <1>11, <1>t DEF Exit, Set
    <2>3. TypeOK'
      BY <1>11, <1>t, <1>f, <2>1, <2>2 DEF Exit, envVars, timerVars, TypeOK
    <2>4. BornAreNamed'
      BY <1>11, <1>t, <1>u DEF Exit, envVars, Set
    <2>5. QED
      BY <2>3, <2>4
  <1>12. ASSUME NEW e \in Runs, NEW code \in {"ok", "failed", "killed"}, Close(e, code)
        PROVE  TypeOK' /\ BornAreNamed'
    <2>1. /\ ended' \in [Runs -> BOOLEAN]
          /\ grace' \in [Runs -> BOOLEAN]
          /\ force' \in [Runs -> BOOLEAN]
      <3>1. ended' = ended \/ ended' = Set(ended, e, TRUE)
        <4>1. CASE detached[e]
          BY <1>12, <4>1, ZenonT(60) DEF Close, CloseDetached
        <4>2. CASE ~detached[e]
          BY <1>12, <4>2, ZenonT(60) DEF Close, CloseAttached
        <4>3. QED
          BY <4>1, <4>2
      <3>2. QED
        <4>1. grace' = Set(grace, e, FALSE) /\ force' = Set(force, e, FALSE)
          BY <1>12, ZenonT(60) DEF Close
        <4>2. ended' \in [Runs -> BOOLEAN]
          BY <1>f, <3>1, SetTrue, ZenonT(60)
        <4>3. grace' \in [Runs -> BOOLEAN]
          BY <1>f, <4>1, SetFalse, ZenonT(60)
        <4>4. force' \in [Runs -> BOOLEAN]
          BY <1>f, <4>1, SetFalse, ZenonT(60)
        <4>5. QED
          BY <4>2, <4>3, <4>4
    <2>2. child' \in [Runs -> {"none", "alive", "exited", "closed"}]
      BY <1>12, <1>t DEF Close, Set
    <2>3. watch' \in [Runs -> Watches]
      BY <1>12, <1>t DEF Close, CloseAttached, CloseDetached, BornAreNamed, Watches, Set
    <2>4. TypeOK'
      <3>1. tracked' \subseteq tracked /\ cards' \subseteq Runs \X {"prompt", "retry"}
        <4>1. CASE detached[e]
          BY <1>12, <1>t, <4>1 DEF Close, CloseDetached
        <4>2. CASE ~detached[e]
          <5>1. cards' = cards \cup {<<e, "retry">>} \/ cards' = cards
            BY <1>12, <4>2, ZenonT(60) DEF Close, CloseAttached
          <5>2. tracked' = tracked \ {e}
            BY <1>12, <4>2, ZenonT(60) DEF Close, CloseAttached, Untrack
          <5>3. QED
            BY <1>t, <5>1, <5>2
        <4>3. QED
          BY <4>1, <4>2
      <3>2. QED
        BY <1>12, <1>t, <1>f, <2>1, <2>2, <2>3, <3>1 DEF Close, envVars, TypeOK
    <2>5. BornAreNamed'
      BY <1>12, <1>t, <1>u DEF Close, CloseAttached, CloseDetached, Untrack, envVars, Set
    <2>6. QED
      BY <2>4, <2>5
  <1>13. ASSUME NEW e \in Runs, DropQuiet(e)
        PROVE  TypeOK' /\ BornAreNamed'
    <2>1. watch' \in [Runs -> Watches]
      BY <1>13, <1>t DEF DropQuiet, NoWatch, Watches, Set
    <2>2. TypeOK'
      BY <1>13, <1>t, <1>f, <2>1 DEF DropQuiet, Untrack, envVars, timerVars, TypeOK
    <2>3. BornAreNamed'
      BY <1>13, <1>t, <1>u DEF DropQuiet, Untrack, envVars, Set
    <2>4. QED
      BY <2>2, <2>3
  <1>14. ASSUME NEW e \in Runs, ProbeClosed(e)
        PROVE  TypeOK' /\ BornAreNamed'
    <2>1. watch' \in [Runs -> Watches]
      BY <1>14, <1>t DEF ProbeClosed, DeclareDead, NoWatch, Watches, Set
    <2>2. url' \in [Projects -> Commands \cup {None}]
      BY <1>14, <1>t, ForgetType DEF ProbeClosed, DeclareDead
    <2>3. TypeOK'
      BY <1>14, <1>t, <1>f, <2>1, <2>2 DEF ProbeClosed, DeclareDead, Untrack, envVars, timerVars, TypeOK
    <2>4. BornAreNamed'
      BY <1>14, <1>t, <1>u DEF ProbeClosed, DeclareDead, Untrack, envVars, Set
    <2>5. QED
      BY <2>3, <2>4
  <1>15. ASSUME NEW p \in Projects, NEW who \in SUBSET Tracked(p), Stop(p, who)
        PROVE  TypeOK' /\ BornAreNamed'
    <2>1. url' \in [Projects -> Commands \cup {None}]
      BY <1>15, <1>t, ForgetType DEF Stop
    <2>2. TypeOK'
      BY <1>15, <1>t, <1>f, <2>1 DEF Stop, Tracked, envVars, timerVars, TypeOK
    <2>3. BornAreNamed'
      BY <1>15, <1>t, <1>u DEF Stop, Tracked, envVars, Set
    <2>4. QED
      BY <2>2, <2>3
  <1>16. ASSUME UNCHANGED vars
        PROVE  TypeOK' /\ BornAreNamed'
    <2>1. TypeOK'
      BY <1>16, <1>t, <1>f DEF vars, envVars, timerVars, TypeOK
    <2>2. BornAreNamed'
      BY <1>16, <1>t, <1>u DEF vars, envVars, Set
    <2>3. QED
      BY <2>1, <2>2
  <1>17. ASSUME NEW p \in Projects, Discover(p) \/ ForgetUntracked(p)
        PROVE  TypeOK' /\ BornAreNamed'
    <2>1. url' \in [Projects -> Commands \cup {None}]
      BY <1>17, <1>t, SetUrl, ForgetType DEF Discover, Discovered, ForgetUntracked
    <2>2. UNCHANGED <<envVars, timerVars, child, tracked, detached, ended, cards, recovering,
                      watch, notified>>
      BY <1>17, ZenonT(60) DEF Discover, ForgetUntracked
    <2>3. TypeOK'
      BY <1>t, <1>f, <2>1, <2>2 DEF envVars, timerVars, TypeOK
    <2>4. BornAreNamed'
      BY <1>t, <1>u, <2>2 DEF envVars
    <2>5. QED
      BY <2>3, <2>4
  <1>18. QED
    BY <1>1, <1>2, <1>3, <1>4, <1>5, <1>6, <1>7, <1>8, <1>9, <1>10, <1>11, <1>12, <1>13,
       <1>14, <1>15, <1>16, <1>17
       DEF Next, ServerStep, EnvironmentStep

-----------------------------------------------------------------------------
(* Every action preserves where runs can be.  Most leave the registry and  *)
(* the children alone; the others have a step each.                        *)
LEMMA RegistryStep == TypeOK /\ Registry /\ [Next]_vars => Registry'
  <1> SUFFICES ASSUME TypeOK, Registry, [Next]_vars
               PROVE  Registry'
    OBVIOUS
  <1>t. /\ child \in [Runs -> {"none", "alive", "exited", "closed"}]
        /\ watch \in [Runs -> Watches]
        /\ stopped \subseteq Runs /\ tracked \subseteq Runs /\ notified \subseteq Runs
    BY DEF TypeOK
  <1> DEFINE R == /\ WatchedAreClosed /\ TrackedAreOpen /\ UnbornAreNowhere
                  /\ NoOrphans /\ StopsAreNotCrashes
  <1>r. R
    BY DEF Registry
  <1>s. ASSUME UNCHANGED <<child, tracked, stopped, notified, watch>>
        PROVE  Registry'
    BY <1>r, <1>s DEF Registry, WatchedAreClosed, TrackedAreOpen, UnbornAreNowhere,
                      NoOrphans, StopsAreNotCrashes
  <1>1. ASSUME NEW e \in Runs, NEW p \in Projects, NEW c \in Commands, Start(e, p, c)
        PROVE  Registry'
    <2>1. /\ child[e] = "none" /\ child' = [child EXCEPT ![e] = "alive"]
          /\ tracked' = tracked \cup {e}
          /\ stopped' = stopped /\ notified' = notified /\ watch' = watch
      BY <1>1 DEF Start, Set
    <2>2. QED
      BY <1>t, <1>r, <2>1 DEF Registry, WatchedAreClosed, TrackedAreOpen, UnbornAreNowhere,
                              NoOrphans, StopsAreNotCrashes
  <1>2. ASSUME NEW e \in Runs, SpawnFails(e)
        PROVE  Registry'
    <2>1. /\ child[e] = "alive" /\ child' = [child EXCEPT ![e] = "exited"]
          /\ tracked' = tracked \ {e}
          /\ stopped' = stopped /\ notified' = notified /\ watch' = watch
      BY <1>2 DEF SpawnFails, Untrack, Set, envVars
    <2>2. QED
      BY <1>t, <1>r, <2>1 DEF Registry, WatchedAreClosed, TrackedAreOpen, UnbornAreNowhere,
                              NoOrphans, StopsAreNotCrashes
  <1>3. ASSUME NEW e \in Runs, Exit(e)
        PROVE  Registry'
    <2>1. /\ child[e] = "alive" /\ child' = [child EXCEPT ![e] = "exited"]
          /\ UNCHANGED <<tracked, stopped, notified, watch>>
      BY <1>3 DEF Exit, Set
    <2>2. QED
      BY <1>t, <1>r, <2>1 DEF Registry, WatchedAreClosed, TrackedAreOpen, UnbornAreNowhere,
                              NoOrphans, StopsAreNotCrashes
  <1>4. ASSUME NEW e \in Runs, NEW code \in {"ok", "failed", "killed"}, Close(e, code)
        PROVE  Registry'
    <2>1. /\ child[e] = "exited" /\ child' = [child EXCEPT ![e] = "closed"]
          /\ stopped' = stopped /\ notified' = notified
      BY <1>4 DEF Close, Set, envVars
    <2>2. CASE detached[e]
      <3>1. tracked' = tracked /\ \E w : watch' = [watch EXCEPT ![e] = w]
        BY <1>4, <2>2 DEF Close, CloseDetached, Set
      <3>2. QED
        BY <1>t, <1>r, <2>1, <3>1
           DEF Registry, WatchedAreClosed, TrackedAreOpen, UnbornAreNowhere, NoOrphans,
               StopsAreNotCrashes
    <2>3. CASE ~detached[e]
      <3>1. tracked' = tracked \ {e} /\ watch' = watch
        BY <1>4, <2>3, ZenonT(60) DEF Close, CloseAttached, Untrack
      <3>2. QED
        BY <1>t, <1>r, <2>1, <3>1
           DEF Registry, WatchedAreClosed, TrackedAreOpen, UnbornAreNowhere, NoOrphans,
               StopsAreNotCrashes
    <2>4. QED
      BY <2>2, <2>3
  <1>5. ASSUME NEW e \in Runs, DropQuiet(e)
        PROVE  Registry'
    <2>1. /\ watch[e].step # "none" /\ watch' = [watch EXCEPT ![e] = NoWatch]
          /\ tracked' = tracked \ {e}
          /\ UNCHANGED <<child, stopped, notified>>
      BY <1>5 DEF DropQuiet, Untrack, Set, envVars
    <2>2. QED
      BY <1>t, <1>r, <2>1 DEF Registry, WatchedAreClosed, TrackedAreOpen, UnbornAreNowhere,
                              NoOrphans, StopsAreNotCrashes, NoWatch
  <1>6. ASSUME NEW e \in Runs, ProbeClosed(e)
        PROVE  Registry'
    <2>1. /\ watch[e].step # "none"
          /\ UNCHANGED <<child, stopped>>
      BY <1>6 DEF ProbeClosed, envVars
    <2>2. CASE UNCHANGED <<tracked, notified>> /\ \E w : watch' = [watch EXCEPT ![e] = w]
      BY <1>t, <1>r, <2>1, <2>2
         DEF Registry, WatchedAreClosed, TrackedAreOpen, UnbornAreNowhere, NoOrphans,
             StopsAreNotCrashes
    <2>3. CASE DeclareDead(e)
      <3>1. /\ watch' = [watch EXCEPT ![e] = NoWatch] /\ tracked' = tracked \ {e}
            /\ notified' = IF e \in tracked THEN notified \cup {e} ELSE notified
        BY <2>3 DEF DeclareDead, Untrack, Set
      <3>2. QED
        BY <1>t, <1>r, <2>1, <3>1
           DEF Registry, WatchedAreClosed, TrackedAreOpen, UnbornAreNowhere, NoOrphans,
               StopsAreNotCrashes, NoWatch
    <2>4. QED
      BY <1>6, <2>2, <2>3 DEF ProbeClosed, Set
  <1>7. ASSUME NEW p \in Projects, NEW who \in SUBSET Tracked(p), Stop(p, who)
        PROVE  Registry'
    <2>1. /\ who \subseteq tracked
          /\ stopped' = stopped \cup who /\ tracked' = tracked \ who
          /\ UNCHANGED <<child, notified, watch>>
      BY <1>7 DEF Stop, Tracked
    <2>2. QED
      BY <1>t, <1>r, <2>1 DEF Registry, WatchedAreClosed, TrackedAreOpen, UnbornAreNowhere,
                              NoOrphans, StopsAreNotCrashes
  <1>8. ASSUME NEW e \in Runs,
               ServerChanges(e) \/ PrintUrl(e) \/ PrintPrompt(e) \/ AnswerPrompt(e)
               \/ GraceElapsed(e) \/ ForceElapsed(e) \/ Recover(e)
        PROVE  Registry'
    <2>1. UNCHANGED <<child, tracked, stopped, notified, watch>>
      BY <1>8, ZenonT(60) DEF ServerChanges, PrintUrl, PrintPrompt, AnswerPrompt, GraceElapsed,
                         ForceElapsed, Recover, envVars
    <2>2. QED
      BY <1>s, <2>1
  <1>9. ASSUME \/ \E card \in cards : DropCard(card)
               \/ \E p \in Projects : Discover(p) \/ ForgetUntracked(p)
               \/ UNCHANGED vars
        PROVE  Registry'
    BY <1>9, <1>s DEF DropCard, Discover, ForgetUntracked, vars, envVars
  <1>10. QED
    BY <1>1, <1>2, <1>3, <1>4, <1>5, <1>6, <1>7, <1>8, <1>9
       DEF Next, ServerStep, EnvironmentStep

LEMMA RegistryInit == Init => Registry
  BY DEF Init, Registry, WatchedAreClosed, TrackedAreOpen, UnbornAreNowhere, NoOrphans,
         StopsAreNotCrashes, NoWatch

-----------------------------------------------------------------------------
(* In every reachable state a run is where IInv says it can be.            *)
THEOREM Invariance == Spec => []IInv
  <1>1. Init => IInv
    BY TypeInit, RegistryInit DEF IInv
  <1>2. IInv /\ [Next]_vars => IInv'
    BY TypeStep, RegistryStep DEF IInv
  <1>3. QED
    BY <1>1, <1>2, PTL DEF Spec

(* executor.js and its leaves keep every variable within its type.         *)
THEOREM TypeCorrect == Spec => []TypeOK
  <1>1. IInv => TypeOK
    BY DEF IInv
  <1>2. QED
    BY <1>1, Invariance, PTL

(* The registry never loses a live child that nobody stopped               *)
(* (executorClose.js:60-61).                                               *)
THEOREM NothingIsOrphaned == Spec => []NoOrphans
  <1>1. IInv => NoOrphans
    BY DEF IInv, Registry
  <1>2. QED
    BY <1>1, Invariance, PTL

(* The check that follows a close never takes a stop for a crash           *)
(* (executorClose.js:166-167).                                             *)
THEOREM StopsAreNotReported == Spec => []StopsAreNotCrashes
  <1>1. IInv => StopsAreNotCrashes
    BY DEF IInv, Registry
  <1>2. QED
    BY <1>1, Invariance, PTL

(* No step makes a project forget its dev URL while something of it is     *)
(* still in the registry (executorClose.js:160-161).                       *)
THEOREM UrlIsForgottenLast == Spec => UrlOutlivesSiblings
  <1> DEFINE Outlives == \A p \in Projects : url[p] # None /\ url'[p] = None => Tracked(p)' = {}
  <1>1. IInv /\ [Next]_vars => Outlives
    <2> SUFFICES ASSUME IInv, [Next]_vars, NEW p \in Projects,
                        url[p] # None, url'[p] = None
                 PROVE  Tracked(p)' = {}
      OBVIOUS
    <2>t. url \in [Projects -> Commands \cup {None}]
      BY DEF IInv, TypeOK
    <2>c. \A c \in Commands : c # None
      BY NoneAssumption
    <2>g. ASSUME NEW q, NEW gone, ForgetIfIdle(q, gone), tracked' = tracked \ gone, proj' = proj
          PROVE  Tracked(p)' = {}
      BY <2>t, <2>g DEF ForgetIfIdle, Tracked, Set
    <2>1. ASSUME NEW e \in Runs, SpawnFails(e)
          PROVE  Tracked(p)' = {}
      BY <2>1, <2>g DEF SpawnFails, Untrack, envVars
    <2>2. ASSUME NEW e \in Runs, PrintUrl(e)
          PROVE  Tracked(p)' = {}
      <3>1. cmd[e] # None
        BY <2>2, <2>c DEF PrintUrl, Output, IInv, BornAreNamed
      <3>2. url' = [url EXCEPT ![proj[e]] = cmd[e]]
        BY <2>2, ZenonT(60) DEF PrintUrl, Set
      <3>3. QED
        BY <2>t, <3>1, <3>2
    <2>3. ASSUME NEW e \in Runs, Recover(e)
          PROVE  Tracked(p)' = {}
      <3>1. url' = url \/ \E c \in Commands : url' = [url EXCEPT ![proj[e]] = c]
        BY <2>3, ZenonT(60) DEF Recover, Discovered, Set
      <3>2. QED
        BY <2>t, <2>c, <3>1
    <2>4. ASSUME NEW e \in Runs, ProbeClosed(e)
          PROVE  Tracked(p)' = {}
      <3>1. url' # url /\ proj' = proj
        BY <2>4, ZenonT(60) DEF ProbeClosed, envVars
      <3>2. ForgetIfIdle(proj[e], {e}) /\ tracked' = tracked \ {e}
        BY <2>4, <3>1 DEF ProbeClosed, DeclareDead, Untrack
      <3>3. QED
        BY <2>g, <3>1, <3>2
    <2>5. ASSUME NEW q \in Projects, NEW who \in SUBSET Tracked(q), Stop(q, who)
          PROVE  Tracked(p)' = {}
      BY <2>5, <2>g DEF Stop
    <2>6. ASSUME UNCHANGED url
          PROVE  Tracked(p)' = {}
      BY <2>6
    <2>7. ASSUME NEW e \in Runs,
                 (\E q \in Projects, c \in Commands : Start(e, q, c))
                 \/ ServerChanges(e) \/ PrintPrompt(e) \/ AnswerPrompt(e)
                 \/ GraceElapsed(e) \/ ForceElapsed(e) \/ Exit(e) \/ DropQuiet(e)
                 \/ \E code \in {"ok", "failed", "killed"} : Close(e, code)
          PROVE  Tracked(p)' = {}
      <3>1. UNCHANGED url
        BY <2>7, ZenonT(60) DEF Start, ServerChanges, PrintPrompt, AnswerPrompt, GraceElapsed,
                           ForceElapsed, Exit, DropQuiet, Close
      <3>2. QED
        BY <2>6, <3>1
    <2>8. ASSUME (\E card \in cards : DropCard(card)) \/ UNCHANGED vars
          PROVE  Tracked(p)' = {}
      BY <2>6, <2>8 DEF DropCard, vars
    <2>9. ASSUME NEW q \in Projects, Discover(q)
          PROVE  Tracked(p)' = {}
      <3>1. \E c \in Commands : url' = [url EXCEPT ![q] = c]
        BY <2>9, ZenonT(60) DEF Discover, Discovered, Set
      <3>2. QED
        BY <2>t, <2>c, <3>1
    <2>10. ASSUME NEW q \in Projects, ForgetUntracked(q)
           PROVE  Tracked(p)' = {}
      BY <2>10, <2>g DEF ForgetUntracked, envVars
    <2>11. QED
      BY <2>1, <2>2, <2>3, <2>4, <2>5, <2>7, <2>8, <2>9, <2>10
         DEF Next, ServerStep, EnvironmentStep
  <1>2. QED
    BY <1>1, Invariance, PTL DEF Spec, UrlOutlivesSiblings
=============================================================================
