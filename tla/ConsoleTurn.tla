----------------------------- MODULE ConsoleTurn -----------------------------
(***************************************************************************)
(* Turns, tool calls and confirmation cards of the console's WebSocket     *)
(* server: server/wsHandlers/connection*.js, aiQuery.js, aiQueryToolRun.js,*)
(* server/toolGate.ts and the pending maps of server/state.js.             *)
(*                                                                         *)
(* A connection sends messages; each one starts an activity or answers a   *)
(* card.  Code between two awaits runs to completion, so an action is one  *)
(* such stretch, and every await is a point where messages of any          *)
(* connection, the sweep and other activities come in.  Resolving a card's *)
(* promise resumes the activity in a microtask, before any other message:  *)
(* it belongs to the action that resolves it.                              *)
(*                                                                         *)
(* An activity is an AI turn ("ai"), a message that offers a trigger card  *)
(* ("trigger"), a command typed by the user ("typed") or a tool call made  *)
(* by the frontend ("tool").  Tools are grouped by what the gate tells     *)
(* apart.  The permissions manifest may be edited at any time: every gate  *)
(* reads some permission the manifest parser admits.                       *)
(***************************************************************************)
EXTENDS Integers, FiniteSets

CONSTANTS
  Conns,         \* WebSocket connections; a reconnect is a new one
  Activities,    \* bound of the model: the activities ever started
  Projects,
  GatedTools,    \* GATED_TOOLS: the file-writing tools
  CustomTools,   \* risky plugin tools, saveMemory flagged "judgment"
  AlwaysTools,   \* ALWAYS_CONFIRM_TOOLS and risky executeCommand
  FreeTools,     \* all others, executeCommand without risk included
  Commands,      \* the AlwaysTools and FreeTools that are executeCommand
  ReadOnlyTools, \* the FreeTools that Ask mode lets through
  MaxCalls,      \* bound of the model: tool calls in one model reply
  MaxRounds,     \* getMaxToolRounds()
  StrayApprovals \* may approve_task name a card that is late or foreign?

None == "none"
Tools == GatedTools \cup CustomTools \cup AlwaysTools \cup FreeTools

ASSUME NoneAssumption ==
  None \notin Conns \cup Activities \cup Projects \cup Tools
ASSUME ActivitiesAssumption == IsFiniteSet(Activities)
ASSUME ToolsAssumption ==
  /\ Commands \subseteq AlwaysTools \cup FreeTools
  /\ ReadOnlyTools \subseteq FreeTools \ Commands
  /\ AlwaysTools \cap (GatedTools \cup CustomTools \cup FreeTools) = {}
  /\ FreeTools \cap (GatedTools \cup CustomTools) = {}
ASSUME BoundsAssumption == MaxCalls \in Nat \ {0} /\ MaxRounds \in Nat
ASSUME StrayAssumption == StrayApprovals \in BOOLEAN

VARIABLES
  open,           \* per connection: the socket has not closed
  inFlight,       \* executeInFlight
  controller,     \* the turn that aiAbortController and turnKey belong to
  activeProject,  \* activeProjectId
  grants,         \* toolGrants, as <<project, tool>>
  pc,             \* per activity: where it is, see PcValues
  kind,
  conn,           \* the connection it was started on
  tool,           \* the call at hand and
  project,        \* the project it runs in
  calls,          \* calls left of the model's reply
  rounds,         \* rounds left of the turn
  grantKey,       \* the key an approval of the call records, in a set, or {}
  askMode,        \* permissionMode 'ask', read once per turn
  aborted,        \* its AbortController was aborted
  card,           \* its entry in a pending map, with its age
  running,        \* runningProcesses, as <<activity, project>>
  consent         \* how the call at hand was approved (observation)

connVars == <<open, inFlight, controller, activeProject, grants>>
callVars == <<tool, project, calls, rounds, grantKey, askMode>>
idVars   == <<kind, conn>>
vars == <<connVars, callVars, idVars, pc, aborted, card, running, consent>>

(* setup: before the controller exists or the card is offered; stream: the *)
(* model replies; retry: a truncated first reply is asked for once more;   *)
(* next: between two calls of a reply; gate, preview: the awaits before a  *)
(* card is shown; await: the promise behind a tool card; offered: a        *)
(* trigger card is up; run: cleared to run, effect still ahead.            *)
PcValues == {"idle", "setup", "stream", "retry", "next", "gate", "preview", "await",
             "offered", "run", "done"}
InCall == {"gate", "preview", "await", "run"}
InTurn == {"stream", "retry", "next"} \cup InCall

Init ==
  /\ open = [c \in Conns |-> TRUE]
  /\ inFlight = [c \in Conns |-> FALSE]
  /\ controller = [c \in Conns |-> None]
  /\ activeProject = [c \in Conns |-> None]
  /\ grants = [c \in Conns |-> {}]
  /\ pc = [a \in Activities |-> "idle"]
  /\ kind = [a \in Activities |-> None]
  /\ conn = [a \in Activities |-> None]
  /\ tool = [a \in Activities |-> None]
  /\ project = [a \in Activities |-> None]
  /\ calls = [a \in Activities |-> 0]
  /\ rounds = [a \in Activities |-> 0]
  /\ grantKey = [a \in Activities |-> {}]
  /\ askMode = [a \in Activities |-> FALSE]
  /\ aborted = [a \in Activities |-> FALSE]
  /\ card = [a \in Activities |-> "none"]
  /\ running = {}
  /\ consent = [a \in Activities |-> "none"]

Goto(a, l) == pc' = [pc EXCEPT ![a] = l]

-----------------------------------------------------------------------------
(* Execute messages *)

(* Mutant: the guard of August 6, without executeInFlight. *)
StartExecuteGuardedByTurnOnly(a, c, k, p) ==
  /\ open[c] /\ pc[a] = "idle"
  /\ controller[c] = None
  /\ inFlight' = [inFlight EXCEPT ![c] = TRUE]
  /\ activeProject' = [activeProject EXCEPT ![c] = p]
  /\ kind' = [kind EXCEPT ![a] = k]
  /\ conn' = [conn EXCEPT ![a] = c]
  /\ project' = [project EXCEPT ![a] = p]
  /\ Goto(a, "setup")
  /\ UNCHANGED <<open, controller, grants, tool, calls, rounds, grantKey, askMode,
                 aborted, card, running, consent>>

(* handleExecute: refused while a turn holds the controller or another     *)
(* execute is being handled.                                               *)
StartExecute(a, c, k, p) ==
  /\ open[c] /\ pc[a] = "idle"
  /\ ~inFlight[c] /\ controller[c] = None
  /\ inFlight' = [inFlight EXCEPT ![c] = TRUE]
  /\ activeProject' = [activeProject EXCEPT ![c] = p]
  /\ kind' = [kind EXCEPT ![a] = k]
  /\ conn' = [conn EXCEPT ![a] = c]
  /\ project' = [project EXCEPT ![a] = p]
  /\ Goto(a, "setup")
  /\ UNCHANGED <<open, controller, grants, tool, calls, rounds, grantKey, askMode,
                 aborted, card, running, consent>>

(* The message ends here: answered, refused, or Ollama is not there.  The  *)
(* `finally` of handleExecute clears the flag.                             *)
EndExecute(a) ==
  /\ pc[a] = "setup"
  /\ Goto(a, "done")
  /\ inFlight' = [inFlight EXCEPT ![conn[a]] = FALSE]
  /\ UNCHANGED <<open, controller, activeProject, grants, callVars, idVars,
                 aborted, card, running, consent>>

(* handleAIQuery past its two awaits: the turn can be cancelled from now   *)
(* on.  Whether the connection is still open is not looked at.             *)
BeginTurn(a) ==
  /\ pc[a] = "setup" /\ kind[a] = "ai"
  /\ controller' = [controller EXCEPT ![conn[a]] = a]
  /\ rounds' = [rounds EXCEPT ![a] = MaxRounds]
  /\ \E m \in BOOLEAN : askMode' = [askMode EXCEPT ![a] = m]
  /\ Goto(a, "stream")
  /\ UNCHANGED <<open, inFlight, activeProject, grants, tool, project, calls,
                 grantKey, idVars, aborted, card, running, consent>>

(* A typed command is started and not awaited. *)
RunTyped(a) ==
  /\ pc[a] = "setup" /\ kind[a] = "typed"
  /\ running' = running \cup {<<a, project[a]>>}
  /\ inFlight' = [inFlight EXCEPT ![conn[a]] = FALSE]
  /\ Goto(a, "done")
  /\ UNCHANGED <<open, controller, activeProject, grants, callVars, idVars,
                 aborted, card, consent>>

(* A risky trigger or a guessed command waits in pendingConfirmations. *)
OfferCard(a) ==
  /\ pc[a] = "setup" /\ kind[a] = "trigger"
  /\ card' = [card EXCEPT ![a] = "fresh"]
  /\ inFlight' = [inFlight EXCEPT ![conn[a]] = FALSE]
  /\ Goto(a, "offered")
  /\ UNCHANGED <<open, controller, activeProject, grants, callVars, idVars,
                 aborted, running, consent>>

-----------------------------------------------------------------------------
(* The AI turn: replies, rounds and calls *)

(* Mutant: the request is sent without the abort signal. *)
StreamCallsWithoutSignal(a, n) ==
  /\ pc[a] = "stream" /\ rounds[a] > 0
  /\ calls' = [calls EXCEPT ![a] = n]
  /\ rounds' = [rounds EXCEPT ![a] = @ - 1]
  /\ Goto(a, "next")
  /\ UNCHANGED <<connVars, tool, project, grantKey, askMode, idVars, aborted,
                 card, running, consent>>

(* The reply is in and holds n tool calls, the unknown ones left aside. *)
StreamCalls(a, n) ==
  /\ pc[a] = "stream" /\ ~aborted[a] /\ rounds[a] > 0
  /\ calls' = [calls EXCEPT ![a] = n]
  /\ rounds' = [rounds EXCEPT ![a] = @ - 1]
  /\ Goto(a, "next")
  /\ UNCHANGED <<connVars, tool, project, grantKey, askMode, idVars, aborted,
                 card, running, consent>>

(* The first reply broke off in the middle of a line, after n whole calls: *)
(* the model is asked once more, and the calls are kept.  (Without calls   *)
(* the retry is part of "stream".)                                         *)
TruncatedReply(a, n) ==
  /\ pc[a] = "stream" /\ ~aborted[a]
  /\ rounds[a] = MaxRounds /\ rounds[a] > 0
  /\ calls' = [calls EXCEPT ![a] = n]
  /\ Goto(a, "retry")
  /\ UNCHANGED <<connVars, tool, project, rounds, grantKey, askMode, idVars, aborted,
                 card, running, consent>>

(* The retry came back or threw.  Its catch swallows every error, that of  *)
(* an abort included, and only its text is used: the loop goes on with the *)
(* calls of the first reply.                                               *)
RetryReturns(a) ==
  /\ pc[a] = "retry"
  /\ rounds' = [rounds EXCEPT ![a] = @ - 1]
  /\ Goto(a, "next")
  /\ UNCHANGED <<connVars, tool, project, calls, grantKey, askMode, idVars, aborted,
                 card, running, consent>>

(* The turn ends: an answer without calls, too many rounds, an error or    *)
(* the abort.  The `finally` clears the controller if it is still its own. *)
EndTurn(a) ==
  /\ pc[a] = "stream"
  /\ controller' = [controller EXCEPT ![conn[a]] = IF @ = a THEN None ELSE @]
  /\ inFlight' = [inFlight EXCEPT ![conn[a]] = FALSE]
  /\ Goto(a, "done")
  /\ UNCHANGED <<open, activeProject, grants, callVars, idVars, aborted, card,
                 running, consent>>

(* isAskModeBlocked: what read-only Ask mode refuses. *)
AskBlocked(t) == t \notin ReadOnlyTools

(* The for loop over the reply's calls.  The abort signal is not looked at *)
(* between two of them.                                                    *)
NextCall(a, t, p) ==
  /\ pc[a] = "next" /\ calls[a] > 0
  /\ calls' = [calls EXCEPT ![a] = @ - 1]
  /\ IF askMode[a] /\ AskBlocked(t)
       THEN UNCHANGED <<tool, project, pc, grantKey, consent>>
       ELSE /\ tool' = [tool EXCEPT ![a] = t]
            /\ project' = [project EXCEPT ![a] = p]
            /\ grantKey' = [grantKey EXCEPT ![a] = {}]
            /\ consent' = [consent EXCEPT ![a] = "none"]
            /\ Goto(a, "gate")
  /\ UNCHANGED <<connVars, rounds, askMode, idVars, aborted, card, running>>

(* Mutant: the round is not counted before the model is asked again. *)
NextRoundUncounted(a) ==
  /\ pc[a] = "next" /\ calls[a] = 0
  /\ Goto(a, "stream")
  /\ rounds' = [rounds EXCEPT ![a] = @ + 1]
  /\ UNCHANGED <<connVars, tool, project, calls, grantKey, askMode, idVars, aborted,
                 card, running, consent>>

NextRound(a) ==
  /\ pc[a] = "next" /\ calls[a] = 0
  /\ Goto(a, "stream")
  /\ UNCHANGED <<connVars, callVars, idVars, aborted, card, running, consent>>

(* handleToolCall: a call by the frontend, next to whatever else runs.  One *)
(* that Ask mode refuses has no effect at all.                              *)
ToolCall(a, c, t, p) ==
  /\ open[c] /\ pc[a] = "idle"
  /\ kind' = [kind EXCEPT ![a] = "tool"]
  /\ conn' = [conn EXCEPT ![a] = c]
  /\ tool' = [tool EXCEPT ![a] = t]
  /\ project' = [project EXCEPT ![a] = p]
  /\ Goto(a, "gate")
  /\ UNCHANGED <<connVars, calls, rounds, grantKey, askMode, aborted, card,
                 running, consent>>

-----------------------------------------------------------------------------
(* The gate and what follows it *)

(* What the manifest may say of a tool: sanitizePermissions never lets     *)
(* executeCommand be anything but 'ask'.                                   *)
Permissions(t) == IF t \in Commands THEN {"ask"} ELSE {"ask", "first", "deny"}

(* Mutant: a grant given in one project counts in every other. *)
GrantedAnywhere(a) == \E p \in Projects : <<p, tool[a]>> \in grants[conn[a]]

(* Does the connection hold the grant key of the call's project and tool? *)
Granted(a) == <<project[a], tool[a]>> \in grants[conn[a]]

(* resolveToolGate *)
Decision(t, permission, granted) ==
  CASE permission = "deny" -> "deny"
    [] permission # "deny" /\ t \in FreeTools -> "allow"
    [] permission # "deny" /\ t \in AlwaysTools -> "ask"
    [] permission # "deny" /\ t \notin FreeTools \cup AlwaysTools ->
         IF granted THEN "allow"
         ELSE IF permission = "first" THEN "ask and grant" ELSE "ask"

(* The decision's grantKey: null unless the policy is allow-after-first-ask. *)
Recorded(a, decision) ==
  IF decision = "ask and grant" THEN {<<project[a], tool[a]>>} ELSE {}

(* A finished call: the turn goes on with its loop, a tool call ends. *)
CallReturned(a) == IF kind[a] = "ai" THEN "next" ELSE "done"

(* The gate's answer, after the await for the manifest.  A command's card  *)
(* is shown at once, any other tool's after the await for its preview.     *)
Gate(a) ==
  /\ pc[a] = "gate"
  /\ \E permission \in Permissions(tool[a]) :
       LET decision == Decision(tool[a], permission, Granted(a)) IN
          /\ grantKey' = [grantKey EXCEPT ![a] = Recorded(a, decision)]
          /\ \/ decision = "deny" /\ Goto(a, CallReturned(a)) /\ UNCHANGED card
             \/ decision = "allow" /\ Goto(a, "run") /\ UNCHANGED card
             \/ /\ decision \in {"ask", "ask and grant"}
                /\ IF tool[a] \in Commands
                     THEN Goto(a, "await") /\ card' = [card EXCEPT ![a] = "fresh"]
                     ELSE Goto(a, "preview") /\ UNCHANGED card
  /\ UNCHANGED <<connVars, tool, project, calls, rounds, askMode, idVars, aborted,
                 running, consent>>

(* The preview is there: requestToolConfirmation registers the card. *)
ShowCard(a) ==
  /\ pc[a] = "preview"
  /\ card' = [card EXCEPT ![a] = "fresh"]
  /\ Goto(a, "await")
  /\ UNCHANGED <<connVars, callVars, idVars, aborted, running, consent>>

(* The call takes effect.  A command that is blocked or not allowed starts *)
(* nothing; any other is tracked, tagged with the turn's key in a turn.    *)
Execute(a) ==
  /\ pc[a] = "run"
  /\ \/ UNCHANGED running
     \/ /\ tool[a] \in Commands \/ kind[a] = "trigger"
        /\ running' = running \cup {<<a, project[a]>>}
  /\ Goto(a, CallReturned(a))
  /\ UNCHANGED <<connVars, callVars, idVars, aborted, card, consent>>

-----------------------------------------------------------------------------
(* Cards *)

(* The owner answers within the TTL. *)
Valid(a, c) == card[a] = "fresh" /\ conn[a] = c

HowApproved(a, c) ==
  IF card[a] = "expired" THEN "late" ELSE IF conn[a] # c THEN "foreign" ELSE "owner"

(* The activity behind a's card resumes, approved through connection c. *)
Approved(a, c) ==
  /\ consent' = [consent EXCEPT ![a] = HowApproved(a, c)]
  /\ Goto(a, "run")

Drop(a) == card' = [card EXCEPT ![a] = "none"]

(* confirm_response to a tool card.  A late or foreign answer rejects. *)
AnswerToolCard(a, c, yes) ==
  /\ open[c] /\ pc[a] = "await" /\ card[a] # "none"
  /\ Drop(a)
  /\ IF Valid(a, c) /\ yes
       THEN /\ Approved(a, c)
            /\ grants' = [grants EXCEPT ![conn[a]] = @ \cup grantKey[a]]
       ELSE Goto(a, CallReturned(a)) /\ UNCHANGED <<grants, consent>>
  /\ UNCHANGED <<open, inFlight, controller, activeProject, callVars, idVars,
                 aborted, running>>

(* confirm_response to a trigger card: in time, from whoever holds the     *)
(* token.  The project may have left the scan cache.                       *)
AnswerTriggerCard(a, c, yes) ==
  /\ open[c] /\ pc[a] = "offered" /\ card[a] # "none"
  /\ Drop(a)
  /\ \/ card[a] = "fresh" /\ yes /\ Approved(a, c)
     \/ Goto(a, "done") /\ UNCHANGED consent
  /\ UNCHANGED <<connVars, callVars, idVars, aborted, running>>

(* Mutant: the grants are added before the token is validated. *)
ApproveTaskGrantsFirst(a, c, p) ==
  /\ open[c] /\ pc[a] = "await" /\ card[a] # "none"
  /\ StrayApprovals \/ Valid(a, c)
  /\ Drop(a)
  /\ grants' = [grants EXCEPT ![c] = @ \cup ({p} \X GatedTools)]
  /\ IF Valid(a, c) THEN Approved(a, c) ELSE UNCHANGED <<pc, consent>>
  /\ UNCHANGED <<open, inFlight, controller, activeProject, callVars, idVars,
                 aborted, running>>

(* approve_task: a valid card is approved and every gated tool is granted  *)
(* for the project the message names, if the scan cache has it; any other  *)
(* card is deleted from the map, its promise left as it is.                *)
ApproveTask(a, c, p) ==
  /\ open[c] /\ pc[a] = "await" /\ card[a] # "none"
  /\ StrayApprovals \/ Valid(a, c)
  /\ Drop(a)
  /\ IF Valid(a, c)
       THEN /\ Approved(a, c)
            /\ \E listed \in SUBSET {p} :
                 grants' = [grants EXCEPT ![c] = @ \cup (listed \X GatedTools) \cup grantKey[a]]
       ELSE UNCHANGED <<pc, grants, consent>>
  /\ UNCHANGED <<open, inFlight, controller, activeProject, callVars, idVars,
                 aborted, running>>

(* CONFIRMATION_TTL_MS pass. *)
Expire(a) ==
  /\ card[a] = "fresh"
  /\ card' = [card EXCEPT ![a] = "expired"]
  /\ UNCHANGED <<connVars, callVars, idVars, pc, aborted, running, consent>>

(* Mutant: the cards are deleted and their promises forgotten. *)
ForgetCards(S) ==
  /\ card' = [a \in Activities |-> IF a \in S THEN "none" ELSE card[a]]
  /\ pc' = [a \in Activities |->
              IF a \in S /\ pc[a] = "offered" THEN "done" ELSE pc[a]]

(* The cards of S go: a tool card's promise is resolved with false, a      *)
(* trigger card is only forgotten.                                         *)
ReleaseCards(S) ==
  /\ card' = [a \in Activities |-> IF a \in S THEN "none" ELSE card[a]]
  /\ pc' = [a \in Activities |->
              IF a \notin S THEN pc[a]
              ELSE IF pc[a] = "await" THEN CallReturned(a) ELSE "done"]

(* sweepExpiredConfirmations, every 20 s *)
Sweep ==
  /\ \E a \in Activities : card[a] = "expired"
  /\ ReleaseCards({a \in Activities : card[a] = "expired"})
  /\ UNCHANGED <<connVars, callVars, idVars, aborted, running, consent>>

-----------------------------------------------------------------------------
(* Cancelling, stopping and closing *)

CardsOf(c) == {a \in Activities : card[a] # "none" /\ conn[a] = c}

AbortTurnOf(c) ==
  aborted' = [a \in Activities |-> aborted[a] \/ controller[c] = a]

(* Mutant: every process of the project is stopped. *)
StoppedWithoutTurnKey(c) == {r \in running : r[2] = activeProject[c]}

(* What `cancel` stops in the active project: the turn's own processes if  *)
(* a turn holds the controller, every process of the project otherwise.    *)
StoppedBy(c) ==
  {r \in running : r[2] = activeProject[c] /\ controller[c] \in {None, r[1]}}

Cancel(c) ==
  /\ open[c]
  /\ ReleaseCards(CardsOf(c))
  /\ AbortTurnOf(c)
  /\ running' = running \ StoppedBy(c)
  /\ UNCHANGED <<connVars, callVars, idVars, consent>>

(* abort_ai: the user switched chats. *)
AbortAi(c) ==
  /\ open[c]
  /\ ReleaseCards(CardsOf(c))
  /\ AbortTurnOf(c)
  /\ UNCHANGED <<connVars, callVars, idVars, running, consent>>

StopProcess(c, p) ==
  /\ open[c]
  /\ running' = {r \in running : r[2] # p}
  /\ UNCHANGED <<connVars, callVars, idVars, pc, aborted, card, consent>>

(* The socket closed. *)
Close(c) ==
  /\ open[c]
  /\ open' = [open EXCEPT ![c] = FALSE]
  /\ ReleaseCards(CardsOf(c))
  /\ AbortTurnOf(c)
  /\ UNCHANGED <<inFlight, controller, activeProject, grants, callVars, idVars,
                 running, consent>>

(* workspace_set: the tab moves to another project, in the middle of a turn *)
(* as well.                                                                 *)
SetWorkspace(c, p) ==
  /\ open[c]
  /\ activeProject' = [activeProject EXCEPT ![c] = p]
  /\ UNCHANGED <<open, inFlight, controller, grants, callVars, idVars, pc, aborted,
                 card, running, consent>>

ProcessExits(r) ==
  /\ running' = running \ {r}
  /\ UNCHANGED <<connVars, callVars, idVars, pc, aborted, card, consent>>

-----------------------------------------------------------------------------
ServerStep(a) ==
  \/ EndExecute(a) \/ BeginTurn(a) \/ RunTyped(a) \/ OfferCard(a)
  \/ \E n \in 1 .. MaxCalls : StreamCalls(a, n) \/ TruncatedReply(a, n)
  \/ RetryReturns(a) \/ EndTurn(a)
  \/ \E t \in Tools, p \in Projects : NextCall(a, t, p)
  \/ NextRound(a) \/ Gate(a) \/ ShowCard(a) \/ Execute(a)

UserStep(c) ==
  \/ \E a \in Activities, p \in Projects :
       \/ \E k \in {"ai", "trigger", "typed"} : StartExecute(a, c, k, p)
       \/ \E t \in Tools : ToolCall(a, c, t, p)
       \/ \E yes \in BOOLEAN : AnswerToolCard(a, c, yes) \/ AnswerTriggerCard(a, c, yes)
       \/ ApproveTask(a, c, p)
  \/ Cancel(c) \/ AbortAi(c) \/ Close(c)
  \/ \E p \in Projects : StopProcess(c, p) \/ SetWorkspace(c, p)

Next ==
  \/ \E a \in Activities : ServerStep(a) \/ Expire(a)
  \/ \E c \in Conns : UserStep(c)
  \/ Sweep
  \/ \E r \in running : ProcessExits(r)

(* The server gets on with what it awaits (every fetch, preview and tool   *)
(* has a timeout), time passes and the sweep is on an interval.  No user   *)
(* has to do anything.                                                     *)
Fairness ==
  /\ \A a \in Activities : WF_vars(ServerStep(a)) /\ WF_vars(Expire(a))
  /\ WF_vars(Sweep)

Spec == Init /\ [][Next]_vars /\ Fairness

-----------------------------------------------------------------------------
TypeOK ==
  /\ open \in [Conns -> BOOLEAN]
  /\ inFlight \in [Conns -> BOOLEAN]
  /\ controller \in [Conns -> Activities \cup {None}]
  /\ activeProject \in [Conns -> Projects \cup {None}]
  /\ grants \in [Conns -> SUBSET (Projects \X Tools)]
  /\ pc \in [Activities -> PcValues]
  /\ kind \in [Activities -> {"ai", "trigger", "typed", "tool", None}]
  /\ conn \in [Activities -> Conns \cup {None}]
  /\ tool \in [Activities -> Tools \cup {None}]
  /\ project \in [Activities -> Projects \cup {None}]
  /\ calls \in [Activities -> 0 .. MaxCalls]
  /\ rounds \in [Activities -> 0 .. MaxRounds]
  /\ grantKey \in [Activities -> SUBSET (Projects \X Tools)]
  /\ askMode \in [Activities -> BOOLEAN]
  /\ aborted \in [Activities -> BOOLEAN]
  /\ card \in [Activities -> {"none", "fresh", "expired"}]
  /\ running \in SUBSET (Activities \X Projects)
  /\ consent \in [Activities -> {"none", "late", "foreign", "owner"}]

(* No tool runs without the consent it needs: an always-confirm tool runs  *)
(* only on an answer its own connection gave to its own card within the    *)
(* TTL, another gated tool also on a grant this connection holds for that  *)
(* project and tool, and Ask mode lets none of them through                *)
(* (toolGate.ts:134-149, connectionConfirm.js:37-41).                      *)
ConsentBeforeRun ==
  \A a \in Activities :
    pc[a] = "run" /\ kind[a] \in {"ai", "tool"} =>
      /\ tool[a] \in AlwaysTools => consent[a] = "owner"
      /\ tool[a] \in GatedTools \cup CustomTools =>
           consent[a] = "owner" \/ <<project[a], tool[a]>> \in grants[conn[a]]
      /\ askMode[a] => ~AskBlocked(tool[a])

(* An execute message is being handled, up to its answer or its card. *)
Handling(a) == pc[a] = "setup" \/ (kind[a] = "ai" /\ pc[a] \in InTurn)

(* "Two execute messages can't interleave while an AI turn is in flight"   *)
(* (connectionExecute.js:45-63): a connection handles one execute message  *)
(* at a time, and the turn past its setup is the one `cancel` would abort. *)
OneTurnPerConnection ==
  /\ \A a, b \in Activities :
       Handling(a) /\ Handling(b) /\ conn[a] = conn[b] => a = b
  /\ \A a \in Activities :
       kind[a] = "ai" /\ pc[a] \in InTurn => controller[conn[a]] = a
  /\ \A c \in Conns :
       controller[c] # None => kind[controller[c]] = "ai" /\ pc[controller[c]] \in InTurn

(* A grant is only ever added by the approval of a card that was up, in    *)
(* time, on this very connection, and never for a tool that must be asked  *)
(* about every time: "a stale/foreign/expired token still pre-granted      *)
(* every gated file tool" (connectionRoutes.js:156-158) must not come back.*)
GrantsAreEarned ==
  [][\A c \in Conns : \A g \in grants'[c] \ grants[c] :
       /\ g[2] \in GatedTools \cup CustomTools
       /\ \E a \in Activities :
            conn[a] = c /\ card[a] = "fresh" /\ pc[a] = "await" /\ pc'[a] = "run"]_vars

(* An aborted turn winds down: it gets no other reply.  All it still runs  *)
(* are the calls it holds, those of a truncated reply included that was    *)
(* being retried when the abort came (aiQuery.js:92-101, 123-130, 161).    *)
AbortedTurnWindsDown ==
  [][\A a \in Activities :
       aborted[a] => /\ calls'[a] <= calls[a]
                     /\ rounds'[a] # rounds[a] => pc[a] = "retry"]_vars

(* "It must never tear down a dev server the user started separately"      *)
(* (connectionRoutes.js:71-74): cancelling a turn that holds the           *)
(* controller leaves the processes of every other activity alone.          *)
CancelSparesOthers ==
  [][\A a \in Activities :
       ~aborted[a] /\ aborted'[a] => \A r \in running : r[1] # a => r \in running']_vars

(* A pending promise is always behind a card that can still settle it.     *)
NoOrphanedPromise ==
  \A a \in Activities : pc[a] = "await" => card[a] # "none"

(* Every message and every call comes to its end, even if no user ever     *)
(* answers a card: the turn releases its connection for the next message.  *)
EverythingEnds ==
  \A a \in Activities : (pc[a] # "idle") ~> (pc[a] = "done")

-----------------------------------------------------------------------------
(* What comments of the code say and its behaviours do not keep *)

(* "there was previously no way to interrupt it once started"; now there   *)
(* is `cancel` (aiQuery.js:53-57): a turn that is aborted while it waits   *)
(* for the model starts no call any more.                                  *)
NoCallAfterAbort ==
  [][\A a \in Activities :
       aborted[a] /\ pc[a] \in {"stream", "retry"} => pc'[a] # "next"]_vars

(* After `cancel` or `abort_ai` no card of the turn can be approved any    *)
(* more: "approving the still-visible card after cancel would execute the  *)
(* gated tool on a turn the user thinks is dead" (connectionRoutes.js:     *)
(* 50-54).                                                                 *)
NoCardAfterCancel ==
  \A a \in Activities : aborted[a] /\ open[conn[a]] => card[a] = "none"

(* "A dropped connection can never answer its own confirm cards - release  *)
(* them immediately instead of letting the 5-minute TTL sweep linger"      *)
(* (connectionLifecycle.js:211-213).                                       *)
NoCardAfterClose ==
  \A a \in Activities : card[a] # "none" => open[conn[a]]

(* "When an AI turn is in flight, cancel kills ONLY that turn's own        *)
(* processes - it must never tear down a dev server the user started       *)
(* separately" (connectionRoutes.js:71-74), the turn's setup included.     *)
CancelSparesUserServers ==
  [][\A c \in Conns :
       Cancel(c) /\ (\E a \in Activities : conn[a] = c /\ kind[a] = "ai" /\
                                           pc[a] \in {"setup"} \cup InTurn)
       => \A r \in running : kind[r[1]] = "typed" => r \in running']_vars
=============================================================================
