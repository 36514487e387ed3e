-------------------------- MODULE ConsoleTurnProofs --------------------------
(***************************************************************************)
(* What holds of ConsoleTurn for every set of connections, activities,     *)
(* projects and tools.  The inductive invariant IInv has three layers:     *)
(* Shape says what is known of an activity from where it is, AllPermitted  *)
(* why a call that runs may run, Exclusive who holds a connection.         *)
(***************************************************************************)
EXTENDS ConsoleTurn, TLAPS

(* What is known of an activity from where it is. *)
Placed(a) ==
  /\ pc[a] = "idle" \/ kind[a] # "ai" => ~askMode[a]
  /\ pc[a] # "idle" => conn[a] \in Conns /\ project[a] \in Projects
  /\ pc[a] \in {"stream", "retry", "next"} => kind[a] = "ai"
  /\ pc[a] = "retry" => rounds[a] > 0
  /\ pc[a] = "offered" => kind[a] = "trigger"
  /\ pc[a] \in {"gate", "preview", "await"} => kind[a] \in {"ai", "tool"} /\ tool[a] \in Tools
  /\ card[a] # "none" => pc[a] \in {"await", "offered"}

Shape == TypeOK /\ \A a \in Activities : Placed(a)

LEMMA ShapeInit == Init => Shape
  BY NoneAssumption, BoundsAssumption DEF Init, Shape, Placed, TypeOK, PcValues

LEMMA ShapeStep == Shape /\ [Next]_vars => Shape'
<1> SUFFICES ASSUME Shape, [Next]_vars PROVE Shape'
  OBVIOUS
<1> USE BoundsAssumption DEF Shape, Placed, TypeOK, PcValues, connVars, callVars, idVars, Goto
<1>1. ASSUME NEW a \in Activities, EndExecute(a) PROVE Shape'
  BY <1>1 DEF EndExecute
<1>2. ASSUME NEW a \in Activities, BeginTurn(a) PROVE Shape'
  BY <1>2 DEF BeginTurn
<1>3. ASSUME NEW a \in Activities, RunTyped(a) PROVE Shape'
  BY <1>3 DEF RunTyped
<1>4. ASSUME NEW a \in Activities, OfferCard(a) PROVE Shape'
  BY <1>4 DEF OfferCard
<1>5. ASSUME NEW a \in Activities, NEW n \in 1 .. MaxCalls, StreamCalls(a, n) PROVE Shape'
  BY <1>5 DEF StreamCalls
<1>27. ASSUME NEW a \in Activities, NEW n \in 1 .. MaxCalls, TruncatedReply(a, n)
       PROVE Shape'
  BY <1>27 DEF TruncatedReply
<1>28. ASSUME NEW a \in Activities, RetryReturns(a) PROVE Shape'
  BY <1>28 DEF RetryReturns
<1>6. ASSUME NEW a \in Activities, EndTurn(a) PROVE Shape'
  BY <1>6 DEF EndTurn
<1>7. ASSUME NEW a \in Activities, NEW t \in Tools, NEW p \in Projects, NextCall(a, t, p)
      PROVE Shape'
  <2>1. CASE askMode[a] /\ AskBlocked(t)
    BY <1>7, <2>1 DEF NextCall
  <2>2. CASE ~(askMode[a] /\ AskBlocked(t))
    <3>1. TypeOK'
      <4>1. calls' \in [Activities -> 0 .. MaxCalls]
        BY <1>7 DEF NextCall
      <4>2. tool' \in [Activities -> Tools \cup {None}]
        BY <1>7, <2>2 DEF NextCall
      <4>3. project' \in [Activities -> Projects \cup {None}]
        BY <1>7, <2>2 DEF NextCall
      <4>4. grantKey' \in [Activities -> SUBSET (Projects \X Tools)]
        BY <1>7, <2>2 DEF NextCall
      <4>5. pc' \in [Activities -> PcValues]
        BY <1>7, <2>2 DEF NextCall
      <4>6. consent' \in [Activities -> {"none", "late", "foreign", "owner"}]
        BY <1>7, <2>2 DEF NextCall
      <4>7. QED
        BY <1>7, <4>1, <4>2, <4>3, <4>4, <4>5, <4>6 DEF NextCall
    <3>2. ASSUME NEW b \in Activities PROVE Placed(b)'
      BY <1>7, <2>2 DEF NextCall
    <3>3. QED
      BY <3>1, <3>2
  <2>3. QED
    BY <2>1, <2>2
<1>8. ASSUME NEW a \in Activities, NextRound(a) PROVE Shape'
  BY <1>8 DEF NextRound
<1>9. ASSUME NEW a \in Activities, Gate(a) PROVE Shape'
  <2> USE DEF CallReturned
  <2>1. grantKey' \in [Activities -> SUBSET (Projects \X Tools)]
    <3>1. PICK d : grantKey' = [grantKey EXCEPT ![a] = Recorded(a, d)]
      BY <1>9, ZenonT(30) DEF Gate
    <3>2. Recorded(a, d) \in SUBSET (Projects \X Tools)
      <4>1. <<project[a], tool[a]>> \in Projects \X Tools
        BY <1>9, ZenonT(30) DEF Gate
      <4>2. QED
        BY <4>1, ZenonT(30) DEF Recorded
    <3>3. QED
      BY <3>1, <3>2
  <2>2. CASE Goto(a, CallReturned(a)) /\ UNCHANGED card
    BY <1>9, <2>1, <2>2 DEF Gate
  <2>3. CASE Goto(a, "run") /\ UNCHANGED card
    BY <1>9, <2>1, <2>3 DEF Gate
  <2>4. CASE Goto(a, "await") /\ card' = [card EXCEPT ![a] = "fresh"]
    BY <1>9, <2>1, <2>4 DEF Gate
  <2>5. CASE Goto(a, "preview") /\ UNCHANGED card
    BY <1>9, <2>1, <2>5 DEF Gate
  <2>6. QED
    BY <1>9, <2>2, <2>3, <2>4, <2>5 DEF Gate
<1>10. ASSUME NEW a \in Activities, ShowCard(a) PROVE Shape'
  BY <1>10 DEF ShowCard
<1>11. ASSUME NEW a \in Activities, Execute(a) PROVE Shape'
  BY <1>11 DEF Execute, CallReturned
<1>12. ASSUME NEW a \in Activities, Expire(a) PROVE Shape'
  BY <1>12 DEF Expire
<1>13. ASSUME NEW a \in Activities, NEW c \in Conns, NEW p \in Projects,
              NEW k \in {"ai", "trigger", "typed"}, StartExecute(a, c, k, p)
       PROVE Shape'
  BY <1>13 DEF StartExecute
<1>14. ASSUME NEW a \in Activities, NEW c \in Conns, NEW p \in Projects,
              NEW t \in Tools, ToolCall(a, c, t, p)
       PROVE Shape'
  BY <1>14 DEF ToolCall
<1>15. ASSUME NEW a \in Activities, NEW c \in Conns, NEW yes \in BOOLEAN,
              AnswerToolCard(a, c, yes)
       PROVE Shape'
  <2>1. PICK q \in {"run", CallReturned(a)} : pc' = [pc EXCEPT ![a] = q]
    BY <1>15 DEF AnswerToolCard, Approved
  <2>2. consent' \in [Activities -> {"none", "late", "foreign", "owner"}]
    BY <1>15 DEF AnswerToolCard, Approved, HowApproved
  <2>3. grants' \in [Conns -> SUBSET (Projects \X Tools)]
    BY <1>15 DEF AnswerToolCard
  <2>4. /\ pc[a] = "await" /\ card' = [card EXCEPT ![a] = "none"]
        /\ UNCHANGED <<open, inFlight, controller, activeProject, callVars, idVars,
                       aborted, running>>
    BY <1>15 DEF AnswerToolCard, Drop
  <2>5. QED
    BY <2>1, <2>2, <2>3, <2>4 DEF CallReturned
<1>16. ASSUME NEW a \in Activities, NEW c \in Conns, NEW yes \in BOOLEAN,
              AnswerTriggerCard(a, c, yes)
       PROVE Shape'
  BY <1>16 DEF AnswerTriggerCard, Approved, HowApproved, Drop
<1>17. ASSUME NEW a \in Activities, NEW c \in Conns, NEW p \in Projects, ApproveTask(a, c, p)
       PROVE Shape'
  <2>1. grants' \in [Conns -> SUBSET (Projects \X Tools)]
    <3>1. CASE Valid(a, c)
      <4>1. PICK S \in SUBSET {p} :
              grants' = [grants EXCEPT ![c] = @ \cup (S \X GatedTools) \cup grantKey[a]]
        BY <1>17, <3>1 DEF ApproveTask
      <4>2. (S \X GatedTools) \subseteq Projects \X Tools
        BY DEF Tools
      <4>3. QED
        BY <4>1, <4>2
    <3>2. CASE ~Valid(a, c)
      BY <1>17, <3>2 DEF ApproveTask
    <3>3. QED
      BY <3>1, <3>2
  <2>2. pc' = pc \/ pc' = [pc EXCEPT ![a] = "run"]
    BY <1>17 DEF ApproveTask, Approved
  <2>3. consent' \in [Activities -> {"none", "late", "foreign", "owner"}]
    BY <1>17 DEF ApproveTask, Approved, HowApproved
  <2>4. /\ pc[a] = "await" /\ card' = [card EXCEPT ![a] = "none"]
        /\ UNCHANGED <<open, inFlight, controller, activeProject, callVars, idVars,
                       aborted, running>>
    BY <1>17 DEF ApproveTask, Drop
  <2>5. QED
    BY <2>1, <2>2, <2>3, <2>4
<1>18. CASE Sweep
  BY <1>18 DEF Sweep, ReleaseCards, CallReturned
<1>19. ASSUME NEW c \in Conns, Cancel(c) PROVE Shape'
  BY <1>19 DEF Cancel, ReleaseCards, CallReturned, AbortTurnOf, StoppedBy, CardsOf
<1>20. ASSUME NEW c \in Conns, AbortAi(c) PROVE Shape'
  BY <1>20 DEF AbortAi, ReleaseCards, CallReturned, AbortTurnOf, CardsOf
<1>21. ASSUME NEW c \in Conns, Close(c) PROVE Shape'
  BY <1>21 DEF Close, ReleaseCards, CallReturned, AbortTurnOf, CardsOf
<1>22. ASSUME NEW c \in Conns, NEW p \in Projects, StopProcess(c, p) PROVE Shape'
  BY <1>22 DEF StopProcess
<1>23. ASSUME NEW c \in Conns, NEW p \in Projects, SetWorkspace(c, p) PROVE Shape'
  BY <1>23 DEF SetWorkspace
<1>24. ASSUME NEW r \in running, ProcessExits(r) PROVE Shape'
  BY <1>24 DEF ProcessExits
<1>25. CASE UNCHANGED vars
  BY <1>25 DEF vars
<1> HIDE DEF Shape, Placed, TypeOK
<1>26. QED
  BY <1>1, <1>2, <1>3, <1>4, <1>5, <1>6, <1>7, <1>8, <1>9, <1>10, <1>11, <1>12, <1>13,
     <1>14, <1>15, <1>16, <1>17, <1>18, <1>19, <1>20, <1>21, <1>22, <1>23, <1>24, <1>25, <1>27, <1>28
     DEF Next, ServerStep, UserStep

(* Why a call that runs may run. *)
Permitted(a) ==
  /\ pc[a] \in InCall /\ askMode[a] => ~AskBlocked(tool[a])
  /\ pc[a] = "run" /\ kind[a] \in {"ai", "tool"} =>
       /\ tool[a] \in AlwaysTools => consent[a] = "owner"
       /\ tool[a] \in GatedTools \cup CustomTools => consent[a] = "owner" \/ Granted(a)
  /\ \A g \in grantKey[a] : g[2] \in GatedTools \cup CustomTools

AllPermitted == \A a \in Activities : Permitted(a)

(* The gate lets a call through unasked only if it is free or granted. *)
LEMMA AllowedByGate ==
  ASSUME NEW a \in Activities, NEW permission, tool[a] \in Tools,
         Decision(tool[a], permission, Granted(a)) = "allow"
  PROVE  /\ tool[a] \notin AlwaysTools
         /\ tool[a] \in GatedTools \cup CustomTools => Granted(a)
  BY ToolsAssumption DEF Decision, Tools

(* The gate has a grant recorded only for a tool that a grant may cover. *)
LEMMA RecordedByGate ==
  ASSUME NEW a \in Activities, NEW permission, tool[a] \in Tools,
         NEW g \in Recorded(a, Decision(tool[a], permission, Granted(a)))
  PROVE  g[2] \in GatedTools \cup CustomTools
<1>1. Decision(tool[a], permission, Granted(a)) = "ask and grant"
  BY ZenonT(30) DEF Recorded
<1>2. permission # "deny"
  BY <1>1 DEF Decision
<1>3. tool[a] \notin FreeTools
  BY <1>1, <1>2, ToolsAssumption DEF Decision
<1>4. tool[a] \notin AlwaysTools
  BY <1>1, <1>2, <1>3 DEF Decision
<1>5. g = <<project[a], tool[a]>>
  BY <1>1 DEF Recorded
<1>6. QED
  BY <1>3, <1>4, <1>5 DEF Tools

(* A step that lets nobody into a call or through to its run, and touches  *)
(* neither the calls at hand nor the grants.                               *)
LEMMA StillPermitted ==
  ASSUME AllPermitted, UNCHANGED <<grants, grantKey>>,
         \A b \in Activities : pc'[b] \in InCall =>
           /\ pc[b] \in InCall /\ (pc'[b] = "run" => pc[b] = "run")
           /\ kind'[b] = kind[b] /\ conn'[b] = conn[b] /\ tool'[b] = tool[b]
           /\ project'[b] = project[b] /\ askMode'[b] = askMode[b]
           /\ consent'[b] = consent[b]
  PROVE  AllPermitted'
<1> SUFFICES ASSUME NEW b \in Activities PROVE Permitted(b)'
  BY DEF AllPermitted
<1>1. CASE pc'[b] \in InCall
  BY <1>1 DEF AllPermitted, Permitted, Granted
<1>2. CASE pc'[b] \notin InCall
  BY <1>2 DEF AllPermitted, Permitted, InCall
<1>3. QED
  BY <1>1, <1>2

(* The approval of a card by its owner: the call runs, the grants grow. *)
LEMMA ApprovedIsPermitted ==
  ASSUME Shape, AllPermitted, NEW a \in Activities, pc[a] = "await",
         \A d \in Conns : grants[d] \subseteq grants'[d],
         UNCHANGED <<kind, conn, tool, project, grantKey, askMode>>,
         pc' = [pc EXCEPT ![a] = "run"], consent' = [consent EXCEPT ![a] = "owner"]
  PROVE  AllPermitted'
<1> SUFFICES ASSUME NEW b \in Activities PROVE Permitted(b)'
  BY DEF AllPermitted
<1>1. CASE b = a
  BY <1>1 DEF AllPermitted, Permitted, InCall, Shape, TypeOK
<1>2. CASE b # a
  <2>1. pc'[b] = pc[b] /\ consent'[b] = consent[b]
    BY <1>2 DEF Shape, TypeOK
  <2>2. pc[b] = "run" => conn[b] \in Conns
    BY DEF Shape, Placed
  <2>3. QED
    BY <2>1, <2>2 DEF AllPermitted, Permitted, Granted, InCall
<1>3. QED
  BY <1>1, <1>2

LEMMA PermittedStep ==
  ASSUME Shape, Shape', AllPermitted, [Next]_vars
  PROVE  AllPermitted'
<1> USE DEF Shape, Placed, TypeOK, PcValues, InCall, connVars, callVars, idVars, Goto
<1>1. ASSUME NEW a \in Activities, EndExecute(a) PROVE AllPermitted'
  BY <1>1, StillPermitted DEF EndExecute
<1>2. ASSUME NEW a \in Activities, BeginTurn(a) PROVE AllPermitted'
  BY <1>2, StillPermitted DEF BeginTurn
<1>3. ASSUME NEW a \in Activities, RunTyped(a) PROVE AllPermitted'
  BY <1>3, StillPermitted DEF RunTyped
<1>4. ASSUME NEW a \in Activities, OfferCard(a) PROVE AllPermitted'
  BY <1>4, StillPermitted DEF OfferCard
<1>5. ASSUME NEW a \in Activities, NEW n \in 1 .. MaxCalls,
              StreamCalls(a, n)
       PROVE AllPermitted'
  BY <1>5, StillPermitted DEF StreamCalls
<1>27. ASSUME NEW a \in Activities, NEW n \in 1 .. MaxCalls, TruncatedReply(a, n)
       PROVE AllPermitted'
  BY <1>27, StillPermitted DEF TruncatedReply
<1>28. ASSUME NEW a \in Activities, RetryReturns(a) PROVE AllPermitted'
  BY <1>28, StillPermitted DEF RetryReturns
<1>6. ASSUME NEW a \in Activities, EndTurn(a) PROVE AllPermitted'
  BY <1>6, StillPermitted DEF EndTurn
<1>8. ASSUME NEW a \in Activities, NextRound(a) PROVE AllPermitted'
  BY <1>8, StillPermitted DEF NextRound
<1>10. ASSUME NEW a \in Activities, ShowCard(a) PROVE AllPermitted'
  BY <1>10, StillPermitted DEF ShowCard
<1>12. ASSUME NEW a \in Activities, Expire(a) PROVE AllPermitted'
  BY <1>12, StillPermitted DEF Expire
<1>22. ASSUME NEW c \in Conns, NEW p \in Projects, StopProcess(c, p) PROVE AllPermitted'
  BY <1>22, StillPermitted DEF StopProcess
<1>23. ASSUME NEW c \in Conns, NEW p \in Projects, SetWorkspace(c, p) PROVE AllPermitted'
  BY <1>23, StillPermitted DEF SetWorkspace
<1>24. ASSUME NEW r \in running, ProcessExits(r) PROVE AllPermitted'
  BY <1>24, StillPermitted DEF ProcessExits
<1>25. CASE UNCHANGED vars
  BY <1>25, StillPermitted DEF vars
<1>11. ASSUME NEW a \in Activities, Execute(a) PROVE AllPermitted'
  <2>1. /\ pc' = [pc EXCEPT ![a] = CallReturned(a)]
        /\ UNCHANGED <<grants, grantKey, kind, conn, tool, project, askMode, consent>>
    BY <1>11 DEF Execute
  <2>2. QED
    BY <2>1, StillPermitted DEF CallReturned
<1>15. ASSUME NEW a \in Activities, NEW c \in Conns, NEW yes \in BOOLEAN,
              AnswerToolCard(a, c, yes)
       PROVE AllPermitted'
  <2>1. pc[a] = "await" /\ UNCHANGED <<kind, conn, tool, project, grantKey, askMode>>
    BY <1>15 DEF AnswerToolCard
  <2>2. CASE Valid(a, c) /\ yes
    <3>1. \A d \in Conns : grants[d] \subseteq grants'[d]
      BY <1>15, <2>2 DEF AnswerToolCard
    <3>2. pc' = [pc EXCEPT ![a] = "run"] /\ consent' = [consent EXCEPT ![a] = "owner"]
      BY <1>15, <2>2 DEF AnswerToolCard, Approved, HowApproved, Valid
    <3>3. QED
      BY <2>1, <3>1, <3>2, ApprovedIsPermitted
  <2>3. CASE ~(Valid(a, c) /\ yes)
    <3>1. pc' = [pc EXCEPT ![a] = CallReturned(a)] /\ UNCHANGED <<grants, consent>>
      BY <1>15, <2>3 DEF AnswerToolCard
    <3>2. QED
      BY <2>1, <3>1, StillPermitted DEF CallReturned
  <2>4. QED
    BY <2>2, <2>3
<1>17. ASSUME NEW a \in Activities, NEW c \in Conns, NEW p \in Projects,
              ApproveTask(a, c, p)
       PROVE AllPermitted'
  <2>1. CASE Valid(a, c)
    <3>1. \A d \in Conns : grants[d] \subseteq grants'[d]
      BY <1>17, <2>1 DEF ApproveTask
    <3>2. pc' = [pc EXCEPT ![a] = "run"] /\ consent' = [consent EXCEPT ![a] = "owner"]
      BY <1>17, <2>1 DEF ApproveTask, Approved, HowApproved, Valid
    <3>3. UNCHANGED <<kind, conn, tool, project, grantKey, askMode>> /\ pc[a] = "await"
      BY <1>17 DEF ApproveTask
    <3>4. QED
      BY <3>1, <3>2, <3>3, ApprovedIsPermitted
  <2>2. CASE ~Valid(a, c)
    BY <1>17, <2>2, StillPermitted DEF ApproveTask
  <2>3. QED
    BY <2>1, <2>2
<1> USE ToolsAssumption DEF AllPermitted, Permitted, AskBlocked, Granted
<1>7. ASSUME NEW a \in Activities, NEW t \in Tools, NEW p \in Projects,
              NextCall(a, t, p)
       PROVE AllPermitted'
  <2>1. CASE askMode[a] /\ AskBlocked(t)
    BY <1>7, <2>1 DEF NextCall
  <2>2. CASE ~(askMode[a] /\ AskBlocked(t))
    <3>1. pc' = [pc EXCEPT ![a] = "gate"] /\ tool' = [tool EXCEPT ![a] = t]
      BY <1>7, <2>2, ZenonT(30) DEF NextCall
    <3>2. UNCHANGED <<grants, conn, kind, askMode>>
          /\ project' = [project EXCEPT ![a] = p]
          /\ consent' = [consent EXCEPT ![a] = "none"]
          /\ grantKey' = [grantKey EXCEPT ![a] = {}]
      BY <1>7, <2>2, ZenonT(30) DEF NextCall
    <3>3. Permitted(a)'
      <4>1. pc'[a] = "gate" /\ tool'[a] = t /\ grantKey'[a] = {} /\ askMode'[a] = askMode[a]
        BY <3>1, <3>2
      <4>2. QED
        BY <2>2, <4>1, Zenon DEF Permitted
    <3>4. ASSUME NEW b \in Activities, b # a PROVE Permitted(b)'
      <4>1. /\ pc'[b] = pc[b] /\ tool'[b] = tool[b] /\ project'[b] = project[b]
            /\ consent'[b] = consent[b] /\ grantKey'[b] = grantKey[b]
        BY <3>1, <3>2, <3>4
      <4>2. kind'[b] = kind[b] /\ askMode'[b] = askMode[b] /\ (Granted(b)' <=> Granted(b))
        BY <3>2, <4>1, Zenon
      <4>3. Permitted(b)
        BY DEF AllPermitted
      <4> HIDE DEF AllPermitted, Shape, TypeOK, Placed, Granted
      <4>4. QED
        BY <4>1, <4>2, <4>3, Zenon
    <3> HIDE DEF Permitted
    <3>5. QED
      BY <3>3, <3>4, Zenon DEF AllPermitted
  <2>3. QED
    BY <2>1, <2>2
<1>9. ASSUME NEW a \in Activities, Gate(a) PROVE AllPermitted'
  <2>1. PICK permission \in Permissions(tool[a]) :
          \/ pc' = [pc EXCEPT ![a] = CallReturned(a)]
          \/ /\ Decision(tool[a], permission, Granted(a)) = "allow"
             /\ pc' = [pc EXCEPT ![a] = "run"]
          \/ pc' = [pc EXCEPT ![a] = "await"]
          \/ pc' = [pc EXCEPT ![a] = "preview"]
    <3> HIDE DEF Granted
    <3>1. QED
      BY <1>9, ZenonT(30) DEF Gate
  <2>2. pc[a] = "gate" /\ tool[a] \in Tools
        /\ UNCHANGED <<grants, tool, project, conn, kind, askMode, consent>>
    BY <1>9, ZenonT(30) DEF Gate
  <2>3. \A b \in Activities : \A g \in grantKey'[b] : g[2] \in GatedTools \cup CustomTools
    <3> HIDE DEF Granted
    <3>1. PICK policy \in Permissions(tool[a]) :
             grantKey' = [grantKey EXCEPT ![a] =
                            Recorded(a, Decision(tool[a], policy, Granted(a)))]
      BY <1>9, ZenonT(30) DEF Gate
    <3>2. \A g \in Recorded(a, Decision(tool[a], policy, Granted(a))) :
             g[2] \in GatedTools \cup CustomTools
      BY <2>2, RecordedByGate, ZenonT(30)
    <3>3. QED
      BY <3>1, <3>2
  <2>4. CASE pc' = [pc EXCEPT ![a] = "run"] /\ Decision(tool[a], permission, Granted(a)) = "allow"
    <3>1. tool[a] \notin AlwaysTools /\ (tool[a] \in GatedTools \cup CustomTools => Granted(a))
      <4> HIDE DEF Granted
      <4>1. QED
        BY <2>2, <2>4, AllowedByGate, ZenonT(30)
    <3>2. ASSUME NEW b \in Activities PROVE Permitted(b)'
      <4>1. CASE b = a
        BY <2>2, <2>3, <2>4, <3>1, <4>1
      <4>2. CASE b # a
        BY <2>2, <2>3, <2>4, <4>2
      <4>3. QED
        BY <4>1, <4>2
    <3>3. QED
      BY <3>2
  <2>5. CASE pc' = [pc EXCEPT ![a] = CallReturned(a)]
    BY <2>2, <2>3, <2>5 DEF CallReturned
  <2>6. CASE pc' = [pc EXCEPT ![a] = "await"] \/ pc' = [pc EXCEPT ![a] = "preview"]
    BY <2>2, <2>3, <2>6
  <2>7. QED
    BY <2>1, <2>4, <2>5, <2>6
<1>13. ASSUME NEW a \in Activities, NEW c \in Conns, NEW k \in {"ai", "trigger", "typed"}, NEW p \in Projects,
              StartExecute(a, c, k, p)
       PROVE AllPermitted'
  BY <1>13 DEF StartExecute
<1>14. ASSUME NEW a \in Activities, NEW c \in Conns, NEW t \in Tools, NEW p \in Projects,
              ToolCall(a, c, t, p)
       PROVE AllPermitted'
  BY <1>14 DEF ToolCall
<1>16. ASSUME NEW a \in Activities, NEW c \in Conns, NEW yes \in BOOLEAN,
              AnswerTriggerCard(a, c, yes)
       PROVE AllPermitted'
  BY <1>16 DEF AnswerTriggerCard, Approved, HowApproved, Drop
<1>18. CASE Sweep
  BY <1>18 DEF Sweep, ReleaseCards, CallReturned
<1>19. ASSUME NEW c \in Conns, Cancel(c) PROVE AllPermitted'
  BY <1>19 DEF Cancel, ReleaseCards, CallReturned, AbortTurnOf, CardsOf
<1>20. ASSUME NEW c \in Conns, AbortAi(c) PROVE AllPermitted'
  BY <1>20 DEF AbortAi, ReleaseCards, CallReturned, AbortTurnOf, CardsOf
<1>21. ASSUME NEW c \in Conns, Close(c) PROVE AllPermitted'
  BY <1>21 DEF Close, ReleaseCards, CallReturned, AbortTurnOf, CardsOf
<1> HIDE DEF AllPermitted, Permitted, Shape, Placed, TypeOK
<1>26. QED
  BY <1>1, <1>2, <1>3, <1>4, <1>5, <1>6, <1>7, <1>8, <1>9,
     <1>10, <1>11, <1>12, <1>13, <1>14, <1>15, <1>16, <1>17, <1>18,
     <1>19, <1>20, <1>21, <1>22, <1>23, <1>24, <1>25, <1>27, <1>28
     DEF Next, ServerStep, UserStep

(* Who holds the connection. *)
Exclusive ==
  /\ \A a \in Activities : Handling(a) => inFlight[conn[a]]
  /\ \A a, b \in Activities :
       Handling(a) /\ Handling(b) /\ conn[a] = conn[b] => a = b
  /\ \A a \in Activities : kind[a] = "ai" /\ pc[a] \in InTurn => controller[conn[a]] = a
  /\ \A c \in Conns :
       controller[c] # None =>
         /\ kind[controller[c]] = "ai" /\ pc[controller[c]] \in InTurn
         /\ conn[controller[c]] = c
  /\ \A a \in Activities : aborted[a] => pc[a] \notin {"idle", "setup"}

(* Releasing the cards of a connection and aborting its turn leaves the     *)
(* connection to whoever holds it.                                         *)
LEMMA ReleaseKeepsExclusive ==
  ASSUME Shape, Shape', Exclusive, NEW c \in Conns,
         ReleaseCards(CardsOf(c)), AbortTurnOf(c),
         UNCHANGED <<inFlight, controller, kind, conn>>
  PROVE  Exclusive'
<1> USE NoneAssumption
    DEF Shape, Placed, TypeOK, PcValues, InCall, InTurn, Exclusive, Handling
<1>1. \A b \in Activities : Handling(b)' <=> Handling(b)
  BY DEF ReleaseCards, CallReturned, CardsOf
<1>2. \A b \in Activities : kind[b] = "ai" => (pc'[b] \in InTurn <=> pc[b] \in InTurn)
  BY DEF ReleaseCards, CallReturned, CardsOf
<1>3. \A b \in Activities : aborted'[b] => pc'[b] \notin {"idle", "setup"}
  <2>1. ASSUME NEW b \in Activities, aborted'[b] PROVE pc[b] \notin {"idle", "setup"}
    <3>1. aborted[b] \/ controller[c] = b
      BY <2>1, ZenonT(30) DEF AbortTurnOf
    <3>2. controller[c] = b => pc[b] \in InTurn
      <4>1. b # None
        BY NoneAssumption
      <4>2. QED
        BY <4>1
    <3>3. QED
      BY <3>1, <3>2
  <2>2. ASSUME NEW b \in Activities, pc[b] \notin {"idle", "setup"}
        PROVE  pc'[b] \notin {"idle", "setup"}
    BY <2>2 DEF ReleaseCards, CallReturned
  <2>3. QED
    BY <2>1, <2>2
<1>4. \A d \in Conns : controller[d] # None => controller[d] \in Activities
  OBVIOUS
<1> HIDE DEF Handling, InTurn
<1>5. QED
  BY <1>1, <1>2, <1>3, <1>4

LEMMA ExclusiveStep ==
  ASSUME Shape, Shape', Exclusive, [Next]_vars
  PROVE  Exclusive'
<1> USE NoneAssumption
    DEF Shape, Placed, TypeOK, PcValues, InCall, InTurn, connVars, callVars, idVars, Goto,
        Exclusive, Handling
<1>1. ASSUME NEW a \in Activities, EndExecute(a) PROVE Exclusive'
  BY <1>1 DEF EndExecute
<1>2. ASSUME NEW a \in Activities, BeginTurn(a) PROVE Exclusive'
  BY <1>2 DEF BeginTurn
<1>3. ASSUME NEW a \in Activities, RunTyped(a) PROVE Exclusive'
  BY <1>3 DEF RunTyped
<1>4. ASSUME NEW a \in Activities, OfferCard(a) PROVE Exclusive'
  BY <1>4 DEF OfferCard
<1>5. ASSUME NEW a \in Activities, NEW n \in 1 .. MaxCalls,
              StreamCalls(a, n)
       PROVE Exclusive'
  BY <1>5 DEF StreamCalls
<1>27. ASSUME NEW a \in Activities, NEW n \in 1 .. MaxCalls, TruncatedReply(a, n)
       PROVE Exclusive'
  BY <1>27 DEF TruncatedReply
<1>28. ASSUME NEW a \in Activities, RetryReturns(a) PROVE Exclusive'
  BY <1>28 DEF RetryReturns
<1>6. ASSUME NEW a \in Activities, EndTurn(a) PROVE Exclusive'
  BY <1>6 DEF EndTurn
<1>7. ASSUME NEW a \in Activities, NEW t \in Tools, NEW p \in Projects,
              NextCall(a, t, p)
       PROVE Exclusive'
  <2>1. pc' = pc \/ pc' = [pc EXCEPT ![a] = "gate"]
    BY <1>7 DEF NextCall
  <2>2. pc[a] = "next" /\ UNCHANGED <<inFlight, controller, kind, conn, aborted>>
    BY <1>7 DEF NextCall
  <2>3. CASE pc' = pc
    BY <2>2, <2>3
  <2>4. CASE pc' = [pc EXCEPT ![a] = "gate"]
    BY <2>2, <2>4
  <2>5. QED
    BY <2>1, <2>3, <2>4
<1>8. ASSUME NEW a \in Activities, NextRound(a) PROVE Exclusive'
  BY <1>8 DEF NextRound
<1>9. ASSUME NEW a \in Activities, Gate(a) PROVE Exclusive'
  <2>1. PICK q \in {"run", "await", "preview", CallReturned(a)} :
          pc' = [pc EXCEPT ![a] = q]
    BY <1>9, ZenonT(30) DEF Gate
  <2>2. pc[a] = "gate" /\ UNCHANGED <<inFlight, controller, kind, conn, aborted>>
    BY <1>9 DEF Gate
  <2>3. QED
    BY <2>1, <2>2 DEF CallReturned
<1>10. ASSUME NEW a \in Activities, ShowCard(a) PROVE Exclusive'
  BY <1>10 DEF ShowCard
<1>11. ASSUME NEW a \in Activities, Execute(a) PROVE Exclusive'
  BY <1>11 DEF Execute, CallReturned
<1>12. ASSUME NEW a \in Activities, Expire(a) PROVE Exclusive'
  BY <1>12 DEF Expire
<1>13. ASSUME NEW a \in Activities, NEW c \in Conns, NEW k \in {"ai", "trigger", "typed"}, NEW p \in Projects,
              StartExecute(a, c, k, p)
       PROVE Exclusive'
  BY <1>13 DEF StartExecute
<1>14. ASSUME NEW a \in Activities, NEW c \in Conns, NEW t \in Tools, NEW p \in Projects,
              ToolCall(a, c, t, p)
       PROVE Exclusive'
  BY <1>14 DEF ToolCall
<1>15. ASSUME NEW a \in Activities, NEW c \in Conns, NEW yes \in BOOLEAN,
              AnswerToolCard(a, c, yes)
       PROVE Exclusive'
  <2>1. PICK q \in {"run", CallReturned(a)} : pc' = [pc EXCEPT ![a] = q]
    BY <1>15 DEF AnswerToolCard, Approved
  <2>2. pc[a] = "await" /\ UNCHANGED <<inFlight, controller, kind, conn, aborted>>
    BY <1>15 DEF AnswerToolCard
  <2>3. QED
    BY <2>1, <2>2 DEF CallReturned
<1>16. ASSUME NEW a \in Activities, NEW c \in Conns, NEW yes \in BOOLEAN,
              AnswerTriggerCard(a, c, yes)
       PROVE Exclusive'
  BY <1>16 DEF AnswerTriggerCard, Approved, HowApproved, Drop
<1>17. ASSUME NEW a \in Activities, NEW c \in Conns, NEW p \in Projects,
              ApproveTask(a, c, p)
       PROVE Exclusive'
  <2>1. pc' = pc \/ pc' = [pc EXCEPT ![a] = "run"]
    BY <1>17 DEF ApproveTask, Approved
  <2>2. pc[a] = "await" /\ UNCHANGED <<inFlight, controller, kind, conn, aborted>>
    BY <1>17 DEF ApproveTask
  <2>3. CASE pc' = pc
    BY <2>2, <2>3
  <2>4. CASE pc' = [pc EXCEPT ![a] = "run"]
    BY <2>2, <2>4
  <2>5. QED
    BY <2>1, <2>3, <2>4
<1>18. CASE Sweep
  BY <1>18 DEF Sweep, ReleaseCards, CallReturned
<1>19. ASSUME NEW c \in Conns, Cancel(c) PROVE Exclusive'
  BY <1>19, ReleaseKeepsExclusive DEF Cancel
<1>20. ASSUME NEW c \in Conns, AbortAi(c) PROVE Exclusive'
  BY <1>20, ReleaseKeepsExclusive DEF AbortAi
<1>21. ASSUME NEW c \in Conns, Close(c) PROVE Exclusive'
  BY <1>21, ReleaseKeepsExclusive DEF Close
<1>22. ASSUME NEW c \in Conns, NEW p \in Projects, StopProcess(c, p) PROVE Exclusive'
  BY <1>22 DEF StopProcess
<1>23. ASSUME NEW c \in Conns, NEW p \in Projects, SetWorkspace(c, p) PROVE Exclusive'
  BY <1>23 DEF SetWorkspace
<1>24. ASSUME NEW r \in running, ProcessExits(r) PROVE Exclusive'
  BY <1>24 DEF ProcessExits
<1>25. CASE UNCHANGED vars
  BY <1>25 DEF vars
<1> HIDE DEF Exclusive, Handling, Shape, Placed, TypeOK
<1>26. QED
  BY <1>1, <1>2, <1>3, <1>4, <1>5, <1>6, <1>7, <1>8, <1>9,
     <1>10, <1>11, <1>12, <1>13, <1>14, <1>15, <1>16, <1>17, <1>18,
     <1>19, <1>20, <1>21, <1>22, <1>23, <1>24, <1>25, <1>27, <1>28
     DEF Next, ServerStep, UserStep

-----------------------------------------------------------------------------
IInv == Shape /\ AllPermitted /\ Exclusive

LEMMA IInvInit == Init => IInv
<1> SUFFICES ASSUME Init PROVE IInv
  OBVIOUS
<1>1. Shape
  BY ShapeInit
<1>2. AllPermitted
  BY DEF Init, AllPermitted, Permitted, InCall
<1>3. Exclusive
  BY DEF Init, Exclusive, Handling, InTurn, InCall
<1>4. QED
  BY <1>1, <1>2, <1>3 DEF IInv

(* The three layers together are an invariant of the server: the clear     *)
(* order in which connectionExecute.js and aiQuery.js set and clear their  *)
(* flags is what makes them inductive.                                     *)
THEOREM Invariance == Spec => []IInv
<1>1. IInv /\ [Next]_vars => IInv'
  BY ShapeStep, PermittedStep, ExclusiveStep DEF IInv
<1>2. QED
  BY IInvInit, <1>1, PTL DEF Spec

(* The variables keep their types. *)
THEOREM TypeCorrect == Spec => []TypeOK
<1>1. IInv => TypeOK
  BY DEF IInv, Shape
<1>2. QED
  BY Invariance, <1>1, PTL

(* No tool runs without the consent it needs, whatever the tools, the      *)
(* manifests and the interleaving.                                         *)
THEOREM ConsentIsGiven == Spec => []ConsentBeforeRun
<1>1. IInv => ConsentBeforeRun
  BY DEF IInv, Shape, AllPermitted, Permitted, ConsentBeforeRun, Granted, InCall
<1>2. QED
  BY Invariance, <1>1, PTL

(* A connection handles one execute message at a time, and the turn past   *)
(* its setup is the one that `cancel` aborts.                              *)
THEOREM TurnsAreExclusive == Spec => []OneTurnPerConnection
<1>1. IInv => OneTurnPerConnection
  BY DEF IInv, Exclusive, OneTurnPerConnection
<1>2. QED
  BY Invariance, <1>1, PTL

-----------------------------------------------------------------------------
(* A grant is only ever added by the approval of a card that was up, in    *)
(* time and on the same connection.                                        *)
THEOREM GrantsComeFromApprovals == Spec => GrantsAreEarned
<1> DEFINE Earned ==
      \A c \in Conns : \A g \in grants'[c] \ grants[c] :
        /\ g[2] \in GatedTools \cup CustomTools
        /\ \E a \in Activities :
             conn[a] = c /\ card[a] = "fresh" /\ pc[a] = "await" /\ pc'[a] = "run"
<1>1. IInv /\ [Next]_vars => Earned
  <2> SUFFICES ASSUME IInv, [Next]_vars PROVE Earned
    OBVIOUS
  <2>1. CASE UNCHANGED grants
    BY <2>1
  <2>2. ASSUME NEW a \in Activities, NEW d \in Conns, NEW yes \in BOOLEAN,
               AnswerToolCard(a, d, yes)
        PROVE  Earned
    BY <2>2 DEF AnswerToolCard, Approved, Valid, Goto, IInv, Shape, TypeOK, AllPermitted,
                Permitted
  <2>3. ASSUME NEW a \in Activities, NEW d \in Conns, NEW p \in Projects,
               ApproveTask(a, d, p)
        PROVE  Earned
    BY <2>3 DEF ApproveTask, Approved, Valid, Goto, IInv, Shape, TypeOK, AllPermitted,
                Permitted
  <2> HIDE DEF Earned
  <2>4. ASSUME NEW a \in Activities, ServerStep(a) \/ Expire(a) PROVE UNCHANGED grants
    BY <2>4 DEF ServerStep, connVars, EndExecute, BeginTurn, RunTyped, OfferCard, StreamCalls,
       TruncatedReply, RetryReturns,
       EndTurn, NextCall, NextRound, Gate, ShowCard, Execute, Expire
  <2>5. ASSUME NEW c \in Conns, UserStep(c) PROVE Earned
    <3>1. ASSUME NEW a \in Activities, NEW p \in Projects, NEW k \in {"ai", "trigger", "typed"},
                 StartExecute(a, c, k, p)
          PROVE  UNCHANGED grants
      BY <3>1 DEF StartExecute
    <3>2. ASSUME NEW a \in Activities, NEW p \in Projects, NEW t \in Tools, ToolCall(a, c, t, p)
          PROVE  UNCHANGED grants
      BY <3>2 DEF ToolCall, connVars
    <3>3. ASSUME NEW a \in Activities, NEW yes \in BOOLEAN, AnswerTriggerCard(a, c, yes)
          PROVE  UNCHANGED grants
      BY <3>3 DEF AnswerTriggerCard, connVars
    <3>4. CASE Cancel(c) \/ AbortAi(c) \/ Close(c)
      BY <2>1, <3>4 DEF Cancel, AbortAi, Close, connVars
    <3>5. ASSUME NEW p \in Projects, StopProcess(c, p) \/ SetWorkspace(c, p)
          PROVE  UNCHANGED grants
      BY <3>5 DEF StopProcess, SetWorkspace, connVars
    <3>6. QED
      BY <2>1, <2>2, <2>3, <2>5, <3>1, <3>2, <3>3, <3>4, <3>5 DEF UserStep
  <2>6. CASE Sweep \/ (\E r \in running : ProcessExits(r)) \/ UNCHANGED vars
    BY <2>1, <2>6 DEF Sweep, ProcessExits, vars, connVars
  <2>7. QED
    BY <2>1, <2>4, <2>5, <2>6 DEF Next
<1>2. QED
  BY Invariance, <1>1, PTL DEF Spec, GrantsAreEarned

(* An aborted turn gets no other reply: the calls at hand only grow fewer, *)
(* and no round begins but the one of a truncated reply that was retried.  *)
THEOREM AbortedTurnsWindDown == Spec => AbortedTurnWindsDown
<1> DEFINE WindsDown ==
      \A a \in Activities :
        aborted[a] => /\ calls'[a] <= calls[a]
                      /\ rounds'[a] # rounds[a] => pc[a] = "retry"
<1>1. IInv /\ [Next]_vars => WindsDown
  <2> SUFFICES ASSUME IInv, [Next]_vars PROVE WindsDown
    OBVIOUS
  <2> USE DEF IInv, Shape, TypeOK
  <2>1. CASE UNCHANGED <<rounds, calls>>
    BY <2>1, BoundsAssumption
  <2>2. ASSUME NEW a \in Activities, BeginTurn(a) PROVE WindsDown
    BY <2>2, BoundsAssumption DEF BeginTurn, Exclusive
  <2>3. ASSUME NEW a \in Activities, NEW n \in 1 .. MaxCalls, StreamCalls(a, n)
        PROVE  WindsDown
    BY <2>3, BoundsAssumption DEF StreamCalls
  <2>10. ASSUME NEW a \in Activities, NEW n \in 1 .. MaxCalls, TruncatedReply(a, n)
         PROVE  WindsDown
    BY <2>10, BoundsAssumption DEF TruncatedReply
  <2>11. ASSUME NEW a \in Activities, RetryReturns(a) PROVE WindsDown
    BY <2>11, BoundsAssumption DEF RetryReturns
  <2>4. ASSUME NEW a \in Activities, NEW t \in Tools, NEW p \in Projects, NextCall(a, t, p)
        PROVE  WindsDown
    BY <2>4, BoundsAssumption DEF NextCall
  <2> HIDE DEF IInv, Shape, TypeOK, WindsDown
  <2>5. ASSUME NEW a \in Activities, ServerStep(a) PROVE WindsDown
    <3>1. CASE EndExecute(a) \/ RunTyped(a) \/ OfferCard(a) \/ EndTurn(a) \/ NextRound(a)
      BY <2>1, <3>1 DEF EndExecute, RunTyped, OfferCard, EndTurn, NextRound, callVars
    <3>2. CASE Gate(a) \/ ShowCard(a) \/ Execute(a)
      BY <2>1, <3>2 DEF Gate, ShowCard, Execute, callVars
    <3>3. QED
      BY <2>2, <2>3, <2>4, <2>5, <2>10, <2>11, <3>1, <3>2 DEF ServerStep
  <2>6. ASSUME NEW c \in Conns, UserStep(c) PROVE UNCHANGED <<rounds, calls>>
    BY <2>6 DEF UserStep, StartExecute, ToolCall, AnswerToolCard, AnswerTriggerCard,
       ApproveTask, Cancel, AbortAi, Close, StopProcess, SetWorkspace, callVars
  <2>7. CASE \E a \in Activities : Expire(a)
    BY <2>1, <2>7 DEF Expire, callVars
  <2>8. CASE Sweep \/ (\E r \in running : ProcessExits(r)) \/ UNCHANGED vars
    BY <2>1, <2>8 DEF Sweep, ProcessExits, vars, callVars
  <2>9. QED
    BY <2>1, <2>5, <2>6, <2>7, <2>8 DEF Next
<1>2. QED
  BY Invariance, <1>1, PTL DEF Spec, AbortedTurnWindsDown

-----------------------------------------------------------------------------
(* What keeps a promise behind its card, if nobody approves a late or foreign card. *)
LEMMA PromiseStep ==
  ASSUME StrayApprovals = FALSE, Shape, Shape', NoOrphanedPromise, [Next]_vars
  PROVE  NoOrphanedPromise'
<1> USE DEF Shape, TypeOK, PcValues, connVars, callVars, idVars, Goto, NoOrphanedPromise
<1>1. ASSUME NEW a \in Activities, EndExecute(a) PROVE NoOrphanedPromise'
  BY <1>1 DEF EndExecute
<1>2. ASSUME NEW a \in Activities, BeginTurn(a) PROVE NoOrphanedPromise'
  BY <1>2 DEF BeginTurn
<1>3. ASSUME NEW a \in Activities, RunTyped(a) PROVE NoOrphanedPromise'
  BY <1>3 DEF RunTyped
<1>4. ASSUME NEW a \in Activities, OfferCard(a) PROVE NoOrphanedPromise'
  BY <1>4 DEF OfferCard
<1>5. ASSUME NEW a \in Activities, NEW n \in 1 .. MaxCalls,
              StreamCalls(a, n)
       PROVE NoOrphanedPromise'
  BY <1>5 DEF StreamCalls
<1>27. ASSUME NEW a \in Activities, NEW n \in 1 .. MaxCalls, TruncatedReply(a, n)
       PROVE NoOrphanedPromise'
  BY <1>27 DEF TruncatedReply
<1>28. ASSUME NEW a \in Activities, RetryReturns(a) PROVE NoOrphanedPromise'
  BY <1>28 DEF RetryReturns
<1>6. ASSUME NEW a \in Activities, EndTurn(a) PROVE NoOrphanedPromise'
  BY <1>6 DEF EndTurn
<1>7. ASSUME NEW a \in Activities, NEW t \in Tools, NEW p \in Projects,
              NextCall(a, t, p)
       PROVE NoOrphanedPromise'
  BY <1>7 DEF NextCall
<1>8. ASSUME NEW a \in Activities, NextRound(a) PROVE NoOrphanedPromise'
  BY <1>8 DEF NextRound
<1>9. ASSUME NEW a \in Activities, Gate(a) PROVE NoOrphanedPromise'
  <2>1. \/ \E q \in {"run", "preview", CallReturned(a)} : pc' = [pc EXCEPT ![a] = q] /\ UNCHANGED card
        \/ pc' = [pc EXCEPT ![a] = "await"] /\ card' = [card EXCEPT ![a] = "fresh"]
    BY <1>9, ZenonT(30) DEF Gate
  <2>2. QED
    BY <2>1 DEF CallReturned
<1>10. ASSUME NEW a \in Activities, ShowCard(a) PROVE NoOrphanedPromise'
  BY <1>10 DEF ShowCard
<1>11. ASSUME NEW a \in Activities, Execute(a) PROVE NoOrphanedPromise'
  BY <1>11 DEF Execute, CallReturned
<1>12. ASSUME NEW a \in Activities, Expire(a) PROVE NoOrphanedPromise'
  BY <1>12 DEF Expire
<1>13. ASSUME NEW a \in Activities, NEW c \in Conns, NEW k \in {"ai", "trigger", "typed"}, NEW p \in Projects,
              StartExecute(a, c, k, p)
       PROVE NoOrphanedPromise'
  BY <1>13 DEF StartExecute
<1>14. ASSUME NEW a \in Activities, NEW c \in Conns, NEW t \in Tools, NEW p \in Projects,
              ToolCall(a, c, t, p)
       PROVE NoOrphanedPromise'
  BY <1>14 DEF ToolCall
<1>15. ASSUME NEW a \in Activities, NEW c \in Conns, NEW yes \in BOOLEAN,
              AnswerToolCard(a, c, yes)
       PROVE NoOrphanedPromise'
  <2>1. PICK q \in {"run", CallReturned(a)} : pc' = [pc EXCEPT ![a] = q]
    BY <1>15 DEF AnswerToolCard, Approved
  <2>2. card' = [card EXCEPT ![a] = "none"]
    BY <1>15 DEF AnswerToolCard, Drop
  <2>3. QED
    BY <2>1, <2>2 DEF CallReturned
<1>16. ASSUME NEW a \in Activities, NEW c \in Conns, NEW yes \in BOOLEAN,
              AnswerTriggerCard(a, c, yes)
       PROVE NoOrphanedPromise'
  BY <1>16 DEF AnswerTriggerCard, Approved, HowApproved, Drop
<1>17. ASSUME NEW a \in Activities, NEW c \in Conns, NEW p \in Projects,
              ApproveTask(a, c, p)
       PROVE NoOrphanedPromise'
  <2>1. pc' = [pc EXCEPT ![a] = "run"] /\ card' = [card EXCEPT ![a] = "none"]
    BY <1>17 DEF ApproveTask, Approved, Drop
  <2>2. QED
    BY <2>1
<1>18. CASE Sweep
  BY <1>18 DEF Sweep, ReleaseCards, CallReturned
<1>19. ASSUME NEW c \in Conns, Cancel(c) PROVE NoOrphanedPromise'
  BY <1>19 DEF Cancel, ReleaseCards, CallReturned, AbortTurnOf, CardsOf
<1>20. ASSUME NEW c \in Conns, AbortAi(c) PROVE NoOrphanedPromise'
  BY <1>20 DEF AbortAi, ReleaseCards, CallReturned, AbortTurnOf, CardsOf
<1>21. ASSUME NEW c \in Conns, Close(c) PROVE NoOrphanedPromise'
  BY <1>21 DEF Close, ReleaseCards, CallReturned, AbortTurnOf, CardsOf
<1>22. ASSUME NEW c \in Conns, NEW p \in Projects,
              StopProcess(c, p)
       PROVE NoOrphanedPromise'
  BY <1>22 DEF StopProcess
<1>23. ASSUME NEW c \in Conns, NEW p \in Projects,
              SetWorkspace(c, p)
       PROVE NoOrphanedPromise'
  BY <1>23 DEF SetWorkspace
<1>24. ASSUME NEW r \in running, ProcessExits(r) PROVE NoOrphanedPromise'
  BY <1>24 DEF ProcessExits
<1>25. CASE UNCHANGED vars
  BY <1>25 DEF vars
<1> HIDE DEF NoOrphanedPromise, Shape, TypeOK
<1>26. QED
  BY <1>1, <1>2, <1>3, <1>4, <1>5, <1>6, <1>7, <1>8, <1>9,
     <1>10, <1>11, <1>12, <1>13, <1>14, <1>15, <1>16, <1>17, <1>18,
     <1>19, <1>20, <1>21, <1>22, <1>23, <1>24, <1>25, <1>27, <1>28
     DEF Next, ServerStep, UserStep

(* A pending promise is always behind a card that can still settle it.     *)
THEOREM PromisesAreKept == ASSUME StrayApprovals = FALSE PROVE Spec => []NoOrphanedPromise
<1>1. Init => NoOrphanedPromise
  BY DEF Init, NoOrphanedPromise
<1>2. IInv /\ IInv' /\ NoOrphanedPromise /\ [Next]_vars => NoOrphanedPromise'
  BY PromiseStep DEF IInv
<1>3. QED
  BY Invariance, <1>1, <1>2, PTL DEF Spec

(* Cancelling a turn that holds the controller leaves the processes of     *)
(* every other activity alone.                                             *)
THEOREM CancelIsSelective == Spec => CancelSparesOthers
<1> DEFINE Spared ==
      \A a \in Activities :
        ~aborted[a] /\ aborted'[a] => \A r \in running : r[1] # a => r \in running'
<1>1. IInv /\ [Next]_vars => Spared
  <2> SUFFICES ASSUME IInv, [Next]_vars PROVE Spared
    OBVIOUS
  <2>1. CASE UNCHANGED aborted
    BY <2>1
  <2>2. ASSUME NEW c \in Conns, Cancel(c) PROVE Spared
    <3>1. SUFFICES ASSUME NEW a \in Activities, ~aborted[a], aborted'[a],
                          NEW r \in running, r[1] # a
                   PROVE  r \in running'
      OBVIOUS
    <3>2. controller[c] = a
      BY <2>2, <3>1, ZenonT(30) DEF Cancel, AbortTurnOf
    <3>3. r \notin StoppedBy(c)
      BY <3>1, <3>2, NoneAssumption DEF StoppedBy
    <3>4. QED
      BY <2>2, <3>3 DEF Cancel
  <2>3. ASSUME NEW c \in Conns, AbortAi(c) \/ Close(c) PROVE Spared
    BY <2>3 DEF AbortAi, Close
  <2> HIDE DEF Spared
  <2>4. ASSUME NEW a \in Activities, ServerStep(a) \/ Expire(a) PROVE UNCHANGED aborted
    BY <2>4 DEF ServerStep, EndExecute, BeginTurn, RunTyped, OfferCard, StreamCalls,
       TruncatedReply, RetryReturns,
       EndTurn, NextCall, NextRound, Gate, ShowCard, Execute, Expire
  <2>5. ASSUME NEW c \in Conns, UserStep(c) PROVE Spared
    <3>1. ASSUME NEW a \in Activities, NEW p \in Projects,
                 \/ \E k \in {"ai", "trigger", "typed"} : StartExecute(a, c, k, p)
                 \/ \E t \in Tools : ToolCall(a, c, t, p)
                 \/ \E yes \in BOOLEAN : AnswerToolCard(a, c, yes) \/ AnswerTriggerCard(a, c, yes)
                 \/ ApproveTask(a, c, p)
          PROVE  UNCHANGED aborted
      BY <3>1 DEF StartExecute, ToolCall, AnswerToolCard, AnswerTriggerCard, ApproveTask
    <3>2. ASSUME NEW p \in Projects, StopProcess(c, p) \/ SetWorkspace(c, p)
          PROVE  UNCHANGED aborted
      BY <3>2 DEF StopProcess, SetWorkspace
    <3>3. QED
      BY <2>1, <2>2, <2>3, <2>5, <3>1, <3>2 DEF UserStep
  <2>6. CASE Sweep \/ (\E r \in running : ProcessExits(r)) \/ UNCHANGED vars
    BY <2>1, <2>6 DEF Sweep, ProcessExits, vars
  <2>7. QED
    BY <2>1, <2>4, <2>5, <2>6 DEF Next
<1>2. QED
  BY Invariance, <1>1, PTL DEF Spec, CancelSparesOthers

=============================================================================
