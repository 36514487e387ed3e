------------------------------ MODULE ClientLink ------------------------------
(***************************************************************************)
(* The web client's end of a connection and the server's gate behind it:   *)
(* src/hooks/useWebSocket.ts (the socket, its reconnect timer and the      *)
(* flags its callbacks share), the outgoing queue of src/hooks/            *)
(* useConsole.ts, the message cases that release it, the AI toggle of      *)
(* src/hooks/useAI.ts, and on the server the single-flight test of         *)
(* handleExecute with the AI flag of a connection.                         *)
(*                                                                         *)
(* A callback of the page runs to completion, so each is one action, with  *)
(* the pump it ends in.  What was written to a socket arrives in order, or *)
(* is lost when the connection breaks.  A socket object is a slot of       *)
(* Sockets that is used again once it is closed and wsRef has moved on.    *)
(***************************************************************************)
EXTENDS Integers, Sequences, FiniteSets, SequencesExt

CONSTANTS
  Sockets,      \* slots for the WebSocket objects
  NoSocket,
  NoTurn,
  QueueCap,     \* SEND_QUEUE_CAP
  MaxMessages,  \* bounds of the model: messages entered, ...
  MaxMounts,    \* ... times the page's effect runs (React runs it twice in development), ...
  MaxBreaks,    \* ... server crashes and broken connections, ...
  MaxNotices,   \* ... errors and warnings the server sends that end no turn, ...
  MaxToggles    \* ... clicks on the AI toggle

ASSUME SocketsAssumption == NoSocket \notin Sockets
ASSUME QueueCapAssumption == QueueCap \in Nat \ {0}
ASSUME BoundsAssumption ==
  /\ MaxMessages \in Nat /\ MaxMounts \in Nat /\ MaxBreaks \in Nat
  /\ MaxNotices \in Nat /\ MaxToggles \in Nat
ASSUME NoTurnAssumption == NoTurn \notin 1 .. MaxMessages

Messages == 1 .. MaxMessages

(* What the page writes, and what it reads: `end` also stands for the other *)
(* cases that release the queue at the end of a turn, `notice` for an error *)
(* or a warning in the middle of one; an `answer` releases nothing.         *)
Requests == [type : {"execute"}, message : Messages] \cup [type : {"ai_toggle"}, enabled : BOOLEAN]
Replies == [type : {"end", "notice", "answer"}] \cup [type : {"ai_status"}, enabled : BOOLEAN]

End == [type |-> "end"]
Notice == [type |-> "notice"]
Answer == [type |-> "answer"]
AiStatus(b) == [type |-> "ai_status", enabled |-> b]

VARIABLES
  mounted,      \* the page's effect is in force
  ready,        \* ready[s]: the readyState of the socket
  wsRef,
  intentional,  \* intentionalCloseRef
  timer,        \* reconnectTimerRef holds a timer
  connected,    \* the state the Reconnecting banner is drawn from
  pending,      \* commandPendingRef
  queue,        \* sendQueueRef
  sending,      \* the message that waits for an open socket, in a set, or {}
  pumpAi,       \* aiEnabled as the pump that waits has it from its start; FALSE if none does
  aiEnabled,    \* the page's flag
  toggling,     \* toggleBusyRef: the AI toggle waits for Ollama's status
  up,           \* the server runs
  peer,         \* peer[s]: the server has this connection
  aiOf,         \* aiOf[s]: aiEnabled of the connection's sessionContext
  turn,         \* turn[s]: the message whose turn is in flight, or NoTurn
  requests,     \* requests[s]: written by the page, not yet read
  replies,      \* replies[s]: written by the server, not yet read
  started,      \* the messages the server began a turn for, in order (observation)
  rejected,     \* the messages the gate turned away (observation)
  stranded,     \* a turn ended in an answer alone and the page's gate is still shut (observation)
  used          \* how often each bounded thing has happened

page == <<mounted, intentional, timer, connected, wsRef>>
outgoing == <<pending, queue, sending, pumpAi>>
ai == <<aiEnabled, toggling>>
server == <<up, peer, aiOf, turn>>
observed == <<started, rejected, stranded>>
vars == <<page, ready, outgoing, ai, server, requests, replies, observed, used>>

Bounded == {"messages", "mounts", "breaks", "notices", "toggles"}
Bound == [messages |-> MaxMessages, mounts |-> MaxMounts, breaks |-> MaxBreaks,
          notices |-> MaxNotices, toggles |-> MaxToggles]
Use(x) == used[x] < Bound[x] /\ used' = [used EXCEPT ![x] = @ + 1]

Init ==
  /\ mounted = FALSE
  /\ ready = [s \in Sockets |-> "closed"]
  /\ wsRef = NoSocket
  /\ intentional = FALSE /\ timer = FALSE /\ connected = FALSE
  /\ pending = FALSE /\ queue = <<>> /\ sending = {} /\ pumpAi = FALSE
  /\ aiEnabled = FALSE /\ toggling = FALSE
  /\ up = TRUE
  /\ peer = [s \in Sockets |-> FALSE]
  /\ aiOf = [s \in Sockets |-> FALSE]
  /\ turn = [s \in Sockets |-> NoTurn]
  /\ requests = [s \in Sockets |-> <<>>]
  /\ replies = [s \in Sockets |-> <<>>]
  /\ started = <<>> /\ rejected = {} /\ stranded = FALSE
  /\ used = [x \in Bounded |-> 0]

-----------------------------------------------------------------------------
(* The outgoing queue                                                      *)

Executes(ms) == [i \in DOMAIN ms |-> [type |-> "execute", message |-> ms[i]]]
IsOpen(r, w) == w # NoSocket /\ r[w] = "open"

(* sendExecuteNow past the wait, for one message after the other.          *)
Transmit(ms) == requests' = [requests EXCEPT ![wsRef] = @ \o Executes(ms)]

(* Mutant: pumpSendQueue without its sendingRef test. *)
PumpTogether(q, busy, open) ==
  IF busy \/ q = <<>>
  THEN queue' = q /\ pending' = busy /\ UNCHANGED <<sending, pumpAi, requests>>
  ELSE IF ~open
  THEN /\ queue' = Tail(q) /\ sending' = sending \cup {Head(q)} /\ pumpAi' = aiEnabled
       /\ pending' = busy /\ UNCHANGED requests
  ELSE IF aiEnabled
  THEN queue' = <<>> /\ Transmit(q) /\ pending' = busy /\ UNCHANGED <<sending, pumpAi>>
  ELSE queue' = Tail(q) /\ Transmit(<<Head(q)>>) /\ pending' = TRUE /\ UNCHANGED <<sending, pumpAi>>

(***************************************************************************)
(* pumpSendQueue() on the queue q with the gate as given: one message at a *)
(* time.  A socket that is open takes it at once; in AI mode no gate is    *)
(* set and the pump goes on to the next.                                   *)
(***************************************************************************)
Pump(q, busy, open) ==
  IF sending # {} \/ busy \/ q = <<>>
  THEN queue' = q /\ pending' = busy /\ UNCHANGED <<sending, pumpAi, requests>>
  ELSE IF ~open
  THEN /\ queue' = Tail(q) /\ sending' = {Head(q)} /\ pumpAi' = aiEnabled
       /\ pending' = busy /\ UNCHANGED requests
  ELSE IF aiEnabled
  THEN queue' = <<>> /\ Transmit(q) /\ pending' = busy /\ UNCHANGED <<sending, pumpAi>>
  ELSE queue' = Tail(q) /\ Transmit(<<Head(q)>>) /\ pending' = TRUE /\ UNCHANGED <<sending, pumpAi>>

(* Mutant: the gate is opened, the queue is not drained. *)
FlushWithoutPump(open) ==
  pending' = FALSE /\ stranded' = FALSE /\ UNCHANGED <<queue, sending, pumpAi, requests>>

FlushSendQueue(open) == Pump(queue, FALSE, open) /\ stranded' = FALSE

(* handleSendMessage: a full queue takes nothing, and the page says so. *)
SendMessage ==
  /\ mounted /\ Use("messages")
  /\ LET m == used.messages + 1 IN
       IF Len(queue) >= QueueCap
       THEN UNCHANGED <<outgoing, requests>>
       ELSE Pump(Append(queue, m), pending, IsOpen(ready, wsRef))
  /\ UNCHANGED <<page, ready, ai, server, replies, observed>>

(* waitForSocketOpen sees an open socket: the message goes, and what is     *)
(* queued behind it too if AI was on when the pump began (its closure).     *)
SendWaiting(m) ==
  /\ m \in sending /\ IsOpen(ready, wsRef)
  /\ sending' = sending \ {m} /\ pumpAi' = FALSE
  /\ LET rest == IF pumpAi /\ ~pending THEN queue ELSE <<>> IN
       /\ Transmit(<<m>> \o rest)
       /\ queue' = IF rest = <<>> THEN queue ELSE <<>>
  /\ pending' = (pending \/ ~pumpAi)
  /\ UNCHANGED <<page, ready, ai, server, replies, observed, used>>

(* ... or gives up after three seconds, says so and takes the next one.    *)
GiveUpWaiting(m) ==
  /\ m \in sending /\ ~IsOpen(ready, wsRef)
  /\ LET next == queue # <<>> /\ ~pending IN
       /\ queue' = IF next THEN Tail(queue) ELSE queue
       /\ sending' = (sending \ {m}) \cup (IF next THEN {Head(queue)} ELSE {})
       /\ pumpAi' = (next /\ pumpAi)
  /\ UNCHANGED <<page, ready, pending, ai, server, requests, replies, observed, used>>

-----------------------------------------------------------------------------
(* The socket                                                              *)

(* The browser closes s: what is still on its way is lost.                 *)
Closing(s) == [ready EXCEPT ![s] = IF @ \in {"connecting", "open"} THEN "closing" ELSE @]

(***************************************************************************)
(* connectWebSocket(): the socket wsRef still names is closed, dead or     *)
(* alive, and counts as closed on purpose.                                 *)
(***************************************************************************)
ConnectWebSocket ==
  \E s \in Sockets :
    /\ ready[s] = "closed" /\ s # wsRef
    /\ intentional' = (wsRef # NoSocket \/ intentional)
    /\ ready' = [(IF wsRef = NoSocket THEN ready ELSE Closing(wsRef)) EXCEPT ![s] = "connecting"]
    /\ peer' = IF wsRef = NoSocket THEN peer ELSE [peer EXCEPT ![wsRef] = FALSE]
    /\ wsRef' = s
    /\ requests' = [requests EXCEPT ![s] = <<>>]
    /\ replies' = [replies EXCEPT ![s] = <<>>]

(* The effect of useConsolePolling runs ...                                *)
Mount ==
  /\ ~mounted /\ Use("mounts")
  /\ mounted' = TRUE
  /\ ConnectWebSocket
  /\ UNCHANGED <<timer, connected, outgoing, ai, up, aiOf, turn, observed>>

(* Mutant: the reconnect timer is left armed. *)
UnmountLeavingTimer ==
  /\ mounted
  /\ mounted' = FALSE /\ intentional' = TRUE
  /\ ready' = Closing(wsRef)
  /\ peer' = [peer EXCEPT ![wsRef] = FALSE]
  /\ UNCHANGED <<timer, connected, wsRef, outgoing, ai, up, aiOf, turn,
                 requests, replies, observed, used>>

(* ... and is cleaned up: disconnect().                                    *)
Unmount ==
  /\ mounted
  /\ mounted' = FALSE /\ intentional' = TRUE /\ timer' = FALSE
  /\ ready' = Closing(wsRef)
  /\ peer' = [peer EXCEPT ![wsRef] = FALSE]
  /\ UNCHANGED <<connected, wsRef, outgoing, ai, up, aiOf, turn,
                 requests, replies, observed, used>>

ReconnectTimer ==
  /\ timer /\ timer' = FALSE
  /\ ConnectWebSocket
  /\ UNCHANGED <<mounted, connected, outgoing, ai, up, aiOf, turn, observed, used>>

(* Mutant: the connection's AI flag is not pushed to the page. *)
OpenedInSilence(s) ==
  /\ ready[s] = "connecting" /\ up
  /\ ready' = [ready EXCEPT ![s] = "open"]
  /\ intentional' = FALSE /\ timer' = FALSE /\ connected' = TRUE
  /\ peer' = [peer EXCEPT ![s] = TRUE]
  /\ aiOf' = [aiOf EXCEPT ![s] = FALSE]
  /\ turn' = [turn EXCEPT ![s] = NoTurn]
  /\ FlushSendQueue(IsOpen(ready', wsRef))
  /\ UNCHANGED <<mounted, wsRef, ai, up, replies, started, rejected, used>>

(* The server's onConnection, and the page's onopen with handleWsOpen.     *)
Opened(s) ==
  /\ ready[s] = "connecting" /\ up
  /\ ready' = [ready EXCEPT ![s] = "open"]
  /\ intentional' = FALSE /\ timer' = FALSE /\ connected' = TRUE
  /\ peer' = [peer EXCEPT ![s] = TRUE]
  /\ aiOf' = [aiOf EXCEPT ![s] = FALSE]
  /\ turn' = [turn EXCEPT ![s] = NoTurn]
  /\ replies' = [replies EXCEPT ![s] = <<AiStatus(FALSE)>>]
  /\ FlushSendQueue(IsOpen(ready', wsRef))
  /\ UNCHANGED <<mounted, wsRef, ai, up, started, rejected, used>>

(***************************************************************************)
(* onclose: of a socket that could not connect, whose connection broke, or *)
(* that the page closed.                                                   *)
(***************************************************************************)
Closed(s) ==
  /\ \/ ready[s] = "connecting" /\ ~up
     \/ ready[s] = "open" /\ ~peer[s]
     \/ ready[s] = "closing"
  /\ ready' = [ready EXCEPT ![s] = "closed"]
  /\ requests' = [requests EXCEPT ![s] = <<>>]
  /\ replies' = [replies EXCEPT ![s] = <<>>]
  /\ connected' = FALSE
  /\ timer' = (timer \/ (~intentional /\ wsRef = s))
  /\ UNCHANGED <<mounted, intentional, wsRef, outgoing, ai, server, observed, used>>

(* A reply arrives: the message cases of wsMessageCases.ts.                *)
Receive(s) ==
  /\ ready[s] = "open" /\ replies[s] # <<>>
  /\ replies' = [replies EXCEPT ![s] = Tail(@)]
  /\ LET reply == Head(replies[s]) IN
       \/ /\ reply.type = "ai_status" /\ aiEnabled' = reply.enabled
          /\ UNCHANGED <<outgoing, requests, stranded>>
       \/ /\ reply.type = "answer"
          /\ UNCHANGED <<outgoing, requests, stranded, aiEnabled>>
       \/ /\ reply.type \in {"end", "notice"} /\ FlushSendQueue(IsOpen(ready, wsRef))
          /\ UNCHANGED aiEnabled
  /\ UNCHANGED <<page, ready, toggling, server, started, rejected, used>>

-----------------------------------------------------------------------------
(* handleAIToggle: off at once; on after Ollama's status arrived.  A socket *)
(* that is not open throws, and the flag stays.                             *)
SendToggle(b) ==
  IF IsOpen(ready, wsRef)
  THEN /\ requests' = [requests EXCEPT ![wsRef] =
                         Append(@, [type |-> "ai_toggle", enabled |-> b])]
       /\ aiEnabled' = b
  ELSE UNCHANGED <<requests, aiEnabled>>

ClickToggle ==
  /\ mounted /\ ~toggling /\ Use("toggles")
  /\ IF aiEnabled
     THEN SendToggle(FALSE) /\ UNCHANGED toggling
     ELSE toggling' = TRUE /\ UNCHANGED <<requests, aiEnabled>>
  /\ UNCHANGED <<page, ready, outgoing, server, replies, observed>>

(* Ollama can be used, or it cannot and the flag is put out.               *)
ToggleOn ==
  /\ toggling /\ toggling' = FALSE
  /\ \/ SendToggle(TRUE)
     \/ aiEnabled' = FALSE /\ UNCHANGED requests
  /\ UNCHANGED <<page, ready, outgoing, server, replies, observed, used>>

-----------------------------------------------------------------------------
(* The server                                                              *)

Reply(s, rs) == replies' = [replies EXCEPT ![s] = @ \o rs]

(* routeMessage: handleExecute's gate, at most one bubble in two seconds    *)
(* when it turns a message away; the AI toggle.                             *)
Serve(s) ==
  /\ up /\ peer[s] /\ requests[s] # <<>>
  /\ requests' = [requests EXCEPT ![s] = Tail(@)]
  /\ LET r == Head(requests[s]) IN
       \/ /\ r.type = "execute" /\ turn[s] = NoTurn
          /\ turn' = [turn EXCEPT ![s] = r.message]
          /\ started' = Append(started, r.message)
          /\ UNCHANGED <<aiOf, replies, rejected>>
       \/ /\ r.type = "execute" /\ turn[s] # NoTurn
          /\ rejected' = rejected \cup {r.message}
          /\ \E bubble \in {<<>>, <<Notice>>} : Reply(s, bubble \o <<End>>)
          /\ UNCHANGED <<aiOf, turn, started>>
       \/ /\ r.type = "ai_toggle"
          /\ aiOf' = [aiOf EXCEPT ![s] = r.enabled]
          /\ Reply(s, <<AiStatus(r.enabled)>>)
          /\ UNCHANGED <<turn, started, rejected>>
  /\ UNCHANGED <<page, ready, outgoing, ai, up, peer, stranded, used>>

(* The turn ends, with the signal that ends it on the page; but a bare "ok" *)
(* that finds AI on in the connection has an answer and no more.            *)
EndTurn(s) ==
  /\ up /\ peer[s] /\ turn[s] # NoTurn
  /\ turn' = [turn EXCEPT ![s] = NoTurn]
  /\ \/ Reply(s, <<End>>) /\ UNCHANGED stranded
     \/ aiOf[s] /\ Reply(s, <<Answer>>) /\ stranded' = (stranded \/ pending)
  /\ UNCHANGED <<page, ready, outgoing, ai, up, peer, aiOf, requests, started, rejected, used>>

(* A line on stderr, a warning: of the turn in flight or of a run that was *)
(* detached long ago.                                                      *)
Warn(s) ==
  /\ up /\ peer[s] /\ Use("notices")
  /\ Reply(s, <<Notice>>)
  /\ UNCHANGED <<page, ready, outgoing, ai, server, requests, observed>>

(* The server process ends, with every connection; the network drops one.  *)
Crash ==
  /\ up /\ Use("breaks")
  /\ up' = FALSE
  /\ peer' = [s \in Sockets |-> FALSE]
  /\ UNCHANGED <<page, ready, outgoing, ai, aiOf, turn, requests, replies, observed>>

Break(s) ==
  /\ peer[s] /\ Use("breaks")
  /\ peer' = [peer EXCEPT ![s] = FALSE]
  /\ UNCHANGED <<page, ready, outgoing, ai, up, aiOf, turn, requests, replies, observed>>

Restart ==
  /\ ~up /\ up' = TRUE
  /\ UNCHANGED <<page, ready, outgoing, ai, peer, aiOf, turn, requests, replies, observed, used>>

-----------------------------------------------------------------------------
SocketStep(s) == Opened(s) \/ Closed(s) \/ Receive(s) \/ Serve(s) \/ EndTurn(s)
Wait(m) == SendWaiting(m) \/ GiveUpWaiting(m)

Next ==
  \/ Mount \/ Unmount \/ ReconnectTimer \/ SendMessage \/ ClickToggle \/ ToggleOn
  \/ \E m \in Messages : SendWaiting(m) \/ GiveUpWaiting(m)
  \/ \E s \in Sockets :
       Opened(s) \/ Closed(s) \/ Receive(s) \/ Serve(s) \/ EndTurn(s) \/ Warn(s) \/ Break(s)
  \/ Crash \/ Restart

(* The browser runs its callbacks and timers, a turn ends, a server that    *)
(* died is started again.  Nobody has to type, click or break anything.     *)
Fairness ==
  /\ WF_vars(ReconnectTimer) /\ WF_vars(ToggleOn) /\ WF_vars(Restart)
  /\ \A m \in Messages : WF_vars(Wait(m))
  /\ \A s \in Sockets : WF_vars(SocketStep(s))

Spec == Init /\ [][Next]_vars /\ Fairness

-----------------------------------------------------------------------------
TypeOK ==
  /\ {mounted, intentional, timer, connected, pending, pumpAi, aiEnabled, toggling, up, stranded}
       \subseteq BOOLEAN
  /\ ready \in [Sockets -> {"connecting", "open", "closing", "closed"}]
  /\ wsRef \in Sockets \cup {NoSocket}
  /\ queue \in Seq(Messages) /\ Len(queue) <= QueueCap
  /\ sending \subseteq Messages
  /\ peer \in [Sockets -> BOOLEAN]
  /\ aiOf \in [Sockets -> BOOLEAN]
  /\ turn \in [Sockets -> Messages \cup {NoTurn}]
  /\ requests \in [Sockets -> Seq(Requests)]
  /\ replies \in [Sockets -> Seq(Replies)]
  /\ started \in Seq(Messages)
  /\ rejected \subseteq Messages
  /\ used \in [Bounded -> Nat]

Live == {s \in Sockets : ready[s] \in {"connecting", "open"}}

(* A stray reconnect "silently swaps the live connection for a brand-new   *)
(* one" (useWebSocket.ts:13-14), so that what is typed goes to one server  *)
(* session and the answers come from another: no socket but wsRef's is     *)
(* ever alive, none is once the page disconnected, and no timer is left to *)
(* make one.                                                               *)
OneLiveSocket ==
  /\ \A s \in Live : s = wsRef
  /\ ~mounted => Live = {} /\ ~timer

(* "panel actions and typed messages run back-to-back"                     *)
(* (useConsole.ts:145): what the server begins turns for, over every       *)
(* connection the page had, comes in the order it was entered, and once.   *)
MessagesStartInOrder ==
  \A i, j \in DOMAIN started : i < j => started[i] < started[j]

(* "the client's toggle therefore showed AI ON while the session was       *)
(* actually OFF" (connectionLifecycle.js:244-245): when a connection is up *)
(* and nothing is on its way, AI is on in the page only if it is on in the *)
(* connection, however often it was toggled and reconnected.               *)
AiFlagAgrees ==
  \A s \in Live :
    peer[s] /\ requests[s] = <<>> /\ replies[s] = <<>> => (aiEnabled => aiOf[s])

(* The gate that holds the queue back while a turn runs is opened again by *)
(* the end of a turn, an error, a warning and a reconnect (useConsole.ts:  *)
(* 44-57, 248-253): as long as the page gets connections, a message does   *)
(* not stay queued, unless the gate waits for ever for a turn of which     *)
(* nothing but an answer came (connectionExecute.js:267-273).              *)
EveryMessageLeaves ==
  []<>(\E s \in Live : peer[s]) /\ []<>~stranded =>
    \A m \in Messages : (m \in ToSet(queue)) ~> (m \notin ToSet(queue))

-----------------------------------------------------------------------------
(* What the comments say and the code does not do.                         *)

(* "exponential backoff for unexpected disconnects (server restart / real  *)
(* network drop)" (useWebSocket.ts:24-26): a page that stays mounted gets  *)
(* a connection again once the server stays up.                            *)
Reconnects ==
  <>[](mounted /\ up) => []<>(\E s \in Sockets : IsOpen(ready, s))

(* "Clears the pending gate when a turn ends ... and drains whatever queued *)
(* behind it" (useConsole.ts:248-249): a page that has connections does not *)
(* stay behind the gate.  An acknowledgment that was sent in trigger mode   *)
(* and is served with AI on ends in an answer alone.                        *)
GateOpensAgain ==
  []<>(\E s \in Live : peer[s]) => (pending ~> ~pending)

(* "The commandPendingRef gate is what keeps panel clicks during a slow    *)
(* turn queued instead of rejected by the server" (useConsole.ts:231-232). *)
NothingIsRejected == ~aiEnabled /\ used.toggles = 0 => rejected = {}

(* "Set true on any open, false on any close that isn't this hook tearing  *)
(* down" (useWebSocket.ts:7-8): the banner is off while wsRef is open.     *)
ConnectedIsHonest == IsOpen(ready, wsRef) => connected

(* "Push the fresh state so the toggle syncs honestly"                     *)
(* (connectionLifecycle.js:248-249): the page and the connection agree,    *)
(* also on AI being off.  A status of Ollama that arrives after a second   *)
(* click puts out the flag of the page alone.                              *)
TogglesSyncHonestly ==
  \A s \in Live :
    peer[s] /\ requests[s] = <<>> /\ replies[s] = <<>> => (aiOf[s] => aiEnabled)
=============================================================================
