------------------------------ MODULE TaskQueue ------------------------------
(***************************************************************************)
(* server/taskQueue.js: the in-memory queue that runs background work (a   *)
(* type check, a scheduled command, an auto-start) off the chat turn.      *)
(* Every project has a FIFO of its own and runs one task at a time; a      *)
(* global cap bounds the tasks running over all projects.  JavaScript runs *)
(* enqueueTask and the `finally` of a task to completion, so each of them, *)
(* with the pump it ends in, is one action.                                *)
(***************************************************************************)
EXTENDS Integers, Sequences, FiniteSets

CONSTANTS
  Projects,        \* ids of the projects tasks are queued for
  MaxConcurrency,  \* MAX_TASK_CONCURRENCY
  MaxTasks         \* bound of the model: tasks ever enqueued

ASSUME ProjectsAssumption == IsFiniteSet(Projects)
ASSUME MaxConcurrencyAssumption == MaxConcurrency \in Nat \ {0}
ASSUME MaxTasksAssumption == MaxTasks \in Nat

Tasks == 1 .. MaxTasks
NoTask == 0

VARIABLES
  order,         \* the keys of `queues` in insertion order: a Map iterates so
  queues,        \* queues[p]: the tasks waiting for project p, oldest first
  active,        \* active[p]: the task running for p, or NoTask
  runningCount,
  counter,       \* the last task id handed out
  owner,         \* owner[t]: the project task t was enqueued for (observation)
  notified       \* notified[t]: completionListener calls for t (observation)

vars == <<order, queues, active, runningCount, counter, owner, notified>>

Init ==
  /\ order = <<>>
  /\ queues = [p \in Projects |-> <<>>]
  /\ active = [p \in Projects |-> NoTask]
  /\ runningCount = 0
  /\ counter = 0
  /\ owner = <<>>
  /\ notified = [t \in Tasks |-> 0]

-----------------------------------------------------------------------------
(* True iff the iteration of the map meets p before r. *)
Precedes(o, p, r) ==
  \E i, j \in DOMAIN o : i < j /\ o[i] = p /\ o[j] = r

(* The projects the loop does not `continue` past. *)
Runnable(q, a) == {p \in Projects : a[p] = NoTask /\ q[p] # <<>>}

(* Mutant: `>` for `>=` at the cap. *)
SlotsOffByOne(n) == IF n > MaxConcurrency THEN 0 ELSE MaxConcurrency + 1 - n

(* What the cap leaves. *)
Slots(n) == IF n >= MaxConcurrency THEN 0 ELSE MaxConcurrency - n

(***************************************************************************)
(* pump() on queues q in the order o, with a running and n counted: the    *)
(* loop starts the first runnable projects it meets until the cap is hit   *)
(* or it has met them all.                                                 *)
(***************************************************************************)
Pump(o, q, a, n) ==
  LET runnable == Runnable(q, a) IN
  \E started \in SUBSET runnable :
    /\ \/ Cardinality(started) = Slots(n)
       \/ Cardinality(started) < Slots(n) /\ started = runnable
    /\ \A p \in started, r \in runnable : Precedes(o, r, p) => r \in started
    /\ queues' = [p \in Projects |-> IF p \in started THEN Tail(q[p]) ELSE q[p]]
    /\ active' = [p \in Projects |-> IF p \in started THEN Head(q[p]) ELSE a[p]]
    /\ runningCount' = n + Cardinality(started)

(* Mutant: unshift for push. *)
EnqueueTaskAtHead(p) ==
  /\ counter < MaxTasks
  /\ counter' = counter + 1
  /\ owner' = Append(owner, p)
  /\ order' = IF \E i \in DOMAIN order : order[i] = p THEN order ELSE Append(order, p)
  /\ Pump(order', [queues EXCEPT ![p] = <<counter'>> \o @], active, runningCount)
  /\ UNCHANGED notified

(* enqueueTask(projectId, label, run) *)
EnqueueTask(p) ==
  /\ counter < MaxTasks
  /\ counter' = counter + 1
  /\ owner' = Append(owner, p)
  /\ order' = IF \E i \in DOMAIN order : order[i] = p THEN order ELSE Append(order, p)
  /\ Pump(order', [queues EXCEPT ![p] = Append(@, counter')], active, runningCount)
  /\ UNCHANGED notified

(* Mutant: the slot is given back, nothing is pumped. *)
SettleWithoutPump(p) ==
  /\ active[p] # NoTask
  /\ notified' = [notified EXCEPT ![active[p]] = @ + 1]
  /\ active' = [active EXCEPT ![p] = NoTask]
  /\ runningCount' = runningCount - 1
  /\ UNCHANGED <<order, queues, counter, owner>>

(***************************************************************************)
(* The `finally` of the task running for p, whatever way it settled: the   *)
(* slot is given back before the listener is told and the pump runs.       *)
(***************************************************************************)
Settle(p) ==
  /\ active[p] # NoTask
  /\ notified' = [notified EXCEPT ![active[p]] = @ + 1]
  /\ Pump(order, queues, [active EXCEPT ![p] = NoTask], runningCount - 1)
  /\ UNCHANGED <<order, counter, owner>>

Next == \E p \in Projects : EnqueueTask(p) \/ Settle(p)

(* A task's promise settles sooner or later: every `run` the server queues *)
(* bounds its work with a timeout.  Nobody is obliged to enqueue.          *)
Fairness == \A p \in Projects : WF_vars(Settle(p))

Spec == Init /\ [][Next]_vars /\ Fairness

-----------------------------------------------------------------------------
Queued(p) == {queues[p][i] : i \in DOMAIN queues[p]}
Running == {p \in Projects : active[p] # NoTask}

(* Mutant: the tasks that wait are not looked at. *)
HasRunningTask(p) == active[p] # NoTask

(* hasActiveTask(projectId) *)
HasActiveTask(p) == active[p] # NoTask \/ Len(queues[p]) > 0

TypeOK ==
  /\ order \in Seq(Projects)
  /\ queues \in [Projects -> Seq(Tasks)]
  /\ active \in [Projects -> Tasks \cup {NoTask}]
  /\ runningCount \in Nat
  /\ counter \in 0 .. MaxTasks
  /\ owner \in Seq(Projects)
  /\ notified \in [Tasks -> Nat]

(* The counter the cap is enforced with counts the tasks that run, and the *)
(* cap is never exceeded (taskQueue.js:49-58, 66-68).                      *)
CapRespected ==
  /\ runningCount = Cardinality(Running)
  /\ runningCount <= MaxConcurrency

(* "Every completion re-pumps, so nothing waits on a timer"                *)
(* (taskQueue.js:49-50): a task waits only while its project is busy or    *)
(* every slot is taken.                                                    *)
WorkConserving ==
  \A p \in Projects :
    queues[p] # <<>> => active[p] # NoTask \/ runningCount = MaxConcurrency

(* hasActiveTask(p), which the callers use to say "running now" or         *)
(* "queued", holds exactly while a task enqueued for p is unfinished: no   *)
(* task is lost, none changes project, none is settled twice.              *)
HasActiveTaskTruthful ==
  \A p \in Projects :
    HasActiveTask(p) <=> \E t \in 1 .. counter : owner[t] = p /\ notified[t] = 0

(* The queue implements the pool of WorkPool: a task is a job that waits,  *)
(* runs while `active` names it and is done once the listener was told.    *)
(* However the map's order and the pump distribute the slots, every step   *)
(* starts what a step of the pool may start, no less and no more           *)
(* (taskQueue.js:40-75).                                                   *)
JobState(t) ==
  IF notified[t] > 0 THEN "done"
  ELSE IF active[owner[t]] = t THEN "running" ELSE "waiting"

Pool == INSTANCE WorkPool WITH
  Owners <- Projects, Cap <- MaxConcurrency, MaxJobs <- MaxTasks,
  jobs <- [t \in 1 .. counter |-> [owner |-> owner[t], state |-> JobState(t)]]

ImplementsWorkPool == Pool!Spec

(* Every enqueued task is eventually settled and reported, once: the pump  *)
(* never forgets one, at the cap or behind a busy project.                 *)
EveryTaskSettles ==
  \A t \in Tasks : (t <= counter) ~> (notified[t] = 1)
=============================================================================
