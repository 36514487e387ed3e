-------------------------- MODULE ExclusionProofs ---------------------------
(***************************************************************************)
(* Proofs about what runs alone: the task of a project (TaskQueue) and the *)
(* console of a machine (BootClaim).                                       *)
(*                                                                         *)
(* TaskQueue is proved about for any finite set of projects, any cap and   *)
(* any number of tasks.  Types, the concurrency cap and work conservation  *)
(* form one inductive invariant: the count only stays a natural number     *)
(* because it counts the running tasks, and the pump only fills the last   *)
(* slot because the count is right.  That TaskQueue implements WorkPool    *)
(* comes next, and the claim file last.                                    *)
(***************************************************************************)
EXTENDS TaskQueue, BootClaim, FiniteSetTheorems, FunctionTheorems, SequenceTheorems,
        TLAPS

QueueInv == TypeOK /\ CapRespected /\ WorkConserving

(* The projects that a function a of running tasks keeps busy. *)
Busy(a) == {p \in Projects : a[p] # NoTask}

QueuesType == [Projects -> Seq(Tasks)]
ActiveType == [Projects -> Tasks \cup {NoTask}]

(***************************************************************************)
(* One pump, started with n counting the busy projects and n at or below   *)
(* the cap: it keeps the types, the count stays right and within the cap,  *)
(* and no runnable project is left behind with a slot free.                *)
(***************************************************************************)
LEMMA PumpCorrect ==
  ASSUME NEW o, NEW q \in QueuesType, NEW a \in ActiveType, NEW n \in Nat,
         n = Cardinality(Busy(a)), n <= MaxConcurrency,
         Pump(o, q, a, n)
  PROVE  /\ queues' \in QueuesType
         /\ active' \in ActiveType
         /\ runningCount' \in Nat
         /\ CapRespected'
         /\ WorkConserving'
<1>1. PICK started \in SUBSET Runnable(q, a) :
        /\ \/ Cardinality(started) = Slots(n)
           \/ Cardinality(started) < Slots(n) /\ started = Runnable(q, a)
        /\ queues' = [p \in Projects |-> IF p \in started THEN Tail(q[p]) ELSE q[p]]
        /\ active' = [p \in Projects |-> IF p \in started THEN Head(q[p]) ELSE a[p]]
        /\ runningCount' = n + Cardinality(started)
  BY DEF Pump
<1>2. \A p \in started : /\ p \in Projects
                         /\ a[p] = NoTask
                         /\ q[p] # <<>>
                         /\ q[p] \in Seq(Tasks)
  BY DEF Runnable, QueuesType
<1>3. \A p \in started : Tail(q[p]) \in Seq(Tasks) /\ Head(q[p]) \in Tasks
  BY <1>2
<1>4. IsFiniteSet(started) /\ IsFiniteSet(Busy(a))
  BY FS_Subset, ProjectsAssumption DEF Runnable, Busy
<1>5. Cardinality(started) \in Nat
  BY <1>4, FS_CardinalityType
<1>6. queues' \in QueuesType /\ active' \in ActiveType
  BY <1>1, <1>3 DEF QueuesType, ActiveType
<1>7. NoTask \notin Tasks
  BY MaxTasksAssumption DEF NoTask, Tasks
<1>8. Running' = Busy(a) \cup started
  BY <1>1, <1>2, <1>3, <1>7 DEF Running, Busy
<1>9. Busy(a) \cap started = {}
  BY <1>2 DEF Busy
<1>10. Cardinality(Running') = n + Cardinality(started)
  <2>1. Cardinality(Busy(a) \cup started)
          = Cardinality(Busy(a)) + Cardinality(started) - Cardinality(Busy(a) \cap started)
    BY <1>4, FS_Union
  <2>2. Cardinality(Busy(a) \cap started) = 0
    BY <1>9, FS_EmptySet
  <2> QED
    BY <2>1, <2>2, <1>5, <1>8
<1>11. Slots(n) = MaxConcurrency - n
  BY MaxConcurrencyAssumption DEF Slots
<1>12. runningCount' \in Nat /\ runningCount' <= MaxConcurrency
  BY <1>1, <1>5, <1>11, MaxConcurrencyAssumption
<1>13. CapRespected'
  BY <1>1, <1>10, <1>12 DEF CapRespected
<1>14. WorkConserving'
  <2>1. CASE Cardinality(started) = Slots(n)
    BY <2>1, <1>1, <1>11, MaxConcurrencyAssumption DEF WorkConserving
  <2>2. CASE started = Runnable(q, a)
    <3>1. ASSUME NEW p \in Projects, p \in started PROVE active'[p] # NoTask
      BY <3>1, <1>1, <1>3, <1>7
    <3>2. ASSUME NEW p \in Projects, p \notin started, queues'[p] # <<>>
          PROVE active'[p] # NoTask
      <4>1. queues'[p] = q[p] /\ active'[p] = a[p]
        BY <3>2, <1>1
      <4> QED
        BY <4>1, <3>2, <2>2 DEF Runnable
    <3> QED
      BY <3>1, <3>2 DEF WorkConserving
  <2> QED
    BY <2>1, <2>2, <1>1
<1> QED
  BY <1>6, <1>12, <1>13, <1>14

LEMMA EnqueueTaskStep ==
  ASSUME QueueInv, NEW p \in Projects, EnqueueTask(p)
  PROVE  QueueInv'
<1> USE DEF QueueInv, TypeOK
<1>1. counter' \in Tasks /\ counter' \in 0 .. MaxTasks
  BY MaxTasksAssumption DEF EnqueueTask, Tasks
<1>2. order' \in Seq(Projects) /\ owner' \in Seq(Projects) /\ notified' = notified
  <2>1. Append(order, p) \in Seq(Projects) /\ Append(owner, p) \in Seq(Projects)
    OBVIOUS
  <2> QED
    BY <2>1 DEF EnqueueTask
<1>3. [queues EXCEPT ![p] = Append(@, counter')] \in QueuesType
  <2>1. Append(queues[p], counter') \in Seq(Tasks)
    BY <1>1
  <2> QED
    BY <2>1 DEF QueuesType
<1>4. active \in ActiveType /\ runningCount = Cardinality(Busy(active))
  BY DEF ActiveType, CapRespected, Running, Busy
<1>5. /\ queues' \in QueuesType /\ active' \in ActiveType /\ runningCount' \in Nat
      /\ CapRespected' /\ WorkConserving'
  BY <1>3, <1>4, PumpCorrect DEF EnqueueTask, CapRespected
<1> QED
  BY <1>1, <1>2, <1>5 DEF QueuesType, ActiveType

LEMMA SettleStep ==
  ASSUME QueueInv, NEW p \in Projects, Settle(p)
  PROVE  QueueInv'
<1> USE DEF QueueInv, TypeOK
<1> DEFINE a == [active EXCEPT ![p] = NoTask]
<1>1. a \in ActiveType /\ queues \in QueuesType
  BY DEF ActiveType, QueuesType
<1>2. runningCount - 1 \in Nat /\ runningCount - 1 = Cardinality(Busy(a))
  <2>1. Busy(a) = Running \ {p} /\ p \in Running
    BY DEF Busy, Running, Settle
  <2>2. IsFiniteSet(Running)
    BY FS_Subset, ProjectsAssumption DEF Running
  <2>3. Cardinality(Running \ {p}) = Cardinality(Running) - 1
    BY <2>1, <2>2, FS_RemoveElement
  <2>4. Cardinality(Running \ {p}) \in Nat
    BY <2>2, FS_RemoveElement, FS_CardinalityType
  <2> QED
    BY <2>1, <2>3, <2>4 DEF CapRespected
<1>3. /\ queues' \in QueuesType /\ active' \in ActiveType /\ runningCount' \in Nat
      /\ CapRespected' /\ WorkConserving'
  <2>1. Pump(order, queues, a, runningCount - 1)
    BY DEF Settle
  <2>2. runningCount - 1 <= MaxConcurrency
    BY <1>2, MaxConcurrencyAssumption DEF CapRespected
  <2> HIDE DEF a
  <2> QED
    BY <1>1, <1>2, <2>1, <2>2, PumpCorrect
<1>4. notified' \in [Tasks -> Nat]
  <2>1. active[p] \in Tasks
    BY DEF Settle
  <2>2. notified[active[p]] + 1 \in Nat
    BY <2>1
  <2> QED
    BY <2>1, <2>2 DEF Settle
<1> QED
  BY <1>3, <1>4 DEF Settle, QueuesType, ActiveType

THEOREM QueueInvariant == Spec => []QueueInv
<1>1. Init => QueueInv
  <2> SUFFICES ASSUME Init PROVE QueueInv
    OBVIOUS
  <2>1. TypeOK
    BY MaxTasksAssumption DEF Init, TypeOK, Tasks
  <2>2. Running = {}
    BY DEF Init, Running
  <2>3. CapRespected
    BY <2>2, FS_EmptySet, MaxConcurrencyAssumption DEF CapRespected, Init
  <2>4. WorkConserving
    BY DEF WorkConserving, Init
  <2> QED
    BY <2>1, <2>3, <2>4 DEF QueueInv
<1>2. QueueInv /\ [Next]_vars => QueueInv'
  <2> SUFFICES ASSUME QueueInv, [Next]_vars PROVE QueueInv'
    OBVIOUS
  <2>1. CASE Next
    BY <2>1, EnqueueTaskStep, SettleStep DEF Next
  <2>2. CASE UNCHANGED vars
    BY <2>2 DEF QueueInv, TypeOK, CapRespected, WorkConserving, Running, vars
  <2> QED
    BY <2>1, <2>2
<1> QED
  BY <1>1, <1>2, PTL DEF Spec

(* The types of every state of the queue. *)
THEOREM TypeCorrect == Spec => []TypeOK
  BY QueueInvariant, PTL DEF QueueInv

(* At most MaxConcurrency tasks run at any time, and runningCount is       *)
(* exactly the number of them (taskQueue.js:49-68).                        *)
THEOREM CapIsRespected == Spec => []CapRespected
  BY QueueInvariant, PTL DEF QueueInv

(* No task waits while its project is idle and a slot is free              *)
(* (taskQueue.js:49-50).                                                   *)
THEOREM PumpIsWorkConserving == Spec => []WorkConserving
  BY QueueInvariant, PTL DEF QueueInv

-----------------------------------------------------------------------------
(***************************************************************************)
(* TaskQueue implements WorkPool, for any finite set of projects, any cap  *)
(* and any number of tasks.                                                *)
(*                                                                         *)
(* Filed says how the variables describe the tasks: every unsettled task   *)
(* is in one place, the queue or the slot of its own project, and queues   *)
(* are in the order of the ids.  A step of the queue first files a new     *)
(* task or settles one and then pumps; as the pump never finds more than   *)
(* one task to start (WorkConserving), the step is one of the pool's.      *)
(***************************************************************************)

Typed(c, o, q, a, nt) ==
  /\ c \in 0 .. MaxTasks /\ o \in Seq(Projects) /\ Len(o) = c
  /\ q \in QueuesType /\ a \in ActiveType /\ nt \in [Tasks -> Nat]

Waiting(c, o, q, a, nt) ==
  \A p \in Projects : \A i \in 1 .. Len(q[p]) :
    q[p][i] \in 1 .. c /\ o[q[p][i]] = p /\ nt[q[p][i]] = 0 /\ q[p][i] # a[p]

Sorted(q) ==
  \A p \in Projects : \A i, j \in 1 .. Len(q[p]) : i < j => q[p][i] < q[p][j]

Started(c, o, a, nt) ==
  \A p \in Projects : a[p] # NoTask => a[p] \in 1 .. c /\ o[a[p]] = p /\ nt[a[p]] = 0

Placed(c, o, q, a, nt) ==
  \A t \in 1 .. c :
    nt[t] = 0 => a[o[t]] = t \/ \E i \in 1 .. Len(q[o[t]]) : q[o[t]][i] = t

Fresh(c, nt) == \A t \in Tasks : t > c => nt[t] = 0

Filed(c, o, q, a, nt) ==
  /\ Typed(c, o, q, a, nt) /\ Waiting(c, o, q, a, nt) /\ Sorted(q)
  /\ Started(c, o, a, nt) /\ Placed(c, o, q, a, nt) /\ Fresh(c, nt)

(* The jobs that these variables stand for. *)
View(c, o, a, nt) ==
  [t \in 1 .. c |->
     [owner |-> o[t],
      state |-> IF nt[t] > 0 THEN "done" ELSE IF a[o[t]] = t THEN "running" ELSE "waiting"]]

TaskInv == Filed(counter, owner, queues, active, notified)

(* The jobs of the pool, and what one filling of the pool makes of js. *)
JobsNow == [t \in 1 .. counter |-> [owner |-> owner[t], state |-> JobState(t)]]

FilledAs(js, new) ==
  \/ (\A j \in DOMAIN js : ~Pool!MayBegin(js, j)) /\ new = js
  \/ \E j \in DOMAIN js : Pool!MayBegin(js, j) /\ new = [js EXCEPT ![j].state = "running"]

LEMMA ViewIsMapping == View(counter, owner, active, notified) = JobsNow
BY DEF View, JobState, JobsNow

-----------------------------------------------------------------------------
(* What one pump starts. *)

LEMMA PumpNothing ==
  ASSUME NEW o, NEW q \in QueuesType, NEW a \in ActiveType, NEW n \in Nat,
         n <= MaxConcurrency, n = MaxConcurrency \/ Runnable(q, a) = {},
         Pump(o, q, a, n)
  PROVE  queues' = q /\ active' = a
<1>1. PICK started \in SUBSET Runnable(q, a) :
        /\ Cardinality(started) <= Slots(n)
        /\ queues' = [p \in Projects |-> IF p \in started THEN Tail(q[p]) ELSE q[p]]
        /\ active' = [p \in Projects |-> IF p \in started THEN Head(q[p]) ELSE a[p]]
  <2>1. PICK started \in SUBSET Runnable(q, a) :
          /\ Cardinality(started) = Slots(n) \/ Cardinality(started) < Slots(n)
          /\ queues' = [p \in Projects |-> IF p \in started THEN Tail(q[p]) ELSE q[p]]
          /\ active' = [p \in Projects |-> IF p \in started THEN Head(q[p]) ELSE a[p]]
    BY Zenon DEF Pump
  <2>2. IsFiniteSet(started)
    BY FS_Subset, ProjectsAssumption DEF Runnable
  <2>3. Cardinality(started) \in Nat /\ Slots(n) \in Int
    BY <2>2, FS_CardinalityType, MaxConcurrencyAssumption DEF Slots
  <2> QED
    BY <2>1, <2>3
<1>2. IsFiniteSet(started)
  BY FS_Subset, ProjectsAssumption DEF Runnable
<1>3. started = {}
  <2>1. CASE n = MaxConcurrency
    <3>1. Slots(n) = 0
      BY <2>1, MaxConcurrencyAssumption DEF Slots
    <3>2. Cardinality(started) = 0
      BY <1>1, <1>2, <3>1, FS_CardinalityType
    <3> QED
      BY <1>2, <3>2, FS_EmptySet
  <2>2. CASE Runnable(q, a) = {}
    BY <2>2
  <2> QED
    BY <2>1, <2>2
<1> QED
  BY <1>1, <1>3 DEF QueuesType, ActiveType

(* q2 and a2 are q and a once r's oldest waiting task was started. *)
HeadStarts(q, a, r, q2, a2) ==
  q2 = [q EXCEPT ![r] = Tail(@)] /\ a2 = [a EXCEPT ![r] = Head(q[r])]

(* At most one project is runnable. *)
AloneRunnable(q, a) == \E p : Runnable(q, a) \subseteq {p}

(* With one slot left, or one runnable project at most. *)
LEMMA PumpOne ==
  ASSUME NEW o, NEW q \in QueuesType, NEW a \in ActiveType, NEW n \in Nat,
         n < MaxConcurrency,
         n = MaxConcurrency - 1 \/ AloneRunnable(q, a),
         Runnable(q, a) # {},
         Pump(o, q, a, n)
  PROVE  \E r \in Runnable(q, a) : HeadStarts(q, a, r, queues', active')
<1>1. PICK started \in SUBSET Runnable(q, a) :
        /\ \/ Cardinality(started) = Slots(n)
           \/ Cardinality(started) < Slots(n) /\ started = Runnable(q, a)
        /\ queues' = [p \in Projects |-> IF p \in started THEN Tail(q[p]) ELSE q[p]]
        /\ active' = [p \in Projects |-> IF p \in started THEN Head(q[p]) ELSE a[p]]
  BY Zenon DEF Pump
<1>2. IsFiniteSet(started) /\ Cardinality(started) \in Nat
  BY FS_Subset, FS_CardinalityType, ProjectsAssumption DEF Runnable
<1>3. Slots(n) = MaxConcurrency - n /\ Slots(n) >= 1
  BY MaxConcurrencyAssumption DEF Slots
<1>4. started # {}
  <2>1. CASE Cardinality(started) = Slots(n)
    BY <2>1, <1>2, <1>3, FS_EmptySet
  <2>2. CASE started = Runnable(q, a)
    BY <2>2
  <2> QED
    BY <2>1, <2>2, <1>1
<1>5. \E r \in Runnable(q, a) : started = {r}
  <2>1. CASE AloneRunnable(q, a)
    BY <2>1, <1>4 DEF AloneRunnable
  <2>2. CASE n = MaxConcurrency - 1
    <3>1. Cardinality(started) <= 1
      BY <2>2, <1>1, <1>2, <1>3, MaxConcurrencyAssumption
    <3>2. Cardinality(started) # 0
      BY <1>2, <1>4, FS_EmptySet
    <3>3. Cardinality(started) = 1
      BY <1>2, <3>1, <3>2
    <3>4. \E r : started = {r}
      BY <1>2, <3>3, FS_Singleton
    <3> QED
      BY <3>4
  <2> QED
    BY <2>1, <2>2
<1>6. PICK r \in Runnable(q, a) : started = {r}
  BY <1>5
<1>7. r \in Projects
  BY DEF Runnable
<1>8. HeadStarts(q, a, r, queues', active')
  BY <1>1, <1>6, <1>7 DEF QueuesType, ActiveType, HeadStarts
<1> QED
  BY <1>8

-----------------------------------------------------------------------------
(* Starting the head of an idle project's queue. *)

LEMMA HeadIsFiled ==
  ASSUME NEW c, NEW o, NEW q, NEW a, NEW nt, Filed(c, o, q, a, nt),
         NEW r \in Runnable(q, a)
  PROVE  /\ r \in Projects /\ q[r] \in Seq(Tasks) /\ Len(q[r]) > 0 /\ a[r] = NoTask
         /\ Head(q[r]) = q[r][1] /\ q[r][1] \in 1 .. c
         /\ o[q[r][1]] = r /\ nt[q[r][1]] = 0
         /\ q[r][1] \in Tasks /\ c \in Nat
         /\ Tail(q[r]) \in Seq(Tasks)
         /\ Len(Tail(q[r])) = Len(q[r]) - 1
         /\ \A i \in 1 .. Len(Tail(q[r])) :
              Tail(q[r])[i] = q[r][i + 1] /\ i + 1 \in 1 .. Len(q[r])
<1>1. r \in Projects /\ q[r] \in Seq(Tasks) /\ q[r] # <<>> /\ a[r] = NoTask
  BY DEF Runnable, Filed, Typed, Waiting, Sorted, Started, Placed, Fresh, QueuesType
<1>2. Len(q[r]) > 0 /\ 1 \in 1 .. Len(q[r]) /\ Len(q[r]) \in Nat
  BY <1>1
<1>3. q[r][1] \in 1 .. c /\ o[q[r][1]] = r /\ nt[q[r][1]] = 0 /\ c \in 0 .. MaxTasks
  BY <1>1, <1>2 DEF Filed, Typed, Waiting, Sorted, Started, Placed, Fresh
<1>4. q[r][1] \in Tasks /\ c \in Nat
  BY <1>3, MaxTasksAssumption DEF Tasks
<1>5. /\ Head(q[r]) = q[r][1] /\ Tail(q[r]) \in Seq(Tasks)
      /\ Len(Tail(q[r])) = Len(q[r]) - 1
      /\ \A i \in 1 .. Len(Tail(q[r])) : Tail(q[r])[i] = q[r][i + 1]
  BY <1>1
<1>6. \A i \in 1 .. Len(Tail(q[r])) : i + 1 \in 1 .. Len(q[r])
  BY <1>2, <1>5
<1> QED
  BY <1>1, <1>2, <1>3, <1>4, <1>5, <1>6

LEMMA StartOne ==
  ASSUME NEW c, NEW o, NEW q, NEW a, NEW nt, Filed(c, o, q, a, nt),
         NEW r \in Runnable(q, a), NEW q2, NEW a2,
         HeadStarts(q, a, r, q2, a2)
  PROVE  /\ Filed(c, o, q2, a2, nt)
         /\ View(c, o, a2, nt) = [View(c, o, a, nt) EXCEPT ![Head(q[r])].state = "running"]
<1> DEFINE h == q[r][1]
<1>0. /\ r \in Projects /\ q[r] \in Seq(Tasks) /\ Len(q[r]) > 0 /\ a[r] = NoTask
      /\ Head(q[r]) = h /\ h \in 1 .. c /\ o[h] = r /\ nt[h] = 0
      /\ h \in Tasks /\ c \in Nat
      /\ Tail(q[r]) \in Seq(Tasks) /\ Len(Tail(q[r])) = Len(q[r]) - 1
      /\ \A i \in 1 .. Len(Tail(q[r])) :
           Tail(q[r])[i] = q[r][i + 1] /\ i + 1 \in 1 .. Len(q[r])
  BY HeadIsFiled
<1>1. q \in QueuesType /\ a \in ActiveType /\ o \in Seq(Projects) /\ Len(o) = c
  BY DEF Filed, Typed, Waiting, Sorted, Started, Placed, Fresh
<1>2. q2 \in QueuesType /\ a2 \in ActiveType
  BY <1>0, <1>1 DEF QueuesType, ActiveType, HeadStarts
<1>3. /\ \A p \in Projects : p # r => q2[p] = q[p] /\ a2[p] = a[p]
      /\ q2[r] = Tail(q[r]) /\ a2[r] = h
  BY <1>0, <1>1 DEF QueuesType, ActiveType, HeadStarts
<1>4. \A t \in 1 .. c : o[t] \in Projects
  BY <1>1
<1>5. \A p \in Projects : \A i, j \in 1 .. Len(q[p]) : i < j => q[p][i] < q[p][j]
  BY DEF Filed, Typed, Waiting, Sorted, Started, Placed, Fresh
<1>6. ASSUME NEW p \in Projects, NEW i \in 1 .. Len(q2[p])
      PROVE  q2[p][i] \in 1 .. c /\ o[q2[p][i]] = p /\ nt[q2[p][i]] = 0 /\ q2[p][i] # a2[p]
  <2>1. CASE p # r
    BY <2>1, <1>3, <1>6 DEF Filed, Typed, Waiting, Sorted, Started, Placed, Fresh
  <2>2. CASE p = r
    <3>1. q2[p][i] = q[r][i + 1] /\ i + 1 \in 1 .. Len(q[r])
      BY <2>2, <1>0, <1>3, <1>6
    <3>2. q[r][i + 1] \in 1 .. c /\ o[q[r][i + 1]] = r /\ nt[q[r][i + 1]] = 0
      BY <3>1, <1>0 DEF Filed, Typed, Waiting, Sorted, Started, Placed, Fresh
    <3>3. 1 \in 1 .. Len(q[r]) /\ 1 < i + 1
      BY <3>1, <1>0, <1>6
    <3>4. q[r][1] < q[r][i + 1]
      BY <3>1, <3>3, <1>0, <1>5
    <3>5. q[r][i + 1] # h
      BY <3>2, <3>4, <1>0
    <3> QED
      BY <2>2, <3>1, <3>2, <3>5, <1>3
  <2> QED
    BY <2>1, <2>2
<1>7. ASSUME NEW p \in Projects, NEW i \in 1 .. Len(q2[p]), NEW j \in 1 .. Len(q2[p]), i < j
      PROVE  q2[p][i] < q2[p][j]
  <2>1. CASE p # r
    BY <2>1, <1>3, <1>5, <1>7
  <2>2. CASE p = r
    <3>1. /\ q2[p][i] = q[r][i + 1] /\ i + 1 \in 1 .. Len(q[r])
          /\ q2[p][j] = q[r][j + 1] /\ j + 1 \in 1 .. Len(q[r])
      BY <2>2, <1>0, <1>3
    <3>2. i + 1 < j + 1
      BY <1>7
    <3> QED
      BY <3>1, <3>2, <1>0, <1>5
  <2> QED
    BY <2>1, <2>2
<1>8. \A p \in Projects : a2[p] # NoTask => a2[p] \in 1 .. c /\ o[a2[p]] = p /\ nt[a2[p]] = 0
  BY <1>0, <1>3 DEF Filed, Typed, Waiting, Sorted, Started, Placed, Fresh
<1>9. ASSUME NEW t \in 1 .. c, nt[t] = 0
      PROVE  a2[o[t]] = t \/ \E i \in 1 .. Len(q2[o[t]]) : q2[o[t]][i] = t
  <2>1. a[o[t]] = t \/ \E i \in 1 .. Len(q[o[t]]) : q[o[t]][i] = t
    BY <1>9 DEF Filed, Typed, Waiting, Sorted, Started, Placed, Fresh
  <2>2. CASE o[t] # r
    BY <2>1, <2>2, <1>3, <1>4
  <2>3. CASE o[t] = r
    <3>1. t # NoTask
      BY <1>0 DEF NoTask
    <3>2. PICK i \in 1 .. Len(q[r]) : q[r][i] = t
      BY <2>1, <2>3, <3>1, <1>0
    <3>3. CASE i = 1
      BY <3>2, <3>3, <2>3, <1>3
    <3>4. CASE i # 1
      <4>1. i - 1 \in 1 .. Len(Tail(q[r])) /\ (i - 1) + 1 = i
        BY <3>4, <1>0
      <4>2. q2[r][i - 1] = t
        BY <4>1, <3>2, <1>0, <1>3
      <4> QED
        BY <4>1, <4>2, <2>3, <1>3
    <3> QED
      BY <3>3, <3>4
  <2> QED
    BY <2>2, <2>3
<1>10. Filed(c, o, q2, a2, nt)
  <2>1. Typed(c, o, q2, a2, nt) /\ Fresh(c, nt)
    BY <1>1, <1>2 DEF Filed, Typed, Fresh
  <2>2. Waiting(c, o, q2, a2, nt)
    BY <1>6 DEF Waiting
  <2>3. Sorted(q2)
    BY <1>7 DEF Sorted
  <2>4. Started(c, o, a2, nt)
    BY <1>8 DEF Started
  <2>5. Placed(c, o, q2, a2, nt)
    BY <1>9 DEF Placed
  <2> QED
    BY <2>1, <2>2, <2>3, <2>4, <2>5 DEF Filed
<1>11. View(c, o, a2, nt) = [View(c, o, a, nt) EXCEPT ![h].state = "running"]
  <2>1. \A t \in 1 .. c : t # h => (a2[o[t]] = t <=> a[o[t]] = t)
    <3> SUFFICES ASSUME NEW t \in 1 .. c, t # h PROVE a2[o[t]] = t <=> a[o[t]] = t
      OBVIOUS
    <3>1. CASE o[t] # r
      BY <3>1, <1>3, <1>4
    <3>2. CASE o[t] = r
      BY <3>2, <1>0, <1>3 DEF NoTask
    <3> QED
      BY <3>1, <3>2
  <2>2. a2[o[h]] = h /\ ~(nt[h] > 0)
    BY <1>0, <1>3
  <2> QED
    BY <2>1, <2>2, <1>0 DEF View
<1> QED
  BY <1>0, <1>10, <1>11
-----------------------------------------------------------------------------
(* Which jobs of the pool may begin. *)

(* As many jobs run as projects are busy. *)
LEMMA RunningJobs ==
  ASSUME NEW c, NEW o, NEW q, NEW a, NEW nt, Filed(c, o, q, a, nt)
  PROVE  Cardinality(Pool!Jobs(View(c, o, a, nt), "running")) = Cardinality(Busy(a))
<1> DEFINE V == View(c, o, a, nt)
           R == Pool!Jobs(V, "running")
           f == [p \in Busy(a) |-> a[p]]
<1>1. \A t \in 1 .. c : o[t] \in Projects
  BY DEF Filed, Typed, Waiting, Sorted, Started, Placed, Fresh
<1>2. \A p \in Projects : a[p] # NoTask => a[p] \in 1 .. c /\ o[a[p]] = p /\ nt[a[p]] = 0
  BY DEF Filed, Typed, Waiting, Sorted, Started, Placed, Fresh
<1>3. \A t \in 1 .. c : nt[t] \in Nat /\ t # NoTask
  <2>1. c \in 0 .. MaxTasks /\ nt \in [Tasks -> Nat]
    BY DEF Filed, Typed, Waiting, Sorted, Started, Placed, Fresh
  <2> QED
    BY <2>1, MaxTasksAssumption DEF Tasks, NoTask
<1>4. R = {t \in 1 .. c : nt[t] = 0 /\ a[o[t]] = t}
  <2>1. DOMAIN V = 1 .. c
    BY DEF View
  <2>2. \A t \in 1 .. c : V[t].state = "running" <=> nt[t] = 0 /\ a[o[t]] = t
    BY <1>3 DEF View
  <2> HIDE DEF V
  <2> QED
    BY <2>1, <2>2 DEF Pool!Jobs
<1>5. f \in [Busy(a) -> R]
  BY <1>2, <1>4 DEF Busy
<1>6. \A p, r \in Busy(a) : f[p] = f[r] => p = r
  BY <1>2 DEF Busy
<1>7. \A t \in R : \E p \in Busy(a) : f[p] = t
  <2> SUFFICES ASSUME NEW t \in R PROVE \E p \in Busy(a) : f[p] = t
    OBVIOUS
  <2>1. o[t] \in Busy(a) /\ a[o[t]] = t
    BY <1>1, <1>3, <1>4 DEF Busy
  <2> QED
    BY <2>1
<1>8. f \in Bijection(Busy(a), R)
  <2> HIDE DEF f, R
  <2> QED
    BY <1>5, <1>6, <1>7 DEF Bijection, Injection, Surjection, IsInjective
<1>9. ExistsBijection(Busy(a), R)
  BY <1>8 DEF ExistsBijection
<1>10. IsFiniteSet(Busy(a))
  BY FS_Subset, ProjectsAssumption DEF Busy
<1> QED
  BY <1>9, <1>10, FS_Bijection

(* With a place left, the heads of the runnable projects' queues and no    *)
(* other job may begin.                                                    *)
LEMMA WhoMayBegin ==
  ASSUME NEW c, NEW o, NEW q, NEW a, NEW nt, Filed(c, o, q, a, nt),
         NEW j \in 1 .. c
  PROVE  Pool!MayBegin(View(c, o, a, nt), j)
           <=> Cardinality(Busy(a)) < MaxConcurrency
               /\ o[j] \in Runnable(q, a) /\ Head(q[o[j]]) = j
<1> DEFINE V == View(c, o, a, nt)
<1>1. \A t \in 1 .. c : o[t] \in Projects
  BY DEF Filed, Typed, Waiting, Sorted, Started, Placed, Fresh
<1>2. \A p \in Projects : a[p] # NoTask => a[p] \in 1 .. c /\ o[a[p]] = p /\ nt[a[p]] = 0
  BY DEF Filed, Typed, Waiting, Sorted, Started, Placed, Fresh
<1>3. /\ \A t \in 1 .. c : nt[t] \in Nat /\ t # NoTask /\ t \in Nat
      /\ \A p \in Projects : q[p] \in Seq(Tasks)
  <2>1. c \in 0 .. MaxTasks /\ nt \in [Tasks -> Nat] /\ q \in QueuesType
    BY DEF Filed, Typed, Waiting, Sorted, Started, Placed, Fresh
  <2> QED
    BY <2>1, MaxTasksAssumption DEF Tasks, NoTask, QueuesType
<1>4. /\ DOMAIN V = 1 .. c
      /\ \A t \in 1 .. c :
           /\ V[t].owner = o[t]
           /\ V[t].state = "running" <=> nt[t] = 0 /\ a[o[t]] = t
           /\ V[t].state = "waiting" <=> nt[t] = 0 /\ a[o[t]] # t
  BY <1>3 DEF View
<1>5. Pool!Room(V) <=> Cardinality(Busy(a)) < MaxConcurrency
  <2>1. Cardinality(Pool!Jobs(V, "running")) = Cardinality(Busy(a))
    BY RunningJobs
  <2> HIDE DEF V
  <2> QED
    BY <2>1 DEF Pool!Room, Pool!Cardinality, Cardinality, Pool!IsFiniteSet, IsFiniteSet
<1>6. Pool!Idle(V, o[j]) <=> a[o[j]] = NoTask
  <2> HIDE DEF V
  <2>1. Pool!Jobs(V, "running") = {t \in 1 .. c : nt[t] = 0 /\ a[o[t]] = t}
    BY <1>4 DEF Pool!Jobs
  <2>2. Pool!Idle(V, o[j]) <=> ~ \E t \in 1 .. c : nt[t] = 0 /\ a[o[t]] = t /\ o[t] = o[j]
    BY <1>4, <2>1 DEF Pool!Idle
  <2> QED
    BY <2>2, <1>1, <1>2, <1>3
<1>7. Pool!Jobs(V, "waiting") = {t \in 1 .. c : nt[t] = 0 /\ a[o[t]] # t}
  <2> HIDE DEF V
  <2> QED
    BY <1>4 DEF Pool!Jobs
<1>8. \A t \in 1 .. c :
        nt[t] = 0 /\ a[o[t]] # t <=> \E i \in 1 .. Len(q[o[t]]) : q[o[t]][i] = t
  <2> SUFFICES ASSUME NEW t \in 1 .. c
               PROVE  nt[t] = 0 /\ a[o[t]] # t <=> \E i \in 1 .. Len(q[o[t]]) : q[o[t]][i] = t
    OBVIOUS
  <2>1. nt[t] = 0 => a[o[t]] = t \/ \E i \in 1 .. Len(q[o[t]]) : q[o[t]][i] = t
    BY DEF Filed, Typed, Waiting, Sorted, Started, Placed, Fresh
  <2>2. \A i \in 1 .. Len(q[o[t]]) : nt[q[o[t]][i]] = 0 /\ q[o[t]][i] # a[o[t]]
    BY <1>1 DEF Filed, Typed, Waiting, Sorted, Started, Placed, Fresh
  <2> QED
    BY <2>1, <2>2
<1>9. \A p \in Projects : \A i \in 1 .. Len(q[p]) : q[p][i] \in 1 .. c /\ o[q[p][i]] = p
  BY DEF Filed, Typed, Waiting, Sorted, Started, Placed, Fresh
<1>10. \A p \in Projects : \A i, k \in 1 .. Len(q[p]) : i < k => q[p][i] < q[p][k]
  BY DEF Filed, Typed, Waiting, Sorted, Started, Placed, Fresh
<1>11. ASSUME Pool!MayBegin(V, j)
       PROVE  /\ Cardinality(Busy(a)) < MaxConcurrency
              /\ o[j] \in Runnable(q, a) /\ Head(q[o[j]]) = j
  <2> DEFINE p == o[j]
  <2>1. /\ Pool!Room(V) /\ j \in Pool!Jobs(V, "waiting") /\ Pool!Idle(V, p)
        /\ \A i \in Pool!Jobs(V, "waiting") : V[i].owner = p => j <= i
    <3> HIDE DEF V
    <3> QED
      BY <1>11, <1>4 DEF Pool!MayBegin
  <2>2. PICK i \in 1 .. Len(q[p]) : q[p][i] = j
    BY <2>1, <1>7, <1>8
  <2>3. q[p] \in Seq(Tasks) /\ Len(q[p]) \in Nat /\ 1 \in 1 .. Len(q[p]) /\ p \in Projects
    BY <1>1, <1>3, <2>2
  <2>4. q[p][1] \in Pool!Jobs(V, "waiting") /\ V[q[p][1]].owner = p
    <3>1. q[p][1] \in 1 .. c /\ o[q[p][1]] = p
      BY <2>3, <1>9
    <3>2. nt[q[p][1]] = 0 /\ a[p] # q[p][1]
      BY <3>1, <2>3, <1>8
    <3> QED
      BY <3>1, <3>2, <1>4, <1>7
  <2>5. j <= q[p][1]
    BY <2>1, <2>4
  <2>6. i = 1
    <3>1. SUFFICES ASSUME i # 1 PROVE FALSE
      OBVIOUS
    <3>2. 1 < i
      BY <3>1, <2>3
    <3>3. q[p][1] < q[p][i] /\ q[p][1] \in Nat /\ j \in Nat
      BY <3>2, <2>3, <1>3, <1>9, <1>10
    <3> QED
      BY <3>3, <2>2, <2>5
  <2>7. Head(q[p]) = j /\ q[p] # <<>>
    BY <2>2, <2>3, <2>6
  <2> QED
    BY <2>1, <2>3, <2>7, <1>5, <1>6 DEF Runnable
<1>12. ASSUME Cardinality(Busy(a)) < MaxConcurrency,
              o[j] \in Runnable(q, a), Head(q[o[j]]) = j
       PROVE  Pool!MayBegin(V, j)
  <2> DEFINE p == o[j]
  <2>1. /\ p \in Projects /\ a[p] = NoTask /\ q[p] \in Seq(Tasks) /\ Len(q[p]) \in Nat
        /\ 1 \in 1 .. Len(q[p]) /\ q[p][1] = j
    BY <1>3, <1>12 DEF Runnable
  <2>2. j \in Pool!Jobs(V, "waiting")
    BY <2>1, <1>7, <1>8
  <2>3. ASSUME NEW i \in Pool!Jobs(V, "waiting"), V[i].owner = p PROVE j <= i
    <3>1. i \in 1 .. c /\ o[i] = p /\ nt[i] = 0 /\ a[o[i]] # i
      BY <2>3, <1>4, <1>7
    <3>2. PICK k \in 1 .. Len(q[p]) : q[p][k] = i
      BY <3>1, <1>8
    <3>3. k = 1 \/ q[p][1] < q[p][k]
      BY <2>1, <1>10
    <3> QED
      BY <3>1, <3>2, <3>3, <2>1, <1>3
  <2>4. Pool!Room(V) /\ Pool!Idle(V, p)
    BY <2>1, <1>5, <1>6, <1>12
  <2> HIDE DEF V
  <2> QED
    BY <2>2, <2>3, <2>4, <1>4 DEF Pool!MayBegin
<1> QED
  BY <1>11, <1>12
-----------------------------------------------------------------------------
(* The steps. *)

(* A pump that meets one project to start at most, or has one slot, ends   *)
(* as the pool's filling of its place does.                                *)
LEMMA PumpFills ==
  ASSUME NEW c, NEW o, NEW q, NEW a, NEW nt, Filed(c, o, q, a, nt),
         NEW n \in Nat, n = Cardinality(Busy(a)), n <= MaxConcurrency,
         n >= MaxConcurrency - 1 \/ AloneRunnable(q, a),
         NEW ord, Pump(ord, q, a, n),
         counter' = c, owner' = o, notified' = nt
  PROVE  TaskInv' /\ FilledAs(View(c, o, a, nt), JobsNow')
<1> DEFINE V == View(c, o, a, nt)
<1>1. q \in QueuesType /\ a \in ActiveType
  BY DEF Filed, Typed
<1>2. JobsNow' = View(c, o, active', nt)
  BY DEF View, JobState, JobsNow
<1>3. DOMAIN V = 1 .. c
  BY DEF View
<1>4. \A j \in 1 .. c : Pool!MayBegin(V, j)
        <=> n < MaxConcurrency /\ o[j] \in Runnable(q, a) /\ Head(q[o[j]]) = j
  BY WhoMayBegin
<1>5. CASE n = MaxConcurrency \/ Runnable(q, a) = {}
  <2>1. queues' = q /\ active' = a
    BY <1>1, <1>5, PumpNothing
  <2>2. TaskInv'
    BY <2>1 DEF TaskInv
  <2>3. \A j \in 1 .. c : ~Pool!MayBegin(V, j)
    BY <1>4, <1>5
  <2>4. FilledAs(V, JobsNow')
    <3>1. JobsNow' = V
      BY <1>2, <2>1
    <3> HIDE DEF V
    <3> QED
      BY <1>3, <2>3, <3>1 DEF FilledAs
  <2> QED
    BY <2>2, <2>4
<1>6. CASE n < MaxConcurrency /\ Runnable(q, a) # {}
  <2>1. n = MaxConcurrency - 1 \/ AloneRunnable(q, a)
    BY <1>6, MaxConcurrencyAssumption
  <2>2. PICK r \in Runnable(q, a) : HeadStarts(q, a, r, queues', active')
    BY <1>1, <1>6, <2>1, PumpOne
  <2>3. /\ Filed(c, o, queues', active', nt)
        /\ View(c, o, active', nt) = [View(c, o, a, nt) EXCEPT ![Head(q[r])].state = "running"]
    <3> HIDE DEF V
    <3> QED
      BY <2>2, StartOne
  <2>4. Head(q[r]) \in 1 .. c /\ o[Head(q[r])] = r
    BY HeadIsFiled
  <2>5. Pool!MayBegin(V, Head(q[r]))
    BY <1>4, <1>6, <2>4
  <2>6. TaskInv'
    BY <2>3 DEF TaskInv
  <2>7. FilledAs(V, JobsNow')
    <3>1. JobsNow' = [V EXCEPT ![Head(q[r])].state = "running"]
      BY <1>2, <2>3
    <3> HIDE DEF V
    <3> QED
      BY <1>3, <2>4, <2>5, <3>1 DEF FilledAs
  <2> QED
    BY <2>6, <2>7
<1> QED
  BY <1>5, <1>6, MaxConcurrencyAssumption

(* A new task at the end of its project's queue. *)
LEMMA NewTaskIsFiled ==
  ASSUME QueueInv, TaskInv, NEW p \in Projects, counter < MaxTasks
  PROVE  LET c == counter + 1
             o == Append(owner, p)
         IN  /\ Filed(c, o, [queues EXCEPT ![p] = Append(@, c)], active, notified)
             /\ View(c, o, active, notified)
                  = Append(View(counter, owner, active, notified),
                           [owner |-> p, state |-> "waiting"])
<1> DEFINE c == counter + 1
           o == Append(owner, p)
           q == [queues EXCEPT ![p] = Append(@, c)]
<1>1. /\ counter \in 0 .. MaxTasks /\ owner \in Seq(Projects) /\ Len(owner) = counter
      /\ queues \in QueuesType /\ active \in ActiveType /\ notified \in [Tasks -> Nat]
  BY DEF TaskInv, Filed, Typed
<1>2. /\ c = counter + 1 /\ c \in Tasks /\ c \in 1 .. c /\ c \in Nat /\ counter \in Nat
      /\ \A t \in 1 .. c : t = c \/ t \in 1 .. counter
      /\ \A t \in 1 .. counter : t \in 1 .. c /\ t < c /\ t # c
  BY <1>1, MaxTasksAssumption DEF Tasks
<1>3. o \in Seq(Projects) /\ Len(o) = c /\ o[c] = p /\ \A t \in 1 .. counter : o[t] = owner[t]
  BY <1>1
<1>4. /\ \A r \in Projects : queues[r] \in Seq(Tasks) /\ Len(queues[r]) \in Nat
      /\ \A t \in 1 .. counter : owner[t] \in Projects
  BY <1>1 DEF QueuesType
<1>5. /\ \A r \in Projects : r # p => q[r] = queues[r]
      /\ q[p] = Append(queues[p], c) /\ q[p] \in Seq(Tasks)
      /\ Len(q[p]) = Len(queues[p]) + 1
      /\ \A i \in 1 .. Len(queues[p]) : q[p][i] = queues[p][i]
      /\ q[p][Len(queues[p]) + 1] = c
      /\ q \in QueuesType
  BY <1>1, <1>2, <1>4 DEF QueuesType
<1> HIDE DEF c, o, q
<1>6. /\ \A i \in 1 .. Len(q[p]) : i \in 1 .. Len(queues[p]) \/ i = Len(queues[p]) + 1
      /\ \A i \in 1 .. Len(queues[p]) : i \in 1 .. Len(q[p])
      /\ Len(queues[p]) + 1 \in 1 .. Len(q[p])
  BY <1>4, <1>5
<1>7. \A r \in Projects : \A i \in 1 .. Len(queues[r]) :
        /\ queues[r][i] \in 1 .. counter /\ owner[queues[r][i]] = r
        /\ notified[queues[r][i]] = 0 /\ queues[r][i] # active[r]
  BY DEF TaskInv, Filed, Waiting
<1>8. \A r \in Projects :
        active[r] # NoTask =>
          active[r] \in 1 .. counter /\ owner[active[r]] = r /\ notified[active[r]] = 0
  BY DEF TaskInv, Filed, Started
<1>9. notified[c] = 0 /\ \A r \in Projects : active[r] # c
  <2>1. notified[c] = 0
    BY <1>1, <1>2 DEF TaskInv, Filed, Fresh
  <2>2. c # NoTask
    BY <1>2 DEF NoTask
  <2> QED
    BY <2>1, <2>2, <1>2, <1>8
<1>10. Typed(c, o, q, active, notified)
  BY <1>1, <1>2, <1>3, <1>5, MaxTasksAssumption DEF Typed
<1>11. Waiting(c, o, q, active, notified)
  <2> SUFFICES ASSUME NEW r \in Projects, NEW i \in 1 .. Len(q[r])
               PROVE  /\ q[r][i] \in 1 .. c /\ o[q[r][i]] = r
                      /\ notified[q[r][i]] = 0 /\ q[r][i] # active[r]
    BY DEF Waiting
  <2>1. CASE r # p
    BY <2>1, <1>2, <1>3, <1>5, <1>7
  <2>2. CASE r = p /\ i \in 1 .. Len(queues[p])
    BY <2>2, <1>2, <1>3, <1>5, <1>7
  <2>3. CASE r = p /\ i = Len(queues[p]) + 1
    BY <2>3, <1>2, <1>3, <1>5, <1>9
  <2> QED
    BY <2>1, <2>2, <2>3, <1>6
<1>12. Sorted(q)
  <2> SUFFICES ASSUME NEW r \in Projects, NEW i \in 1 .. Len(q[r]), NEW j \in 1 .. Len(q[r]), i < j
               PROVE  q[r][i] < q[r][j]
    BY DEF Sorted
  <2>1. \A k, l \in 1 .. Len(queues[r]) : k < l => queues[r][k] < queues[r][l]
    BY DEF TaskInv, Filed, Sorted
  <2>2. CASE r # p
    BY <2>1, <2>2, <1>5
  <2>3. CASE r = p /\ j \in 1 .. Len(queues[p])
    <3>1. i \in 1 .. Len(queues[p])
      BY <2>3, <1>4
    <3> QED
      BY <3>1, <2>1, <2>3, <1>5
  <2>4. CASE r = p /\ j = Len(queues[p]) + 1
    <3>1. i \in 1 .. Len(queues[p])
      BY <2>4, <1>4
    <3>2. q[p][i] \in 1 .. counter
      BY <3>1, <1>5, <1>7
    <3> QED
      BY <3>2, <2>4, <1>2, <1>5
  <2> QED
    BY <2>2, <2>3, <2>4, <1>6
<1>13. Started(c, o, active, notified)
  BY <1>2, <1>3, <1>8 DEF Started
<1>14. Placed(c, o, q, active, notified)
  <2> SUFFICES ASSUME NEW t \in 1 .. c, notified[t] = 0
               PROVE  active[o[t]] = t \/ \E i \in 1 .. Len(q[o[t]]) : q[o[t]][i] = t
    BY DEF Placed
  <2>1. CASE t = c
    BY <2>1, <1>3, <1>5, <1>6
  <2>2. CASE t \in 1 .. counter
    <3>1. active[owner[t]] = t \/ \E i \in 1 .. Len(queues[owner[t]]) : queues[owner[t]][i] = t
      BY <2>2 DEF TaskInv, Filed, Placed
    <3>2. o[t] = owner[t] /\ o[t] \in Projects
      BY <2>2, <1>3, <1>4
    <3>3. CASE o[t] # p
      BY <3>1, <3>2, <3>3, <1>5
    <3>4. CASE o[t] = p
      BY <3>1, <3>2, <3>4, <1>5, <1>6
    <3> QED
      BY <3>3, <3>4
  <2> QED
    BY <2>1, <2>2, <1>2
<1>15. Fresh(c, notified)
  <2> SUFFICES ASSUME NEW t \in Tasks, t > c PROVE notified[t] = 0
    BY DEF Fresh
  <2>1. t > counter
    BY <1>2 DEF Tasks
  <2> QED
    BY <2>1 DEF TaskInv, Filed, Fresh
<1>16. View(c, o, active, notified)
         = Append(View(counter, owner, active, notified), [owner |-> p, state |-> "waiting"])
  <2> DEFINE W == View(c, o, active, notified)
             V == View(counter, owner, active, notified)
             new == [owner |-> p, state |-> "waiting"]
             S == [owner : Projects, state : {"done", "running", "waiting"}]
  <2>1. W = [t \in 1 .. c |-> W[t]] /\ V = [t \in 1 .. counter |-> V[t]]
    BY DEF View
  <2>2. W[c] = new
    BY <1>2, <1>3, <1>9 DEF View
  <2>3. \A t \in 1 .. counter : W[t] = V[t]
    BY <1>2, <1>3 DEF View
  <2>4. \A t \in 1 .. counter : V[t] \in S
    BY <1>4 DEF View
  <2>5. new \in S
    OBVIOUS
  <2> HIDE DEF W, V, new, S
  <2>6. \A t \in 1 .. c : W[t] \in S
    BY <2>2, <2>3, <2>4, <2>5, <1>2
  <2>7. W \in [1 .. c -> S] /\ V \in [1 .. counter -> S]
    BY <2>1, <2>4, <2>6
  <2>8. W \in Seq(S) /\ V \in Seq(S)
    BY <2>7, <1>2, SeqDef
  <2>9. Len(W) = c /\ Len(V) = counter
    BY <2>7, <2>8, <1>2, LenProperties
  <2>10. /\ Append(V, new) \in Seq(S) /\ Len(Append(V, new)) = c
         /\ \A t \in 1 .. counter : Append(V, new)[t] = V[t]
         /\ Append(V, new)[c] = new
    BY <2>5, <2>8, <2>9, <1>2, AppendProperties
  <2>11. \A t \in 1 .. c : W[t] = Append(V, new)[t]
    BY <2>2, <2>3, <2>10, <1>2
  <2>12. W = Append(V, new)
    BY <2>8, <2>9, <2>10, <2>11, SeqEqual
  <2> QED
    BY <2>12 DEF W, V, new
<1>17. Filed(c, o, q, active, notified)
  BY <1>10, <1>11, <1>12, <1>13, <1>14, <1>15 DEF Filed
<1> QED
  BY <1>16, <1>17 DEF c, o, q

LEMMA EnqueueTaskIsSubmit ==
  ASSUME QueueInv, TaskInv, NEW p \in Projects, EnqueueTask(p)
  PROVE  TaskInv' /\ Pool!Submit(p)
<1> DEFINE c == counter + 1
           o == Append(owner, p)
           q == [queues EXCEPT ![p] = Append(@, counter + 1)]
           J == View(counter, owner, active, notified)
<1>1. /\ counter < MaxTasks /\ counter' = c /\ owner' = o /\ notified' = notified
      /\ Pump(order', q, active, runningCount)
  BY DEF EnqueueTask
<1>2. /\ Filed(c, o, q, active, notified)
      /\ View(c, o, active, notified) = Append(J, [owner |-> p, state |-> "waiting"])
  BY <1>1, NewTaskIsFiled
<1>3. runningCount \in Nat /\ runningCount = Cardinality(Busy(active)) /\ runningCount <= MaxConcurrency
  BY DEF QueueInv, TypeOK, CapRespected, Running, Busy
<1>4. runningCount >= MaxConcurrency - 1 \/ AloneRunnable(q, active)
  <2> SUFFICES ASSUME ~(runningCount >= MaxConcurrency - 1) PROVE \E r : Runnable(q, active) \subseteq {r}
    BY DEF AloneRunnable
  <2>1. runningCount # MaxConcurrency
    BY <1>3, MaxConcurrencyAssumption
  <2>2. \A r \in Projects : active[r] = NoTask => queues[r] = <<>>
    BY <2>1 DEF QueueInv, WorkConserving
  <2>3. \A r \in Projects : r # p => q[r] = queues[r]
    BY DEF QueueInv, TypeOK
  <2>4. Runnable(q, active) \subseteq {p}
    BY <2>2, <2>3 DEF Runnable
  <2> QED
    BY <2>4
<1>5. TaskInv' /\ FilledAs(View(c, o, active, notified), JobsNow')
  <2> HIDE DEF c, o, q
  <2> QED
    BY <1>1, <1>2, <1>3, <1>4, PumpFills
<1>6. JobsNow = J
  BY ViewIsMapping
<1>7. Len(J) < MaxTasks
  <2>1. counter \in Nat
    BY DEF QueueInv, TypeOK
  <2>2. DOMAIN J = 1 .. counter
    BY DEF View
  <2>3. J \in Seq([owner : {owner[t] : t \in 1 .. counter}, state : {"done", "running", "waiting"}])
    <3>1. J \in [1 .. counter ->
                  [owner : {owner[t] : t \in 1 .. counter}, state : {"done", "running", "waiting"}]]
      BY DEF View
    <3> HIDE DEF J
    <3> QED
      BY <2>1, <3>1, SeqDef
  <2> HIDE DEF J
  <2>4. Len(J) = counter
    BY <2>1, <2>2, <2>3, LenProperties
  <2> QED
    BY <2>4, <1>1
<1>8. Pool!Submit(p)
  <2>1. FilledAs(Append(J, [owner |-> p, state |-> "waiting"]), JobsNow')
    BY <1>2, <1>5
  <2> HIDE DEF J
  <2> QED
    BY <1>6, <1>7, <2>1 DEF Pool!Submit, Pool!Filled, FilledAs, JobsNow
<1> QED
  BY <1>5, <1>8

(* A task is settled and its project's slot is given back. *)
LEMMA SettledTaskIsFiled ==
  ASSUME TaskInv, NEW p \in Projects, active[p] # NoTask
  PROVE  LET a == [active EXCEPT ![p] = NoTask]
             nt == [notified EXCEPT ![active[p]] = @ + 1]
         IN  /\ Filed(counter, owner, queues, a, nt)
             /\ View(counter, owner, a, nt)
                  = [View(counter, owner, active, notified) EXCEPT ![active[p]].state = "done"]
<1> DEFINE t0 == active[p]
           a == [active EXCEPT ![p] = NoTask]
           nt == [notified EXCEPT ![t0] = @ + 1]
<1>1. /\ counter \in 0 .. MaxTasks /\ owner \in Seq(Projects) /\ Len(owner) = counter
      /\ queues \in QueuesType /\ active \in ActiveType /\ notified \in [Tasks -> Nat]
  BY DEF TaskInv, Filed, Typed
<1>2. t0 \in 1 .. counter /\ owner[t0] = p /\ notified[t0] = 0 /\ t0 \in Tasks
  <2>1. t0 \in 1 .. counter /\ owner[t0] = p /\ notified[t0] = 0
    BY DEF TaskInv, Filed, Started
  <2> QED
    BY <2>1, <1>1, MaxTasksAssumption DEF Tasks
<1>3. /\ a \in ActiveType /\ a[p] = NoTask
      /\ \A r \in Projects : r # p => a[r] = active[r]
  BY <1>1 DEF ActiveType
<1>4. /\ nt \in [Tasks -> Nat] /\ nt[t0] = 1
      /\ \A t \in Tasks : t # t0 => nt[t] = notified[t]
  BY <1>1, <1>2
<1>5. \A t \in 1 .. counter : t \in Tasks /\ owner[t] \in Projects /\ t # NoTask
  BY <1>1, MaxTasksAssumption DEF Tasks, NoTask
<1> HIDE DEF a, nt
<1>6. Typed(counter, owner, queues, a, nt)
  BY <1>1, <1>3, <1>4 DEF Typed
<1>7. Waiting(counter, owner, queues, a, nt)
  <2> SUFFICES ASSUME NEW r \in Projects, NEW i \in 1 .. Len(queues[r])
               PROVE  /\ queues[r][i] \in 1 .. counter /\ owner[queues[r][i]] = r
                      /\ nt[queues[r][i]] = 0 /\ queues[r][i] # a[r]
    BY DEF Waiting
  <2>1. /\ queues[r][i] \in 1 .. counter /\ owner[queues[r][i]] = r
        /\ notified[queues[r][i]] = 0 /\ queues[r][i] # active[r]
    BY DEF TaskInv, Filed, Waiting
  <2>2. queues[r][i] # t0
    BY <2>1, <1>2
  <2> QED
    BY <2>1, <2>2, <1>3, <1>4, <1>5
<1>8. Sorted(queues)
  BY DEF TaskInv, Filed
<1>9. Started(counter, owner, a, nt)
  <2> SUFFICES ASSUME NEW r \in Projects, a[r] # NoTask
               PROVE  a[r] \in 1 .. counter /\ owner[a[r]] = r /\ nt[a[r]] = 0
    BY DEF Started
  <2>1. r # p /\ a[r] = active[r]
    BY <1>3
  <2>2. active[r] \in 1 .. counter /\ owner[active[r]] = r /\ notified[active[r]] = 0
    BY <2>1 DEF TaskInv, Filed, Started
  <2>3. active[r] # t0
    BY <2>1, <2>2, <1>2
  <2> QED
    BY <2>1, <2>2, <2>3, <1>4, <1>5
<1>10. Placed(counter, owner, queues, a, nt)
  <2> SUFFICES ASSUME NEW t \in 1 .. counter, nt[t] = 0
               PROVE  a[owner[t]] = t \/ \E i \in 1 .. Len(queues[owner[t]]) : queues[owner[t]][i] = t
    BY DEF Placed
  <2>1. t # t0 /\ notified[t] = 0
    BY <1>4, <1>5
  <2>2. active[owner[t]] = t \/ \E i \in 1 .. Len(queues[owner[t]]) : queues[owner[t]][i] = t
    BY <2>1 DEF TaskInv, Filed, Placed
  <2>3. active[owner[t]] = t => a[owner[t]] = t
    BY <2>1, <1>3, <1>5
  <2> QED
    BY <2>2, <2>3
<1>11. Fresh(counter, nt)
  <2> SUFFICES ASSUME NEW t \in Tasks, t > counter PROVE nt[t] = 0
    BY DEF Fresh
  <2>1. notified[t] = 0 /\ t # t0
    BY <1>1, <1>2 DEF TaskInv, Filed, Fresh
  <2> QED
    BY <2>1, <1>4
<1>12. View(counter, owner, a, nt)
         = [View(counter, owner, active, notified) EXCEPT ![t0].state = "done"]
  <2>1. nt[t0] > 0
    BY <1>4
  <2>2. ASSUME NEW t \in 1 .. counter, t # t0
        PROVE  nt[t] = notified[t] /\ (a[owner[t]] = t <=> active[owner[t]] = t)
    <3>1. nt[t] = notified[t]
      BY <2>2, <1>4, <1>5
    <3>2. CASE owner[t] # p
      BY <3>1, <3>2, <1>3, <1>5
    <3>3. CASE owner[t] = p
      BY <3>1, <3>3, <2>2, <1>3, <1>5
    <3> QED
      BY <3>2, <3>3
  <2> HIDE DEF t0
  <2> QED
    BY <2>1, <2>2, <1>2 DEF View
<1>13. Filed(counter, owner, queues, a, nt)
  BY <1>6, <1>7, <1>8, <1>9, <1>10, <1>11 DEF Filed
<1> QED
  BY <1>12, <1>13 DEF a, nt

LEMMA SettleIsFinish ==
  ASSUME QueueInv, TaskInv, NEW p \in Projects, Settle(p)
  PROVE  /\ TaskInv'
         /\ \E j \in 1 .. counter : Pool!Finish(j)
<1> DEFINE a == [active EXCEPT ![p] = NoTask]
           nt == [notified EXCEPT ![active[p]] = @ + 1]
           J == View(counter, owner, active, notified)
<1>1. /\ active[p] # NoTask
      /\ counter' = counter /\ owner' = owner /\ notified' = nt
      /\ Pump(order, queues, a, runningCount - 1)
  BY DEF Settle
<1>2. /\ Filed(counter, owner, queues, a, nt)
      /\ View(counter, owner, a, nt) = [J EXCEPT ![active[p]].state = "done"]
  BY <1>1, SettledTaskIsFiled
<1>3. runningCount - 1 \in Nat /\ runningCount - 1 = Cardinality(Busy(a))
  <2>1. Busy(a) = Running \ {p} /\ p \in Running
    BY <1>1 DEF Busy, Running, QueueInv, TypeOK
  <2>2. IsFiniteSet(Running)
    BY FS_Subset, ProjectsAssumption DEF Running
  <2>3. Cardinality(Running \ {p}) = Cardinality(Running) - 1
    BY <2>1, <2>2, FS_RemoveElement
  <2>4. Cardinality(Running \ {p}) \in Nat
    BY <2>2, FS_RemoveElement, FS_CardinalityType
  <2> QED
    BY <2>1, <2>3, <2>4 DEF QueueInv, CapRespected
<1>4. runningCount \in Nat /\ runningCount <= MaxConcurrency
  BY DEF QueueInv, TypeOK, CapRespected
<1>5. runningCount - 1 >= MaxConcurrency - 1 \/ AloneRunnable(queues, a)
  <2> SUFFICES ASSUME ~(runningCount - 1 >= MaxConcurrency - 1)
               PROVE  \E r : Runnable(queues, a) \subseteq {r}
    BY DEF AloneRunnable
  <2>1. \A r \in Projects : active[r] = NoTask => queues[r] = <<>>
    BY <1>4, MaxConcurrencyAssumption DEF QueueInv, WorkConserving
  <2>2. \A r \in Projects : r # p => a[r] = active[r]
    BY DEF QueueInv, TypeOK
  <2>3. Runnable(queues, a) \subseteq {p}
    BY <2>1, <2>2 DEF Runnable
  <2> QED
    BY <2>3
<1>6. TaskInv' /\ FilledAs(View(counter, owner, a, nt), JobsNow')
  <2>1. runningCount - 1 <= MaxConcurrency
    BY <1>3, <1>4, MaxConcurrencyAssumption
  <2> HIDE DEF a, nt
  <2> QED
    BY <1>1, <1>2, <1>3, <1>5, <2>1, PumpFills
<1>7. JobsNow = J
  BY ViewIsMapping
<1>8. active[p] \in 1 .. counter /\ J[active[p]].state = "running"
  BY <1>1 DEF TaskInv, Filed, Started, View
<1>9. \E j \in 1 .. counter : Pool!Finish(j)
  <2>1. FilledAs([J EXCEPT ![active[p]].state = "done"], JobsNow')
    BY <1>2, <1>6
  <2>2. PICK j \in 1 .. counter :
          J[j].state = "running" /\ FilledAs([J EXCEPT ![j].state = "done"], JobsNow')
    BY <1>8, <2>1
  <2> HIDE DEF J
  <2>3. Pool!Finish(j)
    BY <1>7, <2>2 DEF Pool!Finish, Pool!Filled, FilledAs, JobsNow
  <2> QED
    BY <2>3
<1> QED
  BY <1>6, <1>9

-----------------------------------------------------------------------------
(* Where every task is, in every reachable state. *)
THEOREM TasksAreFiled == Spec => []TaskInv
<1>1. Init => TaskInv
  <2> SUFFICES ASSUME Init PROVE TaskInv
    OBVIOUS
  <2>1. Typed(counter, owner, queues, active, notified)
    BY MaxTasksAssumption DEF Init, Typed, Tasks, QueuesType, ActiveType
  <2>2. /\ Waiting(counter, owner, queues, active, notified)
        /\ Sorted(queues) /\ Started(counter, owner, active, notified)
        /\ Placed(counter, owner, queues, active, notified) /\ Fresh(counter, notified)
    BY DEF Init, Waiting, Sorted, Started, Placed, Fresh
  <2> QED
    BY <2>1, <2>2 DEF TaskInv, Filed
<1>2. QueueInv /\ TaskInv /\ [Next]_vars => TaskInv'
  <2>1. CASE UNCHANGED vars
    BY <2>1 DEF vars, TaskInv
  <2>2. CASE Next
    BY <2>2, EnqueueTaskIsSubmit, SettleIsFinish DEF Next
  <2> QED
    BY <2>1, <2>2
<1> QED
  BY <1>1, <1>2, QueueInvariant, PTL DEF Spec

(* hasActiveTask(p) answers whether p has an unfinished task, for any      *)
(* number of projects and tasks (taskQueue.js:83-85).                      *)
THEOREM HasActiveTaskIsTruthful == Spec => []HasActiveTaskTruthful
<1>1. TaskInv => HasActiveTaskTruthful
  <2> SUFFICES ASSUME TaskInv, NEW p \in Projects
               PROVE  HasActiveTask(p) <=> \E t \in 1 .. counter : owner[t] = p /\ notified[t] = 0
    BY DEF HasActiveTaskTruthful
  <2>1. queues[p] \in Seq(Tasks) /\ \A t \in 1 .. counter : t # NoTask
    BY DEF TaskInv, Filed, Typed, QueuesType, NoTask
  <2>2. ASSUME active[p] # NoTask
        PROVE  \E t \in 1 .. counter : owner[t] = p /\ notified[t] = 0
    BY <2>2 DEF TaskInv, Filed, Started
  <2>3. ASSUME Len(queues[p]) > 0
        PROVE  \E t \in 1 .. counter : owner[t] = p /\ notified[t] = 0
    <3>1. 1 \in 1 .. Len(queues[p])
      BY <2>1, <2>3
    <3> QED
      BY <3>1 DEF TaskInv, Filed, Waiting
  <2>4. ASSUME NEW t \in 1 .. counter, owner[t] = p, notified[t] = 0
        PROVE  HasActiveTask(p)
    <3>1. active[p] = t \/ \E i \in 1 .. Len(queues[p]) : queues[p][i] = t
      BY <2>4 DEF TaskInv, Filed, Placed
    <3> QED
      BY <2>1, <3>1 DEF HasActiveTask
  <2> QED
    BY <2>2, <2>3, <2>4 DEF HasActiveTask
<1> QED
  BY <1>1, TasksAreFiled, PTL

(* The queue implements the pool: a step of it is a step of the pool or    *)
(* leaves the jobs as they are (taskQueue.js:40-75).                       *)
THEOREM QueueImplementsPool == Spec => ImplementsWorkPool
<1>1. Init => Pool!Init
  <2> SUFFICES ASSUME Init PROVE Pool!Init
    OBVIOUS
  <2>1. counter = 0
    BY DEF Init
  <2>2. 1 .. counter = {}
    BY <2>1
  <2> QED
    BY <2>2 DEF Pool!Init
<1>2. QueueInv /\ TaskInv /\ [Next]_vars
        => [Pool!Next]_JobsNow
  <2> SUFFICES ASSUME QueueInv, TaskInv, [Next]_vars
      PROVE [Pool!Next]_JobsNow
    OBVIOUS
  <2>1. CASE UNCHANGED vars
    BY <2>1 DEF vars, JobsNow, JobState
  <2>2. ASSUME NEW p \in Projects, EnqueueTask(p) PROVE Pool!Next
    BY <2>2, EnqueueTaskIsSubmit DEF Pool!Next
  <2>3. ASSUME NEW p \in Projects, Settle(p) PROVE Pool!Next
    <3>1. \E j \in 1 .. counter : Pool!Finish(j)
      BY <2>3, SettleIsFinish
    <3>2. DOMAIN [t \in 1 .. counter |-> [owner |-> owner[t], state |-> JobState(t)]] = 1 .. counter
      OBVIOUS
    <3> QED
      BY <3>1, <3>2 DEF Pool!Next
  <2> QED
    BY <2>1, <2>2, <2>3 DEF Next
<1> QED
  BY <1>1, <1>2, QueueInvariant, TasksAreFiled, PTL DEF Spec, ImplementsWorkPool, Pool!Spec, JobsNow

-----------------------------------------------------------------------------
(***************************************************************************)
(* The claim file of BootClaim, for any number of launchers and under      *)
(* every fault: torn writes, deaths between any two system calls, claims   *)
(* that age, probes that miss a console, files that cannot be created.     *)
(* Until a claim is removed astray (bootClaim.js:94-101), the file is a    *)
(* lock.                                                                   *)
(***************************************************************************)

(* Who was given the claim and boots, runs or is about to release it.      *)
Keeping(l) == l \in claimed /\ pc[l] \in Booting \cup {"release"}

(* The claim file is l's: it names l, or l is about to write it.           *)
Holds(l) ==
  /\ file # Absent
  /\ file.claim.owner = l \/ (file.claim.owner = Nobody /\ l \in file.open)

(* A launcher is given the claim when it creates the file, and no earlier. *)
ClaimIsCreated ==
  \A l \in Launchers :
    /\ pc[l] \in {"write", "port_read", "port_open", "port_write", "release"} => l \in claimed
    /\ l \in claimed => pc[l] \in Booting \cup {"release", "ended"}

(* Who has the file open writes it next, or died before it could.          *)
OpenersWrite ==
  file # Absent => \A m \in file.open : pc[m] \in {"write", "port_write", "ended"}

(* A claim that was written or read names a launcher that was started.     *)
OwnersStarted ==
  /\ file # Absent /\ file.claim.owner # Nobody => pc[file.claim.owner] # "idle"
  /\ \A l \in Launchers : held[l].owner # Nobody => pc[held[l].owner] # "idle"

(* Who removes a claim has read one that nobody, an aged one that somebody *)
(* or one that a dead launcher owns.                                       *)
UnlinkJudged ==
  \A l \in Launchers : pc[l] = "unlink" =>
    \/ held[l].owner = Nobody
    \/ held[l].aged
    \/ pc[held[l].owner] \in {"failed", "ended"}

(* What a launcher writes into the file is its own claim.                  *)
WritesOwnClaim ==
  \A l \in Launchers :
    Keeping(l) /\ pc[l] \in {"write", "port_open", "port_write"} => held[l].owner = l

(* Whoever keeps the claim holds the file, alone.                          *)
KeepersHold == \A l \in Launchers : Keeping(l) => Holds(l)
OneKeeper == \A l, m \in Launchers : Keeping(l) /\ Keeping(m) => l = m

(* Until a claim is removed astray, the file is a lock.                    *)
Lock == ~astray => WritesOwnClaim /\ KeepersHold /\ OneKeeper

ClaimInv ==
  /\ ClaimTypeOK
  /\ ClaimIsCreated
  /\ OpenersWrite
  /\ OwnersStarted
  /\ UnlinkJudged
  /\ Lock

-----------------------------------------------------------------------------
(* The record of one claim, and the record of the file, have their types.  *)
LEMMA ReadClaimType ==
  ASSUME ClaimTypeOK
  PROVE  ReadClaim \in Claim /\ NoClaim \in Claim
BY DEF ClaimTypeOK, ReadClaim, NoClaim, Claim, File

(* Opened() leaves a file of the right type. *)
LEMMA OpenedType ==
  ASSUME ClaimTypeOK, NEW l \in Launchers, NEW step \in Steps, NEW next \in Steps,
         held' \in [Launchers -> Claim],
         Opened(l, step, next)
  PROVE  file' \in File \cup {Absent} /\ pc' \in [Launchers -> Steps]
<1>1. NoClaim \in Claim
  BY ReadClaimType
<1>2. (IF file = Absent THEN {} ELSE file.open) \subseteq Launchers
  BY DEF ClaimTypeOK, File
<1>3. CASE "torn" \in Faults
  <2>1. /\ file' = [claim |-> NoClaim,
                    open |-> {l} \cup (IF file = Absent THEN {} ELSE file.open)]
        /\ pc' = [pc EXCEPT ![l] = step]
    BY <1>3, ZenonT(30) DEF Opened, Goto
  <2> QED
    BY <2>1, <1>1, <1>2 DEF ClaimTypeOK, File
<1>4. CASE "torn" \notin Faults
  <2>1. /\ file' = [claim |-> held'[l], open |-> {}]
        /\ pc' = [pc EXCEPT ![l] = next]
    BY <1>4, ZenonT(30) DEF Opened, Goto
  <2> QED
    BY <2>1 DEF ClaimTypeOK, File
<1> QED
  BY <1>3, <1>4

(* Every step of every launcher, under every fault, keeps the types. *)
LEMMA ClaimTypeStep ==
  ASSUME ClaimTypeOK, [ClaimNext]_claimVars
  PROVE  ClaimTypeOK'
<1> USE RoundsAssumption
<1>1. ASSUME NEW l \in Launchers, NextRound(l)
      PROVE  pc' \in [Launchers -> Steps] /\ round' \in [Launchers -> 1 .. MaxRounds]
  BY <1>1 DEF NextRound, Goto, ClaimTypeOK, Steps, Booting, Gone
<1>2. ASSUME NEW l \in Launchers, Start(l) PROVE ClaimTypeOK'
  BY <1>2 DEF Start, Goto, ClaimTypeOK, Steps, Booting, Gone
<1>3. ASSUME NEW l \in Launchers, Probe(l) PROVE ClaimTypeOK'
  BY <1>3 DEF Probe, Goto, ClaimTypeOK, Steps, Booting, Gone
<1>4. ASSUME NEW l \in Launchers, CreateClaim(l) PROVE ClaimTypeOK'
  <2>1. held' \in [Launchers -> Claim]
    BY <1>4 DEF CreateClaim, ClaimTypeOK, Claim
  <2>2. file' \in File \cup {Absent} /\ pc' \in [Launchers -> Steps]
    BY <1>4, <2>1, OpenedType DEF CreateClaim, Steps, Booting, Gone
  <2> QED
    BY <1>4, <2>1, <2>2 DEF CreateClaim, ClaimTypeOK
<1>5. ASSUME NEW l \in Launchers, LoseCreate(l) PROVE ClaimTypeOK'
  BY <1>5 DEF LoseCreate, Goto, ClaimTypeOK, Steps, Booting, Gone
<1>6. ASSUME NEW l \in Launchers, CannotCreate(l) PROVE ClaimTypeOK'
  BY <1>6 DEF CannotCreate, Goto, ClaimTypeOK, Steps, Booting, Gone
<1>7. ASSUME NEW l \in Launchers, WriteClaim(l) PROVE ClaimTypeOK'
  BY <1>7 DEF WriteClaim, Goto, ClaimTypeOK, File, Steps, Booting, Gone
<1>8. ASSUME NEW l \in Launchers, ReadExisting(l) PROVE ClaimTypeOK'
  BY <1>8, ReadClaimType DEF ReadExisting, Goto, ClaimTypeOK, Steps, Booting, Gone
<1>9. ASSUME NEW l \in Launchers, CheckStale(l) PROVE ClaimTypeOK'
  BY <1>9 DEF CheckStale, Goto, ClaimTypeOK, Steps, Booting, Gone
<1>10. ASSUME NEW l \in Launchers, UnlinkStale(l) PROVE ClaimTypeOK'
  BY <1>10 DEF UnlinkStale, Goto, ClaimTypeOK, Steps, Booting, Gone
<1>11. ASSUME NEW l \in Launchers, Wait(l) PROVE ClaimTypeOK'
  BY <1>11, <1>1 DEF Wait, Goto, ClaimTypeOK, Steps, Booting, Gone
<1>12. ASSUME NEW l \in Launchers, Recheck(l) PROVE ClaimTypeOK'
  BY <1>12, <1>1 DEF Recheck, Goto, ClaimTypeOK, Steps, Booting, Gone
<1>13. ASSUME NEW l \in Launchers, Bind(l) PROVE ClaimTypeOK'
  BY <1>13 DEF Bind, Goto, ClaimTypeOK, Steps, Booting, Gone
<1>14. ASSUME NEW l \in Launchers, BecomeReady(l) PROVE ClaimTypeOK'
  BY <1>14 DEF BecomeReady, Goto, ClaimTypeOK, Steps, Booting, Gone
<1>15. ASSUME NEW l \in Launchers, ReadForPort(l) PROVE ClaimTypeOK'
  BY <1>15, ReadClaimType DEF ReadForPort, Goto, ClaimTypeOK, Claim, Steps, Booting, Gone
<1>16. ASSUME NEW l \in Launchers, OpenForPort(l) PROVE ClaimTypeOK'
  <2>1. file' \in File \cup {Absent} /\ pc' \in [Launchers -> Steps]
    BY <1>16, OpenedType DEF OpenForPort, ClaimTypeOK, Steps, Booting, Gone
  <2> QED
    BY <1>16, <2>1 DEF OpenForPort, ClaimTypeOK
<1>17. ASSUME NEW l \in Launchers, Exit(l) PROVE ClaimTypeOK'
  BY <1>17 DEF Exit, Goto, ClaimTypeOK, Steps, Booting, Gone
<1>18. ASSUME NEW l \in Launchers, Release(l) PROVE ClaimTypeOK'
  BY <1>18 DEF Release, Goto, ClaimTypeOK, Steps, Booting, Gone
<1>19. ASSUME NEW l \in Launchers, Die(l) PROVE ClaimTypeOK'
  BY <1>19 DEF Die, Goto, ClaimTypeOK, Steps, Booting, Gone
<1>20. CASE Age
  <2>1. file \in File /\ file' = [file EXCEPT !.claim.aged = TRUE]
    BY <1>20 DEF Age, ClaimTypeOK
  <2>2. file' \in File
    BY <2>1 DEF File, Claim
  <2> QED
    BY <1>20, <2>2 DEF Age, ClaimTypeOK
<1>21. CASE UNCHANGED claimVars
  BY <1>21 DEF claimVars, ClaimTypeOK
<1> QED
  BY <1>2, <1>3, <1>4, <1>5, <1>6, <1>7, <1>8, <1>9, <1>10, <1>11, <1>12, <1>13,
     <1>14, <1>15, <1>16, <1>17, <1>18, <1>19, <1>20, <1>21 DEF ClaimNext, Step

(* Initially nobody was started, and there is no claim file. *)
LEMMA ClaimTypeInit ==
  ASSUME ClaimInit
  PROVE  ClaimTypeOK
<1>1. astray \in BOOLEAN
  BY DEF ClaimInit
<1>2. /\ pc \in [Launchers -> Steps]
      /\ round \in [Launchers -> 1 .. MaxRounds]
      /\ attempt \in [Launchers -> 1 .. 2]
      /\ claimed \subseteq Launchers
      /\ console \in [Launchers -> {"down", "bound", "ready"}]
  BY RoundsAssumption DEF ClaimInit, Steps, Gone
<1>3. held \in [Launchers -> Claim] /\ file \in File \cup {Absent}
  BY DEF ClaimInit, NoClaim, Claim
<1> QED
  BY <1>1, <1>2, <1>3 DEF ClaimTypeOK

(***************************************************************************)
(* Type correctness, for any launchers, rounds and faults.                 *)
(***************************************************************************)
THEOREM ClaimTypeCorrect == ClaimSpec => []ClaimTypeOK
<1>1. ClaimInit => ClaimTypeOK
  BY ClaimTypeInit
<1>2. ClaimTypeOK /\ [ClaimNext]_claimVars => ClaimTypeOK'
  BY ClaimTypeStep
<1> QED
  BY <1>1, <1>2, PTL DEF ClaimSpec

-----------------------------------------------------------------------------
(* What a write that opens the file leaves behind: a file that l has open, *)
(* or, when nothing comes between, one that says what l holds.             *)
LEMMA OpenedLeaves ==
  ASSUME ClaimTypeOK, NEW l \in Launchers, NEW step \in Steps, NEW next \in Steps,
         held' \in [Launchers -> Claim], held'[l].owner = l,
         Opened(l, step, next)
  PROVE  /\ file' # Absent
         /\ \/ /\ pc' = [pc EXCEPT ![l] = step]
               /\ file'.claim.owner = Nobody
               /\ file'.open = {l} \cup (IF file = Absent THEN {} ELSE file.open)
            \/ /\ pc' = [pc EXCEPT ![l] = next]
               /\ file'.claim.owner = l
               /\ file'.open = {}
<1>1. (IF file = Absent THEN {} ELSE file.open) \subseteq Launchers
  BY DEF ClaimTypeOK, File
<1>2. CASE "torn" \in Faults
  <2>1. /\ file' = [claim |-> NoClaim,
                    open |-> {l} \cup (IF file = Absent THEN {} ELSE file.open)]
        /\ pc' = [pc EXCEPT ![l] = step]
    BY <1>2, ZenonT(30) DEF Opened, Goto
  <2>2. file' \in File
    BY <2>1, <1>1, ReadClaimType DEF File
  <2> QED
    BY <2>1, <2>2, AbsentAssumption DEF NoClaim
<1>3. CASE "torn" \notin Faults
  <2>1. /\ file' = [claim |-> held'[l], open |-> {}]
        /\ pc' = [pc EXCEPT ![l] = next]
    BY <1>3, ZenonT(30) DEF Opened, Goto
  <2>2. file' \in File
    BY <2>1 DEF File
  <2> QED
    BY <2>1, <2>2, AbsentAssumption
<1> QED
  BY <1>2, <1>3

(* What the creation of the claim file, the writing of a port and the age  *)
(* of a claim come to.                                                     *)
Created(l) ==
  /\ pc[l] = "create" /\ file = Absent /\ claimed' = claimed \cup {l}
  /\ held' = [held EXCEPT ![l] = [owner |-> l, aged |-> FALSE]]
  /\ file' # Absent
  /\ \/ /\ pc' = [pc EXCEPT ![l] = "write"]
        /\ file'.claim.owner = Nobody
        /\ file'.open = {l}
     \/ /\ pc' = [pc EXCEPT ![l] = "boot"]
        /\ file'.claim.owner = l
        /\ file'.open = {}

PortOpened(l) ==
  /\ file' # Absent
  /\ \/ /\ pc' = [pc EXCEPT ![l] = "port_write"]
        /\ file'.claim.owner = Nobody
        /\ l \in file'.open
     \/ /\ pc' = [pc EXCEPT ![l] = "running"]
        /\ file'.claim.owner = l

Aged ==
  /\ file # Absent /\ file' # Absent
  /\ file'.claim.owner = file.claim.owner
  /\ file'.open = file.open

(* A launcher that creates the claim file has it open or is named by it,   *)
(* and nobody else has it open.                                            *)
LEMMA CreateLeaves ==
  ASSUME ClaimTypeOK, NEW l \in Launchers, CreateClaim(l)
  PROVE  Created(l)
<1>1. /\ pc[l] = "create" /\ file = Absent /\ claimed' = claimed \cup {l}
      /\ held' = [held EXCEPT ![l] = [owner |-> l, aged |-> FALSE]]
      /\ Opened(l, "write", "boot")
  BY ZenonT(30) DEF CreateClaim
<1>2. held' \in [Launchers -> Claim] /\ held'[l].owner = l
  BY <1>1 DEF ClaimTypeOK, Claim
<1>3. "write" \in Steps /\ "boot" \in Steps
  BY DEF Steps, Booting
<1> QED
  BY <1>1, <1>2, <1>3, OpenedLeaves DEF Created

(* A launcher that writes its port does the same with the file it finds.   *)
LEMMA PortLeaves ==
  ASSUME ClaimTypeOK, NEW l \in Launchers, OpenForPort(l), held[l].owner = l
  PROVE  PortOpened(l)
<1>1. /\ pc[l] = "port_open" /\ held' = held /\ claimed' = claimed
      /\ Opened(l, "port_write", "running")
  BY ZenonT(30) DEF OpenForPort
<1>2. held' \in [Launchers -> Claim] /\ held'[l].owner = l
  BY <1>1 DEF ClaimTypeOK
<1>3. "port_write" \in Steps /\ "running" \in Steps
  BY DEF Steps, Booting
<1> QED
  BY <1>1, <1>2, <1>3, OpenedLeaves DEF PortOpened

(* A claim that ages still has its owner and its writers. *)
LEMMA AgeLeaves ==
  ASSUME ClaimTypeOK, Age
  PROVE  Aged
<1>1. file # Absent /\ file \in File /\ file' = [file EXCEPT !.claim.aged = TRUE]
  BY DEF Age, ClaimTypeOK
<1>2. file' \in File
  BY <1>1 DEF File, Claim
<1>3. file'.claim.owner = file.claim.owner /\ file'.open = file.open
  BY <1>1 DEF File, Claim
<1> QED
  BY <1>1, <1>2, <1>3, AbsentAssumption DEF Aged

(* What holds whether or not a claim was removed astray. *)
Shape ==
  /\ ClaimIsCreated
  /\ OpenersWrite
  /\ OwnersStarted
  /\ UnlinkJudged

(* Every step keeps the shape of the claims that are held or written.      *)
LEMMA ShapeStep ==
  ASSUME ClaimTypeOK, Shape, [ClaimNext]_claimVars
  PROVE  Shape'
<1>0. (\A l \in Launchers : CreateClaim(l) => Created(l)) /\ (Age => Aged)
  BY CreateLeaves, AgeLeaves
<1>1. ClaimTypeOK'
  BY ClaimTypeStep
<1> USE NobodyAssumption DEF Goto, Booting, Gone, ClaimTypeOK, Claim,
        Shape, ClaimIsCreated, OpenersWrite, OwnersStarted, UnlinkJudged
<1>2. ASSUME NEW l \in Launchers, Start(l) PROVE Shape'
  BY <1>2 DEF Start, File
<1>3. ASSUME NEW l \in Launchers, Probe(l) PROVE Shape'
  BY <1>3 DEF Probe, File
<1>4. ASSUME NEW l \in Launchers, CreateClaim(l) PROVE Shape'
  BY <1>0, <1>4 DEF Created
<1>5. ASSUME NEW l \in Launchers, LoseCreate(l) PROVE Shape'
  BY <1>5 DEF LoseCreate, File
<1>6. ASSUME NEW l \in Launchers, CannotCreate(l) PROVE Shape'
  BY <1>6 DEF CannotCreate, File
<1>7. ASSUME NEW l \in Launchers, WriteClaim(l) PROVE Shape'
  BY <1>7 DEF WriteClaim, File
<1>8. ASSUME NEW l \in Launchers, ReadExisting(l) PROVE Shape'
  BY <1>8 DEF ReadExisting, ReadClaim, NoClaim, File
<1>9. ASSUME NEW l \in Launchers, CheckStale(l) PROVE Shape'
  BY <1>9 DEF CheckStale, IsStale, File
<1>10. ASSUME NEW l \in Launchers, UnlinkStale(l) PROVE Shape'
  BY <1>10 DEF UnlinkStale
<1>11. ASSUME NEW l \in Launchers, Wait(l) PROVE Shape'
  BY <1>11 DEF Wait, NextRound, File
<1>12. ASSUME NEW l \in Launchers, Recheck(l) PROVE Shape'
  BY <1>12 DEF Recheck, NextRound, File
<1>13. ASSUME NEW l \in Launchers, Bind(l) PROVE Shape'
  BY <1>13 DEF Bind, File
<1>14. ASSUME NEW l \in Launchers, BecomeReady(l) PROVE Shape'
  BY <1>14 DEF BecomeReady
<1>15. ASSUME NEW l \in Launchers, ReadForPort(l) PROVE Shape'
  BY <1>15 DEF ReadForPort, ReadClaim, NoClaim, File
<1>16. ASSUME NEW l \in Launchers, OpenForPort(l) PROVE Shape'
  BY <1>16 DEF OpenForPort, Opened, NoClaim, File
<1>17. ASSUME NEW l \in Launchers, Exit(l) PROVE Shape'
  BY <1>17 DEF Exit, File
<1>18. ASSUME NEW l \in Launchers, Release(l) PROVE Shape'
  BY <1>18 DEF Release
<1>19. ASSUME NEW l \in Launchers, Die(l) PROVE Shape'
  BY <1>19 DEF Die, File
<1>20. ASSUME Age PROVE Shape'
  BY <1>0, <1>20 DEF Age, Aged
<1>21. ASSUME UNCHANGED claimVars PROVE Shape'
  BY <1>21 DEF claimVars
<1> HIDE DEF Shape
<1> QED
  BY <1>2, <1>3, <1>4, <1>5, <1>6, <1>7, <1>8, <1>9, <1>10, <1>11, <1>12, <1>13,
     <1>14, <1>15, <1>16, <1>17, <1>18, <1>19, <1>20, <1>21 DEF ClaimNext, Step

(***************************************************************************)
(* Until a claim is removed astray the file stays a lock.  A removal that  *)
(* is not astray removes the claim that was judged, written to the end,    *)
(* and owned by nobody or by a launcher that is gone; whoever keeps a      *)
(* claim is alive and holds the file, so it is not that one.               *)
(***************************************************************************)
LEMMA LockStep ==
  ASSUME ClaimTypeOK, Shape, Lock, [ClaimNext]_claimVars
  PROVE  Lock'
<1>0. /\ \A l \in Launchers : CreateClaim(l) => Created(l)
      /\ \A l \in Launchers : OpenForPort(l) /\ held[l].owner = l => PortOpened(l)
      /\ Age => Aged
  BY CreateLeaves, PortLeaves, AgeLeaves
<1>1. ClaimTypeOK' /\ Shape'
  BY ClaimTypeStep, ShapeStep
<1>2. SUFFICES ASSUME ~astray' PROVE (WritesOwnClaim /\ KeepersHold /\ OneKeeper)'
  BY DEF Lock
<1> DEFINE Locked == WritesOwnClaim /\ KeepersHold /\ OneKeeper
<1>3. ~astray
  BY <1>2 DEF ClaimNext, Step, claimVars, Start, Probe, CreateClaim, LoseCreate, CannotCreate,
       WriteClaim, ReadExisting, CheckStale, UnlinkStale, Wait, Recheck, Bind, BecomeReady,
       ReadForPort, OpenForPort, Exit, Release, Die, Age
<1>4. Locked
  BY <1>3 DEF Lock
<1> USE NobodyAssumption, <1>4 DEF Goto, Booting, Gone, ClaimTypeOK, Claim,
        Shape, ClaimIsCreated, OpenersWrite, OwnersStarted,
        WritesOwnClaim, KeepersHold, OneKeeper, Keeping, Holds
<1>5. ASSUME NEW l \in Launchers, Start(l) PROVE Locked'
  BY <1>5 DEF Start
<1>6. ASSUME NEW l \in Launchers, Probe(l) PROVE Locked'
  BY <1>6 DEF Probe
<1>7. ASSUME NEW l \in Launchers, CreateClaim(l) PROVE Locked'
  <2>1. Created(l)
    BY <1>0, <1>7
  <2>2. \A m \in Launchers : ~Keeping(m)
    BY <2>1 DEF Created
  <2> QED
    BY <2>1, <2>2 DEF Created
<1>8. ASSUME NEW l \in Launchers, LoseCreate(l) PROVE Locked'
  BY <1>8 DEF LoseCreate
<1>9. ASSUME NEW l \in Launchers, CannotCreate(l) PROVE Locked'
  BY <1>9 DEF CannotCreate
<1>10. ASSUME NEW l \in Launchers, WriteClaim(l) PROVE Locked'
  <2>1. Keeping(l) /\ held[l].owner = l
    BY <1>10 DEF WriteClaim
  <2>2. \A m \in Launchers : Keeping(m) => m = l
    BY <2>1
  <2>3. file' # Absent /\ file'.claim.owner = l
    BY <1>10, <1>1, <2>1, AbsentAssumption DEF WriteClaim, File
  <2> QED
    BY <1>10, <2>1, <2>2, <2>3 DEF WriteClaim
<1>11. ASSUME NEW l \in Launchers, ReadExisting(l) PROVE Locked'
  BY <1>11 DEF ReadExisting
<1>12. ASSUME NEW l \in Launchers, CheckStale(l) PROVE Locked'
  BY <1>12 DEF CheckStale
<1>13. ASSUME NEW l \in Launchers, UnlinkStale(l) PROVE Locked'
  <2>1. pc[l] = "unlink" /\ ~RemovesAstray(l)
    BY <1>13, <1>2 DEF UnlinkStale
  <2>2. \A m \in Launchers : ~Keeping(m)
    BY <2>1 DEF RemovesAstray, UnlinkJudged
  <2> QED
    BY <1>13, <2>2 DEF UnlinkStale
<1>14. ASSUME NEW l \in Launchers, Wait(l) PROVE Locked'
  BY <1>14 DEF Wait, NextRound
<1>15. ASSUME NEW l \in Launchers, Recheck(l) PROVE Locked'
  BY <1>15 DEF Recheck, NextRound
<1>16. ASSUME NEW l \in Launchers, Bind(l) PROVE Locked'
  BY <1>16 DEF Bind
<1>17. ASSUME NEW l \in Launchers, BecomeReady(l) PROVE Locked'
  BY <1>17 DEF BecomeReady
<1>18. ASSUME NEW l \in Launchers, ReadForPort(l) PROVE Locked'
  <2>1. ReadClaim.owner \in {l, Nobody}
    BY <1>18 DEF ReadForPort, ReadClaim
  <2> QED
    BY <1>18, <2>1 DEF ReadForPort
<1>19. ASSUME NEW l \in Launchers, OpenForPort(l) PROVE Locked'
  <2>1. pc[l] = "port_open" /\ held' = held /\ claimed' = claimed
    BY <1>19, ZenonT(30) DEF OpenForPort
  <2>2. Keeping(l) /\ held[l].owner = l
    BY <2>1
  <2>3. \A m \in Launchers : Keeping(m) => m = l
    BY <2>2
  <2>4. PortOpened(l)
    BY <1>0, <1>19, <2>2
  <2> QED
    BY <2>1, <2>2, <2>3, <2>4 DEF PortOpened
<1>20. ASSUME NEW l \in Launchers, Exit(l) PROVE Locked'
  BY <1>20 DEF Exit
<1>21. ASSUME NEW l \in Launchers, Release(l) PROVE Locked'
  <2>1. Keeping(l)
    BY <1>21 DEF Release
  <2>2. \A m \in Launchers : Keeping(m) => m = l
    BY <2>1
  <2> QED
    BY <1>21, <2>2 DEF Release
<1>22. ASSUME NEW l \in Launchers, Die(l) PROVE Locked'
  BY <1>22 DEF Die
<1>23. ASSUME Age PROVE Locked'
  BY <1>0, <1>23 DEF Age, Aged
<1>24. ASSUME UNCHANGED claimVars PROVE Locked'
  BY <1>24 DEF claimVars
<1> HIDE DEF Locked
<1>25. Locked'
  BY <1>5, <1>6, <1>7, <1>8, <1>9, <1>10, <1>11, <1>12, <1>13, <1>14, <1>15, <1>16,
     <1>17, <1>18, <1>19, <1>20, <1>21, <1>22, <1>23, <1>24 DEF ClaimNext, Step
<1> QED
  BY <1>25 DEF Locked

(* Initially nobody was started and nobody holds anything. *)
LEMMA ClaimInvInit ==
  ASSUME ClaimInit
  PROVE  ClaimInv
BY ClaimTypeInit DEF ClaimInit, ClaimInv, ClaimIsCreated, OpenersWrite, OwnersStarted,
   UnlinkJudged, Lock, WritesOwnClaim, KeepersHold, OneKeeper, Keeping, Holds,
   Booting, NoClaim

(***************************************************************************)
(* bootClaim.js:79: two launchers that were given the claim boot together  *)
(* only after a claim was removed that nobody had shown to be dead, for    *)
(* any number of launchers and rounds and under every fault.               *)
(***************************************************************************)
THEOREM ClaimIsExclusive == ClaimSpec => []ClaimExcludes
<1>1. ClaimInit => ClaimInv
  BY ClaimInvInit
<1>2. ClaimInv /\ [ClaimNext]_claimVars => ClaimInv'
  BY ClaimTypeStep, ShapeStep, LockStep DEF ClaimInv, Shape
<1>3. ClaimInv => ClaimExcludes
  BY DEF ClaimInv, ClaimTypeOK, Lock, OneKeeper, Keeping, ClaimExcludes
<1> QED
  BY <1>1, <1>2, <1>3, PTL DEF ClaimSpec
=============================================================================
