------------------------------- MODULE WorkPool -------------------------------
(***************************************************************************)
(* What server/taskQueue.js promises to those who enqueue: jobs wait, run  *)
(* and are done.  At most Cap of them run, no two of one owner; an owner's *)
(* jobs begin in the order they were submitted; and a job begins in the    *)
(* very step that makes room for it, so a free place is never wasted.      *)
(* Which of several owners gets the place is left open.                    *)
(***************************************************************************)
EXTENDS Integers, Sequences, FiniteSets

CONSTANTS
  Owners,   \* the projects
  Cap,      \* MAX_TASK_CONCURRENCY
  MaxJobs   \* bound: jobs ever submitted

VARIABLE jobs \* in the order of submission

States == {"waiting", "running", "done"}
Job == [owner : Owners, state : States]

Jobs(js, state) == {j \in DOMAIN js : js[j].state = state}
Idle(js, o) == \A j \in Jobs(js, "running") : js[j].owner # o
Room(js) == Cardinality(Jobs(js, "running")) < Cap

\* The oldest waiting job of an idle owner, if there is a place.
MayBegin(js, j) ==
  /\ Room(js)
  /\ j \in Jobs(js, "waiting")
  /\ Idle(js, js[j].owner)
  /\ \A i \in Jobs(js, "waiting") : js[i].owner = js[j].owner => j <= i

\* One job begins if any may.
Filled(js) ==
  \/ (\A j \in DOMAIN js : ~MayBegin(js, j)) /\ jobs' = js
  \/ \E j \in DOMAIN js : MayBegin(js, j) /\ jobs' = [js EXCEPT ![j].state = "running"]

Init == jobs = <<>>

Submit(o) ==
  /\ Len(jobs) < MaxJobs
  /\ Filled(Append(jobs, [owner |-> o, state |-> "waiting"]))

Finish(j) ==
  /\ jobs[j].state = "running"
  /\ Filled([jobs EXCEPT ![j].state = "done"])

Next == (\E o \in Owners : Submit(o)) \/ (\E j \in DOMAIN jobs : Finish(j))

Spec == Init /\ [][Next]_jobs
=============================================================================
