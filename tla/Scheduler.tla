------------------------------ MODULE Scheduler ------------------------------
(***************************************************************************)
(* Scheduled commands and reminders: server/schedules/scheduler.js,        *)
(* scheduleStore.js and fireSchedule of scheduleFire.js.                   *)
(*                                                                         *)
(* The array in memory is the truth while the server runs, the file its    *)
(* mirror: some changes are written at once (persistNow), some half a      *)
(* second later (schedulePersist), and a server that ends in between takes *)
(* them along.  Handlers do not interleave with a tick, which is           *)
(* synchronous; the end of the process does, so the tick is taken apart at *)
(* its writes, and the sets toFire, toMark and toRemove are its progress.  *)
(*                                                                         *)
(* An id is what the code knows a schedule by; the number in `uid` is its  *)
(* identity here, since ids are handed out again after a restart.  Time is *)
(* counted in units of a tick; the calendar has Day units to a day, Week   *)
(* days to a week, and At is the time of day of daily and weekly ones.     *)
(***************************************************************************)
EXTENDS Integers, Sequences, FiniteSets, FiniteSetsExt

CONSTANTS Projects,       \* projects that have schedules
          Sorts,          \* the pairs <<kind, type>> users ask for
          MaxAdds,        \* bound: schedules created, snoozes included
          MaxNow,         \* bound: the clock
          MaxCrashes,     \* bound: ends of the process
          Every,          \* period of an interval schedule
          Day, Week, At, Weekday,  \* the calendar
          Throttle,       \* EVENT_THROTTLE_MS
          KeepReminders,  \* profile.persistRemindersAcrossRestart
          LosesWrites     \* may the best-effort write of the file fail?

AllSorts == {"reminder"} \X {"oneshot", "interval", "daily", "weekly"}
            \cup {"command"} \X {"interval", "daily", "file-save", "git-commit"}

ASSUME SchedulerAssumption ==
  /\ IsFiniteSet(Projects)
  /\ Sorts \subseteq AllSorts
  /\ {MaxAdds, MaxNow, MaxCrashes, Weekday} \subseteq Nat
  /\ {Every, Day, Week, Throttle} \subseteq Nat \ {0}
  /\ At \in 0..(Day - 1)
  /\ Weekday < Week
  /\ {KeepReminders, LosesWrites} \subseteq BOOLEAN

EventTypes == {"file-save", "git-commit"}
Uids == 1..MaxAdds
Never == -Every - 1  \* before anything, also before an aligned first fire

VARIABLES
  now,        \* Date.now()
  up,         \* is there a server?
  schedules,  \* the array in memory: id |-> record, in the order of the ids
  idCounter,
  saveTimer,  \* is a debounced write pending?
  file,       \* data/schedules.json
  toFire,     \* the loop of a tick: due schedules it has still to fire
  toMark,     \* the loop of a file event: schedules it has still to look at
  toRemove,   \* the one-shot that has just fired
  scanned,    \* activeProjectsCache
  watched,    \* the keys of projectWatchers
  fsEvent,    \* per project: the event its watcher's debounce timer holds
  crashes,
  sort,       \* history: <<kind, type>> of each schedule created so far
  fires,      \* history: how often a schedule fired, and when last
  gone,       \* history: the schedules a user removed
  lost        \* history: the schedules a crash caught unwritten or unfired

vars == <<now, up, schedules, idCounter, saveTimer, file, toFire, toMark, toRemove,
          scanned, watched, fsEvent, crashes, sort, fires, gone, lost>>

Schedule == [uid : Uids, kind : {"reminder", "command"},
             type : {"oneshot", "interval", "daily", "weekly"} \cup EventTypes,
             project : Projects, fireAt : Int, lastFiredAt : Int, completed : BOOLEAN]

Ids == 1..MaxAdds
IsStore(store) == DOMAIN store \subseteq Ids /\ store \in [DOMAIN store -> Schedule]

TypeOK ==
  /\ now \in 0..MaxNow
  /\ up \in BOOLEAN
  /\ IsStore(schedules)
  /\ IsStore(file)
  /\ idCounter \in 0..MaxAdds
  /\ saveTimer \in BOOLEAN
  /\ toFire \subseteq Ids /\ toMark \subseteq Ids /\ toRemove \subseteq Ids
  /\ scanned \subseteq Projects
  /\ watched \subseteq Projects
  /\ fsEvent \in [Projects -> EventTypes \cup {"none"}]
  /\ crashes \in 0..MaxCrashes
  /\ sort \in Seq(AllSorts)
  /\ fires \in [Uids -> [n : Nat, at : Int]]
  /\ gone \subseteq Uids
  /\ lost \subseteq Uids

NoSchedules == [id \in {} |-> 0]
Without(store, id) == [i \in DOMAIN store \ {id} |-> store[i]]
UidsOf(store) == {store[id].uid : id \in DOMAIN store}

-----------------------------------------------------------------------------
(* When a schedule is due. *)

DailyAt(t) == (t \div Day) * Day + At

\* The occurrence of this week's or the coming weekday, seen from today.
WeeklyAt(t) ==
  LET ahead == (Weekday - ((t \div Day) % Week) + Week) % Week
  IN  DailyAt(t) + ahead * Day

(* Mutant: a one-shot that fired at its very instant may fire again. *)
RipeInclusive(type, fireAt, last, t) ==
  \/ type = "interval" /\ t - last >= Every
  \/ type = "daily" /\ t >= DailyAt(t) /\ last < DailyAt(t)
  \/ type = "weekly" /\ t >= WeeklyAt(t) /\ last < WeeklyAt(t)
  \/ type = "oneshot" /\ t >= fireAt /\ last <= fireAt

(* Mutant: a one-shot is due at its instant and not later. *)
RipeExactly(type, fireAt, last, t) ==
  \/ type = "interval" /\ t - last >= Every
  \/ type = "daily" /\ t >= DailyAt(t) /\ last < DailyAt(t)
  \/ type = "weekly" /\ t >= WeeklyAt(t) /\ last < WeeklyAt(t)
  \/ type = "oneshot" /\ t = fireAt /\ last < fireAt

\* May a schedule of this type that fired last at time `last` fire at time t?
Ripe(type, fireAt, last, t) ==
  \/ type = "interval" /\ t - last >= Every
  \/ type = "daily" /\ t >= DailyAt(t) /\ last < DailyAt(t)
  \/ type = "weekly" /\ t >= WeeklyAt(t) /\ last < WeeklyAt(t)
  \/ type = "oneshot" /\ t >= fireAt /\ last < fireAt

IsDue(s, t) == ~s.completed /\ Ripe(s.type, s.fireAt, s.lastFiredAt, t)

-----------------------------------------------------------------------------
(* Writing. *)

\* persist(), when the array becomes m: a failed write is swallowed.
Persist(m) ==
  /\ saveTimer' = FALSE
  /\ \/ file' = m
     \/ LosesWrites /\ file' = file

PersistLater(m) == saveTimer' = TRUE /\ file' = file

(* persistNow clears the timer and writes. *)
PersistNow(m) == Persist(m)

\* The server is up and its event loop is free for a handler or a timer.
Free == up /\ toFire = {} /\ toMark = {} /\ toRemove = {}

-----------------------------------------------------------------------------
(* The store's operations, called by chat commands and routes. *)

EventProjects(store) ==
  {store[id].project : id \in {i \in DOMAIN store : store[i].type \in EventTypes}}

\* syncEventTriggerWatchers: a watcher for each project with event schedules
\* that is known now, none for the others.
SyncWatchers(store) ==
  watched' = (watched \cap EventProjects(store)) \cup (EventProjects(store) \cap scanned)

NewRecord(kind, type, p, fireAt, last) ==
  [uid |-> Len(sort) + 1, kind |-> kind, type |-> type, project |-> p,
   fireAt |-> fireAt, lastFiredAt |-> last, completed |-> FALSE]

Push(s) ==
  /\ Len(sort) < MaxAdds
  /\ idCounter' = idCounter + 1
  /\ schedules' = [id \in DOMAIN schedules \cup {idCounter'} |->
                     IF id = idCounter' THEN s ELSE schedules[id]]
  /\ sort' = Append(sort, <<s.kind, s.type>>)
  /\ PersistLater(schedules')

\* addSchedule.  An aligned reminder starts as if it had fired one period before
\* its first occurrence, everything else as if it had fired just now.
AddSchedule(kt, p) ==
  /\ Free
  /\ \E last \in (now - Every + 1)..now, fireAt \in now..MaxNow :
       /\ kt # <<"reminder", "interval">> => last = now
       /\ IF kt[2] = "oneshot" THEN fireAt > now ELSE fireAt = now
       /\ Push(NewRecord(kt[1], kt[2], p, fireAt, last))
  /\ IF kt[1] = "command" THEN SyncWatchers(schedules') ELSE UNCHANGED watched
  /\ UNCHANGED <<now, up, toFire, toMark, toRemove, scanned, fsEvent, crashes, fires, gone, lost>>

\* snoozeReminder: one more reminder, for the text of one that is still listed.
SnoozeReminder(id) ==
  /\ Free
  /\ schedules[id].kind = "reminder"
  /\ \E fireAt \in (now + 1)..MaxNow :
       Push(NewRecord("reminder", "oneshot", schedules[id].project, fireAt, now))
  /\ UNCHANGED <<now, up, toFire, toMark, toRemove, scanned, watched, fsEvent, crashes, fires, gone, lost>>

\* removeSchedule: a command schedule, through the chat of its project.
RemoveSchedule(id) ==
  /\ Free
  /\ schedules[id].kind = "command"
  /\ schedules' = Without(schedules, id)
  /\ gone' = gone \cup {schedules[id].uid}
  /\ PersistLater(schedules')
  /\ SyncWatchers(schedules')
  /\ UNCHANGED <<now, up, idCounter, toFire, toMark, toRemove, scanned, fsEvent, crashes, sort, fires, lost>>

\* "remove schedule" with an id of nothing in the project: the watchers follow all
\* the same.
RemoveUnknown ==
  /\ Free
  /\ SyncWatchers(schedules)
  /\ UNCHANGED <<now, up, schedules, idCounter, saveTimer, file, toFire, toMark, toRemove,
                 scanned, fsEvent, crashes, sort, fires, gone, lost>>

\* removeScheduleById, as the reminder routes call it.
RemoveReminder(id) ==
  /\ Free
  /\ schedules[id].kind = "reminder"
  /\ schedules' = Without(schedules, id)
  /\ gone' = gone \cup {schedules[id].uid}
  /\ PersistNow(schedules')
  /\ UNCHANGED <<now, up, idCounter, toFire, toMark, toRemove, scanned, watched, fsEvent, crashes, sort, fires,
                 lost>>

\* setReminderCompleted, both ways.
CompleteReminder(id) ==
  /\ Free
  /\ schedules[id].kind = "reminder"
  /\ schedules' = [schedules EXCEPT ![id].completed = ~@]
  /\ PersistNow(schedules')
  /\ UNCHANGED <<now, up, idCounter, toFire, toMark, toRemove, scanned, watched, fsEvent, crashes, sort, fires,
                 gone, lost>>

\* The debounce timer of schedulePersist.
Flush ==
  /\ Free
  /\ saveTimer
  /\ Persist(schedules)
  /\ UNCHANGED <<now, up, schedules, idCounter, toFire, toMark, toRemove, scanned, watched, fsEvent, crashes,
                 sort, fires, gone, lost>>

-----------------------------------------------------------------------------
(* The tick and the events. *)

Marked(S) ==
  [id \in DOMAIN schedules |->
     IF id \in S THEN [schedules[id] EXCEPT !.lastFiredAt = now] ELSE schedules[id]]

\* tick: everything due is marked in one write, before anything fires.
Tick ==
  LET due == {id \in DOMAIN schedules : IsDue(schedules[id], now)}
  IN  /\ Free
      /\ due # {}
      /\ schedules' = Marked(due)
      /\ PersistNow(schedules')
      /\ toFire' = due
      /\ UNCHANGED <<now, up, idCounter, toMark, toRemove, scanned, watched, fsEvent,
                     crashes, sort, fires, gone, lost>>

\* fireSchedule: a reminder is delivered, a command handed to the task queue.
Fire ==
  /\ up
  /\ toRemove = {}
  /\ toFire # {}
  /\ LET id == Min(toFire)
         u == schedules[id].uid
     IN  /\ fires' = [fires EXCEPT ![u] = [n |-> @.n + 1, at |-> now]]
         /\ toFire' = toFire \ {id}
         /\ toRemove' = IF schedules[id].type = "oneshot" THEN {id} ELSE {}
  /\ UNCHANGED <<now, up, schedules, idCounter, saveTimer, file, toMark, scanned, watched,
                 fsEvent, crashes, sort, gone, lost>>

\* removeScheduleById at the end of a one-shot.
RemoveFired ==
  /\ up
  /\ \E id \in toRemove : schedules' = Without(schedules, id)
  /\ PersistNow(schedules')
  /\ toRemove' = {}
  /\ UNCHANGED <<now, up, idCounter, toFire, toMark, scanned, watched, fsEvent, crashes,
                 sort, fires, gone, lost>>

\* chokidar reports a change: one debounce timer for all events of a project.
FsChange(p, type) ==
  /\ Free
  /\ p \in watched
  /\ fsEvent' = [fsEvent EXCEPT ![p] = type]
  /\ UNCHANGED <<now, up, schedules, idCounter, saveTimer, file, toFire, toMark, toRemove,
                 scanned, watched, crashes, sort, fires, gone, lost>>

\* The debounce timer of a project's watcher: the loop over its schedules.
FsTimer(p) ==
  /\ Free
  /\ fsEvent[p] # "none"
  /\ toMark' = {id \in DOMAIN schedules :
                  schedules[id].project = p /\ schedules[id].type = fsEvent[p]}
  /\ fsEvent' = [fsEvent EXCEPT ![p] = "none"]
  /\ UNCHANGED <<now, up, schedules, idCounter, saveTimer, file, toFire, toRemove, scanned,
                 watched, crashes, sort, fires, gone, lost>>

\* handleProjectFsEvent for the next of them, up to its fire.
MarkEvent ==
  /\ up
  /\ toFire = {}
  /\ toMark # {}
  /\ LET id == Min(toMark)
         throttled == now - schedules[id].lastFiredAt < Throttle
     IN  /\ toMark' = toMark \ {id}
         /\ \/ throttled /\ UNCHANGED <<schedules, saveTimer, file, toFire>>
            \/ /\ ~throttled
               /\ schedules' = Marked({id})
               /\ PersistNow(schedules')
               /\ toFire' = {id}
  /\ UNCHANGED <<now, up, idCounter, toRemove, scanned, watched, fsEvent, crashes, sort,
                 fires, gone, lost>>

-----------------------------------------------------------------------------
(* The process and its surroundings. *)

\* The project list changes (config watcher, another workspace); no watcher does.
Rescan ==
  /\ Free
  /\ \E S \in SUBSET Projects : scanned' = S
  /\ UNCHANGED <<now, up, schedules, idCounter, saveTimer, file, toFire, toMark, toRemove,
                 watched, fsEvent, crashes, sort, fires, gone, lost>>

\* The server ends, in whatever it is doing; nothing is flushed on the way out.
Crash ==
  /\ up
  /\ crashes < MaxCrashes
  /\ crashes' = crashes + 1
  /\ up' = FALSE
  /\ lost' = lost \cup (UidsOf(schedules) \ UidsOf(file))
                  \cup {schedules[id].uid : id \in toFire}
  /\ schedules' = NoSchedules
  /\ idCounter' = 0
  /\ saveTimer' = FALSE
  /\ toFire' = {} /\ toMark' = {} /\ toRemove' = {}
  /\ watched' = {}
  /\ fsEvent' = [p \in Projects |-> "none"]
  /\ UNCHANGED <<now, file, scanned, sort, fires, gone>>

(* Mutant: the counter restarts at the number of schedules. *)
LoadedCount(store) == Cardinality(DOMAIN store)

\* loadSchedules: the counter goes on from the largest id that is on file.
LoadedCounter(store) == Max(DOMAIN store \cup {0})

\* initScheduler, with clearReminders when the profile asks for it.
InitScheduler ==
  LET kept == IF KeepReminders THEN DOMAIN file
              ELSE {id \in DOMAIN file : file[id].kind # "reminder"}
  IN  /\ ~up
      /\ up' = TRUE
      /\ idCounter' = LoadedCounter(file)
      /\ schedules' = [id \in kept |-> file[id]]
      /\ IF kept = DOMAIN file THEN UNCHANGED <<file, saveTimer>> ELSE PersistNow(schedules')
      /\ lost' = lost \cup {file[id].uid : id \in DOMAIN file \ kept}
      /\ scanned' \in SUBSET Projects
      /\ watched' = EventProjects(file) \cap scanned'
      /\ UNCHANGED <<now, toFire, toMark, toRemove, fsEvent, crashes, sort, fires, gone>>

Advance ==
  /\ up => Free
  /\ now < MaxNow
  /\ now' = now + 1
  /\ UNCHANGED <<up, schedules, idCounter, saveTimer, file, toFire, toMark, toRemove,
                 scanned, watched, fsEvent, crashes, sort, fires, gone, lost>>

Init ==
  /\ now = 0
  /\ up = FALSE
  /\ schedules = NoSchedules /\ file = NoSchedules
  /\ idCounter = 0 /\ saveTimer = FALSE
  /\ toFire = {} /\ toMark = {} /\ toRemove = {}
  /\ scanned = {} /\ watched = {}
  /\ fsEvent = [p \in Projects |-> "none"]
  /\ crashes = 0
  /\ sort = <<>>
  /\ fires = [u \in Uids |-> [n |-> 0, at |-> 0]]
  /\ gone = {} /\ lost = {}

Users ==
  \/ \E kt \in Sorts, p \in Projects : AddSchedule(kt, p)
  \/ \E id \in DOMAIN schedules :
       SnoozeReminder(id) \/ RemoveSchedule(id) \/ RemoveReminder(id) \/ CompleteReminder(id)
  \/ RemoveUnknown
  \/ \E p \in Projects, type \in EventTypes : FsChange(p, type)
  \/ Rescan

Next ==
  \/ Users
  \/ Tick \/ Fire \/ RemoveFired \/ MarkEvent
  \/ \E p \in Projects : FsTimer(p)
  \/ Flush
  \/ Crash \/ InitScheduler \/ Advance

\* Time passes, a dead server is started again, and the event loop gets to the
\* interval of the tick even if file events keep coming.
Spec ==
  /\ Init /\ [][Next]_vars
  /\ SF_vars(Advance) /\ SF_vars(Tick)
  /\ WF_vars(InitScheduler) /\ WF_vars(Fire) /\ WF_vars(RemoveFired) /\ WF_vars(MarkEvent)

-----------------------------------------------------------------------------
(* Properties. *)

\* The next id is free: a schedule is never added under the id of another one,
\* also after ids were given up and the counter was read back from the file.
IdsAreFree == \A id \in DOMAIN schedules \cup DOMAIN file : up => id <= idCounter

\* A reminder that was removed does not come back, not even after a crash: its
\* removal is written at once, together with what was waiting to be written.
RemovedStaysRemoved ==
  \A u \in gone : sort[u][1] = "reminder" => u \notin UidsOf(schedules) \cup UidsOf(file)

\* May schedule u, which fired last when its history says, fire now?
Fresh(u) ==
  LET type == sort[u][2]
  IN  \/ fires[u].n = 0
      \/ type \in {"interval", "daily", "weekly"} /\ Ripe(type, 0, fires[u].at, now)
      \/ type \in EventTypes /\ now - fires[u].at >= Throttle

\* Nothing fires twice for one occasion, whatever restarts come in between: a
\* one-shot fires once, the others once per period, day, week or throttle window.
OncePerOccasion == [][\A u \in Uids : fires'[u] # fires[u] => Fresh(u)]_vars

\* A one-shot reminder fires, unless its user removed or completed it, or the
\* server ended before it was written or between its mark and its fire.
OneshotFires ==
  \A u \in Uids :
    (u \in DOMAIN sort /\ sort[u][2] = "oneshot")
      ~> \/ fires[u].n > 0
         \/ u \in gone \cup lost
         \/ \E id \in DOMAIN schedules : schedules[id].uid = u /\ schedules[id].completed

\* scheduleStore.js:168 says that a one-shot was already removed when it is
\* snoozed, so that the copy is the snooze: a reminder that fired can be snoozed
\* while its user has not removed it.  It cannot: the copy is made from the
\* record, and the record is gone.
FiredCanBeSnoozed ==
  Free => \A u \in DOMAIN sort :
            (sort[u][1] = "reminder" /\ fires[u].n > 0 /\ u \notin gone \cup lost)
              => u \in UidsOf(schedules)

\* scheduler.js:56 says that the tick removes a one-shot after it fired.  A
\* server that ends between mark and fire leaves one that is neither due nor
\* removed, for good.
MarkedOneshotsLeave ==
  \A id \in Ids :
    (id \in DOMAIN schedules /\ schedules[id].type = "oneshot" /\ ~schedules[id].completed
      /\ schedules[id].lastFiredAt >= schedules[id].fireAt)
      ~> (id \notin DOMAIN schedules \/ schedules[id].completed)

\* A command schedule that was removed stays removed.  Its removal waits for the
\* debounce timer, and a server that ends before brings it back.
RemovedCommandStaysRemoved ==
  \A u \in gone : sort[u][1] = "command" => u \notin UidsOf(schedules)

\* fileWatcher.js:109 calls a commit a distinct signal.  A save within the
\* debounce window of its project replaces it.
CommitsAreDistinct ==
  [][\A p \in Projects : fsEvent[p] = "git-commit" => fsEvent'[p] # "file-save"]_vars

\* A project with event schedules that is known is watched.  The watchers follow
\* the schedules, not the list of projects.
EventsAreWatched == Free => EventProjects(schedules) \cap scanned \subseteq watched
=============================================================================
