# Models and proofs of the project console

The program is a local developer console: a Node server scans the projects of a
machine, serves a browser front end and a terminal client over a WebSocket, runs
commands and dev servers for the user, and lets a language model call tools,
behind confirmation cards. This directory holds TLA+ models of the parts of it
where steps of several actors meet, the TLC configurations that check them on
small instances, and proofs that TLAPS checks for every instance.

Paths below are relative to the repository: `server/...` is the server,
`bin/cli.js` the launcher, `src/...` the front end.

## The system

JavaScript runs a handler to its next `await` without interruption. What can go
wrong lies at those awaits, in timers, in events of child processes, in files two
processes share, and in restarts.

| Component | State | Operations | What makes it correct |
|---|---|---|---|
| Task queue (`server/taskQueue.js`) | per-project FIFOs, active task per project, `runningCount` | `enqueueTask`, the `finally` of a task, `hasActiveTask` | cap and count agree, no runnable task beside a free slot, order per project, every task settles |
| Console turns (`server/wsHandlers/`, `toolGate.ts`, `state.js`) | per connection: `executeInFlight`, `aiAbortController`, `turnKey`, `toolGrants`, active project; globally: the pending cards and their promises | `execute`, the tool loop of a turn, `tool_call`, `confirm_response`, `approve_task`, `cancel`, `abort_ai`, `stop_process`, close, sweep | nothing gated runs without consent, one turn per connection, cancel hits its own turn, every promise settles |
| Executor (`server/executor*.js`) | registry of running processes, two timers per run, dev URL per project, retry and prompt cards | spawn, output, detach, close, probe, stop, prompt reply | a live process can be stopped, a stop is not a crash, every run sends its end, closed runs leave |
| Boot claim (`server/bootClaim.js`, `bin/cli.js`) | one claim file shared by launcher processes | create, read, judge stale, remove, wait, write the port, release | one console boots; a dead launcher blocks nobody; no launcher waits for ever |
| Scheduler (`server/schedules/`) | schedules in memory and on disk, `idCounter`, a debounced and an immediate write, watchers per project | add, snooze, complete, remove, tick, file event, crash and restart | ids stay free, nothing fires twice for one occasion, a one-shot fires, what was removed stays removed |
| Session store (`conversationStore.js`, `sessionIndex.js`, `sessionMigration.js`) | message logs, a meta file per session, an index file, one promise chain for writes | create, append, rename, share, link, delete, migrate, list, reconcile | no message is lost, counts and shares agree, also after a crash |
| Edit journal, git safety (`aiGuardrails.js`, `gitSafety.js`, `actionHistory.js`) | pre-images and a promise chain per path, a mutex per project, the history of actions, the branch | locked edit, file operation, revert, undo of a path, checkpoint, undo of a checkpoint | pre-images are honest, an undo spares what others wrote |
| Web client link (`useWebSocket.ts`, `useConsole.ts`, `wsMessageCases.ts`, `useAI.ts`) | the socket, a reconnect timer, flags, an outgoing queue and its gate, the AI flag at both ends | connect, close, send, pump, reply, toggle, reconnect | one live socket, messages in order and none stuck, the flag true to the connection |
| Code index (`server/codeIndex/`) | per project recorded mtimes and chunks, in memory and on disk, a write-behind, a watcher | build, search, load, debounced write, file event | what counts as indexed is the file's content, no update is forgotten |
| Watch rules (`watchEngine.js`, `watchRules.js`) | rules, debounce stamps, day stamps | event, tick, reload | a rule fires once for a burst and once a day |
| Auto start, verification (`autoStartProjects.js`, `verifyHarness.js`) | the list of projects to start, a timer per project | enqueue, start, verify | clients of the task queue and the executor |
| Stores behind atomic writes, notifications, accounts, telemetry, memory, learning | files | read, write | small state, synchronous writes |
| Matching, NLP, rendering, terminal client, routes, desktop shell, scripts | strings, views | | little protocol of their own |

How they meet: a connection's turn asks the executor to run a command and is
resumed by its `end`; cards of both live in the maps of `state.js`, swept every
20 s; scheduled, auto-started, verification and indexing work goes through the task
queue; a turn that edits takes the lock of the file and checkpoints the project
first; every message of a turn ends in the session store; the page's queue is
released by the messages that end a turn;
the executor's close handler reports crashes to notifications; the launcher
decides by the claim file and by probing ports whether a server exists at all.

The hard behaviours are the interleaving of messages with a turn between two of
its awaits, cards that are answered, expired, released and swept by different
actors, timers that race the end of a process, probes whose answer is applied to a
registry that changed meanwhile, a file that several processes create, read and
remove without a lock around the sequence, and crashes between two writes.
`PROJECT.json` lists them one by one, at their lines, under "hazards".

## The modules

| Module | Models | State and actions in the code |
|---|---|---|
| `TaskQueue` | `server/taskQueue.js` | the variables carry the names of the source; `EnqueueTask` is `enqueueTask`, `Settle` the `finally` of a task, and both end in `Pump`, the loop over the map in insertion order |
| `ConsoleTurn` | turns, calls, gates, cards, grants, cancel | an *activity* is a turn, a typed command, a trigger card or a tool call of the front end; `pc` names the await it is at; an action is the code between two awaits, with everything a resolved promise resumes before the next message |
| `MC_ConsoleTurn`, `MC_Rollback` | their symmetry sets | |
| `BootClaim` | `acquireBootClaim`, `setClaimPort`, `releaseBootClaim`, `acquireConsole` | launchers are processes, so every system call on the claim file is an action; `Faults` says what the environment may do; the history flag `astray` is set when a claim is removed that nobody had shown to be dead |
| `Executor` | `executeCommand`, `detach`, the close handler, the probes, the port prompts, `stopTrackedProcess`, URL recovery | runs are numbered in the order of the registry; timers are Booleans; `lost` stands for a timer whose handle was overwritten |
| `WorkPool` | what the task queue promises: a set of waiting and a bounded set of running jobs | `TaskQueue` maps a queued, active or finished task to a job's state and implements it |
| `Scheduler` | `scheduler.js`, `scheduleStore.js`, `fireSchedule`, the watcher of event schedules | a tick is taken apart at its file writes, since the process may end there; `toFire`, `toMark` and `toRemove` are its loops |
| `MC_Scheduler` | the sorts of schedules of an instance | |
| `SessionStore` | the promise chain, the index, meta files and logs, migration, reconciliation | a call on the chain is a job with a program: one instruction per awaited file operation; listings and reads run beside the chain |
| `Rollback` | `withFileLock`, the journal, `createCheckpoint`, `performUndo`, reverts, git's index lock, the user's editor and commits | a call is a program as well; edits by tools are locked, those of the trigger mode are not |
| `ClientLink` | the page's end of a connection, and the gate of `handleExecute` behind it | one action per callback of the page, with the pump it ends in; a `readyState` per socket object |
| `CodeIndex` | `buildProjectIndex`, the lazy store with its write-behind, the watcher's callback | a build is cut at its awaits (stat, read, embed); content and mtime are the number of the write that made them |
| `ExclusionProofs` | | the theorems about `TaskQueue`, with its refinement of `WorkPool`, and about `BootClaim` |
| `ConsoleTurnProofs`, `ExecutorProofs`, `SchedulerProofs`, `SessionStoreProofs`, `RollbackProofs`, `ClientLinkProofs`, `CodeIndexProofs` | | the theorems about the module of that name |

Abstractions. In `TaskQueue` a task either settles or not; a rejection settles it
like a result. In `ConsoleTurn` tools fall into the classes the gate tells apart,
the permission in a project's manifest may change before every gate, a card is
fresh or expired, and what the model replies is any number of calls up to
`MaxCalls`; the first reply may be truncated, and its retry returns, fails or is
aborted with the calls of the first reply still to run. In `BootClaim` a probe finds a console that is up, or misses it if
"miss" is among the faults; time is the choice between an answer and a passed
deadline. In `Executor` the server a child brings up is separate from the child
(an npm wrapper on Windows may exit before it), a URL is the command whose server
it names, and output, exits, codes and users are free. In `Scheduler` time is counted
in ticks and the calendar is a constant; what a fire does is the business of the
task queue. In `SessionStore` a message is a number, a title one of three, and a
log a sequence of messages; a file operation on the chain may fail, and `missed` counts
the messages whose append did; the mtime shortcut of the reconciliation is left out, so
every listing reconciles, and a legacy log that exists can be read. In `Rollback` the
content of a file is the number of the write that made it, 0 is a missing file and a
pre-image that could not be read (or was too large), an edit whose preview cannot be
computed runs without an entry of the journal, a commit is a tree and its author and
may fail, and `git reset --hard` keeps what git does not track; files are text, which
decodes without loss, and git's index lock is held by the console alone. In
`ClientLink` what was written to a socket arrives in order or is lost with it, `end`
stands for every message that releases the queue at the end of a turn, `answer` for a
turn that ends without one, and the delays of the timers are free. In `CodeIndex` two
writes of a file never share an mtime, a file has one chunk, and the store file has no
broken chunks.

## The runs

Every run explores its instance completely; deadlock is not checked, because each
system may stop for good: no more arrivals, everything ended.

| Run | Instance | Shows |
|---|---|---|
| `task_queue` | 3 projects, 2 slots, 5 tasks | cap, work conservation, truth of `hasActiveTask`, every step is one of `WorkPool`, every task settles |
| `console_turn` | 2 connections, 2 activities, 2 projects, a gated and an always-asked tool | consent, grants, exclusivity, selective cancel |
| `turn_settles` | 1 connection, 2 activities, 2 calls in a reply, 4 tools | promises keep their cards, aborted turns wind down, everything ends |
| `boot_claim` | 2 launchers, 2 rounds, every fault | two claimants boot together only after the claim of a living one was removed; a launcher left alone is never blocked, every launcher returns |
| `executor` | 2 runs, 1 prompt each, a dev and a build command | no orphans, stops are not crashes, URLs outlive siblings |
| `executor_live` | 1 run, 2 prompts, a dev or a build command | closed runs leave the registry, every run sends its end |
| `scheduler` | 1 project, 2 schedules of 5 sorts, 3 units of time, 1 crash | ids, removals, one fire per occasion, one-shots fire |
| `session_store` | 1 session, 1 user, 3 calls, 2 reads, 2 messages, 1 crash or failing operation | no message lost, counts and shares, every call returns |
| `rollback` | 2 files, 2 connections, 3 calls, 2 writes, a journal of 1 | pre-images, journal, no checkpoint meets git's index lock |
| `rollback_undo` | 1 file, 2 connections, 2 calls, 2 writes, 1 act of the user, a journal of 1 | undos spare the user's commits, every call returns |
| `client_link` | 2 socket slots, a queue of 1, 2 messages, 2 mounts, 1 break, 1 notice, 1 toggle | one live socket, order, AI flag, no message stuck but behind a turn that ended in an answer alone |
| `code_index` | 2 files, 3 writes, 2 builds, 1 crash | recorded is current; nothing unsaved while one load made the store and its last write did not fail; passed is indexed unless a second load replaced the store |

Why the bounds are enough. *Task queue:* two slots and three projects are the
least for which the cap, the order of the map and a busy project can each hold
work back while something else runs; five tasks let a project queue two behind a
running one while the others compete. *Turns:* every property is about one
activity against another of the same or of another connection, one project or tool
against another; two of each give both cases, and a grant needs one activity to
earn it and a second to use it. Calls of the same reply share what the turn holds,
which needs two calls; a turn that asks again needs one round more than none.
*Boot claim:* exclusion is about one launcher that holds the claim
and another that comes; who removes a claim that a third has replaced is `astray`
whoever it is, and `ClaimIsExclusive` is proved for any number of launchers. Recovery
is about one that is left alone, after another that may die anywhere. The
loop of `acquireConsole` is the same in every round, so two rounds show both the
repetition and its end. *Executor:* the registry tells siblings apart by project,
command and order; two runs are siblings of the same or of different commands. A
second project would only add states: the registry, the URL and the stop are per
project. The end of a run does not depend on its siblings, so one run shows it; two
prompts let the second be printed while the flag of the first is set.
*Scheduler:* schedules meet only in ids and in the loop of a tick, which takes two;
three units are a day and a half of the small calendar, so a daily schedule has two
occasions and an interval two periods; a second crash repeats the first, from a file
the first may have left. Projects meet only in the set of watchers, which no property
of the run compares. *Session store:* sessions share the index as a whole, which an
outdated write shows with one entry as well; a message lost needs a migration, an
append and a read that overlap, which is three calls, and the second slot is there
for calls that would run beside the chain. *Rollback:* an edit has to overlap
another of the same file, or of another; a journal of one entry evicts with two files,
and the third call is the undo or the revert of what two have edited. The user's
commits and writes concern the one branch, so a second file adds nothing to
`rollback_undo`. *Client link:* the socket that is alive, and one that is
closing or being replaced; a queue of one is full with the second message, while the
first is on its way. *Code index:* two files let one be passed while the other is
embedded; a file that is written, indexed, written again and deleted needs three
writes, the second build sees what the first has recorded, and the restart reads it
back from disk.

The theorems remove these bounds for the safety properties they state.

### Fairness

* `TaskQueue`: a task that runs settles. Every `run` the server queues bounds its
  work with a timeout; no arrival is fair.
* `ConsoleTurn`: the server gets on with what it awaits (fetches, previews and
  commands have timeouts), cards age, and the sweep is on an interval. No user ever
  has to answer, cancel or close.
* `BootClaim`: a launcher that lives takes its next step; its probes and waits have
  deadlines. Starting, ending, dying and ageing are not fair.
* `Executor`: timers fire, probes return, and a child that has exited closes. No
  command has to print or to end, no server has to come up or go down, and no user
  has to act.
* `Scheduler`: a dead server is started again and the loop of a tick goes on (weak);
  time passes and the interval of the tick gets its turn even if file events keep
  coming (strong: handlers disable it again and again). The debounce timer and the
  users are not fair.
* `SessionStore`, `Rollback`: an awaited file or git operation of a call comes back.
  Nobody has to call.
* `ClientLink`: the browser runs timers and callbacks, a turn ends, a server that died
  is started again. That a queued message leaves is shown for a page that keeps
  getting connections and whose gate does not stay shut after a turn of which only an
  answer came; neither is guaranteed by the code (see `Reconnects` and
  `GateOpensAgain` below).
* `CodeIndex`: timers fire, reads and embeddings return, the task queue starts what is
  queued.

## Disagreements with the comments

All of these came up while the handlers were modelled; `PROJECT.json` lists them as
findings, with the line of the comment. Each is a property stated in its module. For
the first modules the `.cfg` named here, which differs from a run only in its bounds
and its property, makes TLC print the counterexample.

| Property | Configuration | The code |
|---|---|---|
| `NoOrphanedPromise` | `MC_ConsoleTurnOrphan` | `approve_task` on a late or foreign card deletes it and settles nothing: the turn waits for ever (`connectionRoutes.js:165`) |
| `NoCardAfterCancel` | `MC_ConsoleTurnCancelCard` | `cancel` releases the cards that exist; a turn in its gate or preview shows one afterwards |
| `AtMostOneConsole` | `MC_BootClaimStale` | of two launchers that judged the same claim stale, the slower removes the faster one's fresh claim (`bootClaim.js:101`) |
| `NoDuplicates` | `MC_ExecutorDuplicate` | the duplicate guard looks at the first entry of a command only (`executor.js:108`) |
| `NoCallAfterAbort` | `MC_ConsoleTurnRetry` | the catch of the retry after a truncated reply swallows the abort, and the calls of the first reply run (`aiQuery.js:97`, `123`) |
| `NoCardAfterClose` | `MC_ConsoleTurnCloseCard` | the same as for `cancel`, when the socket closes |
| `CancelSparesUserServers` | `MC_ConsoleTurnCancelServer` | before a turn has its controller, `cancel` stops every process of the project |
| `AtMostOneConsole` | `MC_BootClaimTorn` | a claim read between another's open and write is empty, taken for stale and removed |
| `NoDetachAfterClose` | `MC_ExecutorTwoEnds` | two chunks with a URL start two grace timers, the close clears one |
| `PhantomsLeave` | `MC_ExecutorPhantom` | after one answered probe nobody looks at a detached run again |
| `NoClaimAtPrompt` | `MC_ExecutorPrompt` | a prompt clears one of the two timers that may detach the run |
| `NoRetryAfterStop` | `MC_ExecutorRetry` | a stopped child may close with a number for a code |
| `ReplyReaches` | `MC_ExecutorReply` | the reply to a prompt goes to the first entry of the command, dead or alive |

The properties of the later modules stand at the end of their module. Put into the
`INVARIANT` (a state property) or `PROPERTY` line of the module's configuration, each
is refuted within seconds.

| Property | Module | The code |
|---|---|---|
| `FiredCanBeSnoozed` | `Scheduler` | the notification of a one-shot offers a snooze, but the tick has removed the record the snooze copies (`scheduleStore.js:173`) |
| `MarkedOneshotsLeave` | `Scheduler` | a crash between mark and removal leaves a one-shot that is neither due nor removed (`scheduler.js:79`) |
| `RemovedCommandStaysRemoved` | `Scheduler` | the removal of a command schedule waits for the debounce timer; a crash before brings it back |
| `CommitsAreDistinct`, `EventsAreWatched` | `Scheduler` | a save within the debounce window replaces a commit event; watchers follow the schedules, not the list of projects |
| `OwnersAgree`, `TitlesAgree`, `EntriesAreSessions` | `SessionStore` | a rename drops the owner from the meta file and files the new title under `undefined` (`conversationStore.js:177`, `200`) |
| `ReconcileSparesLiveEntries` | `SessionStore` | the index read before the scan is written back after it, outside the chain (`sessionIndex.js:222`) |
| `GeneralCountsAgree`, `GeneralSharesSurvive` | `SessionStore` | reading a session without a project writes the entry of its file over the index entry (`sessionMigration.js:191`) |
| `DeletedStaysDeleted` | `SessionStore` | a listing that began before the deletion writes the session back (`conversationStore.js:153`) |
| `UndoRestoresCheckpoint` | `Rollback` | the undo resets to the commit before the checkpoint, without the work the checkpoint had saved (`gitSafety.js:108`) |
| `UndoSparesLateCommits` | `Rollback` | the look at the last commit and the reset are two commands; a commit between them is reset away |
| `EachEditHasItsEntry` | `Rollback` | the journal keeps the first pre-image of a path only (`aiGuardrails.js:59`) |
| `UndoForgetsWhatItRestored` | `Rollback` | an undo clears the entry after its write; an edit of the trigger mode in between is forgotten with it |
| `Reconnects` | `ClientLink` | the reconnect timer counts the dead socket as closed on purpose: after two failures in a row the page gives up (`useWebSocket.ts:32`) |
| `GateOpensAgain` | `ClientLink` | an acknowledgment sent in trigger mode and served with AI on ends in an answer alone, which does not open the page's gate (`connectionExecute.js:268`) |
| `NothingIsRejected` | `ClientLink` | errors and warnings in the middle of a turn open the gate of the queue (`wsMessageCases.ts:130`) |
| `ConnectedIsHonest` | `ClientLink` | the late `onclose` of a replaced socket puts out the flag of the new one (`useWebSocket.ts:66`) |
| `TogglesSyncHonestly` | `ClientLink` (`MaxToggles = 2`) | two clicks with their statuses crossing: Ollama found unusable puts out the flag of the page and tells the server nothing (`useAI.ts:84`) |
| `EditsAreIndexed`, `RemovedFilesLeave` | `CodeIndex` | the watcher reports absolute paths, which name no file of the index (`codeIndexBuilder.js:73`, `183`) |
| `LoadsKeepUpserts` | `CodeIndex` | of two first loads the slower replaces what was upserted into the faster (`codeIndexStore.js:50`) |

## The proofs

Each proof module proves type correctness and safety properties for all values of the
constants, by an inductive invariant. The temporal step is always the same: initial
states satisfy it, every action preserves it, it implies the property.

* `ExclusionProofs`, first part. Types, cap and work conservation of `TaskQueue` are
  one inductive invariant and none of them is inductive alone: the count stays a
  natural number only because it counts the running tasks, and the pump fills the last
  slot only because the count is right. The lemma `PumpCorrect` says what one pump does
  from any queues and any count that is right; `EnqueueTask` and `Settle` are then one
  step each. It rests on the finiteness of `Projects` and the library's theorems on
  cardinality. A task is filed: it is in one place, the queue of its project, the
  active set or the settled ones, and a queue holds no task twice (`Filed`). With the
  lemma that a pump starts at most one task more than a slot came free, every arrival
  and every settlement maps to a step of `WorkPool`. Proved: `TypeOK`, `CapRespected`,
  `WorkConserving`, `HasActiveTaskTruthful` and `ImplementsWorkPool`.
* `ExclusionProofs`, last part. The types of `BootClaim` hold whatever the faults.
  `ClaimIsExclusive` proves `ClaimExcludes` for any number of launchers and rounds and
  under every fault. The invariant `Lock` says that, as long as no claim went astray,
  whoever keeps a claim holds the file (it names him, or he is between its creation and
  the write that names him), there is one such launcher, and what `setClaimPort` writes
  back is his own claim. It needs to know that the owner of a claim has started, that
  whoever has the file open is about to write it, and that a claim about to be removed
  was judged stale. What it does not say is that no claim goes astray: one does when
  another process runs between the open and the write of a claim ("torn"), or when two
  judge the claim of one that left ("depart"), as the counterexamples show.
* `ConsoleTurnProofs`. The invariant has three layers. `Shape` says what is known of
  an activity from where it is (a card exists only at "await" or "offered", an
  offered card belongs to a trigger, a call at its gate names a known tool).
  `AllPermitted` says why a call that runs may run, and that what an approval will
  record is a grant for a tool a grant may cover. `Exclusive` says who holds a
  connection: whoever handles an execute message has the flag, a turn past its setup
  has the controller, and the controller names such a turn of its own connection.
  Proved: `TypeOK`, `ConsentBeforeRun`, `OneTurnPerConnection`, and of every
  step `GrantsAreEarned`, `AbortedTurnWindsDown`, `CancelSparesOthers`. The third says
  how much an aborted turn can still do: the calls it holds only grow fewer, and the one
  round that may begin is that of a truncated first reply.
  `NoOrphanedPromise` is proved under the hypothesis `StrayApprovals = FALSE`;
  without it `MC_ConsoleTurnOrphan` refutes it.
* `ExecutorProofs`. The invariant `Registry` says where a run can be: only closed
  runs are watched, what is tracked was neither stopped nor reported, an unborn run
  is nowhere. From it follow `NoOrphans`, `StopsAreNotCrashes` and, as a property of
  every step, `UrlOutlivesSiblings`.
* `CodeIndexProofs`. `StoresAreGood` says that every loaded store, and what is on its
  way to the disk, holds for each file at most the mtime of the content it has
  chunks of; `BuildIsGood` says the same of what a build has read and not yet
  recorded. `Behind` accounts for every difference between memory and disk by an
  armed timer, a write in flight or a write that failed, as long as one load made the
  store. `QuietIsKept` follows a file nobody wrote since a build began through the
  stages of that build; a load that replaces the store takes out of account what the
  build has passed. Proved: `TypeOK`, `RecordedIsCurrent`, `NothingUnsaved`,
  `PassedIsIndexed`.
* `ClientLinkProofs`. `Linked` says that a connection of the server is the page's open
  socket and that a page that is gone closed its socket on purpose, which is why no
  timer is armed behind it. `InOrder` lines up what the server began, what is written
  to the socket, what waits for it and what is queued, each part below the next; the
  pump, the waiting send and the server's reading only move a boundary of that line,
  and a lost connection cuts a piece out of it. `Told` says that the last status on
  its way to the page is the connection's flag, so that a page that has read
  everything and written nothing since shows AI on only if it is on. Proved: `TypeOK`
  with the cap of the queue, `OneLiveSocket`, `MessagesStartInOrder`, `AiFlagAgrees`.
* `SchedulerProofs`. `Shape` says that the records of memory and file are those of the
  schedules that were created, each at most once, that every id is covered by the
  counter, and that the loops of a tick run over records that exist; it holds even if
  writes of the file get lost. `Durable` says what both stores know: no removed
  reminder, of each record a mark at least as recent as its last fire, and, while a
  loop has something to fire, a file that equals memory and marks of the present.
  Neither store alone would do, since a restart makes the one the other. Proved:
  `TypeOK` and `IdsAreFree`, and under the hypothesis `LosesWrites = FALSE`
  `RemovedStaysRemoved` and `OncePerOccasion`; with `LosesWrites = TRUE` TLC refutes
  both.
* `SessionStoreProofs`. What a call has still to do is one of thirty stages of its
  program (`Todos`), and each lemma about a step says which stage follows it. For
  `NoMessageLost` it is enough that the old log is a part of the new one at the stage
  that removes it and that a deletion has declared its session gone before it unlinks
  (`Copied`), since a crash leaves the files and drops the stage. `CountsAgree` and
  `SharesSurvive` need what calls on one chain hold in memory (`Undisturbed`): while
  nothing has interfered, every session of a project is settled, that is the index,
  the meta file, the log and the granted shares agree, but for the session whose call
  has a counted meta and has yet to put it into the index (`Busy`); a meta that was loaded is that of
  the log, an index that was read is the index but for the entry of the call's own
  session (`Current`), and nobody migrates a session of a project. It takes one call at
  a time (`OneJob`): with two, the index read by one would lose the entry of the
  other. An append that fails is counted all the same, so the counts are those of the
  log and of the messages that missed it. Proved: `TypeOK`, `NoMessageLost`,
  `CountsAgree`, `SharesSurvive`.
* `RollbackProofs`. A program is a chain of instructions that ends in one that finishes
  a call, and every lock it takes it releases (`Shape`); tails of such programs are such
  programs. Of the state, a call that will release a lock is in its queue, first from
  the moment it has the lock (`LockHeld`), so that between the read and the write of a
  locked edit nobody with the lock has written: what it was computed from is on disk,
  and its pre-image is that or missing (`ReadsFresh`), unless somebody without the lock
  wrote. That gives `HonestHistory`. The journal's entry of a path is what the first
  edit since it was made replaced or failed on, and during that edit what is on disk
  (`EntriesFirst`); edits that are not recorded leave it as it is, an entry leaves when
  it is evicted or undone, and the next recorded edit of the path begins a new one. `GitInv` says that
  whoever is between the mutex and the end of its git commands has the mutex, hence
  that git's index lock is free when the next `git add` begins, and that the commit an
  undo has looked at is the console's unless the user committed since. Proved:
  `TypeOK`, `HonestHistory`, `JournalIsOldest`, `CheckpointsSucceed`, and of every step
  `UndoSparesUserCommits`.

The assumptions are those the modules state of their constants: finite sets where a
cardinality is taken, positive bounds, values that differ from the null value, the
tool classes of `toolGate.ts` being disjoint, names of callers and sessions that are
none of the markers the variables use (`"free"`, `"idle"`), and in `CodeIndex`
that the absolute path a watcher reports is not a path of the index.

Every safety invariant and action property that a run checks is proved. Only
model-checked is liveness (`EveryTaskSettles`, `EverythingEnds`,
`EveryLauncherReturns`, `DeadClaimNeverBlocks`, `ClosedRunsLeave`, `EveryRunEnds`,
`OneshotFires`, `EveryCallReturns` of `SessionStore` and of `Rollback`,
`EveryMessageLeaves`), which is out of the
prover's reach.

## Not modelled

Of the modelled components: the chat shortcuts that answer a message without a turn,
log buffers and output summaries, the sandboxed executor, pids (a process that has
closed is gone), the daemon and the menu of the launcher, the calendar rules of
schedules beyond their period, the workspace transfer, what the pending dialogs of
the page intercept before a message is sent, and search over the index. The desktop
shell and the daemon start a server without the boot claim; `BootClaim` is about the
launchers that take it. `not_modelled` components and the reasons are in
`PROJECT.json`: pure computation on strings and vectors, rendering, thin routes over
the stores, synchronous writes of small files, and the components of the plan below.
Most of the repository's lines are of these kinds, which is why the mapped share of
its lines is small while the parts where actors meet are covered.

## Plan

1. `WatchEngine`: debounce and daily stamps, and the reload of the rules against a
   walk over them that is running.
2. Accounts and sessions: expiry and revocation of a login against a socket that is
   already open.
3. `AutoStart` and the verification harness: clients that compose `TaskQueue` and
   `Executor`.
4. The composition of `ConsoleTurn` with `Executor` over the `end` of a command, and
   of `ConsoleTurn` with `ClientLink` over the messages that end a turn.
5. Abstract specifications: `Lease` (at most one holder), implemented by `BootClaim`
   as long as no claim went astray; `Consent` (asked, granted or refused, used once), implemented by
   `ConsoleTurn`.

Bounds stay at two or three actors of each kind, with one crash per behaviour.
