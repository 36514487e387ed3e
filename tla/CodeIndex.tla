------------------------------ MODULE CodeIndex ------------------------------
(***************************************************************************)
(* server/codeIndex: the persisted index of one project's files.  A build  *)
(* walks the files, skips those whose recorded mtime is the file's, and    *)
(* embeds the others one by one; the store is loaded lazily, kept in       *)
(* memory and written behind it, debounced and atomically; a watcher is    *)
(* attached after the first build.                                         *)
(*                                                                         *)
(* A file's content and its mtime are both the number of the write that    *)
(* made it (two writes never share an mtime), 0 if there is no file.  All  *)
(* files are of a kind and size that is indexed.                           *)
(***************************************************************************)
EXTENDS Integers, Sequences, FiniteSets, SequencesExt

CONSTANTS
  Files,      \* indexable paths, relative to the project
  MaxFiles,   \* MAX_FILES_PER_PROJECT
  MaxWrites,  \* bound: what the user writes and deletes
  MaxBuilds,  \* bound: builds asked for
  MaxCrashes  \* bound: restarts of the server

ASSUME CodeIndexAssumption ==
  /\ IsFiniteSet(Files)
  /\ {MaxFiles, MaxWrites, MaxBuilds, MaxCrashes} \subseteq Nat

Versions == 0..MaxWrites
Store == [files : [Files -> Versions], chunks : [Files -> Versions]]
Empty == [files |-> [f \in Files |-> 0], chunks |-> [f \in Files |-> 0]]
Nothing == [nothing |-> TRUE]

VARIABLES
  disk,     \* the project's files
  saved,    \* code-index.json
  entries,  \* stores.get(projectId) is the last one; the earlier ones were replaced
  writes,   \* storeWrite: the entries whose write is queued or under way
  tmp,      \* what the write under way has serialised
  loads,    \* per caller of loadStore what it has read, or Nothing
  build,    \* the build that runs
  attached, \* has watchedProjects a watcher?
  event,    \* the pending debounce timer: empty, or its event
  updates,  \* queued tasks "code index update"
  wrote, builds, crashes,
  quiet,    \* history: files the build has listed, not changed, failed or replaced since
  failed    \* history: did the last write to begin fail?

vars == <<disk, saved, entries, writes, tmp, loads, build, attached, event, updates,
          wrote, builds, crashes, quiet, failed>>
memory == <<entries, writes, tmp, loads>>
watch == <<attached, event, updates>>
bounds == <<wrote, builds, crashes>>

Loaders == {"build", "search"}
Entry == [data : Store, dirty : BOOLEAN]
NoBuild == [at |-> "idle"]

TypeOK ==
  /\ disk \in [Files -> Versions] /\ saved \in Store
  /\ entries \in Seq(Entry) /\ writes \in Seq(DOMAIN entries)
  /\ tmp \in Store \cup {Nothing}
  /\ loads \in [Loaders -> Store \cup {Nothing}]
  /\ build.at \in {"idle", "load", "list", "loop", "read", "embed"}
  /\ attached \in BOOLEAN
  /\ wrote \in 0..MaxWrites /\ builds \in 0..MaxBuilds /\ crashes \in 0..MaxCrashes
  /\ quiet \subseteq Files /\ failed \in BOOLEAN

Loaded == entries # <<>>
Data == Last(entries).data

(* The files that the build has still before it, or in hand. *)
Ahead == CASE build.at = "loop" -> build.todo
           [] build.at \in {"read", "embed"} -> build.todo \cup {build.file}
           [] OTHER -> {}

Init ==
  /\ disk = [f \in Files |-> 0] /\ saved = Empty
  /\ entries = <<>> /\ writes = <<>> /\ tmp = Nothing
  /\ loads = [l \in Loaders |-> Nothing]
  /\ build = NoBuild /\ quiet = {} /\ failed = FALSE
  /\ attached = FALSE /\ event = <<>> /\ updates = <<>>
  /\ wrote = 0 /\ builds = 0 /\ crashes = 0

-----------------------------------------------------------------------------
(* The files and their watcher. *)

(* What chokidar reports for f: a watch without `cwd` reports the path it
   was given, project.path, joined with the file's. *)
Reported(f) == <<"project.path", f>>

\* The paths of the index are relative: none of them is an absolute one.
ASSUME ReportedAssumption == \A f \in Files : Reported(f) \notin Files

\* fire() of watchProjectCodeFiles: one timer for all files.
Fire(f, kind) == event' = IF attached THEN <<[path |-> Reported(f), kind |-> kind]>> ELSE event

(* The user's editor.  The watcher has no listener for "add". *)
Edit(f) ==
  /\ wrote < MaxWrites
  /\ wrote' = wrote + 1
  /\ \/ disk[f] = 0 /\ disk' = [disk EXCEPT ![f] = wrote'] /\ UNCHANGED event
     \/ disk[f] # 0 /\ disk' = [disk EXCEPT ![f] = wrote'] /\ Fire(f, "change")
     \/ disk[f] # 0 /\ disk' = [disk EXCEPT ![f] = 0] /\ Fire(f, "unlink")
  /\ quiet' = quiet \ {f}
  /\ UNCHANGED <<saved, memory, build, attached, updates, builds, crashes, failed>>

\* scheduleSave: an entry that is dirty has its timer.
ScheduleSave(e) == [e EXCEPT !.dirty = TRUE]

Dropped(e, k) ==
  LET without == [files |-> [f \in Files |-> IF f = k THEN 0 ELSE e.data.files[f]],
                  chunks |-> [f \in Files |-> IF f = k THEN 0 ELSE e.data.chunks[f]]]
      rest == [e EXCEPT !.data = without]
  IN  IF without.chunks # e.data.chunks THEN ScheduleSave(rest) ELSE rest

DropFile(k) == entries' = [entries EXCEPT ![Len(entries)] = Dropped(@, k)]

\* The callback of attachProjectWatcher: a removed file is dropped at once, an edit queued.
WatcherFires ==
  /\ event # <<>>
  /\ event' = <<>>
  /\ \/ event[1].kind = "unlink" /\ DropFile(event[1].path) /\ UNCHANGED updates
     \/ event[1].kind = "change" /\ updates' = Append(updates, event[1].path) /\ UNCHANGED entries
  /\ UNCHANGED <<disk, saved, writes, tmp, loads, build, attached, bounds, quiet, failed>>

(* updateFileInProjectIndex of a path that is not under project.path: the
   stat fails and the path is dropped.  No watcher names any other. *)
UpdateFile ==
  /\ build = NoBuild /\ updates # <<>>
  /\ updates' = Tail(updates)
  /\ Head(updates) \notin Files
  /\ DropFile(Head(updates))
  /\ UNCHANGED <<disk, saved, writes, tmp, loads, build, attached, event, bounds, quiet, failed>>

-----------------------------------------------------------------------------
(* The store. *)

\* loadStore, up to the end of readFile.
StartLoad(l) == loads' = [loads EXCEPT ![l] = saved]

(* loadStore after it: whoever comes last has the entry, and what the build
   has put into the one before it is not in this one. *)
EndLoad(l) ==
  /\ loads[l] # Nothing
  /\ entries' = Append(entries, [data |-> loads[l], dirty |-> FALSE])
  /\ loads' = [loads EXCEPT ![l] = Nothing]
  /\ build' = IF l = "build" THEN [at |-> "list"] ELSE build
  /\ quiet' = quiet \cap Ahead
  /\ UNCHANGED <<disk, saved, writes, tmp, watch, bounds, failed>>

\* searchProjectCode with no task queued: indexNeedsFullBuild loads the store.
Search ==
  /\ build = NoBuild /\ updates = <<>>
  /\ ~Loaded /\ loads["search"] = Nothing
  /\ StartLoad("search")
  /\ UNCHANGED <<disk, saved, entries, writes, tmp, build, watch, bounds, quiet, failed>>

\* The debounce timer of scheduleSave.
SaveTimer ==
  \E i \in DOMAIN entries :
    /\ entries[i].dirty
    /\ entries' = [entries EXCEPT ![i].dirty = FALSE]
    /\ writes' = Append(writes, i)
    /\ UNCHANGED <<disk, saved, tmp, loads, build, watch, bounds, quiet, failed>>

Serialise ==
  /\ writes # <<>> /\ tmp = Nothing
  /\ tmp' = entries[Head(writes)].data
  /\ failed' = FALSE
  /\ UNCHANGED <<disk, saved, entries, writes, loads, build, watch, bounds, quiet>>

(* Mutant: the entry is clean once its data are on disk. *)
RenameThenClean ==
  /\ tmp # Nothing
  /\ saved' = tmp /\ tmp' = Nothing
  /\ entries' = [entries EXCEPT ![Head(writes)].dirty = FALSE]
  /\ writes' = Tail(writes)
  /\ UNCHANGED <<disk, loads, build, watch, bounds, quiet, failed>>

\* rename(tmp, file) ends the write.
Rename ==
  /\ tmp # Nothing
  /\ saved' = tmp /\ tmp' = Nothing
  /\ writes' = Tail(writes)
  /\ UNCHANGED <<disk, entries, loads, build, watch, bounds, quiet, failed>>

(* ... unless it, or what came before it, fails: the error is logged, and
   nothing arms the timer again but the next update. *)
WriteFails ==
  /\ tmp # Nothing
  /\ tmp' = Nothing /\ failed' = TRUE
  /\ writes' = Tail(writes)
  /\ UNCHANGED <<disk, saved, entries, loads, build, watch, bounds, quiet>>

-----------------------------------------------------------------------------
(* buildProjectIndex, a task of the project's queue. *)

StartBuild ==
  /\ build = NoBuild /\ builds < MaxBuilds
  /\ builds' = builds + 1
  /\ IF Loaded THEN build' = [at |-> "list"] /\ UNCHANGED loads
               ELSE build' = [at |-> "load"] /\ StartLoad("build")
  /\ UNCHANGED <<disk, saved, entries, writes, tmp, watch, wrote, crashes, quiet, failed>>

ListFiles ==
  /\ build.at = "list"
  /\ quiet' = {f \in Files : disk[f] # 0}
  /\ build' = [at |-> "loop", todo |-> quiet']
  /\ UNCHANGED <<disk, saved, memory, watch, bounds, failed>>

UnderCaps == Cardinality({f \in Files : Data.files[f] # 0}) < MaxFiles

(* Mutant: a file with a record is indexed, whatever its mtime. *)
IsFileRecorded(f) == Data.files[f] # 0

IsFileIndexed(f) == Data.files[f] = disk[f]

\* The stat of the next file: the loop continues, or goes on to read it.
NextFile(f) ==
  /\ build.at = "loop" /\ f \in build.todo /\ UnderCaps
  /\ LET rest == build.todo \ {f}
     IN  build' = IF disk[f] = 0 \/ IsFileIndexed(f)
                  THEN [at |-> "loop", todo |-> rest]
                  ELSE [at |-> "read", todo |-> rest, file |-> f, mtime |-> disk[f]]
  /\ UNCHANGED <<disk, saved, memory, watch, bounds, quiet, failed>>

Continue == build' = [at |-> "loop", todo |-> build.todo]

(* Mutant: the mtime is looked at after the content was read. *)
ReadFileBeforeStat ==
  /\ build.at = "read"
  /\ \E content \in {build.mtime, disk[build.file]} :
       IF disk[build.file] = 0 THEN Continue
       ELSE build' = [at |-> "embed", todo |-> build.todo, file |-> build.file,
                      mtime |-> disk[build.file], content |-> content]
  /\ UNCHANGED <<disk, saved, memory, watch, bounds, quiet, failed>>

ReadFile ==
  /\ build.at = "read"
  /\ IF disk[build.file] = 0 THEN Continue
     ELSE build' = [at |-> "embed", todo |-> build.todo, file |-> build.file,
                    mtime |-> build.mtime, content |-> disk[build.file]]
  /\ UNCHANGED <<disk, saved, memory, watch, bounds, quiet, failed>>

Upserted(e, b) ==
  ScheduleSave([e EXCEPT !.data = [files |-> [@.files EXCEPT ![b.file] = b.mtime],
                                   chunks |-> [@.chunks EXCEPT ![b.file] = b.content]]])

\* The vectors are there: upsertChunks finds the entry of that moment.
Embedded ==
  /\ build.at = "embed"
  /\ entries' = [entries EXCEPT ![Len(entries)] = Upserted(@, build)]
  /\ Continue
  /\ UNCHANGED <<disk, saved, writes, tmp, loads, watch, bounds, quiet, failed>>

EmbedFails ==
  /\ build.at = "embed"
  /\ Continue
  /\ quiet' = quiet \ {build.file}
  /\ UNCHANGED <<disk, saved, memory, watch, bounds, failed>>

\* The end of the loop, or its break at the cap; attachProjectWatcher.
EndBuild ==
  /\ build.at = "loop" /\ (build.todo = {} \/ ~UnderCaps)
  /\ build' = NoBuild /\ quiet' = {}
  /\ attached' = TRUE
  /\ UNCHANGED <<disk, saved, memory, event, updates, bounds, failed>>

(* The process ends and is started again. *)
Crash ==
  /\ crashes < MaxCrashes
  /\ crashes' = crashes + 1
  /\ entries' = <<>> /\ writes' = <<>> /\ tmp' = Nothing
  /\ loads' = [l \in Loaders |-> Nothing]
  /\ build' = NoBuild /\ quiet' = {} /\ failed' = FALSE
  /\ attached' = FALSE /\ event' = <<>> /\ updates' = <<>>
  /\ UNCHANGED <<disk, saved, wrote, builds>>

Steps ==
  \/ WatcherFires \/ UpdateFile \/ SaveTimer \/ Serialise \/ Rename
  \/ ListFiles \/ ReadFile \/ Embedded \/ EndBuild
  \/ \E f \in Files : NextFile(f)
  \/ \E l \in Loaders : EndLoad(l)

Next == Steps \/ EmbedFails \/ WriteFails \/ Search \/ StartBuild \/ Crash \/ \E f \in Files : Edit(f)

(* Timers fire and awaited calls return; nobody has to ask or to edit. *)
Spec == Init /\ [][Next]_vars /\ WF_vars(Steps)

-----------------------------------------------------------------------------
Stores == {entries[i].data : i \in DOMAIN entries} \cup {saved} \cup ({tmp} \ {Nothing})

(* What makes skipping safe (codeIndexBuilder.js:139-145, :168): wherever  *)
(* the recorded mtime is the file's own, in memory or on disk, the chunks  *)
(* are of that very content.  A file written between its stat and its read *)
(* or during the embedding is seen by the next build.                      *)
RecordedIsCurrent ==
  \A s \in Stores, f \in Files :
    s.files[f] # 0 /\ s.files[f] = disk[f] => s.chunks[f] = disk[f]

(* The write behind (codeIndexStore.js:62-85) forgets nothing while the    *)
(* store is the one that was loaded first and its last write did not fail: *)
(* what is not on disk has a timer or a write that has not been serialised *)
(* yet, however upserts, timers and slow writes overlap.  After a second   *)
(* load (LoadsKeepUpserts) or a failed write it is not so.                 *)
NothingUnsaved ==
  Len(entries) = 1 /\ ~failed /\ Data # saved =>
    Data = tmp \/ Last(entries).dirty \/ \E i \in DOMAIN writes : i > 1 \/ tmp = Nothing

(* What a build has passed is indexed as it is on disk, unless since the   *)
(* files were listed it was changed or failed to be embedded, or a second  *)
(* load replaced the store after the build had passed it                   *)
(* (codeIndexBuilder.js:124-169, codeIndexStore.js:33, 50, 56).            *)
PassedIsIndexed == \A f \in quiet \ Ahead : Data.chunks[f] = disk[f]

(* An indexed file that changes is re-indexed by its watcher               *)
(* (fileWatcher.js:117-123, "the callback carries the changed file's path  *)
(* so the index can re-chunk just that file").                             *)
EditsAreIndexed ==
  \A f \in Files :
    (attached /\ event = <<[path |-> Reported(f), kind |-> "change"]>>)
      ~> (~attached \/ Data.chunks[f] = disk[f])

(* The chunks of a removed file leave the index with it                    *)
(* (codeIndexBuilder.js:176-177, "Unlink events drop the file's chunks").  *)
RemovedFilesLeave ==
  \A f \in Files :
    (attached /\ event = <<[path |-> Reported(f), kind |-> "unlink"]>>)
      ~> (~attached \/ disk[f] # 0 \/ Data.chunks[f] = 0)

(* A build finds what an earlier one has recorded, whoever else loads the  *)
(* store meanwhile (codeIndexStore.js:26-28, "the builder warms the cache  *)
(* before every build so the synchronous file checks below read current    *)
(* state").                                                                *)
LoadsKeepUpserts == [][Loaded /\ Loaded' /\ Len(entries') > Len(entries) => Data' = Data]_vars
=============================================================================
