----------------------------- MODULE SessionStore -----------------------------
(***************************************************************************)
(* The persistence of chat sessions: server/conversationStore.js,          *)
(* sessionIndex.js and sessionMigration.js.                                *)
(*                                                                         *)
(* A session is a message log and a meta file, in its project or, before   *)
(* that is known, in the legacy store; an index file has a copy of every   *)
(* meta.  Operations that write run one at a time on a promise chain       *)
(* (serializePersistence), but each is a sequence of awaited file          *)
(* operations: the process may end between any two, and listSessions and   *)
(* getSession read and write the index without waiting for the chain.      *)
(*                                                                         *)
(* A call on the chain is a job: what is left of it is a sequence of       *)
(* instructions, one for each awaited file operation, and it holds the     *)
(* index and the meta that it has read.  A message is a number; a title is *)
(* the default, made of the first message, or given by the user.           *)
(***************************************************************************)
EXTENDS Integers, Sequences, FiniteSets, SequencesExt

CONSTANTS Sessions,    \* ids of sessions
          Users,       \* accounts
          None,        \* no owner, no file
          Slots,       \* places for calls of the chain that run at a time
          MaxCalls,    \* bound: calls that write
          MaxReads,    \* bound: sessions read, and listings
          MaxMessages, \* bound: messages
          MaxFaults    \* bound: ends of the process, and file operations that fail

ASSUME SessionStoreAssumption ==
  /\ IsFiniteSet(Sessions) /\ IsFiniteSet(Users) /\ IsFiniteSet(Slots) /\ Slots # {}
  /\ None \notin Users
  /\ "undefined" \notin Sessions /\ "idle" \notin Sessions
  /\ {MaxCalls, MaxReads, MaxMessages, MaxFaults} \subseteq Nat

Messages == 1..MaxMessages
Titles == {"default", "auto", "user"}

\* projectId and projectPath set or not; the rest as in the file.
Meta == [linked : BOOLEAN, inProject : BOOLEAN, title : Titles, count : Nat,
         owner : Users \cup {None}, shared : SUBSET Users]

\* An index is keyed by ids, and by what an entry without an id is stored under.
Keys == Sessions \cup {"undefined"}
IsIndex(i) == DOMAIN i \subseteq Keys /\ i \in [DOMAIN i -> Meta]
EmptyIndex == [k \in {} |-> None]

NoJob == [todo |-> <<>>]
Idle == [at |-> "idle"]

VARIABLES
  index,       \* data/conversations/index.json
  meta,        \* the project's <id>.json, or None
  legacy,      \* data/conversations/<id>.json, or None
  log,         \* the project's <id>.ndjson
  legacyLog,   \* data/conversations/<id>.ndjson
  known,       \* is the project of the linked sessions among allKnownProjects()?
  jobs,        \* the calls that run
  migrations,  \* migrations that wait for the chain, with the session they read
  lister,      \* listSessions in its reconciliation, with the index it read
  getter,      \* getSession between its read and its clean-up, likewise
  calls, reads, sent, faults,
  born,        \* history: where a session was created, or "no"
  acked,       \* history: messages of a session that were appended
  granted,     \* history: users a session was shared with and not unshared
  gone,        \* history: sessions that were deleted
  missed,      \* history: messages of a session that could not be appended
  torn,        \* history: logs that a rewrite in place left empty
  disturbed    \* history: a crash within a job, a write that failed, or an
               \* outdated index written back

files == <<index, meta, legacy, log, legacyLog>>
outsiders == <<migrations, lister, getter>>
counters == <<known, calls, reads, sent, faults>>
history == <<born, acked, missed, granted, gone, torn, disturbed>>
vars == <<files, jobs, outsiders, counters, history>>

TypeOK ==
  /\ IsIndex(index)
  /\ meta \in [Sessions -> Meta \cup {None}]
  /\ legacy \in [Sessions -> Meta \cup {None}]
  /\ {log, legacyLog} \subseteq [Sessions -> Seq(Messages)]
  /\ known \in BOOLEAN
  /\ DOMAIN jobs = Slots
  /\ \A k \in Slots : jobs[k] = NoJob \/ (jobs[k].s \in Sessions /\ IsIndex(jobs[k].idx)
                                             /\ jobs[k].meta \in Meta)
  /\ migrations \subseteq [s : Sessions, meta : Meta]
  /\ lister = Idle \/ (lister.at \in {"read", "scanned"} /\ IsIndex(lister.idx))
  /\ getter = Idle \/ (getter.at \in Sessions /\ IsIndex(getter.idx))
  /\ calls \in 0..MaxCalls /\ reads \in 0..MaxReads /\ sent \in 0..MaxMessages /\ faults \in 0..MaxFaults
  /\ born \in [Sessions -> {"no", "project", "general"}]
  /\ acked \in [Sessions -> SUBSET Messages] /\ missed \in [Sessions -> Nat]
  /\ granted \in [Sessions -> SUBSET Users]
  /\ gone \subseteq Sessions /\ torn \subseteq Sessions /\ disturbed \in BOOLEAN

Put(idx, k, m) == [i \in DOMAIN idx \cup {k} |-> IF i = k THEN m ELSE idx[i]]
Drop(idx, k) == [i \in DOMAIN idx \ {k} |-> idx[i]]

-----------------------------------------------------------------------------
(* The programs of the calls. *)

SetIndexEntry == <<"readIndex", "putEntry">>

CreateProgram(m) ==
  <<IF m.inProject THEN "writeMeta" ELSE "writeLegacy">> \o SetIndexEntry

DeleteProgram ==
  <<"loadAny", "unlinkMeta", "unlinkLog", "unlinkLegacy", "unlinkLegacyLog", "dropEntry">>

\* The entry that is stored has no id: it goes under "undefined".
RenameProgram == <<"load", "writeRenamed", "readIndex", "putUndefined">>

AppendProgram == <<"load", "append", "writeMeta">> \o SetIndexEntry

ShareProgram == <<"load", "share", "writeMeta">>
UnshareProgram == <<"load", "unshare", "writeMeta">>

\* The log is read, and its rewrite is a write in place.
PatchProgram == <<"load", "rewrite">>

(* Mutant: the old log goes before the new one is written. *)
MoveLogUnlinkFirst == <<"unlinkLegacyLog", "copyLog">>

MoveLegacyLog == <<"copyLog", "unlinkLegacyLog">>

MoveProgram == MoveLegacyLog \o <<"writeMeta", "unlinkLegacy">> \o SetIndexEntry

\* migrateLegacySession: a move if the project can be resolved, else an entry.
MigrateProgram(m) == IF m.linked /\ known THEN MoveProgram ELSE SetIndexEntry

(* Mutant: a call within a call waits for the chain, which its caller holds. *)
NestedWaits(program) == <<"awaitChain">> \o program

\* A call from within the holder of the chain runs inline.
Nested(program) == program

\* linkSessionToProject: getSession, then the move if there is no project yet.
LinkProgram(m) ==
  Nested(MigrateProgram(m)) \o (IF m.linked THEN <<>> ELSE <<"resolve">> \o MoveProgram)

\* Every call on the chain has settled.
ChainFree == \A k \in Slots : jobs[k] = NoJob

(* Mutant: whoever calls while the chain is held runs at once. *)
MayBeginAlways == TRUE

\* serializePersistence starts a call when the one before it has settled.
MayBegin == ChainFree

\* A call that has read m, and names user u.
Begin(s, program, m, u) ==
  /\ MayBegin
  /\ \E k \in Slots : jobs[k] = NoJob
  /\ jobs' = [jobs EXCEPT ![CHOOSE k \in Slots : jobs[k] = NoJob] =
                 [s |-> s, todo |-> program, idx |-> EmptyIndex, meta |-> m, user |-> u]]

NewMeta(linked, inProject, owner) ==
  [linked |-> linked, inProject |-> inProject, title |-> "default", count |-> 0,
   owner |-> owner, shared |-> {}]

\* What a job holds before it has loaded its session.
Blank == NewMeta(FALSE, FALSE, None)

-----------------------------------------------------------------------------
(* Calls. *)

Call(s, program, u) ==
  /\ calls < MaxCalls
  /\ calls' = calls + 1
  /\ born[s] # "no" /\ s \notin gone
  /\ Begin(s, program, Blank, u)
  /\ UNCHANGED <<files, outsiders, known, reads, sent, faults, history>>

CreateSession(s) ==
  \E linked \in BOOLEAN, owner \in Users \cup {None} :
    LET m == NewMeta(linked, linked /\ known, owner)
    IN  /\ calls < MaxCalls
        /\ calls' = calls + 1
        /\ born[s] = "no"
        /\ Begin(s, CreateProgram(m), m, None)
        /\ born' = [born EXCEPT ![s] = IF m.inProject THEN "project" ELSE "general"]
        /\ UNCHANGED <<files, outsiders, known, reads, sent, faults, acked, missed, granted, gone, torn,
                       disturbed>>

DeleteSession(s) == Call(s, DeleteProgram, None)
RenameSession(s) == Call(s, RenameProgram, None)
AppendMessage(s) == sent < MaxMessages /\ Call(s, AppendProgram, None)
ShareSession(s) == \E u \in Users : Call(s, ShareProgram, u)
UnshareSession(s) == \E u \in Users : Call(s, UnshareProgram, u)
PatchMessageMeta(s) == Call(s, PatchProgram, None)

\* getSession falls through to the legacy file.
AtLegacy(s, idx) ==
  /\ legacy[s] # None
  /\ ~(s \in DOMAIN idx /\ idx[s].inProject /\ meta[s] # None)

\* Of a session that getSession finds in its project there is nothing to link.
LinkSessionToProject(s) ==
  /\ known
  /\ AtLegacy(s, index)
  /\ calls < MaxCalls
  /\ calls' = calls + 1
  /\ Begin(s, LinkProgram(legacy[s]), [legacy[s] EXCEPT !.inProject = @ \/ legacy[s].linked], None)
  /\ UNCHANGED <<files, outsiders, known, reads, sent, faults, history>>

\* A migration that a reader asked for gets its turn.
MigrateLegacySession ==
  \E g \in migrations :
    /\ Begin(g.s, MigrateProgram(g.meta),
             [g.meta EXCEPT !.inProject = g.meta.linked /\ known], None)
    /\ migrations' = migrations \ {g}
    /\ UNCHANGED <<files, lister, getter, counters, history>>

-----------------------------------------------------------------------------
(* Instructions. *)

\* The first user message gives a chat its title.
Counted(m) ==
  [m EXCEPT !.count = @ + 1,
            !.title = IF @ = "default" /\ m.count < 2 THEN "auto" ELSE @]

Unowned(m) == [m EXCEPT !.owner = None, !.shared = {}]

\* shareSession refuses the owner, unshareSession nobody.
Shared(j) ==
  IF j.user = j.meta.owner THEN j.meta.shared ELSE j.meta.shared \cup {j.user}

\* Instructions that write the index.
IndexStep(j, i) ==
  /\ \/ i = "putEntry" /\ index' = Put(j.idx, j.s, j.meta) /\ UNCHANGED granted
     \/ /\ i = "putUndefined"
        /\ index' = Put(j.idx, "undefined", [j.meta EXCEPT !.title = "user"])
        /\ UNCHANGED granted
     \/ /\ i = "dropEntry"
        /\ index' = IF j.s \in DOMAIN j.idx THEN Drop(j.idx, j.s) ELSE index
        /\ UNCHANGED granted
     \/ /\ i = "share"
        /\ index' = Put(j.idx, j.s, [j.meta EXCEPT !.shared = Shared(j)])
        /\ granted' = [granted EXCEPT ![j.s] = @ \cup ({j.user} \ {j.meta.owner})]
     \/ /\ i = "unshare"
        /\ index' = Put(j.idx, j.s, [j.meta EXCEPT !.shared = @ \ {j.user}])
        /\ granted' = [granted EXCEPT ![j.s] = @ \ {j.user}]
  /\ UNCHANGED <<meta, legacy, log, legacyLog, sent, born, acked, missed, gone, torn, disturbed>>

\* Instructions that write or remove a meta file.
MetaStep(j, i) ==
  /\ \/ /\ i = "writeMeta"
        /\ meta' = IF j.meta.inProject THEN [meta EXCEPT ![j.s] = j.meta] ELSE meta
        /\ UNCHANGED legacy
     \/ /\ i = "writeLegacy" /\ legacy' = [legacy EXCEPT ![j.s] = j.meta] /\ UNCHANGED meta
     \/ /\ i = "writeRenamed" /\ j.meta.inProject
        /\ meta' = [meta EXCEPT ![j.s] = Unowned([j.meta EXCEPT !.title = "user"])]
        /\ UNCHANGED legacy
     \/ /\ i = "writeRenamed" /\ ~j.meta.inProject
        /\ legacy' = [legacy EXCEPT ![j.s] = [j.meta EXCEPT !.title = "user"]]
        /\ UNCHANGED meta
     \/ /\ i = "unlinkMeta"
        /\ meta' = IF j.meta.inProject THEN [meta EXCEPT ![j.s] = None] ELSE meta
        /\ UNCHANGED legacy
     \/ /\ i = "unlinkLegacy" /\ legacy' = [legacy EXCEPT ![j.s] = None] /\ UNCHANGED meta
  /\ gone' = IF i = "unlinkMeta" THEN gone \cup {j.s} ELSE gone
  /\ UNCHANGED <<index, log, legacyLog, sent, born, acked, missed, granted, torn, disturbed>>

\* Instructions on the message logs.
LogStep(j, i) ==
  LET s == j.s
      To(l) == IF i = "append" THEN [l EXCEPT ![s] = Append(@, sent + 1)] ELSE l
  IN
  /\ \/ /\ i = "append"
        /\ log' = IF j.meta.inProject THEN To(log) ELSE log
        /\ legacyLog' = IF j.meta.inProject THEN legacyLog ELSE To(legacyLog)
     \/ i = "copyLog" /\ log' = [log EXCEPT ![s] = @ \o legacyLog[s]] /\ UNCHANGED legacyLog
     \/ i = "unlinkLegacyLog" /\ legacyLog' = [legacyLog EXCEPT ![s] = <<>>] /\ UNCHANGED log
     \/ /\ i = "unlinkLog"
        /\ log' = IF j.meta.inProject THEN [log EXCEPT ![s] = <<>>] ELSE log
        /\ UNCHANGED legacyLog
     \/ i = "rewrite" /\ UNCHANGED <<log, legacyLog>>
  /\ sent' = IF i = "append" THEN sent + 1 ELSE sent
  /\ acked' = IF i = "append" THEN [acked EXCEPT ![s] = @ \cup {sent + 1}] ELSE acked
  /\ UNCHANGED <<index, meta, legacy, born, missed, granted, gone, torn, disturbed>>

\* Instructions that only read.
ReadStep(i) ==
  /\ i \in {"load", "loadAny", "readIndex", "resolve"}
  /\ UNCHANGED <<files, sent, history>>

\* The job once instruction i is done.  A call ends early when the index has no
\* such session; only a deletion goes on, with the legacy files.
Advanced(j, i) ==
  LET rest == [j EXCEPT !.todo = Tail(@)]
      next == CASE i \in {"load", "loadAny"} /\ j.s \in DOMAIN index ->
                     [rest EXCEPT !.idx = index, !.meta = index[j.s]]
                [] i = "load" /\ j.s \notin DOMAIN index -> NoJob
                [] i = "readIndex" -> [rest EXCEPT !.idx = index]
                [] i = "resolve" ->
                     [rest EXCEPT !.meta.linked = TRUE, !.meta.inProject = TRUE,
                                  !.meta.title = "default"]
                [] i = "append" -> [rest EXCEPT !.meta = Counted(@)]
                [] i = "share" -> [rest EXCEPT !.meta.shared = Shared(j)]
                [] i = "unshare" -> [rest EXCEPT !.meta.shared = @ \ {j.user}]
                [] OTHER -> rest
  IN  IF next.todo = <<>> THEN NoJob ELSE next

Step(k) ==
  /\ jobs[k] # NoJob
  /\ LET j == jobs[k]
         i == Head(j.todo)
     IN  /\ IndexStep(j, i) \/ MetaStep(j, i) \/ LogStep(j, i) \/ ReadStep(i)
         /\ jobs' = [jobs EXCEPT ![k] = Advanced(j, i)]
  /\ UNCHANGED <<outsiders, known, calls, reads, faults>>

\* A rewrite in place that is interrupted leaves the logs in cut empty.
Cut(cut) ==
  /\ log' = [s \in Sessions |-> IF s \in cut THEN <<>> ELSE log[s]]
  /\ legacyLog' = [s \in Sessions |-> IF s \in cut THEN <<>> ELSE legacyLog[s]]
  /\ torn' = torn \cup cut

\* Failures that are caught, after which the call goes on: an unlink, and the
\* meta file of an append or of a share (writeProjectMetaFile).
Caught(j, i) ==
  \/ i \in {"unlinkMeta", "unlinkLog", "unlinkLegacy", "unlinkLegacyLog"}
  \/ i = "writeMeta" /\ (j.todo = <<"writeMeta">>
                          \/ (j.meta.count > 0 /\ j.todo[2] # "unlinkLegacy"))

\* appendMessage logs the failure of its append, and counts the message.
FailAppend(j, i) ==
  /\ i = "append"
  /\ missed' = [missed EXCEPT ![j.s] = @ + 1]
  /\ UNCHANGED <<log, legacyLog, gone, torn, disturbed>>

\* Any other write that fails leaves the files apart.
FailWrite(j, i) ==
  /\ i \notin {"append", "load", "loadAny", "readIndex", "resolve"}
  /\ i \in {"writeMeta", "unlinkMeta", "unlinkLog"} => j.meta.inProject
  /\ \E cut \in SUBSET (IF i = "rewrite" THEN {j.s} ELSE {}) : Cut(cut)
  /\ gone' = IF i = "unlinkMeta" THEN gone \cup {j.s} ELSE gone
  /\ disturbed' = TRUE
  /\ UNCHANGED missed

\* A file operation fails: the call goes on or is over.
Fail(k) ==
  /\ faults < MaxFaults /\ faults' = faults + 1
  /\ jobs[k] # NoJob
  /\ LET j == jobs[k]
         i == Head(j.todo)
     IN  /\ FailAppend(j, i) \/ FailWrite(j, i)
         /\ jobs' = [jobs EXCEPT ![k] =
                        IF i = "append" \/ Caught(j, i) THEN Advanced(j, i) ELSE NoJob]
  /\ UNCHANGED <<index, meta, legacy, outsiders, known, calls, reads, sent, born, acked, granted>>

-----------------------------------------------------------------------------
(* Those who do not wait for the chain. *)

\* listSessions migrates the legacy sessions that its index does not have.
ListMigrate(s) ==
  /\ reads < MaxReads /\ reads' = reads + 1
  /\ legacy[s] # None /\ s \notin DOMAIN index
  /\ migrations' = migrations \cup {[s |-> s, meta |-> legacy[s]]}
  /\ UNCHANGED <<files, jobs, lister, getter, known, calls, sent, faults, history>>

\* reconcileIndexFromDisk, past its fast path.
ListRead ==
  /\ reads < MaxReads /\ reads' = reads + 1
  /\ lister = Idle
  /\ lister' = [at |-> "read", idx |-> index]
  /\ UNCHANGED <<files, jobs, migrations, getter, known, calls, sent, faults, history>>

\* Only what the index does not have is absorbed.
Missing(idx, s) == s \notin DOMAIN idx

\* What can be known of a session that has only its log.
OfLog(s) == [Blank EXCEPT !.inProject = TRUE, !.title = "auto", !.count = Len(log[s])]

\* The session as the scan of the directories finds it, or None.
OnDisk(s) ==
  CASE known /\ meta[s] # None -> Unowned(meta[s])
    [] known /\ meta[s] = None /\ log[s] # <<>> -> OfLog(s)
    [] ~(known /\ (meta[s] # None \/ log[s] # <<>>)) ->
         IF legacy[s] = None THEN None ELSE Unowned(legacy[s])

\* The index with what is on disk and missing in it.
Absorbed(idx) ==
  LET found == {s \in Sessions : Missing(idx, s) /\ OnDisk(s) # None}
  IN  [k \in DOMAIN idx \cup found |-> IF k \in found THEN OnDisk(k) ELSE idx[k]]

ListScan ==
  /\ lister.at = "read"
  /\ lister' = IF Absorbed(lister.idx) = lister.idx THEN Idle
               ELSE [at |-> "scanned", idx |-> Absorbed(lister.idx)]
  /\ UNCHANGED <<files, jobs, migrations, getter, counters, history>>

\* Written back, an index loses what was written since it was read.
Outdated(idx) == \E k \in DOMAIN index : k \notin DOMAIN idx \/ idx[k] # index[k]

ListWrite ==
  /\ lister.at = "scanned"
  /\ index' = lister.idx
  /\ disturbed' = (disturbed \/ Outdated(lister.idx))
  /\ lister' = Idle
  /\ UNCHANGED <<meta, legacy, log, legacyLog, jobs, migrations, getter, counters, born, acked, missed,
                 granted, gone, torn>>

GetRead(s) ==
  /\ reads < MaxReads /\ reads' = reads + 1
  /\ getter = Idle
  /\ getter' = [at |-> s, idx |-> index]
  /\ UNCHANGED <<files, jobs, migrations, lister, known, calls, sent, faults, history>>

\* The stale entry is dropped when both files are gone.
GetFinish(s) ==
  LET stale == legacy[s] = None /\ s \in DOMAIN getter.idx
               /\ ~(getter.idx[s].inProject /\ meta[s] # None)
  IN
  /\ getter.at = s
  /\ migrations' = IF AtLegacy(s, getter.idx)
                   THEN migrations \cup {[s |-> s, meta |-> legacy[s]]} ELSE migrations
  /\ index' = IF stale THEN Drop(getter.idx, s) ELSE index
  /\ disturbed' = (disturbed \/ (stale /\ (s \notin gone \/ Outdated(getter.idx))))
  /\ getter' = Idle
  /\ UNCHANGED <<meta, legacy, log, legacyLog, jobs, lister, counters, born, acked, missed, granted,
                 gone, torn>>

\* A scan finds the project.
Discover ==
  /\ ~known /\ known' = TRUE
  /\ UNCHANGED <<files, jobs, outsiders, calls, reads, sent, faults, history>>

\* The process ends, and another one is started.  A log that is being rewritten
\* in place may be left empty.
Crash ==
  LET rewritten == {jobs[k].s : k \in {q \in Slots : jobs[q] # NoJob /\ Head(jobs[q].todo) = "rewrite"}}
  IN
  /\ faults < MaxFaults
  /\ faults' = faults + 1
  /\ \E cut \in SUBSET rewritten : Cut(cut)
  /\ disturbed' = (disturbed \/ ~ChainFree)
  /\ jobs' = [k \in Slots |-> NoJob]
  /\ migrations' = {} /\ lister' = Idle /\ getter' = Idle
  /\ UNCHANGED <<index, meta, legacy, known, calls, reads, sent, born, acked, missed, granted, gone>>

-----------------------------------------------------------------------------

Init ==
  /\ index = EmptyIndex
  /\ meta = [s \in Sessions |-> None] /\ legacy = meta
  /\ log = [s \in Sessions |-> <<>>] /\ legacyLog = log
  /\ known \in BOOLEAN
  /\ jobs = [k \in Slots |-> NoJob]
  /\ migrations = {} /\ lister = Idle /\ getter = Idle
  /\ calls = 0 /\ reads = 0 /\ sent = 0 /\ faults = 0
  /\ born = [s \in Sessions |-> "no"]
  /\ acked = [s \in Sessions |-> {}] /\ granted = acked
  /\ missed = [s \in Sessions |-> 0]
  /\ gone = {} /\ torn = {} /\ disturbed = FALSE

Next ==
  \/ \E s \in Sessions :
       \/ CreateSession(s) \/ DeleteSession(s) \/ RenameSession(s) \/ AppendMessage(s)
       \/ ShareSession(s) \/ UnshareSession(s) \/ PatchMessageMeta(s)
       \/ LinkSessionToProject(s)
       \/ ListMigrate(s) \/ GetRead(s) \/ GetFinish(s)
  \/ MigrateLegacySession
  \/ \E k \in Slots : Step(k) \/ Fail(k)
  \/ ListRead \/ ListScan \/ ListWrite
  \/ Discover \/ Crash

\* An awaited file operation comes back.
Spec == Init /\ [][Next]_vars /\ \A k \in Slots : WF_vars(Step(k))

-----------------------------------------------------------------------------
(* Properties. *)

\* A message that was appended is in a log of its session until the session is
\* deleted, through every migration and link, whatever crashes or fails, unless
\* a rewrite of that log in place was cut (moveLegacyLog copies, then unlinks).
NoMessageLost ==
  \A s \in Sessions \ (gone \cup torn) : acked[s] \subseteq ToSet(log[s]) \cup ToSet(legacyLog[s])

\* At rest, and as long as no crash fell into a call, no other write than an append
\* failed and no outdated index was written back, the index counts the messages of
\* a project session, those in its log and those that could not be appended
\* (conversationStore.js:234-244), and so does its meta file: no increment is lost
\* (serializePersistence).
CountsAgree ==
  (ChainFree /\ ~disturbed) =>
    \A s \in (DOMAIN index \cap Sessions) \ gone :
      born[s] = "project" => /\ index[s].count = Len(log[s]) + missed[s]
                             /\ meta[s] # None => meta[s].count = index[s].count

\* Likewise who a project session is shared with stays as the calls left it,
\* whatever else is written to the index meanwhile.
SharesSurvive ==
  (ChainFree /\ ~disturbed) =>
    \A s \in (DOMAIN index \cap Sessions) \ gone : born[s] = "project" => index[s].shared = granted[s]

\* Every call that has begun returns; a call within a call does not wait for the
\* chain that its caller holds.
EveryCallReturns == \A k \in Slots : (jobs[k] # NoJob) ~> (jobs[k] = NoJob)

-----------------------------------------------------------------------------
(* What comments of the code say, and the code does not do. *)

\* conversationStore.js:194 -- a rename never leaves the sidebar, which shows the
\* index, and the open chat, which shows the meta file, with different titles.
TitlesAgree ==
  (ChainFree /\ ~disturbed) =>
    \A s \in (DOMAIN index \cap Sessions) \ gone : meta[s] # None => index[s].title = meta[s].title

\* conversationStore.js:26 -- the owner never drifts between the file and the index.
OwnersAgree ==
  (ChainFree /\ ~disturbed) =>
    \A s \in (DOMAIN index \cap Sessions) \ gone : meta[s] # None => index[s].owner = meta[s].owner

\* Whatever is in the index is a session.
EntriesAreSessions == DOMAIN index \subseteq Sessions

\* sessionIndex.js:14 -- the count does not drift: for sessions without a project too.
GeneralCountsAgree ==
  (ChainFree /\ ~disturbed) =>
    \A s \in (DOMAIN index \cap Sessions) \ gone : index[s].count = Len(log[s]) + Len(legacyLog[s]) + missed[s]

\* conversationStore.js:284 -- a share lasts until it is taken back.
GeneralSharesSurvive ==
  (ChainFree /\ ~disturbed) =>
    \A s \in (DOMAIN index \cap Sessions) \ gone : index[s].shared = granted[s]

\* sessionIndex.js:104 -- live metadata is not clobbered by a reconciliation.
ReconcileSparesLiveEntries ==
  [][lister.at = "scanned" /\ lister'.at = "idle" /\ faults' = faults =>
       \A k \in DOMAIN index : k \in DOMAIN index' /\ index'[k] = index[k]]_vars

\* conversationStore.js:156 -- a session that was deleted is not resurrected.
DeletedStaysDeleted ==
  (ChainFree /\ migrations = {} /\ faults = 0) => gone \cap DOMAIN index = {}

=============================================================================
