------------------------------- MODULE Rollback -------------------------------
(***************************************************************************)
(* How changes to a project's files can be taken back: the pre-image       *)
(* journal and the file locks of server/aiGuardrails.js, the action        *)
(* history of tools.js and actionHistory.js, and the git checkpoints of    *)
(* gitSafety.js.                                                           *)
(*                                                                         *)
(* A call is a sequence of instructions, one for each awaited operation.   *)
(* Edits by tools take the lock of their file; file operations of the      *)
(* trigger mode, undos and reverts do not, and neither do the user's own   *)
(* editor and git.  A file's content is the number of the write that made  *)
(* it, or 0 if there is no file.                                           *)
(***************************************************************************)
EXTENDS Integers, Sequences, FiniteSets, SequencesExt

CONSTANTS Files,       \* paths of one project
          Callers,     \* connections
          MaxCalls,    \* bound: calls
          MaxWrites,   \* bound: writes
          MaxOutside,  \* bound: what the user does in an editor or with git
          MaxJournal   \* MAX_JOURNAL_ENTRIES

ASSUME RollbackAssumption ==
  /\ IsFiniteSet(Files) /\ IsFiniteSet(Callers) /\ "free" \notin Callers
  /\ {MaxCalls, MaxWrites, MaxOutside} \subseteq Nat
  /\ MaxJournal \in Nat \ {0}

\* The last one is what a file has in the first commit.
Contents == 0..(MaxWrites + 1)
Original == MaxWrites + 1
Tree == [Files -> Contents]
Commit == [by : {"user", "console"}, tree : Tree]

NoCall == [todo |-> <<>>]

VARIABLES
  disk,      \* the working tree
  journal,   \* journal of aiGuardrails: entries in the order of insertion
  locks,     \* fileLocks: per file the calls that hold or wait for it
  history,   \* action-history.jsonl, file actions only
  commits,   \* the branch that is checked out
  stage,     \* the index of git
  indexLock, \* who has .git/index.lock
  mutex,     \* who has the checkpoint mutex of the project
  call,      \* what each connection is doing
  calls, writes, outside,
  firsts,    \* history: per file what the edits since its entry replaced, or failed on
  raced,     \* history: files with an edit that wrote over a change it had not read
  slipped,   \* history: did a commit fall between the look and the reset of an undo?
  failed     \* history: has a checkpoint found the lock of the index taken?

gitVars == <<commits, stage, indexLock, mutex, slipped, failed>>
editVars == <<journal, locks, history, firsts>>
vars == <<disk, editVars, gitVars, call, calls, writes, outside, raced>>

Entry == [file : Files, pre : Contents, base : Contents, before : Contents]
JournalEntry == [file : Files, content : Contents]

TypeOK ==
  /\ disk \in Tree
  /\ journal \in Seq(JournalEntry) /\ Len(journal) <= MaxJournal
  /\ \A i, j \in DOMAIN journal : journal[i].file = journal[j].file => i = j
  /\ locks \in [Files -> Seq(Callers)]
  /\ history \in Seq(Entry)
  /\ commits \in Seq(Commit) /\ commits # <<>>
  /\ stage \in Tree
  /\ indexLock \in Callers \cup {"free"} /\ mutex \in Callers \cup {"free"}
  /\ \A c \in Callers : call[c] = NoCall \/ (call[c].file \in Files /\ call[c].pre \in Contents)
  /\ calls \in 0..MaxCalls /\ writes \in 0..MaxWrites /\ outside \in 0..MaxOutside
  /\ firsts \in [Files -> Seq(Contents)]
  /\ raced \subseteq Files /\ slipped \in BOOLEAN /\ failed \in BOOLEAN

Journaled(f) == \E e \in ToSet(journal) : e.file = f
PreImage(f) == (CHOOSE e \in ToSet(journal) : e.file = f).content
WithoutEntry(f) ==
  IF Journaled(f) THEN RemoveAt(journal, CHOOSE i \in DOMAIN journal : journal[i].file = f)
  ELSE journal

-----------------------------------------------------------------------------
(* The programs of the calls. *)

Checkpoint == <<"mutex", "add", "added", "commit">>

\* writeFile replaces the file, the other tools edit what they read.
ToolProgram(reads) ==
  <<"lock", "guard", "pre">> \o (IF reads THEN <<"read">> ELSE <<>>) \o <<"write", "unlock">>

\* The trigger mode has neither a guard nor a lock.
FileOpProgram(reads) ==
  Checkpoint \o <<"pre">> \o (IF reads THEN <<"read">> ELSE <<>>) \o <<"write">>

CommandProgram == Checkpoint \o <<"run">>
RevertProgram == Checkpoint \o <<"revert">>
UndoPathProgram == <<"entry", "restore", "clear">>
UndoProgram == <<"mutex", "look", "reset">>

Begin(c, f, program) ==
  /\ call[c] = NoCall /\ calls < MaxCalls
  /\ calls' = calls + 1
  /\ call' = [call EXCEPT ![c] = [todo |-> program, file |-> f, pre |-> 0, base |-> 0]]
  /\ UNCHANGED <<disk, gitVars, writes, outside, raced>>

\* A call goes on with the rest of its program, or returns.
Goes(c, j, rest) ==
  call' = [call EXCEPT ![c] = IF rest = <<>> THEN NoCall ELSE [j EXCEPT !.todo = rest]]

\* A tool that edits a file, from a turn or from the client, queues for its lock.
ToolCall(c, f) ==
  /\ \E reads \in BOOLEAN : Begin(c, f, ToolProgram(reads))
  /\ locks' = [locks EXCEPT ![f] = Append(@, c)]
  /\ UNCHANGED <<journal, history, firsts>>

FileOp(c, f) == UNCHANGED editVars /\ \E reads \in BOOLEAN : Begin(c, f, FileOpProgram(reads))
RiskyCommand(c, f) == UNCHANGED editVars /\ Begin(c, f, CommandProgram)
RevertAction(c, f) == UNCHANGED editVars /\ Begin(c, f, RevertProgram)
UndoPath(c, f) == UNCHANGED editVars /\ Begin(c, f, UndoPathProgram)
PerformUndo(c, f) == UNCHANGED editVars /\ Begin(c, f, UndoProgram)

-----------------------------------------------------------------------------
(* Instructions on files.  Each is given the caller, its call and what is
   left of its program. *)

\* Edits of a file between their reads and their write, and those under its lock.
Locked(j) == Contains(j.todo, "unlock")
InEdit(f) ==
  {d \in Callers : /\ call[d] # NoCall /\ call[d].file = f
                   /\ Contains(call[d].todo, "write")
                   /\ Head(call[d].todo) \in {"pre", "read", "write"}}

\* A change of its file races the edits in progress that no lock keeps apart from it.
Races(c, j) ==
  IF \E d \in InEdit(j.file) \ {c} : ~(Locked(j) /\ Locked(call[d]))
  THEN raced \cup {j.file} ELSE raced

(* Mutant: a call does not wait for the ones before it. *)
HasLockAlways(c, f) == TRUE

\* withFileLock: the calls of a file run in the order in which they came.
HasLock(c, f) == Head(locks[f]) = c

Lock(c, j, rest) ==
  /\ HasLock(c, j.file)
  /\ Goes(c, j, rest)
  /\ UNCHANGED <<disk, editVars, gitVars, writes, raced>>

(* Mutant: a later edit replaces the pre-image of an earlier one. *)
RecordedLast(f) ==
  WithoutEntry(f) \o <<[file |-> f, content |-> disk[f]]>>

\* recordPreImage: the first one stays; the oldest goes when there are too many.
Recorded(f) ==
  LET more == Append(journal, [file |-> f, content |-> disk[f]])
  IN  CASE Journaled(f) -> journal
        [] ~Journaled(f) /\ Len(more) > MaxJournal -> Tail(more)
        [] ~Journaled(f) /\ Len(more) <= MaxJournal -> more

\* validateToolCall; of an edit that it cannot simulate, or whose file it cannot
\* read, it records nothing, and the tool runs all the same.
Guard(c, j, rest) ==
  /\ \/ /\ journal' = Recorded(j.file)
        /\ firsts' = IF Journaled(j.file) THEN firsts ELSE [firsts EXCEPT ![j.file] = <<>>]
     \/ UNCHANGED <<journal, firsts>>
  /\ Goes(c, j, rest)
  /\ UNCHANGED <<disk, locks, history, gitVars, writes, raced>>

\* wrapMutatingTool: the pre-image for the history; a file that cannot be read is
\* taken for none.
Pre(c, j, rest) ==
  /\ \E pre \in {disk[j.file], 0} :
       Goes(c, [j EXCEPT !.pre = pre, !.base = disk[j.file]], rest)
  /\ UNCHANGED <<disk, editVars, gitVars, writes, raced>>

\* An edit under the lock has got at what its file contains.
Replaces(j) == IF Locked(j) THEN [firsts EXCEPT ![j.file] = Append(@, disk[j.file])] ELSE firsts

(* Mutant: a call that fails keeps its place in the queue of the lock. *)
FailedKeepsLock(todo) == <<>>

\* What a call that fails still does.
Failed(todo) == IF Last(todo) = "unlock" THEN <<"unlock">> ELSE <<>>

\* An edit that fails is not in the history; its pre-image stays in the journal.
WriteFails(c, j) ==
  /\ Goes(c, j, Failed(j.todo))
  /\ firsts' = Replaces(j)
  /\ UNCHANGED <<disk, journal, locks, history, gitVars, writes, raced>>

\* The read of a tool that edits; without a file, or without a match, it fails.
Read(c, j, rest) ==
  /\ \/ /\ disk[j.file] # 0
        /\ Goes(c, [j EXCEPT !.base = disk[j.file]], rest)
        /\ UNCHANGED firsts
     \/ WriteFails(c, j)
  /\ UNCHANGED <<disk, journal, locks, history, gitVars, writes, raced>>

\* The write, and in the continuation of its promise the action in the history;
\* not if the write was cut, the file was too large or the history fails.
Write(c, j, rest) ==
  LET f == j.file IN
  /\ writes < MaxWrites
  /\ disk' = [disk EXCEPT ![f] = writes + 1]
  /\ writes' = writes + 1
  /\ \/ history' = Append(history, [file |-> f, pre |-> j.pre, base |-> j.base, before |-> disk[f]])
     \/ UNCHANGED history
  /\ firsts' = Replaces(j)
  /\ raced' = Races(c, j)
  /\ Goes(c, j, rest)
  /\ UNCHANGED <<journal, locks, gitVars>>

\* The holder is the first of the queue.
Unlock(c, j, rest) ==
  /\ locks' = [locks EXCEPT ![j.file] = Tail(@)]
  /\ Goes(c, j, rest)
  /\ UNCHANGED <<disk, journal, history, firsts, gitVars, writes, raced>>

\* A command that may change a file of the project.
Run(c, j, rest) ==
  /\ \/ /\ writes < MaxWrites
        /\ disk' = [disk EXCEPT ![j.file] = writes + 1]
        /\ writes' = writes + 1
        /\ raced' = Races(c, j)
     \/ UNCHANGED <<disk, writes, raced>>
  /\ Goes(c, j, rest)
  /\ UNCHANGED <<editVars, gitVars>>

\* revertAction is synchronous: it restores what an action of the history found.
Revert(c, j, rest) ==
  /\ \/ \E i \in DOMAIN history :
          /\ history[i].file = j.file
          /\ disk' = [disk EXCEPT ![j.file] = history[i].pre]
          /\ raced' = Races(c, j)
     \/ ~(\E i \in DOMAIN history : history[i].file = j.file) /\ UNCHANGED <<disk, raced>>
  /\ Goes(c, j, rest)
  /\ UNCHANGED <<editVars, gitVars, writes>>

\* restorePreImage: take the entry, write the file, forget the entry.
TakeEntry(c, j, rest) ==
  /\ IF Journaled(j.file) THEN Goes(c, [j EXCEPT !.pre = PreImage(j.file)], rest)
     ELSE Goes(c, j, <<>>)
  /\ UNCHANGED <<disk, editVars, gitVars, writes, raced>>

Restore(c, j, rest) ==
  /\ disk' = [disk EXCEPT ![j.file] = j.pre]
  /\ raced' = Races(c, j)
  /\ Goes(c, j, rest)
  /\ UNCHANGED <<editVars, gitVars, writes>>

Clear(c, j, rest) ==
  /\ journal' = WithoutEntry(j.file)
  /\ firsts' = [firsts EXCEPT ![j.file] = <<>>]
  /\ Goes(c, j, rest)
  /\ UNCHANGED <<disk, locks, history, gitVars, writes, raced>>

-----------------------------------------------------------------------------
(* Instructions on the repository. *)

(* Mutant: checkpoints and undos of a project are not serialized. *)
MutexFreeAlways == TRUE

\* getCheckpointMutex: one checkpoint or undo of the project at a time.
MutexFree == mutex = "free"

TakeMutex(c, j, rest) ==
  /\ MutexFree
  /\ mutex' = c
  /\ Goes(c, j, rest)
  /\ UNCHANGED <<disk, editVars, commits, stage, indexLock, slipped, failed, writes, raced>>

\* git add -A: it takes the lock of the index, or fails and with it the checkpoint,
\* not the operation that the checkpoint is for.
Add(c, j, rest) ==
  /\ \/ indexLock = "free" /\ indexLock' = c /\ Goes(c, j, rest)
                           /\ UNCHANGED <<mutex, failed>>
     \/ /\ indexLock # "free"
        /\ failed' = TRUE
        /\ mutex' = "free"
        /\ Goes(c, j, SubSeq(rest, 3, Len(rest)))
        /\ UNCHANGED indexLock
  /\ UNCHANGED <<disk, editVars, commits, stage, slipped, writes, raced>>

Added(c, j, rest) ==
  /\ stage' = disk
  /\ indexLock' = "free"
  /\ Goes(c, j, rest)
  /\ UNCHANGED <<disk, editVars, commits, mutex, slipped, failed, writes, raced>>

\* git commit --allow-empty, which needs the lock too and which a hook may refuse;
\* the mutex is released.
CommitStage(c, j, rest) ==
  /\ \/ /\ indexLock = "free"
        /\ commits' = Append(commits, [by |-> "console", tree |-> stage])
     \/ UNCHANGED commits
  /\ failed' = (failed \/ indexLock # "free")
  /\ mutex' = "free"
  /\ Goes(c, j, rest)
  /\ UNCHANGED <<disk, editVars, stage, indexLock, slipped, writes, raced>>

\* performUndo looks at the last commit.
Look(c, j, rest) ==
  /\ \/ /\ Last(commits).by = "console"
        /\ slipped' = FALSE
        /\ Goes(c, j, rest)
        /\ UNCHANGED mutex
     \/ /\ Last(commits).by = "user"
        /\ mutex' = "free"
        /\ Goes(c, j, <<>>)
        /\ UNCHANGED slipped
  /\ UNCHANGED <<disk, editVars, commits, stage, indexLock, failed, writes, raced>>

\* git reset --hard HEAD~1: what git tracks is as in the commit before, what it
\* does not track stays.
Reset(c, j, rest) ==
  LET parent == commits[Len(commits) - 1].tree IN
  /\ IF Len(commits) > 1 /\ indexLock = "free"
     THEN /\ commits' = Front(commits)
          /\ disk' = [f \in Files |-> IF parent[f] # 0 \/ stage[f] # 0 THEN parent[f] ELSE disk[f]]
          /\ stage' = parent
          /\ raced' = raced \cup {f \in Files : InEdit(f) # {}}
     ELSE UNCHANGED <<commits, disk, stage, raced>>
  /\ mutex' = "free"
  /\ Goes(c, j, rest)
  /\ UNCHANGED <<editVars, indexLock, slipped, failed, writes>>

-----------------------------------------------------------------------------

Instruction(c) ==
  /\ call[c] # NoCall
  /\ LET j == call[c]
         rest == Tail(j.todo)
         Is(i) == Head(j.todo) = i
     IN  \/ Is("lock") /\ Lock(c, j, rest)
         \/ Is("guard") /\ Guard(c, j, rest)
         \/ Is("pre") /\ Pre(c, j, rest)
         \/ Is("read") /\ Read(c, j, rest)
         \/ Is("write") /\ (Write(c, j, rest) \/ WriteFails(c, j))
         \/ Is("unlock") /\ Unlock(c, j, rest)
         \/ Is("run") /\ Run(c, j, rest)
         \/ Is("revert") /\ Revert(c, j, rest)
         \/ Is("entry") /\ TakeEntry(c, j, rest)
         \/ Is("restore") /\ Restore(c, j, rest)
         \/ Is("clear") /\ Clear(c, j, rest)
         \/ Is("mutex") /\ TakeMutex(c, j, rest)
         \/ Is("add") /\ Add(c, j, rest)
         \/ Is("added") /\ Added(c, j, rest)
         \/ Is("commit") /\ CommitStage(c, j, rest)
         \/ Is("look") /\ Look(c, j, rest)
         \/ Is("reset") /\ Reset(c, j, rest)
  /\ UNCHANGED <<calls, outside>>

-----------------------------------------------------------------------------
(* The user. *)

UserEdit(f) ==
  /\ outside < MaxOutside /\ writes < MaxWrites
  /\ \E new \in {0, writes + 1} : disk' = [disk EXCEPT ![f] = new]
  /\ writes' = writes + 1
  /\ outside' = outside + 1
  /\ raced' = IF InEdit(f) # {} THEN raced \cup {f} ELSE raced
  /\ UNCHANGED <<editVars, gitVars, call, calls>>

UserCommit ==
  /\ outside < MaxOutside /\ indexLock = "free"
  /\ commits' = Append(commits, [by |-> "user", tree |-> disk])
  /\ stage' = disk
  /\ slipped' = (slipped \/ \E c \in Callers : call[c] # NoCall /\ Head(call[c].todo) = "reset")
  /\ outside' = outside + 1
  /\ UNCHANGED <<disk, editVars, indexLock, mutex, failed, call, calls, writes, raced>>

-----------------------------------------------------------------------------

\* A clean project, with or without a checkpoint of an earlier day.
Init ==
  /\ disk = [f \in Files |-> Original]
  /\ journal = <<>> /\ history = <<>>
  /\ locks = [f \in Files |-> <<>>] /\ firsts = locks
  /\ LET first == [by |-> "user", tree |-> disk]
     IN  commits \in {<<first, first>>, <<first, first, [first EXCEPT !.by = "console"]>>}
  /\ stage = disk
  /\ indexLock = "free" /\ mutex = "free"
  /\ call = [c \in Callers |-> NoCall]
  /\ calls = 0 /\ writes = 0 /\ outside = 0
  /\ raced = {} /\ slipped = FALSE /\ failed = FALSE

Next ==
  \/ \E c \in Callers, f \in Files :
       \/ ToolCall(c, f) \/ FileOp(c, f) \/ RiskyCommand(c, f) \/ RevertAction(c, f)
       \/ UndoPath(c, f) \/ PerformUndo(c, f)
  \/ \E c \in Callers : Instruction(c)
  \/ \E f \in Files : UserEdit(f)
  \/ UserCommit

\* An awaited operation comes back.
Spec == Init /\ [][Next]_vars /\ \A c \in Callers : WF_vars(Instruction(c))

-----------------------------------------------------------------------------
(* Properties. *)

\* What an edit was computed from is what it replaced, and so is what the history
\* has as the content before it, unless that could not be read (tools.js:106-113)
\* or somebody without the lock wrote in between: concurrent edits under the lock
\* of a file lose nothing, and reverting one never writes what it had not replaced
\* (withFileLock, tools.js:69).
HonestHistory ==
  \A i \in DOMAIN history :
    LET e == history[i]
    IN  e.file \in raced \/ (e.pre \in {e.before, 0} /\ e.base = e.before)

\* As long as its entry stays, the journal of a file has what the first edit since
\* then replaced, or failed on, however many follow, recorded or not: the edit that
\* makes the entry is the first (recordPreImage: the first write wins; an edit that
\* aiGuardrails.js:139 cannot simulate makes none, and can only be taken back to
\* an entry that is there).
JournalIsOldest ==
  \A f \in Files \ raced :
    Journaled(f) /\ firsts[f] # <<>> => PreImage(f) = Head(firsts[f])

\* Checkpoints and undos of the console never meet at the index of git, so none
\* fails for want of its lock (checkpointMutexes).
CheckpointsSucceed == ~failed

\* An undo takes no commit of the user off the branch, unless the user commits
\* between its look and its reset (performUndo refuses other commits).
UndoSparesUserCommits ==
  [][Len(commits') < Len(commits) => Last(commits).by = "console" \/ slipped]_vars

\* Every call returns: neither an edit that fails nor one that waits for others
\* keeps a lock, the index or the mutex.
EveryCallReturns == \A c \in Callers : (call[c] # NoCall) ~> (call[c] = NoCall)

-----------------------------------------------------------------------------
(* What comments and messages of the code say, and the code does not do. *)

\* gitSafety.js:111 -- an undo restores the state before the command, which is
\* what the checkpoint has; it restores the commit before the checkpoint, and
\* what the user had not committed by then is gone.
UndoRestoresCheckpoint ==
  [][Len(commits') < Len(commits) => disk' = Last(commits).tree]_vars

\* gitSafety.js:104 -- the work of the user is protected, also what is committed
\* after the look at the last commit.
UndoSparesLateCommits ==
  [][Len(commits') < Len(commits) => Last(commits).by = "console"]_vars

\* aiGuardrails.js:85 -- each edit has its own entry, with the file as it was
\* immediately before its turn.
EachEditHasItsEntry ==
  \A f \in Files \ raced :
    Journaled(f) /\ firsts[f] # <<>> => PreImage(f) = Last(firsts[f])

\* aiGuardrails.js:176 -- what an undo forgets is what it restored: no edit came
\* between its write and the end of the entry.
UndoForgetsWhatItRestored ==
  [][\A c \in Callers : call[c] # NoCall /\ Head(call[c].todo) = "clear" /\ call'[c] = NoCall
       => disk[call[c].file] = call[c].pre]_vars

=============================================================================
