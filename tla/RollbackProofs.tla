---------------------------- MODULE RollbackProofs ----------------------------
(***************************************************************************)
(* For any files, connections, calls, writes and size of the journal: no   *)
(* edit under the lock loses another, and a pre-image in the history is    *)
(* right or missing; an entry of the journal keeps the oldest content;     *)
(* checkpoints and undos never meet at the index of git, and an undo takes *)
(* no commit of the user.                                                  *)
(***************************************************************************)
EXTENDS Rollback, SequenceTheorems, TLAPS

-----------------------------------------------------------------------------
(* What is left of a call. *)

Instructions ==
  {"lock", "guard", "pre", "read", "write", "unlock", "run", "revert", "entry", "restore",
   "clear", "mutex", "add", "added", "commit", "look", "reset"}

(* The instructions that may follow i in a program. *)
After(i) ==
  CASE i = "lock" -> {"guard"}
    [] i = "guard" -> {"pre"}
    [] i = "pre" -> {"read", "write"}
    [] i = "read" -> {"write"}
    [] i = "write" -> {"unlock"}
    [] i = "entry" -> {"restore"}
    [] i = "restore" -> {"clear"}
    [] i = "mutex" -> {"add", "look"}
    [] i = "add" -> {"added"}
    [] i = "added" -> {"commit"}
    [] i = "commit" -> {"pre", "run", "revert"}
    [] i = "look" -> {"reset"}
    [] OTHER -> {}

Finals == {"write", "unlock", "run", "revert", "clear", "reset"}

Chain(t) ==
  /\ t \in Seq(Instructions) /\ t # <<>>
  /\ \A i \in 1 .. Len(t) - 1 : t[i + 1] \in After(t[i])

Shape(t) ==
  /\ Chain(t)
  /\ t[Len(t)] \in Finals
  /\ t[1] \in {"lock", "guard"} => t[Len(t)] = "unlock"

LEMMA TwoAndMore ==
  ASSUME NEW n \in Nat, n # 0, n # 1
  PROVE  /\ 2 \in 1 .. n /\ 1 \in 1 .. n - 1
         /\ n # 2 => 2 \in 1 .. n - 1 /\ 3 \in 1 .. n
OBVIOUS

LEMMA Ends ==
  ASSUME NEW t, Chain(t)
  PROVE  /\ Len(t) \in Nat \ {0} /\ DOMAIN t = 1 .. Len(t)
         /\ \A i \in 1 .. Len(t) : t[i] \in Instructions
         /\ Head(t) = t[1]
BY LenProperties, EmptySeq, ElementOfSeq DEF Chain

(* A program in two parts. *)
LEMMA ChainOfTwo ==
  ASSUME NEW s, NEW t, Chain(s), Chain(t), t[1] \in After(s[Len(s)])
  PROVE  /\ Chain(s \o t)
         /\ (s \o t)[1] = s[1]
         /\ (s \o t)[Len(s \o t)] = t[Len(t)]
<1>1. /\ s \in Seq(Instructions) /\ t \in Seq(Instructions)
      /\ Len(s) \in Nat \ {0} /\ Len(t) \in Nat \ {0}
  BY Ends DEF Chain
<1>2. /\ s \o t \in Seq(Instructions)
      /\ Len(s \o t) = Len(s) + Len(t)
      /\ \A i \in 1 .. Len(s) + Len(t) : (s \o t)[i] = IF i <= Len(s) THEN s[i] ELSE t[i - Len(s)]
  BY <1>1, ConcatProperties
<1> DEFINE u == s \o t
           m == Len(s)
           n == Len(t)
<1>3. \A i \in 1 .. m : u[i] = s[i]
  BY <1>1, <1>2
<1>4. \A i \in 1 .. n : u[m + i] = t[i]
  BY <1>1, <1>2
<1>5. ASSUME NEW i \in 1 .. m + n - 1
      PROVE  u[i + 1] \in After(u[i])
  <2>1. CASE i < m
    <3>1. s[i + 1] \in After(s[i])
      BY <1>1, <2>1 DEF Chain
    <3> QED
      BY <1>1, <1>3, <2>1, <3>1
  <2>2. CASE i = m
    BY <1>1, <1>3, <1>4, <2>2
  <2>3. CASE i > m
    <3>1. i - m \in 1 .. n - 1 /\ (i - m) + 1 \in 1 .. n
      BY <1>1, <2>3
    <3>2. t[(i - m) + 1] \in After(t[i - m])
      BY <3>1 DEF Chain
    <3>3. u[i] = t[i - m] /\ u[i + 1] = t[(i - m) + 1]
      BY <1>1, <1>4, <3>1
    <3> QED
      BY <3>2, <3>3
  <2> QED
    BY <1>1, <2>1, <2>2, <2>3
<1>6. u # <<>> /\ Len(u) = m + n /\ u \in Seq(Instructions)
  BY <1>1, <1>2, EmptySeq
<1>7. u[1] = s[1] /\ u[m + n] = t[n]
  BY <1>1, <1>3, <1>4
<1> HIDE DEF u
<1>8. Chain(u)
  BY <1>5, <1>6 DEF Chain
<1> QED
  BY <1>6, <1>7, <1>8 DEF u

LEMMA LiteralPrograms ==
  /\ Chain(Checkpoint) /\ Checkpoint[1] = "mutex" /\ Checkpoint[Len(Checkpoint)] = "commit"
  /\ Chain(<<"lock", "guard", "pre">>) /\ Chain(<<"pre">>)
  /\ Chain(<<"read">>) /\ Chain(<<"write">>) /\ Chain(<<"write", "unlock">>)
  /\ Chain(<<"run">>) /\ Chain(<<"revert">>)
  /\ Chain(UndoPathProgram) /\ Chain(UndoProgram)
<1> USE DEF Chain, Instructions, After
<1>1. Chain(Checkpoint) /\ Checkpoint[1] = "mutex" /\ Checkpoint[Len(Checkpoint)] = "commit"
  BY DEF Checkpoint
<1>2. Chain(<<"lock", "guard", "pre">>)
  OBVIOUS
<1>3. Chain(<<"pre">>) /\ Chain(<<"read">>) /\ Chain(<<"write">>) /\ Chain(<<"run">>) /\ Chain(<<"revert">>)
  OBVIOUS
<1>4. Chain(<<"write", "unlock">>)
  OBVIOUS
<1>5. Chain(UndoPathProgram)
  BY DEF UndoPathProgram
<1>6. Chain(UndoProgram)
  BY DEF UndoProgram
<1> QED
  BY <1>1, <1>2, <1>3, <1>4, <1>5, <1>6

(* An edit with or without a read. *)
LEMMA Edits ==
  ASSUME NEW s, Chain(s), s[Len(s)] = "pre", NEW t, Chain(t), t[1] = "write", NEW reads \in BOOLEAN
  PROVE  LET p == s \o (IF reads THEN <<"read">> ELSE <<>>) \o t
         IN  Chain(p) /\ p[1] = s[1] /\ p[Len(p)] = t[Len(t)]
<1>1. CASE reads
  <2> DEFINE r == s \o <<"read">>
  <2>1. Chain(r) /\ r[1] = s[1] /\ r[Len(r)] = "read"
    <3>1. "read" \in After(s[Len(s)]) /\ <<"read">>[1] = "read" /\ <<"read">>[Len(<<"read">>)] = "read"
      BY DEF After
    <3> QED
      BY <3>1, ChainOfTwo, LiteralPrograms
  <2>2. t[1] \in After(r[Len(r)])
    BY <2>1 DEF After
  <2> HIDE DEF r
  <2>3. Chain(r \o t) /\ (r \o t)[1] = s[1] /\ (r \o t)[Len(r \o t)] = t[Len(t)]
    BY <2>1, <2>2, ChainOfTwo
  <2> QED
    BY <1>1, <2>3 DEF r
<1>2. CASE ~reads
  <2>1. s \o <<>> = s
    BY ConcatEmptySeq DEF Chain
  <2>2. t[1] \in After(s[Len(s)])
    BY DEF After
  <2>3. Chain(s \o t) /\ (s \o t)[1] = s[1] /\ (s \o t)[Len(s \o t)] = t[Len(t)]
    BY <2>2, ChainOfTwo
  <2> QED
    BY <1>2, <2>1, <2>3
<1> QED
  BY <1>1, <1>2

LEMMA ToolProgramShape ==
  ASSUME NEW reads \in BOOLEAN
  PROVE  Shape(ToolProgram(reads)) /\ ToolProgram(reads)[1] = "lock"
<1> DEFINE s == <<"lock", "guard", "pre">>
           t == <<"write", "unlock">>
           p == ToolProgram(reads)
<1>1. /\ Chain(s) /\ s[1] = "lock" /\ s[Len(s)] = "pre"
      /\ Chain(t) /\ t[1] = "write" /\ t[Len(t)] = "unlock"
  BY LiteralPrograms
<1>2. p = s \o (IF reads THEN <<"read">> ELSE <<>>) \o t
  BY DEF ToolProgram
<1> HIDE DEF s, t, p
<1>3. Chain(p) /\ p[1] = "lock" /\ p[Len(p)] = "unlock"
  BY <1>1, <1>2, Edits
<1> QED
  BY <1>3 DEF p, Shape, Finals

LEMMA FileOpProgramShape ==
  ASSUME NEW reads \in BOOLEAN
  PROVE  /\ Shape(FileOpProgram(reads)) /\ FileOpProgram(reads)[1] = "mutex"
         /\ Last(FileOpProgram(reads)) # "unlock"
<1> DEFINE s == Checkpoint \o <<"pre">>
           t == <<"write">>
           p == FileOpProgram(reads)
<1>1. Chain(s) /\ s[1] = "mutex" /\ s[Len(s)] = "pre"
  <2>1. <<"pre">>[1] = "pre" /\ <<"pre">>[Len(<<"pre">>)] = "pre"
    OBVIOUS
  <2>2. <<"pre">>[1] \in After(Checkpoint[Len(Checkpoint)])
    BY LiteralPrograms, <2>1 DEF After
  <2> QED
    BY <2>1, <2>2, ChainOfTwo, LiteralPrograms
<1>2. Chain(t) /\ t[1] = "write" /\ t[Len(t)] = "write"
  BY LiteralPrograms
<1>3. p = s \o (IF reads THEN <<"read">> ELSE <<>>) \o t
  BY DEF FileOpProgram
<1> HIDE DEF s, t, p
<1>4. Chain(p) /\ p[1] = "mutex" /\ p[Len(p)] = "write"
  BY <1>1, <1>2, <1>3, Edits
<1>5. Shape(p) /\ p[1] = "mutex" /\ Last(p) # "unlock"
  BY <1>4 DEF Shape, Finals, Last
<1> QED
  BY <1>5 DEF p

LEMMA OtherProgramsShape ==
  /\ \A p \in {CommandProgram, RevertProgram, UndoProgram} :
       Shape(p) /\ p[1] = "mutex" /\ Last(p) # "unlock"
  /\ Shape(UndoPathProgram) /\ UndoPathProgram[1] = "entry" /\ Last(UndoPathProgram) # "unlock"
  /\ Shape(<<"unlock">>)
<1>1. ASSUME NEW i \in {"run", "revert"}
      PROVE  /\ Shape(Checkpoint \o <<i>>) /\ (Checkpoint \o <<i>>)[1] = "mutex"
             /\ Last(Checkpoint \o <<i>>) # "unlock"
  <2> DEFINE t == <<i>>
  <2>1. Chain(t) /\ t[1] = i /\ t[Len(t)] = i
    BY LiteralPrograms
  <2> HIDE DEF t
  <2>2. t[1] \in After(Checkpoint[Len(Checkpoint)])
    BY LiteralPrograms, <2>1 DEF After
  <2>3. Chain(Checkpoint \o t) /\ (Checkpoint \o t)[1] = "mutex"
        /\ (Checkpoint \o t)[Len(Checkpoint \o t)] = i
    BY <2>1, <2>2, ChainOfTwo, LiteralPrograms
  <2>4. Shape(Checkpoint \o t) /\ (Checkpoint \o t)[1] = "mutex" /\ Last(Checkpoint \o t) # "unlock"
    BY <2>3 DEF Shape, Finals, Last
  <2> QED
    BY <2>4 DEF t
<1>2. Shape(UndoPathProgram) /\ UndoPathProgram[1] = "entry" /\ Last(UndoPathProgram) # "unlock"
  BY LiteralPrograms DEF Shape, Finals, UndoPathProgram, Last
<1>3. Shape(UndoProgram) /\ UndoProgram[1] = "mutex" /\ Last(UndoProgram) # "unlock"
  BY LiteralPrograms DEF Shape, Finals, UndoProgram, Last
<1>4. Shape(<<"unlock">>)
  BY DEF Shape, Chain, Instructions, Finals, After
<1> QED
  BY <1>1, <1>2, <1>3, <1>4 DEF CommandProgram, RevertProgram

(* What is left after the first instruction, if it is not the last. *)
LEMMA TailShape ==
  ASSUME NEW t, Shape(t), Tail(t) # <<>>
  PROVE  /\ Shape(Tail(t))
         /\ Head(Tail(t)) \in After(Head(t))
         /\ Last(Tail(t)) = Last(t)
<1> DEFINE r == Tail(t)
<1>1. /\ t \in Seq(Instructions) /\ t # <<>> /\ Head(t) = t[1]
      /\ Len(t) \in Nat \ {0}
  BY Ends DEF Shape, Chain
<1>2. /\ r \in Seq(Instructions) /\ Len(r) = Len(t) - 1
      /\ \A i \in 1 .. Len(r) : r[i] = t[i + 1]
  BY <1>1, HeadTailProperties
<1>3. r # <<>> /\ Len(r) \in Nat \ {0}
  BY <1>2, EmptySeq
<1> HIDE DEF r
<1>4. \A i \in 1 .. Len(r) - 1 : r[i + 1] \in After(r[i])
  <2> SUFFICES ASSUME NEW i \in 1 .. Len(r) - 1 PROVE r[i + 1] \in After(r[i])
    OBVIOUS
  <2>1. i + 1 \in 1 .. Len(t) - 1 /\ i \in 1 .. Len(r) /\ i + 1 \in 1 .. Len(r)
    BY <1>1, <1>2, <1>3
  <2>2. t[(i + 1) + 1] \in After(t[i + 1])
    BY <2>1 DEF Shape, Chain
  <2> QED
    BY <1>2, <2>1, <2>2
<1>5. r[Len(r)] = t[Len(t)] /\ r[1] = t[2] /\ 1 \in 1 .. Len(t) - 1
  BY <1>1, <1>2, <1>3
<1>6. r[1] \in After(t[1])
  BY <1>5 DEF Shape, Chain
<1>7. r[1] \in {"lock", "guard"} => r[Len(r)] = "unlock"
  BY <1>5, <1>6 DEF Shape, After
<1>8. Shape(r)
  BY <1>2, <1>3, <1>4, <1>5, <1>7 DEF Shape, Chain
<1>9. Head(r) = r[1]
  BY <1>8, Ends DEF Shape
<1> QED
  BY <1>1, <1>5, <1>6, <1>8, <1>9 DEF r, Last

(* A lock is released last, and only a call that will release one holds it. *)
LEMMA UnlockIsLast ==
  ASSUME NEW t, Shape(t)
  PROVE  Contains(t, "unlock") <=> Last(t) = "unlock"
<1>1. Len(t) \in Nat \ {0}
  BY Ends DEF Shape
<1>2. ASSUME NEW i \in 1 .. Len(t), t[i] = "unlock"
      PROVE  i = Len(t)
  <2>1. CASE i # Len(t)
    <3>1. i \in 1 .. Len(t) - 1
      BY <1>1, <2>1
    <3>2. t[i + 1] \in After("unlock")
      BY <1>2, <3>1 DEF Shape, Chain
    <3> QED
      BY <3>2 DEF After
  <2> QED
    BY <2>1
<1> QED
  BY <1>1, <1>2 DEF Contains, Last

(* Where a program may end, and what must follow where it may not. *)
LEMMA HeadFacts ==
  ASSUME NEW t, Shape(t)
  PROVE  /\ Head(t) \in Instructions /\ t # <<>>
         /\ Tail(t) = <<>> => Head(t) \in Finals /\ Last(t) = Head(t)
         /\ Head(t) \in {"pre", "read", "write"} => Contains(t, "write")
         /\ Head(t) \in {"lock", "guard"} => Last(t) = "unlock"
         /\ Head(t) \in {"unlock", "run", "revert", "clear", "reset"} => Last(t) = Head(t)
<1>1. /\ t \in Seq(Instructions) /\ t # <<>> /\ Len(t) \in Nat \ {0} /\ Head(t) = t[1]
      /\ t[1] \in Instructions
  BY Ends DEF Shape, Chain
<1>0. Len(t) \in Nat \ {0}
  BY <1>1
<1>2. Len(Tail(t)) = Len(t) - 1 /\ Tail(t) \in Seq(Instructions)
  BY <1>1, HeadTailProperties
<1>3. Tail(t) = <<>> => Len(t) = 1
  BY <1>1, <1>2, EmptySeq
<1>4. ASSUME Len(t) # 1
      PROVE  2 \in 1 .. Len(t) /\ t[2] \in After(t[1])
  <2>1. 2 \in 1 .. Len(t) /\ 1 \in 1 .. Len(t) - 1
    BY <1>0, <1>4, TwoAndMore
  <2>2. t[1 + 1] \in After(t[1])
    BY <2>1 DEF Shape, Chain
  <2> QED
    BY <2>1, <2>2
<1>5. t[1] = "write" => Contains(t, "write")
  BY <1>1 DEF Contains
<1>6. t[1] = "read" => Contains(t, "write")
  BY <1>1, <1>4 DEF Contains, Shape, Finals, After
<1>7. t[1] = "pre" => Contains(t, "write")
  <2> SUFFICES ASSUME t[1] = "pre" PROVE Contains(t, "write")
    OBVIOUS
  <2>1. Len(t) # 1
    BY DEF Shape, Finals
  <2>2. t[2] \in {"read", "write"} /\ 2 \in 1 .. Len(t)
    BY <1>4, <2>1 DEF After
  <2>3. CASE t[2] = "write"
    BY <2>2, <2>3 DEF Contains
  <2>4. CASE t[2] = "read"
    <3>1. Len(t) # 2
      BY <2>4 DEF Shape, Finals
    <3>2. 2 \in 1 .. Len(t) - 1 /\ 3 \in 1 .. Len(t)
      BY <1>0, <2>1, <3>1, TwoAndMore
    <3>3. t[2 + 1] \in After("read")
      BY <2>4, <3>2 DEF Shape, Chain
    <3> QED
      BY <3>2, <3>3 DEF After, Contains
  <2> QED
    BY <2>2, <2>3, <2>4
<1>8. t[1] \in {"unlock", "run", "revert", "clear", "reset"} => Len(t) = 1
  BY <1>4 DEF After
<1> QED
  BY <1>1, <1>3, <1>5, <1>6, <1>7, <1>8 DEF Last, Shape

(* A checkpoint that fails goes on behind its commit. *)
LEMMA SkipShape ==
  ASSUME NEW t, Shape(t), Head(t) = "add"
  PROVE  LET r == SubSeq(Tail(t), 3, Len(Tail(t)))
         IN  Shape(r) /\ Head(r) \in {"pre", "run", "revert"} /\ Last(r) = Last(t)
<1> DEFINE a == Tail(t)
           b == Tail(a)
           r == Tail(b)
<1>1. a # <<>>
  BY HeadFacts DEF Finals
<1>2. Shape(a) /\ Head(a) = "added" /\ Last(a) = Last(t)
  BY <1>1, TailShape DEF After
<1>3. b # <<>>
  BY <1>2, HeadFacts DEF Finals
<1>4. Shape(b) /\ Head(b) = "commit" /\ Last(b) = Last(t)
  BY <1>2, <1>3, TailShape DEF After
<1>5. r # <<>>
  BY <1>4, HeadFacts DEF Finals
<1>6. Shape(r) /\ Head(r) \in {"pre", "run", "revert"} /\ Last(r) = Last(t)
  BY <1>4, <1>5, TailShape DEF After
<1>7. r = SubSeq(a, 3, Len(a))
  <2>1. a \in Seq(Instructions) /\ b \in Seq(Instructions) /\ a # <<>> /\ b # <<>>
        /\ Len(a) \in Nat \ {0} /\ Len(b) \in Nat \ {0}
    BY <1>1, <1>2, <1>3, <1>4, Ends DEF Shape, Chain
  <2>2. Len(b) = Len(a) - 1
    BY <2>1, HeadTailProperties
  <2>3. b = SubSeq(a, 2, Len(a))
    BY <2>1, TailIsSubSeq
  <2>4. Tail(SubSeq(a, 2, Len(a))) = SubSeq(a, 2 + 1, Len(a))
    <3>1. 2 \in 1 .. Len(a) /\ Len(a) \in 2 .. Len(a)
      BY <2>1, <2>2
    <3> HIDE DEF a
    <3> QED
      BY <2>1, <3>1, HeadTailOfSubSeq
  <2> HIDE DEF a
  <2>5. r = Tail(SubSeq(a, 2, Len(a)))
    BY <2>3
  <2> QED
    BY <2>4, <2>5
<1> QED
  BY <1>6, <1>7

-----------------------------------------------------------------------------
(* The inductive invariant. *)

CallRec == [todo : Seq(Instructions), file : Files, pre : Contents, base : Contents]

(* call[c] when c is in the middle of a call. *)
IsCall(j) == j \in CallRec /\ Shape(j.todo)

Active(c) == call[c] # NoCall
At(c) == Head(call[c].todo)

Calls ==
  /\ call \in [Callers -> CallRec \cup {NoCall}]
  /\ \A c \in Callers : Active(c) => IsCall(call[c])

(* One entry for a file. *)
Unique == \A i, j \in 1 .. Len(journal) : journal[i].file = journal[j].file => i = j

Types ==
  /\ disk \in Tree
  /\ journal \in Seq(JournalEntry) /\ Len(journal) <= MaxJournal /\ Unique
  /\ locks \in [Files -> Seq(Callers)]
  /\ history \in Seq(Entry)
  /\ commits \in Seq(Commit) /\ commits # <<>> /\ stage \in Tree
  /\ indexLock \in Callers \cup {"free"} /\ mutex \in Callers \cup {"free"}
  /\ calls \in 0 .. MaxCalls /\ writes \in 0 .. MaxWrites /\ outside \in 0 .. MaxOutside
  /\ firsts \in [Files -> Seq(Contents)]
  /\ raced \subseteq Files /\ slipped \in BOOLEAN /\ failed \in BOOLEAN

(* A call that will release the lock of its file is in the queue, and first *)
(* from the moment when it has the lock.                                    *)
LockHeld ==
  \A c \in Callers : Active(c) /\ Locked(call[c]) =>
    /\ \E i \in 1 .. Len(locks[call[c].file]) : locks[call[c].file][i] = c
    /\ At(c) # "lock" => locks[call[c].file][1] = c

(* What an edit has read is what is still there; its pre-image may be missing. *)
Fresh(j) == j.pre \in {disk[j.file], 0} /\ j.base = disk[j.file]

ReadsFresh ==
  \A c \in Callers : Active(c) /\ At(c) \in {"read", "write"} /\ call[c].file \notin raced =>
    Fresh(call[c])

(* c edits f, between its pre-image and its write. *)
Editing(c, f) ==
  Active(c) /\ call[c].file = f /\ At(c) \in {"pre", "read", "write"}

(* An entry has the first of the contents that edits replaced; before the   *)
(* first of them, while it runs, it has what is there.                      *)
EntriesFirst ==
  \A i \in 1 .. Len(journal) :
    LET f == journal[i].file IN
    f \notin raced =>
      IF firsts[f] = <<>>
      THEN journal[i].content = disk[f] /\ \E d \in Callers : Editing(d, f) /\ Locked(call[d])
      ELSE journal[i].content = firsts[f][1]

(* Where a call has the mutex, and what an undo has looked at.              *)
InMutex == {"add", "added", "commit", "look", "reset"}

GitInv ==
  /\ \A c \in Callers : Active(c) /\ At(c) \in InMutex => mutex = c
  /\ \A c \in Callers : Active(c) /\ At(c) = "reset" => slipped \/ Last(commits).by = "console"
  /\ indexLock # "free" => \E c \in Callers : Active(c) /\ At(c) = "added"
  /\ ~failed

IInv ==
  Calls /\ Types /\ LockHeld /\ ReadsFresh /\ HonestHistory /\ EntriesFirst /\ GitInv

-----------------------------------------------------------------------------
(* How an instruction moves its call. *)

(* Nobody else moves; a call keeps its file, and whether it has a lock to release. *)
Moved(c) ==
  /\ Calls'
  /\ \A d \in Callers \ {c} : call'[d] = call[d]
  /\ Active(c)' => /\ call'[c].file = call[c].file
                   /\ Locked(call'[c]) <=> Locked(call[c])

LEMMA CallFacts ==
  ASSUME Calls, NEW c \in Callers, Active(c)
  PROVE  /\ call[c] \in CallRec /\ Shape(call[c].todo)
         /\ call[c].file \in Files /\ call[c].pre \in Contents /\ call[c].base \in Contents
         /\ At(c) \in Instructions
         /\ Locked(call[c]) <=> Last(call[c].todo) = "unlock"
<1>1. call[c] \in CallRec /\ Shape(call[c].todo)
  BY DEF Calls, IsCall
<1> QED
  BY <1>1, HeadFacts, UnlockIsLast DEF CallRec, At, Locked

(* It goes on with instructions that end as before. *)
LEMMA GoesOn ==
  ASSUME Calls, NEW c \in Callers, Active(c),
         NEW j \in CallRec, j.file = call[c].file,
         NEW rest, Shape(rest), Last(rest) = Last(call[c].todo), Goes(c, j, rest)
  PROVE  /\ Moved(c) /\ Active(c)'
         /\ At(c)' = Head(rest) /\ call'[c].pre = j.pre /\ call'[c].base = j.base
<1> DEFINE r == [j EXCEPT !.todo = rest]
<1>1. rest # <<>> /\ rest \in Seq(Instructions)
  BY DEF Shape, Chain
<1>2. /\ r \in CallRec /\ r.todo = rest /\ r.file = j.file /\ r.pre = j.pre /\ r.base = j.base
  BY <1>1 DEF CallRec
<1>3. r # NoCall
  BY <1>1, <1>2 DEF NoCall
<1>4. call' = [call EXCEPT ![c] = r]
  BY <1>1 DEF Goes
<1> HIDE DEF r
<1>5. call'[c] = r /\ \A d \in Callers \ {c} : call'[d] = call[d]
  BY <1>4 DEF Calls
<1>6. Calls'
  <2>1. IsCall(r)
    BY <1>2 DEF IsCall
  <2>2. call' \in [Callers -> CallRec \cup {NoCall}]
    BY <1>2, <1>4 DEF Calls
  <2>3. ASSUME NEW d \in Callers, call'[d] # NoCall
        PROVE  IsCall(call'[d])
    BY <1>5, <2>1, <2>3 DEF Calls, Active
  <2> QED
    BY <2>2, <2>3 DEF Calls, Active
<1>7. Locked(r) <=> Locked(call[c])
  BY <1>2, UnlockIsLast, CallFacts DEF Locked
<1> QED
  BY <1>2, <1>3, <1>5, <1>6, <1>7 DEF Moved, Active, At

LEMMA Returns ==
  ASSUME Calls, NEW c \in Callers, NEW j, Goes(c, j, <<>>)
  PROVE  Moved(c) /\ ~Active(c)'
<1>1. call' = [call EXCEPT ![c] = NoCall]
  BY DEF Goes
<1>2. call'[c] = NoCall /\ \A d \in Callers \ {c} : call'[d] = call[d]
  BY <1>1 DEF Calls
<1>3. call' \in [Callers -> CallRec \cup {NoCall}]
  BY <1>1 DEF Calls
<1>4. \A d \in Callers : call'[d] # NoCall => IsCall(call'[d])
  BY <1>2 DEF Calls, Active
<1> QED
  BY <1>2, <1>3, <1>4 DEF Moved, Active, Calls

(* It goes on with the rest of its program, or returns. *)
LEMMA GoesNext ==
  ASSUME Calls, NEW c \in Callers, Active(c),
         NEW j \in CallRec, j.file = call[c].file, j.todo = call[c].todo,
         Goes(c, j, Tail(j.todo))
  PROVE  /\ Moved(c)
         /\ Active(c)' => At(c)' \in After(At(c)) /\ call'[c].pre = j.pre /\ call'[c].base = j.base
         /\ At(c) \notin Finals => Active(c)'
         /\ ~Active(c)' /\ Locked(call[c]) => At(c) = "unlock"
<1>1. Shape(j.todo) /\ At(c) = Head(j.todo)
  BY CallFacts DEF At
<1>2. CASE Tail(j.todo) = <<>>
  <2>1. Moved(c) /\ ~Active(c)'
    BY <1>2, Returns
  <2>2. At(c) \in Finals /\ Last(j.todo) = At(c)
    BY <1>1, <1>2, HeadFacts
  <2>3. Locked(call[c]) => At(c) = "unlock"
    BY <2>2, CallFacts
  <2> QED
    BY <2>1, <2>2, <2>3
<1>3. CASE Tail(j.todo) # <<>>
  <2>1. /\ Shape(Tail(j.todo)) /\ Head(Tail(j.todo)) \in After(At(c))
        /\ Last(Tail(j.todo)) = Last(call[c].todo)
    BY <1>1, <1>3, TailShape
  <2>2. Moved(c) /\ Active(c)' /\ At(c)' = Head(Tail(j.todo))
        /\ call'[c].pre = j.pre /\ call'[c].base = j.base
    BY <2>1, GoesOn
  <2> QED
    BY <2>1, <2>2
<1> QED
  BY <1>2, <1>3

(* A call that fails still releases its lock. *)
LEMMA GoesFailed ==
  ASSUME Calls, NEW c \in Callers, Active(c), Goes(c, call[c], Failed(call[c].todo))
  PROVE  /\ Moved(c)
         /\ Active(c)' => At(c)' = "unlock"
<1>1. CASE Last(call[c].todo) = "unlock"
  <2>1. Shape(<<"unlock">>) /\ Last(<<"unlock">>) = "unlock" /\ Head(<<"unlock">>) = "unlock"
    BY OtherProgramsShape DEF Last
  <2>2. Goes(c, call[c], <<"unlock">>)
    BY <1>1 DEF Failed
  <2> QED
    BY <1>1, <2>1, <2>2, GoesOn, CallFacts
<1>2. CASE Last(call[c].todo) # "unlock"
  <2>1. Goes(c, call[c], <<>>)
    BY <1>2 DEF Failed
  <2> QED
    BY <2>1, Returns
<1> QED
  BY <1>1, <1>2

-----------------------------------------------------------------------------
(* What the parts of the invariant need of a step. *)

LEMMA LocksKept ==
  ASSUME Calls, LockHeld, NEW c \in Callers, Active(c), Moved(c), At(c) # "lock", locks' = locks
  PROVE  LockHeld'
<1> SUFFICES ASSUME NEW d \in Callers, Active(d)', Locked(call'[d])
             PROVE  /\ \E i \in 1 .. Len(locks[call'[d].file]) : locks[call'[d].file][i] = d
                    /\ At(d)' # "lock" => locks[call'[d].file][1] = d
  BY DEF LockHeld
<1>1. CASE d = c
  <2>1. Locked(call[c]) /\ call'[c].file = call[c].file
    BY <1>1 DEF Moved
  <2> QED
    BY <1>1, <2>1 DEF LockHeld
<1>2. CASE d # c
  <2>1. call'[d] = call[d]
    BY <1>2 DEF Moved
  <2> QED
    BY <2>1 DEF LockHeld, Active, At
<1> QED
  BY <1>1, <1>2

LEMMA ReadsKept ==
  ASSUME ReadsFresh, NEW c \in Callers, Moved(c), raced \subseteq raced', disk' = disk,
         Active(c)' /\ At(c)' \in {"read", "write"} /\ call'[c].file \notin raced' => Fresh(call'[c])
  PROVE  ReadsFresh'
<1> SUFFICES ASSUME NEW d \in Callers, Active(d)', At(d)' \in {"read", "write"},
                    call'[d].file \notin raced'
             PROVE  Fresh(call'[d])
  BY DEF ReadsFresh, Fresh
<1>1. CASE d = c
  BY <1>1
<1>2. CASE d # c
  <2>1. call'[d] = call[d]
    BY <1>2 DEF Moved
  <2>2. Active(d) /\ At(d) \in {"read", "write"} /\ call[d].file \notin raced
    BY <2>1 DEF Active, At
  <2> QED
    BY <2>1, <2>2 DEF ReadsFresh
<1> QED
  BY <1>1, <1>2

(* An edit of its file under the lock that is in progress stays so. *)
LEMMA EntriesKept ==
  ASSUME EntriesFirst, NEW c \in Callers, Moved(c), raced \subseteq raced',
         disk' = disk, journal' = journal, firsts' = firsts,
         \A f : Editing(c, f) /\ Locked(call[c]) /\ f \notin raced' => Editing(c, f)' /\ Locked(call'[c])
  PROVE  EntriesFirst'
<1> SUFFICES ASSUME NEW i \in 1 .. Len(journal), journal[i].file \notin raced'
             PROVE  IF firsts[journal[i].file] = <<>>
                    THEN /\ journal[i].content = disk[journal[i].file]
                         /\ \E d \in Callers : Editing(d, journal[i].file)' /\ Locked(call'[d])
                    ELSE journal[i].content = firsts[journal[i].file][1]
  BY DEF EntriesFirst
<1> DEFINE f == journal[i].file
<1>1. f \notin raced
  OBVIOUS
<1>2. CASE firsts[f] = <<>>
  <2>1. journal[i].content = disk[f]
    BY <1>1, <1>2 DEF EntriesFirst
  <2>2. PICK d \in Callers : Editing(d, f) /\ Locked(call[d])
    BY <1>1, <1>2 DEF EntriesFirst
  <2>3. Editing(d, f)' /\ Locked(call'[d])
    <3>1. CASE d = c
      BY <2>2, <3>1
    <3>2. CASE d # c
      <4>1. call'[d] = call[d]
        BY <3>2 DEF Moved
      <4> QED
        BY <2>2, <4>1 DEF Editing, Active, At
    <3> QED
      BY <3>1, <3>2
  <2> QED
    BY <1>2, <2>1, <2>3
<1>3. CASE firsts[f] # <<>>
  BY <1>1, <1>3 DEF EntriesFirst
<1> QED
  BY <1>2, <1>3

LEMMA GitKept ==
  ASSUME GitInv, NEW c \in Callers, Moved(c), UNCHANGED gitVars, At(c) # "added",
         Active(c)' => At(c)' \notin InMutex
  PROVE  GitInv'
<1>1. \A d \in Callers \ {c} : (Active(d)' <=> Active(d)) /\ At(d)' = At(d)
  BY DEF Moved, Active, At
<1>2. ASSUME NEW d \in Callers, Active(d)', At(d)' \in InMutex
      PROVE  mutex' = d
  <2>1. d # c
    BY <1>2
  <2> QED
    BY <1>1, <1>2, <2>1 DEF GitInv, gitVars
<1>3. ASSUME NEW d \in Callers, Active(d)', At(d)' = "reset"
      PROVE  slipped' \/ Last(commits').by = "console"
  <2>1. d # c
    BY <1>3 DEF InMutex
  <2> QED
    BY <1>1, <1>3, <2>1 DEF GitInv, gitVars
<1>4. indexLock' # "free" => \E d \in Callers : Active(d)' /\ At(d)' = "added"
  BY <1>1 DEF GitInv, gitVars
<1> QED
  BY <1>2, <1>3, <1>4 DEF GitInv, gitVars

LEMMA HistoryKept ==
  ASSUME HonestHistory, history' = history, raced \subseteq raced'
  PROVE  HonestHistory'
BY DEF HonestHistory

(* Only one call has the lock of a file. *)
LEMMA OneHolder ==
  ASSUME LockHeld, NEW c \in Callers, NEW d \in Callers,
         Active(c), Locked(call[c]), At(c) # "lock",
         Active(d), Locked(call[d]), At(d) # "lock", call[c].file = call[d].file
  PROVE  c = d
BY DEF LockHeld

(* The edits in progress, as the code sees them. *)
LEMMA InEditIs ==
  ASSUME Calls, NEW d \in Callers, NEW f
  PROVE  d \in InEdit(f) <=> Editing(d, f)
<1>1. ASSUME Active(d), At(d) \in {"pre", "read", "write"}
      PROVE  Contains(call[d].todo, "write")
  BY <1>1, CallFacts, HeadFacts DEF At
<1> QED
  BY <1>1 DEF InEdit, Editing, Active, At

(* Whoever changes a file and is not seen to race is its only editor. *)
LEMMA ChangesAlone ==
  ASSUME Calls, LockHeld, NEW c \in Callers, Active(c), At(c) # "lock",
         raced' = Races(c, call[c]), call[c].file \notin raced'
  PROVE  /\ call[c].file \notin raced
         /\ \A d \in Callers \ {c} : ~Editing(d, call[c].file)
<1>1. call[c].file \notin raced
  BY DEF Races
<1>2. ASSUME NEW d \in Callers \ {c}, Editing(d, call[c].file)
      PROVE  FALSE
  <2>1. d \in InEdit(call[c].file)
    BY <1>2, InEditIs
  <2>2. Locked(call[c]) /\ Locked(call[d])
    BY <2>1 DEF Races
  <2> QED
    BY <1>2, <2>2, OneHolder DEF Editing
<1> QED
  BY <1>1, <1>2

LEMMA RacesGrow ==
  ASSUME NEW c \in Callers, NEW j
  PROVE  raced \subseteq Races(c, j) /\ Races(c, j) \subseteq raced \cup {j.file}
BY DEF Races

(* Reads stay fresh when the file of c changes and c is done with it. *)
LEMMA ReadsChanged ==
  ASSUME Calls, LockHeld, ReadsFresh, NEW c \in Callers, Active(c), At(c) # "lock", Moved(c),
         \A g \in Files \ {call[c].file} : disk'[g] = disk[g],
         raced' = Races(c, call[c]),
         Active(c)' => At(c)' \notin {"read", "write"}
  PROVE  ReadsFresh'
<1> SUFFICES ASSUME NEW d \in Callers, Active(d)', At(d)' \in {"read", "write"},
                    call'[d].file \notin raced'
             PROVE  /\ call'[d].pre \in {disk'[call'[d].file], 0}
                    /\ call'[d].base = disk'[call'[d].file]
  BY DEF ReadsFresh, Fresh
<1>1. d # c
  OBVIOUS
<1>2. call'[d] = call[d]
  BY <1>1 DEF Moved
<1>3. Active(d) /\ At(d) \in {"read", "write"}
  BY <1>2 DEF Active, At
<1>4. call[d].file # call[c].file
  <2> SUFFICES ASSUME call[d].file = call[c].file PROVE FALSE
    OBVIOUS
  <2>1. Editing(d, call[c].file)
    BY <1>3 DEF Editing
  <2> QED
    BY <1>1, <1>2, <2>1, ChangesAlone
<1>5. call[d].file \in Files /\ call[d].file \notin raced
  BY <1>2, <1>3, CallFacts, RacesGrow
<1> QED
  BY <1>2, <1>3, <1>4, <1>5 DEF ReadsFresh, Fresh

(* A call that edits without the lock changes no entry. *)
LEMMA EntriesChanged ==
  ASSUME Calls, LockHeld, EntriesFirst, NEW c \in Callers, Active(c), ~Locked(call[c]), Moved(c),
         At(c) # "lock", Types,
         \A g \in Files \ {call[c].file} : disk'[g] = disk[g],
         raced' = Races(c, call[c]), journal' = journal, firsts' = firsts
  PROVE  EntriesFirst'
<1> SUFFICES ASSUME NEW i \in 1 .. Len(journal), journal[i].file \notin raced'
             PROVE  IF firsts[journal[i].file] = <<>>
                    THEN /\ journal[i].content = disk'[journal[i].file]
                         /\ \E d \in Callers : Editing(d, journal[i].file)' /\ Locked(call'[d])
                    ELSE journal[i].content = firsts[journal[i].file][1]
  BY DEF EntriesFirst
<1> DEFINE f == journal[i].file
<1>1. f \notin raced /\ f \in Files
  <2>1. journal[i] \in JournalEntry
    BY DEF Types
  <2> QED
    BY <2>1, RacesGrow DEF JournalEntry
<1>2. CASE firsts[f] = <<>>
  <2>1. journal[i].content = disk[f]
    BY <1>1, <1>2 DEF EntriesFirst
  <2>2. PICK d \in Callers : Editing(d, f) /\ Locked(call[d])
    BY <1>1, <1>2 DEF EntriesFirst
  <2>3. d # c /\ call'[d] = call[d]
    BY <2>2 DEF Moved
  <2>4. f # call[c].file
    BY <2>2, <2>3, ChangesAlone
  <2>5. Editing(d, f)' /\ Locked(call'[d])
    BY <2>2, <2>3 DEF Editing, Active, At
  <2> QED
    BY <1>1, <1>2, <2>1, <2>4, <2>5
<1>3. CASE firsts[f] # <<>>
  BY <1>1, <1>3 DEF EntriesFirst
<1> QED
  BY <1>2, <1>3

-----------------------------------------------------------------------------
(* The instructions on files keep the invariant. *)

LEMMA NumbersInContents ==
  /\ 0 \in Contents /\ Original \in Contents
  /\ \A n \in 0 .. MaxWrites : n < MaxWrites => n + 1 \in Contents /\ n + 1 \in 0 .. MaxWrites
<1>1. MaxWrites \in Nat
  BY RollbackAssumption
<1> QED
  BY <1>1 DEF Contents, Original

LEMMA TypesKept ==
  ASSUME Types, UNCHANGED <<disk, editVars, gitVars, writes, calls, outside>>, raced' \subseteq Files
  PROVE  Types'
BY DEF Types, Unique, editVars, gitVars

LEMMA LockStep ==
  ASSUME IInv, NEW c \in Callers, Active(c), At(c) = "lock", UNCHANGED <<calls, outside>>,
         Lock(c, call[c], Tail(call[c].todo))
  PROVE  IInv'
<1>1. /\ Goes(c, call[c], Tail(call[c].todo)) /\ HasLock(c, call[c].file)
      /\ UNCHANGED <<disk, editVars, gitVars, writes, raced>>
  BY DEF Lock
<1>2. Moved(c) /\ Active(c)' /\ At(c)' = "guard"
  BY <1>1, CallFacts, GoesNext DEF IInv, After, Finals
<1>3. LockHeld'
  <2> SUFFICES ASSUME NEW d \in Callers, Active(d)', Locked(call'[d])
               PROVE  /\ \E i \in 1 .. Len(locks[call'[d].file]) : locks[call'[d].file][i] = d
                      /\ At(d)' # "lock" => locks[call'[d].file][1] = d
    BY <1>1 DEF LockHeld, editVars
  <2>1. CASE d = c
    <3>1. Locked(call[c]) /\ call'[c].file = call[c].file
      BY <1>2, <2>1 DEF Moved
    <3>2. PICK i \in 1 .. Len(locks[call[c].file]) : locks[call[c].file][i] = c
      BY <3>1 DEF IInv, LockHeld
    <3>3. locks[call[c].file] \in Seq(Callers) /\ locks[call[c].file] # <<>>
      BY <3>2, CallFacts, EmptySeq DEF IInv, Types
    <3>4. locks[call[c].file][1] = c
      BY <1>1, <3>3 DEF HasLock
    <3> QED
      BY <2>1, <3>1, <3>2, <3>4
  <2>2. CASE d # c
    <3>1. call'[d] = call[d]
      BY <1>2, <2>2 DEF Moved
    <3> QED
      BY <3>1 DEF IInv, LockHeld, Active, At
  <2> QED
    BY <2>1, <2>2
<1>4. Types'
  BY <1>1, TypesKept DEF IInv, Types
<1>5. ReadsFresh'
  BY <1>1, <1>2, ReadsKept DEF IInv
<1>6. HonestHistory'
  BY <1>1, HistoryKept DEF IInv, editVars
<1>7. EntriesFirst'
  <2>1. \A f : ~Editing(c, f)
    BY DEF Editing
  <2> QED
    BY <1>1, <1>2, <2>1, EntriesKept DEF IInv, editVars
<1>8. GitInv'
  BY <1>1, <1>2, GitKept DEF IInv, InMutex
<1> QED
  BY <1>2, <1>3, <1>4, <1>5, <1>6, <1>7, <1>8 DEF IInv, Moved

LEMMA PreStep ==
  ASSUME IInv, NEW c \in Callers, Active(c), At(c) = "pre", UNCHANGED <<calls, outside>>,
         Pre(c, call[c], Tail(call[c].todo))
  PROVE  IInv'
<1> DEFINE f == call[c].file
<1>0. PICK pre \in {disk[f], 0} :
         /\ Goes(c, [call[c] EXCEPT !.pre = pre, !.base = disk[f]], Tail(call[c].todo))
         /\ UNCHANGED <<disk, editVars, gitVars, writes, raced>>
  BY DEF Pre
<1> DEFINE j == [call[c] EXCEPT !.pre = pre, !.base = disk[f]]
<1>1. /\ Goes(c, j, Tail(call[c].todo))
      /\ UNCHANGED <<disk, editVars, gitVars, writes, raced>>
  BY <1>0
<1>2. disk[f] \in Contents /\ pre \in Contents
  BY <1>0, CallFacts, NumbersInContents DEF IInv, Types, Tree
<1>3. /\ j \in CallRec /\ j.file = f /\ j.todo = call[c].todo
      /\ j.pre = pre /\ j.base = disk[f]
  BY <1>2, CallFacts DEF IInv, CallRec
<1> HIDE DEF j
<1>4. /\ Moved(c) /\ Active(c)' /\ At(c)' \in {"read", "write"}
      /\ call'[c].pre = pre /\ call'[c].base = disk[f]
  BY <1>1, <1>3, GoesNext DEF IInv, After, Finals
<1>5. call'[c].file = f
  BY <1>4 DEF Moved
<1>6. LockHeld'
  BY <1>1, <1>4, LocksKept DEF IInv, editVars
<1>7. Types'
  BY <1>1, TypesKept DEF IInv, Types
<1>8. ReadsFresh'
  <2>1. Fresh(call'[c])
    BY <1>0, <1>4, <1>5 DEF Fresh
  <2> QED
    BY <1>1, <1>4, <2>1, ReadsKept DEF IInv
<1>9. HonestHistory'
  BY <1>1, HistoryKept DEF IInv, editVars
<1>10. EntriesFirst'
  <2>1. \A g : Editing(c, g) /\ Locked(call[c]) => Editing(c, g)' /\ Locked(call'[c])
    BY <1>4, <1>5 DEF Editing, Moved
  <2> QED
    BY <1>1, <1>4, <2>1, EntriesKept DEF IInv, editVars
<1>11. GitInv'
  BY <1>1, <1>4, GitKept DEF IInv, InMutex
<1> QED
  BY <1>4, <1>6, <1>7, <1>8, <1>9, <1>10, <1>11 DEF IInv, Moved

LEMMA ReplacedFirsts ==
  ASSUME Calls, Types, NEW c \in Callers, Active(c), firsts' = Replaces(call[c])
  PROVE  /\ firsts' \in [Files -> Seq(Contents)]
         /\ \A g \in Files : g # call[c].file \/ ~Locked(call[c]) => firsts'[g] = firsts[g]
         /\ Locked(call[c]) =>
              LET f == call[c].file IN
              /\ firsts'[f] # <<>>
              /\ firsts'[f][1] = IF firsts[f] = <<>> THEN disk[f] ELSE firsts[f][1]
<1> DEFINE f == call[c].file
           more == Append(firsts[f], disk[f])
<1>1. f \in Files /\ disk[f] \in Contents
  BY CallFacts DEF Types, Tree
<1>2. firsts \in [Files -> Seq(Contents)] /\ firsts[f] \in Seq(Contents)
  BY <1>1 DEF Types
<1>3. /\ more \in Seq(Contents)
      /\ Len(more) = Len(firsts[f]) + 1
      /\ \A i \in 1 .. Len(firsts[f]) : more[i] = firsts[f][i]
      /\ more[Len(firsts[f]) + 1] = disk[f]
  BY <1>1, <1>2, AppendProperties
<1>4. Len(firsts[f]) \in Nat /\ (firsts[f] = <<>> => Len(firsts[f]) = 0)
      /\ (firsts[f] # <<>> => 1 \in 1 .. Len(firsts[f]))
  BY <1>2, EmptySeq, LenProperties
<1>5. firsts' = IF Locked(call[c]) THEN [firsts EXCEPT ![f] = more] ELSE firsts
  BY DEF Replaces
<1> HIDE DEF more
<1>6. more # <<>> /\ more[1] = IF firsts[f] = <<>> THEN disk[f] ELSE firsts[f][1]
  <2>1. more # <<>>
    BY <1>3, <1>4, EmptySeq
  <2>2. CASE firsts[f] = <<>>
    BY <1>3, <1>4, <2>1, <2>2
  <2>3. CASE firsts[f] # <<>>
    BY <1>3, <1>4, <2>1, <2>3
  <2> QED
    BY <2>1, <2>2, <2>3
<1> QED
  BY <1>1, <1>2, <1>3, <1>5, <1>6

(* An edit that has got at its file leaves the first content as it was. *)
LEMMA EntriesReplaced ==
  ASSUME IInv, NEW c \in Callers, Active(c), At(c) # "lock", Moved(c),
         \A g \in Files \ {call[c].file} : disk'[g] = disk[g],
         raced' = Races(c, call[c]) \/ (raced' = raced /\ disk' = disk),
         journal' = journal, firsts' = Replaces(call[c])
  PROVE  EntriesFirst'
<1> DEFINE f == call[c].file
<1>0. raced \subseteq raced' /\ f \in Files
  BY RacesGrow, CallFacts DEF IInv
<1>1. CASE ~Locked(call[c])
  <2>1. firsts' = firsts
    BY <1>1 DEF Replaces
  <2>2. CASE raced' = Races(c, call[c])
    BY <1>1, <2>1, <2>2, EntriesChanged DEF IInv
  <2>3. CASE raced' = raced /\ disk' = disk
    BY <1>1, <2>1, <2>3, EntriesKept DEF IInv
  <2> QED
    BY <2>2, <2>3
<1>2. CASE Locked(call[c])
  <2> SUFFICES ASSUME NEW i \in 1 .. Len(journal), journal[i].file \notin raced'
               PROVE  IF firsts'[journal[i].file] = <<>>
                      THEN /\ journal[i].content = disk'[journal[i].file]
                           /\ \E d \in Callers : Editing(d, journal[i].file)' /\ Locked(call'[d])
                      ELSE journal[i].content = firsts'[journal[i].file][1]
    BY DEF EntriesFirst
  <2> DEFINE g == journal[i].file
  <2>1. g \notin raced /\ g \in Files
    <3>1. journal[i] \in JournalEntry
      BY DEF IInv, Types
    <3> QED
      BY <1>0, <3>1 DEF JournalEntry
  <2>2. IF firsts[g] = <<>>
        THEN journal[i].content = disk[g] /\ \E d \in Callers : Editing(d, g) /\ Locked(call[d])
        ELSE journal[i].content = firsts[g][1]
    BY <2>1 DEF IInv, EntriesFirst
  <2>3. CASE g = f
    <3>1. /\ firsts'[f] # <<>>
          /\ firsts'[f][1] = IF firsts[f] = <<>> THEN disk[f] ELSE firsts[f][1]
      BY <1>2, ReplacedFirsts DEF IInv
    <3> QED
      BY <2>2, <2>3, <3>1
  <2>4. CASE g # f
    <3>1. firsts'[g] = firsts[g] /\ disk'[g] = disk[g]
      BY <2>1, <2>4, ReplacedFirsts DEF IInv
    <3>2. \A d \in Callers : Editing(d, g) /\ Locked(call[d]) => Editing(d, g)' /\ Locked(call'[d])
      <4> SUFFICES ASSUME NEW d \in Callers, Editing(d, g), Locked(call[d])
                   PROVE  Editing(d, g)' /\ Locked(call'[d])
        OBVIOUS
      <4>1. call'[d] = call[d] /\ journal' = journal
        BY <2>4 DEF Moved, Editing
      <4> QED
        BY <4>1 DEF Editing, Active, At
    <3> QED
      BY <2>2, <3>1, <3>2
  <2> QED
    BY <2>3, <2>4
<1> QED
  BY <1>1, <1>2

(* An edit that fails in its read or in its write. *)
LEMMA FailStep ==
  ASSUME IInv, NEW c \in Callers, Active(c), At(c) \in {"read", "write"}, UNCHANGED <<calls, outside>>,
         WriteFails(c, call[c])
  PROVE  IInv'
<1> DEFINE f == call[c].file
<1>1. /\ Goes(c, call[c], Failed(call[c].todo))
      /\ firsts' = Replaces(call[c])
      /\ UNCHANGED <<disk, journal, locks, history, gitVars, writes, raced>>
  BY DEF WriteFails
<1>2. Moved(c) /\ (Active(c)' => At(c)' = "unlock")
  BY <1>1, GoesFailed DEF IInv
<1>3. \A g \in Files \ {f} : disk'[g] = disk[g]
  BY <1>1
<1>4. LockHeld'
  BY <1>1, <1>2, LocksKept DEF IInv
<1>5. Types'
  <2>1. firsts' \in [Files -> Seq(Contents)]
    BY <1>1, ReplacedFirsts DEF IInv
  <2> QED
    BY <1>1, <2>1 DEF IInv, Types, Unique, gitVars
<1>6. ReadsFresh'
  BY <1>1, <1>2, ReadsKept DEF IInv
<1>7. HonestHistory'
  BY <1>1, HistoryKept DEF IInv
<1>8. EntriesFirst'
  BY <1>1, <1>2, <1>3, EntriesReplaced DEF IInv
<1>9. GitInv'
  BY <1>1, <1>2, GitKept DEF IInv, InMutex
<1> QED
  BY <1>2, <1>4, <1>5, <1>6, <1>7, <1>8, <1>9 DEF IInv, Moved

LEMMA ReadFileStep ==
  ASSUME IInv, NEW c \in Callers, Active(c), At(c) = "read", UNCHANGED <<calls, outside>>,
         Read(c, call[c], Tail(call[c].todo))
  PROVE  IInv'
<1> DEFINE f == call[c].file
           j == [call[c] EXCEPT !.base = disk[f]]
<1>1. CASE WriteFails(c, call[c])
  BY <1>1, FailStep
<1>2. CASE /\ Goes(c, j, Tail(call[c].todo))
           /\ UNCHANGED <<disk, editVars, gitVars, writes, raced>>
  <2>1. disk[f] \in Contents
    BY CallFacts DEF IInv, Types, Tree
  <2>2. /\ j \in CallRec /\ j.file = f /\ j.todo = call[c].todo
        /\ j.pre = call[c].pre /\ j.base = disk[f]
    BY <2>1, CallFacts DEF IInv, CallRec
  <2> HIDE DEF j
  <2>3. /\ Moved(c) /\ Active(c)' /\ At(c)' = "write"
        /\ call'[c].pre = call[c].pre /\ call'[c].base = disk[f]
    BY <1>2, <2>2, GoesNext DEF IInv, After, Finals
  <2>4. call'[c].file = f
    BY <2>3 DEF Moved
  <2>5. LockHeld'
    BY <1>2, <2>3, LocksKept DEF IInv, editVars
  <2>6. Types'
    BY <1>2, TypesKept DEF IInv, Types
  <2>7. ReadsFresh'
    <3>1. f \notin raced => Fresh(call'[c])
      BY <2>3, <2>4 DEF IInv, ReadsFresh, Fresh
    <3> QED
      BY <1>2, <2>3, <2>4, <3>1, ReadsKept DEF IInv
  <2>8. HonestHistory'
    BY <1>2, HistoryKept DEF IInv, editVars
  <2>9. EntriesFirst'
    <3>1. \A g : Editing(c, g) /\ Locked(call[c]) => Editing(c, g)' /\ Locked(call'[c])
      BY <2>3, <2>4 DEF Editing, Moved
    <3> QED
      BY <1>2, <2>3, <3>1, EntriesKept DEF IInv, editVars
  <2>10. GitInv'
    BY <1>2, <2>3, GitKept DEF IInv, InMutex
  <2> QED
    BY <2>3, <2>5, <2>6, <2>7, <2>8, <2>9, <2>10 DEF IInv, Moved
<1> QED
  BY <1>1, <1>2 DEF Read, editVars

LEMMA WriteStep ==
  ASSUME IInv, NEW c \in Callers, Active(c), At(c) = "write", UNCHANGED <<calls, outside>>,
         Write(c, call[c], Tail(call[c].todo))
  PROVE  IInv'
<1> DEFINE f == call[c].file
           e == [file |-> f, pre |-> call[c].pre, base |-> call[c].base, before |-> disk[f]]
<1>1. /\ writes < MaxWrites /\ writes' = writes + 1
      /\ disk' = [disk EXCEPT ![f] = writes + 1]
      /\ history' = Append(history, e) \/ history' = history
      /\ firsts' = Replaces(call[c])
      /\ raced' = Races(c, call[c])
      /\ Goes(c, call[c], Tail(call[c].todo))
      /\ UNCHANGED <<journal, locks, gitVars>>
  BY DEF Write
<1>2. /\ f \in Files /\ disk[f] \in Contents /\ e \in Entry
      /\ writes + 1 \in Contents /\ writes + 1 \in 0 .. MaxWrites
  BY <1>1, CallFacts, NumbersInContents DEF IInv, Types, Tree, Entry
<1>3. Moved(c) /\ (Active(c)' => At(c)' = "unlock")
  BY <1>1, CallFacts, GoesNext DEF IInv, After
<1>4. \A g \in Files \ {f} : disk'[g] = disk[g]
  BY <1>1 DEF IInv, Types, Tree
<1>5. raced \subseteq raced' /\ raced' \subseteq Files
  BY <1>1, <1>2, RacesGrow DEF IInv, Types
<1>6. firsts' \in [Files -> Seq(Contents)]
  BY <1>1, ReplacedFirsts DEF IInv
<1>7. /\ history \in Seq(Entry) /\ history' \in Seq(Entry)
      /\ \A i \in DOMAIN history' : history'[i] = e \/ (i \in DOMAIN history /\ history'[i] = history[i])
  <2> HIDE DEF e
  <2>1. history \in Seq(Entry)
    BY DEF IInv, Types
  <2>2. CASE history' = Append(history, e)
    <3>1. /\ history' \in Seq(Entry) /\ Len(history') = Len(history) + 1
          /\ \A i \in 1 .. Len(history) : history'[i] = history[i]
          /\ history'[Len(history) + 1] = e
      BY <1>2, <2>1, <2>2, AppendProperties
    <3>2. /\ DOMAIN history' = 1 .. Len(history) + 1 /\ DOMAIN history = 1 .. Len(history)
          /\ Len(history) \in Nat
      BY <2>1, <3>1, LenProperties
    <3> QED
      BY <2>1, <3>1, <3>2
  <2>3. CASE history' = history
    BY <2>1, <2>3
  <2> QED
    BY <1>1, <2>2, <2>3
<1>8. Types'
  <2>1. disk' \in Tree
    BY <1>1, <1>2 DEF IInv, Types, Tree
  <2> QED
    BY <1>1, <1>2, <1>5, <1>6, <1>7, <2>1 DEF IInv, Types, Unique, gitVars
<1>9. LockHeld'
  BY <1>1, <1>3, LocksKept DEF IInv
<1>10. ReadsFresh'
  BY <1>1, <1>3, <1>4, ReadsChanged DEF IInv
<1>11. HonestHistory'
  <2>1. f \notin raced' => e.pre \in {e.before, 0} /\ e.base = e.before
    BY <1>5 DEF IInv, ReadsFresh, Fresh
  <2>2. e.file = f
    OBVIOUS
  <2> HIDE DEF e
  <2> SUFFICES ASSUME NEW i \in DOMAIN history', history'[i].file \notin raced'
               PROVE  /\ history'[i].pre \in {history'[i].before, 0}
                      /\ history'[i].base = history'[i].before
    BY DEF HonestHistory
  <2>3. CASE history'[i] = e
    BY <2>1, <2>2, <2>3
  <2>4. CASE i \in DOMAIN history /\ history'[i] = history[i]
    BY <1>5, <2>4 DEF IInv, HonestHistory
  <2> QED
    BY <1>7, <2>3, <2>4
<1>12. EntriesFirst'
  BY <1>1, <1>3, <1>4, EntriesReplaced DEF IInv
<1>13. GitInv'
  BY <1>1, <1>3, GitKept DEF IInv, InMutex
<1> QED
  BY <1>3, <1>8, <1>9, <1>10, <1>11, <1>12, <1>13 DEF IInv, Moved

-----------------------------------------------------------------------------
(* The journal. *)

(* Entries e of a journal are right. *)
EntryOk(e) ==
  e.file \notin raced =>
    IF firsts[e.file] = <<>>
    THEN e.content = disk[e.file] /\ \E d \in Callers : Editing(d, e.file) /\ Locked(call[d])
    ELSE e.content = firsts[e.file][1]

LEMMA EntriesAreOk ==
  ASSUME EntriesFirst, NEW i \in 1 .. Len(journal)
  PROVE  EntryOk(journal[i])
BY DEF EntriesFirst, EntryOk

LEMMA OkEntries ==
  ASSUME NEW r, r = journal', \A i \in 1 .. Len(r) : EntryOk(r[i])'
  PROVE  EntriesFirst'
BY DEF EntriesFirst, EntryOk

LEMMA EntryKept ==
  ASSUME NEW e, EntryOk(e), NEW c \in Callers, Moved(c), raced \subseteq raced',
         disk' = disk, firsts'[e.file] = firsts[e.file], \A f : ~Editing(c, f)
  PROVE  EntryOk(e)'
<1>1. ASSUME NEW d \in Callers, Editing(d, e.file), Locked(call[d])
      PROVE  Editing(d, e.file)' /\ Locked(call'[d])
  <2>1. call'[d] = call[d]
    BY <1>1 DEF Moved
  <2> QED
    BY <1>1, <2>1 DEF Editing, Active, At
<1> QED
  BY <1>1 DEF EntryOk

LEMMA JournalTyped ==
  ASSUME Types
  PROVE  /\ journal \in Seq(JournalEntry) /\ Len(journal) \in Nat /\ DOMAIN journal = 1 .. Len(journal)
         /\ \A i \in 1 .. Len(journal) : journal[i] \in JournalEntry
         /\ \A f : Journaled(f) <=> \E i \in 1 .. Len(journal) : journal[i].file = f
<1>1. journal \in Seq(JournalEntry)
  BY DEF Types
<1>2. Len(journal) \in Nat /\ DOMAIN journal = 1 .. Len(journal)
  BY <1>1, LenProperties
<1> QED
  BY <1>1, <1>2, ElementOfSeq DEF Journaled, ToSet

(* What is recorded is what the file has, and nothing is recorded twice. *)
LEMMA RecordedEntries ==
  ASSUME Types, NEW f \in Files, NEW r, r = Recorded(f)
  PROVE  /\ r \in Seq(JournalEntry) /\ Len(r) <= MaxJournal
         /\ \A i, j \in 1 .. Len(r) : r[i].file = r[j].file => i = j
         /\ \A i \in 1 .. Len(r) :
              \/ \E k \in 1 .. Len(journal) : r[i] = journal[k]
              \/ ~Journaled(f) /\ r[i].file = f /\ r[i].content = disk[f]
<1> DEFINE e == [file |-> f, content |-> disk[f]]
           more == Append(journal, e)
<1>1. CASE Journaled(f)
  <2>1. r = journal
    BY <1>1 DEF Recorded
  <2> QED
    BY <2>1 DEF Types, Unique
<1>2. CASE ~Journaled(f)
  <2>1. e \in JournalEntry /\ e.file = f /\ e.content = disk[f]
    BY DEF JournalEntry, Types, Tree
  <2>2. r = IF Len(more) > MaxJournal THEN Tail(more) ELSE more
    <3>1. /\ Len(more) \in Nat
      BY <2>1, JournalTyped, AppendProperties
    <3>2. MaxJournal \in Nat
      BY RollbackAssumption
    <3> HIDE DEF more
    <3>3. (Len(more) > MaxJournal) <=> ~(Len(more) <= MaxJournal)
      BY <3>1, <3>2
    <3> QED
      BY <1>2, <3>3 DEF Recorded, more
  <2> HIDE DEF e
  <2>3. /\ more \in Seq(JournalEntry) /\ Len(more) = Len(journal) + 1
        /\ \A i \in 1 .. Len(journal) : more[i] = journal[i]
        /\ more[Len(journal) + 1] = e
    BY <2>1, JournalTyped, AppendProperties
  <2>4. Len(journal) \in Nat /\ Len(journal) <= MaxJournal /\ MaxJournal \in Nat
    BY JournalTyped, RollbackAssumption DEF Types
  <2>5. \A i \in 1 .. Len(journal) : journal[i].file # f
    BY <1>2, JournalTyped
  <2> HIDE DEF more
  <2>6. \A i \in 1 .. Len(more) :
           \/ i \in 1 .. Len(journal) /\ more[i] = journal[i]
           \/ i = Len(journal) + 1 /\ more[i] = e
    BY <2>3, <2>4
  <2>7. \A i, j \in 1 .. Len(more) : more[i].file = more[j].file => i = j
    BY <2>1, <2>5, <2>6 DEF Types, Unique
  <2>8. CASE Len(more) <= MaxJournal
    <3>1. r = more
      BY <2>2, <2>3, <2>4, <2>8
    <3> QED
      BY <1>2, <2>1, <2>3, <2>6, <2>7, <2>8, <3>1
  <2>9. CASE Len(more) > MaxJournal
    <3>1. r = Tail(more) /\ more # <<>>
      BY <2>2, <2>3, <2>4, <2>9, EmptySeq
    <3>2. r \in Seq(JournalEntry) /\ Len(r) = Len(journal)
          /\ \A i \in 1 .. Len(r) : r[i] = more[i + 1]
      BY <2>3, <2>4, <3>1, HeadTailProperties
    <3>3. \A i \in 1 .. Len(r) : i + 1 \in 1 .. Len(more)
      BY <2>3, <2>4, <3>2
    <3>4. \A i, j \in 1 .. Len(r) : r[i].file = r[j].file => i = j
      <4> SUFFICES ASSUME NEW i \in 1 .. Len(r), NEW j \in 1 .. Len(r), r[i].file = r[j].file
                   PROVE  i = j
        OBVIOUS
      <4>1. i + 1 = j + 1
        BY <2>7, <3>2, <3>3
      <4>2. i \in Nat /\ j \in Nat
        BY <2>4, <3>2
      <4> QED
        BY <4>1, <4>2
    <3>5. \A i \in 1 .. Len(r) :
             (\E k \in 1 .. Len(journal) : r[i] = journal[k]) \/ r[i] = e
      BY <2>6, <3>2, <3>3
    <3> QED
      BY <1>2, <2>1, <2>4, <3>2, <3>4, <3>5
  <2> QED
    BY <2>3, <2>4, <2>8, <2>9
<1> QED
  BY <1>1, <1>2

(* The journal without a file has the other entries. *)
LEMMA RemainingEntries ==
  ASSUME Types, NEW f \in Files, NEW r, r = WithoutEntry(f)
  PROVE  /\ r \in Seq(JournalEntry) /\ Len(r) <= MaxJournal
         /\ \A i, j \in 1 .. Len(r) : r[i].file = r[j].file => i = j
         /\ \A i \in 1 .. Len(r) : r[i].file # f /\ \E k \in 1 .. Len(journal) : r[i] = journal[k]
<1>1. CASE ~Journaled(f)
  <2>1. r = journal
    BY <1>1 DEF WithoutEntry
  <2> QED
    BY <1>1, <2>1, JournalTyped DEF Types, Unique
<1>2. CASE Journaled(f)
  <2> DEFINE x == CHOOSE i \in DOMAIN journal : journal[i].file = f
             n == Len(journal)
  <2>1. x \in 1 .. n /\ journal[x].file = f
    BY <1>2, JournalTyped
  <2>2. r = SubSeq(journal, 1, x - 1) \o SubSeq(journal, x + 1, n)
    BY <1>2 DEF WithoutEntry, RemoveAt
  <2> HIDE DEF x
  <2> DEFINE a == SubSeq(journal, 1, x - 1)
             b == SubSeq(journal, x + 1, n)
  <2>3. n \in Nat /\ n <= MaxJournal /\ MaxJournal \in Nat
    BY JournalTyped, RollbackAssumption DEF Types
  <2>4. /\ a \in Seq(JournalEntry) /\ Len(a) = x - 1
        /\ \A i \in 1 .. x - 1 : a[i] = journal[i]
    <3>1. \A i \in 1 .. x - 1 : journal[i] \in JournalEntry
      BY <2>1, <2>3, JournalTyped
    <3>2. 1 \in Int /\ x - 1 \in Int
      BY <2>1
    <3>3. /\ a \in Seq(JournalEntry)
          /\ Len(a) = IF 1 <= x - 1 THEN (x - 1) - 1 + 1 ELSE 0
          /\ \A i \in 1 .. (x - 1) - 1 + 1 : a[i] = journal[1 + i - 1]
      BY <3>1, <3>2, SubSeqProperties
    <3> QED
      BY <2>1, <2>3, <3>3
  <2>5. /\ b \in Seq(JournalEntry) /\ Len(b) = n - x
        /\ \A i \in 1 .. n - x : b[i] = journal[x + i]
    <3>1. \A i \in x + 1 .. n : journal[i] \in JournalEntry
      BY <2>1, <2>3, JournalTyped
    <3>2. x + 1 \in Int /\ n \in Int
      BY <2>1, <2>3
    <3>3. /\ b \in Seq(JournalEntry)
          /\ Len(b) = IF x + 1 <= n THEN n - (x + 1) + 1 ELSE 0
          /\ \A i \in 1 .. n - (x + 1) + 1 : b[i] = journal[(x + 1) + i - 1]
      BY <3>1, <3>2, SubSeqProperties
    <3> QED
      BY <2>1, <2>3, <3>3
  <2>joined. r = a \o b
    BY <2>2
  <2> HIDE DEF a, b
  <2>6. /\ r \in Seq(JournalEntry) /\ Len(r) = Len(a) + Len(b)
        /\ \A i \in 1 .. Len(a) + Len(b) : r[i] = IF i <= Len(a) THEN a[i] ELSE b[i - Len(a)]
    BY <2>4, <2>5, <2>joined, ConcatProperties
  <2> DEFINE k(i) == IF i < x THEN i ELSE i + 1
  <2>7. Len(r) = n - 1
    BY <2>1, <2>3, <2>4, <2>5, <2>6
  <2>8. ASSUME NEW i \in 1 .. Len(r)
        PROVE  k(i) \in 1 .. n /\ k(i) # x /\ r[i] = journal[k(i)]
    <3>1. i \in 1 .. n - 1
      BY <2>7
    <3>2. CASE i < x
      BY <2>1, <2>3, <2>4, <2>5, <2>6, <3>1, <3>2
    <3>3. CASE ~(i < x)
      <4>1. i - (x - 1) \in 1 .. n - x /\ ~(i <= x - 1) /\ x + (i - (x - 1)) = i + 1
            /\ i + 1 \in 1 .. n /\ i + 1 # x
        BY <2>1, <2>3, <3>1, <3>3
      <4>2. r[i] = b[i - (x - 1)]
        BY <2>4, <2>5, <2>6, <2>7, <3>1, <4>1
      <4>3. r[i] = journal[i + 1]
        BY <2>5, <4>1, <4>2
      <4> QED
        BY <3>3, <4>1, <4>3
    <3> QED
      BY <3>2, <3>3
  <2>9. \A i, j \in 1 .. Len(r) : k(i) = k(j) => i = j
    BY <2>1, <2>3, <2>7
  <2> HIDE DEF k
  <2>10. \A i, j \in 1 .. Len(r) : r[i].file = r[j].file => i = j
    <3> SUFFICES ASSUME NEW i \in 1 .. Len(r), NEW j \in 1 .. Len(r), r[i].file = r[j].file
                 PROVE  i = j
      OBVIOUS
    <3>1. k(i) \in 1 .. n /\ k(j) \in 1 .. n /\ journal[k(i)].file = journal[k(j)].file
      BY <2>8
    <3>2. k(i) = k(j)
      BY <3>1 DEF Types, Unique
    <3> QED
      BY <2>9, <3>2
  <2>11. \A i \in 1 .. Len(r) : r[i].file # f /\ \E q \in 1 .. n : r[i] = journal[q]
    BY <2>1, <2>8 DEF Types, Unique
  <2>12. Len(r) <= MaxJournal
    BY <2>3, <2>7
  <2> QED
    BY <2>6, <2>10, <2>11, <2>12
<1> QED
  BY <1>1, <1>2

LEMMA GuardStep ==
  ASSUME IInv, NEW c \in Callers, Active(c), At(c) = "guard", UNCHANGED <<calls, outside>>,
         Guard(c, call[c], Tail(call[c].todo))
  PROVE  IInv'
<1> DEFINE f == call[c].file
<1>1. UNCHANGED <<disk, locks, history, gitVars, writes, raced>>
  BY DEF Guard
<1>2. f \in Files /\ Locked(call[c]) /\ \A g : ~Editing(c, g)
  BY CallFacts, HeadFacts DEF IInv, At, Editing
<1>0. Goes(c, call[c], Tail(call[c].todo))
  BY DEF Guard
<1>3. CASE /\ journal' = Recorded(f)
           /\ firsts' = IF Journaled(f) THEN firsts ELSE [firsts EXCEPT ![f] = <<>>]
  <2>1. Moved(c) /\ Active(c)' /\ At(c)' = "pre"
    BY <1>0, CallFacts, GoesNext DEF IInv, After, Finals
  <2>2. Locked(call'[c])
    BY <1>2, <2>1 DEF Moved
  <2>3. /\ journal' \in Seq(JournalEntry) /\ Len(journal') <= MaxJournal
        /\ \A i, j \in 1 .. Len(journal') : journal'[i].file = journal'[j].file => i = j
        /\ \A i \in 1 .. Len(journal') :
             \/ \E k \in 1 .. Len(journal) : journal'[i] = journal[k]
             \/ ~Journaled(f) /\ journal'[i].file = f /\ journal'[i].content = disk[f]
    BY <1>2, <1>3, RecordedEntries DEF IInv
  <2>4. firsts' \in [Files -> Seq(Contents)]
        /\ (~Journaled(f) => firsts'[f] = <<>>)
        /\ \A g : (Journaled(f) \/ g # f) /\ g \in Files => firsts'[g] = firsts[g]
    <3>1. firsts \in [Files -> Seq(Contents)] /\ <<>> \in Seq(Contents)
      BY EmptySeq DEF IInv, Types
    <3> QED
      BY <1>2, <1>3, <3>1
  <2>5. Types'
    BY <1>1, <2>3, <2>4 DEF IInv, Types, Unique, gitVars
  <2>6. LockHeld'
    BY <1>1, <2>1, LocksKept DEF IInv
  <2>7. ReadsFresh'
    BY <1>1, <2>1, ReadsKept DEF IInv
  <2>8. HonestHistory'
    BY <1>1, HistoryKept DEF IInv
  <2>9. EntriesFirst'
    <3> PICK r : r = journal'
      OBVIOUS
    <3> SUFFICES ASSUME NEW i \in 1 .. Len(r) PROVE EntryOk(r[i])'
      BY OkEntries
    <3>1. CASE \E k \in 1 .. Len(journal) : r[i] = journal[k]
      <4>1. EntryOk(r[i]) /\ r[i] \in JournalEntry /\ (~Journaled(f) => r[i].file # f)
        BY <3>1, JournalTyped, EntriesAreOk DEF IInv
      <4>2. firsts'[r[i].file] = firsts[r[i].file]
        BY <2>4, <4>1 DEF JournalEntry
      <4> QED
        BY <1>1, <1>2, <2>1, <4>1, <4>2, EntryKept
    <3>2. CASE ~Journaled(f) /\ r[i].file = f /\ r[i].content = disk[f]
      <4>1. firsts'[f] = <<>> /\ disk' = disk
        BY <1>1, <2>4, <3>2
      <4>2. Editing(c, r[i].file)'
        BY <2>1, <3>2 DEF Moved, Editing
      <4> QED
        BY <2>2, <3>2, <4>1, <4>2 DEF EntryOk
    <3> QED
      BY <2>3, <3>1, <3>2
  <2>10. GitInv'
    BY <1>1, <2>1, GitKept DEF IInv, InMutex
  <2> QED
    BY <2>1, <2>5, <2>6, <2>7, <2>8, <2>9, <2>10 DEF IInv, Moved
<1>4. CASE UNCHANGED <<journal, firsts>>
  <2>1. Moved(c) /\ Active(c)' /\ At(c)' = "pre"
    BY <1>0, CallFacts, GoesNext DEF IInv, After, Finals
  <2>2. UNCHANGED editVars
    BY <1>1, <1>4 DEF editVars
  <2>3. LockHeld'
    BY <1>1, <2>1, LocksKept DEF IInv
  <2>4. Types'
    BY <1>1, <2>2, TypesKept DEF IInv, Types
  <2>5. ReadsFresh'
    BY <1>1, <2>1, ReadsKept DEF IInv
  <2>6. HonestHistory'
    BY <1>1, HistoryKept DEF IInv
  <2>7. EntriesFirst'
    BY <1>1, <1>2, <1>4, <2>1, EntriesKept DEF IInv
  <2>8. GitInv'
    BY <1>1, <2>1, GitKept DEF IInv, InMutex
  <2> QED
    BY <2>1, <2>3, <2>4, <2>5, <2>6, <2>7, <2>8 DEF IInv, Moved
<1> QED
  BY <1>3, <1>4 DEF Guard

LEMMA UnlockStep ==
  ASSUME IInv, NEW c \in Callers, Active(c), At(c) = "unlock", UNCHANGED <<calls, outside>>,
         Unlock(c, call[c], Tail(call[c].todo))
  PROVE  IInv'
<1> DEFINE f == call[c].file
           q == locks[f]
<1>1. /\ locks' = [locks EXCEPT ![f] = Tail(q)]
      /\ Goes(c, call[c], Tail(call[c].todo))
      /\ UNCHANGED <<disk, journal, history, firsts, gitVars, writes, raced>>
  BY DEF Unlock
<1>2. f \in Files /\ Locked(call[c]) /\ \A g : ~Editing(c, g)
  BY CallFacts, HeadFacts DEF IInv, At, Editing
<1>3. Moved(c) /\ ~Active(c)'
  BY <1>1, CallFacts, GoesNext DEF IInv, After
<1>4. q \in Seq(Callers) /\ q # <<>> /\ q[1] = c
  <2>1. q \in Seq(Callers) /\ \E i \in 1 .. Len(q) : q[i] = c
    BY <1>2 DEF IInv, Types, LockHeld
  <2>2. q[1] = c
    BY <1>2 DEF IInv, LockHeld
  <2> QED
    BY <2>1, <2>2, EmptySeq
<1>5. /\ Tail(q) \in Seq(Callers) /\ Len(Tail(q)) = Len(q) - 1 /\ Len(q) \in Nat
      /\ \A i \in 1 .. Len(Tail(q)) : Tail(q)[i] = q[i + 1]
  BY <1>4, HeadTailProperties, LenProperties
<1>6. locks \in [Files -> Seq(Callers)] /\ locks' \in [Files -> Seq(Callers)]
  BY <1>1, <1>5 DEF IInv, Types
<1>7. Types'
  BY <1>1, <1>6 DEF IInv, Types, Unique, gitVars
<1>8. LockHeld'
  <2> SUFFICES ASSUME NEW d \in Callers, Active(d)', Locked(call'[d])
               PROVE  /\ \E i \in 1 .. Len(locks'[call'[d].file]) : locks'[call'[d].file][i] = d
                      /\ At(d)' # "lock" => locks'[call'[d].file][1] = d
    BY DEF LockHeld
  <2>1. d # c /\ call'[d] = call[d] /\ Active(d)
    BY <1>3 DEF Moved, Active
  <2>2. call[d].file \in Files
    BY <2>1, CallFacts DEF IInv
  <2>3. /\ \E i \in 1 .. Len(locks[call[d].file]) : locks[call[d].file][i] = d
        /\ At(d) # "lock" => locks[call[d].file][1] = d
    BY <2>1 DEF IInv, LockHeld
  <2>4. CASE call[d].file # f
    <3>1. locks'[call[d].file] = locks[call[d].file]
      BY <1>1, <1>6, <2>2, <2>4
    <3> QED
      BY <2>1, <2>3, <3>1 DEF At
  <2>5. CASE call[d].file = f
    <3>1. PICK i \in 1 .. Len(q) : q[i] = d
      BY <2>3, <2>5
    <3>2. i # 1 /\ At(d) = "lock"
      BY <1>4, <2>1, <2>3, <2>5, <3>1
    <3>3. i - 1 \in 1 .. Len(Tail(q)) /\ (i - 1) + 1 = i
      BY <1>5, <3>1, <3>2
    <3>4. Tail(q)[i - 1] = d
      BY <1>5, <3>1, <3>3
    <3>5. locks'[f] = Tail(q)
      BY <1>1, <1>2, <1>6
    <3> QED
      BY <2>1, <2>5, <3>2, <3>3, <3>4, <3>5 DEF At
  <2> QED
    BY <2>4, <2>5
<1>9. ReadsFresh'
  BY <1>1, <1>3, ReadsKept DEF IInv
<1>10. HonestHistory'
  BY <1>1, HistoryKept DEF IInv
<1>11. EntriesFirst'
  BY <1>1, <1>2, <1>3, EntriesKept DEF IInv
<1>12. GitInv'
  BY <1>1, <1>3, GitKept DEF IInv
<1> QED
  BY <1>3, <1>7, <1>8, <1>9, <1>10, <1>11, <1>12 DEF IInv, Moved

(* A file that is changed without its lock, or not at all. *)
LEMMA ChangeStep ==
  ASSUME IInv, NEW c \in Callers, Active(c), At(c) \in {"run", "revert", "restore"},
         UNCHANGED <<calls, outside>>, UNCHANGED <<editVars, gitVars>>,
         ~Locked(call[c]), Moved(c), Active(c)' => At(c)' = "clear",
         writes' \in 0 .. MaxWrites,
         \/ UNCHANGED <<disk, raced>>
         \/ /\ \E new \in Contents : disk' = [disk EXCEPT ![call[c].file] = new]
            /\ raced' = Races(c, call[c])
  PROVE  IInv'
<1> DEFINE f == call[c].file
<1>1. f \in Files /\ disk \in Tree /\ raced \subseteq Files
  BY CallFacts DEF IInv, Types
<1>2. disk' \in Tree /\ \A g \in Files \ {f} : disk'[g] = disk[g]
  BY <1>1 DEF Tree
<1>3. raced \subseteq raced' /\ raced' \subseteq Files
  BY <1>1, RacesGrow
<1>4. UNCHANGED <<journal, locks, history, firsts>>
  BY DEF editVars
<1>5. Types'
  BY <1>2, <1>3, <1>4 DEF IInv, Types, Unique, gitVars
<1>6. LockHeld'
  BY <1>4, LocksKept DEF IInv
<1>7. ReadsFresh' /\ EntriesFirst'
  <2>1. CASE UNCHANGED <<disk, raced>>
    <3>1. \A g : ~Editing(c, g)
      BY DEF Editing
    <3> QED
      BY <1>4, <2>1, <3>1, ReadsKept, EntriesKept DEF IInv
  <2>2. CASE raced' = Races(c, call[c])
    BY <1>2, <1>4, <2>2, ReadsChanged, EntriesChanged DEF IInv
  <2> QED
    BY <2>1, <2>2
<1>8. HonestHistory'
  BY <1>3, <1>4, HistoryKept DEF IInv
<1>9. GitInv'
  BY GitKept DEF IInv, InMutex
<1> QED
  BY <1>5, <1>6, <1>7, <1>8, <1>9 DEF IInv, Moved

LEMMA RunStep ==
  ASSUME IInv, NEW c \in Callers, Active(c), At(c) = "run", UNCHANGED <<calls, outside>>,
         Run(c, call[c], Tail(call[c].todo))
  PROVE  IInv'
<1>1. ~Locked(call[c])
  BY CallFacts, HeadFacts DEF IInv, At
<1>2. Moved(c) /\ ~Active(c)'
  BY CallFacts, GoesNext DEF IInv, After, Run
<1>3. writes \in 0 .. MaxWrites /\ (writes < MaxWrites => writes + 1 \in Contents /\ writes + 1 \in 0 .. MaxWrites)
  BY NumbersInContents DEF IInv, Types
<1>4. /\ UNCHANGED <<editVars, gitVars>> /\ writes' \in 0 .. MaxWrites
      /\ \/ UNCHANGED <<disk, raced>>
         \/ /\ \E new \in Contents : disk' = [disk EXCEPT ![call[c].file] = new]
            /\ raced' = Races(c, call[c])
  BY <1>3 DEF Run
<1> QED
  BY <1>1, <1>2, <1>4, ChangeStep

LEMMA RevertStep ==
  ASSUME IInv, NEW c \in Callers, Active(c), At(c) = "revert", UNCHANGED <<calls, outside>>,
         Revert(c, call[c], Tail(call[c].todo))
  PROVE  IInv'
<1>1. ~Locked(call[c])
  BY CallFacts, HeadFacts DEF IInv, At
<1>2. Moved(c) /\ ~Active(c)'
  BY CallFacts, GoesNext DEF IInv, After, Revert
<1>3. \A i \in DOMAIN history : history[i].pre \in Contents
  <2>1. history \in Seq(Entry)
    BY DEF IInv, Types
  <2>2. \A i \in DOMAIN history : history[i] \in Entry
    BY <2>1, LenProperties, ElementOfSeq
  <2> QED
    BY <2>2 DEF Entry
<1>4. /\ UNCHANGED <<editVars, gitVars, writes>>
      /\ \/ UNCHANGED <<disk, raced>>
         \/ /\ \E new \in Contents : disk' = [disk EXCEPT ![call[c].file] = new]
            /\ raced' = Races(c, call[c])
  BY <1>3 DEF Revert
<1>5. writes' \in 0 .. MaxWrites
  BY <1>4 DEF IInv, Types
<1> QED
  BY <1>1, <1>2, <1>4, <1>5, ChangeStep

LEMMA RestoreStep ==
  ASSUME IInv, NEW c \in Callers, Active(c), At(c) = "restore", UNCHANGED <<calls, outside>>,
         Restore(c, call[c], Tail(call[c].todo))
  PROVE  IInv'
<1>1. Shape(call[c].todo) /\ call[c].pre \in Contents
  BY CallFacts DEF IInv
<1>2. ~Locked(call[c])
  <2>1. Tail(call[c].todo) # <<>>
    BY <1>1, HeadFacts DEF At, Finals
  <2>2. /\ Shape(Tail(call[c].todo)) /\ Head(Tail(call[c].todo)) = "clear"
        /\ Last(Tail(call[c].todo)) = Last(call[c].todo)
    BY <1>1, <2>1, TailShape DEF At, After
  <2>3. Last(call[c].todo) = "clear"
    BY <2>2, HeadFacts
  <2> QED
    BY <2>3, CallFacts DEF IInv
<1>3. Moved(c) /\ (Active(c)' => At(c)' = "clear")
  BY CallFacts, GoesNext DEF IInv, After, Restore
<1>4. /\ UNCHANGED <<editVars, gitVars, writes>>
      /\ \E new \in Contents : disk' = [disk EXCEPT ![call[c].file] = new]
      /\ raced' = Races(c, call[c])
  BY <1>1 DEF Restore
<1>5. writes' \in 0 .. MaxWrites
  BY <1>4 DEF IInv, Types
<1> QED
  BY <1>2, <1>3, <1>4, <1>5, ChangeStep

LEMMA TakeEntryStep ==
  ASSUME IInv, NEW c \in Callers, Active(c), At(c) = "entry", UNCHANGED <<calls, outside>>,
         TakeEntry(c, call[c], Tail(call[c].todo))
  PROVE  IInv'
<1> DEFINE f == call[c].file
           j == [call[c] EXCEPT !.pre = PreImage(f)]
<1>1. UNCHANGED <<disk, editVars, gitVars, writes, raced>>
  BY DEF TakeEntry
<1>2. Moved(c) /\ (Active(c)' => At(c)' = "restore")
  <2>1. CASE Journaled(f)
    <3>1. PreImage(f) \in Contents
      <4>1. \A e \in ToSet(journal) : e \in JournalEntry
        BY JournalTyped DEF IInv, ToSet
      <4>2. \E e \in ToSet(journal) : e.file = f
        BY <2>1 DEF Journaled
      <4> QED
        BY <4>1, <4>2 DEF PreImage, JournalEntry
    <3>2. j \in CallRec /\ j.file = f /\ j.todo = call[c].todo
      BY <3>1, CallFacts DEF IInv, CallRec
    <3>3. Goes(c, j, Tail(call[c].todo))
      BY <2>1 DEF TakeEntry
    <3> HIDE DEF j
    <3> QED
      BY <3>2, <3>3, GoesNext DEF IInv, After
  <2>2. CASE ~Journaled(f)
    BY <2>2, Returns DEF IInv, TakeEntry
  <2> QED
    BY <2>1, <2>2
<1>3. LockHeld'
  BY <1>1, <1>2, LocksKept DEF IInv, editVars
<1>4. Types'
  BY <1>1, TypesKept DEF IInv, Types
<1>5. ReadsFresh'
  BY <1>1, <1>2, ReadsKept DEF IInv
<1>6. HonestHistory'
  BY <1>1, HistoryKept DEF IInv, editVars
<1>7. EntriesFirst'
  <2>1. \A g : ~Editing(c, g)
    BY DEF Editing
  <2> QED
    BY <1>1, <1>2, <2>1, EntriesKept DEF IInv, editVars
<1>8. GitInv'
  BY <1>1, <1>2, GitKept DEF IInv, InMutex
<1> QED
  BY <1>2, <1>3, <1>4, <1>5, <1>6, <1>7, <1>8 DEF IInv, Moved

LEMMA ClearStep ==
  ASSUME IInv, NEW c \in Callers, Active(c), At(c) = "clear", UNCHANGED <<calls, outside>>,
         Clear(c, call[c], Tail(call[c].todo))
  PROVE  IInv'
<1> DEFINE f == call[c].file
<1>1. /\ journal' = WithoutEntry(f) /\ firsts' = [firsts EXCEPT ![f] = <<>>]
      /\ Goes(c, call[c], Tail(call[c].todo))
      /\ UNCHANGED <<disk, locks, history, gitVars, writes, raced>>
  BY DEF Clear
<1>2. f \in Files /\ \A g : ~Editing(c, g)
  BY CallFacts DEF IInv, Editing
<1>3. Moved(c) /\ ~Active(c)'
  BY <1>1, CallFacts, GoesNext DEF IInv, After
<1>4. /\ journal' \in Seq(JournalEntry) /\ Len(journal') <= MaxJournal
      /\ \A i, j \in 1 .. Len(journal') : journal'[i].file = journal'[j].file => i = j
      /\ \A i \in 1 .. Len(journal') :
           journal'[i].file # f /\ \E k \in 1 .. Len(journal) : journal'[i] = journal[k]
  BY <1>1, <1>2, RemainingEntries DEF IInv
<1>5. firsts' \in [Files -> Seq(Contents)] /\ \A g \in Files \ {f} : firsts'[g] = firsts[g]
  <2>1. firsts \in [Files -> Seq(Contents)] /\ <<>> \in Seq(Contents)
    BY EmptySeq DEF IInv, Types
  <2> QED
    BY <1>1, <2>1
<1>6. Types'
  BY <1>1, <1>4, <1>5 DEF IInv, Types, Unique, gitVars
<1>7. LockHeld'
  BY <1>1, <1>3, LocksKept DEF IInv
<1>8. ReadsFresh'
  BY <1>1, <1>3, ReadsKept DEF IInv
<1>9. HonestHistory'
  BY <1>1, HistoryKept DEF IInv
<1>10. EntriesFirst'
  <2> PICK r : r = journal'
    OBVIOUS
  <2> SUFFICES ASSUME NEW i \in 1 .. Len(r) PROVE EntryOk(r[i])'
    BY OkEntries
  <2>1. EntryOk(r[i]) /\ r[i] \in JournalEntry /\ r[i].file # f
    BY <1>4, JournalTyped, EntriesAreOk DEF IInv
  <2>2. firsts'[r[i].file] = firsts[r[i].file]
    BY <1>5, <2>1 DEF JournalEntry
  <2> QED
    BY <1>1, <1>2, <1>3, <2>1, <2>2, EntryKept
<1>11. GitInv'
  BY <1>1, <1>3, GitKept DEF IInv
<1> QED
  BY <1>3, <1>6, <1>7, <1>8, <1>9, <1>10, <1>11 DEF IInv, Moved

-----------------------------------------------------------------------------
(* The instructions on the repository keep the invariant. *)

LEMMA OneInMutex ==
  ASSUME GitInv, NEW c \in Callers, Active(c), At(c) \in InMutex
  PROVE  /\ mutex = c
         /\ \A d \in Callers : Active(d) /\ At(d) \in InMutex => d = c
BY DEF GitInv

(* The files and what is known of them stay as they are. *)
LEMMA RepositoryStep ==
  ASSUME IInv, NEW c \in Callers, Active(c), At(c) \in {"mutex", "add", "added", "commit", "look"},
         UNCHANGED <<calls, outside>>, UNCHANGED <<disk, editVars, writes, raced>>,
         Moved(c), Active(c)' => At(c)' \notin {"read", "write"},
         commits' \in Seq(Commit) /\ commits' # <<>>, stage' \in Tree,
         indexLock' \in Callers \cup {"free"}, mutex' \in Callers \cup {"free"},
         slipped' \in BOOLEAN, failed' \in BOOLEAN,
         GitInv'
  PROVE  IInv'
<1>1. UNCHANGED <<journal, locks, history, firsts>>
  BY DEF editVars
<1>2. Types'
  BY <1>1 DEF IInv, Types, Unique
<1>3. LockHeld'
  BY <1>1, LocksKept DEF IInv
<1>4. ReadsFresh'
  BY ReadsKept DEF IInv
<1>5. HonestHistory'
  BY <1>1, HistoryKept DEF IInv
<1>6. EntriesFirst'
  <2>1. \A g : ~Editing(c, g)
    BY DEF Editing
  <2> QED
    BY <1>1, <2>1, EntriesKept DEF IInv
<1> QED
  BY <1>2, <1>3, <1>4, <1>5, <1>6 DEF IInv, Moved

LEMMA TakeMutexStep ==
  ASSUME IInv, NEW c \in Callers, Active(c), At(c) = "mutex", UNCHANGED <<calls, outside>>,
         TakeMutex(c, call[c], Tail(call[c].todo))
  PROVE  IInv'
<1>1. /\ mutex = "free" /\ mutex' = c /\ Goes(c, call[c], Tail(call[c].todo))
      /\ UNCHANGED <<disk, editVars, commits, stage, indexLock, slipped, failed, writes, raced>>
  BY DEF TakeMutex, MutexFree
<1>2. Moved(c) /\ Active(c)' /\ At(c)' \in {"add", "look"}
  BY <1>1, CallFacts, GoesNext DEF IInv, After, Finals
<1>3. \A d \in Callers \ {c} : (Active(d)' <=> Active(d)) /\ At(d)' = At(d)
  BY <1>2 DEF Moved, Active, At
<1>4. \A d \in Callers : Active(d) => At(d) \notin InMutex
  BY <1>1, RollbackAssumption DEF IInv, GitInv
<1>5. GitInv'
  BY <1>1, <1>2, <1>3, <1>4 DEF IInv, GitInv, InMutex
<1> QED
  BY <1>1, <1>2, <1>5, RepositoryStep DEF IInv, Types

LEMMA AddStep ==
  ASSUME IInv, NEW c \in Callers, Active(c), At(c) = "add", UNCHANGED <<calls, outside>>,
         Add(c, call[c], Tail(call[c].todo))
  PROVE  IInv'
<1>1. mutex = c /\ \A d \in Callers : Active(d) /\ At(d) \in InMutex => d = c
  BY OneInMutex DEF IInv, InMutex
<1>2. indexLock = "free"
  BY <1>1 DEF IInv, GitInv, InMutex
<1>3. /\ indexLock' = c /\ Goes(c, call[c], Tail(call[c].todo))
      /\ UNCHANGED <<disk, editVars, commits, stage, mutex, slipped, failed, writes, raced>>
  BY <1>2 DEF Add
<1>4. Moved(c) /\ Active(c)' /\ At(c)' = "added"
  BY <1>3, CallFacts, GoesNext DEF IInv, After, Finals
<1>5. \A d \in Callers \ {c} : (Active(d)' <=> Active(d)) /\ At(d)' = At(d)
  BY <1>4 DEF Moved, Active, At
<1>6. GitInv'
  BY <1>1, <1>3, <1>4, <1>5 DEF IInv, GitInv, InMutex
<1> QED
  BY <1>3, <1>4, <1>6, RepositoryStep DEF IInv, Types

LEMMA AddedStep ==
  ASSUME IInv, NEW c \in Callers, Active(c), At(c) = "added", UNCHANGED <<calls, outside>>,
         Added(c, call[c], Tail(call[c].todo))
  PROVE  IInv'
<1>1. mutex = c /\ \A d \in Callers : Active(d) /\ At(d) \in InMutex => d = c
  BY OneInMutex DEF IInv, InMutex
<1>2. /\ stage' = disk /\ indexLock' = "free" /\ Goes(c, call[c], Tail(call[c].todo))
      /\ UNCHANGED <<disk, editVars, commits, mutex, slipped, failed, writes, raced>>
  BY DEF Added
<1>3. Moved(c) /\ Active(c)' /\ At(c)' = "commit"
  BY <1>2, CallFacts, GoesNext DEF IInv, After, Finals
<1>4. \A d \in Callers \ {c} : (Active(d)' <=> Active(d)) /\ At(d)' = At(d)
  BY <1>3 DEF Moved, Active, At
<1>5. GitInv'
  BY <1>1, <1>2, <1>3, <1>4 DEF IInv, GitInv, InMutex
<1> QED
  BY <1>2, <1>3, <1>5, RepositoryStep DEF IInv, Types

(* A commit appended to the branch. *)
LEMMA Committed ==
  ASSUME Types, NEW k \in Commit, commits' = Append(commits, k)
  PROVE  /\ commits' \in Seq(Commit) /\ commits' # <<>> /\ Last(commits') = k
         /\ Len(commits') > Len(commits)
<1>1. commits \in Seq(Commit) /\ Len(commits) \in Nat
  BY LenProperties DEF Types
<1>2. commits' \in Seq(Commit) /\ Len(commits') = Len(commits) + 1 /\ commits'[Len(commits) + 1] = k
  BY <1>1, AppendProperties
<1>3. commits' # <<>>
  BY <1>1, <1>2, EmptySeq
<1> QED
  BY <1>1, <1>2, <1>3 DEF Last

LEMMA CommitStageStep ==
  ASSUME IInv, NEW c \in Callers, Active(c), At(c) = "commit", UNCHANGED <<calls, outside>>,
         CommitStage(c, call[c], Tail(call[c].todo))
  PROVE  IInv' /\ Len(commits') >= Len(commits)
<1> DEFINE k == [by |-> "console", tree |-> stage]
<1>1. mutex = c /\ \A d \in Callers : Active(d) /\ At(d) \in InMutex => d = c
  BY OneInMutex DEF IInv, InMutex
<1>2. indexLock = "free" /\ ~failed
  BY <1>1 DEF IInv, GitInv, InMutex
<1>3. /\ commits' = Append(commits, k) \/ commits' = commits
      /\ mutex' = "free" /\ ~failed'
      /\ Goes(c, call[c], Tail(call[c].todo))
      /\ UNCHANGED <<disk, editVars, stage, indexLock, slipped, writes, raced>>
  BY <1>2 DEF CommitStage
<1>4. failed' \in BOOLEAN
  BY <1>2 DEF CommitStage, IInv, Types
<1>5. Moved(c) /\ Active(c)' /\ At(c)' \in {"pre", "run", "revert"}
  BY <1>3, CallFacts, GoesNext DEF IInv, After, Finals
<1>6. \A d \in Callers \ {c} : (Active(d)' <=> Active(d)) /\ At(d)' = At(d)
  BY <1>5 DEF Moved, Active, At
<1>7. commits' \in Seq(Commit) /\ commits' # <<>> /\ Len(commits') >= Len(commits)
  <2>1. k \in Commit /\ Len(commits) \in Nat
    BY LenProperties DEF IInv, Types, Commit
  <2>2. CASE commits' = commits
    BY <2>1, <2>2 DEF IInv, Types
  <2> HIDE DEF k
  <2>3. CASE commits' = Append(commits, k)
    <3>1. commits' \in Seq(Commit) /\ commits' # <<>> /\ Len(commits') > Len(commits)
      BY <2>1, <2>3, Committed DEF IInv
    <3>2. Len(commits') \in Nat
      BY <3>1, LenProperties
    <3> QED
      BY <2>1, <3>1, <3>2
  <2> QED
    BY <1>3, <2>2, <2>3
<1>8. GitInv'
  <2>1. \A d \in Callers : ~(Active(d)' /\ At(d)' \in InMutex)
    BY <1>1, <1>5, <1>6 DEF InMutex
  <2> QED
    BY <1>2, <1>3, <2>1 DEF GitInv, InMutex
<1> QED
  BY <1>3, <1>4, <1>5, <1>7, <1>8, RepositoryStep DEF IInv, Types

LEMMA LookStep ==
  ASSUME IInv, NEW c \in Callers, Active(c), At(c) = "look", UNCHANGED <<calls, outside>>,
         Look(c, call[c], Tail(call[c].todo))
  PROVE  IInv'
<1>1. mutex = c /\ \A d \in Callers : Active(d) /\ At(d) \in InMutex => d = c
  BY OneInMutex DEF IInv, InMutex
<1>2. UNCHANGED <<disk, editVars, commits, stage, indexLock, failed, writes, raced>>
  BY DEF Look
<1>3. indexLock = "free"
  BY <1>1 DEF IInv, GitInv, InMutex
<1>4. CASE /\ Last(commits).by = "console" /\ slipped' = FALSE
           /\ Goes(c, call[c], Tail(call[c].todo)) /\ UNCHANGED mutex
  <2>1. Moved(c) /\ Active(c)' /\ At(c)' = "reset"
    BY <1>4, CallFacts, GoesNext DEF IInv, After, Finals
  <2>2. \A d \in Callers \ {c} : (Active(d)' <=> Active(d)) /\ At(d)' = At(d)
    BY <2>1 DEF Moved, Active, At
  <2>3. GitInv'
    BY <1>1, <1>2, <1>3, <1>4, <2>1, <2>2 DEF IInv, GitInv, InMutex
  <2> QED
    BY <1>2, <1>4, <2>1, <2>3, RepositoryStep DEF IInv, Types
<1>5. CASE mutex' = "free" /\ Goes(c, call[c], <<>>) /\ UNCHANGED slipped
  <2>1. Moved(c) /\ ~Active(c)'
    BY <1>5, Returns DEF IInv
  <2>2. \A d \in Callers \ {c} : (Active(d)' <=> Active(d)) /\ At(d)' = At(d)
    BY <2>1 DEF Moved, Active, At
  <2>3. GitInv'
    BY <1>1, <1>2, <1>3, <1>5, <2>1, <2>2 DEF IInv, GitInv, InMutex
  <2> QED
    BY <1>2, <1>5, <2>1, <2>3, RepositoryStep DEF IInv, Types
<1> QED
  BY <1>4, <1>5 DEF Look

(* The reset takes one commit, and a commit of the user only if it slipped in. *)
LEMMA ResetStep ==
  ASSUME IInv, NEW c \in Callers, Active(c), At(c) = "reset", UNCHANGED <<calls, outside>>,
         Reset(c, call[c], Tail(call[c].todo))
  PROVE  IInv' /\ (Last(commits).by = "console" \/ slipped)
<1> DEFINE parent == commits[Len(commits) - 1].tree
<1>1. mutex = c /\ \A d \in Callers : Active(d) /\ At(d) \in InMutex => d = c
  BY OneInMutex DEF IInv, InMutex
<1>2. /\ mutex' = "free" /\ Goes(c, call[c], Tail(call[c].todo))
      /\ UNCHANGED <<editVars, indexLock, slipped, failed, writes>>
  BY DEF Reset
<1>3. \/ UNCHANGED <<commits, disk, stage, raced>>
      \/ /\ Len(commits) > 1 /\ commits' = Front(commits)
         /\ disk' = [f \in Files |-> IF parent[f] # 0 \/ stage[f] # 0 THEN parent[f] ELSE disk[f]]
         /\ stage' = parent
         /\ raced' = raced \cup {f \in Files : InEdit(f) # {}}
  BY DEF Reset
<1>4. Moved(c) /\ ~Active(c)'
  BY <1>2, CallFacts, GoesNext DEF IInv, After
<1>5. UNCHANGED <<journal, locks, history, firsts>>
  BY <1>2 DEF editVars
<1>6. raced \subseteq raced' /\ raced' \subseteq Files
  BY <1>3 DEF IInv, Types
<1>7. Types'
  <2>1. commits' \in Seq(Commit) /\ commits' # <<>> /\ disk' \in Tree /\ stage' \in Tree
    <3>1. CASE UNCHANGED <<commits, disk, stage, raced>>
      BY <3>1 DEF IInv, Types
    <3>2. CASE /\ Len(commits) > 1 /\ commits' = Front(commits)
               /\ disk' = [f \in Files |-> IF parent[f] # 0 \/ stage[f] # 0 THEN parent[f] ELSE disk[f]]
               /\ stage' = parent
      <4>1. commits \in Seq(Commit) /\ Len(commits) \in Nat
        BY LenProperties DEF IInv, Types
      <4>2. \A i \in 1 .. Len(commits) : commits[i] \in Commit
        BY <4>1, ElementOfSeq
      <4>3. Len(commits) - 1 \in 1 .. Len(commits)
        BY <3>2, <4>1
      <4>4. parent \in Tree
        BY <4>2, <4>3 DEF Commit
      <4> HIDE DEF parent
      <4>5. disk' \in Tree
        BY <3>2, <4>4 DEF IInv, Types, Tree
      <4>6. commits' = SubSeq(commits, 1, Len(commits) - 1)
        BY <3>2 DEF Front
      <4>7. \A i \in 1 .. Len(commits) - 1 : commits[i] \in Commit
        BY <4>1, <4>2
      <4>8. commits' \in Seq(Commit) /\ Len(commits') = Len(commits) - 1
        <5>1. Len(commits) - 1 \in Int /\ 1 <= Len(commits) - 1 /\ 1 \in Int
          BY <3>2, <4>1
        <5>2. /\ SubSeq(commits, 1, Len(commits) - 1) \in Seq(Commit)
              /\ Len(SubSeq(commits, 1, Len(commits) - 1)) = (Len(commits) - 1) - 1 + 1
          BY <4>7, <5>1, SubSeqProperties
        <5> QED
          BY <4>1, <4>6, <5>2
      <4>9. commits' # <<>>
        BY <3>2, <4>1, <4>8, EmptySeq
      <4> QED
        BY <3>2, <4>4, <4>5, <4>8, <4>9
    <3> QED
      BY <1>3, <3>1, <3>2
  <2> HIDE DEF parent
  <2> QED
    BY <1>2, <1>5, <1>6, <2>1 DEF IInv, Types, Unique
<1>8. LockHeld'
  BY <1>4, <1>5, LocksKept DEF IInv
<1>9. ASSUME NEW f \in Files, NEW d \in Callers, Editing(d, f), f \notin raced'
      PROVE  f \notin raced /\ disk'[f] = disk[f]
  <2>1. d \in InEdit(f)
    BY <1>9, InEditIs DEF IInv
  <2> QED
    BY <1>3, <1>6, <1>9, <2>1
<1> HIDE DEF parent
<1>10. ReadsFresh'
  <2> SUFFICES ASSUME NEW d \in Callers, Active(d)', At(d)' \in {"read", "write"},
                      call'[d].file \notin raced'
               PROVE  Fresh(call[d])'
    BY DEF ReadsFresh
  <2>1. d # c /\ call'[d] = call[d]
    BY <1>4 DEF Moved
  <2>2. Active(d) /\ At(d) \in {"read", "write"} /\ Editing(d, call[d].file) /\ call[d].file \in Files
    BY <2>1, CallFacts DEF IInv, Active, At, Editing
  <2>3. call[d].file \notin raced /\ disk'[call[d].file] = disk[call[d].file]
    BY <1>9, <2>1, <2>2
  <2> QED
    BY <2>1, <2>2, <2>3 DEF IInv, ReadsFresh, Fresh
<1>11. HonestHistory'
  BY <1>5, <1>6, HistoryKept DEF IInv
<1>12. EntriesFirst'
  <2> PICK r : r = journal
    OBVIOUS
  <2> SUFFICES ASSUME NEW i \in 1 .. Len(r) PROVE EntryOk(r[i])'
    BY <1>5, OkEntries
  <2> DEFINE e == r[i]
  <2>1. EntryOk(e) /\ e \in JournalEntry
    BY JournalTyped, EntriesAreOk DEF IInv
  <2>2. ASSUME NEW d \in Callers, Editing(d, e.file), Locked(call[d]), e.file \notin raced'
        PROVE  Editing(d, e.file)' /\ Locked(call'[d]) /\ disk'[e.file] = disk[e.file]
    <3>1. d # c
      BY <2>2 DEF Editing
    <3>2. call'[d] = call[d]
      BY <1>4, <3>1 DEF Moved
    <3>3. e.file \in Files
      BY <2>1 DEF JournalEntry
    <3> QED
      BY <1>9, <2>2, <3>2, <3>3 DEF Editing, Active, At
  <2> HIDE DEF e
  <2>3. EntryOk(e)'
    BY <1>5, <1>6, <2>1, <2>2 DEF EntryOk
  <2> QED
    BY <2>3 DEF e
<1>13. GitInv'
  <2>1. \A d \in Callers \ {c} : (Active(d)' <=> Active(d)) /\ At(d)' = At(d)
    BY <1>4 DEF Moved, Active, At
  <2> QED
    BY <1>1, <1>2, <1>4, <2>1 DEF IInv, GitInv, InMutex
<1>14. Last(commits).by = "console" \/ slipped
  BY DEF IInv, GitInv
<1> QED
  BY <1>4, <1>7, <1>8, <1>10, <1>11, <1>12, <1>13, <1>14 DEF IInv, Moved

-----------------------------------------------------------------------------
(* The other steps. *)

LEMMA BeginStep ==
  ASSUME IInv, NEW c \in Callers, NEW f \in Files, NEW program, Shape(program),
         program[1] \in {"lock", "mutex", "entry"}, Begin(c, f, program),
         UNCHANGED <<journal, history, firsts>>,
         \/ Last(program) # "unlock" /\ locks' = locks
         \/ program[1] = "lock" /\ locks' = [locks EXCEPT ![f] = Append(@, c)]
  PROVE  IInv'
<1> DEFINE j == [todo |-> program, file |-> f, pre |-> 0, base |-> 0]
<1>1. /\ call[c] = NoCall /\ calls < MaxCalls /\ calls' = calls + 1
      /\ call' = [call EXCEPT ![c] = j]
      /\ UNCHANGED <<disk, gitVars, writes, outside, raced>>
  BY DEF Begin
<1>2. /\ IsCall(j) /\ j # NoCall /\ j.file = f /\ Head(j.todo) = program[1]
      /\ Locked(j) <=> Last(program) = "unlock"
  <2>1. program \in Seq(Instructions) /\ program # <<>> /\ Head(program) = program[1]
    BY Ends DEF Shape, Chain
  <2>2. j.todo = program /\ j.file = f
    OBVIOUS
  <2>3. j \in CallRec
    BY <2>1, NumbersInContents DEF CallRec
  <2>4. j # NoCall
    BY <2>1, <2>2 DEF NoCall
  <2> HIDE DEF j
  <2> QED
    BY <2>1, <2>2, <2>3, <2>4, UnlockIsLast DEF IsCall, Locked
<1> HIDE DEF j
<1>3. call' \in [Callers -> CallRec \cup {NoCall}] /\ call'[c] = j
      /\ \A d \in Callers \ {c} : call'[d] = call[d]
  BY <1>1, <1>2 DEF IInv, Calls, IsCall
<1>4. Calls'
  <2>1. \A d \in Callers : call'[d] # NoCall => IsCall(call'[d])
    BY <1>2, <1>3 DEF IInv, Calls, Active
  <2> QED
    BY <1>3, <2>1 DEF Calls, Active
<1>5. /\ Active(c)' /\ At(c)' = program[1] /\ ~Active(c)
      /\ \A d \in Callers \ {c} : (Active(d)' <=> Active(d)) /\ At(d)' = At(d)
  BY <1>1, <1>2, <1>3 DEF Active, At
<1>6. locks' \in [Files -> Seq(Callers)] /\ \A g \in Files \ {f} : locks'[g] = locks[g]
  <2>1. locks \in [Files -> Seq(Callers)]
    BY DEF IInv, Types
  <2>2. Append(locks[f], c) \in Seq(Callers)
    BY <2>1, AppendProperties
  <2> QED
    BY <2>1, <2>2
<1>7. Types'
  <2>1. calls' \in 0 .. MaxCalls
    <3>1. MaxCalls \in Nat
      BY RollbackAssumption
    <3> QED
      BY <1>1, <3>1 DEF IInv, Types
  <2> QED
    BY <1>1, <1>6, <2>1 DEF IInv, Types, Unique, gitVars
<1>8. LockHeld'
  <2> SUFFICES ASSUME NEW d \in Callers, Active(d)', Locked(call'[d])
               PROVE  /\ \E i \in 1 .. Len(locks'[call'[d].file]) : locks'[call'[d].file][i] = d
                      /\ At(d)' # "lock" => locks'[call'[d].file][1] = d
    BY DEF LockHeld
  <2>1. ASSUME locks' = [locks EXCEPT ![f] = Append(@, c)]
        PROVE  /\ Len(locks'[f]) = Len(locks[f]) + 1 /\ Len(locks[f]) \in Nat
               /\ \A i \in 1 .. Len(locks[f]) : locks'[f][i] = locks[f][i]
               /\ locks'[f][Len(locks[f]) + 1] = c
    <3>1. locks \in [Files -> Seq(Callers)]
      BY DEF IInv, Types
    <3>2. locks'[f] = Append(locks[f], c) /\ locks[f] \in Seq(Callers)
      BY <2>1, <3>1
    <3> QED
      BY <3>2, AppendProperties, LenProperties
  <2>2. CASE d = c
    <3>1. call'[d].file = f /\ Last(program) = "unlock"
      BY <1>2, <1>3, <2>2
    <3>2. At(d)' = "lock" /\ locks' = [locks EXCEPT ![f] = Append(@, c)]
      BY <1>5, <2>2, <3>1
    <3>3. locks'[f][Len(locks[f]) + 1] = c /\ Len(locks[f]) + 1 \in 1 .. Len(locks'[f])
      BY <2>1, <3>2
    <3> QED
      BY <2>2, <3>1, <3>2, <3>3
  <2>3. CASE d # c
    <3>1. call'[d] = call[d] /\ Active(d) /\ Locked(call[d]) /\ At(d)' = At(d)
      BY <1>3, <1>5, <2>3
    <3>2. PICK i \in 1 .. Len(locks[call[d].file]) : locks[call[d].file][i] = d
      BY <3>1 DEF IInv, LockHeld
    <3>3. At(d) # "lock" => locks[call[d].file][1] = d
      BY <3>1 DEF IInv, LockHeld
    <3>4. call[d].file \in Files
      BY <3>1, CallFacts DEF IInv
    <3>5. CASE call[d].file # f \/ locks' = locks
      <4>1. locks'[call[d].file] = locks[call[d].file]
        BY <1>6, <3>4, <3>5
      <4> QED
        BY <3>1, <3>2, <3>3, <4>1
    <3>6. CASE call[d].file = f /\ locks' # locks
      <4>1. /\ Len(locks'[f]) = Len(locks[f]) + 1 /\ Len(locks[f]) \in Nat
            /\ \A k \in 1 .. Len(locks[f]) : locks'[f][k] = locks[f][k]
        BY <2>1, <3>6
      <4>2. i \in 1 .. Len(locks'[f]) /\ 1 \in 1 .. Len(locks[f])
        BY <3>2, <3>6, <4>1
      <4> QED
        BY <3>1, <3>2, <3>3, <3>6, <4>1, <4>2
    <3> QED
      BY <3>5, <3>6
  <2> QED
    BY <2>2, <2>3
<1>9. ReadsFresh'
  BY <1>1, <1>3, <1>5 DEF IInv, ReadsFresh, Fresh
<1>10. HonestHistory'
  BY <1>1, HistoryKept DEF IInv
<1>11. EntriesFirst'
  <2> PICK r : r = journal
    OBVIOUS
  <2> SUFFICES ASSUME NEW i \in 1 .. Len(r) PROVE EntryOk(r[i])'
    BY OkEntries
  <2> DEFINE e == r[i]
  <2>1. EntryOk(e)
    BY EntriesAreOk DEF IInv
  <2>2. \A d \in Callers : Editing(d, e.file) /\ Locked(call[d]) => Editing(d, e.file)' /\ Locked(call'[d])
    BY <1>3, <1>5 DEF Editing
  <2> HIDE DEF e
  <2>3. EntryOk(e)'
    BY <1>1, <2>1, <2>2 DEF EntryOk
  <2> QED
    BY <2>3 DEF e
<1>12. GitInv'
  <2>1. \A d \in Callers : Active(d)' /\ At(d)' \in InMutex => Active(d) /\ At(d) = At(d)'
    BY <1>5 DEF InMutex
  <2>2. UNCHANGED <<commits, indexLock, mutex, slipped, failed>>
    BY <1>1 DEF gitVars
  <2>3. indexLock' # "free" => \E d \in Callers : Active(d)' /\ At(d)' = "added"
    BY <1>5, <2>2 DEF IInv, GitInv
  <2>4. \A d \in Callers : Active(d)' /\ At(d)' \in InMutex => mutex' = d
    BY <2>1, <2>2 DEF IInv, GitInv
  <2>5. \A d \in Callers : Active(d)' /\ At(d)' = "reset" => slipped' \/ Last(commits').by = "console"
    BY <2>1, <2>2 DEF IInv, GitInv, InMutex
  <2> QED
    BY <2>2, <2>3, <2>4, <2>5 DEF IInv, GitInv
<1> QED
  BY <1>4, <1>7, <1>8, <1>9, <1>10, <1>11, <1>12 DEF IInv

LEMMA BeginSteps ==
  ASSUME IInv, NEW c \in Callers, NEW f \in Files,
         \/ ToolCall(c, f) \/ FileOp(c, f) \/ RiskyCommand(c, f) \/ RevertAction(c, f)
         \/ UndoPath(c, f) \/ PerformUndo(c, f)
  PROVE  IInv' /\ commits' = commits
<1>1. CASE ToolCall(c, f)
  <2>1. PICK reads \in BOOLEAN : Begin(c, f, ToolProgram(reads))
    BY <1>1 DEF ToolCall
  <2>2. locks' = [locks EXCEPT ![f] = Append(@, c)] /\ UNCHANGED <<journal, history, firsts>>
    BY <1>1 DEF ToolCall
  <2> QED
    BY <2>1, <2>2, ToolProgramShape, BeginStep DEF Begin, gitVars
<1>2. CASE FileOp(c, f)
  <2>1. PICK reads \in BOOLEAN : Begin(c, f, FileOpProgram(reads))
    BY <1>2 DEF FileOp
  <2>2. UNCHANGED <<journal, locks, history, firsts>>
    BY <1>2 DEF FileOp, editVars
  <2> QED
    BY <2>1, <2>2, FileOpProgramShape, BeginStep DEF Begin, gitVars
<1>3. ASSUME NEW program, Begin(c, f, program), UNCHANGED editVars,
             program \in {CommandProgram, RevertProgram, UndoProgram, UndoPathProgram}
      PROVE  IInv' /\ commits' = commits
  <2>1. UNCHANGED <<journal, locks, history, firsts>>
    BY <1>3 DEF editVars
  <2>2. Shape(program) /\ program[1] \in {"mutex", "entry"} /\ Last(program) # "unlock"
    BY <1>3, OtherProgramsShape
  <2> QED
    BY <1>3, <2>1, <2>2, BeginStep DEF Begin, gitVars
<1> QED
  BY <1>1, <1>2, <1>3 DEF RiskyCommand, RevertAction, UndoPath, PerformUndo

LEMMA UserEditStep ==
  ASSUME IInv, NEW f \in Files, UserEdit(f)
  PROVE  IInv' /\ commits' = commits
<1>1. /\ outside < MaxOutside /\ writes < MaxWrites
      /\ writes' = writes + 1 /\ outside' = outside + 1
      /\ raced' = IF InEdit(f) # {} THEN raced \cup {f} ELSE raced
      /\ UNCHANGED <<editVars, gitVars, call, calls>>
  BY DEF UserEdit
<1>2. PICK new \in {0, writes + 1} : disk' = [disk EXCEPT ![f] = new]
  BY DEF UserEdit
<1>3. disk' \in Tree /\ \A g \in Files \ {f} : disk'[g] = disk[g]
  <2>1. new \in Contents
    BY <1>1, NumbersInContents DEF IInv, Types
  <2> QED
    BY <1>2, <2>1 DEF IInv, Types, Tree
<1>4. raced \subseteq raced' /\ raced' \subseteq Files
  BY <1>1 DEF IInv, Types
<1>5. UNCHANGED <<journal, locks, history, firsts, call>>
  BY <1>1 DEF editVars
<1>6. \A d : (Active(d)' <=> Active(d)) /\ At(d)' = At(d)
  BY <1>5 DEF Active, At
<1>7. Calls'
  BY <1>5, <1>6 DEF IInv, Calls
<1>8. Types'
  <2>1. outside' \in 0 .. MaxOutside /\ writes' \in 0 .. MaxWrites
    <3>1. MaxOutside \in Nat /\ MaxWrites \in Nat
      BY RollbackAssumption
    <3> QED
      BY <1>1, <3>1 DEF IInv, Types
  <2> QED
    BY <1>1, <1>3, <1>4, <1>5, <2>1 DEF IInv, Types, Unique, gitVars
<1>9. LockHeld'
  BY <1>5, <1>6 DEF IInv, LockHeld
<1>10. ASSUME NEW d \in Callers, NEW g \in Files, Editing(d, g), g \notin raced'
       PROVE  g \notin raced /\ disk'[g] = disk[g]
  <2>1. d \in InEdit(g)
    BY <1>10, InEditIs DEF IInv
  <2>2. g # f
    BY <1>1, <1>10, <2>1
  <2> QED
    BY <1>3, <1>4, <1>10, <2>2
<1>11. ReadsFresh'
  <2> SUFFICES ASSUME NEW d \in Callers, Active(d), At(d) \in {"read", "write"},
                      call[d].file \notin raced'
               PROVE  Fresh(call[d])'
    BY <1>5, <1>6 DEF ReadsFresh
  <2>1. Editing(d, call[d].file) /\ call[d].file \in Files
    BY CallFacts DEF IInv, Editing
  <2> QED
    BY <1>5, <1>10, <2>1 DEF IInv, ReadsFresh, Fresh
<1>12. HonestHistory'
  BY <1>4, <1>5, HistoryKept DEF IInv
<1>13. EntriesFirst'
  <2> PICK r : r = journal
    OBVIOUS
  <2> SUFFICES ASSUME NEW i \in 1 .. Len(r) PROVE EntryOk(r[i])'
    BY <1>5, OkEntries
  <2> DEFINE e == r[i]
  <2>1. EntryOk(e) /\ e.file \in Files
    BY JournalTyped, EntriesAreOk DEF IInv, JournalEntry
  <2>2. \A d \in Callers : Editing(d, e.file) => Editing(d, e.file)'
    BY <1>5, <1>6 DEF Editing
  <2> HIDE DEF e
  <2>3. EntryOk(e)'
    BY <1>4, <1>5, <1>10, <2>1, <2>2 DEF EntryOk
  <2> QED
    BY <2>3 DEF e
<1>14. GitInv'
  BY <1>1, <1>6 DEF IInv, GitInv, gitVars
<1> QED
  BY <1>1, <1>7, <1>8, <1>9, <1>11, <1>12, <1>13, <1>14 DEF IInv, gitVars

LEMMA UserCommitStep ==
  ASSUME IInv, UserCommit
  PROVE  IInv' /\ Len(commits') > Len(commits)
<1> DEFINE k == [by |-> "user", tree |-> disk]
<1>1. /\ outside < MaxOutside /\ outside' = outside + 1
      /\ commits' = Append(commits, k) /\ stage' = disk
      /\ slipped' = (slipped \/ \E c \in Callers : call[c] # NoCall /\ Head(call[c].todo) = "reset")
      /\ UNCHANGED <<disk, editVars, indexLock, mutex, failed, call, calls, writes, raced>>
  BY DEF UserCommit
<1>2. commits' \in Seq(Commit) /\ commits' # <<>> /\ Len(commits') > Len(commits)
  <2>1. k \in Commit
    BY DEF IInv, Types, Commit
  <2> HIDE DEF k
  <2> QED
    BY <1>1, <2>1, Committed DEF IInv
<1>3. UNCHANGED <<journal, locks, history, firsts, call>>
  BY <1>1 DEF editVars
<1>4. \A d : (Active(d)' <=> Active(d)) /\ At(d)' = At(d)
  BY <1>3 DEF Active, At
<1>5. Calls'
  BY <1>3, <1>4 DEF IInv, Calls
<1>6. Types'
  <2>1. outside' \in 0 .. MaxOutside
    <3>1. MaxOutside \in Nat
      BY RollbackAssumption
    <3> QED
      BY <1>1, <3>1 DEF IInv, Types
  <2>2. slipped' \in BOOLEAN
    BY <1>1 DEF IInv, Types
  <2> QED
    BY <1>1, <1>2, <1>3, <2>1, <2>2 DEF IInv, Types, Unique
<1>7. LockHeld' /\ ReadsFresh'
  BY <1>1, <1>3, <1>4 DEF IInv, LockHeld, ReadsFresh, Fresh
<1>8. HonestHistory'
  BY <1>1, <1>3, HistoryKept DEF IInv
<1>9. EntriesFirst'
  BY <1>1, <1>3, <1>4 DEF IInv, EntriesFirst, Editing
<1>10. GitInv'
  <2>1. \A d \in Callers : Active(d) /\ At(d) = "reset" => slipped'
    BY <1>1 DEF Active, At
  <2> QED
    BY <1>1, <1>4, <2>1 DEF IInv, GitInv
<1> QED
  BY <1>2, <1>5, <1>6, <1>7, <1>8, <1>9, <1>10 DEF IInv

LEMMA Stutter ==
  ASSUME IInv, UNCHANGED vars
  PROVE  IInv'
<1>1. UNCHANGED <<disk, journal, locks, history, firsts, commits, stage, indexLock, mutex, slipped,
                  failed, call, calls, writes, outside, raced>>
  BY DEF vars, editVars, gitVars
<1>2. Calls' /\ Types' /\ LockHeld'
  BY <1>1 DEF IInv, Calls, Types, Unique, LockHeld, Active, At
<1>3. ReadsFresh' /\ HonestHistory' /\ EntriesFirst'
  BY <1>1 DEF IInv, ReadsFresh, Fresh, HonestHistory, EntriesFirst, Editing, Active, At
<1>4. GitInv'
  BY <1>1 DEF IInv, GitInv, Active, At
<1> QED
  BY <1>2, <1>3, <1>4 DEF IInv

(* An instruction keeps the invariant, and takes no commit of the user. *)
LEMMA InstructionStep ==
  ASSUME IInv, NEW c \in Callers, Instruction(c)
  PROVE  IInv' /\ (Len(commits') < Len(commits) => Last(commits).by = "console" \/ slipped)
<1> DEFINE rest == Tail(call[c].todo)
<1>1. Active(c) /\ UNCHANGED <<calls, outside>>
  BY DEF Instruction, Active
<1>2. Len(commits) \in Nat
  BY LenProperties DEF IInv, Types
<1>3. CASE At(c) = "reset" /\ Reset(c, call[c], rest)
  BY <1>1, <1>3, ResetStep
<1>4. CASE At(c) = "commit" /\ CommitStage(c, call[c], rest)
  <2>1. IInv' /\ Len(commits') >= Len(commits)
    BY <1>1, <1>4, CommitStageStep
  <2>2. Len(commits') \in Nat
    BY <2>1, LenProperties DEF IInv, Types
  <2> QED
    BY <1>2, <2>1, <2>2
<1>5. ASSUME \/ At(c) = "lock" /\ Lock(c, call[c], rest)
             \/ At(c) = "guard" /\ Guard(c, call[c], rest)
             \/ At(c) = "pre" /\ Pre(c, call[c], rest)
             \/ At(c) = "read" /\ Read(c, call[c], rest)
             \/ At(c) = "write" /\ Write(c, call[c], rest)
             \/ At(c) = "write" /\ WriteFails(c, call[c])
             \/ At(c) = "unlock" /\ Unlock(c, call[c], rest)
             \/ At(c) = "run" /\ Run(c, call[c], rest)
             \/ At(c) = "revert" /\ Revert(c, call[c], rest)
             \/ At(c) = "entry" /\ TakeEntry(c, call[c], rest)
             \/ At(c) = "restore" /\ Restore(c, call[c], rest)
             \/ At(c) = "clear" /\ Clear(c, call[c], rest)
      PROVE  IInv' /\ commits' = commits
  <2>1. IInv'
    BY <1>1, <1>5, LockStep, GuardStep, PreStep, ReadFileStep, WriteStep, FailStep, UnlockStep,
       RunStep, RevertStep, TakeEntryStep, RestoreStep, ClearStep
  <2>2. UNCHANGED gitVars
    BY <1>5 DEF Lock, Guard, Pre, Read, Write, WriteFails, Unlock, Run, Revert, TakeEntry, Restore,
                Clear
  <2> QED
    BY <2>1, <2>2 DEF gitVars
<1>6. ASSUME \/ At(c) = "mutex" /\ TakeMutex(c, call[c], rest)
             \/ At(c) = "add" /\ Add(c, call[c], rest)
             \/ At(c) = "added" /\ Added(c, call[c], rest)
             \/ At(c) = "look" /\ Look(c, call[c], rest)
      PROVE  IInv' /\ commits' = commits
  <2>1. IInv'
    BY <1>1, <1>6, TakeMutexStep, AddStep, AddedStep, LookStep
  <2>2. commits' = commits
    BY <1>6 DEF TakeMutex, Add, Added, Look
  <2> QED
    BY <2>1, <2>2
<1>7. \/ At(c) = "reset" /\ Reset(c, call[c], rest)
      \/ At(c) = "commit" /\ CommitStage(c, call[c], rest)
      \/ At(c) = "lock" /\ Lock(c, call[c], rest)
      \/ At(c) = "guard" /\ Guard(c, call[c], rest)
      \/ At(c) = "pre" /\ Pre(c, call[c], rest)
      \/ At(c) = "read" /\ Read(c, call[c], rest)
      \/ At(c) = "write" /\ Write(c, call[c], rest)
      \/ At(c) = "write" /\ WriteFails(c, call[c])
      \/ At(c) = "unlock" /\ Unlock(c, call[c], rest)
      \/ At(c) = "run" /\ Run(c, call[c], rest)
      \/ At(c) = "revert" /\ Revert(c, call[c], rest)
      \/ At(c) = "entry" /\ TakeEntry(c, call[c], rest)
      \/ At(c) = "restore" /\ Restore(c, call[c], rest)
      \/ At(c) = "clear" /\ Clear(c, call[c], rest)
      \/ At(c) = "mutex" /\ TakeMutex(c, call[c], rest)
      \/ At(c) = "add" /\ Add(c, call[c], rest)
      \/ At(c) = "added" /\ Added(c, call[c], rest)
      \/ At(c) = "look" /\ Look(c, call[c], rest)
  BY DEF Instruction, At
<1> HIDE DEF rest
<1> QED
  BY <1>2, <1>3, <1>4, <1>5, <1>6, <1>7

(* A list of two or three members of a set is a sequence over it and not   *)
(* empty: the commits of the project when the run starts.                  *)
LEMMA ShortSeqs ==
  ASSUME NEW S, NEW a \in S, NEW b \in S
  PROVE  /\ <<a, a>> \in Seq(S) /\ <<a, a>> # <<>>
         /\ <<a, a, b>> \in Seq(S) /\ <<a, a, b>> # <<>>
<1>1. Len(<<a, a>>) = 2 /\ Len(<<a, a, b>>) = 3 /\ Len(<<>>) = 0
  OBVIOUS
<1> QED
  BY <1>1

LEMMA Start == Init => IInv
<1> SUFFICES ASSUME Init PROVE IInv
  OBVIOUS
<1> DEFINE first == [by |-> "user", tree |-> disk]
           check == [by |-> "console", tree |-> disk]
<1>1. disk \in Tree /\ stage = disk
  BY NumbersInContents DEF Init, Tree
<1>2. Calls /\ \A c \in Callers : ~Active(c)
  BY DEF Init, Calls, Active
<1>3. commits \in Seq(Commit) /\ commits # <<>>
  <2>1. first \in Commit /\ check \in Commit /\ [first EXCEPT !.by = "console"] = check
    BY <1>1 DEF Commit
  <2>2. commits = <<first, first>> \/ commits = <<first, first, check>>
    BY <2>1 DEF Init
  <2> HIDE DEF first, check
  <2> QED
    BY <2>1, <2>2, ShortSeqs
<1>4. Types
  <2>1. <<>> \in Seq(JournalEntry) /\ <<>> \in Seq(Entry) /\ <<>> \in Seq(Callers) /\ <<>> \in Seq(Contents)
        /\ Len(<<>>) = 0
    BY EmptySeq
  <2>2. {MaxCalls, MaxWrites, MaxOutside, MaxJournal} \subseteq Nat
    BY RollbackAssumption
  <2>3. journal = <<>> /\ history = <<>> /\ locks = [f \in Files |-> <<>>] /\ firsts = [f \in Files |-> <<>>]
    BY DEF Init
  <2>4. indexLock = "free" /\ mutex = "free" /\ calls = 0 /\ writes = 0 /\ outside = 0
        /\ raced = {} /\ slipped = FALSE /\ failed = FALSE
    BY DEF Init
  <2>5. 0 \in 0 .. MaxCalls /\ 0 \in 0 .. MaxWrites /\ 0 \in 0 .. MaxOutside
    BY <2>2
  <2>6. journal \in Seq(JournalEntry) /\ Len(journal) <= MaxJournal /\ Unique
    BY <2>1, <2>2, <2>3 DEF Unique
  <2>7. locks \in [Files -> Seq(Callers)] /\ firsts \in [Files -> Seq(Contents)]
    BY <2>1, <2>3
  <2> QED
    BY <1>1, <1>3, <2>1, <2>3, <2>4, <2>5, <2>6, <2>7 DEF Types
<1>5. journal = <<>> /\ history = <<>> /\ indexLock = "free" /\ failed = FALSE
  BY DEF Init
<1>6. LockHeld /\ ReadsFresh
  BY <1>2 DEF LockHeld, ReadsFresh
<1>7. HonestHistory /\ EntriesFirst
  BY <1>5, EmptySeq DEF HonestHistory, EntriesFirst
<1>8. GitInv
  BY <1>2, <1>5 DEF GitInv
<1> QED
  BY <1>2, <1>4, <1>6, <1>7, <1>8 DEF IInv

LEMMA Keeps ==
  ASSUME IInv, [Next]_vars
  PROVE  IInv' /\ (Len(commits') < Len(commits) => Last(commits).by = "console" \/ slipped)
<1>1. Len(commits) \in Nat
  BY LenProperties DEF IInv, Types
<1>2. CASE \E c \in Callers, f \in Files :
             \/ ToolCall(c, f) \/ FileOp(c, f) \/ RiskyCommand(c, f) \/ RevertAction(c, f)
             \/ UndoPath(c, f) \/ PerformUndo(c, f)
  <2>1. IInv' /\ commits' = commits
    BY <1>2, BeginSteps
  <2> QED
    BY <1>1, <2>1
<1>3. CASE \E c \in Callers : Instruction(c)
  BY <1>3, InstructionStep
<1>4. CASE \E f \in Files : UserEdit(f)
  <2>1. IInv' /\ commits' = commits
    BY <1>4, UserEditStep
  <2> QED
    BY <1>1, <2>1
<1>5. CASE UserCommit
  <2>1. IInv' /\ Len(commits') > Len(commits)
    BY <1>5, UserCommitStep
  <2>2. Len(commits') \in Nat
    BY <2>1, LenProperties DEF IInv, Types
  <2> QED
    BY <1>1, <2>1, <2>2
<1>6. CASE UNCHANGED vars
  <2>1. IInv' /\ commits' = commits
    BY <1>6, Stutter DEF vars, gitVars
  <2> QED
    BY <1>1, <2>1
<1> QED
  BY <1>2, <1>3, <1>4, <1>5, <1>6 DEF Next

-----------------------------------------------------------------------------
(* The theorems. *)

(* Every reachable state has the shape that the proofs need: who is first   *)
(* in the queue of a lock, what a call in progress has read, what an entry  *)
(* of the journal is worth, and who has the mutex of the checkpoints.       *)
THEOREM Invariant == Spec => []IInv
<1>1. Init => IInv
  BY Start
<1>2. IInv /\ [Next]_vars => IInv'
  BY Keeps
<1> QED
  BY <1>1, <1>2, PTL DEF Spec

(* The state is well-typed; the journal has at most one entry for a file    *)
(* and no more than MAX_JOURNAL_ENTRIES (recordPreImage).                   *)
THEOREM TypeCorrect == Spec => []TypeOK
<1>1. IInv => TypeOK
  <2> SUFFICES ASSUME IInv PROVE TypeOK
    OBVIOUS
  <2>1. DOMAIN journal = 1 .. Len(journal)
    BY JournalTyped DEF IInv
  <2>2. \A c \in Callers : call[c] = NoCall \/ (call[c].file \in Files /\ call[c].pre \in Contents)
    BY CallFacts DEF IInv, Active
  <2> QED
    BY <2>1, <2>2 DEF IInv, Types, Unique, TypeOK
<1> QED
  BY <1>1, Invariant, PTL

(* What an action of the history was computed from is what it replaced, and *)
(* so is what the history has as the content before it, unless that could   *)
(* not be read (tools.js:106-113) or somebody without the lock wrote in     *)
(* between: the lock of the file keeps two edits apart, however many calls  *)
(* queue for it (withFileLock).                                             *)
THEOREM HistoryIsHonest == Spec => []HonestHistory
<1>1. IInv => HonestHistory
  BY DEF IInv
<1> QED
  BY <1>1, Invariant, PTL

(* The entry of a file has what the first edit since it was made replaced,  *)
(* or failed on, however many edits followed, recorded or not, and whatever *)
(* entries were evicted, cleared and recorded again meanwhile (the first    *)
(* write wins in recordPreImage).  Edits before the entry, which the guard  *)
(* could not simulate (aiGuardrails.js:139), are in no entry.               *)
THEOREM JournalKeepsOldest == Spec => []JournalIsOldest
<1>1. IInv => JournalIsOldest
  <2> SUFFICES ASSUME IInv, NEW f \in Files \ raced, Journaled(f), firsts[f] # <<>>
               PROVE  PreImage(f) = Head(firsts[f])
    BY DEF JournalIsOldest
  <2> DEFINE e == CHOOSE x \in ToSet(journal) : x.file = f
  <2>1. e \in ToSet(journal) /\ e.file = f
    BY DEF Journaled
  <2>2. PICK i \in 1 .. Len(journal) : e = journal[i]
    BY <2>1, JournalTyped DEF IInv, ToSet
  <2>3. firsts[f] \in Seq(Contents) /\ Head(firsts[f]) = firsts[f][1]
    BY DEF IInv, Types
  <2>4. e.content = firsts[f][1]
    BY <2>1, <2>2 DEF IInv, EntriesFirst
  <2> QED
    BY <2>3, <2>4 DEF PreImage
<1> QED
  BY <1>1, Invariant, PTL

(* No checkpoint fails for want of the lock of git's index: who is inside   *)
(* git add has the mutex of the project (getCheckpointMutex).               *)
THEOREM NoCheckpointFails == Spec => []CheckpointsSucceed
<1>1. IInv => CheckpointsSucceed
  BY DEF IInv, GitInv, CheckpointsSucceed
<1> QED
  BY <1>1, Invariant, PTL

(* An undo takes no commit of the user off the branch, unless the user      *)
(* commits between its look and its reset: no checkpoint and no other undo  *)
(* of the console can come between the two (performUndo).                   *)
THEOREM UndosSpareUserCommits == Spec => UndoSparesUserCommits
<1>1. IInv /\ [Next]_vars => [Len(commits') < Len(commits) => Last(commits).by = "console" \/ slipped]_vars
  BY Keeps
<1> QED
  BY <1>1, Invariant, PTL DEF Spec, UndoSparesUserCommits

=============================================================================
