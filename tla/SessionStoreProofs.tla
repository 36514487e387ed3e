-------------------------- MODULE SessionStoreProofs --------------------------
(***************************************************************************)
(* For any sessions, users, calls and faults: no message of a session is   *)
(* lost, and the counts and shares of the index are those of the project   *)
(* sessions as long as nobody interferes with the chain of calls.          *)
(***************************************************************************)
EXTENDS SessionStore, SequenceTheorems, TLAPS

-----------------------------------------------------------------------------
(* What is left of a job, by the program that it began. *)

Instructions ==
  {"load", "loadAny", "readIndex", "resolve", "putEntry", "putUndefined", "dropEntry", "share",
   "unshare", "writeMeta", "writeLegacy", "writeRenamed", "unlinkMeta", "unlinkLegacy", "append",
   "copyLog", "unlinkLog", "unlinkLegacyLog", "rewrite"}

Delete1 == <<"unlinkMeta", "unlinkLog", "unlinkLegacy", "unlinkLegacyLog", "dropEntry">>
Delete2 == <<"unlinkLog", "unlinkLegacy", "unlinkLegacyLog", "dropEntry">>
Delete3 == <<"unlinkLegacy", "unlinkLegacyLog", "dropEntry">>
Delete4 == <<"unlinkLegacyLog", "dropEntry">>
Delete5 == <<"dropEntry">>
Deleting == {Delete2, Delete3, Delete4, Delete5}

Rename1 == <<"writeRenamed", "readIndex", "putUndefined">>
Rename2 == <<"readIndex", "putUndefined">>
Rename3 == <<"putUndefined">>

WriteLegacyThenSet == <<"writeLegacy">> \o SetIndexEntry
WriteMetaThenSet == <<"writeMeta">> \o SetIndexEntry
Append1 == <<"append", "writeMeta">> \o SetIndexEntry
PutEntry == <<"putEntry">>

Share1 == <<"share", "writeMeta">>
Unshare1 == <<"unshare", "writeMeta">>
WriteMeta == <<"writeMeta">>
Patch1 == <<"rewrite">>

Move1 == <<"unlinkLegacyLog">> \o <<"writeMeta", "unlinkLegacy">> \o SetIndexEntry
Move2 == <<"writeMeta", "unlinkLegacy">> \o SetIndexEntry
Move3 == <<"unlinkLegacy">> \o SetIndexEntry
Link2 == <<"resolve">> \o MoveProgram
Link1 == PutEntry \o Link2
Link0 == SetIndexEntry \o Link2
Moving == {MoveProgram, Move1, Move2, Move3, Link0, Link1, Link2}

(* The counted meta is not in the index yet. *)
Adding == {Append1, WriteMetaThenSet, SetIndexEntry, PutEntry}

(* The meta that was loaded will be written. *)
Holding == {Rename1, Share1, Unshare1, WriteMeta}

(* The index that was read will be written. *)
Reading == {PutEntry, Link1, Rename3, Share1, Unshare1}

Special == {Delete1, Rename3, WriteLegacyThenSet, AppendProgram, ShareProgram}
Plain == {DeleteProgram, RenameProgram, Rename2, UnshareProgram, PatchProgram, Patch1}

Todos == Deleting \cup Moving \cup Adding \cup Holding \cup Special \cup Plain

-----------------------------------------------------------------------------
(* The inductive invariant. *)

Indexes == UNION {[D -> Meta] : D \in SUBSET Keys}

Job == [s : Sessions, todo : Todos, idx : Indexes, meta : Meta, user : Users \cup {None}]

(* A job on the chain is one of those above; it has a user to share with and *)
(* room for the message to append; its session was created, and a deletion   *)
(* begins without an index.                                                  *)
JobOk(j) ==
  /\ j \in Job
  /\ j.todo \in {ShareProgram, Share1} => j.user \in Users
  /\ j.todo \in {AppendProgram, Append1} => sent < MaxMessages
  /\ j.todo = WriteLegacyThenSet => born[j.s] = "general"
  /\ j.todo = DeleteProgram => j.idx = EmptyIndex
  /\ born[j.s] # "no"

Types ==
  /\ index \in Indexes
  /\ meta \in [Sessions -> Meta \cup {None}] /\ legacy \in [Sessions -> Meta \cup {None}]
  /\ log \in [Sessions -> Seq(Messages)] /\ legacyLog \in [Sessions -> Seq(Messages)]
  /\ known \in BOOLEAN
  /\ migrations \subseteq [s : Sessions, meta : Meta]
  /\ lister = Idle \/ (lister.at \in {"read", "scanned"} /\ lister.idx \in Indexes)
  /\ getter = Idle \/ (getter.at \in Sessions /\ getter.idx \in Indexes)
  /\ calls \in 0..MaxCalls /\ reads \in 0..MaxReads /\ sent \in 0..MaxMessages /\ faults \in 0..MaxFaults
  /\ born \in [Sessions -> {"no", "project", "general"}]
  /\ acked \in [Sessions -> SUBSET Messages] /\ missed \in [Sessions -> Nat]
  /\ granted \in [Sessions -> SUBSET Users]
  /\ gone \subseteq Sessions /\ torn \subseteq Sessions /\ disturbed \in BOOLEAN

(* At most one call runs. *)
OneJob ==
  /\ DOMAIN jobs = Slots
  /\ \A k \in Slots : jobs[k] = NoJob \/ JobOk(jobs[k])
  /\ \A k, l \in Slots : jobs[k] # NoJob /\ jobs[l] # NoJob => k = l

(* A session that was not created has no files, and nobody migrates it. *)
Unborn ==
  /\ \A s \in Sessions :
       born[s] = "no" => /\ legacy[s] = None /\ meta[s] = None /\ log[s] = <<>> /\ granted[s] = {}
                         /\ missed[s] = 0
  /\ \A g \in migrations : born[g.s] # "no"

(* The old log of a session is in the new one before it is removed, and what *)
(* is removed without a copy is of a session that is deleted.                *)
Copied ==
  \A k \in Slots : LET j == jobs[k] IN
    /\ j.todo = Move1 => ToSet(legacyLog[j.s]) \subseteq ToSet(log[j.s])
    /\ j.todo \in Deleting => j.s \in gone

InProject(s) == born[s] = "project" /\ s \notin gone

(* What is known of a session agrees with its log and the calls. *)
Accurate(m, s) == m.inProject /\ m.count = Len(log[s]) + missed[s] /\ m.shared = granted[s]

MetaCounts(s) == meta[s] # None => meta[s].count = Len(log[s]) + missed[s]

Settled(s) == s \in DOMAIN index /\ Accurate(index[s], s) /\ MetaCounts(s)

(* The index that a job holds is the index, but for its own session. *)
Current(j) ==
  \A s \in Sessions \ {j.s} : InProject(s) => s \in DOMAIN j.idx /\ j.idx[s] = index[s]

(* A job that has loaded or made a meta of its session holds it as it is, *)
(* and who will write an index holds it as it is.                         *)
Holds(j) ==
  /\ j.todo \in Moving => ~InProject(j.s)
  /\ j.todo \in Adding \cup Holding => (InProject(j.s) => Accurate(j.meta, j.s))
  /\ j.todo \in {SetIndexEntry, PutEntry} => (InProject(j.s) => MetaCounts(j.s))
  /\ j.todo \in Reading => Current(j)
  /\ j.todo \in {Delete1} \cup Deleting => (j.s \in DOMAIN j.idx => Current(j))
  /\ j.todo = Rename3 => (InProject(j.s) => j.s \in DOMAIN j.idx /\ j.idx[j.s] = index[j.s])

Busy(s) == \E k \in Slots : jobs[k] # NoJob /\ jobs[k].s = s /\ jobs[k].todo \in Adding

(* As long as nothing interferes, the sessions of projects are settled, but *)
(* for the one that a job adds to.                                          *)
Truth ==
  /\ \A s \in Sessions : InProject(s) => legacy[s] = None /\ (Settled(s) \/ Busy(s))
  /\ \A g \in migrations : ~InProject(g.s)
  /\ \A k \in Slots : jobs[k] # NoJob => Holds(jobs[k])

Undisturbed == ~disturbed => Truth

IInv == Types /\ OneJob /\ Unborn /\ NoMessageLost /\ Copied /\ Undisturbed

-----------------------------------------------------------------------------
(* Programs. *)

(* The first instruction of a program in two parts, and what follows it. *)
LEMMA HeadTailOfConcat ==
  ASSUME NEW p \in Seq(Instructions), p # <<>>, NEW q \in Seq(Instructions)
  PROVE  /\ p \o q \in Seq(Instructions) /\ p \o q # <<>>
         /\ Head(p \o q) = Head(p)
         /\ Tail(p \o q) = Tail(p) \o q
<1> DEFINE r == p \o q
           m == Len(p)
           n == Len(q)
<1>1. m \in Nat \ {0} /\ n \in Nat
  BY EmptySeq, LenProperties
<1>2. /\ r \in Seq(Instructions) /\ Len(r) = m + n
      /\ \A i \in 1 .. m + n : r[i] = IF i <= m THEN p[i] ELSE q[i - m]
  BY ConcatProperties
<1>3. r # <<>>
  BY <1>1, <1>2, EmptySeq
<1>4. Head(r) = r[1] /\ Head(p) = p[1]
  BY <1>2
<1>5. r[1] = p[1]
  BY <1>1, <1>2
<1> DEFINE pt == Tail(p)
           rt == Tail(r)
<1>6. /\ pt \in Seq(Instructions) /\ Len(pt) = m - 1
      /\ \A i \in 1 .. m - 1 : pt[i] = p[i + 1]
  BY HeadTailProperties
<1>7. /\ rt \in Seq(Instructions) /\ Len(rt) = m + n - 1
      /\ \A i \in 1 .. m + n - 1 : rt[i] = r[i + 1]
  BY <1>2, <1>3, HeadTailProperties
<1>8. /\ pt \o q \in Seq(Instructions) /\ Len(pt \o q) = (m - 1) + n
      /\ \A i \in 1 .. (m - 1) + n : (pt \o q)[i] = IF i <= m - 1 THEN pt[i] ELSE q[i - (m - 1)]
  BY <1>6, ConcatProperties
<1> HIDE DEF r, pt, rt
<1> DEFINE u == pt \o q
<1>9. \A i \in 1 .. Len(rt) : rt[i] = u[i]
  <2> SUFFICES ASSUME NEW i \in 1 .. m + n - 1 PROVE rt[i] = u[i]
    BY <1>7
  <2>1. rt[i] = IF i + 1 <= m THEN p[i + 1] ELSE q[(i + 1) - m]
    BY <1>1, <1>2, <1>7
  <2>2. u[i] = IF i <= m - 1 THEN p[i + 1] ELSE q[i - (m - 1)]
    BY <1>1, <1>6, <1>8
  <2>3. (i + 1) - m = i - (m - 1) /\ (i + 1 <= m <=> i <= m - 1)
    BY <1>1
  <2> QED
    BY <2>1, <2>2, <2>3
<1>10. Len(rt) = Len(u) /\ u \in Seq(Instructions)
  BY <1>1, <1>7, <1>8
<1> HIDE DEF u
<1>11. rt = u
  BY <1>7, <1>9, <1>10, SeqEqual
<1> QED
  BY <1>2, <1>3, <1>4, <1>5, <1>11 DEF r, pt, rt, u

(* The first part of a program is one instruction. *)
LEMMA FirstInstruction ==
  ASSUME NEW i \in Instructions, NEW q \in Seq(Instructions)
  PROVE  /\ <<i>> \o q \in Seq(Instructions) /\ <<i>> \o q # <<>>
         /\ Head(<<i>> \o q) = i /\ Tail(<<i>> \o q) = q
<1>1. <<i>> \in Seq(Instructions) /\ <<i>> # <<>> /\ Head(<<i>>) = i /\ Tail(<<i>>) = <<>>
  OBVIOUS
<1>2. <<>> \o q = q
  BY ConcatEmptySeq
<1> QED
  BY <1>1, <1>2, HeadTailOfConcat

IsStage(t, i, rest) == t \in Seq(Instructions) /\ t # <<>> /\ Head(t) = i /\ Tail(t) = rest

LEMMA FirstOfConcat ==
  ASSUME NEW p, NEW i, NEW rest, IsStage(p, i, rest), NEW q \in Seq(Instructions)
  PROVE  IsStage(p \o q, i, rest \o q)
BY HeadTailOfConcat DEF IsStage

(* What the programs say. *)
LEMMA ShortStages ==
  /\ IsStage(DeleteProgram, "loadAny", Delete1)
  /\ IsStage(Delete1, "unlinkMeta", Delete2)
  /\ IsStage(Delete2, "unlinkLog", Delete3)
  /\ IsStage(Delete3, "unlinkLegacy", Delete4)
  /\ IsStage(Delete4, "unlinkLegacyLog", Delete5)
  /\ IsStage(Delete5, "dropEntry", <<>>)
  /\ IsStage(RenameProgram, "load", Rename1)
  /\ IsStage(Rename1, "writeRenamed", Rename2)
  /\ IsStage(Rename2, "readIndex", Rename3)
  /\ IsStage(Rename3, "putUndefined", <<>>)
  /\ IsStage(SetIndexEntry, "readIndex", PutEntry)
  /\ IsStage(PutEntry, "putEntry", <<>>)
  /\ IsStage(ShareProgram, "load", Share1)
  /\ IsStage(Share1, "share", WriteMeta)
  /\ IsStage(UnshareProgram, "load", Unshare1)
  /\ IsStage(Unshare1, "unshare", WriteMeta)
  /\ IsStage(WriteMeta, "writeMeta", <<>>)
  /\ IsStage(PatchProgram, "load", Patch1)
  /\ IsStage(Patch1, "rewrite", <<>>)
<1> USE DEF IsStage, Instructions
<1>1. IsStage(DeleteProgram, "loadAny", Delete1)
  BY DEF DeleteProgram, Delete1
<1>2. IsStage(Delete1, "unlinkMeta", Delete2)
  BY DEF Delete1, Delete2
<1>3. IsStage(Delete2, "unlinkLog", Delete3)
  BY DEF Delete2, Delete3
<1>4. IsStage(Delete3, "unlinkLegacy", Delete4)
  BY DEF Delete3, Delete4
<1>5. IsStage(Delete4, "unlinkLegacyLog", Delete5)
  BY DEF Delete4, Delete5
<1>6. IsStage(Delete5, "dropEntry", <<>>)
  BY DEF Delete5
<1>7. IsStage(RenameProgram, "load", Rename1)
  BY DEF RenameProgram, Rename1
<1>8. IsStage(Rename1, "writeRenamed", Rename2)
  BY DEF Rename1, Rename2
<1>9. IsStage(Rename2, "readIndex", Rename3)
  BY DEF Rename2, Rename3
<1>10. IsStage(Rename3, "putUndefined", <<>>)
  BY DEF Rename3
<1>11. IsStage(SetIndexEntry, "readIndex", PutEntry)
  BY DEF SetIndexEntry, PutEntry
<1>12. IsStage(PutEntry, "putEntry", <<>>)
  BY DEF PutEntry
<1>13. IsStage(ShareProgram, "load", Share1)
  BY DEF ShareProgram, Share1
<1>14. IsStage(Share1, "share", WriteMeta)
  BY DEF Share1, WriteMeta
<1>15. IsStage(UnshareProgram, "load", Unshare1)
  BY DEF UnshareProgram, Unshare1
<1>16. IsStage(Unshare1, "unshare", WriteMeta)
  BY DEF Unshare1, WriteMeta
<1>17. IsStage(WriteMeta, "writeMeta", <<>>)
  BY DEF WriteMeta
<1>18. IsStage(PatchProgram, "load", Patch1)
  BY DEF PatchProgram, Patch1
<1>19. IsStage(Patch1, "rewrite", <<>>)
  BY DEF Patch1
<1> QED
  BY <1>1, <1>2, <1>3, <1>4, <1>5, <1>6, <1>7, <1>8, <1>9, <1>10, <1>11, <1>12, <1>13, <1>14, <1>15, <1>16, <1>17, <1>18, <1>19

LEMMA LongStages ==
  /\ IsStage(WriteLegacyThenSet, "writeLegacy", SetIndexEntry)
  /\ IsStage(WriteMetaThenSet, "writeMeta", SetIndexEntry)
  /\ IsStage(AppendProgram, "load", Append1)
  /\ IsStage(Append1, "append", WriteMetaThenSet)
  /\ IsStage(MoveProgram, "copyLog", Move1)
  /\ IsStage(Move1, "unlinkLegacyLog", Move2)
  /\ IsStage(Move2, "writeMeta", Move3)
  /\ IsStage(Move3, "unlinkLegacy", SetIndexEntry)
  /\ IsStage(Link0, "readIndex", Link1)
  /\ IsStage(Link1, "putEntry", Link2)
  /\ IsStage(Link2, "resolve", MoveProgram)
<1>1. /\ SetIndexEntry \in Seq(Instructions) /\ IsStage(SetIndexEntry, "readIndex", PutEntry)
      /\ IsStage(PutEntry, "putEntry", <<>>)
  BY ShortStages DEF IsStage
<1>2. \A i \in Instructions, q \in Seq(Instructions) : IsStage(<<i>> \o q, i, q)
  BY FirstInstruction DEF IsStage
<1>3. IsStage(WriteLegacyThenSet, "writeLegacy", SetIndexEntry)
  BY <1>1, <1>2 DEF WriteLegacyThenSet, Instructions
<1>4. IsStage(WriteMetaThenSet, "writeMeta", SetIndexEntry)
  BY <1>1, <1>2 DEF WriteMetaThenSet, Instructions
<1>5. IsStage(Append1, "append", WriteMetaThenSet)
  <2> DEFINE a == <<"append", "writeMeta">>
             b == <<"writeMeta">>
  <2>1. IsStage(a, "append", b)
    BY DEF IsStage, Instructions
  <2>2. Append1 = a \o SetIndexEntry /\ WriteMetaThenSet = b \o SetIndexEntry
    BY DEF Append1, WriteMetaThenSet
  <2> HIDE DEF a, b
  <2> QED
    BY <1>1, <2>1, <2>2, FirstOfConcat
<1>6. IsStage(AppendProgram, "load", Append1)
  <2> DEFINE a == <<"load", "append", "writeMeta">>
             b == <<"append", "writeMeta">>
  <2>1. IsStage(a, "load", b)
    BY DEF IsStage, Instructions
  <2>2. AppendProgram = a \o SetIndexEntry /\ Append1 = b \o SetIndexEntry
    BY DEF AppendProgram, Append1
  <2> HIDE DEF a, b
  <2> QED
    BY <1>1, <2>1, <2>2, FirstOfConcat
<1>7. IsStage(Move3, "unlinkLegacy", SetIndexEntry)
  BY <1>1, <1>2 DEF Move3, Instructions
<1>8. IsStage(Move2, "writeMeta", Move3)
  <2> DEFINE a == <<"writeMeta", "unlinkLegacy">>
             b == <<"unlinkLegacy">>
  <2>1. IsStage(a, "writeMeta", b)
    BY DEF IsStage, Instructions
  <2>2. Move2 = a \o SetIndexEntry /\ Move3 = b \o SetIndexEntry
    BY DEF Move2, Move3
  <2> HIDE DEF a, b
  <2> QED
    BY <1>1, <2>1, <2>2, FirstOfConcat
<1>9. /\ IsStage(Move1, "unlinkLegacyLog", Move2)
      /\ IsStage(MoveProgram, "copyLog", Move1)
  <2> DEFINE a == MoveLegacyLog
             b == <<"unlinkLegacyLog">>
             w == <<"writeMeta", "unlinkLegacy">>
  <2>1. IsStage(a, "copyLog", b) /\ IsStage(b, "unlinkLegacyLog", <<>>) /\ w \in Seq(Instructions)
    BY DEF IsStage, Instructions, MoveLegacyLog
  <2>2. /\ MoveProgram = (a \o w) \o SetIndexEntry
        /\ Move1 = (b \o w) \o SetIndexEntry /\ Move2 = w \o SetIndexEntry
    BY DEF MoveProgram, Move1, Move2
  <2> HIDE DEF a, b, w
  <2>3. IsStage(a \o w, "copyLog", b \o w) /\ IsStage(b \o w, "unlinkLegacyLog", <<>> \o w)
    BY <2>1, FirstOfConcat
  <2>4. <<>> \o w = w
    BY <2>1, ConcatEmptySeq
  <2> QED
    BY <1>1, <2>2, <2>3, <2>4, FirstOfConcat
<1>10. MoveProgram \in Seq(Instructions)
  BY <1>9 DEF IsStage
<1>11. IsStage(Link2, "resolve", MoveProgram)
  BY <1>2, <1>10 DEF Link2, Instructions
<1>12. /\ IsStage(Link1, "putEntry", Link2)
       /\ IsStage(Link0, "readIndex", Link1)
  <2>1. Link2 \in Seq(Instructions)
    BY <1>11 DEF IsStage
  <2>2. <<>> \o Link2 = Link2
    BY <2>1, ConcatEmptySeq
  <2> QED
    BY <1>1, <2>1, <2>2, FirstOfConcat DEF Link1, Link0
<1> QED
  BY <1>3, <1>4, <1>5, <1>6, <1>7, <1>8, <1>9, <1>11, <1>12

(* The program of a link is a move, or an entry and then a move. *)
LEMMA LinkStages ==
  ASSUME NEW m \in Meta, known
  PROVE  LinkProgram(m) = IF m.linked THEN MoveProgram ELSE Link0
<1>1. MoveProgram \o <<>> = MoveProgram
  BY LongStages, ConcatEmptySeq DEF IsStage
<1> QED
  BY <1>1 DEF LinkProgram, Nested, MigrateProgram, Link0, Link2

(* The first two instructions tell the stages apart, but for one pair. *)
First(t) == Head(t)
Second(t) == IF Tail(t) = <<>> THEN "end" ELSE Head(Tail(t))
Marks(t, i, j) == First(t) = i /\ Second(t) = j

LEMMA StageMarks ==
  /\ Marks(DeleteProgram, "loadAny", "unlinkMeta")
  /\ Marks(Delete1, "unlinkMeta", "unlinkLog")
  /\ Marks(Delete2, "unlinkLog", "unlinkLegacy")
  /\ Marks(Delete3, "unlinkLegacy", "unlinkLegacyLog")
  /\ Marks(Delete4, "unlinkLegacyLog", "dropEntry")
  /\ Marks(Delete5, "dropEntry", "end")
  /\ Marks(RenameProgram, "load", "writeRenamed")
  /\ Marks(Rename1, "writeRenamed", "readIndex")
  /\ Marks(Rename2, "readIndex", "putUndefined")
  /\ Marks(Rename3, "putUndefined", "end")
  /\ Marks(WriteLegacyThenSet, "writeLegacy", "readIndex")
  /\ Marks(WriteMetaThenSet, "writeMeta", "readIndex")
  /\ Marks(SetIndexEntry, "readIndex", "putEntry")
  /\ Marks(PutEntry, "putEntry", "end")
  /\ Marks(AppendProgram, "load", "append")
  /\ Marks(Append1, "append", "writeMeta")
  /\ Marks(ShareProgram, "load", "share")
  /\ Marks(Share1, "share", "writeMeta")
  /\ Marks(UnshareProgram, "load", "unshare")
  /\ Marks(Unshare1, "unshare", "writeMeta")
  /\ Marks(WriteMeta, "writeMeta", "end")
  /\ Marks(PatchProgram, "load", "rewrite")
  /\ Marks(Patch1, "rewrite", "end")
  /\ Marks(MoveProgram, "copyLog", "unlinkLegacyLog")
  /\ Marks(Move1, "unlinkLegacyLog", "writeMeta")
  /\ Marks(Move2, "writeMeta", "unlinkLegacy")
  /\ Marks(Move3, "unlinkLegacy", "readIndex")
  /\ Marks(Link0, "readIndex", "putEntry")
  /\ Marks(Link1, "putEntry", "resolve")
  /\ Marks(Link2, "resolve", "copyLog")
  /\ SetIndexEntry # Link0
<1> USE DEF IsStage, Marks, First, Second
<1>1. Marks(DeleteProgram, "loadAny", "unlinkMeta")
  <2>1. Head(DeleteProgram) = "loadAny" /\ Tail(DeleteProgram) = Delete1
    BY ShortStages, LongStages
  <2>2. Delete1 # <<>> /\ Head(Delete1) = "unlinkMeta"
    BY ShortStages, LongStages
  <2> QED
    BY <2>1, <2>2
<1>2. Marks(Delete1, "unlinkMeta", "unlinkLog")
  <2>1. Head(Delete1) = "unlinkMeta" /\ Tail(Delete1) = Delete2
    BY ShortStages, LongStages
  <2>2. Delete2 # <<>> /\ Head(Delete2) = "unlinkLog"
    BY ShortStages, LongStages
  <2> QED
    BY <2>1, <2>2
<1>3. Marks(Delete2, "unlinkLog", "unlinkLegacy")
  <2>1. Head(Delete2) = "unlinkLog" /\ Tail(Delete2) = Delete3
    BY ShortStages, LongStages
  <2>2. Delete3 # <<>> /\ Head(Delete3) = "unlinkLegacy"
    BY ShortStages, LongStages
  <2> QED
    BY <2>1, <2>2
<1>4. Marks(Delete3, "unlinkLegacy", "unlinkLegacyLog")
  <2>1. Head(Delete3) = "unlinkLegacy" /\ Tail(Delete3) = Delete4
    BY ShortStages, LongStages
  <2>2. Delete4 # <<>> /\ Head(Delete4) = "unlinkLegacyLog"
    BY ShortStages, LongStages
  <2> QED
    BY <2>1, <2>2
<1>5. Marks(Delete4, "unlinkLegacyLog", "dropEntry")
  <2>1. Head(Delete4) = "unlinkLegacyLog" /\ Tail(Delete4) = Delete5
    BY ShortStages, LongStages
  <2>2. Delete5 # <<>> /\ Head(Delete5) = "dropEntry"
    BY ShortStages, LongStages
  <2> QED
    BY <2>1, <2>2
<1>6. Marks(Delete5, "dropEntry", "end")
  <2>1. Head(Delete5) = "dropEntry" /\ Tail(Delete5) = <<>>
    BY ShortStages, LongStages
  <2> QED
    BY <2>1
<1>7. Marks(RenameProgram, "load", "writeRenamed")
  <2>1. Head(RenameProgram) = "load" /\ Tail(RenameProgram) = Rename1
    BY ShortStages, LongStages
  <2>2. Rename1 # <<>> /\ Head(Rename1) = "writeRenamed"
    BY ShortStages, LongStages
  <2> QED
    BY <2>1, <2>2
<1>8. Marks(Rename1, "writeRenamed", "readIndex")
  <2>1. Head(Rename1) = "writeRenamed" /\ Tail(Rename1) = Rename2
    BY ShortStages, LongStages
  <2>2. Rename2 # <<>> /\ Head(Rename2) = "readIndex"
    BY ShortStages, LongStages
  <2> QED
    BY <2>1, <2>2
<1>9. Marks(Rename2, "readIndex", "putUndefined")
  <2>1. Head(Rename2) = "readIndex" /\ Tail(Rename2) = Rename3
    BY ShortStages, LongStages
  <2>2. Rename3 # <<>> /\ Head(Rename3) = "putUndefined"
    BY ShortStages, LongStages
  <2> QED
    BY <2>1, <2>2
<1>10. Marks(Rename3, "putUndefined", "end")
  <2>1. Head(Rename3) = "putUndefined" /\ Tail(Rename3) = <<>>
    BY ShortStages, LongStages
  <2> QED
    BY <2>1
<1>11. Marks(WriteLegacyThenSet, "writeLegacy", "readIndex")
  <2>1. Head(WriteLegacyThenSet) = "writeLegacy" /\ Tail(WriteLegacyThenSet) = SetIndexEntry
    BY ShortStages, LongStages
  <2>2. SetIndexEntry # <<>> /\ Head(SetIndexEntry) = "readIndex"
    BY ShortStages, LongStages
  <2> QED
    BY <2>1, <2>2
<1>12. Marks(WriteMetaThenSet, "writeMeta", "readIndex")
  <2>1. Head(WriteMetaThenSet) = "writeMeta" /\ Tail(WriteMetaThenSet) = SetIndexEntry
    BY ShortStages, LongStages
  <2>2. SetIndexEntry # <<>> /\ Head(SetIndexEntry) = "readIndex"
    BY ShortStages, LongStages
  <2> QED
    BY <2>1, <2>2
<1>13. Marks(SetIndexEntry, "readIndex", "putEntry")
  <2>1. Head(SetIndexEntry) = "readIndex" /\ Tail(SetIndexEntry) = PutEntry
    BY ShortStages, LongStages
  <2>2. PutEntry # <<>> /\ Head(PutEntry) = "putEntry"
    BY ShortStages, LongStages
  <2> QED
    BY <2>1, <2>2
<1>14. Marks(PutEntry, "putEntry", "end")
  <2>1. Head(PutEntry) = "putEntry" /\ Tail(PutEntry) = <<>>
    BY ShortStages, LongStages
  <2> QED
    BY <2>1
<1>15. Marks(AppendProgram, "load", "append")
  <2>1. Head(AppendProgram) = "load" /\ Tail(AppendProgram) = Append1
    BY ShortStages, LongStages
  <2>2. Append1 # <<>> /\ Head(Append1) = "append"
    BY ShortStages, LongStages
  <2> QED
    BY <2>1, <2>2
<1>16. Marks(Append1, "append", "writeMeta")
  <2>1. Head(Append1) = "append" /\ Tail(Append1) = WriteMetaThenSet
    BY ShortStages, LongStages
  <2>2. WriteMetaThenSet # <<>> /\ Head(WriteMetaThenSet) = "writeMeta"
    BY ShortStages, LongStages
  <2> QED
    BY <2>1, <2>2
<1>17. Marks(ShareProgram, "load", "share")
  <2>1. Head(ShareProgram) = "load" /\ Tail(ShareProgram) = Share1
    BY ShortStages, LongStages
  <2>2. Share1 # <<>> /\ Head(Share1) = "share"
    BY ShortStages, LongStages
  <2> QED
    BY <2>1, <2>2
<1>18. Marks(Share1, "share", "writeMeta")
  <2>1. Head(Share1) = "share" /\ Tail(Share1) = WriteMeta
    BY ShortStages, LongStages
  <2>2. WriteMeta # <<>> /\ Head(WriteMeta) = "writeMeta"
    BY ShortStages, LongStages
  <2> QED
    BY <2>1, <2>2
<1>19. Marks(UnshareProgram, "load", "unshare")
  <2>1. Head(UnshareProgram) = "load" /\ Tail(UnshareProgram) = Unshare1
    BY ShortStages, LongStages
  <2>2. Unshare1 # <<>> /\ Head(Unshare1) = "unshare"
    BY ShortStages, LongStages
  <2> QED
    BY <2>1, <2>2
<1>20. Marks(Unshare1, "unshare", "writeMeta")
  <2>1. Head(Unshare1) = "unshare" /\ Tail(Unshare1) = WriteMeta
    BY ShortStages, LongStages
  <2>2. WriteMeta # <<>> /\ Head(WriteMeta) = "writeMeta"
    BY ShortStages, LongStages
  <2> QED
    BY <2>1, <2>2
<1>21. Marks(WriteMeta, "writeMeta", "end")
  <2>1. Head(WriteMeta) = "writeMeta" /\ Tail(WriteMeta) = <<>>
    BY ShortStages, LongStages
  <2> QED
    BY <2>1
<1>22. Marks(PatchProgram, "load", "rewrite")
  <2>1. Head(PatchProgram) = "load" /\ Tail(PatchProgram) = Patch1
    BY ShortStages, LongStages
  <2>2. Patch1 # <<>> /\ Head(Patch1) = "rewrite"
    BY ShortStages, LongStages
  <2> QED
    BY <2>1, <2>2
<1>23. Marks(Patch1, "rewrite", "end")
  <2>1. Head(Patch1) = "rewrite" /\ Tail(Patch1) = <<>>
    BY ShortStages, LongStages
  <2> QED
    BY <2>1
<1>24. Marks(MoveProgram, "copyLog", "unlinkLegacyLog")
  <2>1. Head(MoveProgram) = "copyLog" /\ Tail(MoveProgram) = Move1
    BY ShortStages, LongStages
  <2>2. Move1 # <<>> /\ Head(Move1) = "unlinkLegacyLog"
    BY ShortStages, LongStages
  <2> QED
    BY <2>1, <2>2
<1>25. Marks(Move1, "unlinkLegacyLog", "writeMeta")
  <2>1. Head(Move1) = "unlinkLegacyLog" /\ Tail(Move1) = Move2
    BY ShortStages, LongStages
  <2>2. Move2 # <<>> /\ Head(Move2) = "writeMeta"
    BY ShortStages, LongStages
  <2> QED
    BY <2>1, <2>2
<1>26. Marks(Move2, "writeMeta", "unlinkLegacy")
  <2>1. Head(Move2) = "writeMeta" /\ Tail(Move2) = Move3
    BY ShortStages, LongStages
  <2>2. Move3 # <<>> /\ Head(Move3) = "unlinkLegacy"
    BY ShortStages, LongStages
  <2> QED
    BY <2>1, <2>2
<1>27. Marks(Move3, "unlinkLegacy", "readIndex")
  <2>1. Head(Move3) = "unlinkLegacy" /\ Tail(Move3) = SetIndexEntry
    BY ShortStages, LongStages
  <2>2. SetIndexEntry # <<>> /\ Head(SetIndexEntry) = "readIndex"
    BY ShortStages, LongStages
  <2> QED
    BY <2>1, <2>2
<1>28. Marks(Link0, "readIndex", "putEntry")
  <2>1. Head(Link0) = "readIndex" /\ Tail(Link0) = Link1
    BY ShortStages, LongStages
  <2>2. Link1 # <<>> /\ Head(Link1) = "putEntry"
    BY ShortStages, LongStages
  <2> QED
    BY <2>1, <2>2
<1>29. Marks(Link1, "putEntry", "resolve")
  <2>1. Head(Link1) = "putEntry" /\ Tail(Link1) = Link2
    BY ShortStages, LongStages
  <2>2. Link2 # <<>> /\ Head(Link2) = "resolve"
    BY ShortStages, LongStages
  <2> QED
    BY <2>1, <2>2
<1>30. Marks(Link2, "resolve", "copyLog")
  <2>1. Head(Link2) = "resolve" /\ Tail(Link2) = MoveProgram
    BY ShortStages, LongStages
  <2>2. MoveProgram # <<>> /\ Head(MoveProgram) = "copyLog"
    BY ShortStages, LongStages
  <2> QED
    BY <2>1, <2>2
<1>31. SetIndexEntry # Link0
  <2>1. Tail(SetIndexEntry) = PutEntry /\ Tail(Link0) = Link1
    BY ShortStages, LongStages
  <2>2. PutEntry # Link1
    BY <1>14, <1>29
  <2> QED
    BY <2>1, <2>2
<1> HIDE DEF IsStage, Marks, First, Second
<1> QED
  BY <1>1, <1>2, <1>3, <1>4, <1>5, <1>6, <1>7, <1>8, <1>9, <1>10, <1>11, <1>12, <1>13,
  <1>14, <1>15, <1>16, <1>17, <1>18, <1>19, <1>20, <1>21, <1>22, <1>23, <1>24, <1>25, <1>26,
  <1>27, <1>28, <1>29, <1>30, <1>31

(* The classes have no stage in common, but for those that will write the  *)
(* index that was read.                                                    *)
LEMMA Classes ==
  /\ \A t \in Moving : t \notin Adding \cup Holding \cup Deleting \cup Special \cup Plain
  /\ \A t \in Adding : t \notin Holding \cup Deleting \cup Special \cup Plain
  /\ \A t \in Holding : t \notin Deleting \cup Special \cup Plain
  /\ \A t \in Deleting : t \notin Special \cup Plain
  /\ \A t \in Special : t \notin Plain
  /\ \A t \in Deleting \cup Plain \cup (Special \ {Rename3}) : t \notin Reading
  /\ Adding \cap Reading = {PutEntry}
  /\ Moving \cap Reading = {Link1}
  /\ Holding \cap Reading = {Share1, Unshare1}
<1> USE DEF Marks
<1>1. \A t \in Moving : t \notin Adding \cup Holding \cup Deleting \cup Special \cup Plain
  BY StageMarks DEF Moving, Adding, Holding, Deleting, Special, Plain
<1>2. \A t \in Adding : t \notin Holding \cup Deleting \cup Special \cup Plain
  BY StageMarks DEF Adding, Holding, Deleting, Special, Plain
<1>3. \A t \in Holding : t \notin Deleting \cup Special \cup Plain
  BY StageMarks DEF Holding, Deleting, Special, Plain
<1>4. \A t \in Deleting : t \notin Special \cup Plain
  BY StageMarks DEF Deleting, Special, Plain
<1>5. \A t \in Special : t \notin Plain
  BY StageMarks DEF Special, Plain
<1>6. \A t \in Deleting \cup Plain \cup (Special \ {Rename3}) : t \notin Reading
  BY StageMarks DEF Deleting, Special, Plain, Reading
<1>7. Adding \cap Reading = {PutEntry}
  BY StageMarks DEF Adding, Reading
<1>8. Moving \cap Reading = {Link1}
  BY StageMarks DEF Moving, Reading
<1>9. Holding \cap Reading = {Share1, Unshare1}
  BY StageMarks DEF Holding, Reading
<1> QED
  BY <1>1, <1>2, <1>3, <1>4, <1>5, <1>6, <1>7, <1>8, <1>9

(* All stages, and what is left after the first instruction of each. *)
LEMMA Stages ==
  ASSUME NEW t \in Todos
  PROVE  /\ t # <<>> /\ Tail(t) \in Todos \cup {<<>>}
         /\ Head(t) \in Instructions
         /\ Head(t) = "loadAny" =>
              t = DeleteProgram /\ Tail(t) = Delete1
         /\ Head(t) = "unlinkMeta" =>
              t = Delete1 /\ Tail(t) = Delete2
         /\ Head(t) = "unlinkLog" =>
              t = Delete2 /\ Tail(t) = Delete3
         /\ Head(t) = "unlinkLegacy" =>
              \/ t = Delete3 /\ Tail(t) = Delete4
              \/ t = Move3 /\ Tail(t) = SetIndexEntry
         /\ Head(t) = "unlinkLegacyLog" =>
              \/ t = Delete4 /\ Tail(t) = Delete5
              \/ t = Move1 /\ Tail(t) = Move2
         /\ Head(t) = "dropEntry" =>
              t = Delete5 /\ Tail(t) = <<>>
         /\ Head(t) = "load" =>
              \/ t = RenameProgram /\ Tail(t) = Rename1
              \/ t = AppendProgram /\ Tail(t) = Append1
              \/ t = ShareProgram /\ Tail(t) = Share1
              \/ t = UnshareProgram /\ Tail(t) = Unshare1
              \/ t = PatchProgram /\ Tail(t) = Patch1
         /\ Head(t) = "writeRenamed" =>
              t = Rename1 /\ Tail(t) = Rename2
         /\ Head(t) = "readIndex" =>
              \/ t = Rename2 /\ Tail(t) = Rename3
              \/ t = SetIndexEntry /\ Tail(t) = PutEntry
              \/ t = Link0 /\ Tail(t) = Link1
         /\ Head(t) = "putUndefined" =>
              t = Rename3 /\ Tail(t) = <<>>
         /\ Head(t) = "writeLegacy" =>
              t = WriteLegacyThenSet /\ Tail(t) = SetIndexEntry
         /\ Head(t) = "writeMeta" =>
              \/ t = WriteMetaThenSet /\ Tail(t) = SetIndexEntry
              \/ t = WriteMeta /\ Tail(t) = <<>>
              \/ t = Move2 /\ Tail(t) = Move3
         /\ Head(t) = "putEntry" =>
              \/ t = PutEntry /\ Tail(t) = <<>>
              \/ t = Link1 /\ Tail(t) = Link2
         /\ Head(t) = "append" =>
              t = Append1 /\ Tail(t) = WriteMetaThenSet
         /\ Head(t) = "share" =>
              t = Share1 /\ Tail(t) = WriteMeta
         /\ Head(t) = "unshare" =>
              t = Unshare1 /\ Tail(t) = WriteMeta
         /\ Head(t) = "rewrite" =>
              t = Patch1 /\ Tail(t) = <<>>
         /\ Head(t) = "copyLog" =>
              t = MoveProgram /\ Tail(t) = Move1
         /\ Head(t) = "resolve" =>
              t = Link2 /\ Tail(t) = MoveProgram
<1>1. CASE t \in Deleting
  <2>1. CASE t = Delete2
    <3>1. t # <<>> /\ Head(t) = "unlinkLog" /\ Tail(t) = Delete3
      BY <2>1, ShortStages, LongStages DEF IsStage
    <3>2. Tail(t) \in Todos \cup {<<>>}
      BY <3>1 DEF Todos, Deleting
    <3> QED
      BY <2>1, <3>1, <3>2 DEF Instructions
  <2>2. CASE t = Delete3
    <3>1. t # <<>> /\ Head(t) = "unlinkLegacy" /\ Tail(t) = Delete4
      BY <2>2, ShortStages, LongStages DEF IsStage
    <3>2. Tail(t) \in Todos \cup {<<>>}
      BY <3>1 DEF Todos, Deleting
    <3> QED
      BY <2>2, <3>1, <3>2 DEF Instructions
  <2>3. CASE t = Delete4
    <3>1. t # <<>> /\ Head(t) = "unlinkLegacyLog" /\ Tail(t) = Delete5
      BY <2>3, ShortStages, LongStages DEF IsStage
    <3>2. Tail(t) \in Todos \cup {<<>>}
      BY <3>1 DEF Todos, Deleting
    <3> QED
      BY <2>3, <3>1, <3>2 DEF Instructions
  <2>4. CASE t = Delete5
    <3>1. t # <<>> /\ Head(t) = "dropEntry" /\ Tail(t) = <<>>
      BY <2>4, ShortStages, LongStages DEF IsStage
    <3>2. Tail(t) \in Todos \cup {<<>>}
      BY <3>1
    <3> QED
      BY <2>4, <3>1, <3>2 DEF Instructions
  <2> QED
    BY <1>1, <2>1, <2>2, <2>3, <2>4 DEF Deleting
<1>2. CASE t \in Moving
  <2>1. CASE t = MoveProgram
    <3>1. t # <<>> /\ Head(t) = "copyLog" /\ Tail(t) = Move1
      BY <2>1, ShortStages, LongStages DEF IsStage
    <3>2. Tail(t) \in Todos \cup {<<>>}
      BY <3>1 DEF Todos, Moving
    <3> QED
      BY <2>1, <3>1, <3>2 DEF Instructions
  <2>2. CASE t = Move1
    <3>1. t # <<>> /\ Head(t) = "unlinkLegacyLog" /\ Tail(t) = Move2
      BY <2>2, ShortStages, LongStages DEF IsStage
    <3>2. Tail(t) \in Todos \cup {<<>>}
      BY <3>1 DEF Todos, Moving
    <3> QED
      BY <2>2, <3>1, <3>2 DEF Instructions
  <2>3. CASE t = Move2
    <3>1. t # <<>> /\ Head(t) = "writeMeta" /\ Tail(t) = Move3
      BY <2>3, ShortStages, LongStages DEF IsStage
    <3>2. Tail(t) \in Todos \cup {<<>>}
      BY <3>1 DEF Todos, Moving
    <3> QED
      BY <2>3, <3>1, <3>2 DEF Instructions
  <2>4. CASE t = Move3
    <3>1. t # <<>> /\ Head(t) = "unlinkLegacy" /\ Tail(t) = SetIndexEntry
      BY <2>4, ShortStages, LongStages DEF IsStage
    <3>2. Tail(t) \in Todos \cup {<<>>}
      BY <3>1 DEF Todos, Adding
    <3> QED
      BY <2>4, <3>1, <3>2 DEF Instructions
  <2>5. CASE t = Link0
    <3>1. t # <<>> /\ Head(t) = "readIndex" /\ Tail(t) = Link1
      BY <2>5, ShortStages, LongStages DEF IsStage
    <3>2. Tail(t) \in Todos \cup {<<>>}
      BY <3>1 DEF Todos, Moving
    <3> QED
      BY <2>5, <3>1, <3>2 DEF Instructions
  <2>6. CASE t = Link1
    <3>1. t # <<>> /\ Head(t) = "putEntry" /\ Tail(t) = Link2
      BY <2>6, ShortStages, LongStages DEF IsStage
    <3>2. Tail(t) \in Todos \cup {<<>>}
      BY <3>1 DEF Todos, Moving
    <3> QED
      BY <2>6, <3>1, <3>2 DEF Instructions
  <2>7. CASE t = Link2
    <3>1. t # <<>> /\ Head(t) = "resolve" /\ Tail(t) = MoveProgram
      BY <2>7, ShortStages, LongStages DEF IsStage
    <3>2. Tail(t) \in Todos \cup {<<>>}
      BY <3>1 DEF Todos, Moving
    <3> QED
      BY <2>7, <3>1, <3>2 DEF Instructions
  <2> QED
    BY <1>2, <2>1, <2>2, <2>3, <2>4, <2>5, <2>6, <2>7 DEF Moving
<1>3. CASE t \in Adding
  <2>1. CASE t = Append1
    <3>1. t # <<>> /\ Head(t) = "append" /\ Tail(t) = WriteMetaThenSet
      BY <2>1, ShortStages, LongStages DEF IsStage
    <3>2. Tail(t) \in Todos \cup {<<>>}
      BY <3>1 DEF Todos, Adding
    <3> QED
      BY <2>1, <3>1, <3>2 DEF Instructions
  <2>2. CASE t = WriteMetaThenSet
    <3>1. t # <<>> /\ Head(t) = "writeMeta" /\ Tail(t) = SetIndexEntry
      BY <2>2, ShortStages, LongStages DEF IsStage
    <3>2. Tail(t) \in Todos \cup {<<>>}
      BY <3>1 DEF Todos, Adding
    <3> QED
      BY <2>2, <3>1, <3>2 DEF Instructions
  <2>3. CASE t = SetIndexEntry
    <3>1. t # <<>> /\ Head(t) = "readIndex" /\ Tail(t) = PutEntry
      BY <2>3, ShortStages, LongStages DEF IsStage
    <3>2. Tail(t) \in Todos \cup {<<>>}
      BY <3>1 DEF Todos, Adding
    <3> QED
      BY <2>3, <3>1, <3>2 DEF Instructions
  <2>4. CASE t = PutEntry
    <3>1. t # <<>> /\ Head(t) = "putEntry" /\ Tail(t) = <<>>
      BY <2>4, ShortStages, LongStages DEF IsStage
    <3>2. Tail(t) \in Todos \cup {<<>>}
      BY <3>1
    <3> QED
      BY <2>4, <3>1, <3>2 DEF Instructions
  <2> QED
    BY <1>3, <2>1, <2>2, <2>3, <2>4 DEF Adding
<1>4. CASE t \in Holding
  <2>1. CASE t = Rename1
    <3>1. t # <<>> /\ Head(t) = "writeRenamed" /\ Tail(t) = Rename2
      BY <2>1, ShortStages, LongStages DEF IsStage
    <3>2. Tail(t) \in Todos \cup {<<>>}
      BY <3>1 DEF Todos, Plain
    <3> QED
      BY <2>1, <3>1, <3>2 DEF Instructions
  <2>2. CASE t = Share1
    <3>1. t # <<>> /\ Head(t) = "share" /\ Tail(t) = WriteMeta
      BY <2>2, ShortStages, LongStages DEF IsStage
    <3>2. Tail(t) \in Todos \cup {<<>>}
      BY <3>1 DEF Todos, Holding
    <3> QED
      BY <2>2, <3>1, <3>2 DEF Instructions
  <2>3. CASE t = Unshare1
    <3>1. t # <<>> /\ Head(t) = "unshare" /\ Tail(t) = WriteMeta
      BY <2>3, ShortStages, LongStages DEF IsStage
    <3>2. Tail(t) \in Todos \cup {<<>>}
      BY <3>1 DEF Todos, Holding
    <3> QED
      BY <2>3, <3>1, <3>2 DEF Instructions
  <2>4. CASE t = WriteMeta
    <3>1. t # <<>> /\ Head(t) = "writeMeta" /\ Tail(t) = <<>>
      BY <2>4, ShortStages, LongStages DEF IsStage
    <3>2. Tail(t) \in Todos \cup {<<>>}
      BY <3>1
    <3> QED
      BY <2>4, <3>1, <3>2 DEF Instructions
  <2> QED
    BY <1>4, <2>1, <2>2, <2>3, <2>4 DEF Holding
<1>5. CASE t \in Special
  <2>1. CASE t = Delete1
    <3>1. t # <<>> /\ Head(t) = "unlinkMeta" /\ Tail(t) = Delete2
      BY <2>1, ShortStages, LongStages DEF IsStage
    <3>2. Tail(t) \in Todos \cup {<<>>}
      BY <3>1 DEF Todos, Deleting
    <3> QED
      BY <2>1, <3>1, <3>2 DEF Instructions
  <2>2. CASE t = Rename3
    <3>1. t # <<>> /\ Head(t) = "putUndefined" /\ Tail(t) = <<>>
      BY <2>2, ShortStages, LongStages DEF IsStage
    <3>2. Tail(t) \in Todos \cup {<<>>}
      BY <3>1
    <3> QED
      BY <2>2, <3>1, <3>2 DEF Instructions
  <2>3. CASE t = WriteLegacyThenSet
    <3>1. t # <<>> /\ Head(t) = "writeLegacy" /\ Tail(t) = SetIndexEntry
      BY <2>3, ShortStages, LongStages DEF IsStage
    <3>2. Tail(t) \in Todos \cup {<<>>}
      BY <3>1 DEF Todos, Adding
    <3> QED
      BY <2>3, <3>1, <3>2 DEF Instructions
  <2>4. CASE t = AppendProgram
    <3>1. t # <<>> /\ Head(t) = "load" /\ Tail(t) = Append1
      BY <2>4, ShortStages, LongStages DEF IsStage
    <3>2. Tail(t) \in Todos \cup {<<>>}
      BY <3>1 DEF Todos, Adding
    <3> QED
      BY <2>4, <3>1, <3>2 DEF Instructions
  <2>5. CASE t = ShareProgram
    <3>1. t # <<>> /\ Head(t) = "load" /\ Tail(t) = Share1
      BY <2>5, ShortStages, LongStages DEF IsStage
    <3>2. Tail(t) \in Todos \cup {<<>>}
      BY <3>1 DEF Todos, Holding
    <3> QED
      BY <2>5, <3>1, <3>2 DEF Instructions
  <2> QED
    BY <1>5, <2>1, <2>2, <2>3, <2>4, <2>5 DEF Special
<1>6. CASE t \in Plain
  <2>1. CASE t = DeleteProgram
    <3>1. t # <<>> /\ Head(t) = "loadAny" /\ Tail(t) = Delete1
      BY <2>1, ShortStages, LongStages DEF IsStage
    <3>2. Tail(t) \in Todos \cup {<<>>}
      BY <3>1 DEF Todos, Special
    <3> QED
      BY <2>1, <3>1, <3>2 DEF Instructions
  <2>2. CASE t = RenameProgram
    <3>1. t # <<>> /\ Head(t) = "load" /\ Tail(t) = Rename1
      BY <2>2, ShortStages, LongStages DEF IsStage
    <3>2. Tail(t) \in Todos \cup {<<>>}
      BY <3>1 DEF Todos, Holding
    <3> QED
      BY <2>2, <3>1, <3>2 DEF Instructions
  <2>3. CASE t = Rename2
    <3>1. t # <<>> /\ Head(t) = "readIndex" /\ Tail(t) = Rename3
      BY <2>3, ShortStages, LongStages DEF IsStage
    <3>2. Tail(t) \in Todos \cup {<<>>}
      BY <3>1 DEF Todos, Special
    <3> QED
      BY <2>3, <3>1, <3>2 DEF Instructions
  <2>4. CASE t = UnshareProgram
    <3>1. t # <<>> /\ Head(t) = "load" /\ Tail(t) = Unshare1
      BY <2>4, ShortStages, LongStages DEF IsStage
    <3>2. Tail(t) \in Todos \cup {<<>>}
      BY <3>1 DEF Todos, Holding
    <3> QED
      BY <2>4, <3>1, <3>2 DEF Instructions
  <2>5. CASE t = PatchProgram
    <3>1. t # <<>> /\ Head(t) = "load" /\ Tail(t) = Patch1
      BY <2>5, ShortStages, LongStages DEF IsStage
    <3>2. Tail(t) \in Todos \cup {<<>>}
      BY <3>1 DEF Todos, Plain
    <3> QED
      BY <2>5, <3>1, <3>2 DEF Instructions
  <2>6. CASE t = Patch1
    <3>1. t # <<>> /\ Head(t) = "rewrite" /\ Tail(t) = <<>>
      BY <2>6, ShortStages, LongStages DEF IsStage
    <3>2. Tail(t) \in Todos \cup {<<>>}
      BY <3>1
    <3> QED
      BY <2>6, <3>1, <3>2 DEF Instructions
  <2> QED
    BY <1>6, <2>1, <2>2, <2>3, <2>4, <2>5, <2>6 DEF Plain
<1> QED
  BY <1>1, <1>2, <1>3, <1>4, <1>5, <1>6 DEF Todos

-----------------------------------------------------------------------------
(* Metas and indexes. *)

LEMMA MetaUpdates ==
  ASSUME NEW m \in Meta
  PROVE  /\ Counted(m) \in Meta /\ Counted(m).count = m.count + 1
         /\ Counted(m).shared = m.shared /\ Counted(m).inProject = m.inProject
         /\ [m EXCEPT !.title = "user"] \in Meta /\ [m EXCEPT !.title = "user"].count = m.count
         /\ Unowned(m) \in Meta /\ Unowned(m).count = m.count
<1> DEFINE a == [m EXCEPT !.count = m.count + 1]
           b == [m EXCEPT !.owner = None]
           t == IF m.title = "default" /\ m.count < 2 THEN "auto" ELSE m.title
<1>1. /\ a \in Meta /\ a.count = m.count + 1 /\ a.shared = m.shared /\ a.inProject = m.inProject
      /\ b \in Meta /\ b.count = m.count /\ t \in Titles
  BY DEF Meta, Titles
<1>2. [m EXCEPT !.title = "user"] \in Meta /\ [m EXCEPT !.title = "user"].count = m.count
  BY DEF Meta, Titles
<1>3. Counted(m) = [a EXCEPT !.title = t] /\ Unowned(m) = [b EXCEPT !.shared = {}]
  BY DEF Counted, Unowned
<1> HIDE DEF a, b, t
<1>4. /\ [a EXCEPT !.title = t] \in Meta /\ [a EXCEPT !.title = t].count = a.count
      /\ [a EXCEPT !.title = t].shared = a.shared /\ [a EXCEPT !.title = t].inProject = a.inProject
  BY <1>1 DEF Meta
<1>5. [b EXCEPT !.shared = {}] \in Meta /\ [b EXCEPT !.shared = {}].count = b.count
  BY <1>1 DEF Meta
<1> QED
  BY <1>1, <1>2, <1>3, <1>4, <1>5

LEMMA MetaShares ==
  ASSUME NEW m \in Meta, NEW sh \in SUBSET Users
  PROVE  /\ [m EXCEPT !.shared = sh] \in Meta /\ [m EXCEPT !.shared = sh].shared = sh
         /\ [m EXCEPT !.shared = sh].count = m.count
         /\ [m EXCEPT !.shared = sh].inProject = m.inProject
BY DEF Meta

LEMMA NewMetaType ==
  ASSUME NEW linked \in BOOLEAN, NEW inProject \in BOOLEAN, NEW owner \in Users \cup {None}
  PROVE  /\ NewMeta(linked, inProject, owner) \in Meta
         /\ NewMeta(linked, inProject, owner).inProject = inProject
         /\ NewMeta(linked, inProject, owner).count = 0
         /\ NewMeta(linked, inProject, owner).shared = {}
BY DEF NewMeta, Meta, Titles

LEMMA BlankType == Blank \in Meta
BY NewMetaType DEF Blank

LEMMA IndexType ==
  ASSUME NEW i
  PROVE  i \in Indexes <=> IsIndex(i)
<1>1. ASSUME i \in Indexes PROVE IsIndex(i)
  <2>1. PICK D \in SUBSET Keys : i \in [D -> Meta]
    BY <1>1 DEF Indexes
  <2> QED
    BY <2>1 DEF IsIndex
<1>2. ASSUME IsIndex(i) PROVE i \in Indexes
  <2>1. DOMAIN i \in SUBSET Keys /\ i \in [DOMAIN i -> Meta]
    BY <1>2 DEF IsIndex
  <2> QED
    BY <2>1 DEF Indexes
<1> QED
  BY <1>1, <1>2

LEMMA IndexUpdates ==
  ASSUME NEW i \in Indexes, NEW k \in Keys, NEW m \in Meta
  PROVE  /\ Put(i, k, m) \in Indexes /\ DOMAIN Put(i, k, m) = DOMAIN i \cup {k}
         /\ Put(i, k, m)[k] = m /\ \A l \in DOMAIN i : l # k => Put(i, k, m)[l] = i[l]
         /\ Drop(i, k) \in Indexes /\ DOMAIN Drop(i, k) = DOMAIN i \ {k}
         /\ \A l \in DOMAIN i : l # k => Drop(i, k)[l] = i[l]
<1>1. DOMAIN i \subseteq Keys /\ i \in [DOMAIN i -> Meta]
  BY IndexType DEF IsIndex
<1>2. Put(i, k, m) \in [DOMAIN i \cup {k} -> Meta]
  BY <1>1 DEF Put
<1>3. Drop(i, k) \in [DOMAIN i \ {k} -> Meta]
  BY <1>1 DEF Drop
<1>4. IsIndex(Put(i, k, m)) /\ IsIndex(Drop(i, k))
  BY <1>1, <1>2, <1>3 DEF IsIndex
<1>5. Put(i, k, m) \in Indexes /\ Drop(i, k) \in Indexes
  BY <1>4, IndexType
<1> QED
  BY <1>5 DEF Put, Drop

LEMMA EmptyIndexType == EmptyIndex \in Indexes /\ DOMAIN EmptyIndex = {}
<1>1. EmptyIndex \in [{} -> Meta] /\ DOMAIN EmptyIndex = {}
  BY DEF EmptyIndex
<1> QED
  BY <1>1 DEF Indexes

(* Logs as sets of messages. *)
LEMMA AppendedLog ==
  ASSUME NEW a \in Seq(Messages), NEW n \in Messages
  PROVE  /\ Append(a, n) \in Seq(Messages) /\ Len(Append(a, n)) = Len(a) + 1
         /\ ToSet(Append(a, n)) = ToSet(a) \cup {n}
<1> DEFINE c == Append(a, n)
<1>1. /\ c \in Seq(Messages) /\ Len(c) = Len(a) + 1
      /\ \A i \in 1 .. Len(a) : c[i] = a[i]
      /\ c[Len(a) + 1] = n
  BY AppendProperties
<1>2. Len(a) \in Nat /\ DOMAIN a = 1 .. Len(a)
  BY LenProperties
<1>3. DOMAIN c = 1 .. Len(a) + 1
  BY <1>1, <1>2, LenProperties
<1> HIDE DEF c
<1>4. \A x \in ToSet(c) : x \in ToSet(a) \cup {n}
  <2> SUFFICES ASSUME NEW i \in 1 .. Len(a) + 1 PROVE c[i] \in ToSet(a) \cup {n}
    BY <1>3 DEF ToSet
  <2> QED
    BY <1>1, <1>2 DEF ToSet
<1>5. \A x \in ToSet(a) : x \in ToSet(c)
  <2> SUFFICES ASSUME NEW i \in 1 .. Len(a) PROVE a[i] \in ToSet(c)
    BY <1>2 DEF ToSet
  <2>1. i \in 1 .. Len(a) + 1 /\ c[i] = a[i]
    BY <1>1, <1>2
  <2> QED
    BY <1>3, <2>1 DEF ToSet
<1>6. n \in ToSet(c)
  <2>1. Len(a) + 1 \in 1 .. Len(a) + 1 /\ c[Len(a) + 1] = n
    BY <1>1, <1>2
  <2> QED
    BY <1>3, <2>1 DEF ToSet
<1>7. ToSet(c) = ToSet(a) \cup {n}
  BY <1>4, <1>5, <1>6
<1> QED
  BY <1>1, <1>7 DEF c

LEMMA JoinedLog ==
  ASSUME NEW a \in Seq(Messages), NEW b \in Seq(Messages)
  PROVE  a \o b \in Seq(Messages) /\ ToSet(a \o b) = ToSet(a) \cup ToSet(b)
<1>1. Len(a) \in Nat /\ Len(b) \in Nat /\ DOMAIN a = 1 .. Len(a) /\ DOMAIN b = 1 .. Len(b)
  BY LenProperties
<1> DEFINE d == a \o b
<1>2. /\ d \in Seq(Messages) /\ Len(d) = Len(a) + Len(b)
      /\ \A i \in 1 .. Len(a) + Len(b) : d[i] = IF i <= Len(a) THEN a[i] ELSE b[i - Len(a)]
  BY ConcatProperties
<1>3. DOMAIN d = 1 .. Len(a) + Len(b)
  BY <1>2, LenProperties
<1> HIDE DEF d
<1>4. \A x \in ToSet(d) : x \in ToSet(a) \cup ToSet(b)
  <2> SUFFICES ASSUME NEW i \in 1 .. Len(a) + Len(b) PROVE d[i] \in ToSet(a) \cup ToSet(b)
    BY <1>3 DEF ToSet
  <2>1. CASE i <= Len(a)
    BY <1>1, <1>2, <2>1 DEF ToSet
  <2>2. CASE ~(i <= Len(a))
    <3>1. i - Len(a) \in 1 .. Len(b) /\ d[i] = b[i - Len(a)]
      BY <1>1, <1>2, <2>2
    <3> QED
      BY <1>1, <3>1 DEF ToSet
  <2> QED
    BY <2>1, <2>2
<1>5. \A x \in ToSet(a) : x \in ToSet(d)
  <2> SUFFICES ASSUME NEW i \in 1 .. Len(a) PROVE a[i] \in ToSet(d)
    BY <1>1 DEF ToSet
  <2>1. i \in 1 .. Len(a) + Len(b) /\ d[i] = a[i]
    BY <1>1, <1>2
  <2> QED
    BY <1>3, <2>1 DEF ToSet
<1>6. \A x \in ToSet(b) : x \in ToSet(d)
  <2> SUFFICES ASSUME NEW i \in 1 .. Len(b) PROVE b[i] \in ToSet(d)
    BY <1>1 DEF ToSet
  <2>1. Len(a) + i \in 1 .. Len(a) + Len(b) /\ ~(Len(a) + i <= Len(a)) /\ (Len(a) + i) - Len(a) = i
    BY <1>1
  <2>2. d[Len(a) + i] = b[i]
    BY <1>2, <2>1
  <2> QED
    BY <1>3, <2>1, <2>2 DEF ToSet
<1>7. ToSet(d) = ToSet(a) \cup ToSet(b)
  BY <1>4, <1>5, <1>6
<1> QED
  BY <1>2, <1>7 DEF d

-----------------------------------------------------------------------------
(* What a job is after an instruction. *)

(* The job itself, with what it has read or computed. *)
After(j, x, m) == [s |-> j.s, todo |-> Tail(j.todo), idx |-> x, meta |-> m, user |-> j.user]

(* The index and the meta that a job holds after instruction i. *)
IdxAfter(j, i) ==
  IF i = "readIndex" \/ (i \in {"load", "loadAny"} /\ j.s \in DOMAIN index) THEN index ELSE j.idx

MetaAfter(j, i, m) ==
  /\ i \in {"load", "loadAny"} /\ j.s \in DOMAIN index => m = index[j.s]
  /\ i = "append" => m = Counted(j.meta)
  /\ i = "share" => m = [j.meta EXCEPT !.shared = Shared(j)]
  /\ i = "unshare" => m = [j.meta EXCEPT !.shared = j.meta.shared \ {j.user}]
  /\ i \notin {"load", "loadAny", "append", "share", "unshare", "resolve"} => m = j.meta

LEMMA Advance ==
  ASSUME NEW j \in Job, NEW i, i = Head(j.todo), index \in Indexes, i = "share" => j.user \in Users
  PROVE  /\ \/ /\ Advanced(j, i) = NoJob
               /\ Tail(j.todo) = <<>> \/ (i = "load" /\ j.s \notin DOMAIN index)
            \/ /\ Tail(j.todo) \in Todos /\ ~(i = "load" /\ j.s \notin DOMAIN index)
               /\ \E m \in Meta : Advanced(j, i) = After(j, IdxAfter(j, i), m) /\ MetaAfter(j, i, m)
         /\ \A x \in Indexes, m \in Meta : Tail(j.todo) \in Todos => After(j, x, m) \in Job
<1>1. /\ j.s \in Sessions /\ j.todo \in Todos /\ j.idx \in Indexes /\ j.meta \in Meta
      /\ j.user \in Users \cup {None}
  BY DEF Job
<1>2. \A x \in Indexes, m \in Meta : Tail(j.todo) \in Todos => After(j, x, m) \in Job
  BY <1>1 DEF After, Job
<1>3. Tail(j.todo) \in Todos \cup {<<>>} /\ <<>> \notin Todos
  BY <1>1, Stages
<1> DEFINE rest == [j EXCEPT !.todo = Tail(@)]
           u == Tail(j.todo)
<1>0. rest = [j EXCEPT !.todo = u]
  OBVIOUS
<1> HIDE DEF rest, u
<1>4. rest = [s |-> j.s, todo |-> u, idx |-> j.idx, meta |-> j.meta, user |-> j.user]
  BY <1>0 DEF Job
<1>5. j.s \in DOMAIN index => index[j.s] \in Meta
  BY <1>1, IndexType DEF IsIndex
<1>6. PICK n : n = CASE i \in {"load", "loadAny"} /\ j.s \in DOMAIN index ->
                     [rest EXCEPT !.idx = index, !.meta = index[j.s]]
                [] i = "load" /\ j.s \notin DOMAIN index -> NoJob
                [] i = "readIndex" -> [rest EXCEPT !.idx = index]
                [] i = "resolve" ->
                     [rest EXCEPT !.meta.linked = TRUE, !.meta.inProject = TRUE,
                                  !.meta.title = "default"]
                [] i = "append" -> [rest EXCEPT !.meta = Counted(@)]
                [] i = "share" -> [rest EXCEPT !.meta.shared = Shared(j)]
                [] i = "unshare" -> [rest EXCEPT !.meta.shared = @ \ {j.user}]
                [] OTHER -> rest
  OBVIOUS
<1>7. Advanced(j, i) = IF n.todo = <<>> THEN NoJob ELSE n
  BY <1>6 DEF Advanced, rest
<1>8. CASE i = "load" /\ j.s \notin DOMAIN index
  <2>1. n = NoJob
    BY <1>6, <1>8
  <2>2. Advanced(j, i) = NoJob
    BY <1>7, <2>1
  <2> QED
    BY <1>2, <1>8, <2>2
<1>9. CASE ~(i = "load" /\ j.s \notin DOMAIN index)
  <2>1. \E m \in Meta : /\ n = [s |-> j.s, todo |-> u, idx |-> IdxAfter(j, i), meta |-> m, user |-> j.user]
                        /\ MetaAfter(j, i, m)
    <3>1. CASE i \in {"load", "loadAny"} /\ j.s \in DOMAIN index
      <4>1. n = [rest EXCEPT !.idx = index, !.meta = index[j.s]]
        BY <1>6, <3>1
      <4>2. n = [s |-> j.s, todo |-> u, idx |-> index, meta |-> index[j.s], user |-> j.user]
        BY <1>4, <4>1
      <4> QED
        BY <1>5, <3>1, <4>2 DEF IdxAfter, MetaAfter
    <3>2. CASE i = "readIndex"
      <4>1. n = [rest EXCEPT !.idx = index]
        BY <1>6, <3>2
      <4>2. n = [s |-> j.s, todo |-> u, idx |-> index, meta |-> j.meta, user |-> j.user]
        BY <1>4, <4>1
      <4> QED
        BY <1>1, <3>2, <4>2 DEF IdxAfter, MetaAfter
    <3>3. CASE i = "resolve"
      <4>1. n = [rest EXCEPT !.meta.linked = TRUE, !.meta.inProject = TRUE, !.meta.title = "default"]
        BY <1>6, <3>3
      <4> DEFINE m == [linked |-> TRUE, inProject |-> TRUE, title |-> "default", count |-> j.meta.count,
                       owner |-> j.meta.owner, shared |-> j.meta.shared]
      <4>2. m \in Meta
        BY <1>1 DEF Meta, Titles
      <4>3. n = [s |-> j.s, todo |-> u, idx |-> j.idx, meta |-> m, user |-> j.user]
        BY <1>1, <1>4, <4>1 DEF Meta
      <4> QED
        BY <3>3, <4>2, <4>3 DEF IdxAfter, MetaAfter
    <3>4. CASE i = "append"
      <4>1. n = [rest EXCEPT !.meta = Counted(@)]
        BY <1>6, <3>4
      <4>2. n = [s |-> j.s, todo |-> u, idx |-> j.idx, meta |-> Counted(j.meta), user |-> j.user]
        BY <1>4, <4>1
      <4>3. Counted(j.meta) \in Meta
        BY <1>1, MetaUpdates
      <4> QED
        BY <3>4, <4>2, <4>3 DEF IdxAfter, MetaAfter
    <3>5. CASE i = "share"
      <4>1. n = [rest EXCEPT !.meta.shared = Shared(j)]
        BY <1>6, <3>5
      <4> DEFINE m == [j.meta EXCEPT !.shared = Shared(j)]
      <4>2. n = [s |-> j.s, todo |-> u, idx |-> j.idx, meta |-> m, user |-> j.user]
        BY <1>4, <4>1
      <4>3. j.meta.shared \in SUBSET Users /\ Shared(j) \in SUBSET Users
        BY <1>1, <3>5 DEF Shared, Meta
      <4>4. m \in Meta
        BY <1>1, <4>3, MetaShares
      <4> QED
        BY <3>5, <4>2, <4>4 DEF IdxAfter, MetaAfter
    <3>6. CASE i = "unshare"
      <4>1. n = [rest EXCEPT !.meta.shared = @ \ {j.user}]
        BY <1>6, <3>6
      <4> DEFINE m == [j.meta EXCEPT !.shared = j.meta.shared \ {j.user}]
      <4>2. n = [s |-> j.s, todo |-> u, idx |-> j.idx, meta |-> m, user |-> j.user]
        BY <1>4, <4>1
      <4>3. j.meta.shared \in SUBSET Users
        BY <1>1 DEF Meta
      <4>4. m \in Meta
        BY <1>1, <4>3, MetaShares
      <4> QED
        BY <3>6, <4>2, <4>4 DEF IdxAfter, MetaAfter
    <3>7. CASE /\ i \notin {"readIndex", "resolve", "append", "share", "unshare"}
               /\ ~(i \in {"load", "loadAny"} /\ j.s \in DOMAIN index)
      <4>1. n = rest
        BY <1>6, <1>9, <3>7
      <4> QED
        BY <1>1, <1>4, <3>7, <4>1 DEF IdxAfter, MetaAfter
    <3> QED
      BY <3>1, <3>2, <3>3, <3>4, <3>5, <3>6, <3>7
  <2>2. PICK m \in Meta : /\ n = [s |-> j.s, todo |-> u, idx |-> IdxAfter(j, i), meta |-> m, user |-> j.user]
                          /\ MetaAfter(j, i, m)
    BY <2>1
  <2>3. n.todo = u
    BY <2>2
  <2>4. CASE u = <<>>
    BY <1>2, <1>7, <2>3, <2>4 DEF u
  <2>5. CASE u # <<>>
    <3>1. Advanced(j, i) = After(j, IdxAfter(j, i), m)
      BY <1>7, <2>2, <2>3, <2>5 DEF u, After
    <3>2. u \in Todos
      BY <1>3, <2>5 DEF u
    <3> QED
      BY <1>2, <1>9, <2>2, <3>1, <3>2 DEF u
  <2> QED
    BY <2>4, <2>5
<1> QED
  BY <1>8, <1>9

-----------------------------------------------------------------------------
(* The steps of a job. *)

(* What is known of a job that runs, apart from the types. *)
Here(j) ==
  /\ JobOk(j)
  /\ j.todo = Move1 => ToSet(legacyLog[j.s]) \subseteq ToSet(log[j.s])
  /\ j.todo \in Deleting => j.s \in gone
  /\ ~disturbed =>
       /\ Holds(j)
       /\ \A s \in Sessions : InProject(s) =>
            legacy[s] = None /\ (s # j.s \/ j.todo \notin Adding => Settled(s))

(* What a step of j leaves alone; j is n afterwards. *)
Leaves(j, n) ==
  /\ UNCHANGED <<migrations, lister, getter, known, calls, reads, born, torn, disturbed>>
  /\ gone \subseteq gone' /\ gone' \subseteq gone \cup {j.s}
  /\ \A s \in Sessions \ {j.s} :
       /\ legacy'[s] = legacy[s] /\ meta'[s] = meta[s] /\ log'[s] = log[s]
       /\ legacyLog'[s] = legacyLog[s] /\ granted'[s] = granted[s] /\ acked'[s] = acked[s]
       /\ missed'[s] = missed[s]
  /\ n # NoJob => n.s = j.s

(* It loses no message, *)
KeepsMessages(j, n) ==
  /\ j.s \notin gone' \cup torn => acked'[j.s] \subseteq ToSet(log'[j.s]) \cup ToSet(legacyLog'[j.s])
  /\ n.todo = Move1 => ToSet(legacyLog'[j.s]) \subseteq ToSet(log'[j.s])
  /\ n.todo \in Deleting => j.s \in gone'

(* and leaves the sessions settled. *)
KeepsTruth(j, n) ==
  ~disturbed =>
    /\ \A s \in Sessions \ {j.s} : InProject(s) => s \in DOMAIN index' /\ index'[s] = index[s]
    /\ InProject(j.s)' => legacy'[j.s] = None /\ (Settled(j.s)' \/ (n # NoJob /\ n.todo \in Adding))
    /\ n # NoJob => Holds(n)'

Effect(j, n) ==
  /\ Types' /\ (n = NoJob \/ JobOk(n)')
  /\ Leaves(j, n) /\ KeepsMessages(j, n) /\ KeepsTruth(j, n)

LEMMA Running ==
  ASSUME IInv, NEW k \in Slots, jobs[k] # NoJob, NEW j, j = jobs[k]
  PROVE  Here(j) /\ j \in Job /\ \A l \in Slots : l # k => jobs[l] = NoJob
<1>1. JobOk(j) /\ j \in Job /\ \A l \in Slots : l # k => jobs[l] = NoJob
  BY DEF IInv, OneJob, JobOk
<1>2. /\ j.todo = Move1 => ToSet(legacyLog[j.s]) \subseteq ToSet(log[j.s])
      /\ j.todo \in Deleting => j.s \in gone
  BY DEF IInv, Copied
<1>3. ASSUME ~disturbed
      PROVE  /\ Holds(j)
             /\ \A s \in Sessions : InProject(s) =>
                  legacy[s] = None /\ (s # j.s \/ j.todo \notin Adding => Settled(s))
  <2>1. Truth
    BY <1>3 DEF IInv, Undisturbed
  <2>2. Holds(j)
    BY <2>1 DEF Truth
  <2>3. ASSUME NEW s \in Sessions, s # j.s \/ j.todo \notin Adding PROVE ~Busy(s)
    BY <1>1, <2>3 DEF Busy
  <2> QED
    BY <2>1, <2>2, <2>3 DEF Truth
<1> QED
  BY <1>1, <1>2, <1>3 DEF Here

LEMMA Together ==
  ASSUME IInv, NEW k \in Slots, jobs[k] # NoJob, NEW j, j = jobs[k], NEW n,
         jobs' = [jobs EXCEPT ![k] = n], Effect(j, n)
  PROVE  IInv'
<1>1. /\ Here(j) /\ j \in Job /\ j.s \in Sessions
      /\ DOMAIN jobs' = Slots /\ jobs'[k] = n
      /\ \A l \in Slots : l # k => jobs'[l] = NoJob
  BY Running DEF IInv, OneJob, Job
<1>2. /\ n.s = j.s \/ n = NoJob
      /\ n = NoJob => n.todo = <<>>
      /\ born' = born /\ migrations' = migrations /\ disturbed' = disturbed /\ torn' = torn
      /\ gone \subseteq gone' /\ gone' \subseteq gone \cup {j.s}
  BY DEF Effect, Leaves, NoJob
<1>3. Types'
  BY DEF Effect
<1>4. OneJob'
  <2>1. n = NoJob \/ JobOk(n)'
    BY DEF Effect
  <2>2. \A l \in Slots : jobs'[l] = NoJob \/ JobOk(jobs[l])'
    BY <1>1, <2>1 DEF JobOk
  <2> QED
    BY <1>1, <2>2 DEF OneJob
<1>5. Unborn'
  <2>1. born[j.s] # "no"
    BY <1>1 DEF Here, JobOk
  <2>2. \A s \in Sessions : born[s] = "no" =>
          /\ legacy'[s] = None /\ meta'[s] = None /\ log'[s] = <<>> /\ granted'[s] = {}
          /\ missed'[s] = 0
    BY <2>1 DEF IInv, Unborn, Effect, Leaves
  <2>3. \A g \in migrations : born[g.s] # "no"
    BY DEF IInv, Unborn
  <2> QED
    BY <1>2, <2>2, <2>3 DEF Unborn
<1>6. NoMessageLost'
  <2>1. ASSUME NEW s \in Sessions, s \notin gone' \cup torn, s # j.s
        PROVE  acked'[s] \subseteq ToSet(log'[s]) \cup ToSet(legacyLog'[s])
    <3>1. acked[s] \subseteq ToSet(log[s]) \cup ToSet(legacyLog[s])
      BY <1>2, <2>1 DEF IInv, NoMessageLost
    <3>2. acked'[s] = acked[s] /\ log'[s] = log[s] /\ legacyLog'[s] = legacyLog[s]
      BY <2>1 DEF Effect, Leaves
    <3> QED
      BY <3>1, <3>2
  <2>2. j.s \notin gone' \cup torn => acked'[j.s] \subseteq ToSet(log'[j.s]) \cup ToSet(legacyLog'[j.s])
    BY DEF Effect, KeepsMessages
  <2> QED
    BY <1>2, <2>1, <2>2 DEF NoMessageLost
<1>7. Copied'
  <2>1. <<>> # Move1 /\ <<>> \notin Deleting
    BY Stages DEF Todos, Moving
  <2>2. /\ n.todo = Move1 => ToSet(legacyLog'[j.s]) \subseteq ToSet(log'[j.s])
        /\ n.todo \in Deleting => j.s \in gone'
    BY DEF Effect, KeepsMessages
  <2>3. ASSUME NEW l \in Slots
        PROVE  /\ jobs'[l].todo = Move1 => ToSet(legacyLog'[jobs'[l].s]) \subseteq ToSet(log'[jobs'[l].s])
               /\ jobs'[l].todo \in Deleting => jobs'[l].s \in gone'
    <3>1. CASE l = k
      BY <1>1, <1>2, <2>1, <2>2, <3>1
    <3>2. CASE l # k
      BY <1>1, <2>1, <3>2 DEF NoJob
    <3> QED
      BY <3>1, <3>2
  <2> QED
    BY <2>3 DEF Copied
<1>8. Undisturbed'
  <2> SUFFICES ASSUME ~disturbed PROVE Truth'
    BY <1>2 DEF Undisturbed
  <2>1. /\ \A s \in Sessions \ {j.s} : InProject(s) => s \in DOMAIN index' /\ index'[s] = index[s]
        /\ InProject(j.s)' => legacy'[j.s] = None /\ (Settled(j.s)' \/ (n # NoJob /\ n.todo \in Adding))
        /\ n # NoJob => Holds(n)'
    BY DEF Effect, KeepsTruth
  <2>2. ASSUME NEW s \in Sessions, InProject(s)'
        PROVE  legacy'[s] = None /\ (Settled(s)' \/ Busy(s)')
    <3>1. CASE s = j.s
      <4>1. n # NoJob /\ n.todo \in Adding => Busy(s)'
        BY <1>1, <1>2, <3>1 DEF Busy
      <4>2. legacy'[s] = None /\ (Settled(s)' \/ (n # NoJob /\ n.todo \in Adding))
        BY <2>1, <2>2, <3>1
      <4> QED
        BY <4>1, <4>2
    <3>2. CASE s # j.s
      <4>1. InProject(s)
        BY <1>2, <2>2 DEF InProject
      <4>2. legacy[s] = None /\ Settled(s)
        BY <1>1, <3>2, <4>1 DEF Here
      <4>3. /\ legacy'[s] = legacy[s] /\ meta'[s] = meta[s] /\ log'[s] = log[s] /\ granted'[s] = granted[s]
            /\ missed'[s] = missed[s] /\ s \in DOMAIN index' /\ index'[s] = index[s]
        BY <2>1, <3>2, <4>1 DEF Effect, Leaves
      <4> QED
        BY <4>2, <4>3 DEF Settled, Accurate, MetaCounts
    <3> QED
      BY <3>1, <3>2
  <2>3. \A g \in migrations' : ~InProject(g.s)'
    BY <1>2 DEF IInv, Undisturbed, Truth, InProject
  <2>4. \A l \in Slots : jobs'[l] # NoJob => Holds(jobs[l])'
    <3> SUFFICES ASSUME NEW l \in Slots, jobs'[l] # NoJob PROVE Holds(jobs[l])'
      OBVIOUS
    <3>1. jobs'[l] = n
      BY <1>1
    <3> QED
      BY <2>1, <3>1 DEF Holds, Current
  <2> QED
    BY <2>2, <2>3, <2>4 DEF Truth
<1> QED
  BY <1>3, <1>4, <1>5, <1>6, <1>7, <1>8 DEF IInv

(* A job after an instruction: it has ended, or goes on with what is left. *)
GoesOn(j, i, n) ==
  /\ n \in Job /\ n # NoJob
  /\ n.s = j.s /\ n.todo = Tail(j.todo) /\ n.idx = IdxAfter(j, i) /\ n.user = j.user
  /\ MetaAfter(j, i, n.meta)
  /\ ~(i = "load" /\ j.s \notin DOMAIN index)

Ends(j, i, n) ==
  /\ n = NoJob /\ n.todo = <<>>
  /\ Tail(j.todo) = <<>> \/ (i = "load" /\ j.s \notin DOMAIN index)

LEMMA AfterFields ==
  ASSUME NEW j, NEW x, NEW m
  PROVE  /\ After(j, x, m).s = j.s /\ After(j, x, m).todo = Tail(j.todo)
         /\ After(j, x, m).idx = x /\ After(j, x, m).meta = m /\ After(j, x, m).user = j.user
<1> DEFINE u == Tail(j.todo)
           r == [s |-> j.s, todo |-> u, idx |-> x, meta |-> m, user |-> j.user]
<1>1. After(j, x, m) = r
  BY DEF After
<1> HIDE DEF u
<1>2. r.s = j.s /\ r.todo = u /\ r.idx = x /\ r.meta = m /\ r.user = j.user
  OBVIOUS
<1> HIDE DEF r
<1> QED
  BY <1>1, <1>2 DEF u

LEMMA Progress ==
  ASSUME Types, NEW j, JobOk(j), NEW i, i = Head(j.todo), NEW n, n = Advanced(j, i)
  PROVE  Ends(j, i, n) \/ GoesOn(j, i, n)
<1>1. j \in Job /\ j.todo \in Todos /\ j.idx \in Indexes /\ index \in Indexes
  BY DEF JobOk, Job, Types
<1>2. i = "share" => j.user \in Users
  <2>1. i = "share" => j.todo = Share1
    BY <1>1, Stages
  <2> QED
    BY <2>1 DEF JobOk
<1>3. /\ \/ /\ Advanced(j, i) = NoJob
            /\ Tail(j.todo) = <<>> \/ (i = "load" /\ j.s \notin DOMAIN index)
         \/ /\ Tail(j.todo) \in Todos /\ ~(i = "load" /\ j.s \notin DOMAIN index)
            /\ \E m \in Meta : Advanced(j, i) = After(j, IdxAfter(j, i), m) /\ MetaAfter(j, i, m)
      /\ \A x \in Indexes, m \in Meta : Tail(j.todo) \in Todos => After(j, x, m) \in Job
  BY <1>1, <1>2, Advance
<1>4. CASE n = NoJob /\ (Tail(j.todo) = <<>> \/ (i = "load" /\ j.s \notin DOMAIN index))
  BY <1>4 DEF Ends, NoJob
<1>5. CASE /\ Tail(j.todo) \in Todos /\ ~(i = "load" /\ j.s \notin DOMAIN index)
           /\ \E m \in Meta : n = After(j, IdxAfter(j, i), m) /\ MetaAfter(j, i, m)
  <2>1. PICK m \in Meta : n = After(j, IdxAfter(j, i), m) /\ MetaAfter(j, i, m)
    BY <1>5
  <2>2. IdxAfter(j, i) \in Indexes
    BY <1>1 DEF IdxAfter
  <2>3. n \in Job
    BY <1>3, <1>5, <2>1, <2>2
  <2>4. /\ n.s = j.s /\ n.todo = Tail(j.todo) /\ n.idx = IdxAfter(j, i) /\ n.meta = m
        /\ n.user = j.user
    BY <2>1, AfterFields
  <2>5. n # NoJob
    <3>1. n.todo # <<>>
      BY <1>5, <2>4, Stages
    <3> QED
      BY <3>1 DEF NoJob
  <2> QED
    BY <1>5, <2>1, <2>3, <2>4, <2>5 DEF GoesOn
<1> QED
  BY <1>3, <1>4, <1>5

(* What a job has not begun with, it does not come to. *)
LEMMA NoBeginning ==
  ASSUME NEW t \in Todos
  PROVE  /\ Tail(t) \notin {ShareProgram, AppendProgram, WriteLegacyThenSet, DeleteProgram}
         /\ Tail(t) = Share1 => t = ShareProgram
         /\ Tail(t) = Append1 => t = AppendProgram
<1> DEFINE r == Tail(t)
<1>1. \/ r = <<>>
      \/ r \in {Delete1} \cup Deleting
      \/ r \in {Rename1, Rename2, Rename3, Unshare1, Patch1, WriteMeta}
      \/ r \in {SetIndexEntry, PutEntry, WriteMetaThenSet}
      \/ r \in {MoveProgram, Move1, Move2, Move3, Link1, Link2}
      \/ r = Share1 /\ t = ShareProgram
      \/ r = Append1 /\ t = AppendProgram
  <2>1. Head(t) \in Instructions
    BY Stages
  <2>2. CASE Head(t) \in {"loadAny", "unlinkMeta", "unlinkLog", "unlinkLegacy", "unlinkLegacyLog", "dropEntry"}
    BY <2>2, Stages DEF Deleting
  <2>3. CASE Head(t) \in {"load", "writeRenamed"}
    BY <2>3, Stages
  <2>4. CASE Head(t) \in {"readIndex", "putUndefined", "writeLegacy", "writeMeta", "putEntry"}
    BY <2>4, Stages
  <2>5. CASE Head(t) \in {"append", "share", "unshare", "rewrite", "copyLog", "resolve"}
    BY <2>5, Stages
  <2> QED
    BY <2>1, <2>2, <2>3, <2>4, <2>5 DEF Instructions
<1> DEFINE Begun == {ShareProgram, AppendProgram, WriteLegacyThenSet, DeleteProgram, Share1, Append1}
<1>2. <<>> \notin Begun
  BY Stages DEF Todos, Special, Plain, Holding, Adding
<1>3. \A d \in {Delete1} \cup Deleting : d \notin Begun
  BY StageMarks DEF Marks, Deleting
<1>4. \A d \in {Rename1, Rename2, Rename3, Unshare1, Patch1, WriteMeta} : d \notin Begun
  BY StageMarks DEF Marks
<1>5. \A d \in {SetIndexEntry, PutEntry, WriteMetaThenSet} : d \notin Begun
  BY StageMarks DEF Marks
<1>6. \A d \in {MoveProgram, Move1, Move2, Move3, Link1, Link2} : d \notin Begun
  BY StageMarks DEF Marks
<1>7. /\ Share1 \notin {ShareProgram, AppendProgram, WriteLegacyThenSet, DeleteProgram, Append1}
      /\ Append1 \notin {ShareProgram, AppendProgram, WriteLegacyThenSet, DeleteProgram, Share1}
  BY StageMarks DEF Marks
<1> HIDE DEF r
<1>8. /\ r \notin {ShareProgram, AppendProgram, WriteLegacyThenSet, DeleteProgram}
      /\ r = Share1 => t = ShareProgram
      /\ r = Append1 => t = AppendProgram
  BY <1>1, <1>2, <1>3, <1>4, <1>5, <1>6, <1>7
<1> QED
  BY <1>8 DEF r

(* What is left of a job after one of the writes whose failure is caught. *)
LEMMA AfterCaught ==
  ASSUME NEW t \in Todos,
         Head(t) \in {"writeMeta", "unlinkMeta", "unlinkLog", "unlinkLegacy", "unlinkLegacyLog"}
  PROVE  /\ Tail(t) # Move1
         /\ Tail(t) \in Deleting => Head(t) = "unlinkMeta" \/ t \in Deleting
<1> DEFINE r == Tail(t)
           h == Head(t)
<1>1. \/ r = Delete2 /\ h = "unlinkMeta"
      \/ r \in {Delete3, Delete4, Delete5} /\ t \in Deleting
      \/ r = <<>>
      \/ r \in {SetIndexEntry, Move2, Move3}
  <2>1. CASE h = "writeMeta"
    BY <2>1, Stages
  <2>2. CASE h \in {"unlinkMeta", "unlinkLog"}
    BY <2>2, Stages DEF Deleting
  <2>3. CASE h \in {"unlinkLegacy", "unlinkLegacyLog"}
    BY <2>3, Stages DEF Deleting
  <2> QED
    BY <2>1, <2>2, <2>3
<1>2. <<>> # Move1 /\ <<>> \notin Deleting
  BY Stages DEF Todos, Moving
<1>3. Move1 \notin {Delete2, Delete3, Delete4, Delete5}
  BY StageMarks DEF Marks
<1>4. \A d \in {SetIndexEntry, Move2, Move3} : d # Move1 /\ d \notin Deleting
  BY StageMarks DEF Marks, Deleting
<1> HIDE DEF r, h
<1>5. r # Move1 /\ (r \in Deleting => h = "unlinkMeta" \/ t \in Deleting)
  BY <1>1, <1>2, <1>3, <1>4
<1> QED
  BY <1>5 DEF r, h

(* The job is as it should be if it has still room for its message. *)
LEMMA NextOk ==
  ASSUME NEW j, JobOk(j), NEW i, i = Head(j.todo), NEW n, GoesOn(j, i, n),
         born' = born, i = "load" => sent' = sent
  PROVE  JobOk(n)'
<1>1. j.todo \in Todos
  BY DEF JobOk, Job
<1>2. /\ n \in Job /\ n.s = j.s /\ n.user = j.user /\ n.todo = Tail(j.todo)
      /\ n.todo \notin {ShareProgram, AppendProgram, WriteLegacyThenSet, DeleteProgram}
      /\ n.todo = Share1 => j.todo = ShareProgram
      /\ n.todo = Append1 => j.todo = AppendProgram
  BY <1>1, NoBeginning DEF GoesOn
<1>3. j.todo = AppendProgram => i = "load"
  BY StageMarks DEF Marks, First
<1>4. n.todo = Append1 => sent' < MaxMessages
  BY <1>2, <1>3 DEF JobOk
<1> QED
  BY <1>2, <1>4 DEF JobOk

(* What a job holds when it is at none of the stages that matter. *)
LEMMA NothingHeld ==
  ASSUME NEW j, j.todo \in Todos,
         \/ j.todo \in Plain \cup {AppendProgram, ShareProgram, WriteLegacyThenSet}
         \/ ~InProject(j.s)' /\ j.todo \in (Moving \ {Link1}) \cup {SetIndexEntry}
  PROVE  Holds(j)'
<1>1. CASE j.todo \in Plain \cup {AppendProgram, ShareProgram, WriteLegacyThenSet}
  <2>1. /\ j.todo \notin Moving \cup Adding \cup Holding \cup Deleting
        /\ j.todo \notin {SetIndexEntry, PutEntry, Rename3, Delete1}
    <3>1. CASE j.todo \in Plain
      BY <3>1, Classes DEF Adding, Special
    <3>2. CASE j.todo \in {AppendProgram, ShareProgram, WriteLegacyThenSet}
      <4>1. AppendProgram \notin {Rename3, Delete1} /\ ShareProgram \notin {Rename3, Delete1}
            /\ WriteLegacyThenSet \notin {Rename3, Delete1}
        BY StageMarks DEF Marks
      <4>2. j.todo \in Special
        BY <3>2 DEF Special
      <4>3. j.todo \notin Moving \cup Adding \cup Holding \cup Deleting
        BY <4>2, Classes
      <4> QED
        BY <3>2, <4>1, <4>3 DEF Adding
    <3> QED
      BY <1>1, <3>1, <3>2
  <2>2. j.todo \notin Reading
    <3>1. j.todo \in Plain \cup (Special \ {Rename3})
      BY <1>1, <2>1 DEF Special
    <3> QED
      BY <3>1, Classes
  <2> QED
    BY <2>1, <2>2 DEF Holds
<1>2. CASE ~InProject(j.s)' /\ j.todo \in (Moving \ {Link1}) \cup {SetIndexEntry}
  <2>1. j.todo \notin Reading
    <3>1. SetIndexEntry \in Adding /\ SetIndexEntry # PutEntry
      BY StageMarks DEF Adding, Marks
    <3> QED
      BY <1>2, <3>1, Classes
  <2>2. j.todo \notin Deleting /\ j.todo \notin {Delete1, Rename3}
    <3>1. j.todo \in Moving \cup Adding
      BY <1>2 DEF Adding
    <3> QED
      BY <3>1, Classes DEF Special
  <2> QED
    BY <1>2, <2>1, <2>2 DEF Holds
<1> QED
  BY <1>1, <1>2

(* Instructions that only read. *)
LEMMA Reads ==
  ASSUME Types, NoMessageLost, NEW j, Here(j), NEW i, i = Head(j.todo), NEW n, n = Advanced(j, i),
         ReadStep(i), UNCHANGED <<outsiders, known, calls, reads, faults>>
  PROVE  Effect(j, n)
<1>1. /\ j \in Job /\ j.s \in Sessions /\ j.todo \in Todos /\ j.idx \in Indexes /\ j.meta \in Meta
      /\ JobOk(j) /\ born[j.s] # "no"
  BY DEF Here, JobOk, Job
<1>2. i \in {"load", "loadAny", "readIndex", "resolve"} /\ UNCHANGED <<files, sent, history>>
  BY DEF ReadStep
<1>3. UNCHANGED <<index, meta, legacy, log, legacyLog, migrations, lister, getter, known, calls, reads,
                  sent, faults, born, acked, missed, granted, gone, torn, disturbed>>
  BY <1>2 DEF files, history, outsiders
<1>4. Types'
  BY <1>3 DEF Types
<1> DEFINE t == j.todo
           r == Tail(j.todo)
<1>0. Ends(j, i, n) \/ GoesOn(j, i, n)
  BY <1>1, Progress
<1>5. \/ i = "load" /\ t \in Plain \cup {AppendProgram, ShareProgram}
           /\ r \in {Append1, Rename1, Share1, Unshare1, Patch1}
           /\ (r = Share1 => t = ShareProgram) /\ (r = Append1 => t = AppendProgram)
      \/ i = "loadAny" /\ t = DeleteProgram /\ r = Delete1
      \/ i = "readIndex" /\ t = Rename2 /\ r = Rename3
      \/ i = "readIndex" /\ t = SetIndexEntry /\ r = PutEntry
      \/ i = "readIndex" /\ t = Link0 /\ r = Link1
      \/ i = "resolve" /\ t = Link2 /\ r = MoveProgram
  <2>1. /\ i = "load" => \/ t = RenameProgram /\ r = Rename1
                         \/ t = AppendProgram /\ r = Append1
                         \/ t = ShareProgram /\ r = Share1
                         \/ t = UnshareProgram /\ r = Unshare1
                         \/ t = PatchProgram /\ r = Patch1
        /\ i = "loadAny" => t = DeleteProgram /\ r = Delete1
        /\ i = "readIndex" => \/ t = Rename2 /\ r = Rename3
                              \/ t = SetIndexEntry /\ r = PutEntry
                              \/ t = Link0 /\ r = Link1
        /\ i = "resolve" => t = Link2 /\ r = MoveProgram
    BY <1>1, Stages
  <2>2. CASE i = "load"
    <3>1. Share1 \notin {Rename1, Append1, Unshare1, Patch1} /\ Append1 \notin {Rename1, Unshare1, Patch1}
      BY StageMarks DEF Marks
    <3>2. {RenameProgram, UnshareProgram, PatchProgram} \subseteq Plain
      BY DEF Plain
    <3> HIDE DEF t, r
    <3> QED
      BY <2>1, <2>2, <3>1, <3>2
  <2>3. CASE i # "load"
    <3> HIDE DEF t, r
    <3> QED
      BY <1>2, <2>1, <2>3
  <2> QED
    BY <2>2, <2>3
<1>6. CASE Ends(j, i, n)
  <2>0. n = NoJob /\ n.todo = <<>>
    BY <1>6 DEF Ends
  <2>1. Leaves(j, n)
    BY <1>3, <2>0 DEF Leaves
  <2>2. <<>> # Move1 /\ <<>> \notin Deleting
    BY Stages DEF Todos, Moving
  <2>3. KeepsMessages(j, n)
    BY <1>1, <1>3, <2>0, <2>2 DEF KeepsMessages, NoMessageLost
  <2>4. KeepsTruth(j, n)
    <3> SUFFICES ASSUME ~disturbed PROVE KeepsTruth(j, n)
      BY DEF KeepsTruth
    <3>1. t \notin Adding
      <4>1. r = <<>> \/ i = "load"
        BY <1>6 DEF Ends
      <4>2. <<>> \notin {Delete1, Rename3, PutEntry, Link1, MoveProgram}
        BY Stages DEF Todos, Special, Adding, Moving
      <4> HIDE DEF r, t
      <4>3. i = "load"
        BY <1>5, <4>1, <4>2
      <4>4. t \in Plain \cup {AppendProgram, ShareProgram}
        BY <1>5, <4>3
      <4> QED
        BY <4>4, Classes DEF Special
    <3>2. \A s \in Sessions : InProject(s) => legacy[s] = None /\ Settled(s)
      BY <3>1 DEF Here
    <3> QED
      BY <1>1, <1>3, <2>0, <3>2 DEF KeepsTruth, Settled, Accurate, MetaCounts, InProject
  <2> QED
    BY <1>4, <2>0, <2>1, <2>3, <2>4 DEF Effect
<1>7. CASE GoesOn(j, i, n)
  <2> DEFINE m == n.meta
  <2>3. /\ n # NoJob /\ n \in Job /\ n.s = j.s /\ n.todo = r /\ n.idx = IdxAfter(j, i) /\ n.user = j.user
        /\ MetaAfter(j, i, m) /\ ~(i = "load" /\ j.s \notin DOMAIN index)
    BY <1>7 DEF GoesOn
  <2>4. r \in Todos
    BY <2>3 DEF Job
  <2>5. JobOk(n)'
    BY <1>1, <1>3, <1>7, NextOk

  <2>6. Leaves(j, n)
    BY <1>3, <2>3 DEF Leaves
  <2>7. KeepsMessages(j, n)
    <3>1. /\ \A u \in {Append1, Rename1, Share1, Unshare1, Patch1, Delete1} : u # Move1 /\ u \notin Deleting
          /\ \A u \in {Rename3, PutEntry, Link1, MoveProgram} : u # Move1 /\ u \notin Deleting
      BY StageMarks DEF Marks, Deleting
    <3>2. r # Move1 /\ r \notin Deleting
      <4> HIDE DEF r, t
      <4> QED
        BY <1>5, <3>1
    <3> QED
      BY <1>1, <1>3, <2>3, <3>2 DEF KeepsMessages, NoMessageLost
  <2>8. KeepsTruth(j, n)
    <3> SUFFICES ASSUME ~disturbed PROVE KeepsTruth(j, n)
      BY DEF KeepsTruth
    <3>1. /\ Holds(j)
          /\ \A s \in Sessions : InProject(s) => legacy[s] = None /\ (s # j.s \/ t \notin Adding => Settled(s))
      BY DEF Here
    <3>2. IdxAfter(j, i) = index => Current(n)'
      BY <1>3, <2>3, <3>1 DEF Current, Settled, InProject
    <3>3. /\ \A s \in Sessions \ {j.s} : InProject(s) => s \in DOMAIN index' /\ index'[s] = index[s]
          /\ InProject(j.s)' => legacy'[j.s] = None /\ (t \notin Adding => Settled(j.s)')
      BY <1>1, <1>3, <3>1 DEF Settled, Accurate, MetaCounts, InProject
    <3>4. InProject(j.s)' => InProject(j.s)
      BY <1>3 DEF InProject
    <3>5. (t \notin Adding \/ r \in Adding) /\ Holds(n)'
      <4>1. CASE i = "load"
        <5>1. IdxAfter(j, i) = index /\ m = index[j.s]
          BY <2>3, <4>1 DEF IdxAfter, MetaAfter
        <5>2. t \notin Adding
          <6> HIDE DEF r, t
          <6>1. t \in Plain \cup {AppendProgram, ShareProgram}
            BY <1>5, <4>1
          <6> QED
            BY <6>1, Classes DEF Special
        <5>3. InProject(j.s)' => Accurate(m, j.s)'
          BY <1>1, <1>3, <3>1, <3>4, <5>1, <5>2 DEF Settled, Accurate
        <5>4. r \notin Moving /\ r \notin {SetIndexEntry, PutEntry, Rename3, Delete1} /\ r \notin Deleting
          <6>1. \A u \in {Append1, Rename1, Share1, Unshare1, Patch1} :
                  u \notin Moving /\ u \notin {SetIndexEntry, PutEntry, Rename3, Delete1} /\ u \notin Deleting
            BY StageMarks DEF Marks, Moving, Deleting
          <6> HIDE DEF r, t
          <6> QED
            BY <1>5, <4>1, <6>1
        <5> QED
          BY <2>3, <3>2, <5>1, <5>2, <5>3, <5>4 DEF Holds
      <4>2. CASE i = "loadAny"
        <5>1. t = DeleteProgram /\ r = Delete1
          BY <1>5, <4>2
        <5>2. t \in Plain /\ r \in Special /\ r # Rename3
          BY <5>1, StageMarks DEF Plain, Special, Marks
        <5>3. /\ t \notin Adding
              /\ r \notin Moving \cup Adding \cup Holding \cup Reading
              /\ r \notin {SetIndexEntry, PutEntry}
          BY <5>2, Classes DEF Adding
        <5>4. j.s \in DOMAIN n.idx => Current(n)'
          <6>1. j.s \in DOMAIN index => IdxAfter(j, i) = index
            BY <4>2 DEF IdxAfter
          <6>2. j.s \notin DOMAIN index => n.idx = EmptyIndex
            BY <1>1, <2>3, <4>2, <5>1 DEF IdxAfter, JobOk
          <6> QED
            BY <3>2, <6>1, <6>2, EmptyIndexType
        <5> QED
          BY <2>3, <5>2, <5>3, <5>4 DEF Holds
      <4>3. CASE i = "readIndex" /\ t = Rename2
        <5>1. r = Rename3
          <6>1. Rename2 # SetIndexEntry /\ Rename2 # Link0 /\ SetIndexEntry # Link0
            BY StageMarks DEF Marks
          <6> HIDE DEF r, t
          <6> QED
            BY <1>5, <4>3, <6>1
        <5>2. t \in Plain /\ r \in Special
          BY <4>3, <5>1 DEF Plain, Special
        <5>3. t \notin Adding
          BY <5>2, Classes
        <5>4. r \notin Moving \cup Adding \cup Holding \cup Deleting /\ r \notin {SetIndexEntry, PutEntry, Delete1}
          <6>1. Rename3 # Delete1
            BY StageMarks DEF Marks
          <6> QED
            BY <5>1, <5>2, <6>1, Classes DEF Adding
        <5>5. IdxAfter(j, i) = index
          BY <4>3 DEF IdxAfter
        <5>6. InProject(j.s)' => j.s \in DOMAIN n.idx /\ n.idx[j.s] = index'[j.s]
          BY <1>1, <1>3, <2>3, <3>1, <3>4, <5>3, <5>5 DEF Settled
        <5> QED
          BY <2>3, <3>2, <5>3, <5>4, <5>5, <5>6 DEF Holds
      <4>4. CASE i = "readIndex" /\ t = SetIndexEntry
        <5>1. r = PutEntry
          <6>1. Rename2 # SetIndexEntry /\ Rename2 # Link0 /\ SetIndexEntry # Link0
            BY StageMarks DEF Marks
          <6> HIDE DEF r, t
          <6> QED
            BY <1>5, <4>4, <6>1
        <5>2. t \in Adding /\ r \in Adding
          BY <4>4, <5>1 DEF Adding
        <5>3. r \notin Moving \cup Holding \cup Deleting /\ r \notin {Delete1, Rename3}
          BY <5>2, Classes DEF Special
        <5>4. IdxAfter(j, i) = index /\ m = j.meta
          BY <2>3, <4>4 DEF IdxAfter, MetaAfter
        <5>5. InProject(j.s)' => Accurate(m, j.s)' /\ MetaCounts(j.s)'
          BY <1>3, <3>1, <3>4, <4>4, <5>2, <5>4 DEF Holds, Accurate, MetaCounts
        <5> QED
          BY <2>3, <3>2, <5>2, <5>3, <5>4, <5>5 DEF Holds
      <4>5. CASE i = "readIndex" /\ t = Link0
        <5>1. r = Link1
          <6>1. Rename2 # SetIndexEntry /\ Rename2 # Link0 /\ SetIndexEntry # Link0
            BY StageMarks DEF Marks
          <6> HIDE DEF r, t
          <6> QED
            BY <1>5, <4>5, <6>1
        <5>2. t \in Moving /\ r \in Moving
          BY <4>5, <5>1 DEF Moving
        <5>3. /\ t \notin Adding
              /\ r \notin Adding \cup Holding \cup Deleting /\ r \notin {SetIndexEntry, PutEntry, Delete1, Rename3}
          BY <5>2, Classes DEF Special, Adding
        <5>4. IdxAfter(j, i) = index /\ ~InProject(j.s)'
          BY <3>1, <3>4, <4>5, <5>2 DEF IdxAfter, Holds
        <5> QED
          BY <2>3, <3>2, <5>3, <5>4 DEF Holds
      <4>6. CASE i = "resolve"
        <5>1. t = Link2 /\ r = MoveProgram
          BY <1>5, <4>6
        <5>2. t \in Moving /\ r \in Moving \ {Link1}
          BY <5>1, StageMarks DEF Moving, Marks
        <5>3. t \notin Adding /\ ~InProject(n.s)'
          BY <2>3, <3>1, <3>4, <5>2, Classes DEF Holds
        <5> QED
          BY <2>3, <2>4, <5>2, <5>3, NothingHeld
      <4> QED
        BY <1>2, <1>5, <4>1, <4>2, <4>3, <4>4, <4>5, <4>6
    <3> QED
      BY <1>7, <2>3, <3>3, <3>5 DEF KeepsTruth
  <2> QED
    BY <1>4, <2>5, <2>6, <2>7, <2>8 DEF Effect
<1> QED
  BY <1>0, <1>6, <1>7

(* Index x is index i with m for k, or without k. *)
WithEntry(x, i, k, m) ==
  /\ x \in Indexes /\ DOMAIN x = DOMAIN i \cup {k}
  /\ x[k] = m /\ \A l \in DOMAIN i : l # k => x[l] = i[l]

WithoutEntry(x, i, k) ==
  /\ x \in Indexes /\ DOMAIN x = DOMAIN i \ {k}
  /\ \A l \in DOMAIN i : l # k => x[l] = i[l]

LEMMA HeldIndex ==
  ASSUME NEW j, j.idx \in Indexes, NEW k \in Keys, NEW m \in Meta
  PROVE  WithEntry(Put(j.idx, k, m), j.idx, k, m) /\ WithoutEntry(Drop(j.idx, k), j.idx, k)
<1> DEFINE x == j.idx
<1>1. x \in Indexes
  OBVIOUS
<1> HIDE DEF x
<1>2. /\ Put(x, k, m) \in Indexes /\ DOMAIN Put(x, k, m) = DOMAIN x \cup {k}
      /\ Put(x, k, m)[k] = m /\ \A l \in DOMAIN x : l # k => Put(x, k, m)[l] = x[l]
      /\ Drop(x, k) \in Indexes /\ DOMAIN Drop(x, k) = DOMAIN x \ {k}
      /\ \A l \in DOMAIN x : l # k => Drop(x, k)[l] = x[l]
  BY <1>1, IndexUpdates
<1>3. WithEntry(Put(x, k, m), x, k, m) /\ WithoutEntry(Drop(x, k), x, k)
  BY <1>2 DEF WithEntry, WithoutEntry
<1> QED
  BY <1>3 DEF x

(* An entry in the index that the job holds, for its own session or for none. *)
LEMMA OthersKeep ==
  ASSUME Types, NEW j \in Job, NEW m \in Meta, NEW k \in Keys, k \notin Sessions \ {j.s}
  PROVE  /\ Put(j.idx, k, m) \in Indexes
         /\ Current(j) => \A s \in Sessions \ {j.s} : InProject(s) =>
              s \in DOMAIN Put(j.idx, k, m) /\ Put(j.idx, k, m)[s] = index[s]
<1>1. j.s \in Sessions /\ j.idx \in Indexes
  BY DEF Job
<1> DEFINE x == Put(j.idx, k, m)
<1>2. WithEntry(x, j.idx, k, m)
  BY <1>1, HeldIndex
<1> HIDE DEF x
<1>3. x \in Indexes /\ (Current(j) => \A s \in Sessions \ {j.s} : InProject(s) => s \in DOMAIN x /\ x[s] = index[s])
  BY <1>2 DEF Current, WithEntry
<1> QED
  BY <1>3 DEF x

(* Steps that end the call, or leave it to write what it holds. *)
LEMMA WriteNext ==
  ASSUME NEW n, n # NoJob => n.todo \in {WriteMeta, Link2},
         n # NoJob => IF n.todo = WriteMeta THEN InProject(n.s)' => Accurate(n.meta, n.s)'
                      ELSE ~InProject(n.s)'
  PROVE  n # NoJob => Holds(n)'
<1>1. /\ WriteMeta \in Holding /\ WriteMeta \notin Moving \cup Deleting \cup Reading
      /\ WriteMeta \notin {SetIndexEntry, PutEntry, Delete1, Rename3}
  <2>1. WriteMeta \in Holding /\ WriteMeta \notin {Share1, Unshare1, SetIndexEntry, PutEntry}
    BY StageMarks DEF Marks, Holding
  <2>2. WriteMeta \notin Moving \cup Deleting \cup {Delete1, Rename3}
    BY <2>1, Classes DEF Special
  <2> QED
    BY <2>1, <2>2, Classes
<1>2. Link2 \in Moving \ {Link1} /\ Link2 \in Todos /\ Link2 # WriteMeta
  BY StageMarks DEF Marks, Moving, Todos
<1>3. CASE n # NoJob /\ n.todo = WriteMeta
  BY <1>1, <1>3 DEF Holds
<1>4. CASE n # NoJob /\ n.todo = Link2
  <2>1. ~InProject(n.s)'
    BY <1>2, <1>4
  <2> QED
    BY <1>2, <1>4, <2>1, NothingHeld
<1> QED
  BY <1>3, <1>4

(* What the stages that write the index hold. *)
LEMMA IndexWriters ==
  ASSUME NEW j, Here(j), ~disturbed
  PROVE  /\ j.todo \in {PutEntry, Link1, Rename3, Share1, Unshare1} => Current(j)
         /\ j.todo = Delete5 => (j.s \in DOMAIN j.idx => Current(j)) /\ ~InProject(j.s)
         /\ j.todo = Link1 => ~InProject(j.s)
         /\ j.todo = PutEntry => (InProject(j.s) => Accurate(j.meta, j.s) /\ MetaCounts(j.s))
         /\ j.todo \in {Share1, Unshare1} => (InProject(j.s) => Accurate(j.meta, j.s) /\ Settled(j.s))
         /\ j.todo = Rename3 =>
              (InProject(j.s) => j.s \in DOMAIN j.idx /\ j.idx[j.s] = index[j.s] /\ Settled(j.s))
<1>1. /\ Holds(j) /\ j \in Job /\ j.s \in Sessions
      /\ InProject(j.s) => (j.todo \notin Adding => Settled(j.s))
      /\ j.todo \in Deleting => j.s \in gone
  BY DEF Here, JobOk, Job
<1>2. /\ Delete5 \in Deleting /\ Link1 \in Moving /\ PutEntry \in Adding
      /\ {Share1, Unshare1} \subseteq Holding /\ Rename3 \in Special
  BY DEF Deleting, Moving, Adding, Holding, Special
<1>3. \A u \in {Share1, Unshare1, Rename3} : u \notin Adding
  BY <1>2, Classes
<1> QED
  BY <1>1, <1>2, <1>3 DEF Holds, Reading, InProject

LEMMA IndexSteps ==
  ASSUME Types, NoMessageLost, NEW j, Here(j), NEW i, i = Head(j.todo), NEW n, n = Advanced(j, i),
         IndexStep(j, i), UNCHANGED <<outsiders, known, calls, reads, faults>>
  PROVE  Effect(j, n)
<1>1. /\ j \in Job /\ j.s \in Sessions /\ j.todo \in Todos /\ j.idx \in Indexes /\ j.meta \in Meta
      /\ JobOk(j) /\ j.s \in Keys
  BY DEF Here, JobOk, Job, Keys
<1>2. UNCHANGED <<meta, legacy, log, legacyLog, migrations, lister, getter, known, calls, reads,
                  sent, faults, born, acked, missed, gone, torn, disturbed>>
  BY DEF IndexStep, outsiders
<1> DEFINE t == j.todo
           r == Tail(j.todo)
<1>3. \/ /\ i = "putEntry" /\ index' = Put(j.idx, j.s, j.meta) /\ granted' = granted
         /\ (t = PutEntry /\ r = <<>>) \/ (t = Link1 /\ r = Link2)
      \/ /\ i = "putUndefined" /\ index' = Put(j.idx, "undefined", [j.meta EXCEPT !.title = "user"])
         /\ granted' = granted /\ t = Rename3 /\ r = <<>>
      \/ /\ i = "dropEntry" /\ index' = IF j.s \in DOMAIN j.idx THEN Drop(j.idx, j.s) ELSE index
         /\ granted' = granted /\ t = Delete5 /\ r = <<>>
      \/ /\ i = "share" /\ index' = Put(j.idx, j.s, [j.meta EXCEPT !.shared = Shared(j)])
         /\ granted' = [granted EXCEPT ![j.s] = @ \cup ({j.user} \ {j.meta.owner})]
         /\ t = Share1 /\ r = WriteMeta
      \/ /\ i = "unshare" /\ index' = Put(j.idx, j.s, [j.meta EXCEPT !.shared = j.meta.shared \ {j.user}])
         /\ granted' = [granted EXCEPT ![j.s] = @ \ {j.user}]
         /\ t = Unshare1 /\ r = WriteMeta
  <2>1. /\ i = "putEntry" => (t = PutEntry /\ r = <<>>) \/ (t = Link1 /\ r = Link2)
        /\ i = "putUndefined" => t = Rename3 /\ r = <<>>
        /\ i = "dropEntry" => t = Delete5 /\ r = <<>>
        /\ i = "share" => t = Share1 /\ r = WriteMeta
        /\ i = "unshare" => t = Unshare1 /\ r = WriteMeta
    BY <1>1, Stages
  <2>2. [j.meta EXCEPT !.shared = @ \ {j.user}] = [j.meta EXCEPT !.shared = j.meta.shared \ {j.user}]
    OBVIOUS
  <2> HIDE DEF t, r
  <2> QED
    BY <2>1, <2>2 DEF IndexStep
<1>4. (Ends(j, i, n) \/ GoesOn(j, i, n)) /\ (n = NoJob \/ JobOk(n)')
  <2>1. i = "load" => sent' = sent
    BY <1>2
  <2> QED
    BY <1>1, <1>2, <2>1, Progress, NextOk DEF Ends
<1>5. /\ n # NoJob => n.s = j.s /\ n.todo = r /\ r # <<>> /\ MetaAfter(j, i, n.meta)
      /\ n = NoJob => n.todo = <<>>
  <2>1. <<>> \notin Todos
    BY Stages
  <2> QED
    BY <1>4, <2>1 DEF Ends, GoesOn, Job, NoJob
<1>6. r \in {<<>>, WriteMeta, Link2}
  <2> HIDE DEF t, r
  <2> QED
    BY <1>3
<1> HIDE DEF t, r
<1>7. KeepsMessages(j, n)
  <2>1. \A u \in {<<>>, WriteMeta, Link2} : u # Move1 /\ u \notin Deleting
    <3>1. <<>> # Move1 /\ <<>> \notin Deleting
      BY Stages DEF Todos, Moving
    <3>2. \A u \in {WriteMeta, Link2} : u # Move1 /\ u \notin Deleting
      BY StageMarks DEF Marks, Deleting
    <3> QED
      BY <3>1, <3>2
  <2>2. n.todo \in {<<>>, WriteMeta, Link2}
    BY <1>5, <1>6
  <2> QED
    BY <1>1, <1>2, <2>1, <2>2 DEF KeepsMessages, NoMessageLost
<1> DEFINE Done ==
      /\ index' \in Indexes /\ granted' \in [Sessions -> SUBSET Users]
      /\ \A s \in Sessions \ {j.s} : granted'[s] = granted[s]
      /\ ~disturbed =>
           /\ \A s \in Sessions \ {j.s} : InProject(s) => s \in DOMAIN index' /\ index'[s] = index[s]
           /\ InProject(j.s) => Settled(j.s)'
           /\ n # NoJob => IF n.todo = WriteMeta THEN InProject(j.s) => Accurate(n.meta, j.s)'
                           ELSE ~InProject(j.s)
<1>8. Done
  <2>0. granted \in [Sessions -> SUBSET Users] /\ index \in Indexes
    BY DEF Types
  <2>1. CASE i = "putEntry" /\ index' = Put(j.idx, j.s, j.meta) /\ granted' = granted
    <3>1. /\ index' \in Indexes
          /\ Current(j) => \A s \in Sessions \ {j.s} : InProject(s) => s \in DOMAIN index' /\ index'[s] = index[s]
      BY <1>1, <2>1, OthersKeep
    <3>2. j.s \in DOMAIN index' /\ index'[j.s] = j.meta
      <4>1. WithEntry(index', j.idx, j.s, j.meta)
        BY <1>1, <2>1, HeldIndex
      <4> QED
        BY <4>1 DEF WithEntry
    <3>3. (t = PutEntry /\ r = <<>>) \/ (t = Link1 /\ r = Link2)
      BY <1>3, <2>1
    <3>4. ~disturbed => /\ Current(j)
                        /\ t = Link1 => ~InProject(j.s)
                        /\ t = PutEntry => (InProject(j.s) => Accurate(j.meta, j.s) /\ MetaCounts(j.s))
      BY <3>3, IndexWriters DEF t
    <3>5. n # NoJob => n.todo = Link2 /\ t = Link1
      BY <1>5, <3>3
    <3>6. Link2 # WriteMeta
      BY StageMarks DEF Marks
    <3> QED
      BY <1>2, <2>0, <2>1, <3>1, <3>2, <3>3, <3>4, <3>5, <3>6 DEF Settled, Accurate, MetaCounts
  <2>2. CASE /\ i = "putUndefined" /\ granted' = granted /\ t = Rename3 /\ r = <<>>
             /\ index' = Put(j.idx, "undefined", [j.meta EXCEPT !.title = "user"])
    <3> DEFINE m == [j.meta EXCEPT !.title = "user"]
               k == "undefined"
    <3>0. m \in Meta
      BY <1>1, MetaUpdates
    <3>2. k \in Keys /\ k \notin Sessions
      BY SessionStoreAssumption DEF SessionStoreAssumption, Keys
    <3>6. index' = Put(j.idx, k, m)
      BY <2>2
    <3> HIDE DEF k, m
    <3>1. /\ index' \in Indexes
          /\ Current(j) => \A s \in Sessions \ {j.s} : InProject(s) => s \in DOMAIN index' /\ index'[s] = index[s]
      BY <1>1, <3>0, <3>2, <3>6, OthersKeep
    <3>3. j.s \in DOMAIN j.idx => j.s \in DOMAIN index' /\ index'[j.s] = j.idx[j.s]
      <4>1. WithEntry(index', j.idx, k, m)
        BY <1>1, <3>0, <3>2, <3>6, HeldIndex
      <4>2. j.s # k
        BY <1>1, <3>2
      <4> QED
        BY <4>1, <4>2 DEF WithEntry
    <3>4. ~disturbed => /\ Current(j)
                        /\ InProject(j.s) => j.s \in DOMAIN j.idx /\ j.idx[j.s] = index[j.s] /\ Settled(j.s)
      BY <2>2, IndexWriters DEF t
    <3>5. n = NoJob
      BY <1>5, <2>2
    <3> QED
      BY <1>2, <2>0, <2>2, <3>1, <3>3, <3>4, <3>5 DEF Settled, Accurate, MetaCounts
  <2>3. CASE /\ i = "dropEntry" /\ granted' = granted /\ t = Delete5 /\ r = <<>>
             /\ index' = IF j.s \in DOMAIN j.idx THEN Drop(j.idx, j.s) ELSE index
    <3>1. ~disturbed => (j.s \in DOMAIN j.idx => Current(j)) /\ ~InProject(j.s)
      BY <2>3, IndexWriters DEF t
    <3>2. j.s \in DOMAIN j.idx => WithoutEntry(index', j.idx, j.s)
      BY <1>1, <2>3, HeldIndex
    <3>3. n = NoJob
      BY <1>5, <2>3
    <3>4. ~disturbed => \A s \in Sessions \ {j.s} : InProject(s) => s \in DOMAIN index
      <4>1. ~disturbed => \A s \in Sessions \ {j.s} : InProject(s) => Settled(s)
        BY DEF Here
      <4> QED
        BY <4>1 DEF Settled
    <3>5. index' \in Indexes
      BY <2>0, <2>3, <3>2 DEF WithoutEntry
    <3>6. ~disturbed => \A s \in Sessions \ {j.s} : InProject(s) => s \in DOMAIN index' /\ index'[s] = index[s]
      BY <2>3, <3>1, <3>2, <3>4 DEF Current, WithoutEntry
    <3> QED
      BY <2>0, <2>3, <3>1, <3>3, <3>5, <3>6
  <2>4. CASE /\ i = "share" /\ index' = Put(j.idx, j.s, [j.meta EXCEPT !.shared = Shared(j)])
             /\ granted' = [granted EXCEPT ![j.s] = @ \cup ({j.user} \ {j.meta.owner})]
             /\ t = Share1 /\ r = WriteMeta
    <3> DEFINE m == [j.meta EXCEPT !.shared = Shared(j)]
    <3>0. j.meta.shared \in SUBSET Users /\ Shared(j) \in SUBSET Users /\ j.user \in Users
      BY <1>1, <2>4 DEF Shared, Meta, JobOk, t
    <3>1. m \in Meta /\ m.shared = Shared(j) /\ m.count = j.meta.count /\ m.inProject = j.meta.inProject
      BY <1>1, <3>0, MetaShares
    <3>2. n # NoJob => n.todo = WriteMeta /\ n.meta = m
      BY <1>5, <2>4 DEF MetaAfter
    <3>3. index' = Put(j.idx, j.s, m)
      BY <2>4
    <3> HIDE DEF m
    <3>4. /\ index' \in Indexes
          /\ Current(j) => \A s \in Sessions \ {j.s} : InProject(s) => s \in DOMAIN index' /\ index'[s] = index[s]
      BY <1>1, <3>1, <3>3, OthersKeep
    <3>5. j.s \in DOMAIN index' /\ index'[j.s] = m
      <4>1. WithEntry(index', j.idx, j.s, m)
        BY <1>1, <3>1, <3>3, HeldIndex
      <4> QED
        BY <4>1 DEF WithEntry
    <3>6. ~disturbed => /\ Current(j)
                        /\ InProject(j.s) => Accurate(j.meta, j.s) /\ Settled(j.s)
      BY <2>4, IndexWriters DEF t
    <3>7. /\ granted' \in [Sessions -> SUBSET Users]
          /\ \A s \in Sessions \ {j.s} : granted'[s] = granted[s]
          /\ granted'[j.s] = granted[j.s] \cup ({j.user} \ {j.meta.owner})
      BY <1>1, <2>0, <2>4, <3>0
    <3>8. j.meta.shared = granted[j.s] => Shared(j) = granted'[j.s]
      BY <3>7 DEF Shared
    <3>9. Accurate(j.meta, j.s) => Accurate(m, j.s)'
      BY <1>2, <3>1, <3>8 DEF Accurate
    <3> QED
      BY <1>2, <3>2, <3>4, <3>5, <3>6, <3>7, <3>9 DEF Settled, MetaCounts
  <2>5. CASE /\ i = "unshare"
             /\ index' = Put(j.idx, j.s, [j.meta EXCEPT !.shared = j.meta.shared \ {j.user}])
             /\ granted' = [granted EXCEPT ![j.s] = @ \ {j.user}]
             /\ t = Unshare1 /\ r = WriteMeta
    <3> DEFINE m == [j.meta EXCEPT !.shared = j.meta.shared \ {j.user}]
    <3>0. j.meta.shared \in SUBSET Users
      BY <1>1 DEF Meta
    <3>1. /\ m \in Meta /\ m.shared = j.meta.shared \ {j.user} /\ m.count = j.meta.count
          /\ m.inProject = j.meta.inProject
      BY <1>1, <3>0, MetaShares
    <3>2. n # NoJob => n.todo = WriteMeta /\ n.meta = m
      BY <1>5, <2>5 DEF MetaAfter
    <3>3. index' = Put(j.idx, j.s, m)
      BY <2>5
    <3> HIDE DEF m
    <3>4. /\ index' \in Indexes
          /\ Current(j) => \A s \in Sessions \ {j.s} : InProject(s) => s \in DOMAIN index' /\ index'[s] = index[s]
      BY <1>1, <3>1, <3>3, OthersKeep
    <3>5. j.s \in DOMAIN index' /\ index'[j.s] = m
      <4>1. WithEntry(index', j.idx, j.s, m)
        BY <1>1, <3>1, <3>3, HeldIndex
      <4> QED
        BY <4>1 DEF WithEntry
    <3>6. ~disturbed => /\ Current(j)
                        /\ InProject(j.s) => Accurate(j.meta, j.s) /\ Settled(j.s)
      BY <2>5, IndexWriters DEF t
    <3>7. /\ granted' \in [Sessions -> SUBSET Users]
          /\ \A s \in Sessions \ {j.s} : granted'[s] = granted[s]
          /\ granted'[j.s] = granted[j.s] \ {j.user}
      BY <1>1, <2>0, <2>5
    <3>9. Accurate(j.meta, j.s) => Accurate(m, j.s)'
      BY <1>2, <3>1, <3>7 DEF Accurate
    <3> QED
      BY <1>2, <3>2, <3>4, <3>5, <3>6, <3>7, <3>9 DEF Settled, MetaCounts
  <2> QED
    BY <1>3, <2>1, <2>2, <2>3, <2>4, <2>5
<1> HIDE DEF Done
<1>9. Types'
  BY <1>2, <1>8 DEF Types, Done
<1>10. Leaves(j, n)
  BY <1>2, <1>5, <1>8 DEF Leaves, Done
<1>11. KeepsTruth(j, n)
  <2> SUFFICES ASSUME ~disturbed PROVE KeepsTruth(j, n)
    BY DEF KeepsTruth
  <2>1. InProject(j.s)' <=> InProject(j.s)
    BY <1>2 DEF InProject
  <2>2. InProject(j.s) => legacy[j.s] = None
    BY <1>1 DEF Here
  <2>3. n # NoJob => n.todo \in {WriteMeta, Link2} /\ n.s = j.s
    BY <1>5, <1>6
  <2>4. n # NoJob => IF n.todo = WriteMeta THEN InProject(n.s)' => Accurate(n.meta, n.s)'
                     ELSE ~InProject(n.s)'
    BY <1>8, <2>1, <2>3 DEF Done
  <2>5. n # NoJob => Holds(n)'
    BY <2>3, <2>4, WriteNext
  <2> QED
    BY <1>2, <1>8, <2>1, <2>2, <2>5 DEF KeepsTruth, Done
<1> QED
  BY <1>4, <1>7, <1>9, <1>10, <1>11 DEF Effect

(* What a job holds that will put an entry, or removes files. *)
LEMMA SetNext ==
  ASSUME NEW n, n.todo \in {SetIndexEntry, WriteMetaThenSet},
         InProject(n.s)' => Accurate(n.meta, n.s)' /\ (n.todo = SetIndexEntry => MetaCounts(n.s)')
  PROVE  Holds(n)'
<1>1. {SetIndexEntry, WriteMetaThenSet} \subseteq Adding /\ PutEntry \notin {SetIndexEntry, WriteMetaThenSet}
  BY StageMarks DEF Marks, Adding
<1>2. n.todo \in Adding /\ n.todo # PutEntry
  BY <1>1
<1>3. n.todo \notin Moving \cup Deleting \cup Reading \cup {Delete1, Rename3}
  BY <1>2, Classes DEF Special
<1>4. WriteMetaThenSet # SetIndexEntry
  BY StageMarks DEF Marks
<1> QED
  BY <1>2, <1>3, <1>4 DEF Holds

LEMMA DeleteNext ==
  ASSUME NEW n, n.todo \in Deleting, n.s \in DOMAIN n.idx => Current(n)'
  PROVE  Holds(n)'
<1>1. n.todo \notin Moving \cup Adding \cup Holding \cup Reading \cup {Rename3}
  BY Classes DEF Special
<1>2. n.todo \notin {SetIndexEntry, PutEntry}
  BY <1>1 DEF Adding
<1> QED
  BY <1>1, <1>2 DEF Holds

(* What the stages that write a meta file hold. *)
LEMMA MetaWriters ==
  ASSUME NEW j, Here(j), ~disturbed
  PROVE  /\ j.todo \in {Delete1} \cup Deleting => (j.s \in DOMAIN j.idx => Current(j))
         /\ j.todo \in {Move2, Move3} => ~InProject(j.s)
         /\ j.todo = WriteMetaThenSet => (InProject(j.s) => Accurate(j.meta, j.s))
         /\ j.todo \in {WriteMeta, Rename1} => (InProject(j.s) => Accurate(j.meta, j.s) /\ Settled(j.s))
         /\ j.todo = WriteLegacyThenSet => ~InProject(j.s)
         /\ j.todo \in Deleting => ~InProject(j.s)
<1>1. /\ Holds(j) /\ j \in Job /\ j.s \in Sessions
      /\ InProject(j.s) => (j.todo \notin Adding => Settled(j.s))
      /\ j.todo \in Deleting => j.s \in gone
      /\ j.todo = WriteLegacyThenSet => born[j.s] = "general"
  BY DEF Here, JobOk, Job
<1>2. /\ {Move2, Move3} \subseteq Moving /\ WriteMetaThenSet \in Adding
      /\ {WriteMeta, Rename1} \subseteq Holding
  BY DEF Moving, Adding, Holding
<1>3. \A u \in {WriteMeta, Rename1} : u \notin Adding
  BY <1>2, Classes
<1>4. /\ j.todo \in {Delete1} \cup Deleting => (j.s \in DOMAIN j.idx => Current(j))
      /\ j.todo \in Moving => ~InProject(j.s)
      /\ j.todo \in Adding \cup Holding => (InProject(j.s) => Accurate(j.meta, j.s))
  BY <1>1 DEF Holds
<1>5. j.todo \in Deleting => ~InProject(j.s)
  BY <1>1 DEF InProject
<1>6. j.todo = WriteLegacyThenSet => ~InProject(j.s)
  BY <1>1 DEF InProject
<1> QED
  BY <1>1, <1>2, <1>3, <1>4, <1>5, <1>6

LEMMA MetaSteps ==
  ASSUME Types, NoMessageLost, NEW j, Here(j), NEW i, i = Head(j.todo), NEW n, n = Advanced(j, i),
         MetaStep(j, i), UNCHANGED <<outsiders, known, calls, reads, faults>>
  PROVE  Effect(j, n)
<1>1. /\ j \in Job /\ j.s \in Sessions /\ j.todo \in Todos /\ j.meta \in Meta /\ JobOk(j)
  BY DEF Here, JobOk, Job
<1>2. UNCHANGED <<index, log, legacyLog, migrations, lister, getter, known, calls, reads,
                  sent, faults, born, acked, missed, granted, torn, disturbed>>
  BY DEF MetaStep, outsiders
<1> DEFINE t == j.todo
           r == Tail(j.todo)
           written == IF j.meta.inProject THEN [meta EXCEPT ![j.s] = j.meta] ELSE meta
<1>3. \/ /\ i = "writeMeta" /\ meta' = written /\ legacy' = legacy /\ gone' = gone
         /\ \/ t = WriteMetaThenSet /\ r = SetIndexEntry
            \/ t = WriteMeta /\ r = <<>>
            \/ t = Move2 /\ r = Move3
      \/ /\ i = "writeLegacy" /\ legacy' = [legacy EXCEPT ![j.s] = j.meta] /\ meta' = meta /\ gone' = gone
         /\ t = WriteLegacyThenSet /\ r = SetIndexEntry
      \/ /\ i = "writeRenamed" /\ gone' = gone /\ t = Rename1 /\ r = Rename2
         /\ \/ /\ j.meta.inProject /\ legacy' = legacy
               /\ meta' = [meta EXCEPT ![j.s] = Unowned([j.meta EXCEPT !.title = "user"])]
            \/ /\ ~j.meta.inProject /\ meta' = meta
               /\ legacy' = [legacy EXCEPT ![j.s] = [j.meta EXCEPT !.title = "user"]]
      \/ /\ i = "unlinkMeta" /\ legacy' = legacy /\ gone' = gone \cup {j.s}
         /\ meta' = IF j.meta.inProject THEN [meta EXCEPT ![j.s] = None] ELSE meta
         /\ t = Delete1 /\ r = Delete2
      \/ /\ i = "unlinkLegacy" /\ legacy' = [legacy EXCEPT ![j.s] = None] /\ meta' = meta /\ gone' = gone
         /\ (t = Delete3 /\ r = Delete4) \/ (t = Move3 /\ r = SetIndexEntry)
  <2>1. /\ i = "writeMeta" => \/ t = WriteMetaThenSet /\ r = SetIndexEntry
                              \/ t = WriteMeta /\ r = <<>>
                              \/ t = Move2 /\ r = Move3
        /\ i = "writeLegacy" => t = WriteLegacyThenSet /\ r = SetIndexEntry
        /\ i = "writeRenamed" => t = Rename1 /\ r = Rename2
        /\ i = "unlinkMeta" => t = Delete1 /\ r = Delete2
        /\ i = "unlinkLegacy" => (t = Delete3 /\ r = Delete4) \/ (t = Move3 /\ r = SetIndexEntry)
    BY <1>1, Stages
  <2> HIDE DEF t, r
  <2> QED
    BY <2>1 DEF MetaStep
<1>4. (Ends(j, i, n) \/ GoesOn(j, i, n)) /\ (n = NoJob \/ JobOk(n)')
  <2>1. i = "load" => sent' = sent
    BY <1>2
  <2> QED
    BY <1>1, <1>2, <2>1, Progress, NextOk DEF Ends
<1>5. /\ n # NoJob => n.s = j.s /\ n.todo = r /\ r # <<>> /\ r \in Todos /\ n.meta = j.meta /\ n.idx = j.idx
      /\ n = NoJob => n.todo = <<>> /\ r = <<>>
  <2>1. <<>> \notin Todos
    BY Stages
  <2>2. i \notin {"load", "loadAny", "append", "share", "unshare", "resolve", "readIndex"}
    <3> HIDE DEF t, r
    <3> QED
      BY <1>3
  <2> QED
    BY <1>4, <2>1, <2>2 DEF Ends, GoesOn, Job, NoJob, MetaAfter, IdxAfter
<1>6. \/ i = "writeMeta" \/ i = "writeLegacy" \/ i = "writeRenamed" \/ i = "unlinkMeta" \/ i = "unlinkLegacy"
  BY <1>3
<1> HIDE DEF t, r, written
<1> DEFINE Done ==
      /\ meta' \in [Sessions -> Meta \cup {None}] /\ legacy' \in [Sessions -> Meta \cup {None}]
      /\ gone \subseteq gone' /\ gone' \subseteq gone \cup {j.s}
      /\ \A s \in Sessions \ {j.s} : meta'[s] = meta[s] /\ legacy'[s] = legacy[s]
      /\ r # Move1 /\ (r \in Deleting => j.s \in gone')
      /\ ~disturbed =>
           /\ InProject(j.s)' => legacy'[j.s] = None /\ (Settled(j.s)' \/ (n # NoJob /\ r \in Adding))
           /\ n # NoJob => Holds(n)'
<1>7. Done
  <2>0. /\ meta \in [Sessions -> Meta \cup {None}] /\ legacy \in [Sessions -> Meta \cup {None}]
        /\ ~disturbed => (InProject(j.s) => legacy[j.s] = None)
        /\ InProject(j.s)' => InProject(j.s)
    <3>1. gone \subseteq gone'
      BY <1>3
    <3> QED
      BY <1>1, <1>2, <3>1 DEF Types, Here, InProject
  <2>1. CASE /\ i = "writeMeta" /\ meta' = written /\ legacy' = legacy /\ gone' = gone
             /\ \/ t = WriteMetaThenSet /\ r = SetIndexEntry
                \/ t = WriteMeta /\ r = <<>>
                \/ t = Move2 /\ r = Move3
    <3>1. /\ meta' \in [Sessions -> Meta \cup {None}]
          /\ \A s \in Sessions \ {j.s} : meta'[s] = meta[s]
          /\ j.meta.inProject => meta'[j.s] = j.meta
      BY <1>1, <2>0, <2>1 DEF written
    <3>2. /\ SetIndexEntry \in Adding /\ SetIndexEntry # Move1 /\ SetIndexEntry \notin Deleting
          /\ Move3 \in Moving \ {Link1} /\ Move3 # Move1 /\ Move3 \notin Deleting
          /\ <<>> # Move1 /\ <<>> \notin Deleting
      <4>1. /\ SetIndexEntry \in Adding /\ SetIndexEntry # Move1
            /\ Move3 \in Moving \ {Link1} /\ Move3 # Move1
        BY StageMarks DEF Marks, Adding, Moving
      <4>2. <<>> # Move1 /\ <<>> \notin Deleting
        BY Stages DEF Todos, Moving
      <4> QED
        BY <4>1, <4>2, Classes
    <3>3. CASE t = WriteMetaThenSet /\ r = SetIndexEntry
      <4>1. ~disturbed => (InProject(j.s) => Accurate(j.meta, j.s))
        BY <3>3, MetaWriters DEF t
      <4>2. Accurate(j.meta, j.s) => Accurate(j.meta, j.s)' /\ MetaCounts(j.s)'
        BY <1>2, <3>1 DEF Accurate, MetaCounts
      <4>3. ~disturbed /\ n # NoJob => Holds(n)'
        <5>1. n # NoJob => n.todo = SetIndexEntry /\ n.s = j.s /\ n.meta = j.meta
          BY <1>5, <3>3
        <5> QED
          BY <2>0, <4>1, <4>2, <5>1, SetNext
      <4>4. n # NoJob
        BY <1>5, <3>2, <3>3, Stages DEF Todos
      <4> QED
        BY <2>0, <2>1, <3>1, <3>2, <3>3, <4>3, <4>4
    <3>4. CASE t = WriteMeta /\ r = <<>>
      <4>1. ~disturbed => (InProject(j.s) => Accurate(j.meta, j.s) /\ Settled(j.s))
        BY <3>4, MetaWriters DEF t
      <4>2. Accurate(j.meta, j.s) /\ Settled(j.s) => Settled(j.s)'
        BY <1>2, <3>1 DEF Accurate, MetaCounts, Settled
      <4>3. n = NoJob
        BY <1>5, <3>4
      <4> QED
        BY <2>0, <2>1, <3>1, <3>2, <3>4, <4>1, <4>2, <4>3
    <3>5. CASE t = Move2 /\ r = Move3
      <4>1. ~disturbed => ~InProject(j.s)
        BY <3>5, MetaWriters DEF t
      <4>2. ~disturbed /\ n # NoJob => Holds(n)'
        <5>1. n # NoJob => n.todo \in Todos /\ n.todo \in Moving \ {Link1} /\ n.s = j.s
          BY <1>5, <3>2, <3>5
        <5>2. ~disturbed => ~InProject(j.s)'
          BY <2>0, <4>1
        <5> QED
          BY <5>1, <5>2, NothingHeld
      <4> QED
        BY <2>0, <2>1, <3>1, <3>2, <3>5, <4>1, <4>2
    <3> QED
      BY <2>1, <3>3, <3>4, <3>5
  <2>2. CASE /\ i = "writeLegacy" /\ legacy' = [legacy EXCEPT ![j.s] = j.meta] /\ meta' = meta /\ gone' = gone
             /\ t = WriteLegacyThenSet /\ r = SetIndexEntry
    <3>1. /\ SetIndexEntry \in Adding /\ SetIndexEntry # Move1 /\ SetIndexEntry \notin Deleting
      <4>1. SetIndexEntry \in Adding /\ SetIndexEntry # Move1
        BY StageMarks DEF Marks, Adding
      <4> QED
        BY <4>1, Classes
    <3>2. ~disturbed => ~InProject(j.s)
      BY <2>2, MetaWriters DEF t
    <3>3. ~disturbed /\ n # NoJob => Holds(n)'
      <4>1. n # NoJob => n.todo \in Todos /\ n.todo = SetIndexEntry /\ n.s = j.s
        BY <1>5, <2>2
      <4>2. ~disturbed => ~InProject(j.s)'
        BY <2>0, <3>2
      <4> QED
        BY <4>1, <4>2, SetNext
    <3>4. /\ legacy' \in [Sessions -> Meta \cup {None}]
          /\ \A s \in Sessions \ {j.s} : legacy'[s] = legacy[s]
      BY <1>1, <2>0, <2>2
    <3> QED
      BY <2>0, <2>2, <3>1, <3>2, <3>3, <3>4
  <2>3. CASE /\ i = "writeRenamed" /\ gone' = gone /\ t = Rename1 /\ r = Rename2
             /\ \/ /\ j.meta.inProject /\ legacy' = legacy
                   /\ meta' = [meta EXCEPT ![j.s] = Unowned([j.meta EXCEPT !.title = "user"])]
                \/ /\ ~j.meta.inProject /\ meta' = meta
                   /\ legacy' = [legacy EXCEPT ![j.s] = [j.meta EXCEPT !.title = "user"]]
    <3> DEFINE m == [j.meta EXCEPT !.title = "user"]
               w == Unowned(m)
    <3>1. m \in Meta /\ m.count = j.meta.count
      BY <1>1, MetaUpdates
    <3> HIDE DEF m
    <3>2. w \in Meta /\ w.count = j.meta.count
      BY <3>1, MetaUpdates
    <3>3. \/ j.meta.inProject /\ legacy' = legacy /\ meta' = [meta EXCEPT ![j.s] = w]
          \/ ~j.meta.inProject /\ meta' = meta /\ legacy' = [legacy EXCEPT ![j.s] = m]
      BY <2>3 DEF m
    <3> HIDE DEF w
    <3>4. /\ meta' \in [Sessions -> Meta \cup {None}] /\ legacy' \in [Sessions -> Meta \cup {None}]
          /\ \A s \in Sessions \ {j.s} : meta'[s] = meta[s] /\ legacy'[s] = legacy[s]
          /\ j.meta.inProject => legacy' = legacy /\ meta'[j.s].count = j.meta.count
      BY <1>1, <2>0, <3>1, <3>2, <3>3
    <3>5. Rename2 \in Plain /\ Rename2 # Move1 /\ Rename2 \notin Deleting
      <4>1. Rename2 \in Plain /\ Rename2 # Move1
        BY StageMarks DEF Marks, Plain
      <4> QED
        BY <4>1, Classes
    <3>6. ~disturbed => (InProject(j.s) => Accurate(j.meta, j.s) /\ Settled(j.s))
      BY <2>3, MetaWriters DEF t
    <3>7. Accurate(j.meta, j.s) /\ Settled(j.s) => Settled(j.s)' /\ legacy' = legacy
      BY <1>2, <3>4 DEF Accurate, MetaCounts, Settled
    <3>8. n # NoJob => Holds(n)'
      <4>1. n # NoJob => n.todo \in Todos /\ n.todo \in Plain
        BY <1>5, <2>3, <3>5
      <4> QED
        BY <4>1, NothingHeld
    <3> QED
      BY <2>0, <2>3, <3>4, <3>5, <3>6, <3>7, <3>8
  <2>4. CASE /\ i = "unlinkMeta" /\ legacy' = legacy /\ gone' = gone \cup {j.s}
             /\ meta' = IF j.meta.inProject THEN [meta EXCEPT ![j.s] = None] ELSE meta
             /\ t = Delete1 /\ r = Delete2
    <3>1. /\ meta' \in [Sessions -> Meta \cup {None}]
          /\ \A s \in Sessions \ {j.s} : meta'[s] = meta[s]
      BY <1>1, <2>0, <2>4
    <3>2. Delete2 \in Deleting /\ Delete2 # Move1
      BY StageMarks DEF Marks, Deleting
    <3>3. ~disturbed => (j.s \in DOMAIN j.idx => Current(j))
      BY <2>4, MetaWriters DEF t
    <3>4. ~disturbed /\ n # NoJob => Holds(n)'
      <4>1. n # NoJob => n.todo \in Deleting /\ n.s = j.s /\ n.idx = j.idx
        BY <1>5, <2>4, <3>2
      <4>2. n # NoJob /\ Current(j) => Current(n)'
        BY <1>2, <2>4, <4>1 DEF Current, InProject
      <4> QED
        BY <3>3, <4>1, <4>2, DeleteNext
    <3>5. ~InProject(j.s)'
      BY <2>4 DEF InProject
    <3> QED
      BY <2>0, <2>4, <3>1, <3>2, <3>4, <3>5
  <2>5. CASE /\ i = "unlinkLegacy" /\ legacy' = [legacy EXCEPT ![j.s] = None] /\ meta' = meta /\ gone' = gone
             /\ (t = Delete3 /\ r = Delete4) \/ (t = Move3 /\ r = SetIndexEntry)
    <3>1. /\ legacy' \in [Sessions -> Meta \cup {None}]
          /\ \A s \in Sessions \ {j.s} : legacy'[s] = legacy[s]
      BY <1>1, <2>0, <2>5
    <3>2. /\ SetIndexEntry \in Adding /\ SetIndexEntry # Move1 /\ SetIndexEntry \notin Deleting
          /\ Delete3 \in Deleting /\ Delete4 \in Deleting /\ Delete4 # Move1
      <4>1. /\ SetIndexEntry \in Adding /\ SetIndexEntry # Move1
            /\ Delete3 \in Deleting /\ Delete4 \in Deleting /\ Delete4 # Move1
        BY StageMarks DEF Marks, Adding, Deleting
      <4> QED
        BY <4>1, Classes
    <3>3. t \in Deleting => j.s \in gone
      BY DEF Here, t
    <3>4. ~disturbed => ~InProject(j.s) /\ (t = Delete3 => (j.s \in DOMAIN j.idx => Current(j)))
      BY <2>5, <3>2, MetaWriters DEF t
    <3>5. ~disturbed /\ n # NoJob => Holds(n)'
      <4>1. CASE t = Delete3 /\ r = Delete4
        <5>1. n # NoJob => n.todo \in Deleting /\ n.s = j.s /\ n.idx = j.idx
          BY <1>5, <3>2, <4>1
        <5>2. n # NoJob /\ Current(j) => Current(n)'
          BY <1>2, <2>5, <5>1 DEF Current, InProject
        <5> QED
          BY <3>4, <4>1, <5>1, <5>2, DeleteNext
      <4>2. CASE t = Move3 /\ r = SetIndexEntry
        <5>1. n # NoJob => n.todo = SetIndexEntry /\ n.s = j.s
          BY <1>5, <4>2
        <5>2. ~disturbed => ~InProject(j.s)'
          BY <2>0, <3>4
        <5> QED
          BY <5>1, <5>2, SetNext
      <4> QED
        BY <2>5, <4>1, <4>2
    <3> QED
      BY <2>0, <2>5, <3>1, <3>2, <3>3, <3>4, <3>5
  <2> QED
    BY <1>3, <2>1, <2>2, <2>3, <2>4, <2>5
<1> HIDE DEF Done
<1>8. Types'
  BY <1>1, <1>2, <1>7 DEF Types, Done
<1>9. Leaves(j, n)
  BY <1>2, <1>5, <1>7 DEF Leaves, Done
<1>10. KeepsMessages(j, n)
  <2>1. n.todo = r
    BY <1>5
  <2> QED
    BY <1>1, <1>2, <1>7, <2>1 DEF KeepsMessages, NoMessageLost, Done
<1>11. KeepsTruth(j, n)
  <2> SUFFICES ASSUME ~disturbed PROVE KeepsTruth(j, n)
    BY DEF KeepsTruth
  <2>1. \A s \in Sessions \ {j.s} : InProject(s) => s \in DOMAIN index' /\ index'[s] = index[s]
    <3>1. \A s \in Sessions \ {j.s} : InProject(s) => Settled(s)
      BY DEF Here
    <3> QED
      BY <1>2, <3>1 DEF Settled
  <2>2. n # NoJob => n.todo = r
    BY <1>5
  <2> QED
    BY <1>7, <2>1, <2>2 DEF KeepsTruth, Done
<1> QED
  BY <1>4, <1>8, <1>9, <1>10, <1>11 DEF Effect

(* What the stages that change a log hold. *)
LEMMA LogWriters ==
  ASSUME NEW j, Here(j), ~disturbed
  PROVE  /\ j.todo \in Deleting => (j.s \in DOMAIN j.idx => Current(j))
         /\ j.todo \in {MoveProgram, Move1} => ~InProject(j.s)
         /\ j.todo = Append1 => (InProject(j.s) => Accurate(j.meta, j.s))
         /\ j.todo = Patch1 => (InProject(j.s) => Settled(j.s))
<1>1. /\ Holds(j) /\ j \in Job /\ j.s \in Sessions
      /\ InProject(j.s) => (j.todo \notin Adding => Settled(j.s))
  BY DEF Here, JobOk, Job
<1>2. {MoveProgram, Move1} \subseteq Moving /\ Append1 \in Adding /\ Patch1 \in Plain
  BY DEF Moving, Adding, Plain
<1>3. Patch1 \notin Adding
  BY <1>2, Classes
<1>4. /\ j.todo \in Deleting => (j.s \in DOMAIN j.idx => Current(j))
      /\ j.todo \in Moving => ~InProject(j.s)
      /\ j.todo \in Adding => (InProject(j.s) => Accurate(j.meta, j.s))
  BY <1>1 DEF Holds
<1> QED
  BY <1>1, <1>2, <1>3, <1>4

LEMMA LogSteps ==
  ASSUME Types, NoMessageLost, NEW j, Here(j), NEW i, i = Head(j.todo), NEW n, n = Advanced(j, i),
         LogStep(j, i), UNCHANGED <<outsiders, known, calls, reads, faults>>
  PROVE  Effect(j, n)
<1>1. /\ j \in Job /\ j.s \in Sessions /\ j.todo \in Todos /\ j.meta \in Meta /\ JobOk(j)
      /\ log \in [Sessions -> Seq(Messages)] /\ legacyLog \in [Sessions -> Seq(Messages)]
      /\ acked \in [Sessions -> SUBSET Messages] /\ sent \in 0..MaxMessages /\ MaxMessages \in Nat
  BY SessionStoreAssumption DEF Here, JobOk, Job, Types, SessionStoreAssumption
<1>2. UNCHANGED <<index, meta, legacy, migrations, lister, getter, known, calls, reads,
                  faults, born, missed, granted, gone, torn, disturbed>>
  BY DEF LogStep, outsiders
<1>0. i \in {"append", "copyLog", "unlinkLegacyLog", "unlinkLog", "rewrite"}
  BY DEF LogStep
<1> DEFINE t == j.todo
           r == Tail(j.todo)
           s0 == j.s
<1>3. \/ /\ i = "append" /\ t = Append1 /\ r = WriteMetaThenSet
         /\ \/ /\ j.meta.inProject /\ legacyLog' = legacyLog
               /\ log' = [log EXCEPT ![s0] = Append(log[s0], sent + 1)]
            \/ /\ ~j.meta.inProject /\ log' = log
               /\ legacyLog' = [legacyLog EXCEPT ![s0] = Append(legacyLog[s0], sent + 1)]
         /\ sent' = sent + 1 /\ acked' = [acked EXCEPT ![s0] = acked[s0] \cup {sent + 1}]
      \/ /\ i = "copyLog" /\ t = MoveProgram /\ r = Move1
         /\ log' = [log EXCEPT ![s0] = log[s0] \o legacyLog[s0]] /\ legacyLog' = legacyLog
         /\ sent' = sent /\ acked' = acked
      \/ /\ i = "unlinkLegacyLog" /\ ((t = Delete4 /\ r = Delete5) \/ (t = Move1 /\ r = Move2))
         /\ legacyLog' = [legacyLog EXCEPT ![s0] = <<>>] /\ log' = log
         /\ sent' = sent /\ acked' = acked
      \/ /\ i = "unlinkLog" /\ t = Delete2 /\ r = Delete3
         /\ log' = IF j.meta.inProject THEN [log EXCEPT ![s0] = <<>>] ELSE log
         /\ legacyLog' = legacyLog /\ sent' = sent /\ acked' = acked
      \/ /\ i = "rewrite" /\ t = Patch1 /\ r = <<>>
         /\ log' = log /\ legacyLog' = legacyLog /\ sent' = sent /\ acked' = acked
  <2>1. /\ i = "append" => t = Append1 /\ r = WriteMetaThenSet
        /\ i = "copyLog" => t = MoveProgram /\ r = Move1
        /\ i = "unlinkLegacyLog" => (t = Delete4 /\ r = Delete5) \/ (t = Move1 /\ r = Move2)
        /\ i = "unlinkLog" => t = Delete2 /\ r = Delete3
        /\ i = "rewrite" => t = Patch1 /\ r = <<>>
    BY <1>1, Stages
  <2> HIDE DEF t, r
  <2> QED
    BY <2>1 DEF LogStep
<1>4. (Ends(j, i, n) \/ GoesOn(j, i, n)) /\ (n = NoJob \/ JobOk(n)')
  <2>1. i # "load"
    BY <1>0
  <2> QED
    BY <1>1, <1>2, <2>1, Progress, NextOk DEF Ends
<1>5. /\ n # NoJob => n.s = j.s /\ n.todo = r /\ r # <<>> /\ r \in Todos /\ n.idx = j.idx
                      /\ (i = "append" => n.meta = Counted(j.meta))
      /\ n = NoJob => n.todo = <<>> /\ r = <<>>
  <2>1. <<>> \notin Todos
    BY Stages
  <2>2. i \notin {"load", "loadAny", "readIndex"}
    BY <1>0
  <2> QED
    BY <1>4, <2>1, <2>2 DEF Ends, GoesOn, Job, NoJob, MetaAfter, IdxAfter
<1>6. /\ s0 \notin gone \cup torn => acked[s0] \subseteq ToSet(log[s0]) \cup ToSet(legacyLog[s0])
      /\ t = Move1 => ToSet(legacyLog[s0]) \subseteq ToSet(log[s0])
      /\ t \in Deleting => s0 \in gone
      /\ ~disturbed => (InProject(s0) => legacy[s0] = None)
      /\ InProject(s0)' <=> InProject(s0)
      /\ s0 \in Sessions
  BY <1>1, <1>2 DEF NoMessageLost, Here, InProject
<1> HIDE DEF t, r, s0
<1> DEFINE Done ==
      /\ log' \in [Sessions -> Seq(Messages)] /\ legacyLog' \in [Sessions -> Seq(Messages)]
      /\ acked' \in [Sessions -> SUBSET Messages] /\ sent' \in 0..MaxMessages
      /\ \A s \in Sessions \ {s0} : log'[s] = log[s] /\ legacyLog'[s] = legacyLog[s] /\ acked'[s] = acked[s]
      /\ s0 \notin gone \cup torn => acked'[s0] \subseteq ToSet(log'[s0]) \cup ToSet(legacyLog'[s0])
      /\ r = Move1 => ToSet(legacyLog'[s0]) \subseteq ToSet(log'[s0])
      /\ r \in Deleting => s0 \in gone
      /\ ~disturbed =>
           /\ InProject(s0) => Settled(s0)' \/ (n # NoJob /\ r \in Adding)
           /\ n # NoJob => Holds(n)'
<1>7. Done
  <2>1. CASE /\ i = "append" /\ t = Append1 /\ r = WriteMetaThenSet
             /\ \/ /\ j.meta.inProject /\ legacyLog' = legacyLog
                   /\ log' = [log EXCEPT ![s0] = Append(log[s0], sent + 1)]
                \/ /\ ~j.meta.inProject /\ log' = log
                   /\ legacyLog' = [legacyLog EXCEPT ![s0] = Append(legacyLog[s0], sent + 1)]
             /\ sent' = sent + 1 /\ acked' = [acked EXCEPT ![s0] = acked[s0] \cup {sent + 1}]
    <3> DEFINE x == sent + 1
               a == Append(log[s0], x)
               b == Append(legacyLog[s0], x)
    <3>1. sent' \in 0..MaxMessages /\ x \in Messages /\ sent' = x
      <4>1. sent < MaxMessages
        BY <1>1, <2>1 DEF JobOk, t
      <4> QED
        BY <1>1, <2>1, <4>1 DEF Messages
    <3> HIDE DEF x
    <3>2. log[s0] \in Seq(Messages) /\ legacyLog[s0] \in Seq(Messages)
      BY <1>1, <1>6
    <3>3. /\ a \in Seq(Messages) /\ Len(a) = Len(log[s0]) + 1 /\ ToSet(a) = ToSet(log[s0]) \cup {x}
          /\ b \in Seq(Messages) /\ ToSet(b) = ToSet(legacyLog[s0]) \cup {x}
      BY <3>1, <3>2, AppendedLog
    <3>4. /\ acked' = [acked EXCEPT ![s0] = acked[s0] \cup {x}]
          /\ \/ j.meta.inProject /\ legacyLog' = legacyLog /\ log' = [log EXCEPT ![s0] = a]
             \/ ~j.meta.inProject /\ log' = log /\ legacyLog' = [legacyLog EXCEPT ![s0] = b]
      BY <2>1 DEF x
    <3> HIDE DEF a, b
    <3>5. /\ log' \in [Sessions -> Seq(Messages)] /\ legacyLog' \in [Sessions -> Seq(Messages)]
          /\ acked' \in [Sessions -> SUBSET Messages]
          /\ \A s \in Sessions \ {s0} : log'[s] = log[s] /\ legacyLog'[s] = legacyLog[s] /\ acked'[s] = acked[s]
          /\ acked'[s0] = acked[s0] \cup {x}
          /\ \/ legacyLog'[s0] = legacyLog[s0] /\ log'[s0] = a
             \/ log'[s0] = log[s0] /\ legacyLog'[s0] = b
          /\ j.meta.inProject => log'[s0] = a
      BY <1>1, <1>6, <3>1, <3>3, <3>4
    <3>6. s0 \notin gone \cup torn => acked'[s0] \subseteq ToSet(log'[s0]) \cup ToSet(legacyLog'[s0])
      BY <1>6, <3>3, <3>5
    <3>7. WriteMetaThenSet \in Adding /\ WriteMetaThenSet # Move1 /\ WriteMetaThenSet \notin Deleting
      <4>1. WriteMetaThenSet \in Adding /\ WriteMetaThenSet # Move1 /\ WriteMetaThenSet # SetIndexEntry
        BY StageMarks DEF Marks, Adding
      <4> QED
        BY <4>1, Classes
    <3>8. n # NoJob
      <4>1. WriteMetaThenSet # <<>>
        BY LongStages DEF IsStage
      <4> QED
        BY <1>5, <2>1, <4>1
    <3>9. n.todo = WriteMetaThenSet /\ n.s = s0 /\ n.meta = Counted(j.meta)
      BY <1>5, <2>1, <3>8 DEF s0
    <3>10. ~disturbed => (InProject(s0) => Accurate(j.meta, s0))
      BY <2>1, LogWriters DEF t, s0
    <3>11. /\ n.meta.count = j.meta.count + 1 /\ n.meta.shared = j.meta.shared
           /\ n.meta.inProject = j.meta.inProject
      BY <1>1, <3>9, MetaUpdates
    <3>12. Accurate(j.meta, s0) => Accurate(n.meta, s0)'
      <4>1. Len(log[s0]) \in Nat /\ missed[s0] \in Nat /\ missed' = missed
        BY <1>2, <1>6, <3>2, LenProperties DEF Types
      <4>2. ASSUME Accurate(j.meta, s0) PROVE Accurate(n.meta, s0)'
        <5>1. /\ j.meta.inProject /\ j.meta.count = Len(log[s0]) + missed[s0]
              /\ j.meta.shared = granted[s0]
          BY <4>2 DEF Accurate
        <5>2. log'[s0] = a /\ Len(a) = Len(log[s0]) + 1
          BY <3>3, <3>5, <5>1
        <5>3. n.meta.count = Len(log'[s0]) + missed'[s0]
          BY <3>11, <4>1, <5>1, <5>2
        <5> QED
          BY <1>2, <3>11, <5>1, <5>3 DEF Accurate
      <4> QED
        BY <4>2
    <3>13. WriteMetaThenSet # SetIndexEntry
      BY StageMarks DEF Marks
    <3>14. ~disturbed => Holds(n)'
      <4>1. ~disturbed => (InProject(n.s)' => Accurate(n.meta, n.s)')
        BY <1>6, <3>9, <3>10, <3>12
      <4> QED
        BY <3>9, <3>13, <4>1, SetNext
    <3> QED
      BY <2>1, <3>1, <3>5, <3>6, <3>7, <3>8, <3>14
  <2>2. CASE /\ i = "copyLog" /\ t = MoveProgram /\ r = Move1
             /\ log' = [log EXCEPT ![s0] = log[s0] \o legacyLog[s0]] /\ legacyLog' = legacyLog
             /\ sent' = sent /\ acked' = acked
    <3> DEFINE a == log[s0] \o legacyLog[s0]
    <3>1. log[s0] \in Seq(Messages) /\ legacyLog[s0] \in Seq(Messages)
      BY <1>1, <1>6
    <3>2. a \in Seq(Messages) /\ ToSet(a) = ToSet(log[s0]) \cup ToSet(legacyLog[s0])
      BY <3>1, JoinedLog
    <3>3. log' = [log EXCEPT ![s0] = a]
      BY <2>2
    <3> HIDE DEF a
    <3>4. /\ log' \in [Sessions -> Seq(Messages)] /\ log'[s0] = a
          /\ \A s \in Sessions \ {s0} : log'[s] = log[s]
      BY <1>1, <1>6, <3>2, <3>3
    <3>5. Move1 \in Moving \ {Link1} /\ Move1 \notin Deleting
      <4>1. Move1 \in Moving \ {Link1}
        BY StageMarks DEF Marks, Moving
      <4> QED
        BY <4>1, Classes
    <3>6. ~disturbed => ~InProject(s0)
      BY <2>2, LogWriters DEF t, s0
    <3>7. ~disturbed /\ n # NoJob => Holds(n)'
      <4>1. n # NoJob => n.todo \in Todos /\ n.todo \in Moving \ {Link1} /\ n.s = s0
        BY <1>5, <2>2, <3>5 DEF s0
      <4>2. ~disturbed => ~InProject(s0)'
        BY <1>6, <3>6
      <4> QED
        BY <4>1, <4>2, NothingHeld
    <3> QED
      BY <1>1, <1>6, <2>2, <3>2, <3>4, <3>5, <3>6, <3>7
  <2>3. CASE /\ i = "unlinkLegacyLog" /\ ((t = Delete4 /\ r = Delete5) \/ (t = Move1 /\ r = Move2))
             /\ legacyLog' = [legacyLog EXCEPT ![s0] = <<>>] /\ log' = log
             /\ sent' = sent /\ acked' = acked
    <3> DEFINE e == <<>>
    <3>0. e \in Seq(Messages) /\ legacyLog' = [legacyLog EXCEPT ![s0] = e]
      BY <2>3, EmptySeq
    <3> HIDE DEF e
    <3>1. /\ legacyLog' \in [Sessions -> Seq(Messages)]
          /\ \A s \in Sessions \ {s0} : legacyLog'[s] = legacyLog[s]
      BY <1>1, <3>0
    <3>2. CASE t = Delete4 /\ r = Delete5
      <4>1. Delete4 \in Deleting /\ Delete5 \in Deleting /\ Delete5 # Move1
        BY StageMarks DEF Marks, Deleting
      <4>2. s0 \in gone
        BY <1>6, <3>2, <4>1
      <4>3. ~disturbed => (j.s \in DOMAIN j.idx => Current(j))
        BY <3>2, <4>1, LogWriters DEF t
      <4>4. n # NoJob => n.todo \in Deleting /\ n.s = j.s /\ n.idx = j.idx
        BY <1>5, <3>2, <4>1
      <4>5. n # NoJob /\ Current(j) => Current(n)'
        BY <1>2, <4>4 DEF Current, InProject
      <4>6. ~disturbed /\ n # NoJob => Holds(n)'
        BY <4>3, <4>4, <4>5, DeleteNext
      <4> QED
        BY <1>1, <1>6, <2>3, <3>1, <3>2, <4>1, <4>2, <4>6 DEF InProject
    <3>3. CASE t = Move1 /\ r = Move2
      <4>1. Move2 \in Moving \ {Link1} /\ Move2 \notin Deleting /\ Move2 # Move1
        <5>1. Move2 \in Moving \ {Link1} /\ Move2 # Move1
          BY StageMarks DEF Marks, Moving
        <5> QED
          BY <5>1, Classes
      <4>2. ~disturbed => ~InProject(s0)
        BY <3>3, LogWriters DEF t, s0
      <4>3. ~disturbed /\ n # NoJob => Holds(n)'
        <5>1. n # NoJob => n.todo \in Todos /\ n.todo \in Moving \ {Link1} /\ n.s = s0
          BY <1>5, <3>3, <4>1 DEF s0
        <5>2. ~disturbed => ~InProject(s0)'
          BY <1>6, <4>2
        <5> QED
          BY <5>1, <5>2, NothingHeld
      <4> QED
        BY <1>1, <1>6, <2>3, <3>1, <3>3, <4>1, <4>2, <4>3
    <3> QED
      BY <2>3, <3>2, <3>3
  <2>4. CASE /\ i = "unlinkLog" /\ t = Delete2 /\ r = Delete3
             /\ log' = IF j.meta.inProject THEN [log EXCEPT ![s0] = <<>>] ELSE log
             /\ legacyLog' = legacyLog /\ sent' = sent /\ acked' = acked
    <3> DEFINE e == <<>>
    <3>0. e \in Seq(Messages) /\ log' = IF j.meta.inProject THEN [log EXCEPT ![s0] = e] ELSE log
      BY <2>4, EmptySeq
    <3> HIDE DEF e
    <3>1. log' \in [Sessions -> Seq(Messages)] /\ \A s \in Sessions \ {s0} : log'[s] = log[s]
      BY <1>1, <3>0
    <3>2. Delete2 \in Deleting /\ Delete3 \in Deleting /\ Delete3 # Move1
      BY StageMarks DEF Marks, Deleting
    <3>3. s0 \in gone
      BY <1>6, <2>4, <3>2
    <3>4. ~disturbed => (j.s \in DOMAIN j.idx => Current(j))
      BY <2>4, <3>2, LogWriters DEF t
    <3>5. n # NoJob => n.todo \in Deleting /\ n.s = j.s /\ n.idx = j.idx
      BY <1>5, <2>4, <3>2
    <3>6. n # NoJob /\ Current(j) => Current(n)'
      BY <1>2, <3>5 DEF Current, InProject
    <3>7. ~disturbed /\ n # NoJob => Holds(n)'
      BY <3>4, <3>5, <3>6, DeleteNext
    <3> QED
      BY <1>1, <1>6, <2>4, <3>1, <3>2, <3>3, <3>7 DEF InProject
  <2>5. CASE /\ i = "rewrite" /\ t = Patch1 /\ r = <<>>
             /\ log' = log /\ legacyLog' = legacyLog /\ sent' = sent /\ acked' = acked
    <3>1. n = NoJob
      BY <1>5, <2>5
    <3>2. <<>> # Move1 /\ <<>> \notin Deleting
      BY Stages DEF Todos, Moving
    <3>3. ~disturbed => (InProject(s0) => Settled(s0))
      BY <2>5, LogWriters DEF t, s0
    <3>4. Settled(s0) => Settled(s0)'
      BY <1>2, <2>5 DEF Settled, Accurate, MetaCounts
    <3> QED
      BY <1>1, <1>6, <2>5, <3>1, <3>2, <3>3, <3>4
  <2> QED
    BY <1>3, <2>1, <2>2, <2>3, <2>4, <2>5
<1> HIDE DEF Done
<1>8. Types'
  BY <1>2, <1>7 DEF Types, Done
<1>9. Leaves(j, n)
  BY <1>2, <1>5, <1>7 DEF Leaves, Done, s0
<1>10. KeepsMessages(j, n)
  <2>1. n.todo = r
    BY <1>5
  <2> QED
    BY <1>2, <1>7, <2>1 DEF KeepsMessages, Done, s0
<1>11. KeepsTruth(j, n)
  <2> SUFFICES ASSUME ~disturbed PROVE KeepsTruth(j, n)
    BY DEF KeepsTruth
  <2>1. \A s \in Sessions \ {j.s} : InProject(s) => s \in DOMAIN index' /\ index'[s] = index[s]
    <3>1. \A s \in Sessions \ {j.s} : InProject(s) => Settled(s)
      BY DEF Here
    <3> QED
      BY <1>2, <3>1 DEF Settled
  <2>2. n # NoJob => n.todo = r
    BY <1>5
  <2> QED
    BY <1>2, <1>6, <1>7, <2>1, <2>2 DEF KeepsTruth, Done, s0
<1> QED
  BY <1>4, <1>8, <1>9, <1>10, <1>11 DEF Effect

(* The step of a job. *)
LEMMA JobSteps ==
  ASSUME IInv, NEW k \in Slots, Step(k)
  PROVE  IInv'
<1> SUFFICES ASSUME NEW j, j = jobs[k], NEW i, i = Head(j.todo), NEW n, n = Advanced(j, i)
             PROVE  IInv'
  OBVIOUS
<1>1. /\ jobs[k] # NoJob
      /\ IndexStep(j, i) \/ MetaStep(j, i) \/ LogStep(j, i) \/ ReadStep(i)
      /\ jobs' = [jobs EXCEPT ![k] = n]
      /\ UNCHANGED <<outsiders, known, calls, reads, faults>>
  BY DEF Step
<1>2. Types /\ NoMessageLost /\ Here(j)
  BY <1>1, Running DEF IInv
<1>3. Effect(j, n)
  BY <1>1, <1>2, IndexSteps, MetaSteps, LogSteps, Reads
<1> QED
  BY <1>1, <1>3, Together

-----------------------------------------------------------------------------
(* The calls. *)

NewJob(s, program, m, u) == [s |-> s, todo |-> program, idx |-> EmptyIndex, meta |-> m, user |-> u]

LEMMA NewJobFields ==
  ASSUME NEW s, NEW program, NEW m, NEW u
  PROVE  /\ NewJob(s, program, m, u).s = s /\ NewJob(s, program, m, u).todo = program
         /\ NewJob(s, program, m, u).idx = EmptyIndex /\ NewJob(s, program, m, u).meta = m
         /\ NewJob(s, program, m, u).user = u
BY DEF NewJob

LEMMA NewJobType ==
  ASSUME NEW s \in Sessions, NEW program \in Todos, NEW m \in Meta, NEW u \in Users \cup {None}
  PROVE  NewJob(s, program, m, u) \in Job
BY EmptyIndexType DEF NewJob, Job

(* A call that begins finds the chain free, and what it holds is true. *)
LEMMA Begins ==
  ASSUME IInv, NEW s \in Sessions, NEW program, NEW m, NEW u, Begin(s, program, m, u),
         NEW n, n = NewJob(s, program, m, u),
         UNCHANGED <<files, known, lister, getter, reads, sent, faults, acked, missed, granted, gone, torn,
                     disturbed>>,
         calls' \in 0..MaxCalls, migrations' \subseteq migrations,
         JobOk(n)', program # Move1 /\ program \notin Deleting,
         \/ born' = born
         \/ /\ born[s] = "no" /\ \E place \in {"project", "general"} : born' = [born EXCEPT ![s] = place]
            /\ born'[s] = "general" \/ program \in Adding,
         ~disturbed => Holds(n)'
  PROVE  IInv'
<1>1. UNCHANGED <<index, meta, legacy, log, legacyLog, known, lister, getter, reads, sent, faults, acked, missed,
                  granted, gone, torn, disturbed>>
  BY DEF files
<1>2. PICK k \in Slots : /\ DOMAIN jobs' = Slots /\ jobs'[k] = n
                         /\ \A l \in Slots : jobs[l] = NoJob /\ (l # k => jobs'[l] = NoJob)
  <2> DEFINE k == CHOOSE q \in Slots : jobs[q] = NoJob
  <2>1. k \in Slots /\ \A l \in Slots : jobs[l] = NoJob
    BY DEF Begin, MayBegin, ChainFree
  <2>2. jobs' = [jobs EXCEPT ![k] = n]
    BY DEF Begin, NewJob
  <2>3. DOMAIN jobs = Slots
    BY DEF IInv, OneJob
  <2> HIDE DEF k
  <2> QED
    BY <2>1, <2>2, <2>3
<1>3. /\ n.s = s /\ n.todo = program /\ n # NoJob
  <2>1. n.s = s /\ n.todo = program
    BY NewJobFields
  <2>2. n.todo # <<>>
    <3>1. n \in Job
      BY DEF JobOk
    <3> QED
      BY <3>1, Stages DEF Job
  <2> QED
    BY <2>1, <2>2 DEF NoJob
<1>4. /\ born' \in [Sessions -> {"no", "project", "general"}]
      /\ \A x \in Sessions : x # s => born'[x] = born[x]
      /\ \A x \in Sessions : born'[x] = "no" => born[x] = "no"
  <2>1. born \in [Sessions -> {"no", "project", "general"}]
    BY DEF IInv, Types
  <2> QED
    BY <2>1
<1>5. Types'
  <2>1. Types
    BY DEF IInv
  <2>2. migrations' \subseteq [s : Sessions, meta : Meta]
    BY <2>1 DEF Types
  <2> QED
    BY <1>1, <1>4, <2>1, <2>2 DEF Types
<1>6. OneJob'
  <2>1. \A l \in Slots : jobs'[l] = NoJob \/ JobOk(jobs[l])'
    BY <1>2 DEF JobOk
  <2> QED
    BY <1>2, <2>1 DEF OneJob
<1>7. Unborn'
  <2>1. \A g \in migrations' : born'[g.s] # "no"
    <3>1. \A g \in migrations : g.s \in Sessions /\ born[g.s] # "no"
      BY DEF IInv, Unborn, Types
    <3> QED
      BY <1>4, <3>1
  <2> QED
    BY <1>1, <1>4, <2>1 DEF IInv, Unborn
<1>8. NoMessageLost'
  BY <1>1 DEF IInv, NoMessageLost
<1>9. Copied'
  <2>1. <<>> # Move1 /\ <<>> \notin Deleting
    BY Stages DEF Todos, Moving
  <2>2. \A l \in Slots : jobs'[l].todo # Move1 /\ jobs'[l].todo \notin Deleting
    BY <1>2, <1>3, <2>1 DEF NoJob
  <2> QED
    BY <2>2 DEF Copied
<1>10. Undisturbed'
  <2> SUFFICES ASSUME ~disturbed PROVE Truth'
    BY <1>1 DEF Undisturbed
  <2>1. Truth
    BY DEF IInv, Undisturbed
  <2>2. \A x \in Sessions : InProject(x) => legacy[x] = None /\ Settled(x)
    BY <1>2, <2>1 DEF Truth, Busy
  <2>3. ASSUME NEW x \in Sessions, InProject(x)'
        PROVE  legacy'[x] = None /\ (Settled(x)' \/ Busy(x)')
    <3>1. CASE InProject(x)
      <4>1. Settled(x) => Settled(x)'
        BY <1>1 DEF Settled, Accurate, MetaCounts
      <4> QED
        BY <1>1, <2>2, <3>1, <4>1
    <3>2. CASE ~InProject(x)
      <4>1. x = s /\ born[s] = "no" /\ born'[s] = "project" /\ program \in Adding
        <5>1. x = s
          BY <1>1, <1>4, <2>3, <3>2 DEF InProject
        <5>2. born'[s] = "project" /\ born' # born
          BY <1>1, <2>3, <3>2, <5>1 DEF InProject
        <5> QED
          BY <5>1, <5>2
      <4>2. legacy'[x] = None
        BY <1>1, <4>1 DEF IInv, Unborn
      <4>3. Busy(x)'
        BY <1>2, <1>3, <4>1 DEF Busy
      <4> QED
        BY <4>2, <4>3
    <3> QED
      BY <3>1, <3>2
  <2>4. \A g \in migrations' : ~InProject(g.s)'
    <3>1. \A g \in migrations : g.s \in Sessions /\ ~InProject(g.s) /\ born[g.s] # "no"
      BY <2>1 DEF IInv, Unborn, Types, Truth
    <3>2. \A g \in migrations : born'[g.s] = born[g.s]
      BY <1>4, <3>1
    <3> QED
      BY <1>1, <3>1, <3>2 DEF InProject
  <2>5. \A l \in Slots : jobs'[l] # NoJob => Holds(jobs[l])'
    <3> SUFFICES ASSUME NEW l \in Slots, jobs'[l] # NoJob PROVE Holds(jobs[l])'
      OBVIOUS
    <3>1. jobs'[l] = n
      BY <1>2
    <3> QED
      BY <3>1 DEF Holds, Current
  <2> QED
    BY <2>3, <2>4, <2>5 DEF Truth
<1> QED
  BY <1>5, <1>6, <1>7, <1>8, <1>9, <1>10 DEF IInv

(* Calls of a session that exists. *)
LEMMA Calls ==
  ASSUME IInv, NEW s \in Sessions, NEW program, NEW u \in Users \cup {None}, Call(s, program, u),
         \/ program \in {DeleteProgram, RenameProgram, UnshareProgram, PatchProgram}
         \/ program = AppendProgram /\ sent < MaxMessages
         \/ program = ShareProgram /\ u \in Users
  PROVE  IInv'
<1> DEFINE n == NewJob(s, program, Blank, u)
<1>1. /\ calls < MaxCalls /\ calls' = calls + 1 /\ born[s] # "no"
      /\ Begin(s, program, Blank, u)
      /\ UNCHANGED <<files, migrations, lister, getter, known, reads, sent, faults, born, acked, missed, granted,
                     gone, torn, disturbed>>
  BY DEF Call, outsiders, history
<1>2. calls' \in 0..MaxCalls
  BY <1>1, SessionStoreAssumption DEF IInv, Types, SessionStoreAssumption
<1>3. program \in Plain \cup {AppendProgram, ShareProgram, WriteLegacyThenSet} /\ program \in Todos
  BY DEF Plain, Todos, Special
<1>4. /\ program # Move1 /\ program \notin Deleting
      /\ program \notin {Share1, Append1, WriteLegacyThenSet}
      /\ program = ShareProgram => u \in Users
      /\ program = AppendProgram => sent < MaxMessages
  <2>1. \A p \in {DeleteProgram, RenameProgram, UnshareProgram, PatchProgram, AppendProgram, ShareProgram} :
          p # Move1 /\ p \notin Deleting /\ p \notin {Share1, Append1, WriteLegacyThenSet}
    BY StageMarks DEF Marks, Deleting
  <2>2. /\ ShareProgram \notin {DeleteProgram, RenameProgram, UnshareProgram, PatchProgram, AppendProgram}
        /\ AppendProgram \notin {DeleteProgram, RenameProgram, UnshareProgram, PatchProgram}
    BY StageMarks DEF Marks
  <2> QED
    BY <2>1, <2>2
<1>5. n \in Job /\ n.s = s /\ n.todo = program /\ n.idx = EmptyIndex /\ n.user = u
  BY <1>3, BlankType, NewJobType, NewJobFields
<1> HIDE DEF n
<1>6. JobOk(n)'
  BY <1>1, <1>4, <1>5 DEF JobOk
<1>7. Holds(n)'
  BY <1>3, <1>5, NothingHeld
<1>8. n = NewJob(s, program, Blank, u)
  BY DEF n
<1>9. migrations' \subseteq migrations
  BY <1>1
<1> QED
  BY <1>1, <1>2, <1>4, <1>6, <1>7, <1>8, <1>9, Begins

LEMMA Created ==
  ASSUME IInv, NEW s \in Sessions, CreateSession(s)
  PROVE  IInv'
<1>1. PICK linked \in BOOLEAN, owner \in Users \cup {None} :
        LET m == NewMeta(linked, linked /\ known, owner)
        IN  /\ calls < MaxCalls
            /\ calls' = calls + 1
            /\ born[s] = "no"
            /\ Begin(s, CreateProgram(m), m, None)
            /\ born' = [born EXCEPT ![s] = IF m.inProject THEN "project" ELSE "general"]
            /\ UNCHANGED <<files, outsiders, known, reads, sent, faults, acked, missed, granted, gone, torn,
                           disturbed>>
  BY DEF CreateSession
<1>2. PICK p \in BOOLEAN : p = (linked /\ known)
  OBVIOUS
<1> DEFINE m == NewMeta(linked, p, owner)
           program == CreateProgram(m)
           n == NewJob(s, program, m, None)
<1>3. m \in Meta /\ m.inProject = p /\ m.count = 0 /\ m.shared = {}
  BY <1>2, NewMetaType
<1>4. /\ calls < MaxCalls /\ calls' = calls + 1 /\ born[s] = "no"
      /\ Begin(s, program, m, None)
      /\ born' = [born EXCEPT ![s] = IF m.inProject THEN "project" ELSE "general"]
      /\ UNCHANGED <<files, migrations, lister, getter, known, reads, sent, faults, acked, missed, granted, gone,
                     torn, disturbed>>
  BY <1>1, <1>2 DEF outsiders
<1>5. calls' \in 0..MaxCalls
  BY <1>4, SessionStoreAssumption DEF IInv, Types, SessionStoreAssumption
<1>6. program = IF m.inProject THEN WriteMetaThenSet ELSE WriteLegacyThenSet
  BY DEF CreateProgram, WriteMetaThenSet, WriteLegacyThenSet
<1> HIDE DEF m, program
<1>7. /\ {WriteMetaThenSet, WriteLegacyThenSet} \subseteq Todos /\ WriteMetaThenSet \in Adding
      /\ \A q \in {WriteMetaThenSet, WriteLegacyThenSet} :
           q # Move1 /\ q \notin Deleting
           /\ q \notin {ShareProgram, Share1, AppendProgram, Append1, DeleteProgram}
      /\ WriteMetaThenSet # WriteLegacyThenSet /\ WriteMetaThenSet # SetIndexEntry
  <2>1. {WriteMetaThenSet, WriteLegacyThenSet} \subseteq Todos /\ WriteMetaThenSet \in Adding
    BY DEF Todos, Adding, Special
  <2>2. \A q \in {WriteMetaThenSet, WriteLegacyThenSet} :
          q # Move1 /\ q \notin Deleting
          /\ q \notin {ShareProgram, Share1, AppendProgram, Append1, DeleteProgram}
    BY StageMarks DEF Marks, Deleting
  <2>3. WriteMetaThenSet # WriteLegacyThenSet /\ WriteMetaThenSet # SetIndexEntry
    BY StageMarks DEF Marks
  <2> QED
    BY <2>1, <2>2, <2>3
<1>8. program \in Todos /\ program # Move1 /\ program \notin Deleting
  BY <1>6, <1>7
<1>9. n \in Job /\ n.s = s /\ n.todo = program /\ n.meta = m
  BY <1>3, <1>8, NewJobType, NewJobFields
<1> HIDE DEF n
<1>10. /\ born[s] = "no" /\ \E place \in {"project", "general"} : born' = [born EXCEPT ![s] = place]
       /\ born'[s] = IF m.inProject THEN "project" ELSE "general"
  BY <1>4 DEF IInv, Types
<1>11. JobOk(n)'
  <2>1. born'[s] # "no" /\ (program = WriteLegacyThenSet => born'[s] = "general")
    BY <1>6, <1>7, <1>10
  <2> QED
    BY <1>6, <1>7, <1>9, <2>1 DEF JobOk
<1>12. Holds(n)'
  <2>1. CASE m.inProject
    <3>1. log[s] = <<>> /\ granted[s] = {}
      BY <1>10 DEF IInv, Unborn
    <3>2. Accurate(m, s)'
      BY <1>3, <1>4, <2>1, <3>1 DEF Accurate, files
    <3> QED
      BY <1>6, <1>7, <1>9, <2>1, <3>2, SetNext
  <2>2. CASE ~m.inProject
    BY <1>6, <1>7, <1>9, <2>2, NothingHeld
  <2> QED
    BY <2>1, <2>2
<1>13. n = NewJob(s, program, m, None)
  BY DEF n
<1>14. born'[s] = "general" \/ program \in Adding
  BY <1>6, <1>7, <1>10
<1>15. migrations' \subseteq migrations
  BY <1>4
<1> QED
  BY <1>4, <1>5, <1>8, <1>10, <1>11, <1>12, <1>13, <1>14, <1>15, Begins

(* Calls that move a session into its project. *)
LEMMA MovesBegin ==
  ASSUME IInv, NEW s \in Sessions, NEW program \in {MoveProgram, Link0, SetIndexEntry}, NEW m \in Meta,
         Begin(s, program, m, None), born[s] # "no", ~disturbed => ~InProject(s),
         UNCHANGED <<files, known, lister, getter, reads, sent, faults, born, acked, missed, granted, gone, torn,
                     disturbed>>,
         calls' \in 0..MaxCalls, migrations' \subseteq migrations
  PROVE  IInv'
<1> DEFINE n == NewJob(s, program, m, None)
<1>1. /\ program \in (Moving \ {Link1}) \cup {SetIndexEntry} /\ program \in Todos
      /\ program # Move1 /\ program \notin Deleting
      /\ program \notin {ShareProgram, Share1, AppendProgram, Append1, WriteLegacyThenSet, DeleteProgram}
  <2>1. \A p \in {MoveProgram, Link0, SetIndexEntry} :
          p # Move1 /\ p \notin Deleting /\ p # Link1
          /\ p \notin {ShareProgram, Share1, AppendProgram, Append1, WriteLegacyThenSet, DeleteProgram}
    BY StageMarks DEF Marks, Deleting
  <2>2. {MoveProgram, Link0} \subseteq Moving /\ {MoveProgram, Link0, SetIndexEntry} \subseteq Todos
    BY DEF Moving, Todos, Adding
  <2> QED
    BY <2>1, <2>2
<1>2. n \in Job /\ n.s = s /\ n.todo = program
  BY <1>1, NewJobType, NewJobFields
<1> HIDE DEF n
<1>3. JobOk(n)'
  BY <1>1, <1>2 DEF JobOk
<1>4. ~disturbed => Holds(n)'
  <2>1. ~disturbed => ~InProject(s)'
    BY DEF InProject
  <2> QED
    BY <1>1, <1>2, <2>1, NothingHeld
<1>5. n = NewJob(s, program, m, None)
  BY DEF n
<1> QED
  BY <1>1, <1>3, <1>4, <1>5, Begins

LEMMA InProjectUpdate ==
  ASSUME NEW m \in Meta, NEW b \in BOOLEAN
  PROVE  [m EXCEPT !.inProject = b] \in Meta
BY DEF Meta

LEMMA Linked ==
  ASSUME IInv, NEW s \in Sessions, LinkSessionToProject(s)
  PROVE  IInv'
<1> DEFINE m0 == legacy[s]
           b == m0.inProject \/ m0.linked
           m == [m0 EXCEPT !.inProject = b]
<1>1. /\ known /\ legacy[s] # None /\ calls < MaxCalls /\ calls' = calls + 1
      /\ Begin(s, LinkProgram(m0), m, None)
      /\ UNCHANGED <<files, migrations, lister, getter, known, reads, sent, faults, born, acked, missed, granted,
                     gone, torn, disturbed>>
  BY DEF LinkSessionToProject, AtLegacy, outsiders, history
<1>2. m0 \in Meta
  BY <1>1 DEF IInv, Types
<1>3. b \in BOOLEAN
  BY <1>2 DEF Meta
<1> HIDE DEF b
<1>4. m \in Meta
  BY <1>2, <1>3, InProjectUpdate
<1>5. LinkProgram(m0) \in {MoveProgram, Link0, SetIndexEntry}
  BY <1>1, <1>2, LinkStages
<1>6. born[s] # "no" /\ (~disturbed => ~InProject(s))
  BY <1>1 DEF IInv, Unborn, Undisturbed, Truth
<1>7. calls' \in 0..MaxCalls
  BY <1>1, SessionStoreAssumption DEF IInv, Types, SessionStoreAssumption
<1>8. migrations' \subseteq migrations
  BY <1>1
<1> HIDE DEF m, m0
<1> QED
  BY <1>1, <1>4, <1>5, <1>6, <1>7, <1>8, MovesBegin

LEMMA Migrated ==
  ASSUME IInv, MigrateLegacySession
  PROVE  IInv'
<1>1. PICK g \in migrations :
        /\ Begin(g.s, MigrateProgram(g.meta), [g.meta EXCEPT !.inProject = g.meta.linked /\ known], None)
        /\ migrations' = migrations \ {g}
        /\ UNCHANGED <<files, lister, getter, counters, history>>
  BY DEF MigrateLegacySession
<1>2. /\ g.s \in Sessions /\ g.meta \in Meta /\ born[g.s] # "no" /\ (~disturbed => ~InProject(g.s))
      /\ known \in BOOLEAN /\ calls \in 0..MaxCalls
  BY DEF IInv, Types, Unborn, Undisturbed, Truth
<1> DEFINE m0 == g.meta
           s == g.s
           b == m0.linked /\ known
           m == [m0 EXCEPT !.inProject = b]
<1>3. b \in BOOLEAN
  BY <1>2 DEF Meta
<1>4. Begin(s, MigrateProgram(m0), m, None)
  BY <1>1
<1> HIDE DEF b
<1>5. m \in Meta
  BY <1>2, <1>3, InProjectUpdate
<1>6. MigrateProgram(m0) \in {MoveProgram, Link0, SetIndexEntry}
  BY DEF MigrateProgram
<1>7. /\ UNCHANGED <<files, known, lister, getter, reads, sent, faults, born, acked, missed, granted, gone, torn,
                     disturbed>>
      /\ calls' \in 0..MaxCalls /\ migrations' \subseteq migrations
  BY <1>1, <1>2 DEF counters, history
<1>8. s \in Sessions /\ born[s] # "no" /\ (~disturbed => ~InProject(s))
  BY <1>2
<1> HIDE DEF m, m0, s
<1> QED
  BY <1>4, <1>5, <1>6, <1>7, <1>8, MovesBegin

-----------------------------------------------------------------------------
(* Those who do not wait for the chain. *)

(* They leave the jobs and the logs, and the entries that count. *)
LEMMA Outside ==
  ASSUME IInv, UNCHANGED <<jobs, meta, legacy, log, legacyLog, sent, born, acked, missed, granted, gone, torn>>,
         Types',
         \A g \in migrations' : g \in migrations \/ (g.s \in Sessions /\ legacy[g.s] # None),
         ~disturbed' =>
           /\ ~disturbed
           /\ \A s \in Sessions : InProject(s) /\ s \in DOMAIN index =>
                                    s \in DOMAIN index' /\ index'[s] = index[s]
  PROVE  IInv'
<1>1. OneJob'
  <2>1. \A l \in Slots : jobs'[l] = NoJob \/ JobOk(jobs[l])'
    BY DEF IInv, OneJob, JobOk
  <2> QED
    BY <2>1 DEF IInv, OneJob
<1>2. Unborn'
  <2>1. \A g \in migrations' : born[g.s] # "no"
    BY DEF IInv, Unborn
  <2> QED
    BY <2>1 DEF IInv, Unborn
<1>3. NoMessageLost'
  BY DEF IInv, NoMessageLost
<1>4. Copied'
  BY DEF IInv, Copied
<1>5. Undisturbed'
  <2> SUFFICES ASSUME ~disturbed' PROVE Truth'
    BY DEF Undisturbed
  <2>1. Truth /\ ~disturbed
    BY DEF IInv, Undisturbed
  <2>2. \A s \in Sessions : InProject(s)' <=> InProject(s)
    BY DEF InProject
  <2>3. \A s \in Sessions : Busy(s) <=> Busy(s)'
    BY DEF Busy
  <2>4. ASSUME NEW s \in Sessions, InProject(s), Settled(s) PROVE Settled(s)'
    <3>1. s \in DOMAIN index' /\ index'[s] = index[s]
      BY <2>1, <2>4 DEF Settled
    <3> QED
      BY <2>4, <3>1 DEF Settled, Accurate, MetaCounts
  <2>5. \A s \in Sessions : InProject(s)' => legacy'[s] = None /\ (Settled(s)' \/ Busy(s)')
    BY <2>1, <2>2, <2>3, <2>4 DEF Truth
  <2>6. \A g \in migrations' : ~InProject(g.s)'
    BY <2>1 DEF Truth, InProject
  <2>7. ASSUME NEW k \in Slots, jobs'[k] # NoJob PROVE Holds(jobs[k])'
    <3>1. PICK j : j = jobs[k]
      OBVIOUS
    <3>2. jobs' = jobs /\ jobs[k] # NoJob
      BY <2>7
    <3>3. Here(j) /\ j.s \in Sessions
      BY <3>1, <3>2, Running DEF Here, JobOk, Job
    <3>4. \A s \in Sessions : InProject(s) /\ (s # j.s \/ j.todo \notin Adding) =>
                                s \in DOMAIN index /\ index'[s] = index[s]
      BY <2>1, <3>3 DEF Here, Settled
    <3>5. Holds(j)
      BY <2>1, <3>3 DEF Here
    <3>6. Current(j) => Current(j)'
      BY <2>2, <3>4 DEF Current
    <3>7. Rename3 \notin Adding
      BY Classes DEF Special
    <3>8. /\ InProject(j.s)' <=> InProject(j.s)
          /\ Accurate(j.meta, j.s) => Accurate(j.meta, j.s)'
          /\ MetaCounts(j.s) => MetaCounts(j.s)'
      BY <2>2, <3>3 DEF Accurate, MetaCounts
    <3>9. j.todo = Rename3 => (InProject(j.s)' => j.s \in DOMAIN j.idx /\ j.idx[j.s] = index'[j.s])
      BY <3>3, <3>4, <3>5, <3>7, <3>8 DEF Holds
    <3>10. Holds(j)'
      BY <3>5, <3>6, <3>8, <3>9 DEF Holds
    <3>11. jobs'[k] = j
      BY <3>1, <3>2
    <3> QED
      BY <3>10, <3>11 DEF Holds, Current
  <2> QED
    BY <2>5, <2>6, <2>7 DEF Truth
<1> QED
  BY <1>1, <1>2, <1>3, <1>4, <1>5 DEF IInv

(* Readers that change nothing of it. *)
LEMMA Readers ==
  ASSUME IInv,
         \/ \E s \in Sessions : ListMigrate(s) \/ GetRead(s)
         \/ ListRead \/ Discover \/ UNCHANGED vars
  PROVE  IInv'
<1>0. Types /\ {MaxCalls, MaxReads, MaxMessages, MaxFaults} \subseteq Nat
  BY SessionStoreAssumption DEF IInv, SessionStoreAssumption
<1>1. ASSUME NEW s \in Sessions, ListMigrate(s) PROVE IInv'
  <2>1. /\ legacy[s] # None /\ reads' \in 0..MaxReads
        /\ migrations' = migrations \cup {[s |-> s, meta |-> legacy[s]]}
        /\ UNCHANGED <<index, meta, legacy, log, legacyLog, jobs, lister, getter, known, calls, sent, faults,
                       born, acked, missed, granted, gone, torn, disturbed>>
    BY <1>0, <1>1 DEF ListMigrate, files, history, Types
  <2>2. legacy[s] \in Meta
    BY <1>0, <2>1 DEF Types
  <2>3. Types'
    BY <1>0, <2>1, <2>2 DEF Types
  <2> QED
    BY <2>1, <2>3, Outside
<1>2. ASSUME NEW s \in Sessions, GetRead(s) PROVE IInv'
  <2>1. /\ reads' \in 0..MaxReads /\ getter' = [at |-> s, idx |-> index]
        /\ UNCHANGED <<index, meta, legacy, log, legacyLog, jobs, migrations, lister, known, calls, sent,
                       faults, born, acked, missed, granted, gone, torn, disturbed>>
    BY <1>0, <1>2 DEF GetRead, files, history, Types
  <2>2. Types'
    BY <1>0, <2>1 DEF Types
  <2> QED
    BY <2>1, <2>2, Outside
<1>3. ASSUME ListRead PROVE IInv'
  <2>1. /\ reads' \in 0..MaxReads /\ lister' = [at |-> "read", idx |-> index]
        /\ UNCHANGED <<index, meta, legacy, log, legacyLog, jobs, migrations, getter, known, calls, sent,
                       faults, born, acked, missed, granted, gone, torn, disturbed>>
    BY <1>0, <1>3 DEF ListRead, files, history, Types
  <2>2. Types'
    BY <1>0, <2>1 DEF Types
  <2> QED
    BY <2>1, <2>2, Outside
<1>4. ASSUME Discover PROVE IInv'
  <2>1. /\ known' \in BOOLEAN
        /\ UNCHANGED <<index, meta, legacy, log, legacyLog, jobs, migrations, lister, getter, calls, reads,
                       sent, faults, born, acked, missed, granted, gone, torn, disturbed>>
    BY <1>4 DEF Discover, files, history, outsiders
  <2>2. Types'
    BY <1>0, <2>1 DEF Types
  <2> QED
    BY <2>1, <2>2, Outside
<1>5. ASSUME UNCHANGED vars PROVE IInv'
  <2>1. UNCHANGED <<index, meta, legacy, log, legacyLog, jobs, migrations, lister, getter, known, calls, reads,
                    sent, faults, born, acked, missed, granted, gone, torn, disturbed>>
    BY <1>5 DEF vars, files, history, outsiders, counters
  <2>2. Types'
    BY <1>0, <2>1 DEF Types
  <2> QED
    BY <2>1, <2>2, Outside
<1> QED
  BY <1>1, <1>2, <1>3, <1>4, <1>5

(* What a scan finds is a meta. *)
LEMMA OnDiskType ==
  ASSUME Types, NEW s \in Sessions
  PROVE  OnDisk(s) \in Meta \cup {None}
<1>1. /\ meta[s] \in Meta \cup {None} /\ legacy[s] \in Meta \cup {None} /\ known \in BOOLEAN
      /\ Len(log[s]) \in Nat
  <2>1. log[s] \in Seq(Messages)
    BY DEF Types
  <2>2. Len(log[s]) \in Nat
    BY <2>1, LenProperties
  <2> QED
    BY <2>2 DEF Types
<1>2. OfLog(s) \in Meta
  <2> DEFINE c == Len(log[s])
             b1 == [Blank EXCEPT !.inProject = TRUE]
             b2 == [b1 EXCEPT !.title = "auto"]
  <2>1. OfLog(s) = [b2 EXCEPT !.count = c]
    BY DEF OfLog
  <2>2. c \in Nat
    BY <1>1
  <2>3. b1 \in Meta
    BY BlankType DEF Meta
  <2> HIDE DEF b1, c
  <2>4. b2 \in Meta
    BY <2>3 DEF Meta, Titles
  <2> HIDE DEF b2
  <2> QED
    BY <2>1, <2>2, <2>4 DEF Meta
<1>3. /\ meta[s] # None => Unowned(meta[s]) \in Meta
      /\ legacy[s] # None => Unowned(legacy[s]) \in Meta
  BY <1>1, MetaUpdates
<1>4. \/ OnDisk(s) = Unowned(meta[s]) /\ meta[s] # None
      \/ OnDisk(s) = OfLog(s)
      \/ OnDisk(s) = None
      \/ OnDisk(s) = Unowned(legacy[s]) /\ legacy[s] # None
  BY DEF OnDisk
<1> QED
  BY <1>2, <1>3, <1>4

LEMMA AbsorbedType ==
  ASSUME Types, NEW i \in Indexes
  PROVE  /\ Absorbed(i) \in Indexes /\ DOMAIN i \subseteq DOMAIN Absorbed(i)
         /\ \A k \in DOMAIN i : Absorbed(i)[k] = i[k]
<1> DEFINE found == {s \in Sessions : Missing(i, s) /\ OnDisk(s) # None}
           x == Absorbed(i)
<1>1. DOMAIN i \subseteq Keys /\ \A k \in DOMAIN i : i[k] \in Meta
  BY IndexType DEF IsIndex
<1>2. \A s \in found : s \in Keys /\ s \notin DOMAIN i /\ OnDisk(s) \in Meta
  BY OnDiskType DEF Missing, Keys
<1>3. x = [k \in DOMAIN i \cup found |-> IF k \in found THEN OnDisk(k) ELSE i[k]]
  BY DEF Absorbed
<1> HIDE DEF found, x
<1>4. DOMAIN x = DOMAIN i \cup found /\ \A k \in DOMAIN i : x[k] = i[k]
  BY <1>2, <1>3
<1>5. x \in [DOMAIN i \cup found -> Meta]
  BY <1>1, <1>2, <1>3
<1>6. IsIndex(x)
  BY <1>1, <1>2, <1>4, <1>5 DEF IsIndex
<1>7. x \in Indexes
  BY <1>6, IndexType
<1> QED
  BY <1>4, <1>7 DEF x

(* The reconciliation of a listing. *)
LEMMA Lists ==
  ASSUME IInv, ListScan \/ ListWrite
  PROVE  IInv'
<1>0. Types
  BY DEF IInv
<1>1. ASSUME ListScan PROVE IInv'
  <2>1. /\ lister.at = "read"
        /\ lister' = Idle \/ lister' = [at |-> "scanned", idx |-> Absorbed(lister.idx)]
        /\ UNCHANGED <<index, meta, legacy, log, legacyLog, jobs, migrations, getter, known, calls, reads,
                       sent, faults, born, acked, missed, granted, gone, torn, disturbed>>
    BY <1>1 DEF ListScan, files, history, counters
  <2>2. lister.idx \in Indexes
    BY <1>0, <2>1 DEF Types, Idle
  <2>3. Absorbed(lister.idx) \in Indexes
    BY <1>0, <2>2, AbsorbedType
  <2>4. lister' = Idle \/ (lister'.at \in {"read", "scanned"} /\ lister'.idx \in Indexes)
    BY <2>1, <2>3
  <2>5. Types'
    BY <1>0, <2>1, <2>4 DEF Types
  <2> QED
    BY <2>1, <2>5, Outside
<1>2. ASSUME ListWrite PROVE IInv'
  <2>1. /\ lister.at = "scanned" /\ index' = lister.idx /\ lister' = Idle
        /\ disturbed' = (disturbed \/ Outdated(lister.idx))
        /\ UNCHANGED <<meta, legacy, log, legacyLog, jobs, migrations, getter, known, calls, reads,
                       sent, faults, born, acked, missed, granted, gone, torn>>
    BY <1>2 DEF ListWrite, counters
  <2>2. lister.idx \in Indexes
    BY <1>0, <2>1 DEF Types, Idle
  <2>3. Types'
    BY <1>0, <2>1, <2>2 DEF Types
  <2>4. ~disturbed' => ~disturbed /\ \A s \in DOMAIN index : s \in DOMAIN index' /\ index'[s] = index[s]
    BY <2>1 DEF Outdated
  <2> QED
    BY <2>1, <2>3, <2>4, Outside
<1> QED
  BY <1>1, <1>2

(* The clean-up of a stale entry. *)
LEMMA Cleans ==
  ASSUME IInv, NEW s \in Sessions, GetFinish(s)
  PROVE  IInv'
<1>0. Types
  BY DEF IInv
<1> DEFINE stale == legacy[s] = None /\ s \in DOMAIN getter.idx
                    /\ ~(getter.idx[s].inProject /\ meta[s] # None)
           x == Drop(getter.idx, s)
<1>1. /\ getter.at = s /\ getter' = Idle
      /\ migrations' = migrations \/ (legacy[s] # None /\ migrations' = migrations \cup {[s |-> s, meta |-> legacy[s]]})
      /\ index' = IF stale THEN x ELSE index
      /\ disturbed' = (disturbed \/ (stale /\ (s \notin gone \/ Outdated(getter.idx))))
      /\ UNCHANGED <<meta, legacy, log, legacyLog, jobs, lister, known, calls, reads,
                     sent, faults, born, acked, missed, granted, gone, torn>>
  BY DEF GetFinish, counters, AtLegacy
<1>2. getter.idx \in Indexes
  <2>1. s # "idle"
    BY SessionStoreAssumption DEF SessionStoreAssumption
  <2> QED
    BY <1>0, <1>1, <2>1 DEF Types, Idle
<1>3. WithoutEntry(x, getter.idx, s)
  BY <1>2, BlankType, HeldIndex DEF Keys
<1> HIDE DEF x, stale
<1>4. Types'
  <2>1. index' \in Indexes
    BY <1>0, <1>1, <1>3 DEF Types, WithoutEntry
  <2>2. migrations' \subseteq [s : Sessions, meta : Meta]
    <3>1. legacy[s] # None => legacy[s] \in Meta
      BY <1>0 DEF Types
    <3> QED
      BY <1>0, <1>1, <3>1 DEF Types
  <2>3. disturbed' \in BOOLEAN
    BY <1>0, <1>1 DEF Types
  <2> QED
    BY <1>0, <1>1, <2>1, <2>2, <2>3 DEF Types
<1>5. ~disturbed' =>
        /\ ~disturbed
        /\ \A q \in Sessions : InProject(q) /\ q \in DOMAIN index =>
                                 q \in DOMAIN index' /\ index'[q] = index[q]
  <2>1. CASE stale
    <3>1. ~disturbed' => s \in gone /\ \A q \in DOMAIN index : q \in DOMAIN getter.idx /\ getter.idx[q] = index[q]
      BY <1>1, <2>1 DEF Outdated
    <3>2. \A q \in DOMAIN getter.idx : q # s => q \in DOMAIN index' /\ index'[q] = getter.idx[q]
      BY <1>1, <1>3, <2>1 DEF WithoutEntry
    <3> QED
      BY <1>1, <3>1, <3>2 DEF InProject
  <2>2. CASE ~stale
    BY <1>1, <2>2
  <2> QED
    BY <2>1, <2>2
<1>6. \A g \in migrations' : g \in migrations \/ (g.s \in Sessions /\ legacy[g.s] # None)
  BY <1>1
<1> QED
  BY <1>1, <1>4, <1>5, <1>6, Outside

(* An append that fails is counted: the log of the session stays behind by *)
(* one message more.                                                       *)
LEMMA FailedAppends ==
  ASSUME Types, NoMessageLost, NEW j, Here(j), NEW i, i = Head(j.todo), NEW n, n = Advanced(j, i),
         FailAppend(j, i), faults' \in 0..MaxFaults,
         UNCHANGED <<index, meta, legacy, outsiders, known, calls, reads, sent, born, acked, granted>>
  PROVE  /\ Types' /\ JobOk(n)'
         /\ Leaves(j, n) /\ KeepsMessages(j, n) /\ KeepsTruth(j, n)
<1> DEFINE s0 == j.s
<1>1. /\ j \in Job /\ j.s \in Sessions /\ j.todo \in Todos /\ j.meta \in Meta /\ JobOk(j)
      /\ s0 \in Sessions /\ log \in [Sessions -> Seq(Messages)] /\ missed \in [Sessions -> Nat]
  BY DEF Here, JobOk, Job, Types
<1>2. UNCHANGED <<index, meta, legacy, log, legacyLog, migrations, lister, getter, known, calls,
                  reads, sent, born, acked, granted, gone, torn, disturbed>>
  BY DEF FailAppend, outsiders
<1>3. i = "append" /\ missed' = [missed EXCEPT ![s0] = missed[s0] + 1]
  BY DEF FailAppend
<1>4. j.todo = Append1 /\ Tail(j.todo) = WriteMetaThenSet
  BY <1>1, <1>3, Stages
<1>5. WriteMetaThenSet \in Adding /\ WriteMetaThenSet # Move1 /\ WriteMetaThenSet # SetIndexEntry
      /\ WriteMetaThenSet \notin Deleting /\ WriteMetaThenSet # <<>>
  <2>1. WriteMetaThenSet \in Adding /\ WriteMetaThenSet # Move1 /\ WriteMetaThenSet # SetIndexEntry
    BY StageMarks DEF Marks, Adding
  <2>2. WriteMetaThenSet # <<>>
    BY LongStages DEF IsStage
  <2> QED
    BY <2>1, <2>2, Classes
<1>6. GoesOn(j, i, n)
  BY <1>1, <1>3, <1>4, <1>5, Progress DEF Ends
<1>7. /\ n # NoJob /\ n.s = s0 /\ n.todo = WriteMetaThenSet /\ n.meta = Counted(j.meta)
      /\ n.idx = j.idx
  BY <1>3, <1>4, <1>6 DEF GoesOn, MetaAfter, IdxAfter
<1> HIDE DEF s0
<1>8. JobOk(n)'
  BY <1>1, <1>2, <1>3, <1>6, NextOk
<1>9. /\ missed' \in [Sessions -> Nat] /\ missed'[s0] = missed[s0] + 1
      /\ \A s \in Sessions \ {s0} : missed'[s] = missed[s]
  BY <1>1, <1>3
<1>10. Types'
  BY <1>2, <1>9 DEF Types
<1>11. Leaves(j, n)
  BY <1>2, <1>7, <1>9 DEF Leaves, s0
<1>12. KeepsMessages(j, n)
  BY <1>1, <1>2, <1>5, <1>7 DEF KeepsMessages, NoMessageLost, s0
<1>13. KeepsTruth(j, n)
  <2> SUFFICES ASSUME ~disturbed PROVE KeepsTruth(j, n)
    BY DEF KeepsTruth
  <2>1. \A s \in Sessions \ {j.s} : InProject(s) => s \in DOMAIN index' /\ index'[s] = index[s]
    <3>1. \A s \in Sessions \ {j.s} : InProject(s) => Settled(s)
      BY DEF Here
    <3> QED
      BY <1>2, <3>1 DEF Settled
  <2>2. InProject(s0)' <=> InProject(s0)
    BY <1>2 DEF InProject
  <2>3. InProject(s0) => legacy[s0] = None /\ Accurate(j.meta, s0)
    BY <1>1, <1>4, LogWriters DEF Here, s0
  <2>4. /\ n.meta.count = j.meta.count + 1 /\ n.meta.shared = j.meta.shared
        /\ n.meta.inProject = j.meta.inProject
    BY <1>1, <1>7, MetaUpdates
  <2>5. Accurate(j.meta, s0) => Accurate(n.meta, s0)'
    <3>1. Len(log[s0]) \in Nat /\ missed[s0] \in Nat /\ log' = log /\ granted' = granted
      BY <1>1, <1>2, LenProperties DEF s0
    <3>2. SUFFICES ASSUME Accurate(j.meta, s0) PROVE Accurate(n.meta, s0)'
      OBVIOUS
    <3>3. /\ j.meta.inProject /\ j.meta.count = Len(log[s0]) + missed[s0]
          /\ j.meta.shared = granted[s0]
      BY <3>2 DEF Accurate
    <3>4. n.meta.count = Len(log'[s0]) + missed'[s0]
      BY <1>9, <2>4, <3>1, <3>3
    <3> QED
      BY <2>4, <3>1, <3>3, <3>4 DEF Accurate
  <2>6. Holds(n)'
    <3>1. InProject(n.s)' => Accurate(n.meta, n.s)'
      BY <1>7, <2>2, <2>3, <2>5
    <3> QED
      BY <1>5, <1>7, <3>1, SetNext
  <2> QED
    BY <1>2, <1>5, <1>7, <2>1, <2>2, <2>3, <2>6 DEF KeepsTruth, s0
<1> QED
  BY <1>8, <1>10, <1>11, <1>12, <1>13

(* A file operation fails. *)
LEMMA Failures ==
  ASSUME IInv, NEW k \in Slots, Fail(k)
  PROVE  IInv'
<1> SUFFICES ASSUME NEW j, j = jobs[k], NEW i, i = Head(j.todo),
                    NEW n, n = (IF i = "append" \/ Caught(j, i) THEN Advanced(j, i) ELSE NoJob)
             PROVE  IInv'
  OBVIOUS
<1>0. Types /\ NoMessageLost
  BY DEF IInv
<1>1. /\ jobs[k] # NoJob
      /\ FailAppend(j, i) \/ FailWrite(j, i)
      /\ jobs' = [jobs EXCEPT ![k] = n]
      /\ UNCHANGED <<index, meta, legacy, outsiders, known, calls, reads, sent, born, acked, granted>>
  BY DEF Fail
<1>2. faults' \in 0..MaxFaults
  BY <1>0, SessionStoreAssumption DEF Fail, Types, SessionStoreAssumption
<1>3. Here(j) /\ JobOk(j) /\ j \in Job /\ \A l \in Slots : l # k => jobs[l] = NoJob
  BY <1>1, Running DEF Here
<1>4. /\ i = "append" => n = Advanced(j, i)
      /\ n = NoJob \/ (n = Advanced(j, i) /\ (i = "append" \/ Caught(j, i)))
  OBVIOUS
<1>5. CASE FailAppend(j, i)
  <2>1. i = "append"
    BY <1>5 DEF FailAppend
  <2>2. /\ Types' /\ JobOk(n)'
        /\ Leaves(j, n) /\ KeepsMessages(j, n) /\ KeepsTruth(j, n)
    BY <1>0, <1>1, <1>2, <1>3, <1>4, <1>5, <2>1, FailedAppends
  <2>3. Effect(j, n)
    BY <2>2 DEF Effect
  <2> QED
    BY <1>1, <2>3, Together
<1>6. CASE FailWrite(j, i)
  <2>1. PICK cut \in SUBSET (IF i = "rewrite" THEN {j.s} ELSE {}) :
          /\ log' = [s \in Sessions |-> IF s \in cut THEN <<>> ELSE log[s]]
          /\ legacyLog' = [s \in Sessions |-> IF s \in cut THEN <<>> ELSE legacyLog[s]]
          /\ torn' = torn \cup cut
    BY <1>6 DEF FailWrite, Cut
  <2>2. /\ i \notin {"append", "load", "loadAny", "readIndex", "resolve"}
        /\ gone' = IF i = "unlinkMeta" THEN gone \cup {j.s} ELSE gone
        /\ disturbed' = TRUE /\ missed' = missed
    BY <1>6 DEF FailWrite
  <2>3. j.s \in Sessions /\ j.todo \in Todos /\ cut \subseteq Sessions /\ (i # "rewrite" => cut = {})
    BY <1>3, <2>1 DEF Job
  <2>4. n = NoJob \/ GoesOn(j, i, n)
    BY <1>0, <1>3, <1>4, Progress DEF Ends
  <2>5. n = NoJob \/ JobOk(n)'
    BY <1>1, <1>3, <1>4, <2>4, NextOk
  <2>6. Types'
    <3> DEFINE e == <<>>
    <3>1. e \in Seq(Messages)
      BY EmptySeq
    <3>2. /\ log' = [s \in Sessions |-> IF s \in cut THEN e ELSE log[s]]
          /\ legacyLog' = [s \in Sessions |-> IF s \in cut THEN e ELSE legacyLog[s]]
      BY <2>1
    <3> HIDE DEF e
    <3>3. log' \in [Sessions -> Seq(Messages)] /\ legacyLog' \in [Sessions -> Seq(Messages)]
      BY <1>0, <3>1, <3>2 DEF Types
    <3>4. torn' \subseteq Sessions /\ gone' \subseteq Sessions
      BY <1>0, <2>1, <2>2, <2>3 DEF Types
    <3> QED
      BY <1>0, <1>1, <1>2, <2>2, <3>3, <3>4 DEF Types, outsiders
  <2>7. /\ DOMAIN jobs' = Slots /\ jobs'[k] = n
        /\ \A l \in Slots : l # k => jobs'[l] = NoJob
    BY <1>1, <1>3 DEF IInv, OneJob
  <2>8. OneJob'
    <3>1. \A l \in Slots : jobs'[l] = NoJob \/ JobOk(jobs[l])'
      BY <2>5, <2>7 DEF JobOk
    <3> QED
      BY <2>7, <3>1 DEF OneJob
  <2>9. Unborn'
    BY <1>1, <2>1, <2>2 DEF IInv, Unborn, outsiders
  <2>10. NoMessageLost'
    BY <1>0, <1>1, <2>1, <2>2 DEF NoMessageLost
  <2>11. Copied'
    <3>1. <<>> # Move1 /\ <<>> \notin Deleting
      BY Stages DEF Todos, Moving
    <3>2. ASSUME n # NoJob PROVE n.s = j.s /\ n.todo = Tail(j.todo)
      BY <2>4, <3>2 DEF GoesOn
    <3>3. n # NoJob =>
            i \in {"writeMeta", "unlinkMeta", "unlinkLog", "unlinkLegacy", "unlinkLegacyLog"}
      BY <1>4, <2>2 DEF Caught
    <3>4. n # NoJob => Tail(j.todo) # Move1
      BY <1>4, <2>3, <3>3, AfterCaught
    <3>5. n # NoJob /\ Tail(j.todo) \in Deleting => j.s \in gone'
      <4>1. n # NoJob /\ Tail(j.todo) \in Deleting => i = "unlinkMeta" \/ j.todo \in Deleting
        BY <1>4, <2>3, <3>3, AfterCaught
      <4> QED
        BY <1>3, <2>2, <4>1 DEF Here
    <3>6. ASSUME NEW l \in Slots
          PROVE  /\ jobs'[l].todo # Move1
                 /\ jobs'[l].todo \in Deleting => jobs'[l].s \in gone'
      <4>1. CASE l = k /\ n # NoJob
        BY <2>7, <3>2, <3>4, <3>5, <4>1
      <4>2. CASE l # k \/ n = NoJob
        BY <2>7, <3>1, <4>2 DEF NoJob
      <4> QED
        BY <4>1, <4>2
    <3> QED
      BY <3>6 DEF Copied
  <2>12. Undisturbed'
    BY <2>2 DEF Undisturbed
  <2> QED
    BY <2>6, <2>8, <2>9, <2>10, <2>11, <2>12 DEF IInv
<1> QED
  BY <1>1, <1>5, <1>6

(* The end of the process. *)
LEMMA Crashes ==
  ASSUME IInv, Crash
  PROVE  IInv'
<1>0. Types
  BY DEF IInv
<1> DEFINE rewritten == {jobs[k].s : k \in {q \in Slots : jobs[q] # NoJob /\ Head(jobs[q].todo) = "rewrite"}}
<1>1. PICK cut \in SUBSET rewritten :
         /\ log' = [s \in Sessions |-> IF s \in cut THEN <<>> ELSE log[s]]
         /\ legacyLog' = [s \in Sessions |-> IF s \in cut THEN <<>> ELSE legacyLog[s]]
         /\ torn' = torn \cup cut
  BY DEF Crash, Cut
<1>2. /\ faults' \in 0..MaxFaults
      /\ disturbed' = (disturbed \/ ~ChainFree)
      /\ jobs' = [k \in Slots |-> NoJob]
      /\ migrations' = {} /\ lister' = Idle /\ getter' = Idle
      /\ UNCHANGED <<index, meta, legacy, known, calls, reads, sent, born, acked, missed, granted, gone>>
  BY <1>0, SessionStoreAssumption DEF Crash, Types, SessionStoreAssumption
<1>3. cut \subseteq Sessions
  BY DEF IInv, OneJob, JobOk, Job
<1>4. ChainFree => cut = {}
  BY DEF ChainFree
<1> HIDE DEF rewritten
<1>5. Types'
  <2> DEFINE e == <<>>
  <2>1. e \in Seq(Messages)
    BY EmptySeq
  <2>2. /\ log' = [s \in Sessions |-> IF s \in cut THEN e ELSE log[s]]
        /\ legacyLog' = [s \in Sessions |-> IF s \in cut THEN e ELSE legacyLog[s]]
    BY <1>1
  <2> HIDE DEF e
  <2>3. log' \in [Sessions -> Seq(Messages)] /\ legacyLog' \in [Sessions -> Seq(Messages)]
    BY <1>0, <2>1, <2>2 DEF Types
  <2>4. torn' \subseteq Sessions
    BY <1>0, <1>1, <1>3 DEF Types
  <2>5. disturbed' \in BOOLEAN
    BY <1>2
  <2> QED
    BY <1>0, <1>2, <2>3, <2>4, <2>5 DEF Types
<1>6. OneJob'
  BY <1>2 DEF OneJob
<1>7. Unborn'
  BY <1>1, <1>2 DEF IInv, Unborn
<1>8. NoMessageLost'
  BY <1>1, <1>2 DEF IInv, NoMessageLost
<1>9. Copied'
  <2>1. <<>> # Move1 /\ <<>> \notin Deleting
    BY Stages DEF Todos, Moving
  <2>2. \A k \in Slots : jobs'[k].todo # Move1 /\ jobs'[k].todo \notin Deleting
    BY <1>2, <2>1 DEF NoJob
  <2> QED
    BY <2>2 DEF Copied
<1>10. Undisturbed'
  <2> SUFFICES ASSUME ~disturbed' PROVE Truth'
    BY DEF Undisturbed
  <2>1. Truth /\ ~disturbed /\ ChainFree
    BY <1>2 DEF IInv, Undisturbed
  <2>2. \A s \in Sessions : log'[s] = log[s]
    BY <1>1, <1>4, <2>1
  <2>3. \A s \in Sessions : InProject(s)' => legacy'[s] = None /\ Settled(s)'
    <3>1. \A s \in Sessions : InProject(s) => legacy[s] = None /\ Settled(s)
      BY <2>1 DEF Truth, Busy, ChainFree
    <3>2. \A s \in Sessions : InProject(s)' <=> InProject(s)
      BY <1>2 DEF InProject
    <3>3. \A s \in Sessions : Settled(s) => Settled(s)'
      BY <1>2, <2>2 DEF Settled, Accurate, MetaCounts
    <3> QED
      BY <1>2, <3>1, <3>2, <3>3
  <2>4. \A k \in Slots : jobs'[k] = NoJob
    BY <1>2
  <2> QED
    BY <1>2, <2>3, <2>4 DEF Truth
<1> QED
  BY <1>5, <1>6, <1>7, <1>8, <1>9, <1>10 DEF IInv

-----------------------------------------------------------------------------
(* Theorems. *)

LEMMA InitInv == Init => IInv
<1> SUFFICES ASSUME Init PROVE IInv
  OBVIOUS
<1>1. {MaxCalls, MaxReads, MaxMessages, MaxFaults} \subseteq Nat
  BY SessionStoreAssumption DEF SessionStoreAssumption
<1>2. Types
  <2> DEFINE e == <<>>
  <2>1. e \in Seq(Messages) /\ log = [s \in Sessions |-> e] /\ legacyLog = log
    BY EmptySeq DEF Init
  <2> HIDE DEF e
  <2>2. log \in [Sessions -> Seq(Messages)] /\ legacyLog \in [Sessions -> Seq(Messages)]
    BY <2>1
  <2>3. /\ index \in Indexes
        /\ lister = Idle /\ getter = Idle /\ migrations = {}
        /\ gone = {} /\ torn = {} /\ known \in BOOLEAN /\ disturbed \in BOOLEAN
    BY EmptyIndexType DEF Init
  <2>4. /\ meta \in [Sessions -> Meta \cup {None}]
        /\ legacy \in [Sessions -> Meta \cup {None}]
    BY DEF Init
  <2>5. calls = 0 /\ reads = 0 /\ sent = 0 /\ faults = 0
    BY DEF Init
  <2>6. /\ calls \in 0..MaxCalls /\ reads \in 0..MaxReads
        /\ sent \in 0..MaxMessages /\ faults \in 0..MaxFaults
    BY <1>1, <2>5
  <2>7. born \in [Sessions -> {"no", "project", "general"}]
    BY DEF Init
  <2>8. /\ acked \in [Sessions -> SUBSET Messages] /\ granted \in [Sessions -> SUBSET Users]
        /\ missed \in [Sessions -> Nat]
    BY DEF Init
  <2> QED
    BY <2>2, <2>3, <2>4, <2>6, <2>7, <2>8 DEF Types
<1>3. OneJob
  BY DEF Init, OneJob
<1>4. Unborn
  BY DEF Init, Unborn
<1>5. NoMessageLost
  BY DEF Init, NoMessageLost
<1>6. Copied
  <2>1. <<>> # Move1 /\ <<>> \notin Deleting
    BY Stages DEF Todos, Moving
  <2>2. \A k \in Slots : jobs[k].todo # Move1 /\ jobs[k].todo \notin Deleting
    BY <2>1 DEF Init, NoJob
  <2> QED
    BY <2>2 DEF Copied
<1>7. Undisturbed
  <2>1. \A s \in Sessions : ~InProject(s)
    BY DEF Init, InProject
  <2> QED
    BY <2>1 DEF Init, Undisturbed, Truth
<1> QED
  BY <1>2, <1>3, <1>4, <1>5, <1>6, <1>7 DEF IInv

LEMMA NextInv == IInv /\ [Next]_vars => IInv'
<1> SUFFICES ASSUME IInv, [Next]_vars PROVE IInv'
  OBVIOUS
<1>1. ASSUME NEW s \in Sessions, CreateSession(s) PROVE IInv'
  BY <1>1, Created
<1>2. ASSUME NEW s \in Sessions,
             DeleteSession(s) \/ RenameSession(s) \/ AppendMessage(s) \/ PatchMessageMeta(s)
      PROVE  IInv'
  BY <1>2, Calls DEF DeleteSession, RenameSession, AppendMessage, PatchMessageMeta
<1>3. ASSUME NEW s \in Sessions, ShareSession(s) \/ UnshareSession(s) PROVE IInv'
  <2>1. PICK u \in Users : Call(s, ShareProgram, u) \/ Call(s, UnshareProgram, u)
    BY <1>3 DEF ShareSession, UnshareSession
  <2> QED
    BY <2>1, Calls
<1>4. ASSUME NEW s \in Sessions, LinkSessionToProject(s) PROVE IInv'
  BY <1>4, Linked
<1>5. ASSUME NEW s \in Sessions, ListMigrate(s) \/ GetRead(s) PROVE IInv'
  BY <1>5, Readers
<1>6. ASSUME NEW s \in Sessions, GetFinish(s) PROVE IInv'
  BY <1>6, Cleans
<1>7. CASE MigrateLegacySession
  BY <1>7, Migrated
<1>8. ASSUME NEW k \in Slots, Step(k) PROVE IInv'
  BY <1>8, JobSteps
<1>9. CASE ListScan \/ ListWrite
  BY <1>9, Lists
<1>10. CASE ListRead \/ Discover \/ UNCHANGED vars
  BY <1>10, Readers
<1>11. CASE Crash
  BY <1>11, Crashes
<1>12. ASSUME NEW k \in Slots, Fail(k) PROVE IInv'
  BY <1>12, Failures
<1> QED
  BY <1>1, <1>2, <1>3, <1>4, <1>5, <1>6, <1>7, <1>8, <1>9, <1>10, <1>11, <1>12 DEF Next

(* The inductive invariant: at most one call runs on the chain, the old log of a *)
(* session is a part of the new one before it is removed, and, while nothing     *)
(* interferes, the index, the meta files and what the call holds agree on every  *)
(* session of a project (serializePersistence of conversationStore.js).          *)
THEOREM Invariant == Spec => []IInv
BY InitInv, NextInv, PTL DEF Spec

(* The files, the calls of the chain and those who read beside it are always *)
(* what the code takes them for.                                             *)
THEOREM TypeCorrect == Spec => []TypeOK
<1>1. IInv => TypeOK
  <2> SUFFICES ASSUME IInv PROVE TypeOK
    OBVIOUS
  <2>1. Types
    BY DEF IInv
  <2>2. IsIndex(index)
    BY <2>1, IndexType DEF Types
  <2>3. /\ lister = Idle \/ (lister.at \in {"read", "scanned"} /\ IsIndex(lister.idx))
        /\ getter = Idle \/ (getter.at \in Sessions /\ IsIndex(getter.idx))
    BY <2>1, IndexType DEF Types
  <2>4. \A k \in Slots : jobs[k] = NoJob \/ (jobs[k].s \in Sessions /\ IsIndex(jobs[k].idx)
                                               /\ jobs[k].meta \in Meta)
    <3> SUFFICES ASSUME NEW k \in Slots, jobs[k] # NoJob
                 PROVE  jobs[k].s \in Sessions /\ IsIndex(jobs[k].idx) /\ jobs[k].meta \in Meta
      OBVIOUS
    <3>1. jobs[k].s \in Sessions /\ jobs[k].idx \in Indexes /\ jobs[k].meta \in Meta
      BY DEF IInv, OneJob, JobOk, Job
    <3> QED
      BY <3>1, IndexType
  <2> QED
    BY <2>1, <2>2, <2>3, <2>4 DEF TypeOK, Types, IInv, OneJob
<1> QED
  BY <1>1, Invariant, PTL

(* A message that was appended is in a log of its session until the session is *)
(* deleted, through every migration, link, crash and failure, unless a rewrite *)
(* of that log was cut (moveLegacyLog of sessionMigration.js).                 *)
THEOREM MessagesAreKept == Spec => []NoMessageLost
<1>1. IInv => NoMessageLost
  BY DEF IInv
<1> QED
  BY <1>1, Invariant, PTL

LEMMA AtRest ==
  ASSUME IInv, ChainFree, ~disturbed, NEW s \in Sessions, s \notin gone, born[s] = "project"
  PROVE  Settled(s)
<1>1. Truth /\ ~Busy(s) /\ InProject(s)
  BY DEF IInv, Undisturbed, ChainFree, Busy, InProject
<1> QED
  BY <1>1 DEF Truth

(* At rest, and as long as no crash fell into a call, no other write than an   *)
(* append failed and no outdated index was written back, the index and the     *)
(* meta file of a project session count the messages in its log and those that *)
(* could not be appended: serializePersistence loses no increment.             *)
THEOREM CountsStayRight == Spec => []CountsAgree
<1>1. IInv => CountsAgree
  BY AtRest DEF CountsAgree, Settled, Accurate, MetaCounts
<1> QED
  BY <1>1, Invariant, PTL

(* Likewise a project session stays shared with whom the calls of shareSession *)
(* and unshareSession left it.                                                 *)
THEOREM SharesStay == Spec => []SharesSurvive
<1>1. IInv => SharesSurvive
  BY AtRest DEF SharesSurvive, Settled, Accurate
<1> QED
  BY <1>1, Invariant, PTL

=============================================================================
