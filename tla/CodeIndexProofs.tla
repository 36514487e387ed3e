--------------------------- MODULE CodeIndexProofs ---------------------------
(***************************************************************************)
(* For any files, caps and numbers of writes, builds and restarts: a       *)
(* recorded mtime vouches for the content that is indexed; the write       *)
(* behind of a store that was loaded once forgets no update but one whose  *)
(* write failed; a build leaves no file behind that was left alone, but    *)
(* those it had passed when a second load replaced the store.              *)
(***************************************************************************)
EXTENDS CodeIndex, SequenceTheorems, TLAPS

(* A store s, when the files are d and w writes were made: its mtimes are  *)
(* of the past, a file with an mtime has chunks, and they are of the file  *)
(* if the mtime is.                                                        *)
Good(s, d, w) ==
  /\ s \in Store
  /\ \A f \in Files :
       /\ s.files[f] <= w
       /\ s.files[f] # 0 => s.chunks[f] # 0
       /\ s.files[f] # 0 /\ s.files[f] = d[f] => s.chunks[f] = d[f]

Builds ==
  [at : {"idle", "load", "list"}]
  \cup [at : {"loop"}, todo : SUBSET Files]
  \cup [at : {"read"}, todo : SUBSET Files, file : Files, mtime : Versions]
  \cup [at : {"embed"}, todo : SUBSET Files, file : Files, mtime : Versions, content : Versions]

Typed == TypeOK /\ build \in Builds

(* Every copy of the store is good, the one that is being loaded or        *)
(* written included.                                                       *)
StoresAreGood ==
  /\ \A i \in DOMAIN entries : Good(entries[i].data, disk, wrote)
  /\ Good(saved, disk, wrote)
  /\ tmp # Nothing => Good(tmp, disk, wrote)
  /\ \A l \in Loaders : loads[l] # Nothing => Good(loads[l], disk, wrote)

(* What a build holds: an mtime of the past, and a content that is the     *)
(* file's as long as the mtime is.                                         *)
BuildIsGood ==
  /\ \A f \in Files : disk[f] <= wrote
  /\ build.at \in {"read", "embed"} => build.mtime # 0 /\ build.mtime <= wrote
  /\ build.at = "embed" =>
       /\ build.content # 0
       /\ build.mtime = disk[build.file] => build.content = disk[build.file]

(* Whoever updates the store finds an entry; the watcher's path is in none. *)
EntryIsThere ==
  /\ event # <<>> => event[1].path \notin Files
  /\ build.at \in {"list", "loop", "read", "embed"} => entries # <<>>
  /\ attached \/ event # <<>> \/ updates # <<>> => entries # <<>>
  /\ loads["build"] # Nothing => build.at = "load"
  /\ entries = <<>> =>
       writes = <<>> /\ tmp = Nothing /\ \A l \in Loaders : loads[l] \in {Nothing, saved}

(* The write behind, as long as one load made the entry and the last write *)
(* did not fail: what differs from the file, or from what is being         *)
(* written, is still to be written.                                        *)
Behind ==
  /\ tmp # Nothing => writes # <<>>
  /\ Len(entries) = 1 =>
       /\ tmp # Nothing /\ Data # tmp => Last(entries).dirty \/ Len(writes) > 1
       /\ tmp = Nothing /\ Data # saved => Last(entries).dirty \/ writes # <<>> \/ failed

(* The files a build has listed and that stayed as they were.              *)
QuietIsKept ==
  /\ \A f \in quiet : disk[f] # 0
  /\ build.at = "embed" /\ build.file \in quiet => build.content = disk[build.file]
  /\ build.at \in {"idle", "load", "list"} => quiet = {}
  /\ PassedIsIndexed

IInv == Typed /\ StoresAreGood /\ BuildIsGood /\ EntryIsThere /\ Behind /\ QuietIsKept

-----------------------------------------------------------------------------
(* Values.                                                                 *)

LEMMA NothingIsNoStore == Nothing \notin Store
<1> SUFFICES ASSUME Nothing \in Store PROVE FALSE
  OBVIOUS
<1>1. DOMAIN Nothing = {"nothing"}
  BY DEF Nothing
<1>2. DOMAIN Nothing = {"files", "chunks"}
  BY DEF Store
<1> QED
  BY <1>1, <1>2

LEMMA VersionsAreNumbers == 0 \in Versions /\ Versions \subseteq Nat
BY CodeIndexAssumption DEF Versions

LEMMA EmptyIsGood ==
  ASSUME NEW d, NEW w \in Nat
  PROVE  Empty \in Store /\ Good(Empty, d, w)
<1>1. Empty \in Store
  BY VersionsAreNumbers DEF Empty, Store
<1> QED
  BY <1>1 DEF Good, Empty

(* The user writes f for the w+1st time, or removes it.                    *)
LEMMA EditKeepsGood ==
  ASSUME NEW d \in [Files -> Versions], NEW w \in Nat, NEW f \in Files,
         NEW v \in {0, w + 1}, NEW s, Good(s, d, w)
  PROVE  Good(s, [d EXCEPT ![f] = v], w + 1)
<1>1. \A g \in Files : s.files[g] \in Nat
  BY VersionsAreNumbers DEF Good, Store
<1> QED
  BY <1>1 DEF Good

LEMMA EntryFields ==
  ASSUME NEW e \in Entry
  PROVE  /\ e.data \in Store /\ e.dirty \in BOOLEAN
         /\ e = [data |-> e.data, dirty |-> e.dirty]
         /\ ScheduleSave(e) = [data |-> e.data, dirty |-> TRUE]
         /\ \A s \in Store : [e EXCEPT !.data = s] = [data |-> s, dirty |-> e.dirty]
<1>1. e.data \in Store /\ e.dirty \in BOOLEAN /\ e = [data |-> e.data, dirty |-> e.dirty]
  BY DEF Entry
<1>2. ScheduleSave(e) = [data |-> e.data, dirty |-> TRUE]
  <2>1. \A v : [e EXCEPT !.dirty = v] = [data |-> e.data, dirty |-> v]
    BY DEF Entry
  <2> QED
    BY <2>1, Zenon DEF ScheduleSave
<1>3. \A s \in Store : [e EXCEPT !.data = s] = [data |-> s, dirty |-> e.dirty]
  BY DEF Entry
<1> QED
  BY <1>1, <1>2, <1>3

LEMMA DropKeepsGood ==
  ASSUME NEW e \in Entry, NEW k, NEW d, NEW w \in Nat, Good(e.data, d, w)
  PROVE  /\ Dropped(e, k) \in Entry
         /\ Good(Dropped(e, k).data, d, w)
         /\ e.dirty => Dropped(e, k).dirty
         /\ Dropped(e, k).data = e.data \/ Dropped(e, k).dirty
         /\ k \notin Files => Dropped(e, k).data = e.data
<1> DEFINE without == [files |-> [f \in Files |-> IF f = k THEN 0 ELSE e.data.files[f]],
                       chunks |-> [f \in Files |-> IF f = k THEN 0 ELSE e.data.chunks[f]]]
<1>1. e = [data |-> e.data, dirty |-> e.dirty] /\ e.data \in Store /\ e.dirty \in BOOLEAN
  BY EntryFields
<1>2. without \in Store /\ Good(without, d, w)
  <2>1. without \in Store
    BY <1>1, VersionsAreNumbers DEF Store
  <2> QED
    BY <2>1 DEF Good
<1>3. e.data = [files |-> e.data.files, chunks |-> e.data.chunks]
  BY <1>1 DEF Store
<1>4. without.chunks = e.data.chunks => without = e.data
  <2> SUFFICES ASSUME without.chunks = e.data.chunks
               PROVE  without.files = e.data.files
    BY <1>3
  <2>1. \A f \in Files : f = k => e.data.chunks[f] = 0
    OBVIOUS
  <2>2. \A f \in Files : f = k => e.data.files[f] = 0
    BY <2>1 DEF Good
  <2> QED
    BY <2>2, <1>1 DEF Store
<1>5. k \notin Files => without = e.data
  BY <1>1, <1>3 DEF Store
<1>6. Dropped(e, k) = IF without.chunks # e.data.chunks
                      THEN [data |-> without, dirty |-> TRUE]
                      ELSE [data |-> without, dirty |-> e.dirty]
  <2> DEFINE rest == [e EXCEPT !.data = without]
  <2>1. Dropped(e, k) = IF without.chunks # e.data.chunks THEN ScheduleSave(rest) ELSE rest
    BY Zenon DEF Dropped
  <2>2. rest = [data |-> without, dirty |-> e.dirty]
    BY <1>2, EntryFields, Zenon
  <2> HIDE DEF without, rest
  <2>3. rest \in Entry
    BY <1>1, <1>2, <2>2 DEF Entry
  <2>4. ScheduleSave(rest) = [data |-> without, dirty |-> TRUE]
    BY <2>2, <2>3, EntryFields
  <2> QED
    BY <2>1, <2>2, <2>4
<1> HIDE DEF without
<1> QED
  BY <1>1, <1>2, <1>4, <1>5, <1>6 DEF Entry

LEMMA UpsertKeepsGood ==
  ASSUME NEW e \in Entry, NEW d, NEW w \in Nat, Good(e.data, d, w),
         NEW b, b.file \in Files, b.mtime \in Versions, b.content \in Versions,
         b.mtime # 0, b.mtime <= w, b.content # 0,
         b.mtime = d[b.file] => b.content = d[b.file]
  PROVE  /\ Upserted(e, b) \in Entry
         /\ Good(Upserted(e, b).data, d, w)
         /\ Upserted(e, b).dirty
         /\ \A f \in Files :
              Upserted(e, b).data.chunks[f] = IF f = b.file THEN b.content ELSE e.data.chunks[f]
<1>1. e = [data |-> e.data, dirty |-> e.dirty] /\ e.data \in Store
  BY DEF Entry
<1>2. e.data = [files |-> e.data.files, chunks |-> e.data.chunks]
  BY <1>1 DEF Store
<1> DEFINE more == [files |-> [e.data.files EXCEPT ![b.file] = b.mtime],
                    chunks |-> [e.data.chunks EXCEPT ![b.file] = b.content]]
<1>3. more \in Store
  BY <1>1 DEF Store
<1>4. Upserted(e, b) = [data |-> more, dirty |-> TRUE]
  <2> DEFINE rest == [e EXCEPT !.data = more]
  <2>1. rest = [data |-> more, dirty |-> e.dirty]
    BY <1>3, EntryFields, Zenon
  <2>2. rest \in Entry
    BY <1>1, <1>3, <2>1 DEF Entry
  <2>3. Upserted(e, b) = ScheduleSave(rest)
    BY Zenon DEF Upserted
  <2> HIDE DEF more, rest
  <2> QED
    BY <2>1, <2>2, <2>3, EntryFields
<1>5. Good(more, d, w)
  BY <1>1, <1>3 DEF Good, Store
<1>6. \A f \in Files : more.chunks[f] = IF f = b.file THEN b.content ELSE e.data.chunks[f]
  BY <1>1 DEF Store
<1> HIDE DEF more
<1> QED
  BY <1>4, <1>3, <1>5, <1>6 DEF Entry

LEMMA LastReplaced ==
  ASSUME NEW es \in Seq(Entry), es # <<>>, NEW e \in Entry
  PROVE  /\ Len(es) \in Nat /\ Len(es) >= 1 /\ DOMAIN es = 1 .. Len(es)
         /\ Last(es) = es[Len(es)] /\ Last(es) \in Entry
         /\ [es EXCEPT ![Len(es)] = e] \in Seq(Entry)
         /\ [es EXCEPT ![Len(es)] = e] # <<>>
         /\ Len([es EXCEPT ![Len(es)] = e]) = Len(es)
         /\ DOMAIN [es EXCEPT ![Len(es)] = e] = DOMAIN es
         /\ Last([es EXCEPT ![Len(es)] = e]) = e
         /\ \A i \in DOMAIN es : [es EXCEPT ![Len(es)] = e][i] = IF i = Len(es) THEN e ELSE es[i]
<1>1. Len(es) \in Nat /\ Len(es) >= 1 /\ DOMAIN es = 1 .. Len(es)
  BY EmptySeq, LenProperties
<1>2. es[Len(es)] \in Entry
  BY <1>1, ElementOfSeq
<1> DEFINE new == [es EXCEPT ![Len(es)] = e]
<1>3. /\ new \in Seq(Entry) /\ Len(new) = Len(es)
      /\ \A i \in 1 .. Len(es) : new[i] = IF i = Len(es) THEN e ELSE es[i]
  BY <1>1, ExceptSeq
<1>4. new # <<>> /\ DOMAIN new = DOMAIN es
  BY <1>1
<1>5. Last(es) = es[Len(es)] /\ Last(new) = e
  BY <1>1, <1>3 DEF Last
<1> QED
  BY <1>1, <1>2, <1>3, <1>4, <1>5, Zenon

-----------------------------------------------------------------------------
(* Steps.                                                                  *)

LEMMA InitInv == Init => IInv
<1> SUFFICES ASSUME Init PROVE IInv
  OBVIOUS
<1> USE DEF Init
<1>1. Typed
  <2>1. NoBuild \in Builds
    BY DEF NoBuild, Builds
  <2>2. disk \in [Files -> Versions] /\ saved \in Store
    BY VersionsAreNumbers, EmptyIsGood
  <2>3. entries \in Seq(Entry) /\ writes \in Seq(DOMAIN entries)
    BY EmptySeq
  <2>4. wrote \in 0..MaxWrites /\ builds \in 0..MaxBuilds /\ crashes \in 0..MaxCrashes
    BY CodeIndexAssumption
  <2>5. loads \in [Loaders -> Store \cup {Nothing}] /\ tmp \in Store \cup {Nothing}
    OBVIOUS
  <2>6. /\ build = NoBuild /\ build.at = "idle"
        /\ attached \in BOOLEAN /\ failed \in BOOLEAN /\ quiet \subseteq Files
    BY DEF NoBuild
  <2> HIDE DEF Init
  <2> QED
    BY <2>1, <2>2, <2>3, <2>4, <2>5, <2>6 DEF Typed, TypeOK
<1>2. StoresAreGood
  BY EmptyIsGood DEF StoresAreGood
<1>3. BuildIsGood
  BY DEF BuildIsGood, NoBuild
<1>4. EntryIsThere
  BY DEF EntryIsThere, NoBuild, Loaders
<1>5. Behind
  BY EmptySeq DEF Behind
<1>6. QuietIsKept
  BY DEF QuietIsKept, NoBuild, PassedIsIndexed, Ahead
<1> QED
  BY <1>1, <1>2, <1>3, <1>4, <1>5, <1>6 DEF IInv

(* An update of the entry that says so to the write behind.                *)
LEMMA EntryUpdated ==
  ASSUME IInv, entries # <<>>,
         NEW e \in Entry, Good(e.data, disk, wrote),
         Last(entries).dirty => e.dirty, e.data = Data \/ e.dirty,
         entries' = [entries EXCEPT ![Len(entries)] = e],
         UNCHANGED <<disk, saved, writes, tmp, loads, wrote, failed>>
  PROVE  /\ entries' \in Seq(Entry) /\ entries' # <<>> /\ writes' \in Seq(DOMAIN entries')
         /\ Len(entries') = Len(entries) /\ Last(entries') = e
         /\ StoresAreGood' /\ Behind'
<1>1. entries \in Seq(Entry) /\ writes \in Seq(DOMAIN entries)
  BY DEF IInv, Typed, TypeOK
<1>2. /\ entries' \in Seq(Entry) /\ entries' # <<>>
      /\ Len(entries') = Len(entries) /\ Last(entries') = e /\ DOMAIN entries' = DOMAIN entries
      /\ \A i \in DOMAIN entries : entries'[i] = IF i = Len(entries) THEN e ELSE entries[i]
  BY <1>1, LastReplaced
<1>3. StoresAreGood'
  BY <1>2 DEF IInv, StoresAreGood
<1>4. Behind'
  BY <1>2 DEF IInv, Behind, Data
<1> QED
  BY <1>1, <1>2, <1>3, <1>4

LEMMA BuildFields ==
  ASSUME build \in Builds
  PROVE  /\ build.at = "loop" => build.todo \in SUBSET Files
         /\ build.at = "read" =>
              build.todo \in SUBSET Files /\ build.file \in Files /\ build.mtime \in Versions
         /\ build.at = "embed" =>
              /\ build.todo \in SUBSET Files /\ build.file \in Files
              /\ build.mtime \in Versions /\ build.content \in Versions
         /\ build.at \in {"idle", "load", "list", "loop", "read", "embed"}
BY DEF Builds

LEMMA EditStep ==
  ASSUME IInv, NEW f \in Files, Edit(f)
  PROVE  IInv'
<1>1. PICK v \in {0, wrote + 1} :
        /\ disk' = [disk EXCEPT ![f] = v]
        /\ event' = event \/ (attached /\ \E kind : event' = <<[path |-> Reported(f), kind |-> kind]>>)
  BY Zenon DEF Edit, Fire
<1>2. /\ wrote \in Nat /\ wrote < MaxWrites /\ wrote' = wrote + 1 /\ quiet' = quiet \ {f}
      /\ UNCHANGED <<saved, entries, writes, tmp, loads, build, attached, updates, builds, crashes, failed>>
      /\ disk \in [Files -> Versions] /\ disk' \in [Files -> Versions]
      /\ v \in Versions
  BY <1>1, CodeIndexAssumption DEF Edit, memory, IInv, Typed, TypeOK, Versions
<1>3. Typed'
  BY <1>2, CodeIndexAssumption DEF IInv, Typed, TypeOK
<1>4. StoresAreGood'
  <2>1. \A s : Good(s, disk, wrote) => Good(s, disk', wrote')
    BY <1>1, <1>2, EditKeepsGood
  <2> QED
    BY <1>2, <2>1 DEF IInv, StoresAreGood
<1>5. BuildIsGood'
  <2>1. \A g \in Files : disk'[g] <= wrote'
    <3>1. \A g \in Files : disk[g] \in Nat /\ disk[g] <= wrote
      BY <1>2, VersionsAreNumbers DEF IInv, BuildIsGood
    <3> QED
      BY <1>1, <1>2, <3>1
  <2>2. build.at \in {"read", "embed"} =>
          /\ build.file \in Files /\ build.mtime # 0 /\ build.mtime \in Nat /\ build.mtime <= wrote
    BY BuildFields, VersionsAreNumbers DEF IInv, Typed, BuildIsGood
  <2>3. build.at = "embed" /\ build.mtime = disk'[build.file] => build.content = disk'[build.file]
    BY <1>1, <1>2, <2>2 DEF IInv, BuildIsGood
  <2> QED
    BY <1>2, <2>1, <2>2, <2>3 DEF IInv, BuildIsGood
<1>6. EntryIsThere'
  <2>1. CASE event' = event
    BY <1>2, <2>1 DEF IInv, EntryIsThere
  <2>2. CASE attached /\ \E kind : event' = <<[path |-> Reported(f), kind |-> kind]>>
    BY <1>2, <2>2, ReportedAssumption DEF IInv, EntryIsThere
  <2> QED
    BY <1>1, <2>1, <2>2
<1>7. Behind'
  BY <1>2 DEF IInv, Behind, Data
<1>8. QuietIsKept'
  <2>1. \A g \in quiet' : disk'[g] = disk[g]
    BY <1>1, <1>2 DEF IInv, Typed, TypeOK
  <2> QED
    BY <1>2, <2>1 DEF IInv, QuietIsKept, PassedIsIndexed, Ahead, Data
<1> QED
  BY <1>3, <1>4, <1>5, <1>6, <1>7, <1>8 DEF IInv

(* A path of the watcher is not in the index: dropping it changes nothing. *)
LEMMA PathDropped ==
  ASSUME IInv, entries # <<>>, NEW k, k \notin Files, DropFile(k),
         UNCHANGED <<disk, saved, writes, tmp, loads, build, wrote, quiet, failed>>
  PROVE  /\ entries' \in Seq(Entry) /\ writes' \in Seq(DOMAIN entries') /\ entries' # <<>>
         /\ StoresAreGood' /\ Behind' /\ QuietIsKept'
<1> DEFINE e == Dropped(Last(entries), k)
<1>1. entries \in Seq(Entry) /\ Last(entries) \in Entry /\ Last(entries) = entries[Len(entries)]
  BY LastReplaced DEF IInv, Typed, TypeOK
<1>2. Len(entries) \in DOMAIN entries
  BY <1>1, LastReplaced
<1>3. Good(Last(entries).data, disk, wrote) /\ wrote \in Nat
  BY <1>1, <1>2 DEF IInv, StoresAreGood, Typed, TypeOK
<1>4. /\ e \in Entry /\ Good(e.data, disk, wrote)
      /\ Last(entries).dirty => e.dirty
      /\ e.data = Data
  BY <1>1, <1>3, DropKeepsGood DEF Data
<1>5. entries' = [entries EXCEPT ![Len(entries)] = e]
  BY <1>1 DEF DropFile
<1> HIDE DEF e
<1>6. /\ entries' \in Seq(Entry) /\ writes' \in Seq(DOMAIN entries') /\ entries' # <<>>
      /\ Len(entries') = Len(entries) /\ Last(entries') = e
      /\ StoresAreGood' /\ Behind'
  BY <1>4, <1>5, EntryUpdated
<1>7. QuietIsKept'
  BY <1>4, <1>6 DEF IInv, QuietIsKept, PassedIsIndexed, Ahead, Data
<1> QED
  BY <1>6, <1>7

LEMMA WatcherStep ==
  ASSUME IInv, WatcherFires
  PROVE  IInv'
<1>1. /\ entries # <<>> /\ event' = <<>>
      /\ (DropFile(event[1].path) /\ UNCHANGED updates) \/ UNCHANGED entries
      /\ event[1].path \notin Files
      /\ UNCHANGED <<disk, saved, writes, tmp, loads, build, attached, wrote, builds, crashes, quiet,
                     failed>>
  BY DEF WatcherFires, IInv, EntryIsThere, bounds
<1>2. /\ entries' \in Seq(Entry) /\ writes' \in Seq(DOMAIN entries') /\ entries' # <<>>
      /\ StoresAreGood' /\ Behind' /\ QuietIsKept'
  <2>1. CASE DropFile(event[1].path)
    BY <1>1, <2>1, PathDropped
  <2>2. CASE UNCHANGED entries
    BY <1>1, <2>2 DEF IInv, Typed, TypeOK, StoresAreGood, Behind, QuietIsKept, PassedIsIndexed, Ahead, Data
  <2> QED
    BY <1>1, <2>1, <2>2
<1>3. Typed' /\ BuildIsGood' /\ EntryIsThere'
  BY <1>1, <1>2 DEF IInv, Typed, TypeOK, BuildIsGood, EntryIsThere
<1> QED
  BY <1>2, <1>3 DEF IInv

LEMMA UpdateFileStep ==
  ASSUME IInv, UpdateFile
  PROVE  IInv'
<1>1. /\ entries # <<>> /\ DropFile(Head(updates)) /\ Head(updates) \notin Files
      /\ UNCHANGED <<disk, saved, writes, tmp, loads, build, attached, event, wrote, builds, crashes,
                     quiet, failed>>
  BY DEF UpdateFile, IInv, EntryIsThere, bounds
<1>2. /\ entries' \in Seq(Entry) /\ writes' \in Seq(DOMAIN entries') /\ entries' # <<>>
      /\ StoresAreGood' /\ Behind' /\ QuietIsKept'
  BY <1>1, PathDropped
<1>3. Typed' /\ BuildIsGood' /\ EntryIsThere'
  BY <1>1, <1>2 DEF IInv, Typed, TypeOK, BuildIsGood, EntryIsThere
<1> QED
  BY <1>2, <1>3 DEF IInv

LEMMA SearchStep ==
  ASSUME IInv, Search
  PROVE  IInv'
<1>1. /\ entries = <<>> /\ loads' = [loads EXCEPT !["search"] = saved]
      /\ UNCHANGED <<disk, saved, entries, writes, tmp, build, attached, event, updates,
                     wrote, builds, crashes, quiet, failed>>
  BY DEF Search, StartLoad, Loaded, watch, bounds
<1>2. Typed' /\ StoresAreGood' /\ EntryIsThere'
  BY <1>1 DEF IInv, Typed, TypeOK, StoresAreGood, EntryIsThere, Loaders
<1>3. BuildIsGood' /\ Behind' /\ QuietIsKept'
  BY <1>1 DEF IInv, BuildIsGood, Behind, QuietIsKept, PassedIsIndexed, Ahead, Data
<1> QED
  BY <1>2, <1>3 DEF IInv

LEMMA EndLoadStep ==
  ASSUME IInv, NEW l \in Loaders, EndLoad(l)
  PROVE  IInv'
<1> DEFINE e == [data |-> loads[l], dirty |-> FALSE]
<1>1. /\ loads[l] # Nothing
      /\ entries' = Append(entries, e)
      /\ loads' = [loads EXCEPT ![l] = Nothing]
      /\ build' = IF l = "build" THEN [at |-> "list"] ELSE build
      /\ quiet' = quiet \cap Ahead
      /\ UNCHANGED <<disk, saved, writes, tmp, attached, event, updates, wrote, builds, crashes,
                     failed>>
  BY DEF EndLoad, watch, bounds
<1>2. /\ entries \in Seq(Entry) /\ writes \in Seq(DOMAIN entries)
      /\ e \in Entry /\ e.data = loads[l] /\ Good(loads[l], disk, wrote)
  BY <1>1 DEF IInv, Typed, TypeOK, StoresAreGood, Entry
<1> HIDE DEF e
<1>3. /\ Len(entries) \in Nat /\ DOMAIN entries = 1 .. Len(entries)
      /\ entries = <<>> <=> Len(entries) = 0
      /\ entries' \in Seq(Entry) /\ entries' # <<>>
      /\ Len(entries') = Len(entries) + 1 /\ DOMAIN entries' = 1 .. (Len(entries) + 1)
      /\ Last(entries') = e
      /\ \A i \in 1 .. Len(entries) : entries'[i] = entries[i]
      /\ entries'[Len(entries) + 1] = e
  <2>1. Len(entries) \in Nat /\ DOMAIN entries = 1 .. Len(entries) /\ (entries = <<>> <=> Len(entries) = 0)
    BY <1>2, LenProperties, EmptySeq
  <2>2. /\ entries' \in Seq(Entry) /\ entries' # <<>>
        /\ Len(entries') = Len(entries) + 1
        /\ \A i \in 1 .. Len(entries) : entries'[i] = entries[i]
        /\ entries'[Len(entries) + 1] = e
    BY <1>1, <1>2, AppendProperties
  <2> QED
    BY <2>1, <2>2, LenProperties DEF Last
<1>4. writes' \in Seq(DOMAIN entries')
  BY <1>1, <1>2, <1>3, SeqMonotonic
<1>5. build' \in Builds
  BY <1>1 DEF Builds, IInv, Typed
<1>6. Typed'
  BY <1>1, <1>3, <1>4, <1>5, BuildFields DEF IInv, Typed, TypeOK
<1>7. StoresAreGood'
  BY <1>1, <1>2, <1>3 DEF IInv, StoresAreGood, Typed, TypeOK
<1>8. BuildIsGood'
  BY <1>1 DEF IInv, BuildIsGood
<1>9. EntryIsThere'
  BY <1>1, <1>3 DEF IInv, EntryIsThere, Typed, TypeOK, Loaders
<1>10. Behind'
  BY <1>1, <1>2, <1>3 DEF IInv, Behind, EntryIsThere, Data
<1>11. QuietIsKept'
  <2>1. \A f \in quiet' : disk'[f] # 0
    BY <1>1 DEF IInv, QuietIsKept
  <2>2. CASE l = "build"
    <3>1. build'.at = "list"
      BY <1>1, <2>2
    <3>2. quiet' = {}
      BY <1>1, <2>2 DEF IInv, EntryIsThere, QuietIsKept, Ahead
    <3> QED
      BY <3>1, <3>2 DEF QuietIsKept, PassedIsIndexed
  <2>3. CASE l # "build"
    <3>1. build' = build /\ Ahead' = Ahead
      BY <1>1, <2>3 DEF Ahead
    <3>2. quiet' \ Ahead' = {}
      BY <1>1, <3>1
    <3> QED
      BY <1>1, <2>1, <3>1, <3>2 DEF IInv, QuietIsKept, PassedIsIndexed
  <2> QED
    BY <2>2, <2>3
<1> QED
  BY <1>6, <1>7, <1>8, <1>9, <1>10, <1>11 DEF IInv

LEMMA SaveTimerStep ==
  ASSUME IInv, SaveTimer
  PROVE  IInv'
<1>1. PICK i \in DOMAIN entries :
        /\ entries[i].dirty
        /\ entries' = [entries EXCEPT ![i].dirty = FALSE]
        /\ writes' = Append(writes, i)
        /\ UNCHANGED <<disk, saved, tmp, loads, build, attached, event, updates,
                       wrote, builds, crashes, quiet, failed>>
  BY DEF SaveTimer, watch, bounds
<1> DEFINE e == [entries[i] EXCEPT !.dirty = FALSE]
<1>2. /\ entries \in Seq(Entry) /\ writes \in Seq(DOMAIN entries)
      /\ Len(entries) \in Nat /\ DOMAIN entries = 1 .. Len(entries)
      /\ entries[i] \in Entry
  BY <1>1, LenProperties, ElementOfSeq DEF IInv, Typed, TypeOK
<1>3. e \in Entry /\ e.data = entries[i].data
  BY <1>2 DEF Entry
<1>4. entries' = [entries EXCEPT ![i] = e]
  BY <1>1
<1> HIDE DEF e
<1>5. /\ entries' \in Seq(Entry) /\ Len(entries') = Len(entries)
      /\ DOMAIN entries' = DOMAIN entries
      /\ \A j \in DOMAIN entries : entries'[j] = IF j = i THEN e ELSE entries[j]
  BY <1>2, <1>3, <1>4, ExceptSeq
<1>6. \A j \in DOMAIN entries : entries'[j].data = entries[j].data
  BY <1>3, <1>5
<1>7. /\ writes' \in Seq(DOMAIN entries') /\ writes' # <<>>
      /\ Len(writes) \in Nat /\ Len(writes') = Len(writes) + 1
      /\ writes # <<>> => Len(writes) >= 1
  BY <1>1, <1>2, <1>5, AppendProperties, LenProperties, EmptySeq
<1>8. entries # <<>> /\ entries' # <<>> /\ Len(entries) \in DOMAIN entries /\ Data' = Data
  BY <1>2, <1>5, <1>6 DEF Data, Last
<1>9. Typed'
  BY <1>1, <1>5, <1>7 DEF IInv, Typed, TypeOK
<1>10. StoresAreGood'
  BY <1>1, <1>5, <1>6 DEF IInv, StoresAreGood
<1>11. BuildIsGood' /\ EntryIsThere'
  BY <1>1, <1>8 DEF IInv, BuildIsGood, EntryIsThere
<1>12. Behind'
  BY <1>1, <1>5, <1>7, <1>8 DEF IInv, Behind
<1>13. QuietIsKept'
  BY <1>1, <1>5, <1>8 DEF IInv, QuietIsKept, PassedIsIndexed, Ahead
<1> QED
  BY <1>9, <1>10, <1>11, <1>12, <1>13 DEF IInv

LEMMA SerialiseStep ==
  ASSUME IInv, Serialise
  PROVE  IInv'
<1>1. /\ writes # <<>> /\ tmp = Nothing /\ tmp' = entries[Head(writes)].data
      /\ failed' = FALSE
      /\ UNCHANGED <<disk, saved, entries, writes, loads, build, attached, event, updates,
                     wrote, builds, crashes, quiet>>
  BY DEF Serialise, watch, bounds
<1>2. /\ entries \in Seq(Entry) /\ Head(writes) \in DOMAIN entries
      /\ Len(entries) \in Nat /\ DOMAIN entries = 1 .. Len(entries)
  BY <1>1, HeadTailProperties, LenProperties DEF IInv, Typed, TypeOK
<1>3. tmp' \in Store /\ Good(tmp', disk, wrote)
  BY <1>1, <1>2 DEF IInv, StoresAreGood, Good
<1>4. Typed' /\ StoresAreGood' /\ BuildIsGood'
  BY <1>1, <1>3 DEF IInv, Typed, TypeOK, StoresAreGood, BuildIsGood
<1>5. EntryIsThere'
  BY <1>1 DEF IInv, EntryIsThere
<1>6. Len(entries) = 1 => tmp' = Data
  BY <1>1, <1>2 DEF Data, Last
<1>7. tmp' # Nothing
  BY <1>3, NothingIsNoStore
<1>8. Behind' /\ QuietIsKept'
  BY <1>1, <1>6, <1>7 DEF IInv, Behind, QuietIsKept, PassedIsIndexed, Ahead, Data
<1> QED
  BY <1>4, <1>5, <1>8 DEF IInv

(* The end of a write, done or failed.                                     *)
LEMMA RenameStep ==
  ASSUME IInv, Rename \/ WriteFails
  PROVE  IInv'
<1>1. /\ tmp # Nothing /\ tmp' = Nothing /\ writes' = Tail(writes)
      /\ (saved' = tmp /\ failed' = failed) \/ (saved' = saved /\ failed' = TRUE)
      /\ UNCHANGED <<disk, entries, loads, build, attached, event, updates,
                     wrote, builds, crashes, quiet>>
  BY DEF Rename, WriteFails, watch, bounds
<1>2. writes # <<>> /\ entries # <<>>
  BY <1>1 DEF IInv, Behind, EntryIsThere
<1>3. /\ writes' \in Seq(DOMAIN entries)
      /\ Len(writes) > 1 => writes' # <<>>
  <2>1. writes \in Seq(DOMAIN entries) /\ Len(writes) \in Nat
    BY LenProperties DEF IInv, Typed, TypeOK
  <2>2. writes' \in Seq(DOMAIN entries) /\ Len(writes') = Len(writes) - 1
    BY <1>1, <1>2, <2>1, HeadTailProperties
  <2> QED
    BY <2>1, <2>2, EmptySeq
<1>4. tmp \in Store /\ Good(tmp, disk, wrote)
  BY <1>1 DEF IInv, StoresAreGood, Good
<1>5. Typed' /\ StoresAreGood' /\ BuildIsGood'
  BY <1>1, <1>3, <1>4 DEF IInv, Typed, TypeOK, StoresAreGood, BuildIsGood
<1>6. EntryIsThere'
  BY <1>1, <1>2 DEF IInv, EntryIsThere
<1>7. Behind' /\ QuietIsKept'
  BY <1>1, <1>3 DEF IInv, Behind, QuietIsKept, PassedIsIndexed, Ahead, Data
<1> QED
  BY <1>5, <1>6, <1>7 DEF IInv

LEMMA CrashStep ==
  ASSUME IInv, Crash
  PROVE  IInv'
<1>1. /\ crashes < MaxCrashes /\ crashes' = crashes + 1
      /\ entries' = <<>> /\ writes' = <<>> /\ tmp' = Nothing
      /\ loads' = [l \in Loaders |-> Nothing]
      /\ build' = NoBuild /\ quiet' = {} /\ failed' = FALSE
      /\ attached' = FALSE /\ event' = <<>> /\ updates' = <<>>
      /\ UNCHANGED <<disk, saved, wrote, builds>>
  BY DEF Crash
<1>2. entries' \in Seq(Entry) /\ writes' \in Seq(DOMAIN entries') /\ Len(entries') = 0
  BY <1>1, EmptySeq
<1>3. build' \in Builds /\ build'.at = "idle"
  BY <1>1 DEF NoBuild, Builds
<1>4. crashes' \in 0..MaxCrashes
  BY <1>1, CodeIndexAssumption DEF IInv, Typed, TypeOK
<1>5. loads' \in [Loaders -> Store \cup {Nothing}] /\ tmp' \in Store \cup {Nothing}
  BY <1>1
<1>6. attached' \in BOOLEAN /\ failed' \in BOOLEAN /\ quiet' \subseteq Files
  BY <1>1
<1>7. Typed'
  BY <1>1, <1>2, <1>3, <1>4, <1>5, <1>6 DEF IInv, Typed, TypeOK
<1>8. StoresAreGood' /\ BuildIsGood'
  BY <1>1, <1>3 DEF IInv, StoresAreGood, BuildIsGood
<1>9. EntryIsThere' /\ Behind'
  BY <1>1, <1>2, <1>3 DEF EntryIsThere, Behind, Loaders
<1>10. QuietIsKept'
  BY <1>1, <1>3 DEF QuietIsKept, PassedIsIndexed, Ahead
<1> QED
  BY <1>7, <1>8, <1>9, <1>10 DEF IInv

-----------------------------------------------------------------------------
(* Steps of a build.                                                       *)

(* All but one of them leave the store alone.                              *)
LEMMA StoreUntouched ==
  ASSUME IInv, UNCHANGED <<disk, saved, memory, watch, bounds, failed>>,
         build.at # "load", build' \in Builds, quiet' \subseteq Files,
         build'.at = "embed" \/ build'.at = "read" => build'.mtime # 0 /\ build'.mtime <= wrote,
         build'.at \in {"list", "loop", "read", "embed"} => entries # <<>>,
         build'.at = "embed" =>
           build'.content # 0 /\ (build'.mtime = disk[build'.file] => build'.content = disk[build'.file]),
         QuietIsKept'
  PROVE  IInv'
<1>1. UNCHANGED <<disk, saved, entries, writes, tmp, loads, attached, event, updates, wrote, builds, crashes,
                failed>>
  BY DEF memory, watch, bounds
<1>2. build'.at \in {"idle", "load", "list", "loop", "read", "embed"}
  BY BuildFields DEF Builds
<1>3. Typed'
  BY <1>1, <1>2 DEF IInv, Typed, TypeOK
<1>4. StoresAreGood' /\ EntryIsThere' /\ Behind'
  BY <1>1 DEF IInv, StoresAreGood, EntryIsThere, Behind, Data
<1>5. BuildIsGood'
  BY <1>1 DEF IInv, BuildIsGood
<1> QED
  BY <1>3, <1>4, <1>5 DEF IInv

LEMMA StartBuildStep ==
  ASSUME IInv, StartBuild
  PROVE  IInv'
<1>1. /\ build = NoBuild /\ builds < MaxBuilds /\ builds' = builds + 1
      /\ \/ entries # <<>> /\ build' = [at |-> "list"] /\ UNCHANGED loads
         \/ entries = <<>> /\ build' = [at |-> "load"] /\ loads' = [loads EXCEPT !["build"] = saved]
      /\ UNCHANGED <<disk, saved, entries, writes, tmp, attached, event, updates, wrote, crashes, quiet,
                     failed>>
  BY DEF StartBuild, StartLoad, Loaded, watch
<1>2. builds' \in 0..MaxBuilds
  BY <1>1, CodeIndexAssumption DEF IInv, Typed, TypeOK
<1>3. build' \in Builds /\ build'.at \in {"list", "load"}
  BY <1>1 DEF Builds
<1>4. loads' \in [Loaders -> Store \cup {Nothing}]
  BY <1>1 DEF IInv, Typed, TypeOK
<1>5. Typed'
  BY <1>1, <1>2, <1>3, <1>4 DEF IInv, Typed, TypeOK
<1>6. StoresAreGood' /\ EntryIsThere'
  <2>1. loads["build"] = Nothing
    BY <1>1 DEF IInv, EntryIsThere, NoBuild
  <2> QED
    BY <1>1, <1>3, <2>1 DEF IInv, Typed, TypeOK, StoresAreGood, EntryIsThere
<1>7. BuildIsGood' /\ Behind'
  BY <1>1, <1>3 DEF IInv, BuildIsGood, Behind, Data
<1>8. QuietIsKept'
  <2>1. quiet' = {}
    BY <1>1 DEF IInv, QuietIsKept, NoBuild
  <2> QED
    BY <1>3, <2>1 DEF QuietIsKept, PassedIsIndexed
<1> QED
  BY <1>5, <1>6, <1>7, <1>8 DEF IInv

LEMMA ListFilesStep ==
  ASSUME IInv, ListFiles
  PROVE  IInv'
<1>1. /\ build.at = "list" /\ quiet' = {f \in Files : disk[f] # 0}
      /\ build' = [at |-> "loop", todo |-> quiet']
      /\ UNCHANGED <<disk, saved, memory, watch, bounds, failed>>
  BY DEF ListFiles
<1>2. build' \in Builds /\ build'.at = "loop" /\ build'.todo = quiet'
  BY <1>1 DEF Builds
<1>3. QuietIsKept'
  BY <1>1, <1>2 DEF QuietIsKept, PassedIsIndexed, Ahead
<1> QED
  BY <1>1, <1>2, <1>3, StoreUntouched DEF IInv, EntryIsThere

LEMMA NextFileStep ==
  ASSUME IInv, NEW f \in Files, NextFile(f)
  PROVE  IInv'
<1> DEFINE rest == build.todo \ {f}
<1>1. /\ build.at = "loop" /\ f \in build.todo
      /\ \/ disk[f] = 0 \/ IsFileIndexed(f)
         \/ disk[f] # 0
      /\ UNCHANGED <<disk, saved, memory, watch, bounds, quiet, failed>>
      /\ entries # <<>>
  BY DEF NextFile, IInv, EntryIsThere
<1>2. build' = IF disk[f] = 0 \/ IsFileIndexed(f)
               THEN [at |-> "loop", todo |-> rest]
               ELSE [at |-> "read", todo |-> rest, file |-> f, mtime |-> disk[f]]
  BY DEF NextFile
<1>3. rest \in SUBSET Files /\ disk[f] \in Versions /\ disk[f] <= wrote /\ quiet \subseteq Files
  BY <1>1, BuildFields DEF IInv, Typed, TypeOK, BuildIsGood
<1>4. UNCHANGED <<disk, entries, quiet>>
  BY <1>1 DEF memory
<1>5. f \in quiet /\ IsFileIndexed(f) => Data.chunks[f] = disk[f]
  <2>1. Data = entries[Len(entries)].data /\ Len(entries) \in DOMAIN entries
    BY <1>1, LastReplaced DEF Data, IInv, Typed, TypeOK, Last, Entry
  <2> QED
    BY <2>1 DEF IInv, StoresAreGood, Good, QuietIsKept, IsFileIndexed
<1>6. CASE disk[f] = 0 \/ IsFileIndexed(f)
  <2>1. build' \in Builds /\ build'.at = "loop" /\ build'.todo = rest
    BY <1>2, <1>3, <1>6 DEF Builds
  <2>2. f \in quiet => disk[f] # 0
    BY DEF IInv, QuietIsKept
  <2>3. QuietIsKept'
    BY <1>1, <1>4, <1>5, <1>6, <2>1, <2>2 DEF IInv, QuietIsKept, PassedIsIndexed, Ahead, Data
  <2> QED
    BY <1>1, <1>3, <1>4, <2>1, <2>3, StoreUntouched
<1>7. CASE ~(disk[f] = 0 \/ IsFileIndexed(f))
  <2>1. /\ build' \in Builds /\ build'.at = "read" /\ build'.todo = rest
        /\ build'.file = f /\ build'.mtime = disk[f]
    BY <1>2, <1>3, <1>7 DEF Builds
  <2>2. QuietIsKept'
    BY <1>1, <1>4, <2>1 DEF IInv, QuietIsKept, PassedIsIndexed, Ahead, Data
  <2> QED
    BY <1>1, <1>3, <1>4, <1>7, <2>1, <2>2, StoreUntouched
<1> QED
  BY <1>6, <1>7

LEMMA ReadFileStep ==
  ASSUME IInv, ReadFile
  PROVE  IInv'
<1>1. /\ build.at = "read"
      /\ UNCHANGED <<disk, saved, memory, watch, bounds, quiet, failed>>
      /\ entries # <<>> /\ quiet \subseteq Files
  BY DEF ReadFile, IInv, EntryIsThere, Typed, TypeOK
<1>2. /\ build.todo \in SUBSET Files /\ build.file \in Files /\ build.mtime \in Versions
      /\ build.mtime # 0 /\ build.mtime <= wrote /\ disk[build.file] \in Versions
  BY <1>1, BuildFields DEF IInv, Typed, TypeOK, BuildIsGood
<1>3. UNCHANGED <<disk, entries, quiet>>
  BY <1>1 DEF memory
<1>4. CASE disk[build.file] = 0
  <2>1. build' = [at |-> "loop", todo |-> build.todo]
    BY <1>4 DEF ReadFile, Continue
  <2>2. build' \in Builds /\ build'.at = "loop" /\ build'.todo = build.todo
    BY <1>2, <2>1 DEF Builds
  <2>3. QuietIsKept'
    BY <1>1, <1>3, <1>4, <2>2 DEF IInv, QuietIsKept, PassedIsIndexed, Ahead, Data
  <2> QED
    BY <1>1, <1>3, <2>2, <2>3, StoreUntouched
<1>5. CASE disk[build.file] # 0
  <2>1. build' = [at |-> "embed", todo |-> build.todo, file |-> build.file,
                  mtime |-> build.mtime, content |-> disk[build.file]]
    BY <1>5 DEF ReadFile
  <2>2. /\ build' \in Builds /\ build'.at = "embed" /\ build'.todo = build.todo
        /\ build'.file = build.file /\ build'.mtime = build.mtime
        /\ build'.content = disk[build.file]
    BY <1>2, <2>1 DEF Builds
  <2>3. QuietIsKept'
    BY <1>1, <1>3, <2>2 DEF IInv, QuietIsKept, PassedIsIndexed, Ahead, Data
  <2> QED
    BY <1>1, <1>2, <1>3, <1>5, <2>2, <2>3, StoreUntouched
<1> QED
  BY <1>4, <1>5

LEMMA EmbedFailsStep ==
  ASSUME IInv, EmbedFails
  PROVE  IInv'
<1>1. /\ build.at = "embed" /\ build' = [at |-> "loop", todo |-> build.todo]
      /\ quiet' = quiet \ {build.file}
      /\ UNCHANGED <<disk, saved, memory, watch, bounds, failed>>
      /\ entries # <<>> /\ quiet' \subseteq Files
  BY DEF EmbedFails, Continue, IInv, EntryIsThere, Typed, TypeOK
<1>2. build' \in Builds /\ build'.at = "loop" /\ build'.todo = build.todo
  BY <1>1, BuildFields DEF IInv, Typed, Builds
<1>3. UNCHANGED <<disk, entries>>
  BY <1>1 DEF memory
<1>4. QuietIsKept'
  BY <1>1, <1>2, <1>3 DEF IInv, QuietIsKept, PassedIsIndexed, Ahead, Data
<1> QED
  BY <1>1, <1>2, <1>4, StoreUntouched

LEMMA EndBuildStep ==
  ASSUME IInv, EndBuild
  PROVE  IInv'
<1>1. /\ build.at = "loop" /\ build' = NoBuild /\ quiet' = {} /\ attached' = TRUE
      /\ UNCHANGED <<disk, saved, entries, writes, tmp, loads, event, updates, wrote, builds, crashes,
                     failed>>
      /\ entries # <<>>
  BY DEF EndBuild, memory, bounds, IInv, EntryIsThere
<1>2. build' \in Builds /\ build'.at = "idle"
  BY <1>1 DEF NoBuild, Builds
<1>3. attached' \in BOOLEAN /\ quiet' \subseteq Files
  BY <1>1
<1>4. Typed'
  BY <1>1, <1>2, <1>3 DEF IInv, Typed, TypeOK
<1>5. StoresAreGood' /\ BuildIsGood' /\ EntryIsThere'
  BY <1>1, <1>2 DEF IInv, StoresAreGood, BuildIsGood, EntryIsThere
<1>6. Behind' /\ QuietIsKept'
  BY <1>1, <1>2 DEF IInv, Behind, QuietIsKept, PassedIsIndexed, Ahead, Data
<1> QED
  BY <1>4, <1>5, <1>6 DEF IInv

LEMMA EmbeddedStep ==
  ASSUME IInv, Embedded
  PROVE  IInv'
<1> DEFINE e == Upserted(Last(entries), build)
<1>1. /\ build.at = "embed" /\ build' = [at |-> "loop", todo |-> build.todo]
      /\ entries' = [entries EXCEPT ![Len(entries)] = Upserted(@, build)]
      /\ UNCHANGED <<disk, saved, writes, tmp, loads, attached, event, updates,
                     wrote, builds, crashes, quiet, failed>>
      /\ entries # <<>>
  BY DEF Embedded, Continue, watch, bounds, IInv, EntryIsThere
<1>2. /\ build.todo \in SUBSET Files /\ build.file \in Files
      /\ build.mtime \in Versions /\ build.content \in Versions
      /\ build.mtime # 0 /\ build.mtime <= wrote /\ build.content # 0
      /\ build.mtime = disk[build.file] => build.content = disk[build.file]
      /\ wrote \in Nat
  BY <1>1, BuildFields DEF IInv, Typed, TypeOK, BuildIsGood
<1>3. /\ Last(entries) \in Entry /\ Last(entries) = entries[Len(entries)]
      /\ Len(entries) \in DOMAIN entries
  BY <1>1, LastReplaced DEF IInv, Typed, TypeOK
<1>4. Good(Last(entries).data, disk, wrote)
  BY <1>3 DEF IInv, StoresAreGood
<1>5. /\ e \in Entry /\ Good(e.data, disk, wrote) /\ e.dirty
      /\ \A f \in Files : e.data.chunks[f] = IF f = build.file THEN build.content ELSE Data.chunks[f]
  BY <1>2, <1>3, <1>4, UpsertKeepsGood DEF Data
<1>6. entries' = [entries EXCEPT ![Len(entries)] = e]
  BY <1>1, <1>3
<1> HIDE DEF e
<1>7. /\ entries' \in Seq(Entry) /\ writes' \in Seq(DOMAIN entries') /\ entries' # <<>>
      /\ Len(entries') = Len(entries) /\ Last(entries') = e
      /\ StoresAreGood' /\ Behind'
  BY <1>1, <1>5, <1>6, EntryUpdated
<1>8. build' \in Builds /\ build'.at = "loop" /\ build'.todo = build.todo
  BY <1>1, <1>2 DEF Builds
<1>9. Typed' /\ BuildIsGood' /\ EntryIsThere'
  BY <1>1, <1>7, <1>8 DEF IInv, Typed, TypeOK, BuildIsGood, EntryIsThere
<1>10. QuietIsKept'
  <2>1. \A f \in quiet : disk[f] # 0 /\ f \in Files
    BY DEF IInv, QuietIsKept, Typed, TypeOK
  <2>2. build.file \in quiet => build.content = disk[build.file]
    BY <1>1 DEF IInv, QuietIsKept
  <2>3. PassedIsIndexed'
    BY <1>1, <1>5, <1>7, <1>8, <2>1, <2>2 DEF IInv, QuietIsKept, PassedIsIndexed, Ahead, Data
  <2> QED
    BY <1>1, <1>8, <2>1, <2>3 DEF QuietIsKept
<1> QED
  BY <1>7, <1>9, <1>10 DEF IInv

-----------------------------------------------------------------------------
(* The theorems.                                                           *)

LEMMA StepInv == IInv /\ [Next]_vars => IInv'
<1> SUFFICES ASSUME IInv, [Next]_vars PROVE IInv'
  OBVIOUS
<1>1. CASE Steps
  BY <1>1, WatcherStep, UpdateFileStep, SaveTimerStep, SerialiseStep, RenameStep, ListFilesStep,
     ReadFileStep, EmbeddedStep, EndBuildStep, NextFileStep, EndLoadStep DEF Steps
<1>2. CASE EmbedFails \/ WriteFails \/ Search \/ StartBuild \/ Crash \/ \E f \in Files : Edit(f)
  BY <1>2, EmbedFailsStep, RenameStep, SearchStep, StartBuildStep, CrashStep, EditStep
<1>3. CASE UNCHANGED vars
  BY <1>3 DEF vars, memory, watch, bounds, IInv, Typed, TypeOK, StoresAreGood, BuildIsGood,
              EntryIsThere, Behind, QuietIsKept, PassedIsIndexed, Ahead, Data
<1> QED
  BY <1>1, <1>2, <1>3 DEF Next

(* The index, its copies and the build that runs stay consistent, whatever *)
(* is edited, loaded, written and restarted meanwhile.                     *)
THEOREM Invariance == Spec => []IInv
  BY InitInv, StepInv, PTL DEF Spec

(* Every variable keeps its type.                                          *)
THEOREM TypeCorrect == Spec => []TypeOK
<1>1. IInv => TypeOK
  BY DEF IInv, Typed
<1> QED
  BY Invariance, <1>1, PTL

(* Skipping a file whose recorded mtime is its own is safe                 *)
(* (codeIndexBuilder.js:139-145): in memory and on disk, whatever was      *)
(* edited between the stat, the read and the upsert of a file.             *)
THEOREM RecordsAreCurrent == Spec => []RecordedIsCurrent
<1>1. IInv => RecordedIsCurrent
  BY DEF IInv, StoresAreGood, Good, RecordedIsCurrent, Stores
<1> QED
  BY Invariance, <1>1, PTL

(* As long as one load made the entry and its last write did not fail, the *)
(* write behind forgets no update (codeIndexStore.js:62-85), however its   *)
(* timers and writes overlap.                                              *)
THEOREM UpdatesAreSaved == Spec => []NothingUnsaved
<1>1. IInv => NothingUnsaved
  <2> SUFFICES ASSUME IInv, Len(entries) = 1, ~failed, Data # saved
               PROVE  Data = tmp \/ Last(entries).dirty \/ \E i \in DOMAIN writes : i > 1 \/ tmp = Nothing
    BY DEF NothingUnsaved
  <2>1. writes \in Seq(DOMAIN entries)
    BY DEF IInv, Typed, TypeOK
  <2>2. Len(writes) \in Nat /\ DOMAIN writes = 1 .. Len(writes) /\ (writes # <<>> => Len(writes) >= 1)
    BY <2>1, LenProperties, EmptySeq
  <2>3. CASE tmp # Nothing
    BY <2>2, <2>3 DEF IInv, Behind
  <2>4. CASE tmp = Nothing
    BY <2>2, <2>4 DEF IInv, Behind
  <2> QED
    BY <2>3, <2>4
<1> QED
  BY Invariance, <1>1, PTL

(* What a build has passed is indexed as it is on disk                     *)
(* (codeIndexBuilder.js:124-169), unless since the files were listed it    *)
(* changed, failed to be embedded, or was passed before a second load      *)
(* replaced the store.                                                     *)
THEOREM PassedFilesAreIndexed == Spec => []PassedIsIndexed
<1>1. IInv => PassedIsIndexed
  BY DEF IInv, QuietIsKept
<1> QED
  BY Invariance, <1>1, PTL
=============================================================================
