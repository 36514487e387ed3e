--------------------------- MODULE SchedulerProofs ---------------------------
(***************************************************************************)
(* For any number of schedules, ticks and restarts, any calendar and any   *)
(* interval: ids stay free; and, unless writes of the file get lost, a     *)
(* removed reminder stays removed and nothing fires twice for one occasion. *)
(***************************************************************************)
EXTENDS Scheduler, SequenceTheorems, WellFoundedInduction, TLAPS

(* A store, when the schedules so were created: its ids are numbers that   *)
(* were handed out, no two of its records are the same schedule, and a     *)
(* record has the kind and the type of its schedule.                       *)
Wf(store, so) ==
  /\ IsStore(store)
  /\ \A id \in DOMAIN store :
       /\ id <= Len(so)
       /\ store[id].uid \in 1 .. Len(so)
       /\ so[store[id].uid] = <<store[id].kind, store[id].type>>
  /\ \A i, j \in DOMAIN store : store[i].uid = store[j].uid => i = j

(* The ids a server hands out are above those it knows and those on file.  *)
Counted ==
  /\ Len(sort) <= MaxAdds
  /\ idCounter <= Len(sort)
  /\ up => \A id \in DOMAIN schedules \cup DOMAIN file : id <= idCounter

(* The loops of a tick and of a file event are over schedules that exist.  *)
Loops ==
  /\ toFire \cup toMark \cup toRemove \subseteq DOMAIN schedules
  /\ \A id \in toMark : schedules[id].type \in EventTypes
  /\ \A id \in toRemove : schedules[id].type = "oneshot" /\ id \notin toFire
  /\ ~up => toFire = {} /\ toMark = {} /\ toRemove = {}

(* Only what was created has a history.                                    *)
Histories ==
  /\ gone \subseteq 1 .. Len(sort)
  /\ \A u \in Uids : fires[u].at <= now /\ (fires[u].n > 0 => u <= Len(sort))

Shape ==
  /\ TypeOK
  /\ Wf(schedules, sort)
  /\ Wf(file, sort)
  /\ Counted
  /\ Loops
  /\ Histories

(* A store, when the schedules fi have fired and go were removed: it holds *)
(* no reminder of go, and of each record it knows the last fire.           *)
Kept(store, fi, go) ==
  \A id \in DOMAIN store :
    /\ store[id].uid \in go => store[id].kind = "command"
    /\ fi[store[id].uid].n > 0 =>
         /\ store[id].lastFiredAt >= fi[store[id].uid].at
         /\ store[id].type = "oneshot" => store[id].lastFiredAt >= store[id].fireAt

(* What a loop is about to fire is marked with the present, on file too,   *)
(* and has not fired for this occasion.                                    *)
MarkedFirst ==
  /\ toFire # {} => file = schedules
  /\ \A id \in toFire :
       /\ Fresh(schedules[id].uid)
       /\ schedules[id].lastFiredAt = now
       /\ schedules[id].type = "oneshot" => schedules[id].fireAt <= now

Durable ==
  /\ Kept(schedules, fires, gone)
  /\ Kept(file, fires, gone)
  /\ MarkedFirst

-----------------------------------------------------------------------------
(* Numbers *)

LEMMA ConstantsAreNumbers ==
  /\ MaxAdds \in Nat /\ MaxNow \in Nat /\ MaxCrashes \in Nat
  /\ Every \in Nat \ {0} /\ Day \in Nat \ {0} /\ Week \in Nat \ {0} /\ Throttle \in Nat \ {0}
  /\ Weekday \in Nat /\ At \in Int
BY SchedulerAssumption

LEMMA LeastExists ==
  ASSUME NEW T, T \subseteq Nat, T # {}
  PROVE  \E x \in T : \A y \in T : x <= y
<1> DEFINE R == OpToRel(<, Nat)
<1>1. IsWellFoundedOn(R, Nat)
  BY NatLessThanWellFounded
<1>2. \A x, y \in Nat : y < x => <<y, x>> \in R
  BY DEF OpToRel
<1> HIDE DEF R
<1>3. \E x \in T : \A y \in T : ~(<<y, x>> \in R)
  BY <1>1, WFMin
<1>4. PICK x \in T : \A y \in T : ~(<<y, x>> \in R)
  BY <1>3
<1>5. \A y \in T : y \in Nat /\ x \in Nat /\ ~(y < x)
  BY <1>2, <1>4
<1> QED
  BY <1>5

LEMMA MinExists ==
  ASSUME NEW T, T \subseteq Nat, T # {}
  PROVE  Min(T) \in T
BY LeastExists DEF Min

LEMMA MaxExists ==
  ASSUME NEW n \in Nat, NEW T, T \subseteq 0 .. n, T # {}
  PROVE  Max(T) \in T /\ \A y \in T : y <= Max(T)
<1> DEFINE U == {n - x : x \in T}
<1>1. \E x \in U : \A y \in U : x <= y
  <2>1. U \subseteq Nat /\ U # {}
    <3>1. \A x \in T : n - x \in Nat
      OBVIOUS
    <3> QED
      BY <3>1
  <2> HIDE DEF U
  <2> QED
    BY <2>1, LeastExists
<1>2. \E x \in T : \A y \in T : x >= y
  <2>1. PICK x \in T : \A y \in U : n - x <= y
    BY <1>1
  <2>2. \A y \in T : n - x <= n - y
    BY <2>1
  <2> QED
    BY <2>2
<1> QED
  BY <1>2 DEF Max

LEMMA CalendarIsInt ==
  ASSUME NEW t \in Int
  PROVE  DailyAt(t) \in Int /\ WeeklyAt(t) \in Int
<1>1. \A x \in Int : DailyAt(x) \in Int
  BY ConstantsAreNumbers DEF DailyAt
<1>2. t \div Day \in Int /\ (t \div Day) % Week \in Int
  BY ConstantsAreNumbers
<1>3. (Weekday - ((t \div Day) % Week) + Week) % Week \in Int
  BY <1>2, ConstantsAreNumbers
<1> DEFINE ahead == (Weekday - ((t \div Day) % Week) + Week) % Week
<1>4. WeeklyAt(t) = DailyAt(t) + ahead * Day
  BY DEF WeeklyAt
<1> HIDE DEF ahead
<1>5. ahead * Day \in Int
  BY <1>3, ConstantsAreNumbers DEF ahead
<1> QED
  BY <1>1, <1>4, <1>5

(* What is ripe after a fire was ripe after any earlier fire.              *)
LEMMA RipeSinceEarlier ==
  ASSUME NEW type \in {"interval", "daily", "weekly"}, NEW f, NEW g, NEW a \in Int, NEW b \in Int,
         NEW t \in Int, a <= b, Ripe(type, f, b, t)
  PROVE  Ripe(type, g, a, t)
BY CalendarIsInt, ConstantsAreNumbers DEF Ripe

-----------------------------------------------------------------------------
(* Stores *)

Part(store, S) == [id \in S |-> store[id]]

LEMMA WfLonger ==
  ASSUME NEW store, NEW so \in Seq(AllSorts), NEW x \in AllSorts, Wf(store, so)
  PROVE  Wf(store, Append(so, x))
<1>1. Len(Append(so, x)) = Len(so) + 1 /\ \A u \in 1 .. Len(so) : Append(so, x)[u] = so[u]
  BY AppendProperties
<1>2. Len(so) \in Nat /\ DOMAIN store \subseteq Nat
  BY ConstantsAreNumbers DEF Wf, IsStore, Ids
<1> QED
  BY <1>1, <1>2 DEF Wf

LEMMA WfPart ==
  ASSUME NEW store, NEW so, NEW S \in SUBSET DOMAIN store, Wf(store, so)
  PROVE  Wf(Part(store, S), so)
<1>1. DOMAIN Part(store, S) = S /\ \A id \in S : Part(store, S)[id] = store[id]
  BY DEF Part
<1>2. Part(store, S) \in [S -> Schedule]
  BY DEF Part, Wf, IsStore
<1>3. IsStore(Part(store, S))
  BY <1>1, <1>2 DEF Wf, IsStore
<1> QED
  BY <1>1, <1>3 DEF Wf

LEMMA WfPushed ==
  ASSUME NEW store, NEW so \in Seq(AllSorts), NEW s \in Schedule, NEW n \in Nat,
         Wf(store, so), Len(so) < MaxAdds, n <= Len(so), \A id \in DOMAIN store : id <= n,
         s.uid = Len(so) + 1, <<s.kind, s.type>> \in AllSorts
  PROVE  Wf([id \in DOMAIN store \cup {n + 1} |-> IF id = n + 1 THEN s ELSE store[id]],
            Append(so, <<s.kind, s.type>>))
<1> DEFINE st == [id \in DOMAIN store \cup {n + 1} |-> IF id = n + 1 THEN s ELSE store[id]]
           sq == Append(so, <<s.kind, s.type>>)
<1>1. Len(sq) = Len(so) + 1 /\ sq[Len(so) + 1] = <<s.kind, s.type>>
      /\ \A u \in 1 .. Len(so) : sq[u] = so[u]
  BY AppendProperties
<1>2. Len(so) \in Nat /\ MaxAdds \in Nat /\ DOMAIN store \subseteq Ids /\ Ids \subseteq Nat
  BY ConstantsAreNumbers DEF Wf, IsStore, Ids
<1>3. DOMAIN st = DOMAIN store \cup {n + 1} /\ st[n + 1] = s
      /\ n + 1 \notin DOMAIN store /\ \A id \in DOMAIN store : st[id] = store[id]
  BY <1>2
<1>4. store \in [DOMAIN store -> Schedule]
  BY DEF Wf, IsStore
<1>5. st \in [DOMAIN st -> Schedule]
  BY <1>4
<1> HIDE DEF st, sq
<1>6. IsStore(st)
  BY <1>2, <1>3, <1>5 DEF IsStore, Ids
<1>7. \A id \in DOMAIN store : store[id].uid # s.uid
  BY <1>2 DEF Wf
<1>8. ASSUME NEW i \in DOMAIN st, NEW j \in DOMAIN st, st[i].uid = st[j].uid
      PROVE  i = j
  BY <1>3, <1>7, <1>8 DEF Wf
<1>9. ASSUME NEW id \in DOMAIN st
      PROVE  /\ id <= Len(sq)
             /\ st[id].uid \in 1 .. Len(sq)
             /\ sq[st[id].uid] = <<st[id].kind, st[id].type>>
  <2>1. CASE id = n + 1
    BY <1>1, <1>2, <1>3, <2>1
  <2>2. CASE id \in DOMAIN store
    <3>1. id <= Len(so) /\ store[id].uid \in 1 .. Len(so)
          /\ so[store[id].uid] = <<store[id].kind, store[id].type>>
      BY <2>2 DEF Wf
    <3>2. st[id] = store[id] /\ id \in Nat
      BY <1>2, <1>3, <2>2
    <3>3. sq[store[id].uid] = so[store[id].uid] /\ id <= Len(sq) /\ store[id].uid \in 1 .. Len(sq)
      BY <1>1, <1>2, <3>1, <3>2
    <3> QED
      BY <3>1, <3>2, <3>3
  <2> QED
    BY <1>3, <2>1, <2>2
<1>10. Wf(st, sq)
  BY <1>6, <1>8, <1>9 DEF Wf
<1> QED
  BY <1>10 DEF st, sq

(* A store whose records keep what identifies a schedule.                  *)
SameSchedules(st, store) ==
  /\ DOMAIN st = DOMAIN store
  /\ IsStore(st)
  /\ \A id \in DOMAIN store :
       /\ st[id].uid = store[id].uid
       /\ st[id].kind = store[id].kind
       /\ st[id].type = store[id].type

LEMMA WfSame ==
  ASSUME NEW store, NEW st, NEW so, Wf(store, so), SameSchedules(st, store)
  PROVE  Wf(st, so)
BY DEF Wf, SameSchedules

-----------------------------------------------------------------------------
(* The shape of the state *)

LEMMA ShapeInitially == Init => Shape
<1> SUFFICES ASSUME Init PROVE Shape
  OBVIOUS
<1>1. DOMAIN NoSchedules = {} /\ NoSchedules \in [DOMAIN NoSchedules -> Schedule]
  BY DEF NoSchedules
<1>2. IsStore(NoSchedules) /\ Wf(NoSchedules, sort)
  BY <1>1 DEF IsStore, Wf
<1>3. sort \in Seq(AllSorts) /\ Len(sort) = 0
  BY EmptySeq DEF Init
<1>4. fires \in [Uids -> [n : Nat, at : Int]]
  BY DEF Init
<1>5. fsEvent \in [Projects -> EventTypes \cup {"none"}]
  BY DEF Init
<1>6. 0 \in 0 .. MaxNow /\ 0 \in 0 .. MaxAdds /\ 0 \in 0 .. MaxCrashes
  BY ConstantsAreNumbers
<1>7. TypeOK
  BY <1>2, <1>3, <1>4, <1>5, <1>6 DEF Init, TypeOK
<1>8. Counted /\ Loops /\ Histories
  BY <1>1, <1>3, ConstantsAreNumbers DEF Init, Counted, Loops, Histories
<1> QED
  BY <1>2, <1>7, <1>8 DEF Init, Shape

(* What a handler or a timer leaves behind: no loop is running.            *)
LEMMA NoLoop ==
  ASSUME toFire' = {}, toMark' = {}, toRemove' = {}
  PROVE  Loops'
BY DEF Loops

(* A push keeps the stores, the counter and the histories in shape.        *)
LEMMA PushShape ==
  ASSUME Shape, Free, UNCHANGED <<up, now, fires, gone, toFire, toMark, toRemove>>,
         NEW s \in Schedule, s.uid = Len(sort) + 1, <<s.kind, s.type>> \in AllSorts, Push(s)
  PROVE  /\ Wf(schedules, sort)' /\ Wf(file, sort)' /\ Counted' /\ Loops' /\ Histories'
         /\ sort' \in Seq(AllSorts) /\ idCounter' \in 0 .. MaxAdds /\ saveTimer' \in BOOLEAN
<1>1. sort \in Seq(AllSorts) /\ idCounter \in Nat /\ Len(sort) \in Nat /\ MaxAdds \in Nat
      /\ idCounter <= Len(sort)
  BY ConstantsAreNumbers DEF Shape, TypeOK, Counted
<1>2. up /\ \A id \in DOMAIN schedules \cup DOMAIN file : id <= idCounter
  BY DEF Shape, Counted, Free
<1>3. Len(sort) < MaxAdds /\ idCounter' = idCounter + 1
      /\ sort' = Append(sort, <<s.kind, s.type>>) /\ saveTimer' = TRUE /\ file' = file
  BY DEF Push, PersistLater
<1>4. schedules' = [id \in DOMAIN schedules \cup {idCounter + 1} |->
                      IF id = idCounter + 1 THEN s ELSE schedules[id]]
  BY <1>3 DEF Push
<1>5. Len(sort') = Len(sort) + 1 /\ sort' \in Seq(AllSorts)
  BY <1>1, <1>3, AppendProperties
<1>6. Wf(schedules, sort)'
  BY <1>1, <1>2, <1>3, <1>4, WfPushed DEF Shape
<1>7. Wf(file, sort)'
  BY <1>1, <1>3, WfLonger DEF Shape
<1>8. DOMAIN schedules' = DOMAIN schedules \cup {idCounter + 1} /\ DOMAIN schedules \subseteq Nat
      /\ DOMAIN file \subseteq Nat
  BY <1>4, ConstantsAreNumbers DEF Shape, Wf, IsStore, Ids
<1>9. Counted'
  BY <1>1, <1>2, <1>3, <1>5, <1>8 DEF Counted
<1>10. Loops'
  BY NoLoop DEF Free
<1>11. Histories'
  <2>1. Uids \subseteq Nat
    BY <1>1 DEF Uids
  <2> QED
    BY <1>1, <1>5, <2>1 DEF Shape, Histories
<1>12. idCounter' \in 0 .. MaxAdds
  BY <1>1, <1>3
<1> QED
  BY <1>3, <1>5, <1>6, <1>7, <1>9, <1>10, <1>11, <1>12

(* A handler or a timer that changes the records of existing schedules, or *)
(* drops some, and writes the file now, later or not at all.               *)
LEMMA ChangeShape ==
  ASSUME Shape, UNCHANGED <<up, now, idCounter, sort, fires>>,
         Wf(schedules', sort), DOMAIN schedules' \subseteq DOMAIN schedules,
         file' \in {file, schedules'}, gone' \subseteq 1 .. Len(sort)
  PROVE  Wf(schedules, sort)' /\ Wf(file, sort)' /\ Counted' /\ Histories'
<1>1. Wf(schedules, sort)' /\ Wf(file, sort)'
  BY DEF Shape
<1>2. Counted'
  BY DEF Shape, Counted
<1>3. Histories'
  BY DEF Shape, Histories
<1> QED
  BY <1>1, <1>2, <1>3

LEMMA PersistWrites ==
  ASSUME NEW m, Persist(m)
  PROVE  file' \in {file, m} /\ saveTimer' = FALSE
BY DEF Persist

(* Watchers follow the schedules of known projects.                        *)
LEMMA SyncedAreProjects ==
  ASSUME Shape, NEW st, SyncWatchers(st)
  PROVE  watched' \subseteq Projects
BY DEF Shape, TypeOK, SyncWatchers

(* A request that adds a schedule.                                         *)
LEMMA AddsKeepShape ==
  ASSUME Shape,
         \/ \E kt \in Sorts, p \in Projects : AddSchedule(kt, p)
         \/ \E id \in DOMAIN schedules : SnoozeReminder(id)
  PROVE  Shape'
<1>1. now \in Nat /\ \A x \in now .. MaxNow, y \in (now - Every + 1) .. now : x \in Int /\ y \in Int
  BY ConstantsAreNumbers DEF Shape, TypeOK
<1>2. Len(sort) + 1 \in Uids \/ ~(Len(sort) < MaxAdds)
  BY ConstantsAreNumbers DEF Shape, TypeOK, Uids
<1>3. CASE \E kt \in Sorts, p \in Projects : AddSchedule(kt, p)
  <2>1. PICK kt \in Sorts, p \in Projects : AddSchedule(kt, p)
    BY <1>3
  <2>2. kt \in AllSorts /\ kt = <<kt[1], kt[2]>>
        /\ kt[1] \in {"reminder", "command"}
        /\ kt[2] \in {"oneshot", "interval", "daily", "weekly"} \cup EventTypes
    BY SchedulerAssumption DEF AllSorts, EventTypes
  <2>3. PICK last \in (now - Every + 1) .. now, fireAt \in now .. MaxNow :
           Push(NewRecord(kt[1], kt[2], p, fireAt, last))
    BY <2>1 DEF AddSchedule
  <2> DEFINE s == NewRecord(kt[1], kt[2], p, fireAt, last)
  <2>4. Len(sort) < MaxAdds
    BY <2>3 DEF Push
  <2>5. s \in Schedule /\ s.uid = Len(sort) + 1 /\ <<s.kind, s.type>> \in AllSorts
    BY <1>1, <1>2, <2>2, <2>4 DEF NewRecord, Schedule
  <2>6. Push(s)
    BY <2>3
  <2> HIDE DEF s
  <2>7. Free /\ UNCHANGED <<now, up, toFire, toMark, toRemove, scanned, fsEvent, crashes, fires, gone, lost>>
    BY <2>1 DEF AddSchedule
  <2>8. watched' \subseteq Projects
    BY <2>1, SyncedAreProjects DEF AddSchedule, Shape, TypeOK
  <2>9. /\ Wf(schedules, sort)' /\ Wf(file, sort)' /\ Counted' /\ Loops' /\ Histories'
        /\ sort' \in Seq(AllSorts) /\ idCounter' \in 0 .. MaxAdds /\ saveTimer' \in BOOLEAN
    BY <2>5, <2>6, <2>7, PushShape
  <2>10. TypeOK'
    BY <2>7, <2>8, <2>9 DEF Shape, TypeOK, Wf
  <2> QED
    BY <2>9, <2>10 DEF Shape
<1>4. CASE \E id \in DOMAIN schedules : SnoozeReminder(id)
  <2>1. PICK id \in DOMAIN schedules : SnoozeReminder(id)
    BY <1>4
  <2>2. PICK fireAt \in (now + 1) .. MaxNow :
           Push(NewRecord("reminder", "oneshot", schedules[id].project, fireAt, now))
    BY <2>1 DEF SnoozeReminder
  <2> DEFINE s == NewRecord("reminder", "oneshot", schedules[id].project, fireAt, now)
  <2>3. Len(sort) < MaxAdds /\ schedules[id] \in Schedule
    BY <2>2 DEF Push, Shape, Wf, IsStore
  <2>4. s \in Schedule /\ s.uid = Len(sort) + 1
    BY <1>1, <1>2, <2>3 DEF NewRecord, Schedule
  <2>5. <<s.kind, s.type>> \in AllSorts
    BY DEF NewRecord, AllSorts
  <2>6. Push(s)
    BY <2>2
  <2> HIDE DEF s
  <2>7. Free /\ UNCHANGED <<now, up, toFire, toMark, toRemove, scanned, watched, fsEvent, crashes, fires,
                            gone, lost>>
    BY <2>1 DEF SnoozeReminder
  <2>8. /\ Wf(schedules, sort)' /\ Wf(file, sort)' /\ Counted' /\ Loops' /\ Histories'
        /\ sort' \in Seq(AllSorts) /\ idCounter' \in 0 .. MaxAdds /\ saveTimer' \in BOOLEAN
    BY <2>4, <2>5, <2>6, <2>7, PushShape
  <2>9. TypeOK'
    BY <2>7, <2>8 DEF Shape, TypeOK, Wf
  <2> QED
    BY <2>8, <2>9 DEF Shape
<1> QED
  BY <1>3, <1>4

LEMMA WithoutPart ==
  ASSUME NEW store, NEW id
  PROVE  Without(store, id) = Part(store, DOMAIN store \ {id})
BY DEF Without, Part

(* A request that removes or completes a schedule, or none.                *)
LEMMA RemovalsKeepShape ==
  ASSUME Shape, NEW id \in DOMAIN schedules,
         RemoveSchedule(id) \/ RemoveReminder(id) \/ CompleteReminder(id)
  PROVE  Shape'
<1>1. Free /\ UNCHANGED <<now, up, idCounter, toFire, toMark, toRemove, scanned, fsEvent, crashes, sort, fires,
                          lost>>
  BY DEF RemoveSchedule, RemoveReminder, CompleteReminder
<1>2. schedules[id].uid \in 1 .. Len(sort) /\ schedules[id].uid \in Uids
  BY DEF Shape, Wf, IsStore, Schedule
<1>3. gone' \in {gone, gone \cup {schedules[id].uid}}
  BY DEF RemoveSchedule, RemoveReminder, CompleteReminder
<1>4. gone' \subseteq 1 .. Len(sort) /\ gone' \subseteq Uids
  BY <1>2, <1>3 DEF Shape, Histories, TypeOK
<1>5. file' \in {file, schedules'} /\ saveTimer' \in BOOLEAN
  BY PersistWrites DEF RemoveSchedule, RemoveReminder, CompleteReminder, PersistNow, PersistLater
<1>6. watched' \subseteq Projects
  <2>1. SyncWatchers(schedules') \/ watched' = watched
    BY DEF RemoveSchedule, RemoveReminder, CompleteReminder
  <2> QED
    BY <2>1, SyncedAreProjects DEF Shape, TypeOK
<1>7. Wf(schedules', sort) /\ DOMAIN schedules' \subseteq DOMAIN schedules
  <2>1. CASE schedules' = Without(schedules, id)
    <3>1. schedules' = Part(schedules, DOMAIN schedules \ {id})
      BY <2>1, WithoutPart
    <3> QED
      BY <3>1, WfPart DEF Shape, Part
  <2>2. CASE schedules' = [schedules EXCEPT ![id].completed = ~@]
    <3>1. schedules \in [DOMAIN schedules -> Schedule] /\ DOMAIN schedules \subseteq Ids
      BY DEF Shape, Wf, IsStore
    <3>2. SameSchedules(schedules', schedules)
      BY <2>2, <3>1 DEF SameSchedules, IsStore, Schedule
    <3> QED
      BY <3>2, WfSame DEF Shape, SameSchedules
  <2> QED
    BY <2>1, <2>2 DEF RemoveSchedule, RemoveReminder, CompleteReminder
<1>8. Wf(schedules, sort)' /\ Wf(file, sort)' /\ Counted' /\ Histories'
  BY <1>1, <1>4, <1>5, <1>7, ChangeShape
<1>9. Loops'
  BY <1>1, NoLoop DEF Free
<1>10. TypeOK'
  BY <1>1, <1>4, <1>5, <1>6, <1>8 DEF Shape, TypeOK, Wf
<1> QED
  BY <1>8, <1>9, <1>10 DEF Shape

LEMMA MarkedSame ==
  ASSUME Shape, NEW S
  PROVE  /\ SameSchedules(Marked(S), schedules)
         /\ Wf(Marked(S), sort)
         /\ \A id \in DOMAIN schedules :
              /\ Marked(S)[id].fireAt = schedules[id].fireAt
              /\ Marked(S)[id].lastFiredAt = IF id \in S THEN now ELSE schedules[id].lastFiredAt
<1>1. schedules \in [DOMAIN schedules -> Schedule] /\ DOMAIN schedules \subseteq Ids /\ now \in Int
  BY ConstantsAreNumbers DEF Shape, Wf, IsStore, TypeOK
<1>2. \A id \in DOMAIN schedules :
        /\ schedules[id] \in Schedule
        /\ [schedules[id] EXCEPT !.lastFiredAt = now] \in Schedule
  BY <1>1 DEF Schedule
<1>3. /\ DOMAIN Marked(S) = DOMAIN schedules
      /\ \A id \in DOMAIN schedules :
           Marked(S)[id] = IF id \in S THEN [schedules[id] EXCEPT !.lastFiredAt = now] ELSE schedules[id]
  BY DEF Marked
<1>4. Marked(S) \in [DOMAIN schedules -> Schedule]
  BY <1>2 DEF Marked
<1>5. SameSchedules(Marked(S), schedules)
  BY <1>1, <1>2, <1>3, <1>4 DEF SameSchedules, IsStore, Schedule
<1>6. Wf(Marked(S), sort)
  BY <1>5, WfSame DEF Shape
<1>7. \A id \in DOMAIN schedules :
        /\ Marked(S)[id].fireAt = schedules[id].fireAt
        /\ Marked(S)[id].lastFiredAt = IF id \in S THEN now ELSE schedules[id].lastFiredAt
  BY <1>2, <1>3 DEF Schedule
<1> QED
  BY <1>5, <1>6, <1>7

(* The steps of a tick and of a file event.                                *)
LEMMA LoopsKeepShape ==
  ASSUME Shape, Tick \/ Fire \/ RemoveFired \/ MarkEvent \/ \E p \in Projects : FsTimer(p)
  PROVE  Shape'
<1>1. DOMAIN schedules \subseteq Ids /\ Ids \subseteq Nat
  BY ConstantsAreNumbers DEF Shape, Wf, IsStore, Ids
<1>2. CASE Tick
  <2> DEFINE due == {id \in DOMAIN schedules : IsDue(schedules[id], now)}
  <2>1. /\ Free /\ schedules' = Marked(due) /\ PersistNow(schedules') /\ toFire' = due
        /\ UNCHANGED <<now, up, idCounter, toMark, toRemove, scanned, watched, fsEvent, crashes, sort,
                       fires, gone, lost>>
    BY <1>2 DEF Tick
  <2>2. due \subseteq DOMAIN schedules
    OBVIOUS
  <2> HIDE DEF due
  <2>3. SameSchedules(schedules', schedules) /\ Wf(schedules', sort)
    BY <2>1, MarkedSame
  <2>4. file' \in {file, schedules'} /\ saveTimer' = FALSE
    BY <2>1, PersistWrites DEF PersistNow
  <2>5. Wf(schedules, sort)' /\ Wf(file, sort)' /\ Counted' /\ Histories'
    BY <2>1, <2>3, <2>4, ChangeShape DEF SameSchedules, Shape, Histories
  <2>6. Loops'
    BY <2>1, <2>2, <2>3 DEF Free, Loops, SameSchedules
  <2>7. TypeOK'
    BY <1>1, <2>1, <2>2, <2>4, <2>5 DEF Shape, TypeOK, Wf
  <2> QED
    BY <2>5, <2>6, <2>7 DEF Shape
<1>3. CASE Fire
  <2> DEFINE id == Min(toFire)
             u == schedules[id].uid
  <2>1. /\ up /\ toRemove = {} /\ toFire # {}
        /\ fires' = [fires EXCEPT ![u] = [n |-> @.n + 1, at |-> now]]
        /\ toFire' = toFire \ {id}
        /\ toRemove' = IF schedules[id].type = "oneshot" THEN {id} ELSE {}
        /\ UNCHANGED <<now, up, schedules, idCounter, saveTimer, file, toMark, scanned, watched, fsEvent,
                       crashes, sort, gone, lost>>
    BY <1>3 DEF Fire
  <2>2. toFire \subseteq DOMAIN schedules /\ toFire \subseteq Nat
    BY <1>1 DEF Shape, Loops
  <2>3. id \in toFire
    BY <2>1, <2>2, MinExists
  <2> HIDE DEF id
  <2>4. u \in 1 .. Len(sort) /\ u \in Uids /\ fires \in [Uids -> [n : Nat, at : Int]] /\ now \in Int
        /\ id \in Ids
    BY <1>1, <2>2, <2>3, ConstantsAreNumbers DEF Shape, Wf, TypeOK, IsStore, Schedule
  <2> HIDE DEF u
  <2>5. /\ fires' \in [Uids -> [n : Nat, at : Int]]
        /\ \A v \in Uids : fires'[v] = fires[v] \/ (v = u /\ fires'[v].at = now)
    BY <2>1, <2>4
  <2>6. Histories'
    BY <2>1, <2>4, <2>5 DEF Shape, Histories
  <2>7. Loops'
    BY <2>1, <2>2, <2>3 DEF Shape, Loops
  <2>8. TypeOK'
    BY <2>1, <2>4, <2>5 DEF Shape, TypeOK
  <2> QED
    BY <2>1, <2>6, <2>7, <2>8 DEF Shape, Counted
<1>4. CASE RemoveFired
  <2>1. PICK id \in toRemove : schedules' = Without(schedules, id)
    BY <1>4 DEF RemoveFired
  <2>2. /\ up /\ PersistNow(schedules') /\ toRemove' = {}
        /\ UNCHANGED <<now, up, idCounter, toFire, toMark, scanned, watched, fsEvent, crashes, sort, fires,
                       gone, lost>>
    BY <1>4 DEF RemoveFired
  <2>3. schedules' = Part(schedules, DOMAIN schedules \ {id})
    BY <2>1, WithoutPart
  <2>4. Wf(schedules', sort) /\ DOMAIN schedules' = DOMAIN schedules \ {id}
    BY <2>3, WfPart DEF Shape, Part
  <2>5. file' \in {file, schedules'} /\ saveTimer' = FALSE
    BY <2>2, PersistWrites DEF PersistNow
  <2>6. Wf(schedules, sort)' /\ Wf(file, sort)' /\ Counted' /\ Histories'
    BY <2>2, <2>4, <2>5, ChangeShape DEF Shape, Histories
  <2>7. \A i \in DOMAIN schedules' : schedules'[i] = schedules[i]
    BY <2>3, <2>4 DEF Part
  <2>8. Loops'
    BY <2>1, <2>2, <2>4, <2>7 DEF Shape, Loops, EventTypes
  <2>9. TypeOK'
    BY <2>2, <2>5, <2>6 DEF Shape, TypeOK, Wf
  <2> QED
    BY <2>6, <2>8, <2>9 DEF Shape
<1>5. CASE MarkEvent
  <2> DEFINE id == Min(toMark)
  <2>1. /\ up /\ toFire = {} /\ toMark # {} /\ toMark' = toMark \ {id}
        /\ \/ UNCHANGED <<schedules, saveTimer, file, toFire>>
           \/ schedules' = Marked({id}) /\ PersistNow(schedules') /\ toFire' = {id}
        /\ UNCHANGED <<now, up, idCounter, toRemove, scanned, watched, fsEvent, crashes, sort, fires, gone,
                       lost>>
    BY <1>5 DEF MarkEvent
  <2>2. toMark \subseteq DOMAIN schedules /\ toMark \subseteq Nat
    BY <1>1 DEF Shape, Loops
  <2>3. id \in toMark
    BY <2>1, <2>2, MinExists
  <2> HIDE DEF id
  <2>4. id \in DOMAIN schedules /\ id \in Ids /\ schedules[id].type # "oneshot"
    BY <1>1, <2>2, <2>3 DEF Shape, Loops, EventTypes
  <2>5. CASE UNCHANGED <<schedules, saveTimer, file, toFire>>
    <3>1. Loops'
      BY <2>1, <2>5 DEF Shape, Loops
    <3>2. TypeOK'
      BY <2>1, <2>5 DEF Shape, TypeOK
    <3> QED
      BY <2>1, <2>5, <3>1, <3>2 DEF Shape, Counted, Histories
  <2>6. CASE schedules' = Marked({id}) /\ PersistNow(schedules') /\ toFire' = {id}
    <3>1. SameSchedules(schedules', schedules) /\ Wf(schedules', sort)
      BY <2>6, MarkedSame
    <3>2. file' \in {file, schedules'} /\ saveTimer' = FALSE
      BY <2>6, PersistWrites DEF PersistNow
    <3>3. Wf(schedules, sort)' /\ Wf(file, sort)' /\ Counted' /\ Histories'
      BY <2>1, <3>1, <3>2, ChangeShape DEF SameSchedules, Shape, Histories
    <3>4. id \notin toRemove
      BY <2>4 DEF Shape, Loops
    <3>5. Loops'
      BY <2>1, <2>4, <2>6, <3>1, <3>4 DEF Shape, Loops, SameSchedules
    <3>6. TypeOK'
      BY <2>1, <2>4, <2>6, <3>2, <3>3 DEF Shape, TypeOK, Wf
    <3> QED
      BY <3>3, <3>5, <3>6 DEF Shape
  <2> QED
    BY <2>1, <2>5, <2>6
<1>6. CASE \E p \in Projects : FsTimer(p)
  <2>1. PICK p \in Projects : FsTimer(p)
    BY <1>6
  <2>2. /\ Free /\ fsEvent[p] # "none"
        /\ toMark' = {id \in DOMAIN schedules : schedules[id].project = p /\ schedules[id].type = fsEvent[p]}
        /\ fsEvent' = [fsEvent EXCEPT ![p] = "none"]
        /\ UNCHANGED <<now, up, schedules, idCounter, saveTimer, file, toFire, toRemove, scanned, watched,
                       crashes, sort, fires, gone, lost>>
    BY <2>1 DEF FsTimer
  <2>3. fsEvent \in [Projects -> EventTypes \cup {"none"}]
    BY DEF Shape, TypeOK
  <2>4. fsEvent[p] \in EventTypes /\ fsEvent' \in [Projects -> EventTypes \cup {"none"}]
    BY <2>2, <2>3
  <2>5. Loops'
    BY <2>2, <2>4 DEF Free, Loops
  <2>6. TypeOK'
    BY <1>1, <2>2, <2>4 DEF Shape, TypeOK
  <2> QED
    BY <2>2, <2>5, <2>6 DEF Shape, Counted, Histories
<1> QED
  BY <1>2, <1>3, <1>4, <1>5, <1>6

(* The counter that is read back from the file covers every id on file.    *)
LEMMA CounterLoaded ==
  ASSUME Shape
  PROVE  /\ LoadedCounter(file) \in 0 .. MaxAdds
         /\ LoadedCounter(file) <= Len(sort)
         /\ \A id \in DOMAIN file : id <= LoadedCounter(file)
<1> DEFINE T == DOMAIN file \cup {0}
<1>1. MaxAdds \in Nat /\ Len(sort) \in Nat /\ Len(sort) <= MaxAdds
  BY ConstantsAreNumbers DEF Shape, TypeOK, Counted
<1>2. \A id \in DOMAIN file : id \in 1 .. MaxAdds /\ id <= Len(sort)
  BY DEF Shape, Wf, IsStore, Ids
<1>3. T \subseteq 0 .. Len(sort) /\ T # {}
  BY <1>1, <1>2
<1>4. Max(T) \in T /\ \A y \in T : y <= Max(T)
  BY <1>1, <1>3, MaxExists
<1>5. LoadedCounter(file) = Max(T) /\ \A id \in DOMAIN file : id \in T
  BY DEF LoadedCounter
<1> HIDE DEF T
<1>6. LoadedCounter(file) \in 0 .. Len(sort) /\ \A id \in DOMAIN file : id <= LoadedCounter(file)
  BY <1>3, <1>4, <1>5
<1>7. LoadedCounter(file) \in 0 .. MaxAdds /\ LoadedCounter(file) <= Len(sort)
  BY <1>1, <1>6
<1> QED
  BY <1>6, <1>7

(* The end of the server, its start, and what happens around it.           *)
LEMMA SurroundingsKeepShape ==
  ASSUME Shape,
         \/ RemoveUnknown \/ (\E p \in Projects, type \in EventTypes : FsChange(p, type)) \/ Rescan
         \/ Flush \/ Crash \/ InitScheduler \/ Advance
  PROVE  Shape'
<1>1. CASE RemoveUnknown \/ (\E p \in Projects, type \in EventTypes : FsChange(p, type)) \/ Rescan
  <2>1. Free /\ UNCHANGED <<now, up, schedules, idCounter, saveTimer, file, toFire, toMark, toRemove, crashes,
                            sort, fires, gone, lost>>
    BY <1>1 DEF RemoveUnknown, FsChange, Rescan
  <2>2. watched' \subseteq Projects
    <3>1. SyncWatchers(schedules) \/ watched' = watched
      BY <1>1 DEF RemoveUnknown, FsChange, Rescan
    <3> QED
      BY <3>1, SyncedAreProjects DEF Shape, TypeOK
  <2>3. scanned' \subseteq Projects
    BY <1>1 DEF RemoveUnknown, FsChange, Rescan, Shape, TypeOK
  <2>4. fsEvent' \in [Projects -> EventTypes \cup {"none"}]
    BY <1>1 DEF RemoveUnknown, FsChange, Rescan, Shape, TypeOK
  <2>5. TypeOK'
    BY <2>1, <2>2, <2>3, <2>4 DEF Shape, TypeOK
  <2> QED
    BY <2>1, <2>5 DEF Shape, Counted, Loops, Histories
<1>2. CASE Flush
  <2>1. Free /\ Persist(schedules)
        /\ UNCHANGED <<now, up, schedules, idCounter, toFire, toMark, toRemove, scanned, watched, fsEvent,
                       crashes, sort, fires, gone, lost>>
    BY <1>2 DEF Flush
  <2>2. file' \in {file, schedules'} /\ saveTimer' = FALSE
    BY <2>1, PersistWrites
  <2>3. Wf(schedules, sort)' /\ Wf(file, sort)' /\ Counted' /\ Histories'
    BY <2>1, <2>2, ChangeShape DEF Shape, Histories
  <2>4. Loops'
    BY <2>1, NoLoop DEF Free
  <2>5. TypeOK'
    BY <2>1, <2>2, <2>3 DEF Shape, TypeOK, Wf
  <2> QED
    BY <2>3, <2>4, <2>5 DEF Shape
<1>3. CASE Crash
  <2>1. /\ crashes < MaxCrashes /\ crashes' = crashes + 1 /\ up' = FALSE
        /\ lost' = lost \cup (UidsOf(schedules) \ UidsOf(file)) \cup {schedules[id].uid : id \in toFire}
        /\ schedules' = NoSchedules /\ idCounter' = 0 /\ saveTimer' = FALSE
        /\ toFire' = {} /\ toMark' = {} /\ toRemove' = {} /\ watched' = {}
        /\ fsEvent' = [p \in Projects |-> "none"]
        /\ UNCHANGED <<now, file, scanned, sort, fires, gone>>
    BY <1>3 DEF Crash
  <2>2. DOMAIN NoSchedules = {} /\ NoSchedules \in [DOMAIN NoSchedules -> Schedule]
    BY DEF NoSchedules
  <2>3. Wf(schedules, sort)' /\ Wf(file, sort)'
    BY <2>1, <2>2 DEF Shape, Wf, IsStore
  <2>4. lost' \subseteq Uids
    <3>1. UidsOf(schedules) \subseteq Uids
      BY DEF Shape, Wf, IsStore, Schedule, UidsOf
    <3>2. {schedules[id].uid : id \in toFire} \subseteq UidsOf(schedules)
      BY DEF Shape, Loops, UidsOf
    <3> QED
      BY <2>1, <3>1, <3>2 DEF Shape, TypeOK
  <2>5. Loops' /\ Histories' /\ Counted'
    BY <2>1, NoLoop DEF Shape, Histories, Counted, TypeOK
  <2>6. crashes' \in 0 .. MaxCrashes /\ idCounter' \in 0 .. MaxAdds
        /\ fsEvent' \in [Projects -> EventTypes \cup {"none"}]
    BY <2>1, ConstantsAreNumbers DEF Shape, TypeOK
  <2>7. TypeOK'
    BY <2>1, <2>3, <2>4, <2>6 DEF Shape, TypeOK, Wf
  <2> QED
    BY <2>3, <2>5, <2>7 DEF Shape
<1>4. CASE InitScheduler
  <2> DEFINE kept == IF KeepReminders THEN DOMAIN file
                     ELSE {id \in DOMAIN file : file[id].kind # "reminder"}
  <2>1. /\ ~up /\ up' = TRUE /\ idCounter' = LoadedCounter(file)
        /\ schedules' = [id \in kept |-> file[id]]
        /\ UNCHANGED <<file, saveTimer>> \/ PersistNow(schedules')
        /\ lost' = lost \cup {file[id].uid : id \in DOMAIN file \ kept}
        /\ scanned' \in SUBSET Projects
        /\ watched' = EventProjects(file) \cap scanned'
        /\ UNCHANGED <<now, toFire, toMark, toRemove, fsEvent, crashes, sort, fires, gone>>
    BY <1>4 DEF InitScheduler
  <2>2. kept \subseteq DOMAIN file
    OBVIOUS
  <2> HIDE DEF kept
  <2>3. schedules' = Part(file, kept)
    BY <2>1 DEF Part
  <2>4. Wf(schedules', sort) /\ DOMAIN schedules' \subseteq DOMAIN file
    BY <2>2, <2>3, WfPart DEF Shape, Part
  <2>5. file' \in {file, schedules'} /\ saveTimer' \in BOOLEAN
    BY <2>1, PersistWrites DEF PersistNow, Shape, TypeOK
  <2>6. Wf(schedules, sort)' /\ Wf(file, sort)'
    BY <2>1, <2>4, <2>5 DEF Shape
  <2>7. DOMAIN schedules' \cup DOMAIN file' \subseteq DOMAIN file
    BY <2>4, <2>5
  <2>8. Counted'
    BY <2>1, <2>7, CounterLoaded DEF Shape, Counted
  <2>9. Loops' /\ Histories'
    BY <2>1, NoLoop DEF Shape, Loops, Histories
  <2>10. lost' \subseteq Uids
    <3>1. \A id \in DOMAIN file : file[id].uid \in Uids
      BY DEF Shape, Wf, IsStore, Schedule
    <3> QED
      BY <2>1, <3>1 DEF Shape, TypeOK
  <2>11. TypeOK'
    BY <2>1, <2>5, <2>6, <2>10, CounterLoaded DEF Shape, TypeOK, Wf
  <2> QED
    BY <2>6, <2>8, <2>9, <2>11 DEF Shape
<1>5. CASE Advance
  <2>1. /\ now < MaxNow /\ now' = now + 1
        /\ UNCHANGED <<up, schedules, idCounter, saveTimer, file, toFire, toMark, toRemove, scanned, watched,
                       fsEvent, crashes, sort, fires, gone, lost>>
    BY <1>5 DEF Advance
  <2>2. now' \in 0 .. MaxNow /\ \A u \in Uids : fires[u].at \in Int /\ fires[u].at <= now
    BY <2>1, ConstantsAreNumbers DEF Shape, TypeOK, Histories
  <2>3. Histories'
    BY <2>1, <2>2 DEF Shape, TypeOK, Histories
  <2>4. TypeOK'
    BY <2>1, <2>2 DEF Shape, TypeOK
  <2> QED
    BY <2>1, <2>3, <2>4 DEF Shape, Counted, Loops
<1> QED
  BY <1>1, <1>2, <1>3, <1>4, <1>5

LEMMA ShapeStep == Shape /\ [Next]_vars => Shape'
<1> SUFFICES ASSUME Shape, [Next]_vars PROVE Shape'
  OBVIOUS
<1>1. CASE UNCHANGED vars
  BY <1>1 DEF vars, Shape, TypeOK, Counted, Loops, Histories
<1>2. CASE Next
  BY <1>2, AddsKeepShape, RemovalsKeepShape, LoopsKeepShape, SurroundingsKeepShape DEF Next, Users
<1> QED
  BY <1>1, <1>2

THEOREM Invariance == Spec => []Shape
<1>1. Init => Shape
  BY ShapeInitially
<1>2. Shape /\ [Next]_vars => Shape'
  BY ShapeStep
<1> QED
  BY <1>1, <1>2, PTL DEF Spec

(* The types of the stores, the loops and the histories, whatever writes   *)
(* of the file are lost (scheduleStore.js, scheduler.js).                  *)
THEOREM TypeCorrect == Spec => []TypeOK
<1>1. Shape => TypeOK
  BY DEF Shape
<1> QED
  BY Invariance, <1>1, PTL

(* A schedule is never added under an id that is taken, in memory or on    *)
(* file, also after a restart read the counter back                        *)
(* (scheduleStore.js:56), and even if writes of the file were lost.        *)
THEOREM NextIdsAreFree == Spec => []IdsAreFree
<1>1. Shape => IdsAreFree
  BY DEF Shape, Counted, IdsAreFree
<1> QED
  BY Invariance, <1>1, PTL

-----------------------------------------------------------------------------
(* What the stores know of fires and removals, when no write is lost *)

LEMMA PersistIsWhole ==
  ASSUME LosesWrites = FALSE, NEW m, Persist(m)
  PROVE  file' = m
BY DEF Persist

LEMMA KeptPart ==
  ASSUME NEW store, NEW fi, NEW go, NEW S \in SUBSET DOMAIN store, Kept(store, fi, go)
  PROVE  Kept(Part(store, S), fi, go)
<1>1. DOMAIN Part(store, S) = S /\ \A id \in S : Part(store, S)[id] = store[id]
  BY DEF Part
<1> QED
  BY <1>1 DEF Kept

LEMMA DurableInitially == Init => Durable
<1> SUFFICES ASSUME Init PROVE Durable
  OBVIOUS
<1>1. DOMAIN NoSchedules = {}
  BY DEF NoSchedules
<1> QED
  BY <1>1 DEF Init, Durable, Kept, MarkedFirst

(* Outside of the loops, and before anything fires.                        *)
LEMMA NothingMarked ==
  ASSUME toFire' = {}
  PROVE  MarkedFirst'
BY DEF MarkedFirst

LEMMA PushDurable ==
  ASSUME Shape, Durable, Free, UNCHANGED <<up, now, fires, gone, toFire, toMark, toRemove>>,
         NEW s \in Schedule, s.uid = Len(sort) + 1, Len(sort) + 1 \in Uids, Push(s)
  PROVE  Durable'
<1>1. /\ Len(sort) \in Nat /\ idCounter \in Nat /\ gone \subseteq 1 .. Len(sort)
      /\ fires \in [Uids -> [n : Nat, at : Int]]
      /\ \A id \in DOMAIN schedules : id <= idCounter /\ id \in Nat
  <2>1. sort \in Seq(AllSorts) /\ idCounter \in Nat /\ fires \in [Uids -> [n : Nat, at : Int]]
    BY ConstantsAreNumbers DEF Shape, TypeOK
  <2>2. gone \subseteq 1 .. Len(sort)
    BY DEF Shape, Histories
  <2>3. \A id \in DOMAIN schedules : id <= idCounter
    BY DEF Shape, Counted, Free
  <2>4. DOMAIN schedules \subseteq Nat
    BY ConstantsAreNumbers DEF Shape, Wf, IsStore, Ids
  <2> QED
    BY <2>1, <2>2, <2>3, <2>4
<1>2. s.uid \notin gone /\ ~(fires[s.uid].n > 0)
  BY <1>1 DEF Shape, Histories
<1>3. schedules' = [id \in DOMAIN schedules \cup {idCounter + 1} |->
                      IF id = idCounter + 1 THEN s ELSE schedules[id]]
      /\ file' = file
  BY DEF Push, PersistLater
<1>4. /\ DOMAIN schedules' = DOMAIN schedules \cup {idCounter + 1}
      /\ \A id \in DOMAIN schedules' :
           \/ schedules'[id] = s
           \/ id \in DOMAIN schedules /\ schedules'[id] = schedules[id]
  BY <1>1, <1>3
<1>5. Kept(schedules, fires, gone)'
  BY <1>2, <1>4 DEF Durable, Kept
<1>6. Kept(file, fires, gone)'
  BY <1>3 DEF Durable
<1> QED
  BY <1>5, <1>6, NothingMarked DEF Durable, Free

LEMMA AddsAreDurable ==
  ASSUME Shape, Durable,
         \/ \E kt \in Sorts, p \in Projects : AddSchedule(kt, p)
         \/ \E id \in DOMAIN schedules : SnoozeReminder(id)
  PROVE  Durable'
<1>1. now \in Nat /\ \A x \in now .. MaxNow, y \in (now - Every + 1) .. now : x \in Int /\ y \in Int
  BY ConstantsAreNumbers DEF Shape, TypeOK
<1>2. Len(sort) + 1 \in Uids \/ ~(Len(sort) < MaxAdds)
  BY ConstantsAreNumbers DEF Shape, TypeOK, Uids
<1>3. CASE \E kt \in Sorts, p \in Projects : AddSchedule(kt, p)
  <2>1. PICK kt \in Sorts, p \in Projects : AddSchedule(kt, p)
    BY <1>3
  <2>2. kt[1] \in {"reminder", "command"}
        /\ kt[2] \in {"oneshot", "interval", "daily", "weekly"} \cup EventTypes
    BY SchedulerAssumption DEF AllSorts, EventTypes
  <2>3. PICK last \in (now - Every + 1) .. now, fireAt \in now .. MaxNow :
           Push(NewRecord(kt[1], kt[2], p, fireAt, last))
    BY <2>1 DEF AddSchedule
  <2> DEFINE s == NewRecord(kt[1], kt[2], p, fireAt, last)
  <2>4. Len(sort) < MaxAdds
    BY <2>3 DEF Push
  <2>5. s \in Schedule /\ s.uid = Len(sort) + 1
    BY <1>1, <1>2, <2>2, <2>4 DEF NewRecord, Schedule
  <2>6. Push(s)
    BY <2>3
  <2> HIDE DEF s
  <2> QED
    BY <1>2, <2>1, <2>4, <2>5, <2>6, PushDurable DEF AddSchedule
<1>4. CASE \E id \in DOMAIN schedules : SnoozeReminder(id)
  <2>1. PICK id \in DOMAIN schedules : SnoozeReminder(id)
    BY <1>4
  <2>2. PICK fireAt \in (now + 1) .. MaxNow :
           Push(NewRecord("reminder", "oneshot", schedules[id].project, fireAt, now))
    BY <2>1 DEF SnoozeReminder
  <2> DEFINE s == NewRecord("reminder", "oneshot", schedules[id].project, fireAt, now)
  <2>3. Len(sort) < MaxAdds /\ schedules[id] \in Schedule
    BY <2>2 DEF Push, Shape, Wf, IsStore
  <2>4. s \in Schedule /\ s.uid = Len(sort) + 1
    BY <1>1, <1>2, <2>3 DEF NewRecord, Schedule
  <2>5. Push(s)
    BY <2>2
  <2> HIDE DEF s
  <2> QED
    BY <1>2, <2>1, <2>3, <2>4, <2>5, PushDurable DEF SnoozeReminder
<1> QED
  BY <1>3, <1>4

(* A removed command stays in the file until the debounced write; a removed *)
(* reminder leaves memory and file at once.                                *)
LEMMA RemovalsAreDurable ==
  ASSUME LosesWrites = FALSE, Shape, Durable, NEW id \in DOMAIN schedules,
         RemoveSchedule(id) \/ RemoveReminder(id) \/ CompleteReminder(id)
  PROVE  Durable'
<1> DEFINE u == schedules[id].uid
<1>1. Free /\ UNCHANGED <<now, up, toFire, fires, sort>>
  BY DEF RemoveSchedule, RemoveReminder, CompleteReminder
<1>2. MarkedFirst'
  BY <1>1, NothingMarked DEF Free
<1>3. schedules[id].kind = sort[u][1]
      /\ (\A i \in DOMAIN schedules : schedules[i].uid = u => i = id)
      /\ (\A i \in DOMAIN file : file[i].uid = u => file[i].kind = sort[u][1])
  BY DEF Shape, Wf
<1>4. CASE RemoveSchedule(id)
  <2>1. schedules[id].kind = "command" /\ schedules' = Part(schedules, DOMAIN schedules \ {id})
        /\ gone' = gone \cup {u} /\ file' = file
    BY <1>4, WithoutPart DEF RemoveSchedule, PersistLater
  <2>2. DOMAIN schedules' = DOMAIN schedules \ {id} /\ \A i \in DOMAIN schedules' : schedules'[i] = schedules[i]
    BY <2>1 DEF Part
  <2>3. Kept(schedules', fires, gone')
    BY <1>3, <2>1, <2>2 DEF Durable, Kept
  <2>4. Kept(file, fires, gone')
    BY <1>3, <2>1 DEF Durable, Kept
  <2> QED
    BY <1>1, <1>2, <2>1, <2>3, <2>4 DEF Durable
<1>5. CASE RemoveReminder(id)
  <2>1. schedules' = Part(schedules, DOMAIN schedules \ {id}) /\ gone' = gone \cup {u}
        /\ file' = schedules'
    BY <1>5, WithoutPart, PersistIsWhole DEF RemoveReminder, PersistNow
  <2>2. DOMAIN schedules' = DOMAIN schedules \ {id} /\ \A i \in DOMAIN schedules' : schedules'[i] = schedules[i]
    BY <2>1 DEF Part
  <2>3. Kept(schedules', fires, gone')
    BY <1>3, <2>1, <2>2 DEF Durable, Kept
  <2> QED
    BY <1>1, <1>2, <2>1, <2>3 DEF Durable
<1>6. CASE CompleteReminder(id)
  <2>1. schedules' = [schedules EXCEPT ![id].completed = ~@] /\ gone' = gone /\ file' = schedules'
    BY <1>6, PersistIsWhole DEF CompleteReminder, PersistNow
  <2>2. schedules \in [DOMAIN schedules -> Schedule]
    BY DEF Shape, Wf, IsStore
  <2>3. DOMAIN schedules' = DOMAIN schedules
        /\ \A i \in DOMAIN schedules :
             /\ schedules'[i].uid = schedules[i].uid /\ schedules'[i].kind = schedules[i].kind
             /\ schedules'[i].type = schedules[i].type /\ schedules'[i].fireAt = schedules[i].fireAt
             /\ schedules'[i].lastFiredAt = schedules[i].lastFiredAt
    BY <2>1, <2>2 DEF Schedule
  <2>4. Kept(schedules', fires, gone)
    BY <2>3 DEF Durable, Kept
  <2> QED
    BY <1>1, <1>2, <2>1, <2>4 DEF Durable
<1> QED
  BY <1>4, <1>5, <1>6

LEMMA DueIsFresh ==
  ASSUME Shape, Kept(schedules, fires, gone), NEW id \in DOMAIN schedules, IsDue(schedules[id], now)
  PROVE  /\ Fresh(schedules[id].uid)
         /\ schedules[id].type = "oneshot" => schedules[id].fireAt <= now /\ fires[schedules[id].uid].n = 0
<1> DEFINE r == schedules[id]
           u == r.uid
<1>1. r \in Schedule /\ u \in Uids /\ sort[u][2] = r.type
  BY DEF Shape, Wf, IsStore, Schedule
<1>2. r.lastFiredAt \in Int /\ r.fireAt \in Int /\ now \in Int /\ fires[u].n \in Nat /\ fires[u].at \in Int
  BY <1>1, ConstantsAreNumbers DEF Schedule, Shape, TypeOK
<1>3. Ripe(r.type, r.fireAt, r.lastFiredAt, now)
  BY DEF IsDue
<1>4. fires[u].n > 0 =>
        fires[u].at <= r.lastFiredAt /\ (r.type = "oneshot" => r.lastFiredAt >= r.fireAt)
  BY <1>2 DEF Kept
<1> HIDE DEF r, u
<1>5. CASE r.type \in {"interval", "daily", "weekly"}
  <2>1. fires[u].n > 0 => Ripe(r.type, 0, fires[u].at, now)
    BY <1>2, <1>3, <1>4, <1>5, RipeSinceEarlier
  <2>2. Fresh(u)
    BY <1>1, <1>2, <1>5, <2>1 DEF Fresh
  <2> QED
    BY <1>5, <2>2 DEF r, u
<1>6. CASE r.type = "oneshot"
  <2>1. now >= r.fireAt /\ r.lastFiredAt < r.fireAt
    BY <1>3, <1>6 DEF Ripe
  <2>2. fires[u].n = 0
    BY <1>2, <1>4, <1>6, <2>1
  <2>3. Fresh(u) /\ r.fireAt <= now
    BY <1>2, <2>1, <2>2 DEF Fresh
  <2> QED
    BY <2>2, <2>3 DEF r, u
<1> QED
  BY <1>3, <1>5, <1>6 DEF Ripe

(* Marks keep what the store knows: they are of the present, and a one-shot *)
(* that has fired is not marked.                                           *)
LEMMA MarkedKept ==
  ASSUME Shape, Kept(schedules, fires, gone), NEW S \in SUBSET DOMAIN schedules,
         \A id \in S : schedules[id].type = "oneshot" => schedules[id].fireAt <= now
  PROVE  Kept(Marked(S), fires, gone)
<1>1. /\ DOMAIN Marked(S) = DOMAIN schedules
      /\ \A id \in DOMAIN schedules :
           /\ Marked(S)[id].uid = schedules[id].uid /\ Marked(S)[id].kind = schedules[id].kind
           /\ Marked(S)[id].type = schedules[id].type /\ Marked(S)[id].fireAt = schedules[id].fireAt
           /\ Marked(S)[id].lastFiredAt = IF id \in S THEN now ELSE schedules[id].lastFiredAt
  BY MarkedSame DEF SameSchedules
<1>2. \A id \in DOMAIN schedules :
        /\ fires[schedules[id].uid].at \in Int /\ fires[schedules[id].uid].at <= now
        /\ schedules[id].fireAt \in Int
  BY DEF Shape, Histories, TypeOK, Wf, IsStore, Schedule
<1>3. now \in Int
  BY ConstantsAreNumbers DEF Shape, TypeOK
<1>4. ASSUME NEW id \in DOMAIN schedules
      PROVE  /\ Marked(S)[id].uid \in gone => Marked(S)[id].kind = "command"
             /\ fires[Marked(S)[id].uid].n > 0 =>
                  /\ Marked(S)[id].lastFiredAt >= fires[Marked(S)[id].uid].at
                  /\ Marked(S)[id].type = "oneshot" => Marked(S)[id].lastFiredAt >= Marked(S)[id].fireAt
  <2>1. CASE id \in S
    BY <1>1, <1>2, <1>3, <2>1 DEF Kept
  <2>2. CASE id \notin S
    BY <1>1, <2>2 DEF Kept
  <2> QED
    BY <2>1, <2>2
<1> QED
  BY <1>1, <1>4 DEF Kept

(* The marks are on file before the first of them fires.                   *)
LEMMA TickIsDurable ==
  ASSUME LosesWrites = FALSE, Shape, Durable, Tick
  PROVE  Durable'
<1> DEFINE due == {id \in DOMAIN schedules : IsDue(schedules[id], now)}
<1>1. /\ Free /\ schedules' = Marked(due) /\ PersistNow(schedules') /\ toFire' = due
      /\ UNCHANGED <<now, sort, fires, gone>>
  BY DEF Tick
<1>2. due \subseteq DOMAIN schedules
      /\ \A id \in due : /\ Fresh(schedules[id].uid)
                         /\ schedules[id].type = "oneshot" => schedules[id].fireAt <= now
  BY DueIsFresh DEF Durable
<1> HIDE DEF due
<1>3. file' = schedules'
  BY <1>1, PersistIsWhole DEF PersistNow
<1>4. Kept(schedules', fires, gone)
  BY <1>1, <1>2, MarkedKept DEF Durable
<1>5. \A id \in due :
        /\ schedules'[id].uid = schedules[id].uid /\ schedules'[id].type = schedules[id].type
        /\ schedules'[id].fireAt = schedules[id].fireAt /\ schedules'[id].lastFiredAt = now
  BY <1>1, <1>2, MarkedSame DEF SameSchedules
<1>6. \A u \in Uids : Fresh(u)' <=> Fresh(u)
  BY <1>1 DEF Fresh
<1>7. \A id \in due : schedules[id].uid \in Uids
  BY <1>2 DEF Shape, Wf, IsStore, Schedule
<1>8. MarkedFirst'
  BY <1>1, <1>2, <1>3, <1>5, <1>6, <1>7 DEF MarkedFirst
<1> QED
  BY <1>1, <1>3, <1>4, <1>8 DEF Durable

LEMMA MarkEventIsDurable ==
  ASSUME LosesWrites = FALSE, Shape, Durable, MarkEvent
  PROVE  Durable'
<1> DEFINE id == Min(toMark)
           u == schedules[id].uid
<1>1. /\ toFire = {} /\ toMark # {}
      /\ \/ UNCHANGED <<schedules, file, toFire>>
         \/ /\ ~(now - schedules[id].lastFiredAt < Throttle)
            /\ schedules' = Marked({id}) /\ PersistNow(schedules') /\ toFire' = {id}
      /\ UNCHANGED <<now, sort, fires, gone>>
  BY DEF MarkEvent
<1>2. toMark \subseteq DOMAIN schedules /\ toMark \subseteq Nat
  BY ConstantsAreNumbers DEF Shape, Loops, Wf, IsStore, Ids
<1>3. id \in toMark
  BY <1>1, <1>2, MinExists
<1> HIDE DEF id
<1>4. id \in DOMAIN schedules /\ schedules[id] \in Schedule /\ schedules[id].type \in EventTypes
      /\ sort[u][2] = schedules[id].type /\ u \in Uids
  BY <1>2, <1>3 DEF Shape, Loops, Wf, IsStore, Schedule
<1>5. CASE UNCHANGED <<schedules, file, toFire>>
  BY <1>1, <1>5, NothingMarked DEF Durable
<1>6. CASE /\ ~(now - schedules[id].lastFiredAt < Throttle)
           /\ schedules' = Marked({id}) /\ PersistNow(schedules') /\ toFire' = {id}
  <2>1. file' = schedules'
    BY <1>6, PersistIsWhole DEF PersistNow
  <2>2. schedules[id].type # "oneshot"
    BY <1>4 DEF EventTypes
  <2>3. Kept(schedules', fires, gone)
    BY <1>4, <1>6, <2>2, MarkedKept DEF Durable
  <2>4. /\ now \in Int /\ Throttle \in Int /\ schedules[id].lastFiredAt \in Int
        /\ fires[u].n \in Nat /\ fires[u].at \in Int
    BY <1>4, ConstantsAreNumbers DEF Shape, TypeOK, Schedule
  <2>5. fires[u].n > 0 => fires[u].at <= schedules[id].lastFiredAt
    BY <1>4, <2>4 DEF Durable, Kept
  <2>6. Fresh(u)
    BY <1>4, <1>6, <2>4, <2>5 DEF Fresh
  <2>7. /\ schedules'[id].uid = u /\ schedules'[id].type = schedules[id].type
        /\ schedules'[id].lastFiredAt = now
    BY <1>4, <1>6, MarkedSame DEF SameSchedules
  <2>8. \A i \in toFire' : Fresh(schedules[i].uid)'
    <3> SUFFICES ASSUME NEW i \in toFire' PROVE Fresh(schedules[i].uid)'
      OBVIOUS
    <3>1. i = id /\ schedules'[i].uid = u
      BY <1>6, <2>7
    <3> QED
      BY <1>1, <2>6, <3>1 DEF Fresh
  <2>9. \A i \in toFire' : schedules'[i].lastFiredAt = now /\ schedules'[i].type # "oneshot"
    BY <1>6, <2>2, <2>7
  <2>10. MarkedFirst'
    BY <1>1, <2>1, <2>8, <2>9 DEF MarkedFirst
  <2> QED
    BY <1>1, <2>1, <2>3, <2>10 DEF Durable
<1> QED
  BY <1>1, <1>5, <1>6

LEMMA FireIsDurable ==
  ASSUME Shape, Durable, Fire
  PROVE  Durable'
<1> DEFINE id == Min(toFire)
           u == schedules[id].uid
<1>1. /\ toFire # {} /\ toFire' = toFire \ {id}
      /\ fires' = [fires EXCEPT ![u] = [n |-> @.n + 1, at |-> now]]
      /\ UNCHANGED <<now, schedules, file, sort, gone>>
  BY DEF Fire
<1>2. toFire \subseteq DOMAIN schedules /\ toFire \subseteq Nat
  BY ConstantsAreNumbers DEF Shape, Loops, Wf, IsStore, Ids
<1>3. id \in toFire
  BY <1>1, <1>2, MinExists
<1> HIDE DEF id
<1>4. id \in DOMAIN schedules /\ u \in Uids /\ fires \in [Uids -> [n : Nat, at : Int]]
  BY <1>2, <1>3 DEF Shape, Wf, IsStore, Schedule, TypeOK
<1>5. file = schedules /\ schedules[id].lastFiredAt = now
      /\ (schedules[id].type = "oneshot" => schedules[id].fireAt <= now)
  BY <1>1, <1>3 DEF Durable, MarkedFirst
<1>6. \A i \in DOMAIN schedules : schedules[i].uid \in Uids /\ (schedules[i].uid = u => i = id)
  BY <1>4 DEF Shape, Wf, IsStore, Schedule
<1>7. fires'[u].at = now /\ \A v \in Uids : v # u => fires'[v] = fires[v]
  BY <1>1, <1>4
<1>8. now \in Int
  BY ConstantsAreNumbers DEF Shape, TypeOK
<1>9. Kept(schedules, fires', gone)
  <2> SUFFICES ASSUME NEW i \in DOMAIN schedules
               PROVE  /\ schedules[i].uid \in gone => schedules[i].kind = "command"
                      /\ fires'[schedules[i].uid].n > 0 =>
                           /\ schedules[i].lastFiredAt >= fires'[schedules[i].uid].at
                           /\ schedules[i].type = "oneshot" => schedules[i].lastFiredAt >= schedules[i].fireAt
    BY DEF Kept
  <2>1. CASE i = id
    <3>1. schedules[id].fireAt \in Int
      BY <1>4 DEF Shape, Wf, IsStore, Schedule
    <3> QED
      BY <1>4, <1>5, <1>7, <1>8, <2>1, <3>1 DEF Durable, Kept
  <2>2. CASE i # id
    <3>1. fires'[schedules[i].uid] = fires[schedules[i].uid]
      BY <1>6, <1>7, <2>2
    <3> QED
      BY <3>1 DEF Durable, Kept
  <2> QED
    BY <2>1, <2>2
<1>10. \A i \in toFire' : Fresh(schedules[i].uid)'
  <2> SUFFICES ASSUME NEW i \in toFire' PROVE Fresh(schedules[i].uid)'
    OBVIOUS
  <2>1. i \in DOMAIN schedules /\ schedules[i].uid \in Uids /\ schedules[i].uid # u
        /\ Fresh(schedules[i].uid)
    BY <1>1, <1>2, <1>6 DEF Durable, MarkedFirst
  <2>2. fires'[schedules[i].uid] = fires[schedules[i].uid]
    BY <1>7, <2>1
  <2> QED
    BY <1>1, <2>1, <2>2 DEF Fresh
<1>11. MarkedFirst'
  BY <1>1, <1>5, <1>10 DEF Durable, MarkedFirst
<1> QED
  BY <1>1, <1>5, <1>9, <1>11 DEF Durable

LEMMA RemoveFiredIsDurable ==
  ASSUME LosesWrites = FALSE, Shape, Durable, RemoveFired
  PROVE  Durable'
<1>1. PICK id \in toRemove : schedules' = Without(schedules, id)
  BY DEF RemoveFired
<1>2. PersistNow(schedules') /\ UNCHANGED <<now, toFire, sort, fires, gone>>
  BY DEF RemoveFired
<1>3. file' = schedules'
  BY <1>2, PersistIsWhole DEF PersistNow
<1>4. schedules' = Part(schedules, DOMAIN schedules \ {id})
  BY <1>1, WithoutPart
<1>5. Kept(schedules', fires, gone)
  BY <1>4, KeptPart DEF Durable
<1>6. \A i \in toFire : i \in DOMAIN schedules /\ i # id /\ schedules'[i] = schedules[i]
  BY <1>1, <1>4 DEF Part, Shape, Loops
<1>7. \A i \in toFire : schedules[i].uid \in Uids
  BY <1>6 DEF Shape, Wf, IsStore, Schedule
<1>9. \A i \in toFire' : Fresh(schedules[i].uid)'
  <2> SUFFICES ASSUME NEW i \in toFire' PROVE Fresh(schedules[i].uid)'
    OBVIOUS
  <2>1. i \in toFire /\ schedules'[i].uid = schedules[i].uid /\ schedules[i].uid \in Uids
        /\ Fresh(schedules[i].uid)
    BY <1>2, <1>6, <1>7 DEF Durable, MarkedFirst
  <2> QED
    BY <1>2, <2>1 DEF Fresh
<1>10. MarkedFirst'
  BY <1>2, <1>3, <1>6, <1>9 DEF Durable, MarkedFirst
<1> QED
  BY <1>2, <1>3, <1>5, <1>10 DEF Durable

LEMMA SurroundingsAreDurable ==
  ASSUME LosesWrites = FALSE, Shape, Durable,
         \/ RemoveUnknown \/ (\E p \in Projects, type \in EventTypes : FsChange(p, type)) \/ Rescan
         \/ (\E p \in Projects : FsTimer(p)) \/ Flush \/ Crash \/ InitScheduler \/ Advance
  PROVE  Durable'
<1>1. CASE \/ RemoveUnknown \/ (\E p \in Projects, type \in EventTypes : FsChange(p, type)) \/ Rescan
           \/ (\E p \in Projects : FsTimer(p))
  <2>1. Free /\ UNCHANGED <<schedules, file, toFire, fires, gone>>
    BY <1>1 DEF RemoveUnknown, FsChange, Rescan, FsTimer
  <2> QED
    BY <2>1, NothingMarked DEF Durable, Free
<1>2. CASE Flush
  <2>1. Free /\ file' = schedules' /\ UNCHANGED <<schedules, toFire, fires, gone>>
    BY <1>2, PersistIsWhole DEF Flush
  <2> QED
    BY <2>1, NothingMarked DEF Durable, Free
<1>3. CASE Crash
  <2>1. schedules' = NoSchedules /\ toFire' = {} /\ UNCHANGED <<file, fires, gone>>
    BY <1>3 DEF Crash
  <2>2. DOMAIN NoSchedules = {}
    BY DEF NoSchedules
  <2>3. Kept(NoSchedules, fires, gone)
    BY <2>2 DEF Kept
  <2> QED
    BY <2>1, <2>3, NothingMarked DEF Durable
<1>4. CASE InitScheduler
  <2> DEFINE kept == IF KeepReminders THEN DOMAIN file
                     ELSE {id \in DOMAIN file : file[id].kind # "reminder"}
  <2>1. /\ ~up /\ schedules' = Part(file, kept)
        /\ file' = file \/ file' = schedules'
        /\ UNCHANGED <<toFire, fires, gone>>
    BY <1>4, PersistIsWhole DEF InitScheduler, PersistNow, Part
  <2>2. kept \subseteq DOMAIN file
    OBVIOUS
  <2> HIDE DEF kept
  <2>3. Kept(schedules', fires, gone)
    BY <2>1, <2>2, KeptPart DEF Durable
  <2>4. toFire' = {}
    BY <2>1 DEF Shape, Loops
  <2> QED
    BY <2>1, <2>3, <2>4, NothingMarked DEF Durable
<1>5. CASE Advance
  <2>1. toFire' = {} /\ UNCHANGED <<schedules, file, fires, gone>>
    BY <1>5 DEF Advance, Free, Shape, Loops
  <2> QED
    BY <2>1, NothingMarked DEF Durable
<1> QED
  BY <1>1, <1>2, <1>3, <1>4, <1>5

LEMMA DurableStep ==
  ASSUME LosesWrites = FALSE
  PROVE  Shape /\ Durable /\ [Next]_vars => Durable'
<1> SUFFICES ASSUME Shape, Durable, [Next]_vars PROVE Durable'
  OBVIOUS
<1>1. CASE UNCHANGED vars
  BY <1>1 DEF vars, Durable, MarkedFirst, Fresh
<1>2. CASE Next
  BY <1>2, AddsAreDurable, RemovalsAreDurable, TickIsDurable, FireIsDurable, RemoveFiredIsDurable,
     MarkEventIsDurable, SurroundingsAreDurable DEF Next, Users
<1> QED
  BY <1>1, <1>2

LEMMA Durability ==
  ASSUME LosesWrites = FALSE
  PROVE  Spec => [](Shape /\ Durable)
<1>1. Init => Shape /\ Durable
  BY ShapeInitially, DurableInitially
<1>2. (Shape /\ Durable) /\ [Next]_vars => (Shape /\ Durable)'
  BY ShapeStep, DurableStep
<1> QED
  BY <1>1, <1>2, PTL DEF Spec

(* A reminder that its user removed does not come back, not even from the  *)
(* file of a server that ended right after (scheduleStore.js:150-160).     *)
THEOREM RemovalsLast ==
  ASSUME LosesWrites = FALSE
  PROVE  Spec => []RemovedStaysRemoved
<1>1. Shape /\ Durable => RemovedStaysRemoved
  <2> SUFFICES ASSUME Shape, Durable, NEW u \in gone, sort[u][1] = "reminder"
               PROVE  u \notin UidsOf(schedules) \cup UidsOf(file)
    BY DEF RemovedStaysRemoved
  <2>1. \A id \in DOMAIN schedules : schedules[id].uid # u
    BY DEF Shape, Wf, Durable, Kept
  <2>2. \A id \in DOMAIN file : file[id].uid # u
    BY DEF Shape, Wf, Durable, Kept
  <2> QED
    BY <2>1, <2>2 DEF UidsOf
<1> QED
  BY Durability, <1>1, PTL

(* Everything due is marked in one write before anything fires             *)
(* (scheduler.js:75-79): no schedule fires twice for one occasion, whatever *)
(* restarts come in between.                                               *)
THEOREM NothingFiresTwice ==
  ASSUME LosesWrites = FALSE
  PROVE  Spec => OncePerOccasion
<1>1. Shape /\ Durable /\ [Next]_vars => [\A u \in Uids : fires'[u] # fires[u] => Fresh(u)]_vars
  <2> SUFFICES ASSUME Shape, Durable, Next
               PROVE  \A u \in Uids : fires'[u] # fires[u] => Fresh(u)
    OBVIOUS
  <2>1. CASE Fire
    <3> DEFINE id == Min(toFire)
    <3>1. toFire # {} /\ fires' = [fires EXCEPT ![schedules[id].uid] = [n |-> @.n + 1, at |-> now]]
      BY <2>1 DEF Fire
    <3>2. toFire \subseteq Nat
      BY ConstantsAreNumbers DEF Shape, Loops, Wf, IsStore, Ids
    <3>3. id \in toFire
      BY <3>1, <3>2, MinExists
    <3> HIDE DEF id
    <3>4. Fresh(schedules[id].uid)
      BY <3>3 DEF Durable, MarkedFirst
    <3>5. \A u \in Uids : u # schedules[id].uid => fires'[u] = fires[u]
      BY <3>1 DEF Shape, TypeOK
    <3> QED
      BY <3>4, <3>5
  <2>2. CASE ~Fire
    <3>1. fires' = fires
      BY <2>2 DEF Next, Users, AddSchedule, SnoozeReminder, RemoveSchedule, RemoveReminder, CompleteReminder,
                  RemoveUnknown, FsChange, Rescan, Tick, RemoveFired, MarkEvent, FsTimer, Flush, Crash,
                  InitScheduler, Advance
    <3> QED
      BY <3>1
  <2> QED
    BY <2>1, <2>2
<1> QED
  BY Durability, <1>1, PTL DEF Spec, OncePerOccasion
=============================================================================
