--------------------------- MODULE ClientLinkProofs ---------------------------
(***************************************************************************)
(* For any number of socket objects, messages, mounts, crashes and         *)
(* toggles: the page has one live socket, the server begins turns in the   *)
(* order in which messages were entered, and the page never shows AI on    *)
(* for a connection that has it off.                                       *)
(***************************************************************************)
EXTENDS ClientLink, SequenceTheorems, TLAPS

(* The types the proofs need. *)
Typed ==
  /\ ready \in [Sockets -> {"connecting", "open", "closing", "closed"}]
  /\ wsRef \in Sockets \cup {NoSocket}
  /\ queue \in Seq(Messages)
  /\ sending \subseteq Messages
  /\ peer \in [Sockets -> BOOLEAN]
  /\ aiOf \in [Sockets -> BOOLEAN]
  /\ turn \in [Sockets -> Messages \cup {NoTurn}]
  /\ requests \in [Sockets -> Seq(Requests)]
  /\ replies \in [Sockets -> Seq(Replies)]
  /\ started \in Seq(Messages)
  /\ used \in [Bounded -> Nat]

(* The server knows the connections that are open at the page's end; what  *)
(* is closed was closed on purpose, and a new socket has nothing in it.    *)
Linked ==
  /\ OneLiveSocket
  /\ mounted => wsRef # NoSocket
  /\ ~mounted => intentional \/ \A s \in Sockets : ready[s] = "closed"
  /\ \A s \in Sockets : peer[s] => ready[s] = "open"
  /\ \A s \in Sockets : ready[s] = "connecting" => requests[s] = <<>> /\ replies[s] = <<>>

-----------------------------------------------------------------------------
(* The way of a message, from the queue over the socket that is open to    *)
(* the turn the server begins for it.                                      *)

Executed(rq) == {rq[i].message : i \in {j \in DOMAIN rq : rq[j].type = "execute"}}
Line == IF IsOpen(ready, wsRef) THEN requests[wsRef] ELSE <<>>

Rising(q) == \A i, j \in DOMAIN q : i < j => q[i] < q[j]
RisingExecutes(rq) ==
  \A i, j \in DOMAIN rq :
    i < j /\ rq[i].type = "execute" /\ rq[j].type = "execute" => rq[i].message < rq[j].message
Elements(q) == {q[i] : i \in DOMAIN q}
Below(S, T) == \A a \in S, b \in T : a < b

(* What was begun, what is on its way, what waits for an open socket and   *)
(* what is queued, of n messages that were entered.                        *)
Ordered(st, rq, sd, q, n) ==
  /\ Rising(st) /\ RisingExecutes(rq) /\ Rising(q)
  /\ \A a, b \in sd : a = b
  /\ Below(Elements(st), Executed(rq) \cup sd \cup Elements(q))
  /\ Below(Executed(rq), sd \cup Elements(q))
  /\ Below(sd, Elements(q))
  /\ Below(Elements(st) \cup Executed(rq) \cup sd \cup Elements(q), {n + 1})

InOrder == Ordered(started, Line, sending, queue, used["messages"])

-----------------------------------------------------------------------------
(* The AI flag of a connection is the last one it told of; a page that     *)
(* knows of no other shows AI on only if it is.                            *)

NoToggle(rq) == \A i \in DOMAIN rq : rq[i].type # "ai_toggle"
NoStatus(rp) == \A i \in DOMAIN rp : rp[i].type # "ai_status"
LastStatusIs(rp, b) ==
  \A i \in DOMAIN rp :
    rp[i].type = "ai_status" /\ (\A j \in DOMAIN rp : j > i => rp[j].type # "ai_status")
      => rp[i].enabled = b

Told ==
  \A s \in Sockets :
    peer[s] =>
      /\ LastStatusIs(replies[s], aiOf[s])
      /\ NoToggle(requests[s]) /\ NoStatus(replies[s]) /\ aiEnabled => aiOf[s]

IInv == Typed /\ Linked /\ InOrder /\ Told

-----------------------------------------------------------------------------
(* Sequences of messages and of requests.                                  *)

LEMMA MessagesAreNumbers == Messages \subseteq Nat
BY BoundsAssumption DEF Messages

LEMMA SeqFacts ==
  ASSUME NEW S, NEW q \in Seq(S)
  PROVE  /\ Len(q) \in Nat /\ DOMAIN q = 1 .. Len(q)
         /\ \A i \in DOMAIN q : q[i] \in S
         /\ q = <<>> <=> Len(q) = 0
BY LenProperties, EmptySeq, ElementOfSeq

LEMMA TailFacts ==
  ASSUME NEW S, NEW q \in Seq(S), q # <<>>
  PROVE  /\ Head(q) \in S /\ Head(q) = q[1] /\ Tail(q) \in Seq(S)
         /\ Len(Tail(q)) = Len(q) - 1 /\ DOMAIN Tail(q) = 1 .. (Len(q) - 1)
         /\ \A i \in DOMAIN Tail(q) : i + 1 \in DOMAIN q /\ Tail(q)[i] = q[i + 1]
         /\ 1 \in DOMAIN q
<1>1. Len(q) \in Nat /\ DOMAIN q = 1 .. Len(q) /\ Len(q) # 0
  BY SeqFacts
<1>2. /\ Head(q) \in S /\ Tail(q) \in Seq(S) /\ Len(Tail(q)) = Len(q) - 1
      /\ \A i \in 1 .. Len(Tail(q)) : Tail(q)[i] = q[i + 1]
  BY HeadTailProperties
<1>3. DOMAIN Tail(q) = 1 .. Len(Tail(q))
  BY <1>2, LenProperties
<1> QED
  BY <1>1, <1>2, <1>3

LEMMA ExecutesType ==
  ASSUME NEW ms \in Seq(Messages)
  PROVE  /\ Executes(ms) \in Seq(Requests) /\ Len(Executes(ms)) = Len(ms)
         /\ \A i \in 1 .. Len(ms) :
              Executes(ms)[i].type = "execute" /\ Executes(ms)[i].message = ms[i]
<1>1. Len(ms) \in Nat /\ DOMAIN ms = 1 .. Len(ms) /\ \A i \in 1 .. Len(ms) : ms[i] \in Messages
  BY SeqFacts
<1>2. \A i \in 1 .. Len(ms) : [type |-> "execute", message |-> ms[i]] \in Requests
  BY <1>1 DEF Requests
<1>3. Executes(ms) = [i \in 1 .. Len(ms) |-> [type |-> "execute", message |-> ms[i]]]
  BY <1>1 DEF Executes
<1>4. Executes(ms) \in [1 .. Len(ms) -> Requests]
  BY <1>2, <1>3
<1>5. Executes(ms) \in Seq(Requests)
  BY <1>1, <1>4, SeqDef
<1>6. Len(Executes(ms)) = Len(ms)
  BY <1>1, <1>3, <1>5, LenProperties
<1>7. \A i \in 1 .. Len(ms) : Executes(ms)[i].type = "execute" /\ Executes(ms)[i].message = ms[i]
  BY <1>3
<1> QED
  BY <1>5, <1>6, <1>7

(* Executes(ms) behind rq.                                                 *)
LEMMA WrittenFacts ==
  ASSUME NEW rq \in Seq(Requests), NEW ms \in Seq(Messages)
  PROVE  /\ rq \o Executes(ms) \in Seq(Requests)
         /\ DOMAIN (rq \o Executes(ms)) = 1 .. (Len(rq) + Len(ms))
         /\ \A i \in 1 .. (Len(rq) + Len(ms)) :
              IF i <= Len(rq) THEN (rq \o Executes(ms))[i] = rq[i]
              ELSE /\ i - Len(rq) \in 1 .. Len(ms)
                   /\ (rq \o Executes(ms))[i].type = "execute"
                   /\ (rq \o Executes(ms))[i].message = ms[i - Len(rq)]
<1>1. Executes(ms) \in Seq(Requests) /\ Len(Executes(ms)) = Len(ms)
  BY ExecutesType
<1>2. Len(rq) \in Nat /\ Len(ms) \in Nat
  BY SeqFacts
<1>3. /\ rq \o Executes(ms) \in Seq(Requests)
      /\ Len(rq \o Executes(ms)) = Len(rq) + Len(ms)
      /\ \A i \in 1 .. (Len(rq) + Len(ms)) :
            (rq \o Executes(ms))[i] = IF i <= Len(rq) THEN rq[i] ELSE Executes(ms)[i - Len(rq)]
  <2> DEFINE es == Executes(ms)
  <2>1. es \in Seq(Requests) /\ Len(es) = Len(ms)
    BY <1>1
  <2> HIDE DEF es
  <2>2. /\ rq \o es \in Seq(Requests) /\ Len(rq \o es) = Len(rq) + Len(es)
        /\ \A i \in 1 .. (Len(rq) + Len(es)) :
              (rq \o es)[i] = IF i <= Len(rq) THEN rq[i] ELSE es[i - Len(rq)]
    BY <2>1, ConcatProperties
  <2> QED
    BY <2>1, <2>2 DEF es
<1>4. DOMAIN (rq \o Executes(ms)) = 1 .. (Len(rq) + Len(ms))
  BY <1>3, LenProperties
<1>5. \A i \in 1 .. (Len(rq) + Len(ms)) : i > Len(rq) => i - Len(rq) \in 1 .. Len(ms)
  BY <1>2
<1> QED
  BY <1>2, <1>3, <1>4, <1>5, ExecutesType

LEMMA ExecutedAreMessages ==
  ASSUME NEW rq \in Seq(Requests), NEW i \in DOMAIN rq, rq[i].type = "execute"
  PROVE  rq[i].message \in Messages
<1>1. rq[i] \in Requests
  BY SeqFacts
<1> QED
  BY <1>1 DEF Requests

-----------------------------------------------------------------------------
(* What keeps the order.                                                   *)

(* The first messages of q are written, the rest stays.                    *)
LEMMA WrittenInOrder ==
  ASSUME NEW st \in Seq(Messages), NEW rq \in Seq(Requests), NEW q \in Seq(Messages),
         NEW ms \in Seq(Messages), NEW rest \in Seq(Messages), NEW n \in Nat,
         Ordered(st, rq, {}, q, n),
         Len(q) = Len(ms) + Len(rest),
         \A i \in 1 .. Len(ms) : ms[i] = q[i],
         \A i \in 1 .. Len(rest) : rest[i] = q[i + Len(ms)]
  PROVE  Ordered(st, rq \o Executes(ms), {}, rest, n)
<1> DEFINE new == rq \o Executes(ms)
<1>1. /\ Len(q) \in Nat /\ DOMAIN q = 1 .. Len(q) /\ \A i \in DOMAIN q : q[i] \in Nat
      /\ Len(ms) \in Nat /\ Len(rest) \in Nat /\ DOMAIN rest = 1 .. Len(rest)
      /\ Len(rq) \in Nat /\ DOMAIN rq = 1 .. Len(rq)
  BY SeqFacts, MessagesAreNumbers
<1>2. /\ DOMAIN new = 1 .. (Len(rq) + Len(ms))
      /\ \A i \in DOMAIN new :
           \/ i \in DOMAIN rq /\ new[i] = rq[i]
           \/ /\ i > Len(rq) /\ i - Len(rq) \in 1 .. Len(ms)
              /\ new[i].type = "execute" /\ new[i].message = q[i - Len(rq)]
  <2>1. /\ DOMAIN new = 1 .. (Len(rq) + Len(ms))
        /\ \A i \in 1 .. (Len(rq) + Len(ms)) :
              IF i <= Len(rq) THEN new[i] = rq[i]
              ELSE /\ i - Len(rq) \in 1 .. Len(ms)
                   /\ new[i].type = "execute" /\ new[i].message = ms[i - Len(rq)]
    BY WrittenFacts
  <2> HIDE DEF new
  <2>2. ASSUME NEW i \in 1 .. (Len(rq) + Len(ms))
        PROVE  IF i <= Len(rq) THEN i \in DOMAIN rq ELSE i > Len(rq)
    BY <1>1
  <2> QED
    BY <2>1, <2>2
<1> HIDE DEF new
<1>3. \A i \in 1 .. Len(ms) : i \in DOMAIN q
  BY <1>1
<1>4. \A i \in 1 .. Len(rest) : i + Len(ms) \in DOMAIN q
  BY <1>1
<1>5. \A i, j \in DOMAIN q : i < j => q[i] < q[j]
  BY DEF Ordered, Rising
<1>6. Rising(rest)
  <2> SUFFICES ASSUME NEW i \in 1 .. Len(rest), NEW j \in 1 .. Len(rest), i < j
               PROVE  rest[i] < rest[j]
    BY <1>1 DEF Rising
  <2>1. i + Len(ms) < j + Len(ms)
    BY <1>1
  <2> QED
    BY <1>4, <1>5, <2>1
<1>7. \A a \in Executed(rq), i \in DOMAIN q : a < q[i]
  BY DEF Ordered, Below, Elements
<1>8. RisingExecutes(new)
  <2> SUFFICES ASSUME NEW i \in DOMAIN new, NEW j \in DOMAIN new, i < j,
                      new[i].type = "execute", new[j].type = "execute"
               PROVE  new[i].message < new[j].message
    BY DEF RisingExecutes
  <2>1. CASE i \in DOMAIN rq /\ new[i] = rq[i] /\ j \in DOMAIN rq /\ new[j] = rq[j]
    BY <2>1 DEF Ordered, RisingExecutes
  <2>2. CASE i \in DOMAIN rq /\ new[i] = rq[i]
             /\ j - Len(rq) \in 1 .. Len(ms) /\ new[j].message = q[j - Len(rq)]
    BY <1>3, <1>7, <2>2 DEF Executed
  <2>3. CASE /\ i > Len(rq) /\ i - Len(rq) \in 1 .. Len(ms) /\ new[i].message = q[i - Len(rq)]
             /\ j - Len(rq) \in 1 .. Len(ms) /\ new[j].message = q[j - Len(rq)]
    BY <1>1, <1>2, <1>3, <1>5, <2>3
  <2>4. i > Len(rq) => j \notin DOMAIN rq
    BY <1>1, <1>2
  <2> QED
    BY <1>2, <2>1, <2>2, <2>3, <2>4
<1>9. \A a \in Executed(new) : a \in Executed(rq) \/ \E k \in 1 .. Len(ms) : a = q[k]
  BY <1>2 DEF Executed
<1>10. \A b \in Elements(rest) : \E k \in DOMAIN q : k > Len(ms) /\ b = q[k]
  BY <1>1, <1>4 DEF Elements
<1>11. Below(Executed(new), Elements(rest))
  <2> SUFFICES ASSUME NEW a \in Executed(new), NEW b \in Elements(rest)
               PROVE  a < b
    BY DEF Below
  <2>1. PICK l \in DOMAIN q : l > Len(ms) /\ b = q[l]
    BY <1>10
  <2>2. CASE a \in Executed(rq)
    BY <1>7, <2>1, <2>2
  <2>3. ASSUME NEW k \in 1 .. Len(ms), a = q[k]
        PROVE  a < b
    <3>1. k \in DOMAIN q /\ k < l
      BY <1>1, <1>3, <2>1
    <3> QED
      BY <1>5, <2>1, <2>3, <3>1
  <2> QED
    BY <1>9, <2>2, <2>3
<1>12. Executed(new) \subseteq Executed(rq) \cup Elements(q) /\ Elements(rest) \subseteq Elements(q)
  BY <1>3, <1>9, <1>10 DEF Elements
<1>13. /\ Below(Elements(st), Executed(new) \cup {} \cup Elements(rest))
       /\ Below(Elements(st) \cup Executed(new) \cup {} \cup Elements(rest), {n + 1})
  BY <1>12 DEF Ordered, Below
<1> QED
  BY <1>6, <1>8, <1>11, <1>13 DEF Ordered, Below, new

(* The next message waits for an open socket.                              *)
LEMMA WaitingInOrder ==
  ASSUME NEW st, NEW rq, NEW q \in Seq(Messages), NEW n \in Nat,
         Ordered(st, rq, {}, q, n), q # <<>>
  PROVE  Ordered(st, rq, {Head(q)}, Tail(q), n)
<1>1. /\ Head(q) = q[1] /\ 1 \in DOMAIN q
      /\ \A i \in DOMAIN Tail(q) : i \in Nat \ {0} /\ i + 1 \in DOMAIN q /\ Tail(q)[i] = q[i + 1]
  BY TailFacts, SeqFacts
<1>2. Elements(Tail(q)) \subseteq Elements(q) /\ Head(q) \in Elements(q)
  BY <1>1 DEF Elements
<1>3. Rising(Tail(q)) /\ Below({Head(q)}, Elements(Tail(q)))
  BY <1>1 DEF Ordered, Rising, Below, Elements
<1> QED
  BY <1>2, <1>3 DEF Ordered, Below

(* The message that waited stands before the others again.                 *)
LEMMA FirstInOrder ==
  ASSUME NEW st, NEW rq, NEW q \in Seq(Messages), NEW n \in Nat, NEW m \in Messages,
         NEW sd, m \in sd, Ordered(st, rq, sd, q, n)
  PROVE  /\ <<m>> \o q \in Seq(Messages) /\ Len(<<m>> \o q) = Len(q) + 1
         /\ \A i \in 1 .. (Len(q) + 1) : (<<m>> \o q)[i] = IF i = 1 THEN m ELSE q[i - 1]
         /\ Ordered(st, rq, {}, <<m>> \o q, n)
<1> DEFINE new == <<m>> \o q
<1>1. /\ Len(q) \in Nat /\ DOMAIN q = 1 .. Len(q)
      /\ <<m>> \in Seq(Messages) /\ Len(<<m>>) = 1 /\ <<m>>[1] = m
  BY SeqFacts
<1>2. /\ new \in Seq(Messages) /\ Len(new) = Len(q) + 1
      /\ \A i \in 1 .. (Len(q) + 1) : new[i] = IF i = 1 THEN m ELSE q[i - 1]
  <2>1. /\ new \in Seq(Messages) /\ Len(new) = 1 + Len(q)
        /\ \A i \in 1 .. (1 + Len(q)) : new[i] = IF i <= 1 THEN <<m>>[i] ELSE q[i - 1]
    BY <1>1, ConcatProperties
  <2> QED
    BY <1>1, <2>1
<1> HIDE DEF new
<1>3. DOMAIN new = 1 .. (Len(q) + 1)
  BY <1>2, SeqFacts
<1>4. Elements(new) \subseteq {m} \cup Elements(q)
  BY <1>1, <1>2, <1>3 DEF Elements
<1>5. Rising(new)
  <2>1. /\ \A k, l \in DOMAIN q : k < l => q[k] < q[l]
        /\ \A k \in DOMAIN q : m < q[k]
    BY DEF Ordered, Rising, Below, Elements
  <2> SUFFICES ASSUME NEW i \in 1 .. (Len(q) + 1), NEW j \in 1 .. (Len(q) + 1), i < j
               PROVE  new[i] < new[j]
    BY <1>3 DEF Rising
  <2>2. j # 1 /\ j - 1 \in DOMAIN q /\ new[j] = q[j - 1]
    BY <1>1, <1>2
  <2>3. CASE i = 1
    BY <1>2, <2>1, <2>2, <2>3
  <2>4. CASE i # 1
    <3>1. i - 1 \in DOMAIN q /\ new[i] = q[i - 1] /\ i - 1 < j - 1
      BY <1>1, <1>2, <2>4
    <3> QED
      BY <2>1, <2>2, <3>1
  <2> QED
    BY <2>3, <2>4
<1>6. Ordered(st, rq, {}, new, n)
  BY <1>4, <1>5 DEF Ordered, Below
<1> QED
  BY <1>2, <1>6 DEF new

(* A message is entered.                                                   *)
LEMMA EnteredInOrder ==
  ASSUME NEW st \in Seq(Messages), NEW rq \in Seq(Requests), NEW sd \in SUBSET Messages,
         NEW q \in Seq(Messages), NEW n \in Nat, n + 1 \in Messages, Ordered(st, rq, sd, q, n)
  PROVE  Append(q, n + 1) \in Seq(Messages) /\ Ordered(st, rq, sd, Append(q, n + 1), n + 1)
<1> DEFINE new == Append(q, n + 1)
<1>1. Len(q) \in Nat /\ DOMAIN q = 1 .. Len(q)
  BY SeqFacts
<1>2. /\ new \in Seq(Messages) /\ Len(new) = Len(q) + 1
      /\ \A i \in 1 .. Len(q) : new[i] = q[i]
      /\ new[Len(q) + 1] = n + 1
  BY AppendProperties
<1> HIDE DEF new
<1>3. DOMAIN new = 1 .. (Len(q) + 1)
  BY <1>2, SeqFacts
<1>4. Elements(new) \subseteq Elements(q) \cup {n + 1}
  BY <1>1, <1>2, <1>3 DEF Elements
<1>5. Rising(new)
  BY <1>1, <1>2, <1>3 DEF Ordered, Rising, Below, Elements
<1>6. Elements(st) \cup Executed(rq) \cup sd \cup Elements(new) \subseteq Nat
  <2>1. Elements(st) \subseteq Nat /\ Elements(new) \subseteq Nat
    BY <1>2, SeqFacts, MessagesAreNumbers DEF Elements
  <2>2. Executed(rq) \subseteq Nat
    BY ExecutedAreMessages, MessagesAreNumbers DEF Executed
  <2> QED
    BY <2>1, <2>2, MessagesAreNumbers
<1>7. Ordered(st, rq, sd, new, n + 1)
  BY <1>4, <1>5, <1>6 DEF Ordered, Below
<1> QED
  BY <1>2, <1>7 DEF new

(* Whatever is taken away leaves the order.                                *)
LEMMA FewerInOrder ==
  ASSUME NEW st, NEW rq, NEW sd, NEW q, NEW n, Ordered(st, rq, sd, q, n)
  PROVE  /\ Ordered(st, rq, {}, q, n)
         /\ Ordered(st, <<>>, sd, q, n)
         /\ Ordered(st, rq, sd, <<>>, n)
<1>1. Executed(<<>>) = {} /\ Elements(<<>>) = {} /\ RisingExecutes(<<>>) /\ Rising(<<>>)
  BY DEF Executed, Elements, RisingExecutes, Rising
<1> QED
  BY <1>1 DEF Ordered, Below

(* The server reads a request, and begins a turn or not.                   *)
LEMMA ReadInOrder ==
  ASSUME NEW st \in Seq(Messages), NEW rq \in Seq(Requests), NEW sd, NEW q, NEW n,
         Ordered(st, rq, sd, q, n), rq # <<>>
  PROVE  /\ Ordered(st, Tail(rq), sd, q, n)
         /\ Head(rq).type = "execute" => Ordered(Append(st, Head(rq).message), Tail(rq), sd, q, n)
<1>1. /\ Head(rq) = rq[1] /\ 1 \in DOMAIN rq
      /\ \A i \in DOMAIN Tail(rq) : i \in Nat \ {0} /\ i + 1 \in DOMAIN rq /\ Tail(rq)[i] = rq[i + 1]
  BY TailFacts, SeqFacts
<1>2. Executed(Tail(rq)) \subseteq Executed(rq)
  BY <1>1 DEF Executed
<1>3. RisingExecutes(Tail(rq))
  BY <1>1 DEF Ordered, RisingExecutes
<1>4. Ordered(st, Tail(rq), sd, q, n)
  BY <1>2, <1>3 DEF Ordered, Below
<1>5. ASSUME Head(rq).type = "execute"
      PROVE  Ordered(Append(st, Head(rq).message), Tail(rq), sd, q, n)
  <2> DEFINE m == Head(rq).message
             new == Append(st, m)
  <2>1. m \in Executed(rq) /\ m \in Messages
    BY <1>1, <1>5, ExecutedAreMessages DEF Executed
  <2>2. Below({m}, Executed(Tail(rq)))
    BY <1>1, <1>5 DEF Ordered, RisingExecutes, Below, Executed
  <2>3. Len(st) \in Nat /\ DOMAIN st = 1 .. Len(st)
    BY SeqFacts
  <2>4. /\ new \in Seq(Messages) /\ Len(new) = Len(st) + 1
        /\ \A i \in 1 .. Len(st) : new[i] = st[i]
        /\ new[Len(st) + 1] = m
    BY <2>1, AppendProperties
  <2>5. DOMAIN new = 1 .. (Len(st) + 1)
    BY <2>4, SeqFacts
  <2> HIDE DEF new, m
  <2>6. Elements(new) \subseteq Elements(st) \cup {m}
    BY <2>3, <2>4, <2>5 DEF Elements
  <2>7. Rising(new)
    <3>1. /\ \A k, l \in DOMAIN st : k < l => st[k] < st[l]
          /\ \A k \in DOMAIN st : st[k] < m
      BY <2>1 DEF Ordered, Rising, Below, Elements
    <3> SUFFICES ASSUME NEW i \in 1 .. (Len(st) + 1), NEW j \in 1 .. (Len(st) + 1), i < j
                 PROVE  new[i] < new[j]
      BY <2>5 DEF Rising
    <3>2. i \in DOMAIN st /\ new[i] = st[i]
      BY <2>3, <2>4
    <3>3. (j \in DOMAIN st /\ new[j] = st[j]) \/ new[j] = m
      BY <2>3, <2>4
    <3> QED
      BY <3>1, <3>2, <3>3
  <2>8. Ordered(new, Tail(rq), sd, q, n)
    BY <1>2, <1>3, <2>1, <2>2, <2>6, <2>7 DEF Ordered, Below
  <2> QED
    BY <2>8 DEF new, m
<1> QED
  BY <1>4, <1>5

(* An AI toggle is written.                                                *)
LEMMA ToggleInOrder ==
  ASSUME NEW st, NEW rq \in Seq(Requests), NEW sd, NEW q, NEW n, NEW b \in BOOLEAN,
         Ordered(st, rq, sd, q, n)
  PROVE  Ordered(st, Append(rq, [type |-> "ai_toggle", enabled |-> b]), sd, q, n)
<1> DEFINE t == [type |-> "ai_toggle", enabled |-> b]
           new == Append(rq, t)
<1>1. t \in Requests /\ t.type # "execute"
  BY DEF Requests
<1>2. Len(rq) \in Nat /\ DOMAIN rq = 1 .. Len(rq)
  BY SeqFacts
<1>3. /\ new \in Seq(Requests) /\ Len(new) = Len(rq) + 1
      /\ \A i \in 1 .. Len(rq) : new[i] = rq[i]
      /\ new[Len(rq) + 1].type # "execute"
  BY <1>1, AppendProperties
<1>4. DOMAIN new = 1 .. (Len(rq) + 1)
  BY <1>3, SeqFacts
<1> HIDE DEF new
<1>5. \A i \in DOMAIN new : new[i].type = "execute" => i \in DOMAIN rq /\ new[i] = rq[i]
  BY <1>2, <1>3, <1>4
<1>6. Executed(new) \subseteq Executed(rq) /\ (RisingExecutes(rq) => RisingExecutes(new))
  BY <1>5 DEF Executed, RisingExecutes
<1>7. Ordered(st, new, sd, q, n)
  BY <1>6 DEF Ordered, Below
<1> QED
  BY <1>7 DEF new

-----------------------------------------------------------------------------
(* The pump, on the queue q and the line behind a socket that is open.     *)

LineOf(open) == IF open THEN requests[wsRef] ELSE <<>>

LEMMA PumpKeeps ==
  ASSUME Typed, NEW q \in Seq(Messages), NEW busy, NEW open \in BOOLEAN, NEW n \in Nat,
         open => wsRef \in Sockets,
         Ordered(started, LineOf(open), sending, q, n),
         Pump(q, busy, open)
  PROVE  /\ queue' \in Seq(Messages) /\ sending' \in SUBSET Messages
         /\ requests' \in [Sockets -> Seq(Requests)]
         /\ \A t \in Sockets : requests'[t] = requests[t] \/ (open /\ t = wsRef)
         /\ \A t \in Sockets : NoToggle(requests'[t]) => NoToggle(requests[t])
         /\ Ordered(started, IF open THEN requests'[wsRef] ELSE <<>>, sending', queue', n)
<1>1. /\ started \in Seq(Messages) /\ sending \in SUBSET Messages
      /\ requests \in [Sockets -> Seq(Requests)]
  BY DEF Typed
<1>2. CASE sending # {} \/ busy \/ q = <<>>
  <2>1. queue' = q /\ sending' = sending /\ requests' = requests
    BY <1>2 DEF Pump
  <2> QED
    BY <1>1, <2>1 DEF LineOf
<1>3. CASE sending = {} /\ ~busy /\ q # <<>> /\ ~open
  <2>1. queue' = Tail(q) /\ sending' = {Head(q)} /\ requests' = requests
    BY <1>3 DEF Pump
  <2>2. Ordered(started, LineOf(open), {Head(q)}, Tail(q), n)
    BY <1>3, WaitingInOrder
  <2>3. Head(q) \in Messages /\ Tail(q) \in Seq(Messages)
    BY <1>3, TailFacts
  <2> QED
    BY <1>1, <1>3, <2>1, <2>2, <2>3 DEF LineOf
<1>4. ASSUME NEW ms \in Seq(Messages), NEW rest \in Seq(Messages),
             sending = {}, sending' = {}, open, queue' = rest, Transmit(ms),
             Len(q) = Len(ms) + Len(rest),
             \A i \in 1 .. Len(ms) : ms[i] = q[i],
             \A i \in 1 .. Len(rest) : rest[i] = q[i + Len(ms)]
      PROVE  /\ requests' \in [Sockets -> Seq(Requests)]
             /\ \A t \in Sockets : requests'[t] = requests[t] \/ (open /\ t = wsRef)
             /\ \A t \in Sockets : NoToggle(requests'[t]) => NoToggle(requests[t])
             /\ Ordered(started, requests'[wsRef], sending', queue', n)
  <2> DEFINE rq == requests[wsRef]
             new == rq \o Executes(ms)
  <2>1. rq \in Seq(Requests) /\ wsRef \in Sockets
    BY <1>1, <1>4
  <2>2. Ordered(started, rq, {}, q, n)
    BY <1>4 DEF LineOf
  <2>3. Ordered(started, new, {}, rest, n)
    <3> HIDE DEF rq
    <3> QED
      BY <1>1, <1>4, <2>1, <2>2, WrittenInOrder
  <2>4. /\ new \in Seq(Requests)
        /\ NoToggle(new) => NoToggle(rq)
    <3> HIDE DEF rq
    <3>1. /\ rq \o Executes(ms) \in Seq(Requests)
          /\ DOMAIN (rq \o Executes(ms)) = 1 .. (Len(rq) + Len(ms))
          /\ \A i \in 1 .. (Len(rq) + Len(ms)) : i <= Len(rq) => (rq \o Executes(ms))[i] = rq[i]
      BY <2>1, WrittenFacts
    <3>2. Len(rq) \in Nat /\ DOMAIN rq = 1 .. Len(rq) /\ Len(ms) \in Nat
      BY <2>1, SeqFacts
    <3> HIDE DEF new
    <3>3. \A i \in DOMAIN rq : i \in DOMAIN new /\ new[i] = rq[i]
      BY <3>1, <3>2 DEF new
    <3> QED
      BY <3>1, <3>3 DEF NoToggle, new
  <2> HIDE DEF new
  <2>5. requests' = [requests EXCEPT ![wsRef] = new]
    BY <1>4 DEF Transmit, new
  <2> QED
    BY <1>1, <1>4, <2>1, <2>3, <2>4, <2>5
<1>5. CASE sending = {} /\ ~busy /\ q # <<>> /\ open /\ aiEnabled
  <2>1. queue' = <<>> /\ Transmit(q) /\ sending' = {}
    BY <1>5 DEF Pump
  <2> DEFINE rest == <<>>
  <2>2. rest \in Seq(Messages) /\ Len(rest) = 0 /\ Len(q) \in Nat
    BY SeqFacts
  <2>3. queue' = rest
    BY <2>1
  <2> HIDE DEF rest
  <2>4. Len(q) = Len(q) + Len(rest) /\ \A i \in 1 .. Len(rest) : rest[i] = q[i + Len(q)]
    BY <2>2
  <2>5. /\ requests' \in [Sockets -> Seq(Requests)]
        /\ \A t \in Sockets : requests'[t] = requests[t] \/ (open /\ t = wsRef)
        /\ \A t \in Sockets : NoToggle(requests'[t]) => NoToggle(requests[t])
        /\ Ordered(started, requests'[wsRef], sending', queue', n)
    BY <1>4, <1>5, <2>1, <2>2, <2>3, <2>4
  <2> QED
    BY <1>1, <1>5, <2>1, <2>2, <2>3, <2>5
<1>6. CASE sending = {} /\ ~busy /\ q # <<>> /\ open /\ ~aiEnabled
  <2>1. queue' = Tail(q) /\ Transmit(<<Head(q)>>) /\ sending' = {}
    BY <1>6 DEF Pump
  <2>2. /\ Head(q) \in Messages /\ Head(q) = q[1] /\ Tail(q) \in Seq(Messages)
        /\ Len(Tail(q)) = Len(q) - 1
        /\ \A i \in 1 .. Len(Tail(q)) : Tail(q)[i] = q[i + 1]
        /\ Len(q) \in Nat
    BY <1>6, TailFacts, SeqFacts
  <2> DEFINE first == <<Head(q)>>
  <2>3. first \in Seq(Messages) /\ Len(first) = 1 /\ first[1] = q[1] /\ Transmit(first)
    BY <2>1, <2>2
  <2> HIDE DEF first
  <2>4. /\ Len(q) = Len(first) + Len(Tail(q))
        /\ \A i \in 1 .. Len(first) : first[i] = q[i]
        /\ \A i \in 1 .. Len(Tail(q)) : Tail(q)[i] = q[i + Len(first)]
    BY <2>2, <2>3
  <2>5. /\ requests' \in [Sockets -> Seq(Requests)]
        /\ \A t \in Sockets : requests'[t] = requests[t] \/ (open /\ t = wsRef)
        /\ \A t \in Sockets : NoToggle(requests'[t]) => NoToggle(requests[t])
        /\ Ordered(started, requests'[wsRef], sending', queue', n)
    BY <1>4, <1>6, <2>1, <2>2, <2>3, <2>4
  <2> QED
    BY <1>1, <1>6, <2>1, <2>2, <2>5
<1> QED
  BY <1>2, <1>3, <1>5, <1>6

-----------------------------------------------------------------------------
(* What the AI flag is told by.                                            *)

(* The page reads a reply.                                                 *)
LEMMA HeardFacts ==
  ASSUME NEW rp \in Seq(Replies), NEW b, rp # <<>>, LastStatusIs(rp, b)
  PROVE  /\ Head(rp) \in Replies /\ Tail(rp) \in Seq(Replies) /\ LastStatusIs(Tail(rp), b)
         /\ Head(rp).type = "ai_status" /\ NoStatus(Tail(rp)) => Head(rp).enabled = b
         /\ Head(rp).type # "ai_status" /\ NoStatus(Tail(rp)) => NoStatus(rp)
<1>1. /\ Head(rp) \in Replies /\ Head(rp) = rp[1] /\ Tail(rp) \in Seq(Replies) /\ 1 \in DOMAIN rp
      /\ DOMAIN Tail(rp) = 1 .. (Len(rp) - 1)
      /\ \A i \in DOMAIN Tail(rp) : i + 1 \in DOMAIN rp /\ Tail(rp)[i] = rp[i + 1]
      /\ Len(rp) \in Nat /\ DOMAIN rp = 1 .. Len(rp)
  BY TailFacts, SeqFacts
<1>2. \A j \in DOMAIN rp : j # 1 => j - 1 \in DOMAIN Tail(rp) /\ Tail(rp)[j - 1] = rp[j]
  <2> SUFFICES ASSUME NEW j \in 1 .. Len(rp), j # 1
               PROVE  j - 1 \in DOMAIN Tail(rp) /\ Tail(rp)[j - 1] = rp[j]
    BY <1>1
  <2>1. j - 1 \in 1 .. (Len(rp) - 1)
    BY <1>1
  <2>2. Tail(rp)[j - 1] = rp[(j - 1) + 1]
    BY <1>1, <2>1
  <2> QED
    BY <1>1, <2>1, <2>2
<1>3. LastStatusIs(Tail(rp), b)
  <2> SUFFICES ASSUME NEW i \in DOMAIN Tail(rp), Tail(rp)[i].type = "ai_status",
                      \A j \in DOMAIN Tail(rp) : j > i => Tail(rp)[j].type # "ai_status"
               PROVE  Tail(rp)[i].enabled = b
    BY DEF LastStatusIs
  <2>1. i + 1 \in DOMAIN rp /\ rp[i + 1].type = "ai_status"
    BY <1>1
  <2>2. ASSUME NEW j \in DOMAIN rp, j > i + 1 PROVE rp[j].type # "ai_status"
    <3>1. j # 1 /\ j - 1 > i
      BY <1>1, <2>2
    <3> QED
      BY <1>2, <3>1
  <2>3. rp[i + 1].enabled = b
    BY <2>1, <2>2 DEF LastStatusIs
  <2> QED
    BY <1>1, <2>3
<1>4. ASSUME NoStatus(Tail(rp)), NEW j \in DOMAIN rp, j # 1
      PROVE  rp[j].type # "ai_status"
  BY <1>2, <1>4 DEF NoStatus
<1>5. Head(rp).type = "ai_status" /\ NoStatus(Tail(rp)) => Head(rp).enabled = b
  <2> SUFFICES ASSUME rp[1].type = "ai_status", NoStatus(Tail(rp))
               PROVE  rp[1].enabled = b
    BY <1>1
  <2>1. \A j \in DOMAIN rp : j > 1 => rp[j].type # "ai_status"
    BY <1>1, <1>4
  <2> QED
    BY <1>1, <2>1 DEF LastStatusIs
<1>6. Head(rp).type # "ai_status" /\ NoStatus(Tail(rp)) => NoStatus(rp)
  BY <1>1, <1>4 DEF NoStatus
<1> QED
  BY <1>1, <1>3, <1>5, <1>6

(* The server writes a reply that is no status ...                         *)
LEMMA RepliedFacts ==
  ASSUME NEW rp \in Seq(Replies), NEW rs \in Seq(Replies), NoStatus(rs)
  PROVE  /\ rp \o rs \in Seq(Replies)
         /\ \A b : LastStatusIs(rp, b) => LastStatusIs(rp \o rs, b)
         /\ NoStatus(rp \o rs) => NoStatus(rp)
<1> DEFINE new == rp \o rs
<1>1. /\ Len(rp) \in Nat /\ DOMAIN rp = 1 .. Len(rp)
      /\ Len(rs) \in Nat /\ DOMAIN rs = 1 .. Len(rs)
  BY SeqFacts
<1>2. /\ new \in Seq(Replies) /\ Len(new) = Len(rp) + Len(rs)
      /\ \A i \in 1 .. (Len(rp) + Len(rs)) :
           new[i] = IF i <= Len(rp) THEN rp[i] ELSE rs[i - Len(rp)]
  BY ConcatProperties
<1> HIDE DEF new
<1>3. DOMAIN new = 1 .. (Len(rp) + Len(rs))
  BY <1>2, SeqFacts
<1>4. \A i \in DOMAIN rp : i \in DOMAIN new /\ new[i] = rp[i]
  BY <1>1, <1>2, <1>3
<1>5. ASSUME NEW i \in DOMAIN new, i \notin DOMAIN rp PROVE new[i].type # "ai_status"
  <2>1. i - Len(rp) \in DOMAIN rs /\ new[i] = rs[i - Len(rp)]
    BY <1>1, <1>2, <1>3, <1>5
  <2> QED
    BY <2>1 DEF NoStatus
<1>6. ASSUME NEW b, LastStatusIs(rp, b) PROVE LastStatusIs(new, b)
  <2> SUFFICES ASSUME NEW i \in DOMAIN new, new[i].type = "ai_status",
                      \A j \in DOMAIN new : j > i => new[j].type # "ai_status"
               PROVE  new[i].enabled = b
    BY DEF LastStatusIs
  <2>1. i \in DOMAIN rp /\ rp[i].type = "ai_status"
    BY <1>4, <1>5
  <2>2. \A j \in DOMAIN rp : j > i => rp[j].type # "ai_status"
    BY <1>4
  <2> QED
    BY <1>4, <1>6, <2>1, <2>2 DEF LastStatusIs
<1>7. NoStatus(new) => NoStatus(rp)
  BY <1>4 DEF NoStatus
<1> QED
  BY <1>2, <1>6, <1>7 DEF new

(* ... or the status of the connection.                                    *)
LEMMA ToldFacts ==
  ASSUME NEW rp \in Seq(Replies), NEW b \in BOOLEAN
  PROVE  /\ rp \o <<AiStatus(b)>> \in Seq(Replies)
         /\ LastStatusIs(rp \o <<AiStatus(b)>>, b) /\ ~NoStatus(rp \o <<AiStatus(b)>>)
<1> DEFINE told == <<AiStatus(b)>>
           new == rp \o told
<1>1. /\ AiStatus(b) \in Replies /\ AiStatus(b).type = "ai_status" /\ AiStatus(b).enabled = b
  BY DEF AiStatus, Replies
<1>2. told \in Seq(Replies) /\ Len(told) = 1 /\ told[1] = AiStatus(b)
  BY <1>1
<1> HIDE DEF told
<1>3. Len(rp) \in Nat /\ DOMAIN rp = 1 .. Len(rp)
  BY SeqFacts
<1>4. /\ new \in Seq(Replies) /\ Len(new) = Len(rp) + 1
      /\ new[Len(rp) + 1] = AiStatus(b)
  <2>1. /\ new \in Seq(Replies) /\ Len(new) = Len(rp) + Len(told)
        /\ \A i \in 1 .. (Len(rp) + Len(told)) :
             new[i] = IF i <= Len(rp) THEN rp[i] ELSE told[i - Len(rp)]
    BY <1>2, ConcatProperties
  <2> QED
    BY <1>2, <1>3, <2>1
<1> HIDE DEF new
<1>5. DOMAIN new = 1 .. (Len(rp) + 1) /\ Len(rp) + 1 \in DOMAIN new
  BY <1>3, <1>4, SeqFacts
<1>6. ASSUME NEW i \in DOMAIN new, i # Len(rp) + 1 PROVE Len(rp) + 1 > i
  BY <1>3, <1>5, <1>6
<1>7. LastStatusIs(new, b)
  BY <1>1, <1>4, <1>5, <1>6 DEF LastStatusIs
<1>8. ~NoStatus(new)
  BY <1>1, <1>4, <1>5 DEF NoStatus
<1> QED
  BY <1>4, <1>7, <1>8 DEF new, told

(* What the server reads of the toggle, and what the page writes.          *)
LEMMA ToggleFacts ==
  ASSUME NEW rq \in Seq(Requests), NEW b \in BOOLEAN
  PROVE  /\ Append(rq, [type |-> "ai_toggle", enabled |-> b]) \in Seq(Requests)
         /\ ~NoToggle(Append(rq, [type |-> "ai_toggle", enabled |-> b]))
         /\ rq # <<>> => /\ Head(rq) \in Requests /\ Tail(rq) \in Seq(Requests)
                         /\ Head(rq).type # "ai_toggle" /\ NoToggle(Tail(rq)) => NoToggle(rq)
<1> DEFINE t == [type |-> "ai_toggle", enabled |-> b]
           new == Append(rq, t)
<1>1. t \in Requests /\ t.type = "ai_toggle"
  BY DEF Requests
<1>2. Len(rq) \in Nat /\ DOMAIN rq = 1 .. Len(rq)
  BY SeqFacts
<1>3. new \in Seq(Requests) /\ Len(new) = Len(rq) + 1 /\ new[Len(rq) + 1].type = "ai_toggle"
  BY <1>1, AppendProperties
<1>4. DOMAIN new = 1 .. (Len(rq) + 1)
  BY <1>3, SeqFacts
<1> HIDE DEF new
<1>5. ~NoToggle(new)
  BY <1>2, <1>3, <1>4 DEF NoToggle
<1>6. ASSUME rq # <<>>
      PROVE  /\ Head(rq) \in Requests /\ Tail(rq) \in Seq(Requests)
             /\ Head(rq).type # "ai_toggle" /\ NoToggle(Tail(rq)) => NoToggle(rq)
  <2>1. /\ Head(rq) \in Requests /\ Head(rq) = rq[1] /\ Tail(rq) \in Seq(Requests)
        /\ DOMAIN Tail(rq) = 1 .. (Len(rq) - 1)
        /\ \A i \in DOMAIN Tail(rq) : Tail(rq)[i] = rq[i + 1]
    BY <1>6, TailFacts
  <2>2. ASSUME NoToggle(Tail(rq)), NEW j \in DOMAIN rq, j # 1 PROVE rq[j].type # "ai_toggle"
    <3>1. j - 1 \in DOMAIN Tail(rq) /\ (j - 1) + 1 = j
      BY <1>2, <2>1, <2>2
    <3>2. Tail(rq)[j - 1] = rq[j]
      BY <2>1, <3>1
    <3> QED
      BY <2>2, <3>1, <3>2 DEF NoToggle
  <2>3. Head(rq).type # "ai_toggle" /\ NoToggle(Tail(rq)) => NoToggle(rq)
    BY <2>1, <2>2 DEF NoToggle
  <2> QED
    BY <2>1, <2>3
<1> QED
  BY <1>3, <1>5, <1>6 DEF new

(* One bounded thing happens.                                              *)
LEMMA UseFacts ==
  ASSUME Typed, NEW x \in Bounded, Use(x)
  PROVE  /\ used' \in [Bounded -> Nat] /\ used["messages"] \in Nat
         /\ x # "messages" => used'["messages"] = used["messages"]
         /\ x = "messages" => /\ used'["messages"] = used["messages"] + 1
                              /\ used["messages"] + 1 \in Messages
<1>1. used \in [Bounded -> Nat] /\ "messages" \in Bounded
  BY DEF Typed, Bounded
<1>2. used' = [used EXCEPT ![x] = used[x] + 1] /\ used[x] < Bound[x]
  BY DEF Use
<1>3. Bound["messages"] = MaxMessages
  BY DEF Bound
<1> QED
  BY <1>1, <1>2, <1>3, BoundsAssumption DEF Messages

-----------------------------------------------------------------------------
(* The invariant.                                                          *)

(* The server's connections are the page's open one.                       *)
LEMMA PeerIsTheSocket ==
  ASSUME IInv
  PROVE  /\ \A t \in Sockets : peer[t] => t = wsRef /\ ready[t] = "open" /\ IsOpen(ready, wsRef)
         /\ \A t \in Sockets : ready[t] \in {"connecting", "open"} => t = wsRef /\ mounted
         /\ timer => mounted
         /\ mounted => wsRef \in Sockets
         /\ wsRef # NoSocket <=> wsRef \in Sockets
<1>1. OneLiveSocket /\ wsRef \in Sockets \cup {NoSocket} /\ (mounted => wsRef # NoSocket)
  BY DEF IInv, Typed, Linked
<1>2. \A t \in Sockets : ready[t] \in {"connecting", "open"} => t = wsRef /\ mounted
  BY <1>1 DEF OneLiveSocket, Live
<1>3. \A t \in Sockets : peer[t] => ready[t] = "open"
  BY DEF IInv, Linked
<1> QED
  BY <1>1, <1>2, <1>3, SocketsAssumption DEF OneLiveSocket, IsOpen

LEMMA InitInv == Init => IInv
<1> SUFFICES ASSUME Init PROVE IInv
  OBVIOUS
<1>1. Typed
  <2>1. <<>> \in Seq(Messages) /\ <<>> \in Seq(Requests) /\ <<>> \in Seq(Replies)
    OBVIOUS
  <2> QED
    BY <2>1 DEF Init, Typed
<1>2. Linked
  BY DEF Init, Linked, OneLiveSocket, Live
<1>3. InOrder
  <2>1. started = <<>> /\ Line = <<>> /\ sending = {} /\ queue = <<>>
    BY DEF Init, Line, IsOpen
  <2>2. Executed(<<>>) = {} /\ Elements(<<>>) = {} /\ RisingExecutes(<<>>) /\ Rising(<<>>)
    BY DEF Executed, Elements, RisingExecutes, Rising
  <2> QED
    BY <2>1, <2>2 DEF InOrder, Ordered, Below
<1>4. Told
  BY DEF Init, Told
<1> QED
  BY <1>1, <1>2, <1>3, <1>4 DEF IInv

(* A new socket object takes the place of the one wsRef named.             *)
LEMMA Connects ==
  ASSUME IInv, ConnectWebSocket, mounted', ~timer', UNCHANGED <<queue, sending, aiEnabled>>,
         UNCHANGED <<aiOf, turn, started>>,
         used' \in [Bounded -> Nat], used'["messages"] = used["messages"]
  PROVE  IInv'
<1>1. PICK s \in Sockets :
        /\ ready[s] = "closed" /\ s # wsRef
        /\ ready' = [(IF wsRef = NoSocket THEN ready ELSE Closing(wsRef)) EXCEPT ![s] = "connecting"]
        /\ peer' = IF wsRef = NoSocket THEN peer ELSE [peer EXCEPT ![wsRef] = FALSE]
        /\ wsRef' = s
        /\ requests' = [requests EXCEPT ![s] = <<>>]
        /\ replies' = [replies EXCEPT ![s] = <<>>]
  BY DEF ConnectWebSocket
<1>2. Typed
  BY DEF IInv
<1>3. ready' \in [Sockets -> {"connecting", "open", "closing", "closed"}]
  BY <1>1, <1>2 DEF Typed, Closing
<1>4. /\ ready'[s] = "connecting"
      /\ \A t \in Sockets : t # s => ready'[t] \in {"closing", "closed"}
  <2>1. \A t \in Sockets : t # wsRef => ready[t] \in {"closing", "closed"}
    BY <1>2, PeerIsTheSocket DEF Typed
  <2>2. wsRef \in Sockets => Closing(wsRef)[wsRef] \in {"closing", "closed"}
    BY <1>2 DEF Typed, Closing
  <2>3. \A t \in Sockets : t # wsRef => Closing(wsRef)[t] = ready[t]
    BY <1>2 DEF Typed, Closing
  <2>4. /\ ready \in [Sockets -> {"connecting", "open", "closing", "closed"}]
        /\ Closing(wsRef) \in [Sockets -> {"connecting", "open", "closing", "closed"}]
    BY <1>2 DEF Typed, Closing
  <2>5. CASE wsRef = NoSocket
    BY <1>1, <2>1, <2>4, <2>5, SocketsAssumption
  <2>6. CASE wsRef # NoSocket
    BY <1>1, <2>1, <2>2, <2>3, <2>4, <2>6, PeerIsTheSocket
  <2> QED
    BY <2>5, <2>6
<1>5. peer' \in [Sockets -> BOOLEAN] /\ \A t \in Sockets : ~peer'[t]
  <2>1. \A t \in Sockets : peer[t] => t = wsRef
    BY PeerIsTheSocket
  <2> QED
    BY <1>1, <1>2, <2>1, SocketsAssumption DEF Typed
<1>6. /\ requests' \in [Sockets -> Seq(Requests)] /\ requests'[s] = <<>>
      /\ replies' \in [Sockets -> Seq(Replies)] /\ replies'[s] = <<>>
  <2>1. <<>> \in Seq(Requests) /\ <<>> \in Seq(Replies)
    OBVIOUS
  <2> QED
    BY <1>1, <1>2, <2>1 DEF Typed
<1>7. Typed'
  BY <1>1, <1>2, <1>3, <1>5, <1>6 DEF Typed
<1>8. Linked'
  <2>1. OneLiveSocket'
    BY <1>1, <1>4 DEF OneLiveSocket, Live
  <2> QED
    BY <1>1, <1>4, <1>5, <1>6, <2>1, SocketsAssumption DEF Linked
<1>9. InOrder'
  <2>1. Line' = <<>>
    BY <1>1, <1>4 DEF Line, IsOpen
  <2>2. Ordered(started, <<>>, sending, queue, used["messages"])
    BY FewerInOrder DEF IInv, InOrder
  <2> QED
    BY <2>1, <2>2 DEF InOrder
<1>10. Told'
  BY <1>5 DEF Told
<1> QED
  BY <1>7, <1>8, <1>9, <1>10 DEF IInv

LEMMA UnmountKeeps == ASSUME IInv, Unmount PROVE IInv'
<1>1. /\ mounted' = FALSE /\ intentional' = TRUE /\ timer' = FALSE
      /\ ready' = Closing(wsRef) /\ peer' = [peer EXCEPT ![wsRef] = FALSE]
      /\ UNCHANGED <<wsRef, queue, sending, aiEnabled, aiOf, turn, requests, replies, started, used>>
      /\ wsRef \in Sockets
  BY PeerIsTheSocket DEF Unmount, outgoing, ai, observed
<1>2. Typed
  BY DEF IInv
<1>3. /\ ready' \in [Sockets -> {"connecting", "open", "closing", "closed"}]
      /\ \A t \in Sockets : ready'[t] \in {"closing", "closed"}
  <2>1. \A t \in Sockets : t # wsRef => ready[t] \in {"closing", "closed"}
    BY <1>2, PeerIsTheSocket DEF Typed
  <2> QED
    BY <1>1, <1>2, <2>1 DEF Typed, Closing
<1>4. peer' \in [Sockets -> BOOLEAN] /\ \A t \in Sockets : ~peer'[t]
  <2>1. \A t \in Sockets : peer[t] => t = wsRef
    BY PeerIsTheSocket
  <2> QED
    BY <1>1, <1>2, <2>1 DEF Typed
<1>5. Typed'
  BY <1>1, <1>2, <1>3, <1>4 DEF Typed
<1>6. Linked'
  BY <1>1, <1>3, <1>4 DEF Linked, OneLiveSocket, Live
<1>7. InOrder'
  <2>1. Line' = <<>>
    BY <1>1, <1>3 DEF Line, IsOpen
  <2>2. Ordered(started, <<>>, sending, queue, used["messages"])
    BY FewerInOrder DEF IInv, InOrder
  <2> QED
    BY <1>1, <2>1, <2>2 DEF InOrder
<1>8. Told'
  BY <1>4 DEF Told
<1> QED
  BY <1>5, <1>6, <1>7, <1>8 DEF IInv

LEMMA ClosedKeeps == ASSUME IInv, NEW s \in Sockets, Closed(s) PROVE IInv'
<1>1. /\ ready' = [ready EXCEPT ![s] = "closed"]
      /\ requests' = [requests EXCEPT ![s] = <<>>]
      /\ replies' = [replies EXCEPT ![s] = <<>>]
      /\ timer' = (timer \/ (~intentional /\ wsRef = s))
      /\ UNCHANGED <<mounted, intentional, wsRef, queue, sending, aiEnabled, peer, aiOf, turn,
                     started, used>>
  BY DEF Closed, outgoing, ai, server, observed
<1>2. Typed /\ Linked
  BY DEF IInv
<1>3. ready[s] # "closed" /\ ~peer[s]
  BY <1>2 DEF Closed, Linked
<1>4. Typed'
  <2>1. <<>> \in Seq(Requests) /\ <<>> \in Seq(Replies)
    OBVIOUS
  <2> QED
    BY <1>1, <1>2, <2>1 DEF Typed
<1>5. OneLiveSocket'
  <2>1. timer' => mounted
    BY <1>1, <1>2, <1>3, PeerIsTheSocket DEF Linked
  <2>2. \A t \in Live' : t \in Live
    BY <1>1, <1>2 DEF Live, Typed
  <2> QED
    BY <1>1, <1>2, <2>1, <2>2 DEF Linked, OneLiveSocket
<1>6. Linked'
  BY <1>1, <1>2, <1>3, <1>5 DEF Linked, Typed
<1>7. InOrder'
  <2>1. Line' = Line \/ Line' = <<>>
    BY <1>1, <1>2 DEF Line, IsOpen, Typed
  <2>2. Ordered(started, <<>>, sending, queue, used["messages"])
    BY FewerInOrder DEF IInv, InOrder
  <2>3. Ordered(started, Line, sending, queue, used["messages"])
    BY DEF IInv, InOrder
  <2> QED
    BY <1>1, <2>1, <2>2, <2>3 DEF InOrder
<1>8. Told'
  <2> SUFFICES ASSUME NEW t \in Sockets, peer'[t]
               PROVE  /\ LastStatusIs(replies'[t], aiOf'[t])
                      /\ NoToggle(requests'[t]) /\ NoStatus(replies'[t]) /\ aiEnabled' => aiOf'[t]
    BY DEF Told
  <2>1. peer[t] /\ t # s
    BY <1>1, <1>3
  <2>2. replies'[t] = replies[t] /\ requests'[t] = requests[t]
    BY <1>1, <1>2, <2>1 DEF Typed
  <2> QED
    BY <1>1, <2>1, <2>2 DEF IInv, Told
<1> QED
  BY <1>4, <1>6, <1>7, <1>8 DEF IInv

LEMMA OpenedKeeps == ASSUME IInv, NEW s \in Sockets, Opened(s) PROVE IInv'
<1>1. /\ ready[s] = "connecting"
      /\ ready' = [ready EXCEPT ![s] = "open"]
      /\ intentional' = FALSE /\ timer' = FALSE
      /\ peer' = [peer EXCEPT ![s] = TRUE]
      /\ aiOf' = [aiOf EXCEPT ![s] = FALSE]
      /\ turn' = [turn EXCEPT ![s] = NoTurn]
      /\ replies' = [replies EXCEPT ![s] = <<AiStatus(FALSE)>>]
      /\ Pump(queue, FALSE, IsOpen(ready', wsRef))
      /\ UNCHANGED <<mounted, wsRef, aiEnabled, started, used>>
  BY DEF Opened, FlushSendQueue, ai, observed
<1>2. Typed /\ Linked
  BY DEF IInv
<1>3. s = wsRef /\ mounted /\ wsRef # NoSocket
  BY <1>1, PeerIsTheSocket
<1>4. /\ ready' \in [Sockets -> {"connecting", "open", "closing", "closed"}] /\ ready'[s] = "open"
      /\ \A t \in Sockets : t # s => ready'[t] = ready[t]
  BY <1>1, <1>2 DEF Typed
<1>5. \A t \in Sockets : t # s => ready[t] \in {"closing", "closed"} /\ ~peer[t]
  BY <1>2, <1>3, PeerIsTheSocket DEF Typed
<1>6. IsOpen(ready', wsRef) = TRUE
  BY <1>3, <1>4 DEF IsOpen
<1>7. Pump(queue, FALSE, TRUE)
  BY <1>1, <1>6
<1>8. requests[wsRef] = <<>> /\ replies[wsRef] = <<>>
  BY <1>1, <1>2, <1>3 DEF Linked
<1>9. Ordered(started, LineOf(TRUE), sending, queue, used["messages"])
  <2>1. Line = <<>>
    BY <1>1, <1>3 DEF Line, IsOpen
  <2> QED
    BY <1>8, <2>1 DEF LineOf, IInv, InOrder
<1>10. /\ queue' \in Seq(Messages) /\ sending' \in SUBSET Messages
       /\ requests' \in [Sockets -> Seq(Requests)]
       /\ \A t \in Sockets : requests'[t] = requests[t] \/ t = wsRef
       /\ Ordered(started, requests'[wsRef], sending', queue', used["messages"])
  <2>1. used["messages"] \in Nat /\ queue \in Seq(Messages)
    BY <1>2 DEF Typed, Bounded
  <2> QED
    BY <1>2, <1>3, <1>7, <1>9, <2>1, PumpKeeps
<1>11. /\ <<AiStatus(FALSE)>> \in Seq(Replies) /\ ~NoStatus(<<AiStatus(FALSE)>>)
       /\ LastStatusIs(<<AiStatus(FALSE)>>, FALSE)
  BY DEF AiStatus, Replies, NoStatus, LastStatusIs
<1>12. Typed'
  BY <1>1, <1>2, <1>4, <1>10, <1>11 DEF Typed
<1>13. Linked'
  <2>1. OneLiveSocket'
    BY <1>1, <1>3, <1>4, <1>5 DEF OneLiveSocket, Live
  <2>2. \A t \in Sockets : peer'[t] => t = s
    BY <1>1, <1>2, <1>5 DEF Typed
  <2> QED
    BY <1>1, <1>3, <1>4, <1>5, <2>1, <2>2 DEF Linked
<1>14. InOrder'
  <2>1. Line' = requests'[wsRef]
    BY <1>1, <1>6 DEF Line, IsOpen
  <2> QED
    BY <1>1, <1>10, <2>1 DEF InOrder
<1>15. Told'
  <2>1. \A t \in Sockets : peer'[t] => t = s
    BY <1>1, <1>2, <1>5 DEF Typed
  <2>2. aiOf'[s] = FALSE /\ replies'[s] = <<AiStatus(FALSE)>>
    BY <1>1, <1>2 DEF Typed
  <2> QED
    BY <1>11, <2>1, <2>2 DEF Told
<1> QED
  BY <1>12, <1>13, <1>14, <1>15 DEF IInv

(* What leaves the sockets as they are.                                    *)
LEMMA SocketsStay ==
  ASSUME IInv, UNCHANGED <<mounted, intentional, timer, wsRef, ready, peer>>,
         \A t \in Sockets :
           (requests'[t] = requests[t] /\ replies'[t] = replies[t]) \/ ready[t] = "open",
         requests' \in [Sockets -> Seq(Requests)], replies' \in [Sockets -> Seq(Replies)],
         aiOf' \in [Sockets -> BOOLEAN], turn' \in [Sockets -> Messages \cup {NoTurn}],
         started' \in Seq(Messages), queue' \in Seq(Messages), sending' \in SUBSET Messages,
         used' \in [Bounded -> Nat],
         Ordered(started', Line', sending', queue', used'["messages"]),
         Told'
  PROVE  IInv'
<1>1. Typed /\ Linked
  BY DEF IInv
<1>2. Typed'
  BY <1>1 DEF Typed
<1>3. Linked'
  <2>1. OneLiveSocket'
    BY <1>1 DEF Linked, OneLiveSocket, Live
  <2>2. \A t \in Sockets :
          ready[t] = "connecting" => requests'[t] = requests[t] /\ replies'[t] = replies[t]
    OBVIOUS
  <2> QED
    BY <1>1, <2>1, <2>2 DEF Linked
<1>4. InOrder'
  BY DEF InOrder
<1> QED
  BY <1>2, <1>3, <1>4 DEF IInv

(* What writes no AI toggle tells nothing.                                 *)
LEMMA StillTold ==
  ASSUME IInv, UNCHANGED <<peer, aiOf, replies, aiEnabled>>,
         \A t \in Sockets : NoToggle(requests'[t]) => NoToggle(requests[t])
  PROVE  Told'
BY DEF IInv, Told

(* One message more was entered than were before.                          *)
LEMMA LaterInOrder ==
  ASSUME NEW st \in Seq(Messages), NEW rq \in Seq(Requests), NEW sd \in SUBSET Messages,
         NEW q \in Seq(Messages), NEW n \in Nat, Ordered(st, rq, sd, q, n)
  PROVE  Ordered(st, rq, sd, q, n + 1)
<1>1. Elements(st) \cup Executed(rq) \cup sd \cup Elements(q) \subseteq Nat
  <2>1. Elements(st) \subseteq Nat /\ Elements(q) \subseteq Nat
    BY SeqFacts, MessagesAreNumbers DEF Elements
  <2>2. Executed(rq) \subseteq Nat
    BY ExecutedAreMessages, MessagesAreNumbers DEF Executed
  <2> QED
    BY <2>1, <2>2, MessagesAreNumbers
<1>2. \A a \in Nat : a < n + 1 => a < (n + 1) + 1
  OBVIOUS
<1>3. Below(Elements(st) \cup Executed(rq) \cup sd \cup Elements(q), {(n + 1) + 1})
  BY <1>1, <1>2 DEF Ordered, Below
<1> QED
  BY <1>3 DEF Ordered

LEMMA LineFacts ==
  ASSUME Typed, wsRef # NoSocket <=> wsRef \in Sockets
  PROVE  /\ Line \in Seq(Requests) /\ Line = LineOf(IsOpen(ready, wsRef))
         /\ IsOpen(ready, wsRef) \in BOOLEAN
         /\ IsOpen(ready, wsRef) => wsRef \in Sockets /\ ready[wsRef] = "open"
<1>1. <<>> \in Seq(Requests)
  OBVIOUS
<1> QED
  BY <1>1 DEF Line, LineOf, IsOpen, Typed

LEMMA SendMessageKeeps == ASSUME IInv, SendMessage PROVE IInv'
<1> DEFINE n == used["messages"]
           open == IsOpen(ready, wsRef)
<1>1. /\ Use("messages")
      /\ \/ UNCHANGED <<pending, queue, sending, requests>>
         \/ Pump(Append(queue, n + 1), pending, open)
      /\ UNCHANGED <<mounted, intentional, timer, wsRef, ready, aiEnabled, peer, aiOf, turn,
                     replies, started>>
  BY DEF SendMessage, page, outgoing, ai, server, observed
<1>2. Typed /\ Linked
  BY DEF IInv
<1>3. /\ used' \in [Bounded -> Nat] /\ n \in Nat /\ used'["messages"] = n + 1
      /\ n + 1 \in Messages
  BY <1>1, <1>2, UseFacts DEF Bounded
<1>4. /\ Line \in Seq(Requests) /\ Line = LineOf(open) /\ open \in BOOLEAN
      /\ open => wsRef \in Sockets /\ ready[wsRef] = "open"
  BY <1>2, LineFacts, PeerIsTheSocket
<1>5. /\ started \in Seq(Messages) /\ sending \in SUBSET Messages /\ queue \in Seq(Messages)
      /\ Ordered(started, Line, sending, queue, n)
  BY <1>2 DEF Typed, IInv, InOrder
<1>6. Line' = IF open THEN requests'[wsRef] ELSE <<>>
  BY <1>1 DEF Line, IsOpen
<1> HIDE DEF open, n
<1>7. /\ queue' \in Seq(Messages) /\ sending' \in SUBSET Messages
      /\ requests' \in [Sockets -> Seq(Requests)]
      /\ \A t \in Sockets : requests'[t] = requests[t] \/ (open /\ t = wsRef)
      /\ \A t \in Sockets : NoToggle(requests'[t]) => NoToggle(requests[t])
      /\ Ordered(started, Line', sending', queue', n + 1)
  <2>1. CASE UNCHANGED <<pending, queue, sending, requests>>
    <3>1. Line' = Line
      BY <1>4, <1>6, <2>1 DEF LineOf
    <3>2. Ordered(started, Line, sending, queue, n + 1)
      BY <1>3, <1>4, <1>5, LaterInOrder
    <3> QED
      BY <1>2, <1>5, <2>1, <3>1, <3>2 DEF Typed
  <2>2. CASE Pump(Append(queue, n + 1), pending, open)
    <3>1. /\ Append(queue, n + 1) \in Seq(Messages)
          /\ Ordered(started, LineOf(open), sending, Append(queue, n + 1), n + 1)
      BY <1>3, <1>4, <1>5, EnteredInOrder
    <3>2. n + 1 \in Nat
      BY <1>3
    <3> QED
      BY <1>2, <1>4, <1>6, <2>2, <3>1, <3>2, PumpKeeps
  <2> QED
    BY <1>1, <2>1, <2>2
<1>8. replies' \in [Sockets -> Seq(Replies)]
  BY <1>1, <1>2 DEF Typed
<1>9. \A t \in Sockets : requests'[t] = requests[t] \/ ready[t] = "open"
  BY <1>4, <1>7
<1>10. aiOf' = aiOf /\ turn' = turn /\ started' = started /\ replies' = replies
  BY <1>1
<1>11. Told'
  BY <1>1, <1>7, StillTold
<1> QED
  BY <1>1, <1>2, <1>3, <1>7, <1>8, <1>9, <1>10, <1>11, SocketsStay DEF Typed

LEMMA SendWaitingKeeps == ASSUME IInv, NEW m \in Messages, SendWaiting(m) PROVE IInv'
<1> DEFINE n == used["messages"]
           rq == requests[wsRef]
           all == pumpAi /\ ~pending
           ms == <<m>> \o (IF all THEN queue ELSE <<>>)
           rest == IF all THEN <<>> ELSE queue
<1>1. /\ m \in sending /\ IsOpen(ready, wsRef)
      /\ sending' = sending \ {m}
      /\ requests' = [requests EXCEPT ![wsRef] = rq \o Executes(ms)]
      /\ queue' = rest
      /\ UNCHANGED <<mounted, intentional, timer, wsRef, ready, aiEnabled, peer, aiOf, turn,
                     replies, started, used>>
  BY DEF SendWaiting, Transmit, page, ai, server, observed
<1>2. Typed /\ Linked
  BY DEF IInv
<1>3. /\ started \in Seq(Messages) /\ sending \in SUBSET Messages /\ queue \in Seq(Messages)
      /\ n \in Nat /\ wsRef \in Sockets /\ rq \in Seq(Requests) /\ Line = rq
      /\ Ordered(started, rq, sending, queue, n)
  <2>1. wsRef \in Sockets /\ Line = rq
    BY <1>1, <1>2, LineFacts, PeerIsTheSocket DEF Line
  <2> QED
    BY <1>2, <2>1 DEF Typed, IInv, InOrder, Bounded
<1>4. sending' = {}
  BY <1>1, <1>3 DEF Ordered
<1> DEFINE first == <<m>> \o queue
<1> HIDE DEF n, rq
<1>5. /\ first \in Seq(Messages) /\ Len(first) = Len(queue) + 1
      /\ \A i \in 1 .. (Len(queue) + 1) : first[i] = IF i = 1 THEN m ELSE queue[i - 1]
      /\ Ordered(started, rq, {}, first, n)
  BY <1>1, <1>3, FirstInOrder
<1>6. Len(queue) \in Nat
  BY <1>3, SeqFacts
<1>7. /\ ms \in Seq(Messages) /\ rest \in Seq(Messages) /\ Len(first) = Len(ms) + Len(rest)
      /\ \A i \in 1 .. Len(ms) : ms[i] = first[i]
      /\ \A i \in 1 .. Len(rest) : rest[i] = first[i + Len(ms)]
  <2>1. CASE all
    <3>1. ms = first /\ rest = <<>>
      BY <2>1
    <3> HIDE DEF first, ms, rest
    <3>2. rest \in Seq(Messages) /\ Len(rest) = 0
      BY <3>1
    <3> QED
      BY <1>5, <1>6, <3>1, <3>2
  <2>2. CASE ~all
    <3>1. ms = <<m>> \o <<>> /\ rest = queue
      BY <2>2
    <3> HIDE DEF ms, rest, all
    <3>2. ms \in Seq(Messages) /\ Len(ms) = 1 /\ ms[1] = m
      BY <3>1
    <3> HIDE DEF first
    <3>3. \A i \in 1 .. Len(ms) : ms[i] = first[i]
      BY <1>5, <1>6, <3>2
    <3>4. ASSUME NEW i \in 1 .. Len(rest) PROVE rest[i] = first[i + Len(ms)]
      <4>1. i + Len(ms) \in 1 .. (Len(queue) + 1) /\ i + Len(ms) # 1 /\ (i + Len(ms)) - 1 = i
        BY <1>6, <3>1, <3>2
      <4> QED
        BY <1>5, <3>1, <4>1
    <3> QED
      BY <1>3, <1>5, <1>6, <3>1, <3>2, <3>3, <3>4
  <2> QED
    BY <2>1, <2>2
<1> HIDE DEF first, ms, rest, all
<1>8. Ordered(started, rq \o Executes(ms), {}, rest, n)
  BY <1>3, <1>5, <1>7, WrittenInOrder
<1>9. rq \o Executes(ms) \in Seq(Requests) /\ (NoToggle(rq \o Executes(ms)) => NoToggle(rq))
  <2>1. /\ rq \o Executes(ms) \in Seq(Requests)
        /\ DOMAIN (rq \o Executes(ms)) = 1 .. (Len(rq) + Len(ms))
        /\ \A i \in 1 .. (Len(rq) + Len(ms)) : i <= Len(rq) => (rq \o Executes(ms))[i] = rq[i]
    BY <1>3, <1>7, WrittenFacts
  <2>2. Len(rq) \in Nat /\ DOMAIN rq = 1 .. Len(rq) /\ Len(ms) \in Nat
    BY <1>3, <1>7, SeqFacts
  <2> DEFINE new == rq \o Executes(ms)
  <2> HIDE DEF new
  <2>3. \A i \in DOMAIN rq : i \in DOMAIN new /\ new[i] = rq[i]
    BY <2>1, <2>2 DEF new
  <2> QED
    BY <2>1, <2>3 DEF NoToggle, new
<1> DEFINE new == rq \o Executes(ms)
<1> HIDE DEF new
<1>10. requests' = [requests EXCEPT ![wsRef] = new] /\ new \in Seq(Requests)
  BY <1>1, <1>9 DEF new, rq
<1>11. /\ requests' \in [Sockets -> Seq(Requests)] /\ requests'[wsRef] = new
       /\ \A t \in Sockets : t # wsRef => requests'[t] = requests[t]
  BY <1>2, <1>3, <1>10 DEF Typed
<1>12. \A t \in Sockets : NoToggle(requests'[t]) => NoToggle(requests[t])
  BY <1>9, <1>11 DEF new, rq
<1>13. Ordered(started, Line', sending', queue', used'["messages"])
  <2>1. Line' = new
    BY <1>1, <1>11 DEF Line, IsOpen
  <2> QED
    BY <1>1, <1>4, <1>8, <2>1 DEF new, n
<1>14. /\ replies' \in [Sockets -> Seq(Replies)] /\ used' \in [Bounded -> Nat]
       /\ queue' \in Seq(Messages) /\ sending' \in SUBSET Messages
  BY <1>1, <1>2, <1>4, <1>7 DEF Typed
<1>15. \A t \in Sockets : requests'[t] = requests[t] \/ ready[t] = "open"
  BY <1>1, <1>11 DEF IsOpen
<1>16. Told'
  BY <1>1, <1>12, StillTold
<1> QED
  BY <1>1, <1>2, <1>11, <1>13, <1>14, <1>15, <1>16, SocketsStay DEF Typed

LEMMA GiveUpWaitingKeeps == ASSUME IInv, NEW m \in Messages, GiveUpWaiting(m) PROVE IInv'
<1> DEFINE next == queue # <<>> /\ ~pending
<1>1. /\ m \in sending
      /\ queue' = IF next THEN Tail(queue) ELSE queue
      /\ sending' = (sending \ {m}) \cup (IF next THEN {Head(queue)} ELSE {})
      /\ UNCHANGED <<mounted, intentional, timer, wsRef, ready, aiEnabled, peer, aiOf, turn,
                     requests, replies, started, used>>
  BY DEF GiveUpWaiting, page, ai, server, observed
<1>2. Typed
  BY DEF IInv
<1>3. /\ sending \in SUBSET Messages /\ queue \in Seq(Messages) /\ used["messages"] \in Nat
      /\ Ordered(started, Line, sending, queue, used["messages"])
      /\ Line' = Line
  BY <1>1, <1>2 DEF Typed, IInv, InOrder, Bounded, Line, IsOpen
<1>4. sending \ {m} = {}
  BY <1>1, <1>3 DEF Ordered
<1>5. Ordered(started, Line, {}, queue, used["messages"])
  BY <1>3, FewerInOrder
<1>6. /\ queue' \in Seq(Messages) /\ sending' \in SUBSET Messages
      /\ Ordered(started, Line', sending', queue', used'["messages"])
  <2>1. CASE next
    <3>1. queue' = Tail(queue) /\ sending' = {Head(queue)} /\ queue # <<>>
      BY <1>1, <1>4, <2>1
    <3>2. Tail(queue) \in Seq(Messages) /\ Head(queue) \in Messages
      BY <1>3, <3>1, TailFacts
    <3>3. Ordered(started, Line, {Head(queue)}, Tail(queue), used["messages"])
      BY <1>3, <1>5, <3>1, WaitingInOrder
    <3> QED
      BY <1>1, <1>3, <3>1, <3>2, <3>3
  <2>2. CASE ~next
    BY <1>1, <1>3, <1>4, <1>5, <2>2
  <2> QED
    BY <2>1, <2>2
<1>7. /\ replies' \in [Sockets -> Seq(Replies)] /\ requests' \in [Sockets -> Seq(Requests)]
      /\ used' \in [Bounded -> Nat]
  BY <1>1, <1>2 DEF Typed
<1>8. Told'
  BY <1>1, StillTold
<1> QED
  BY <1>1, <1>2, <1>6, <1>7, <1>8, SocketsStay DEF Typed

LEMMA ReceiveKeeps == ASSUME IInv, NEW s \in Sockets, Receive(s) PROVE IInv'
<1> DEFINE n == used["messages"]
           open == IsOpen(ready, wsRef)
           reply == Head(replies[s])
<1>1. /\ ready[s] = "open" /\ replies[s] # <<>>
      /\ replies' = [replies EXCEPT ![s] = Tail(replies[s])]
      /\ \/ /\ reply.type = "ai_status" /\ aiEnabled' = reply.enabled
            /\ UNCHANGED <<pending, queue, sending, requests>>
         \/ /\ reply.type # "ai_status" /\ aiEnabled' = aiEnabled
            /\ UNCHANGED <<pending, queue, sending, requests>>
         \/ /\ reply.type # "ai_status" /\ aiEnabled' = aiEnabled
            /\ Pump(queue, FALSE, open)
      /\ UNCHANGED <<mounted, intentional, timer, wsRef, ready, peer, aiOf, turn, started, used>>
  BY DEF Receive, FlushSendQueue, page, outgoing, server, observed
<1>2. Typed /\ Told
  BY DEF IInv
<1>3. /\ Line \in Seq(Requests) /\ Line = LineOf(open) /\ open \in BOOLEAN
      /\ open => wsRef \in Sockets /\ ready[wsRef] = "open"
  BY <1>2, LineFacts, PeerIsTheSocket
<1>4. /\ started \in Seq(Messages) /\ sending \in SUBSET Messages /\ queue \in Seq(Messages)
      /\ n \in Nat /\ Ordered(started, Line, sending, queue, n)
      /\ requests \in [Sockets -> Seq(Requests)] /\ replies \in [Sockets -> Seq(Replies)]
      /\ used' \in [Bounded -> Nat] /\ used'["messages"] = n
  BY <1>1, <1>2 DEF Typed, IInv, InOrder, Bounded
<1>5. Line' = IF open THEN requests'[wsRef] ELSE <<>>
  BY <1>1 DEF Line, IsOpen
<1> HIDE DEF open, n
<1>6. /\ queue' \in Seq(Messages) /\ sending' \in SUBSET Messages
      /\ requests' \in [Sockets -> Seq(Requests)]
      /\ \A t \in Sockets : requests'[t] = requests[t] \/ (open /\ t = wsRef)
      /\ \A t \in Sockets : NoToggle(requests'[t]) => NoToggle(requests[t])
      /\ Ordered(started, Line', sending', queue', n)
  <2>1. CASE UNCHANGED <<pending, queue, sending, requests>>
    <3>1. Line' = Line
      BY <1>3, <1>5, <2>1 DEF LineOf
    <3> QED
      BY <1>4, <2>1, <3>1
  <2>2. CASE Pump(queue, FALSE, open)
    BY <1>2, <1>3, <1>4, <1>5, <2>2, PumpKeeps
  <2> QED
    BY <1>1, <2>1, <2>2
<1>7. \A t \in Sockets : t # s => replies'[t] = replies[t]
  BY <1>1, <1>4
<1>8. replies'[s] = Tail(replies[s])
  BY <1>1, <1>4
<1>9. Told'
  <2> SUFFICES ASSUME NEW t \in Sockets, peer'[t]
               PROVE  /\ LastStatusIs(replies'[t], aiOf'[t])
                      /\ NoToggle(requests'[t]) /\ NoStatus(replies'[t]) /\ aiEnabled' => aiOf'[t]
    BY DEF Told
  <2> DEFINE rp == replies[s]
             b == aiOf[s]
  <2>1. t = s /\ peer[s] /\ aiOf'[t] = b
    BY <1>1, PeerIsTheSocket
  <2>2. /\ rp \in Seq(Replies) /\ rp # <<>> /\ LastStatusIs(rp, b)
        /\ NoToggle(requests[s]) /\ NoStatus(rp) /\ aiEnabled => b
    BY <1>1, <1>2, <1>4, <2>1 DEF Told
  <2>3. replies'[t] = Tail(rp) /\ reply = Head(rp)
    BY <1>8, <2>1
  <2> HIDE DEF rp, b, reply
  <2>4. /\ Tail(rp) \in Seq(Replies) /\ LastStatusIs(Tail(rp), b)
        /\ Head(rp).type = "ai_status" /\ NoStatus(Tail(rp)) => Head(rp).enabled = b
        /\ Head(rp).type # "ai_status" /\ NoStatus(Tail(rp)) => NoStatus(rp)
    BY <2>2, HeardFacts
  <2>5. NoToggle(requests'[t]) => NoToggle(requests[s])
    BY <1>6, <2>1
  <2>6. CASE Head(rp).type = "ai_status" /\ aiEnabled' = Head(rp).enabled
    BY <2>1, <2>3, <2>4, <2>6
  <2>7. CASE Head(rp).type # "ai_status" /\ aiEnabled' = aiEnabled
    BY <2>1, <2>2, <2>3, <2>4, <2>5, <2>7
  <2> QED
    BY <1>1, <2>3, <2>6, <2>7
<1>10. replies' \in [Sockets -> Seq(Replies)]
  <2>1. Tail(replies[s]) \in Seq(Replies)
    BY <1>1, <1>4, TailFacts
  <2> QED
    BY <1>1, <1>4, <2>1
<1>11. \A t \in Sockets :
         (requests'[t] = requests[t] /\ replies'[t] = replies[t]) \/ ready[t] = "open"
  BY <1>1, <1>3, <1>6, <1>7
<1> QED
  BY <1>1, <1>2, <1>4, <1>6, <1>9, <1>10, <1>11, SocketsStay DEF Typed

(* The AI toggle: the page's flag, and what the connection is told.        *)
LEMMA SendToggleKeeps ==
  ASSUME IInv, NEW b \in BOOLEAN,
         SendToggle(b) \/ (UNCHANGED requests /\ (aiEnabled' = aiEnabled \/ aiEnabled' = FALSE)),
         UNCHANGED <<mounted, intentional, timer, wsRef, ready, peer, queue, sending, aiOf, turn>>,
         UNCHANGED <<replies, started>>,
         used' \in [Bounded -> Nat], used'["messages"] = used["messages"]
  PROVE  IInv'
<1> DEFINE t == [type |-> "ai_toggle", enabled |-> b]
           new == Append(requests[wsRef], t)
<1>1. Typed /\ Told
  BY DEF IInv
<1>2. Ordered(started, Line, sending, queue, used["messages"])
  BY DEF IInv, InOrder
<1>3. CASE requests' = requests /\ (aiEnabled' = aiEnabled \/ aiEnabled' = FALSE)
  <2>1. Line' = Line
    BY <1>3 DEF Line, IsOpen
  <2>2. Told'
    BY <1>1, <1>3 DEF Told
  <2> QED
    BY <1>1, <1>2, <1>3, <2>1, <2>2, SocketsStay DEF Typed
<1>4. CASE IsOpen(ready, wsRef) /\ requests' = [requests EXCEPT ![wsRef] = new]
  <2>1. wsRef \in Sockets /\ ready[wsRef] = "open" /\ Line = requests[wsRef]
    BY <1>1, <1>4, LineFacts, PeerIsTheSocket DEF Line
  <2>2. requests[wsRef] \in Seq(Requests)
    BY <1>1, <2>1 DEF Typed
  <2>3. new \in Seq(Requests) /\ ~NoToggle(new)
    BY <2>2, ToggleFacts
  <2>4. Ordered(started, new, sending, queue, used["messages"])
    BY <1>2, <2>1, <2>2, ToggleInOrder
  <2> HIDE DEF new
  <2>5. /\ requests' \in [Sockets -> Seq(Requests)] /\ requests'[wsRef] = new
        /\ \A s \in Sockets : s # wsRef => requests'[s] = requests[s]
    BY <1>1, <1>4, <2>1, <2>3 DEF Typed
  <2>6. Line' = new
    BY <1>4, <2>5 DEF Line, IsOpen
  <2>7. Told'
    <3>1. \A s \in Sockets : peer'[s] => s = wsRef /\ ~NoToggle(requests'[s])
      BY <2>3, <2>5, PeerIsTheSocket
    <3> QED
      BY <1>1, <3>1 DEF Told
  <2>8. \A s \in Sockets : requests'[s] = requests[s] \/ ready[s] = "open"
    BY <2>1, <2>5
  <2> QED
    BY <1>1, <2>4, <2>5, <2>6, <2>7, <2>8, SocketsStay DEF Typed
<1> QED
  BY <1>3, <1>4 DEF SendToggle

LEMMA ClickToggleKeeps == ASSUME IInv, ClickToggle PROVE IInv'
<1>1. /\ Use("toggles")
      /\ SendToggle(FALSE) \/ (UNCHANGED requests /\ (aiEnabled' = aiEnabled \/ aiEnabled' = FALSE))
      /\ UNCHANGED <<mounted, intentional, timer, wsRef, ready, peer, queue, sending, aiOf, turn>>
      /\ UNCHANGED <<replies, started>>
  BY DEF ClickToggle, page, outgoing, server, observed
<1>2. used' \in [Bounded -> Nat] /\ used'["messages"] = used["messages"]
  BY <1>1, UseFacts DEF IInv, Bounded
<1> QED
  BY <1>1, <1>2, SendToggleKeeps

LEMMA ToggleOnKeeps == ASSUME IInv, ToggleOn PROVE IInv'
<1>1. /\ SendToggle(TRUE) \/ (UNCHANGED requests /\ (aiEnabled' = aiEnabled \/ aiEnabled' = FALSE))
      /\ UNCHANGED <<mounted, intentional, timer, wsRef, ready, peer, queue, sending, aiOf, turn>>
      /\ UNCHANGED <<replies, started, used>>
  BY DEF ToggleOn, page, outgoing, server, observed
<1>2. used' \in [Bounded -> Nat] /\ used'["messages"] = used["messages"]
  BY <1>1 DEF IInv, Typed
<1> QED
  BY <1>1, <1>2, SendToggleKeeps

(* The server replies, without a word on AI.                               *)
LEMMA ReplyKeeps ==
  ASSUME IInv, NEW s \in Sockets, peer[s], NEW rs \in Seq(Replies), NoStatus(rs), Reply(s, rs),
         UNCHANGED <<mounted, intentional, timer, wsRef, ready, peer, queue, sending, aiEnabled>>,
         UNCHANGED <<aiOf, started>>,
         turn' \in [Sockets -> Messages \cup {NoTurn}],
         \A t \in Sockets : t # s => requests'[t] = requests[t],
         requests' \in [Sockets -> Seq(Requests)],
         NoToggle(requests'[s]) => NoToggle(requests[s]),
         used' \in [Bounded -> Nat],
         Ordered(started', Line', sending', queue', used'["messages"])
  PROVE  IInv'
<1> DEFINE new == replies[s] \o rs
<1>1. Typed /\ Told
  BY DEF IInv
<1>2. replies[s] \in Seq(Replies)
  BY <1>1 DEF Typed
<1>3. /\ new \in Seq(Replies) /\ LastStatusIs(new, aiOf[s])
      /\ NoStatus(new) => NoStatus(replies[s])
  BY <1>1, <1>2, RepliedFacts DEF Told
<1>4. replies' = [replies EXCEPT ![s] = new]
  BY DEF Reply
<1> HIDE DEF new
<1>5. /\ replies' \in [Sockets -> Seq(Replies)] /\ replies'[s] = new
      /\ \A t \in Sockets : t # s => replies'[t] = replies[t]
  BY <1>1, <1>3, <1>4 DEF Typed
<1>6. Told'
  <2>1. \A t \in Sockets : peer'[t] => t = s
    BY PeerIsTheSocket
  <2> QED
    BY <1>1, <1>3, <1>5, <2>1 DEF Told
<1>7. ready[s] = "open"
  BY PeerIsTheSocket
<1> QED
  BY <1>1, <1>5, <1>6, <1>7, SocketsStay DEF Typed

LEMMA NoticesAreReplies ==
  /\ <<End>> \in Seq(Replies) /\ NoStatus(<<End>>)
  /\ <<Answer>> \in Seq(Replies) /\ NoStatus(<<Answer>>)
  /\ <<Notice>> \in Seq(Replies) /\ NoStatus(<<Notice>>)
  /\ <<Notice, End>> \in Seq(Replies) /\ NoStatus(<<Notice, End>>)
BY DEF End, Answer, Notice, Replies, NoStatus

LEMMA EndTurnKeeps == ASSUME IInv, NEW s \in Sockets, EndTurn(s) PROVE IInv'
<1>1. /\ peer[s] /\ turn' = [turn EXCEPT ![s] = NoTurn]
      /\ Reply(s, <<End>>) \/ Reply(s, <<Answer>>)
      /\ UNCHANGED <<mounted, intentional, timer, wsRef, ready, peer, queue, sending, aiEnabled>>
      /\ UNCHANGED <<aiOf, started, requests, used>>
  BY DEF EndTurn, page, outgoing, ai, observed
<1>2. /\ turn' \in [Sockets -> Messages \cup {NoTurn}]
      /\ requests' \in [Sockets -> Seq(Requests)] /\ used' \in [Bounded -> Nat]
  BY <1>1 DEF IInv, Typed
<1>3. Ordered(started', Line', sending', queue', used'["messages"])
  <2>1. Line' = Line
    BY <1>1 DEF Line, IsOpen
  <2> QED
    BY <1>1, <2>1 DEF IInv, InOrder
<1>4. PICK rs \in {<<End>>, <<Answer>>} : Reply(s, rs)
  BY <1>1
<1>5. rs \in Seq(Replies) /\ NoStatus(rs)
  BY NoticesAreReplies
<1> QED
  BY <1>1, <1>2, <1>3, <1>4, <1>5, ReplyKeeps

LEMMA WarnKeeps == ASSUME IInv, NEW s \in Sockets, Warn(s) PROVE IInv'
<1>1. /\ peer[s] /\ Use("notices") /\ Reply(s, <<Notice>>)
      /\ UNCHANGED <<mounted, intentional, timer, wsRef, ready, peer, queue, sending, aiEnabled>>
      /\ UNCHANGED <<aiOf, turn, started, requests>>
  BY DEF Warn, page, outgoing, ai, server, observed
<1>2. /\ turn' \in [Sockets -> Messages \cup {NoTurn}]
      /\ requests' \in [Sockets -> Seq(Requests)]
  BY <1>1 DEF IInv, Typed
<1>3. used' \in [Bounded -> Nat] /\ used'["messages"] = used["messages"]
  BY <1>1, UseFacts DEF IInv, Bounded
<1>4. Ordered(started', Line', sending', queue', used'["messages"])
  <2>1. Line' = Line
    BY <1>1 DEF Line, IsOpen
  <2> QED
    BY <1>1, <1>3, <2>1 DEF IInv, InOrder
<1> QED
  BY <1>1, <1>2, <1>3, <1>4, NoticesAreReplies, ReplyKeeps

(* Connections break; the server ends, and is started again.               *)
LEMMA BreaksKeep ==
  ASSUME IInv, peer' \in [Sockets -> BOOLEAN], \A t \in Sockets : peer'[t] => peer[t],
         UNCHANGED <<mounted, intentional, timer, wsRef, ready, queue, sending, aiEnabled>>,
         UNCHANGED <<aiOf, turn, requests, replies, started>>,
         used' \in [Bounded -> Nat], used'["messages"] = used["messages"]
  PROVE  IInv'
<1>1. Typed'
  BY DEF IInv, Typed
<1>2. Linked'
  BY DEF IInv, Linked, OneLiveSocket, Live
<1>3. InOrder'
  BY DEF IInv, InOrder, Line, IsOpen
<1>4. Told'
  BY DEF IInv, Told
<1> QED
  BY <1>1, <1>2, <1>3, <1>4 DEF IInv

LEMMA BubbleFacts ==
  ASSUME NEW bubble \in {<<>>, <<Notice>>}
  PROVE  bubble \o <<End>> \in Seq(Replies) /\ NoStatus(bubble \o <<End>>)
<1> DEFINE end == <<End>>
           new == bubble \o end
<1>1. /\ bubble \in Seq(Replies) /\ Len(bubble) \in Nat
      /\ \A i \in 1 .. Len(bubble) : bubble[i].type # "ai_status"
  <2>1. CASE bubble = <<>>
    BY <2>1
  <2>2. CASE bubble = <<Notice>>
    <3>1. bubble \in Seq(Replies) /\ Len(bubble) = 1 /\ bubble[1].type = "notice"
      BY <2>2 DEF Notice, Replies
    <3> QED
      BY <3>1
  <2> QED
    BY <2>1, <2>2
<1>2. end \in Seq(Replies) /\ Len(end) = 1 /\ end[1].type # "ai_status"
  BY DEF End, Replies
<1> HIDE DEF end
<1>3. /\ new \in Seq(Replies) /\ Len(new) = Len(bubble) + Len(end)
      /\ \A i \in 1 .. (Len(bubble) + Len(end)) :
           new[i] = IF i <= Len(bubble) THEN bubble[i] ELSE end[i - Len(bubble)]
  BY <1>1, <1>2, ConcatProperties
<1> HIDE DEF new
<1>4. DOMAIN new = 1 .. (Len(bubble) + 1)
  BY <1>2, <1>3, SeqFacts
<1>5. ASSUME NEW i \in DOMAIN new PROVE new[i].type # "ai_status"
  <2>1. CASE i <= Len(bubble)
    BY <1>1, <1>2, <1>3, <1>4, <2>1
  <2>2. CASE ~(i <= Len(bubble))
    <3>1. i - Len(bubble) = 1
      BY <1>1, <1>4, <2>2
    <3> QED
      BY <1>1, <1>2, <1>3, <1>4, <2>2, <3>1
  <2> QED
    BY <2>1, <2>2
<1> QED
  BY <1>3, <1>5 DEF NoStatus, new, end

LEMMA ServeKeeps == ASSUME IInv, NEW s \in Sockets, Serve(s) PROVE IInv'
<1> DEFINE rq == requests[s]
           r == Head(rq)
           n == used["messages"]
<1>1. /\ peer[s] /\ rq # <<>> /\ requests' = [requests EXCEPT ![s] = Tail(rq)]
      /\ UNCHANGED <<mounted, intentional, timer, wsRef, ready, peer, queue, sending, aiEnabled>>
      /\ used' = used
  BY DEF Serve, page, outgoing, ai
<1>2. \/ /\ r.type = "execute"
         /\ turn' = [turn EXCEPT ![s] = r.message] /\ started' = Append(started, r.message)
         /\ UNCHANGED <<aiOf, replies>>
      \/ /\ r.type = "execute" /\ UNCHANGED <<aiOf, turn, started>>
         /\ \E bubble \in {<<>>, <<Notice>>} : Reply(s, bubble \o <<End>>)
      \/ /\ r.type = "ai_toggle" /\ aiOf' = [aiOf EXCEPT ![s] = r.enabled]
         /\ Reply(s, <<AiStatus(r.enabled)>>) /\ UNCHANGED <<turn, started>>
  BY DEF Serve
<1>3. Typed /\ Told
  BY DEF IInv
<1>4. /\ s = wsRef /\ ready[s] = "open" /\ Line = rq
      /\ \A t \in Sockets : peer'[t] => t = s
  BY <1>1, PeerIsTheSocket DEF Line
<1>5. /\ rq \in Seq(Requests) /\ started \in Seq(Messages) /\ replies[s] \in Seq(Replies)
      /\ queue' \in Seq(Messages) /\ sending' \in SUBSET Messages /\ used' \in [Bounded -> Nat]
      /\ Ordered(started, rq, sending, queue, n)
  BY <1>1, <1>3, <1>4 DEF Typed, IInv, InOrder
<1> HIDE DEF rq, r, n
<1>6. /\ r \in Requests /\ Tail(rq) \in Seq(Requests)
      /\ r.type # "ai_toggle" /\ NoToggle(Tail(rq)) => NoToggle(rq)
  BY <1>1, <1>5, ToggleFacts DEF r
<1>7. /\ requests' \in [Sockets -> Seq(Requests)] /\ requests'[s] = Tail(rq)
      /\ \A t \in Sockets : t # s => requests'[t] = requests[t]
      /\ Line' = Tail(rq)
  <2>1. /\ requests' \in [Sockets -> Seq(Requests)] /\ requests'[s] = Tail(rq)
        /\ \A t \in Sockets : t # s => requests'[t] = requests[t]
    BY <1>1, <1>3, <1>6 DEF Typed
  <2> QED
    BY <1>1, <1>4, <2>1, SocketsAssumption DEF Line, IsOpen
<1>8. /\ Ordered(started, Tail(rq), sending, queue, n)
      /\ r.type = "execute" => Ordered(Append(started, r.message), Tail(rq), sending, queue, n)
  BY <1>1, <1>5, ReadInOrder DEF r
<1>9. r.type = "execute" => r.message \in Messages
  <2>1. r = rq[1] /\ 1 \in DOMAIN rq
    BY <1>1, <1>5, TailFacts DEF r
  <2> QED
    BY <1>5, <2>1, ExecutedAreMessages
<1>10. ASSUME r.type = "execute", turn' = [turn EXCEPT ![s] = r.message],
              started' = Append(started, r.message), UNCHANGED <<aiOf, replies>>
       PROVE  IInv'
  <2>1. started' \in Seq(Messages) /\ turn' \in [Sockets -> Messages \cup {NoTurn}]
    BY <1>3, <1>5, <1>9, <1>10, AppendProperties DEF Typed
  <2>2. \A t \in Sockets : NoToggle(requests'[t]) => NoToggle(requests[t])
    BY <1>6, <1>7, <1>10 DEF rq
  <2>3. Told'
    BY <1>1, <1>10, <2>2, StillTold
  <2>4. Ordered(started', Line', sending', queue', used'["messages"])
    BY <1>1, <1>7, <1>8, <1>10 DEF n
  <2>5. \A t \in Sockets :
          (requests'[t] = requests[t] /\ replies'[t] = replies[t]) \/ ready[t] = "open"
    BY <1>4, <1>7, <1>10
  <2> QED
    BY <1>1, <1>3, <1>5, <1>7, <1>10, <2>1, <2>3, <2>4, <2>5, SocketsStay DEF Typed
<1>11. ASSUME r.type = "execute", UNCHANGED <<aiOf, turn, started>>,
              NEW bubble \in {<<>>, <<Notice>>}, Reply(s, bubble \o <<End>>)
       PROVE  IInv'
  <2>1. bubble \o <<End>> \in Seq(Replies) /\ NoStatus(bubble \o <<End>>)
    BY BubbleFacts
  <2>2. NoToggle(requests'[s]) => NoToggle(requests[s])
    BY <1>6, <1>7, <1>11 DEF rq
  <2>3. Ordered(started', Line', sending', queue', used'["messages"])
    BY <1>1, <1>7, <1>8, <1>11 DEF n
  <2>4. turn' \in [Sockets -> Messages \cup {NoTurn}]
    BY <1>3, <1>11 DEF Typed
  <2> QED
    BY <1>1, <1>5, <1>7, <1>11, <2>1, <2>2, <2>3, <2>4, ReplyKeeps
<1>12. ASSUME r.type = "ai_toggle", aiOf' = [aiOf EXCEPT ![s] = r.enabled],
              Reply(s, <<AiStatus(r.enabled)>>), UNCHANGED <<turn, started>>
       PROVE  IInv'
  <2> DEFINE b == r.enabled
             new == replies[s] \o <<AiStatus(b)>>
  <2>1. b \in BOOLEAN
    BY <1>6, <1>12 DEF Requests
  <2>2. replies' = [replies EXCEPT ![s] = new]
    BY <1>12 DEF Reply
  <2> HIDE DEF b
  <2>3. new \in Seq(Replies) /\ LastStatusIs(new, b) /\ ~NoStatus(new)
    BY <1>5, <2>1, ToldFacts
  <2> HIDE DEF new
  <2>4. /\ replies' \in [Sockets -> Seq(Replies)] /\ replies'[s] = new
        /\ \A t \in Sockets : t # s => replies'[t] = replies[t]
    BY <1>3, <2>2, <2>3 DEF Typed
  <2>5. aiOf' \in [Sockets -> BOOLEAN] /\ aiOf'[s] = b
    BY <1>3, <1>12, <2>1 DEF Typed, b
  <2>6. Told'
    BY <1>4, <2>3, <2>4, <2>5 DEF Told
  <2>7. Ordered(started', Line', sending', queue', used'["messages"])
    BY <1>1, <1>7, <1>8, <1>12 DEF n
  <2>8. \A t \in Sockets :
          (requests'[t] = requests[t] /\ replies'[t] = replies[t]) \/ ready[t] = "open"
    BY <1>4, <1>7, <2>4
  <2>9. turn' \in [Sockets -> Messages \cup {NoTurn}] /\ started' \in Seq(Messages)
    BY <1>3, <1>12 DEF Typed
  <2> QED
    BY <1>1, <1>5, <1>7, <2>4, <2>5, <2>6, <2>7, <2>8, <2>9, SocketsStay
<1> QED
  BY <1>2, <1>10, <1>11, <1>12

-----------------------------------------------------------------------------
LEMMA StepInv == IInv /\ [Next]_vars => IInv'
<1> SUFFICES ASSUME IInv, [Next]_vars PROVE IInv'
  OBVIOUS
<1>1. used \in [Bounded -> Nat] /\ peer \in [Sockets -> BOOLEAN]
  BY DEF IInv, Typed
<1>2. CASE Mount
  <2>1. /\ Use("mounts") /\ ConnectWebSocket /\ mounted' /\ timer' = timer /\ ~mounted
        /\ UNCHANGED <<queue, sending, aiEnabled>> /\ UNCHANGED <<aiOf, turn, started>>
    BY <1>2 DEF Mount, outgoing, ai, observed
  <2>2. used' \in [Bounded -> Nat] /\ used'["messages"] = used["messages"]
    BY <2>1, UseFacts DEF IInv, Bounded
  <2>3. ~timer'
    BY <2>1, PeerIsTheSocket
  <2> QED
    BY <2>1, <2>2, <2>3, Connects
<1>3. CASE Unmount
  BY <1>3, UnmountKeeps
<1>4. CASE ReconnectTimer
  <2>1. /\ ConnectWebSocket /\ timer /\ timer' = FALSE /\ mounted' = mounted
        /\ UNCHANGED <<queue, sending, aiEnabled>> /\ UNCHANGED <<aiOf, turn, started>>
        /\ used' = used
    BY <1>4 DEF ReconnectTimer, outgoing, ai, observed
  <2>2. mounted' /\ ~timer'
    BY <2>1, PeerIsTheSocket
  <2> QED
    BY <1>1, <2>1, <2>2, Connects
<1>5. CASE SendMessage
  BY <1>5, SendMessageKeeps
<1>6. CASE ClickToggle
  BY <1>6, ClickToggleKeeps
<1>7. CASE ToggleOn
  BY <1>7, ToggleOnKeeps
<1>8. ASSUME NEW m \in Messages, SendWaiting(m) \/ GiveUpWaiting(m) PROVE IInv'
  BY <1>8, SendWaitingKeeps, GiveUpWaitingKeeps
<1>9. ASSUME NEW s \in Sockets, Opened(s) PROVE IInv'
  BY <1>9, OpenedKeeps
<1>10. ASSUME NEW s \in Sockets, Closed(s) PROVE IInv'
  BY <1>10, ClosedKeeps
<1>11. ASSUME NEW s \in Sockets, Receive(s) PROVE IInv'
  BY <1>11, ReceiveKeeps
<1>12. ASSUME NEW s \in Sockets, Serve(s) PROVE IInv'
  BY <1>12, ServeKeeps
<1>13. ASSUME NEW s \in Sockets, EndTurn(s) PROVE IInv'
  BY <1>13, EndTurnKeeps
<1>14. ASSUME NEW s \in Sockets, Warn(s) PROVE IInv'
  BY <1>14, WarnKeeps
<1>15. ASSUME NEW s \in Sockets, Break(s) PROVE IInv'
  <2>1. /\ Use("breaks") /\ peer' = [peer EXCEPT ![s] = FALSE]
        /\ UNCHANGED <<mounted, intentional, timer, wsRef, ready, queue, sending, aiEnabled>>
        /\ UNCHANGED <<aiOf, turn, requests, replies, started>>
    BY <1>15 DEF Break, page, outgoing, ai, observed
  <2>2. used' \in [Bounded -> Nat] /\ used'["messages"] = used["messages"]
    BY <2>1, UseFacts DEF IInv, Bounded
  <2>3. peer' \in [Sockets -> BOOLEAN] /\ \A t \in Sockets : peer'[t] => peer[t]
    BY <1>1, <2>1
  <2> QED
    BY <2>1, <2>2, <2>3, BreaksKeep
<1>16. CASE Crash
  <2>1. /\ Use("breaks") /\ peer' = [s \in Sockets |-> FALSE]
        /\ UNCHANGED <<mounted, intentional, timer, wsRef, ready, queue, sending, aiEnabled>>
        /\ UNCHANGED <<aiOf, turn, requests, replies, started>>
    BY <1>16 DEF Crash, page, outgoing, ai, observed
  <2>2. used' \in [Bounded -> Nat] /\ used'["messages"] = used["messages"]
    BY <2>1, UseFacts DEF IInv, Bounded
  <2> QED
    BY <2>1, <2>2, BreaksKeep
<1>17. CASE Restart \/ UNCHANGED vars
  <2>1. /\ UNCHANGED <<mounted, intentional, timer, wsRef, ready, queue, sending, aiEnabled>>
        /\ UNCHANGED <<aiOf, turn, requests, replies, started>> /\ UNCHANGED <<peer, used>>
    BY <1>17 DEF Restart, vars, page, outgoing, ai, server, observed
  <2> QED
    BY <1>1, <2>1, BreaksKeep
<1> QED
  BY <1>2, <1>3, <1>4, <1>5, <1>6, <1>7, <1>8, <1>9, <1>10, <1>11, <1>12, <1>13, <1>14, <1>15,
     <1>16, <1>17 DEF Next

(* The invariant holds, for every value of the constants.                  *)
THEOREM Invariance == Spec => []IInv
<1> QED
  BY InitInv, StepInv, PTL DEF Spec

(* No stray reconnect: one socket is alive, wsRef's, and none after the    *)
(* page disconnected (useWebSocket.ts:13-14, 83-96).                       *)
THEOREM OneSocketIsLive == Spec => []OneLiveSocket
<1>1. IInv => OneLiveSocket
  BY DEF IInv, Linked
<1> QED
  BY <1>1, Invariance, PTL

(* Turns begin in the order in which their messages were entered, across   *)
(* reconnects, crashes and the pump's three ways to send.                  *)
THEOREM StartsFollowEntries == Spec => []MessagesStartInOrder
<1>1. IInv => MessagesStartInOrder
  BY DEF IInv, InOrder, Ordered, Rising, MessagesStartInOrder
<1> QED
  BY <1>1, Invariance, PTL

(* The page shows AI on only for a connection that has it on, as soon as   *)
(* nothing is on its way between them.                                     *)
THEOREM AiIsNotShownOnWhenOff == Spec => []AiFlagAgrees
<1>1. IInv => AiFlagAgrees
  <2> SUFFICES ASSUME IInv, NEW s \in Sockets, peer[s], requests[s] = <<>>, replies[s] = <<>>,
                      aiEnabled
               PROVE  aiOf[s]
    BY DEF AiFlagAgrees, Live
  <2>1. NoToggle(<<>>) /\ NoStatus(<<>>)
    BY DEF NoToggle, NoStatus
  <2> QED
    BY <2>1 DEF IInv, Told
<1> QED
  BY <1>1, Invariance, PTL

-----------------------------------------------------------------------------
(* Type correctness, with the cap of the queue.                            *)

Rest ==
  /\ mounted \in BOOLEAN /\ intentional \in BOOLEAN /\ timer \in BOOLEAN
  /\ connected \in BOOLEAN /\ pending \in BOOLEAN /\ aiEnabled \in BOOLEAN
  /\ toggling \in BOOLEAN /\ up \in BOOLEAN
  /\ pumpAi \in BOOLEAN /\ stranded \in BOOLEAN
  /\ Len(queue) <= QueueCap
  /\ rejected \subseteq Messages

LEMMA PumpFits ==
  ASSUME Rest, NEW q \in Seq(Messages), Len(q) <= QueueCap, NEW busy \in BOOLEAN, NEW open,
         Pump(q, busy, open)
  PROVE  pending' \in BOOLEAN /\ pumpAi' \in BOOLEAN /\ Len(queue') <= QueueCap
<1>1. Len(q) \in Nat /\ Len(<<>>) = 0
  BY SeqFacts
<1>2. q # <<>> => Len(Tail(q)) = Len(q) - 1
  BY TailFacts
<1>3. pending' = busy \/ pending' = TRUE
  BY DEF Pump
<1>4. queue' = q \/ (q # <<>> /\ queue' = Tail(q)) \/ queue' = <<>>
  BY DEF Pump
<1>5. Len(queue') <= QueueCap
  BY <1>1, <1>2, <1>4, QueueCapAssumption
<1>6. pumpAi' \in BOOLEAN
  BY DEF Pump, Rest
<1> QED
  BY <1>3, <1>5, <1>6

LEMMA RestStep == IInv /\ Rest /\ [Next]_vars => Rest'
<1> SUFFICES ASSUME IInv, Rest, [Next]_vars PROVE Rest'
  OBVIOUS
<1>1. /\ queue \in Seq(Messages) /\ Len(queue) \in Nat /\ Typed
      /\ requests \in [Sockets -> Seq(Requests)] /\ replies \in [Sockets -> Seq(Replies)]
  BY SeqFacts DEF IInv, Typed
<1>2. CASE Mount \/ ReconnectTimer
  <2>1. intentional' \in BOOLEAN
    BY <1>2 DEF Mount, ReconnectTimer, ConnectWebSocket
  <2>2. /\ mounted' \in BOOLEAN /\ timer' \in BOOLEAN
        /\ UNCHANGED <<connected, pending, pumpAi, aiEnabled, toggling, up, queue, rejected, stranded>>
    BY <1>2 DEF Mount, ReconnectTimer, outgoing, ai, observed, Rest
  <2> QED
    BY <2>1, <2>2 DEF Rest
<1>3. CASE Unmount
  BY <1>3 DEF Unmount, outgoing, ai, observed, Rest
<1>4. CASE SendMessage
  <2>1. pending' \in BOOLEAN /\ pumpAi' \in BOOLEAN /\ Len(queue') <= QueueCap
    <3> DEFINE m == used.messages + 1
               open == IsOpen(ready, wsRef)
    <3>1. CASE UNCHANGED outgoing
      BY <3>1 DEF outgoing, Rest
    <3>2. CASE Len(queue) < QueueCap /\ Pump(Append(queue, m), pending, open)
      <4>1. m \in Messages
        BY <1>1, <1>4, UseFacts DEF SendMessage, Bounded
      <4> HIDE DEF m, open
      <4>2. Append(queue, m) \in Seq(Messages) /\ Len(Append(queue, m)) = Len(queue) + 1
        BY <1>1, <4>1, AppendProperties
      <4>3. Len(Append(queue, m)) <= QueueCap
        BY <1>1, <3>2, <4>2, QueueCapAssumption
      <4> QED
        BY <3>2, <4>2, <4>3, PumpFits DEF Rest
    <3>3. UNCHANGED outgoing \/ (~(Len(queue) >= QueueCap) /\ Pump(Append(queue, m), pending, open))
      BY <1>4 DEF SendMessage
    <3> QED
      BY <1>1, <3>1, <3>2, <3>3, QueueCapAssumption
  <2>2. UNCHANGED <<mounted, intentional, timer, connected, aiEnabled, toggling, up, rejected, stranded>>
    BY <1>4 DEF SendMessage, page, ai, server, observed
  <2> QED
    BY <2>1, <2>2 DEF Rest
<1>5. ASSUME NEW m \in Messages, SendWaiting(m) PROVE Rest'
  <2>1. pending' \in BOOLEAN /\ pumpAi' \in BOOLEAN
    BY <1>5 DEF SendWaiting
  <2>2. queue' = queue \/ queue' = <<>>
    BY <1>5 DEF SendWaiting
  <2>3. UNCHANGED <<mounted, intentional, timer, connected, aiEnabled, toggling, up, rejected, stranded>>
    BY <1>5 DEF SendWaiting, page, ai, server, observed
  <2>4. Len(queue') <= QueueCap
    BY <2>2, QueueCapAssumption DEF Rest
  <2> QED
    BY <2>1, <2>3, <2>4 DEF Rest
<1>6. ASSUME NEW m \in Messages, GiveUpWaiting(m) PROVE Rest'
  <2>1. queue' = queue \/ (queue # <<>> /\ queue' = Tail(queue))
    BY <1>6 DEF GiveUpWaiting
  <2>2. UNCHANGED <<mounted, intentional, timer, connected, aiEnabled, toggling, up, rejected,
                    stranded, pending>>
    BY <1>6 DEF GiveUpWaiting, page, ai, server, observed
  <2>3. queue # <<>> => Len(Tail(queue)) = Len(queue) - 1
    BY <1>1, TailFacts
  <2>4. Len(queue') <= QueueCap
    BY <1>1, <2>1, <2>3, QueueCapAssumption DEF Rest
  <2>5. pumpAi' \in BOOLEAN
    BY <1>6 DEF GiveUpWaiting
  <2> QED
    BY <2>2, <2>4, <2>5 DEF Rest
<1>7. ASSUME NEW s \in Sockets, Opened(s) PROVE Rest'
  <2>1. Pump(queue, FALSE, IsOpen(ready', wsRef)) /\ stranded' = FALSE
    BY <1>7 DEF Opened, FlushSendQueue
  <2>2. pending' \in BOOLEAN /\ pumpAi' \in BOOLEAN /\ Len(queue') <= QueueCap
    BY <1>1, <2>1, PumpFits DEF Rest
  <2>3. /\ intentional' = FALSE /\ timer' = FALSE /\ connected' = TRUE
        /\ UNCHANGED <<mounted, aiEnabled, toggling, up, rejected>>
    BY <1>7 DEF Opened, ai, observed
  <2> QED
    BY <2>1, <2>2, <2>3 DEF Rest
<1>8. ASSUME NEW s \in Sockets, Closed(s) PROVE Rest'
  <2>1. timer' \in BOOLEAN /\ connected' \in BOOLEAN
    BY <1>8 DEF Closed
  <2>2. UNCHANGED <<mounted, intentional, pending, pumpAi, aiEnabled, toggling, up, queue, rejected, stranded>>
    BY <1>8 DEF Closed, outgoing, ai, server, observed
  <2> QED
    BY <2>1, <2>2 DEF Rest
<1>9. ASSUME NEW s \in Sockets, Receive(s) PROVE Rest'
  <2> DEFINE reply == Head(replies[s])
  <2>1. reply \in Replies
    BY <1>1, <1>9, TailFacts DEF Receive
  <2>2. reply.type = "ai_status" => reply.enabled \in BOOLEAN
    BY <2>1 DEF Replies
  <2>3. UNCHANGED <<mounted, intentional, timer, connected, toggling, up, rejected>>
    BY <1>9 DEF Receive, page, server, observed
  <2>4. CASE reply.type = "ai_status" /\ aiEnabled' = reply.enabled /\ UNCHANGED <<outgoing, stranded>>
    <3>1. aiEnabled' \in BOOLEAN /\ UNCHANGED <<pending, pumpAi, queue, stranded>>
      BY <2>2, <2>4 DEF outgoing
    <3> QED
      BY <2>3, <3>1 DEF Rest
  <2>5. CASE UNCHANGED <<outgoing, stranded, aiEnabled>>
    BY <2>3, <2>5 DEF outgoing, Rest
  <2>6. CASE FlushSendQueue(IsOpen(ready, wsRef)) /\ UNCHANGED aiEnabled
    <3>1. Pump(queue, FALSE, IsOpen(ready, wsRef)) /\ stranded' = FALSE
      BY <2>6 DEF FlushSendQueue
    <3>2. pending' \in BOOLEAN /\ pumpAi' \in BOOLEAN /\ Len(queue') <= QueueCap
      BY <1>1, <3>1, PumpFits DEF Rest
    <3> QED
      BY <2>3, <2>6, <3>1, <3>2 DEF Rest
  <2> QED
    BY <1>9, <2>4, <2>5, <2>6 DEF Receive
<1>10. CASE ClickToggle \/ ToggleOn
  <2>1. aiEnabled' \in BOOLEAN /\ toggling' \in BOOLEAN
    BY <1>10 DEF ClickToggle, ToggleOn, SendToggle, Rest
  <2>2. UNCHANGED <<mounted, intentional, timer, connected, pending, pumpAi, up, queue, rejected, stranded>>
    BY <1>10 DEF ClickToggle, ToggleOn, page, outgoing, server, observed
  <2> QED
    BY <2>1, <2>2 DEF Rest
<1>11. ASSUME NEW s \in Sockets, Serve(s) PROVE Rest'
  <2> DEFINE r == Head(requests[s])
  <2>1. requests[s] \in Seq(Requests) /\ requests[s] # <<>>
    BY <1>1, <1>11 DEF Serve
  <2>2. r = requests[s][1] /\ 1 \in DOMAIN requests[s]
    BY <2>1, TailFacts
  <2>3. r.type = "execute" => r.message \in Messages
    BY <2>1, <2>2, ExecutedAreMessages
  <2>4. rejected' = rejected \/ (r.type = "execute" /\ rejected' = rejected \cup {r.message})
    BY <1>11 DEF Serve
  <2>5. UNCHANGED <<mounted, intentional, timer, connected, pending, pumpAi, aiEnabled, toggling, up,
                    queue, stranded>>
    BY <1>11 DEF Serve, page, outgoing, ai
  <2>6. rejected' \subseteq Messages
    BY <2>3, <2>4 DEF Rest
  <2> QED
    BY <2>5, <2>6 DEF Rest
<1>12. ASSUME NEW s \in Sockets, EndTurn(s) \/ Warn(s) \/ Break(s) PROVE Rest'
  <2>1. /\ UNCHANGED <<mounted, intentional, timer, connected, pending, pumpAi, aiEnabled, toggling,
                       up, queue>>
        /\ rejected' = rejected /\ stranded' \in BOOLEAN
    BY <1>12 DEF EndTurn, Warn, Break, page, outgoing, ai, server, observed, Rest
  <2> QED
    BY <2>1 DEF Rest
<1>13. CASE Crash \/ Restart \/ UNCHANGED vars
  <2>1. /\ UNCHANGED <<mounted, intentional, timer, connected, pending, pumpAi, aiEnabled, toggling,
                       queue, rejected, stranded>>
        /\ up' \in BOOLEAN
    BY <1>13 DEF Crash, Restart, vars, page, outgoing, ai, server, observed, Rest
  <2> QED
    BY <2>1 DEF Rest
<1> QED
  BY <1>2, <1>3, <1>4, <1>5, <1>6, <1>7, <1>8, <1>9, <1>10, <1>11, <1>12, <1>13 DEF Next

(* The variables have their types, and the page never holds back more      *)
(* messages than SEND_QUEUE_CAP (useConsole.ts:152, 258-264).                   *)
THEOREM TypeCorrect == Spec => []TypeOK
<1>1. Init => Rest
  <2> SUFFICES ASSUME Init PROVE Rest
    OBVIOUS
  <2>1. Len(queue) = 0 /\ Len(queue) <= QueueCap
    BY QueueCapAssumption DEF Init
  <2> QED
    BY <2>1 DEF Init, Rest
<1>2. IInv /\ Rest => TypeOK
  <2> SUFFICES ASSUME IInv, Rest PROVE TypeOK
    OBVIOUS
  <2>1. {mounted, intentional, timer, connected, pending, pumpAi, aiEnabled, toggling, up, stranded}
          \subseteq BOOLEAN
    BY DEF Rest
  <2> QED
    BY <2>1 DEF IInv, Typed, Rest, TypeOK
<1> QED
  BY <1>1, <1>2, InitInv, StepInv, RestStep, PTL DEF Spec
=============================================================================
