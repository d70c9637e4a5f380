------------------------- MODULE WsClientEvents_proofs -------------------------
(***************************************************************************)
(* The events of WsClient: for every number of events, sockets, attempts    *)
(* and places in the queue, each event is in one place, and every           *)
(* connection carries the events in the order they were made. The proof     *)
(* rests on the invariant of the connection, proved in WsClient_proofs.     *)
(***************************************************************************)
EXTENDS WsClient_proofs, SequenceTheorems, FiniteSetTheorems

-------------------------------------------------------------------------------
\* Sequences of events.
LEMMA ElementsType ==
  ASSUME NEW S, NEW s \in Seq(S)
  PROVE  Elements(s) \subseteq S
  BY DEF Elements

LEMMA ElementsConcat ==
  ASSUME NEW S, NEW s \in Seq(S), NEW t \in Seq(S)
  PROVE  Elements(s \o t) = Elements(s) \cup Elements(t)
<1> DEFINE u == s \o t
<1>1. /\ u \in Seq(S) /\ Len(u) = Len(s) + Len(t)
      /\ \A i \in 1..Len(u) : u[i] = IF i <= Len(s) THEN s[i] ELSE t[i - Len(s)]
  BY ConcatProperties
<1>2. Len(s) \in Nat /\ Len(t) \in Nat
  OBVIOUS
<1> HIDE DEF u
<1>3. ASSUME NEW i \in DOMAIN u PROVE u[i] \in Elements(s) \cup Elements(t)
  <2>1. i \in 1..(Len(s) + Len(t))
    BY <1>1
  <2>2. CASE i <= Len(s)
    BY <1>1, <1>2, <2>1, <2>2 DEF Elements
  <2>3. CASE ~(i <= Len(s))
    <3>1. i - Len(s) \in DOMAIN t /\ u[i] = t[i - Len(s)]
      BY <1>1, <1>2, <2>1, <2>3
    <3> QED
      BY <3>1 DEF Elements
  <2> QED
    BY <2>2, <2>3
<1>4. ASSUME NEW i \in DOMAIN s PROVE s[i] \in Elements(u)
  <2>1. i \in DOMAIN u /\ u[i] = s[i]
    BY <1>1, <1>2
  <2> QED
    BY <2>1 DEF Elements
<1>5. ASSUME NEW i \in DOMAIN t PROVE t[i] \in Elements(u)
  <2>1. i + Len(s) \in 1..Len(u) /\ ~(i + Len(s) <= Len(s)) /\ (i + Len(s)) - Len(s) = i
    BY <1>1, <1>2
  <2>2. i + Len(s) \in DOMAIN u /\ u[i + Len(s)] = t[i]
    BY <1>1, <2>1
  <2> QED
    BY <2>2 DEF Elements
<1>6. Elements(u) = Elements(s) \cup Elements(t)
  BY <1>3, <1>4, <1>5 DEF Elements
<1> QED
  BY <1>6 DEF u

LEMMA IncreasingConcat ==
  ASSUME NEW s \in Seq(Events), NEW t \in Seq(Events), Increasing(s), Increasing(t),
         \A a \in Elements(s), b \in Elements(t) : a < b
  PROVE  Increasing(s \o t)
<1> DEFINE u == s \o t
<1>1. /\ u \in Seq(Events) /\ Len(u) = Len(s) + Len(t)
      /\ \A i \in 1..Len(u) : u[i] = IF i <= Len(s) THEN s[i] ELSE t[i - Len(s)]
  BY ConcatProperties
<1>2. Len(s) \in Nat /\ Len(t) \in Nat
  OBVIOUS
<1> HIDE DEF u
<1>3. SUFFICES ASSUME NEW i \in DOMAIN u, NEW j \in DOMAIN u, i < j PROVE u[i] < u[j]
  BY DEF Increasing, u
<1>4. i \in 1..(Len(s) + Len(t)) /\ j \in 1..(Len(s) + Len(t))
  BY <1>1
<1>5. CASE j <= Len(s)
  <2>1. i \in DOMAIN s /\ j \in DOMAIN s /\ u[i] = s[i] /\ u[j] = s[j]
    BY <1>1, <1>2, <1>3, <1>4, <1>5
  <2> QED
    BY <1>3, <2>1 DEF Increasing
<1>6. CASE ~(i <= Len(s))
  <2>1. i - Len(s) \in DOMAIN t /\ j - Len(s) \in DOMAIN t /\ i - Len(s) < j - Len(s)
    BY <1>2, <1>3, <1>4, <1>6
  <2>2. u[i] = t[i - Len(s)] /\ u[j] = t[j - Len(s)]
    BY <1>1, <1>2, <1>3, <1>4, <1>6
  <2> QED
    BY <2>1, <2>2 DEF Increasing
<1>7. CASE i <= Len(s) /\ ~(j <= Len(s))
  <2>1. i \in DOMAIN s /\ j - Len(s) \in DOMAIN t
    BY <1>2, <1>4, <1>7
  <2>2. u[i] = s[i] /\ u[j] = t[j - Len(s)]
    BY <1>1, <1>4, <1>7
  <2> QED
    BY <2>1, <2>2 DEF Elements
<1> QED
  BY <1>2, <1>4, <1>5, <1>6, <1>7

LEMMA Singleton ==
  ASSUME NEW e \in Events
  PROVE  <<e>> \in Seq(Events) /\ Elements(<<e>>) = {e} /\ Increasing(<<e>>)
<1>1. DOMAIN <<e>> = {1} /\ <<e>>[1] = e
  OBVIOUS
<1> QED
  BY <1>1 DEF Elements, Increasing

LEMMA AppendEvent ==
  ASSUME NEW s \in Seq(Events), NEW e \in Events, Increasing(s),
         \A a \in Elements(s) : a < e
  PROVE  /\ Append(s, e) \in Seq(Events)
         /\ Elements(Append(s, e)) = Elements(s) \cup {e}
         /\ Increasing(Append(s, e))
<1> DEFINE one == <<e>>
<1>1. Append(s, e) = s \o one
  BY AppendIsConcat
<1>2. one \in Seq(Events) /\ Elements(one) = {e} /\ Increasing(one)
  BY Singleton
<1> HIDE DEF one
<1>3. s \o one \in Seq(Events)
  BY <1>2, ConcatProperties
<1>4. Elements(s \o one) = Elements(s) \cup {e}
  BY <1>2, ElementsConcat
<1>5. Increasing(s \o one)
  BY <1>2, IncreasingConcat
<1> QED
  BY <1>1, <1>3, <1>4, <1>5

LEMMA PartOf ==
  ASSUME NEW S, NEW s \in Seq(S), NEW m \in 1..(Len(s) + 1), NEW n \in 0..Len(s)
  PROVE  /\ SubSeq(s, m, n) \in Seq(S)
         /\ Elements(SubSeq(s, m, n)) = {s[i] : i \in m..n}
         /\ Len(SubSeq(s, m, n)) = IF m <= n THEN n - m + 1 ELSE 0
<1> DEFINE u == SubSeq(s, m, n)
<1>0. m \in Int /\ n \in Int /\ Len(s) \in Nat
  OBVIOUS
<1>1. \A i \in m..n : s[i] \in S
  BY <1>0
<1>2. /\ u \in Seq(S)
      /\ Len(u) = IF m <= n THEN n - m + 1 ELSE 0
      /\ \A i \in 1..(n - m + 1) : u[i] = s[m + i - 1]
  BY <1>0, <1>1, SubSeqProperties
<1> HIDE DEF u
<1>3. ASSUME NEW i \in DOMAIN u PROVE u[i] \in {s[j] : j \in m..n}
  <2>1. i \in 1..(n - m + 1) /\ m + i - 1 \in m..n
    BY <1>0, <1>2
  <2> QED
    BY <1>2, <2>1
<1>4. ASSUME NEW j \in m..n PROVE s[j] \in Elements(u)
  <2>1. /\ j - m + 1 \in 1..(n - m + 1) /\ m + (j - m + 1) - 1 = j
        /\ j - m + 1 \in 1..Len(u)
    BY <1>0, <1>2
  <2>2. u[j - m + 1] = s[j] /\ j - m + 1 \in DOMAIN u
    BY <1>2, <2>1
  <2> QED
    BY <2>2 DEF Elements
<1> QED
  BY <1>2, <1>3, <1>4 DEF Elements, u

LEMMA PartIncreasing ==
  ASSUME NEW s \in Seq(Events), Increasing(s),
         NEW m \in 1..(Len(s) + 1), NEW n \in 0..Len(s)
  PROVE  Increasing(SubSeq(s, m, n))
<1> DEFINE u == SubSeq(s, m, n)
<1>0. m \in Int /\ n \in Int /\ Len(s) \in Nat
  OBVIOUS
<1>1. \A i \in m..n : s[i] \in Events
  BY <1>0
<1>2. /\ u \in Seq(Events)
      /\ Len(u) = IF m <= n THEN n - m + 1 ELSE 0
      /\ \A i \in 1..(n - m + 1) : u[i] = s[m + i - 1]
  BY <1>0, <1>1, SubSeqProperties
<1> HIDE DEF u
<1>3. SUFFICES ASSUME NEW i \in DOMAIN u, NEW j \in DOMAIN u, i < j PROVE u[i] < u[j]
  BY DEF Increasing, u
<1>4. i \in 1..(n - m + 1) /\ j \in 1..(n - m + 1)
  BY <1>0, <1>2
<1>5. m + i - 1 \in DOMAIN s /\ m + j - 1 \in DOMAIN s /\ m + i - 1 < m + j - 1
  BY <1>0, <1>3, <1>4
<1> QED
  BY <1>2, <1>4, <1>5 DEF Increasing

\* Taking one event out of a sequence.
LEMMA TakeOut ==
  ASSUME NEW S \in SUBSET Events, NEW s \in Seq(S), Increasing(s), NEW i \in DOMAIN s
  PROVE  LET rest == SubSeq(s, 1, i - 1) \o SubSeq(s, i + 1, Len(s))
         IN /\ rest \in Seq(S)
            /\ Elements(rest) = Elements(s) \ {s[i]}
            /\ Increasing(rest)
<1> DEFINE a == SubSeq(s, 1, i - 1)
           b == SubSeq(s, i + 1, Len(s))
<1>1. /\ i \in 1..Len(s) /\ Len(s) \in Nat /\ Events \subseteq Int
      /\ 1 \in 1..(Len(s) + 1) /\ i - 1 \in 0..Len(s)
      /\ i + 1 \in 1..(Len(s) + 1) /\ Len(s) \in 0..Len(s)
  BY DEF Events
<1>2. s \in Seq(Events)
  OBVIOUS
<1>3. /\ a \in Seq(S) /\ Elements(a) = {s[k] : k \in 1..(i - 1)}
      /\ b \in Seq(S) /\ Elements(b) = {s[k] : k \in (i + 1)..Len(s)}
  BY <1>1, PartOf
<1>4. Increasing(a) /\ Increasing(b)
  BY <1>1, <1>2, PartIncreasing
<1>5. \A k \in 1..Len(s) : s[k] \in Int
  <2>1. \A k \in 1..Len(s) : s[k] \in Events
    BY <1>2
  <2> QED
    BY <1>1, <2>1
<1>6. \A x \in Elements(a), y \in Elements(b) : x < y
  <2>1. \A k \in 1..(i - 1), l \in (i + 1)..Len(s) : s[k] < s[l]
    BY <1>1 DEF Increasing
  <2> QED
    BY <1>3, <2>1
<1>7. \A k \in 1..(i - 1) : s[k] # s[i]
  BY <1>1, <1>5 DEF Increasing
<1>8. \A k \in (i + 1)..Len(s) : s[k] # s[i]
  BY <1>1, <1>5 DEF Increasing
<1>9. Elements(s) \ {s[i]} = {s[k] : k \in 1..(i - 1)} \cup {s[k] : k \in (i + 1)..Len(s)}
  <2>1. \A k \in 1..Len(s) : k \in 1..(i - 1) \/ k = i \/ k \in (i + 1)..Len(s)
    BY <1>1
  <2>2. Elements(s) = {s[k] : k \in 1..Len(s)}
    BY DEF Elements
  <2>3. (1..(i - 1)) \subseteq 1..Len(s) /\ ((i + 1)..Len(s)) \subseteq 1..Len(s)
    BY <1>1
  <2> QED
    BY <1>7, <1>8, <2>1, <2>2, <2>3
<1> HIDE DEF a, b
<1>10. a \o b \in Seq(S)
  BY <1>3, ConcatProperties
<1>11. Elements(a \o b) = Elements(s) \ {s[i]}
  <2>1. Elements(a \o b) = Elements(a) \cup Elements(b)
    BY <1>3, ElementsConcat
  <2> QED
    BY <1>3, <1>9, <2>1
<1>12. Increasing(a \o b)
  <2>1. a \in Seq(Events) /\ b \in Seq(Events)
    BY <1>3
  <2> QED
    BY <1>4, <1>6, <2>1, IncreasingConcat
<1> QED
  BY <1>10, <1>11, <1>12 DEF a, b

-------------------------------------------------------------------------------
\* The list of messages that is tracked: the messages of what was written, in order.
LEMMA TrackedMessages ==
  ASSUME NEW before, NEW written \in Seq(Events), TrackAfter(before, written)
  PROVE  /\ \E m \in Seq(Events \ Pings) :
              /\ inFlightEvents' = before \o m
              /\ Elements(m) = Elements(written) \ Pings
              /\ Increasing(written) => Increasing(m)
         /\ finished' = finished \cup (Elements(written) \cap Pings)
<1> DEFINE kept == {i \in DOMAIN written : written[i] \notin Pings}
           N == Cardinality(kept)
<1>1. N \in Nat
  <2>1. IsFiniteSet(1..Len(written)) /\ kept \subseteq 1..Len(written)
    BY FS_Interval
  <2> QED
    BY <2>1, FS_Subset, FS_CardinalityType
<1> HIDE DEF N
<1>2. PICK places \in [1..N -> kept] :
        /\ Increasing(places)
        /\ Elements(places) = kept
        /\ inFlightEvents' = before \o [k \in DOMAIN places |-> written[places[k]]]
  BY DEF TrackAfter, IsMessage, N
<1> DEFINE m == [k \in 1..N |-> written[places[k]]]
<1>3. /\ inFlightEvents' = before \o m
      /\ \A k \in 1..N : places[k] \in kept
  BY <1>2
<1>4. m \in Seq(Events \ Pings)
  <2>1. \A k \in 1..N : m[k] \in Events \ Pings
    BY <1>3
  <2> QED
    BY <1>1, <2>1
<1>5. Elements(m) = Elements(written) \ Pings
  <2>1. ASSUME NEW x \in Elements(m) PROVE x \in Elements(written) \ Pings
    BY <1>3 DEF Elements
  <2>2. ASSUME NEW i \in kept PROVE written[i] \in Elements(m)
    <3>1. PICK k \in 1..N : places[k] = i
      BY <1>2 DEF Elements
    <3> QED
      BY <3>1 DEF Elements
  <2> QED
    BY <2>1, <2>2 DEF Elements
<1>6. ASSUME Increasing(written) PROVE Increasing(m)
  <2>1. SUFFICES ASSUME NEW k \in 1..N, NEW l \in 1..N, k < l PROVE m[k] < m[l]
    BY DEF Increasing
  <2>2. places[k] < places[l]
    BY <1>2, <2>1 DEF Increasing
  <2> QED
    BY <1>3, <1>6, <2>2 DEF Increasing
<1>7. finished' = finished \cup (Elements(written) \cap Pings)
  BY DEF TrackAfter
<1> QED
  BY <1>3, <1>4, <1>5, <1>6, <1>7

\* The queue takes the newest event, and loses the oldest ones if it has to.
LEMMA Enqueued ==
  ASSUME NEW e \in Events, EnqueueEvent(e),
         queuedEvents \in Seq(Events), Increasing(queuedEvents),
         \A a \in Elements(queuedEvents) : a < e
  PROVE  /\ queuedEvents' \in Seq(Events)
         /\ Len(queuedEvents') <= MaxQueuedEvents
         /\ Increasing(queuedEvents')
         /\ \E lost \in SUBSET Events :
              /\ dropped' = dropped \cup lost
              /\ Elements(queuedEvents') \cup lost = Elements(queuedEvents) \cup {e}
              /\ Elements(queuedEvents') \cap lost = {}
              /\ \A a \in lost, b \in Elements(queuedEvents') : a < b
              /\ lost # {} => Len(queuedEvents') = MaxQueuedEvents
<1> DEFINE pushed == Append(queuedEvents, e)
           excess == Len(pushed) - MaxQueuedEvents
<1>1. /\ pushed \in Seq(Events) /\ Increasing(pushed)
      /\ Elements(pushed) = Elements(queuedEvents) \cup {e}
  BY AppendEvent
<1>2. Len(pushed) \in Nat /\ MaxQueuedEvents \in Nat
  BY <1>1, ConstantsAssumption
<1>3. CASE excess <= 0
  <2>1. queuedEvents' = pushed /\ dropped' = dropped
    BY <1>3 DEF EnqueueEvent
  <2>2. dropped' = dropped \cup {} /\ Len(pushed) <= MaxQueuedEvents
    BY <1>2, <1>3, <2>1
  <2> HIDE DEF pushed
  <2> QED
    BY <1>1, <2>1, <2>2
<1>4. CASE ~(excess <= 0)
  <2> DEFINE out == SubSeq(pushed, 1, excess)
             in == SubSeq(pushed, excess + 1, Len(pushed))
  <2>1. queuedEvents' = in /\ dropped' = dropped \cup Elements(out)
    BY <1>4 DEF EnqueueEvent
  <2> HIDE DEF pushed
  <2>2. /\ excess + 1 \in 1..(Len(pushed) + 1) /\ 1 \in 1..(Len(pushed) + 1)
        /\ excess \in 0..Len(pushed) /\ Len(pushed) \in 0..Len(pushed)
        /\ Len(pushed) - (excess + 1) + 1 = MaxQueuedEvents
    BY <1>2, <1>4
  <2>3. /\ in \in Seq(Events) /\ Len(in) = MaxQueuedEvents
        /\ Elements(in) = {pushed[i] : i \in (excess + 1)..Len(pushed)}
    <3>1. /\ in \in Seq(Events)
          /\ Elements(in) = {pushed[i] : i \in (excess + 1)..Len(pushed)}
          /\ Len(in) = IF excess + 1 <= Len(pushed) THEN Len(pushed) - (excess + 1) + 1
                       ELSE 0
      BY <1>1, <2>2, PartOf
    <3>2. Len(in) = MaxQueuedEvents
      BY <1>2, <2>2, <3>1
    <3> QED
      BY <3>1, <3>2
  <2>4. out \in Seq(Events) /\ Elements(out) = {pushed[i] : i \in 1..excess}
    BY <1>1, <2>2, PartOf
  <2>5. Increasing(in)
    BY <1>1, <2>2, PartIncreasing
  <2>6. Elements(in) \cup Elements(out) = Elements(pushed)
    <3>1. \A i \in 1..Len(pushed) : i \in 1..excess \/ i \in (excess + 1)..Len(pushed)
      BY <1>2, <2>2
    <3>2. (1..excess) \subseteq 1..Len(pushed) /\ ((excess + 1)..Len(pushed)) \subseteq 1..Len(pushed)
      BY <1>2, <2>2
    <3>3. Elements(pushed) = {pushed[i] : i \in 1..Len(pushed)}
      BY <1>1 DEF Elements
    <3> QED
      BY <2>3, <2>4, <3>1, <3>2, <3>3
  <2>7. /\ Elements(in) \cap Elements(out) = {}
        /\ \A a \in Elements(out), b \in Elements(in) : a < b
    <3>1. ASSUME NEW i \in 1..excess, NEW j \in (excess + 1)..Len(pushed)
          PROVE  pushed[i] < pushed[j] /\ pushed[i] # pushed[j]
      <4>1. i \in 1..Len(pushed) /\ j \in 1..Len(pushed) /\ i < j
        BY <1>2, <2>2
      <4>2. pushed[i] < pushed[j] /\ pushed[i] \in Events /\ pushed[j] \in Events
        BY <1>1, <4>1 DEF Increasing
      <4> QED
        BY <4>2 DEF Events
    <3> QED
      BY <2>3, <2>4, <3>1
  <2> HIDE DEF in, out, excess
  <2>8. Elements(out) \in SUBSET Events
    BY <2>4, ElementsType
  <2>9. Len(in) <= MaxQueuedEvents
    BY <1>2, <2>3
  <2> QED
    BY <1>1, <2>1, <2>9, <2>3, <2>5, <2>6, <2>7, <2>8
<1> QED
  BY <1>3, <1>4

\* Every event in one of four places, without the list of the places.
Parted(q, w, f, d, all) ==
  /\ q \cup w \cup f \cup d = all
  /\ q \cap w = {} /\ q \cap f = {} /\ q \cap d = {}
  /\ w \cap f = {} /\ w \cap d = {} /\ f \cap d = {}

LEMMA PlacesAreParted ==
  ASSUME NEW q, NEW w, NEW f, NEW d, NEW all
  PROVE  LET places == <<q, w, f, d>>
         IN (/\ UNION {places[i] : i \in 1..4} = all
             /\ \A i, j \in 1..4 : i # j => places[i] \cap places[j] = {})
            <=> Parted(q, w, f, d, all)
<1> DEFINE places == <<q, w, f, d>>
<1>1. places[1] = q /\ places[2] = w /\ places[3] = f /\ places[4] = d
  OBVIOUS
<1>2. 1..4 = {1, 2, 3, 4}
  OBVIOUS
<1> HIDE DEF places
<1>3. {places[i] : i \in 1..4} = {q, w, f, d}
  BY <1>1, <1>2
<1>4. UNION {q, w, f, d} = q \cup w \cup f \cup d
  OBVIOUS
<1>5. (\A i, j \in 1..4 : i # j => places[i] \cap places[j] = {})
      <=> (/\ q \cap w = {} /\ q \cap f = {} /\ q \cap d = {}
           /\ w \cap f = {} /\ w \cap d = {} /\ f \cap d = {})
  BY <1>1, <1>2
<1> QED
  BY <1>3, <1>4, <1>5 DEF Parted, places

-------------------------------------------------------------------------------
\* The inductive invariant of the events.
EventTypes ==
  /\ wire \in [Sockets -> Seq(Events)]
  /\ queuedEvents \in Seq(Events) /\ Len(queuedEvents) <= MaxQueuedEvents
  /\ inFlightEvents \in Seq(Events \ Pings)
  /\ made \in 0..MaxEvents
  /\ finished \subseteq Events
  /\ dropped \subseteq Events

\* What waits for its acknowledgement was made before what is queued, so that
\* writing the one after the other keeps the order.
QueuesInOrder ==
  /\ Increasing(queuedEvents)
  /\ Increasing(inFlightEvents)
  /\ \A a \in Elements(inFlightEvents), b \in Elements(queuedEvents) : a < b

\* Nothing is on a socket that has not opened, and nothing from the future on any.
WiresInOrder ==
  \A s \in Sockets : /\ readyState[s] \in {"closed", "connecting"} => wire[s] = <<>>
                     /\ Increasing(wire[s])
                     /\ Elements(wire[s]) \subseteq 1..made

EInv ==
  /\ EventTypes
  /\ QueuesInOrder
  /\ WiresInOrder
  /\ EventsAccounted
  /\ WrittenWhenOpen

LEMMA EmptySequence ==
  /\ Elements(<<>>) = {}
  /\ Increasing(<<>>)
  /\ \A S : <<>> \in Seq(S)
  /\ Len(<<>>) = 0
  BY DEF Elements, Increasing

LEMMA Accounted ==
  EventsAccounted <=> Parted(Elements(queuedEvents), Elements(inFlightEvents), finished,
                             dropped, 1..made)
  BY PlacesAreParted DEF EventsAccounted

LEMMA AccountedNext ==
  EventsAccounted' <=> Parted(Elements(queuedEvents'), Elements(inFlightEvents'),
                              finished', dropped', 1..made')
  BY PlacesAreParted DEF EventsAccounted

LEMMA InitEvents == Init => EInv
<1> SUFFICES ASSUME Init PROVE EInv
  OBVIOUS
<1>1. /\ wire = [s \in Sockets |-> <<>>] /\ queuedEvents = <<>> /\ inFlightEvents = <<>>
      /\ made = 0 /\ finished = {} /\ dropped = {} /\ socket = None
  BY DEF Init
<1>2. EventTypes
  BY <1>1, EmptySequence, ConstantsAssumption DEF EventTypes
<1>3. QueuesInOrder /\ WiresInOrder
  BY <1>1, EmptySequence DEF QueuesInOrder, WiresInOrder
<1>4. EventsAccounted
  <2>1. Parted({}, {}, {}, {}, 1..0)
    BY DEF Parted
  <2> QED
    BY <1>1, <2>1, EmptySequence, Accounted
<1>5. WrittenWhenOpen
  BY <1>1 DEF WrittenWhenOpen, IsOpen
<1> QED
  BY <1>2, <1>3, <1>4, <1>5 DEF EInv

-------------------------------------------------------------------------------
\* A step after which no connection is open that was not, and nothing was written.
Quiet ==
  /\ wire' \in [Sockets -> Seq(Events)]
  /\ \A s \in Sockets : wire'[s] = wire[s] \/ wire'[s] = <<>>
  /\ \A s \in Sockets : readyState'[s] \in {"closed", "connecting"} => wire'[s] = <<>>
  /\ IsOpen' => IsOpen /\ socket' = socket /\ wire'[socket] = wire[socket]

LEMMA QuietInv == ASSUME EInv, Quiet, UNCHANGED events PROVE EInv'
<1>1. UNCHANGED <<queuedEvents, inFlightEvents, made, finished, dropped>>
  BY DEF events
<1>2. EventTypes' /\ QueuesInOrder' /\ EventsAccounted'
  BY <1>1 DEF EInv, EventTypes, QueuesInOrder, EventsAccounted, Quiet
<1>3. WiresInOrder'
  BY <1>1, EmptySequence DEF EInv, WiresInOrder, Quiet
<1>4. WrittenWhenOpen'
  BY <1>1 DEF EInv, WrittenWhenOpen, Quiet
<1> QED
  BY <1>2, <1>3, <1>4 DEF EInv

LEMMA SameLinkQuiet == ASSUME EInv, UNCHANGED link PROVE Quiet
  BY DEF EInv, EventTypes, WiresInOrder, Quiet, IsOpen, link

LEMMA OpenSocketQuiet ==
  ASSUME IInv, EInv, NEW nextState, OpenSocket(nextState)
  PROVE  Quiet /\ ~IsOpen'
<1>1. PICK s \in Sockets :
        /\ readyState[s] = "closed"
        /\ readyState' = [readyState EXCEPT ![s] = "connecting"]
        /\ socket' = s
        /\ wire' = wire
  BY DEF OpenSocket
<1>2. ~IsOpen'
  BY <1>1 DEF IInv, ConnectionType, IsOpen
<1>3. \A t \in Sockets : readyState'[t] \in {"closed", "connecting"} => wire'[t] = <<>>
  BY <1>1 DEF IInv, ConnectionType, EInv, WiresInOrder
<1> QED
  BY <1>1, <1>2, <1>3 DEF Quiet, EInv, EventTypes

LEMMA ConnectQuiet ==
  ASSUME IInv, EInv, NEW online \in BOOLEAN, NEW attempt, ConnectWith(online, attempt)
  PROVE  Quiet /\ (~IsOpen => ~IsOpen')
<1>1. CASE UNCHANGED link
  BY <1>1, SameLinkQuiet DEF IsOpen, link
<1>2. CASE online /\ socket = None
  <2>1. PICK nextState : OpenSocket(nextState)
    BY <1>2 DEF ConnectWith
  <2> QED
    BY <2>1, OpenSocketQuiet
<1> QED
  BY <1>1, <1>2 DEF ConnectWith

LEMMA ClosingQuiet ==
  ASSUME IInv, EInv, CloseCurrent, wire' = wire, socket' = socket \/ socket' = None
  PROVE  Quiet /\ ~IsOpen'
<1>1. /\ readyState' \in [Sockets -> {"connecting", "open", "closing", "closed"}]
      /\ socket # None => readyState'[socket] = "closing"
  BY CloseCurrentEffect
<1>2. ~IsOpen'
  BY <1>1 DEF IsOpen
<1>3. \A s \in Sockets : readyState'[s] = readyState[s] \/ readyState'[s] = "closing"
  BY DEF CloseCurrent, IInv, ConnectionType
<1> QED
  BY <1>2, <1>3 DEF Quiet, EInv, EventTypes, WiresInOrder

LEMMA ClosesQuiet ==
  ASSUME IInv, EInv, NEW s \in Sockets, SocketCloses(s)
  PROVE  Quiet
<1>1. /\ readyState' = [readyState EXCEPT ![s] = "closed"]
      /\ wire' = [wire EXCEPT ![s] = <<>>]
  BY DEF SocketCloses
<1>2. (s # socket /\ socket' = socket) \/ socket' = None
  BY DEF SocketCloses, ForgetStale, HandleClosedSocket
<1>3. wire' \in [Sockets -> Seq(Events)]
  BY <1>1, EmptySequence DEF EInv, EventTypes
<1>4. \A t \in Sockets : /\ wire'[t] = wire[t] \/ wire'[t] = <<>>
                         /\ readyState'[t] \in {"closed", "connecting"} => wire'[t] = <<>>
  BY <1>1 DEF IInv, ConnectionType, EInv, EventTypes, WiresInOrder
<1>5. IsOpen' => IsOpen /\ socket' = socket /\ wire'[socket] = wire[socket]
  BY <1>1, <1>2 DEF IsOpen, IInv, ConnectionType, EInv, EventTypes
<1> QED
  BY <1>3, <1>4, <1>5 DEF Quiet

-------------------------------------------------------------------------------
\* The new event is later than every event so far.
LEMMA NewEvent ==
  ASSUME EInv, made < MaxEvents
  PROVE  /\ made \in Nat /\ made + 1 \in Events
         /\ made + 1 \in 0..MaxEvents /\ 1..(made + 1) = (1..made) \cup {made + 1}
         /\ \A a \in 1..made : a < made + 1
         /\ made + 1 \notin 1..made
         /\ Elements(queuedEvents) \subseteq 1..made
         /\ Elements(inFlightEvents) \subseteq 1..made
         /\ finished \subseteq 1..made /\ dropped \subseteq 1..made
<1>1. made \in 0..MaxEvents /\ MaxEvents \in Nat
  BY ConstantsAssumption DEF EInv, EventTypes
<1>2. /\ made \in Nat /\ made + 1 \in 1..MaxEvents
      /\ made + 1 \in 0..MaxEvents /\ 1..(made + 1) = (1..made) \cup {made + 1}
      /\ \A a \in 1..made : a < made + 1
      /\ made + 1 \notin 1..made
  BY <1>1
<1>3. Elements(queuedEvents) \cup Elements(inFlightEvents) \cup finished \cup dropped
        = 1..made
  BY Accounted DEF EInv, Parted
<1> QED
  BY <1>2, <1>3 DEF Events

\* send() on an open connection.
LEMMA SendOpenInv ==
  ASSUME IInv, EInv, Send, IsOpen
  PROVE  EInv'
<1> DEFINE e == made + 1
<1>1. /\ made < MaxEvents /\ made' = e
      /\ wire' = [wire EXCEPT ![socket] = Append(@, e)]
      /\ TrackAfter(inFlightEvents, <<e>>)
      /\ UNCHANGED <<readyState, socket, queuedEvents, dropped>>
  BY DEF Send, Track
<1>2. /\ e \in Events /\ e \in 0..MaxEvents /\ 1..e = (1..made) \cup {e}
      /\ \A a \in 1..made : a < e
      /\ e \notin 1..made
      /\ Elements(inFlightEvents) \subseteq 1..made
      /\ finished \subseteq 1..made /\ dropped \subseteq 1..made
  BY <1>1, NewEvent
<1> HIDE DEF e
<1>3. PICK m \in Seq(Events \ Pings) :
        /\ inFlightEvents' = inFlightEvents \o m
        /\ Elements(m) = {e} \ Pings
        /\ Increasing(m)
        /\ finished' = finished \cup ({e} \cap Pings)
  <2> DEFINE one == <<e>>
  <2>1. one \in Seq(Events) /\ Elements(one) = {e} /\ Increasing(one)
    BY <1>2, Singleton
  <2>2. TrackAfter(inFlightEvents, one)
    BY <1>1
  <2> HIDE DEF one
  <2> QED
    BY <2>1, <2>2, TrackedMessages
<1>4. /\ socket \in Sockets
      /\ queuedEvents = <<>>
      /\ Elements(inFlightEvents) \subseteq Elements(wire[socket])
      /\ wire[socket] \in Seq(Events) /\ Increasing(wire[socket])
      /\ Elements(wire[socket]) \subseteq 1..made
  BY DEF EInv, EventTypes, WrittenWhenOpen, WiresInOrder, IInv, ConnectionType, IsOpen
<1>5. /\ wire'[socket] \in Seq(Events) /\ Increasing(wire'[socket])
      /\ Elements(wire'[socket]) = Elements(wire[socket]) \cup {e}
  <2>1. wire'[socket] = Append(wire[socket], e)
    BY <1>1, <1>4 DEF EInv, EventTypes
  <2>2. \A a \in Elements(wire[socket]) : a < e
    BY <1>2, <1>4
  <2> QED
    BY <1>2, <1>4, <2>1, <2>2, AppendEvent
<1>6. /\ inFlightEvents' \in Seq(Events \ Pings) /\ Increasing(inFlightEvents')
      /\ Elements(inFlightEvents') = Elements(inFlightEvents) \cup ({e} \ Pings)
  <2>1. inFlightEvents \in Seq(Events \ Pings) /\ Increasing(inFlightEvents)
    BY DEF EInv, EventTypes, QueuesInOrder
  <2>2. \A a \in Elements(inFlightEvents), b \in Elements(m) : a < b
    BY <1>2, <1>3
  <2>3. inFlightEvents \in Seq(Events) /\ m \in Seq(Events)
    BY <2>1, <1>3
  <2>4. Increasing(inFlightEvents \o m)
    BY <1>3, <2>1, <2>2, <2>3, IncreasingConcat
  <2>5. inFlightEvents \o m \in Seq(Events \ Pings)
    BY <1>3, <2>1, ConcatProperties
  <2>6. Elements(inFlightEvents \o m) = Elements(inFlightEvents) \cup Elements(m)
    BY <1>3, <2>1, ElementsConcat
  <2> QED
    BY <1>3, <2>4, <2>5, <2>6
<1>7. EventTypes'
  BY <1>1, <1>2, <1>3, <1>4, <1>5, <1>6 DEF EInv, EventTypes
<1>8. QueuesInOrder'
  BY <1>1, <1>4, <1>6, EmptySequence DEF QueuesInOrder
<1>9. WiresInOrder'
  BY <1>1, <1>2, <1>4, <1>5
     DEF EInv, EventTypes, WiresInOrder, IInv, ConnectionType, IsOpen
<1>10. EventsAccounted'
  <2>1. Parted({}, Elements(inFlightEvents), finished, dropped, 1..made)
    BY <1>4, Accounted, EmptySequence DEF EInv
  <2>2. Parted({}, Elements(inFlightEvents'), finished', dropped', 1..made')
    BY <1>1, <1>2, <1>3, <1>6, <2>1 DEF Parted
  <2> QED
    BY <1>1, <1>4, <2>2, AccountedNext, EmptySequence
<1>11. WrittenWhenOpen'
  BY <1>1, <1>4, <1>5, <1>6 DEF WrittenWhenOpen
<1> QED
  BY <1>7, <1>8, <1>9, <1>10, <1>11 DEF EInv

\* send() without an open connection.
LEMMA SendQueuedInv ==
  ASSUME IInv, EInv, Send, ~IsOpen
  PROVE  EInv'
<1> DEFINE e == made + 1
<1>1. /\ made < MaxEvents /\ made' = e
      /\ EnqueueEvent(e)
      /\ ConnectWith(isBrowserOnline, reconnectAttempt)
      /\ UNCHANGED <<inFlightEvents, finished>>
  BY DEF Send
<1>2. Quiet /\ ~IsOpen'
  <2>1. isBrowserOnline \in BOOLEAN
    BY DEF IInv, ConnectionType
  <2> QED
    BY <1>1, <2>1, ConnectQuiet
<1>3. /\ e \in Events /\ e \in 0..MaxEvents /\ 1..e = (1..made) \cup {e}
      /\ \A a \in 1..made : a < e
      /\ e \notin 1..made
      /\ Elements(queuedEvents) \subseteq 1..made
      /\ Elements(inFlightEvents) \subseteq 1..made
      /\ finished \subseteq 1..made /\ dropped \subseteq 1..made
  BY <1>1, NewEvent
<1> HIDE DEF e
<1>4. /\ queuedEvents' \in Seq(Events)
      /\ Len(queuedEvents') <= MaxQueuedEvents
      /\ Increasing(queuedEvents')
      /\ \E lost \in SUBSET Events :
           /\ dropped' = dropped \cup lost
           /\ Elements(queuedEvents') \cup lost = Elements(queuedEvents) \cup {e}
           /\ Elements(queuedEvents') \cap lost = {}
  <2>1. queuedEvents \in Seq(Events) /\ Increasing(queuedEvents)
    BY DEF EInv, EventTypes, QueuesInOrder
  <2>2. \A a \in Elements(queuedEvents) : a < e
    BY <1>3
  <2> QED
    BY <1>1, <1>3, <2>1, <2>2, Enqueued
<1>5. PICK lost \in SUBSET Events :
        /\ dropped' = dropped \cup lost
        /\ Elements(queuedEvents') \cup lost = Elements(queuedEvents) \cup {e}
        /\ Elements(queuedEvents') \cap lost = {}
  BY <1>4
<1>6. EventTypes'
  BY <1>1, <1>2, <1>3, <1>4, <1>5 DEF EInv, EventTypes, Quiet
<1>7. QueuesInOrder'
  <2>1. \A a \in Elements(inFlightEvents), b \in Elements(queuedEvents') : a < b
    BY <1>3, <1>5 DEF EInv, QueuesInOrder
  <2> QED
    BY <1>1, <1>4, <2>1 DEF EInv, QueuesInOrder
<1>8. WiresInOrder'
  BY <1>1, <1>2, <1>3, EmptySequence DEF EInv, WiresInOrder, Quiet
<1>9. EventsAccounted'
  <2>1. Parted(Elements(queuedEvents), Elements(inFlightEvents), finished, dropped, 1..made)
    BY Accounted DEF EInv
  <2>2. Parted(Elements(queuedEvents'), Elements(inFlightEvents), finished,
               dropped \cup lost, 1..e)
    BY <1>3, <1>5, <2>1 DEF Parted
  <2> QED
    BY <1>1, <1>5, <2>2, AccountedNext
<1>10. WrittenWhenOpen'
  BY <1>2 DEF WrittenWhenOpen
<1> QED
  BY <1>6, <1>7, <1>8, <1>9, <1>10 DEF EInv

\* disconnect() discards what is queued and what is unacknowledged.
LEMMA DisconnectEvents ==
  ASSUME IInv, EInv, DoDisconnect
  PROVE  EInv'
<1>1. /\ queuedEvents' = <<>> /\ inFlightEvents' = <<>>
      /\ dropped' = dropped \cup Elements(queuedEvents) \cup Elements(inFlightEvents)
      /\ CloseCurrent /\ socket' = None
      /\ UNCHANGED <<wire, made, finished>>
  BY DEF DoDisconnect
<1>2. Quiet /\ ~IsOpen'
  BY <1>1, ClosingQuiet
<1>3. EventTypes'
  <2>1. Elements(queuedEvents) \subseteq Events /\ Elements(inFlightEvents) \subseteq Events
    BY ElementsType DEF EInv, EventTypes
  <2> QED
    BY <1>1, <2>1, EmptySequence, ConstantsAssumption DEF EInv, EventTypes
<1>4. QueuesInOrder'
  BY <1>1, EmptySequence DEF QueuesInOrder
<1>5. WiresInOrder'
  BY <1>1, <1>2, EmptySequence DEF EInv, WiresInOrder, Quiet
<1>6. EventsAccounted'
  <2>1. Parted(Elements(queuedEvents), Elements(inFlightEvents), finished, dropped, 1..made)
    BY Accounted DEF EInv
  <2>2. Parted({}, {}, finished,
               dropped \cup Elements(queuedEvents) \cup Elements(inFlightEvents), 1..made)
    BY <2>1 DEF Parted
  <2> QED
    BY <1>1, <2>2, AccountedNext, EmptySequence
<1>7. WrittenWhenOpen'
  BY <1>2 DEF WrittenWhenOpen
<1> QED
  BY <1>3, <1>4, <1>5, <1>6, <1>7 DEF EInv

\* The open event: the unacknowledged messages and then the queue are written on a
\* connection that carried nothing before.
LEMMA OpensEvents ==
  ASSUME IInv, EInv, NEW s \in Sockets, SocketOpens(s)
  PROVE  EInv'
<1> DEFINE all == inFlightEvents \o queuedEvents
<1>1. /\ readyState[s] = "connecting" /\ s = socket
      /\ readyState' = [readyState EXCEPT ![s] = "open"]
      /\ wire' = [wire EXCEPT ![s] = (@ \o inFlightEvents) \o queuedEvents]
      /\ TrackAfter(inFlightEvents, queuedEvents)
      /\ queuedEvents' = <<>>
      /\ UNCHANGED <<socket, made, dropped>>
  BY DEF SocketOpens, FlushPendingEvents, Track
<1>2. /\ queuedEvents \in Seq(Events) /\ Increasing(queuedEvents)
      /\ inFlightEvents \in Seq(Events) /\ Increasing(inFlightEvents)
      /\ inFlightEvents \in Seq(Events \ Pings)
      /\ \A a \in Elements(inFlightEvents), b \in Elements(queuedEvents) : a < b
      /\ wire[s] = <<>>
  BY <1>1 DEF EInv, EventTypes, QueuesInOrder, WiresInOrder
<1>3. /\ all \in Seq(Events) /\ Increasing(all)
      /\ Elements(all) = Elements(inFlightEvents) \cup Elements(queuedEvents)
  BY <1>2, ConcatProperties, IncreasingConcat, ElementsConcat
<1>4. wire'[s] = all
  <2>1. <<>> \o inFlightEvents = inFlightEvents
    BY <1>2, ConcatEmptySeq
  <2> QED
    BY <1>1, <1>2, <2>1 DEF EInv, EventTypes
<1> HIDE DEF all
<1>5. PICK m \in Seq(Events \ Pings) :
        /\ inFlightEvents' = inFlightEvents \o m
        /\ Elements(m) = Elements(queuedEvents) \ Pings
        /\ Increasing(m)
        /\ finished' = finished \cup (Elements(queuedEvents) \cap Pings)
  BY <1>1, <1>2, TrackedMessages
<1>6. inFlightEvents' \in Seq(Events \ Pings)
  BY <1>2, <1>5, ConcatProperties
<1>7. Elements(inFlightEvents')
        = Elements(inFlightEvents) \cup (Elements(queuedEvents) \ Pings)
  <2>1. Elements(inFlightEvents \o m) = Elements(inFlightEvents) \cup Elements(m)
    BY <1>2, <1>5, ElementsConcat
  <2> QED
    BY <1>5, <2>1
<1>8. Increasing(inFlightEvents')
  <2>1. \A a \in Elements(inFlightEvents), b \in Elements(m) : a < b
    BY <1>2, <1>5
  <2>2. m \in Seq(Events)
    BY <1>5
  <2> QED
    BY <1>2, <1>5, <2>1, <2>2, IncreasingConcat
<1>9. Parted(Elements(queuedEvents), Elements(inFlightEvents), finished, dropped, 1..made)
  BY Accounted DEF EInv
<1>10. EventTypes'
  <2>1. wire' \in [Sockets -> Seq(Events)]
    BY <1>1, <1>3, <1>4 DEF EInv, EventTypes
  <2>2. finished' \subseteq Events
    BY <1>5, <1>2, ElementsType DEF EInv, EventTypes
  <2> QED
    BY <1>1, <1>6, <2>1, <2>2, EmptySequence, ConstantsAssumption DEF EInv, EventTypes
<1>11. QueuesInOrder'
  BY <1>1, <1>8, EmptySequence DEF QueuesInOrder
<1>12. WiresInOrder'
  <2>1. Elements(all) \subseteq 1..made
    BY <1>3, <1>9 DEF Parted
  <2>2. ASSUME NEW t \in Sockets, t # s
        PROVE  wire'[t] = wire[t] /\ readyState'[t] = readyState[t]
    BY <1>1, <2>2 DEF EInv, EventTypes, IInv, ConnectionType
  <2>3. readyState'[s] = "open"
    BY <1>1 DEF IInv, ConnectionType
  <2> QED
    BY <1>1, <1>3, <1>4, <2>1, <2>2, <2>3 DEF EInv, WiresInOrder
<1>13. EventsAccounted'
  <2>1. Parted({}, Elements(inFlightEvents'), finished', dropped, 1..made)
    <3>1. Elements(inFlightEvents) \cap Pings = {}
      BY <1>2, ElementsType
    <3> QED
      BY <1>5, <1>7, <1>9, <3>1 DEF Parted
  <2> QED
    BY <1>1, <2>1, AccountedNext, EmptySequence
<1>14. WrittenWhenOpen'
  <2>1. Elements(inFlightEvents') \subseteq Elements(wire'[s])
    BY <1>3, <1>4, <1>7
  <2> QED
    BY <1>1, <2>1 DEF WrittenWhenOpen
<1> QED
  BY <1>10, <1>11, <1>12, <1>13, <1>14 DEF EInv

\* An acknowledgement takes one message out of those that wait.
LEMMA AckEvents ==
  ASSUME IInv, EInv, NEW e \in Events, ReceiveAck(e)
  PROVE  EInv'
<1>1. PICK i \in DOMAIN inFlightEvents :
        /\ inFlightEvents[i] = e
        /\ inFlightEvents' = SubSeq(inFlightEvents, 1, i - 1)
                              \o SubSeq(inFlightEvents, i + 1, Len(inFlightEvents))
  BY DEF ReceiveAck
<1>2. /\ finished' = finished \cup {e}
      /\ UNCHANGED <<readyState, wire, socket, queuedEvents, made, dropped>>
  BY DEF ReceiveAck, link
<1>3. inFlightEvents \in Seq(Events \ Pings) /\ Increasing(inFlightEvents)
  BY DEF EInv, EventTypes, QueuesInOrder
<1>4. /\ inFlightEvents' \in Seq(Events \ Pings)
      /\ Elements(inFlightEvents') = Elements(inFlightEvents) \ {e}
      /\ Increasing(inFlightEvents')
  <2>1. Events \ Pings \in SUBSET Events
    OBVIOUS
  <2> QED
    BY <1>1, <1>3, <2>1, TakeOut
<1>5. e \in Elements(inFlightEvents)
  BY <1>1 DEF Elements
<1>6. EventTypes' /\ QueuesInOrder' /\ WiresInOrder'
  BY <1>2, <1>4 DEF EInv, EventTypes, QueuesInOrder, WiresInOrder
<1>7. EventsAccounted'
  <2>1. Parted(Elements(queuedEvents), Elements(inFlightEvents), finished, dropped, 1..made)
    BY Accounted DEF EInv
  <2>2. Parted(Elements(queuedEvents), Elements(inFlightEvents'), finished', dropped, 1..made)
    BY <1>2, <1>4, <1>5, <2>1 DEF Parted
  <2> QED
    BY <1>2, <2>2, AccountedNext
<1>8. WrittenWhenOpen'
  BY <1>2, <1>4 DEF EInv, WrittenWhenOpen, IsOpen
<1> QED
  BY <1>6, <1>7, <1>8 DEF EInv

LEMMA NextEvents == IInv /\ EInv /\ [Next]_vars => EInv'
<1> SUFFICES ASSUME IInv, EInv, [Next]_vars PROVE EInv'
  OBVIOUS
<1>0. isBrowserOnline \in BOOLEAN /\ TRUE \in BOOLEAN
  BY DEF IInv, ConnectionType
<1>1. CASE Connect
  <2>1. ConnectWith(isBrowserOnline, reconnectAttempt) /\ UNCHANGED events
    BY <1>1 DEF Connect
  <2> QED
    BY <1>0, <2>1, ConnectQuiet, QuietInv
<1>2. CASE Send
  BY <1>2, SendOpenInv, SendQueuedInv
<1>3. CASE Disconnect \/ Dispose
  BY <1>3, DisconnectEvents DEF Disconnect, Dispose
<1>4. ASSUME NEW s \in Sockets, SocketOpens(s) PROVE EInv'
  BY <1>4, OpensEvents
<1>5. ASSUME NEW s \in Sockets, SocketCloses(s) PROVE EInv'
  <2>1. UNCHANGED events
    BY <1>5 DEF SocketCloses
  <2> QED
    BY <1>5, <2>1, ClosesQuiet, QuietInv
<1>6. CASE SocketFails
  <2>1. CloseCurrent /\ wire' = wire /\ socket' = socket /\ UNCHANGED events
    BY <1>6 DEF SocketFails
  <2> QED
    BY <2>1, ClosingQuiet, QuietInv
<1>7. ASSUME NEW e \in Events, ReceiveAck(e) PROVE EInv'
  BY <1>7, AckEvents
<1>8. CASE ReconnectTimerFires
  <2>1. UNCHANGED events /\ (OpenSocket("reconnecting") \/ UNCHANGED link)
    BY <1>8 DEF ReconnectTimerFires
  <2> QED
    BY <2>1, OpenSocketQuiet, SameLinkQuiet, QuietInv
<1>9. CASE HeartbeatTimerFires \/ ReceivePong
  <2>1. UNCHANGED link /\ UNCHANGED events
    BY <1>9 DEF HeartbeatTimerFires, ReceivePong
  <2> QED
    BY <2>1, SameLinkQuiet, QuietInv
<1>10. CASE PongTimesOut
  <2>1. CloseCurrent /\ wire' = wire /\ socket' = socket /\ UNCHANGED events
    BY <1>10 DEF PongTimesOut
  <2> QED
    BY <2>1, ClosingQuiet, QuietInv
<1>11. CASE BrowserOffline
  <2>1. /\ wire' = wire /\ socket' = socket /\ UNCHANGED events
        /\ CloseCurrent \/ readyState' = readyState
    BY <1>11 DEF BrowserOffline
  <2>2. CASE CloseCurrent
    BY <2>1, <2>2, ClosingQuiet, QuietInv
  <2>3. CASE readyState' = readyState
    BY <2>1, <2>3, SameLinkQuiet, QuietInv DEF link
  <2> QED
    BY <2>1, <2>2, <2>3
<1>12. CASE BrowserOnline
  <2>1. UNCHANGED events /\ (ConnectWith(TRUE, 0) \/ UNCHANGED link)
    BY <1>12 DEF BrowserOnline
  <2> QED
    BY <1>0, <2>1, ConnectQuiet, SameLinkQuiet, QuietInv
<1>13. CASE UNCHANGED vars
  <2>1. UNCHANGED link /\ UNCHANGED events
    BY <1>13 DEF vars, link, events
  <2> QED
    BY <2>1, SameLinkQuiet, QuietInv
<1> QED
  BY <1>1, <1>2, <1>3, <1>4, <1>5, <1>6, <1>7, <1>8, <1>9, <1>10, <1>11, <1>12, <1>13
     DEF Next

LEMMA EventsInvariance == Spec => []EInv
  BY InitEvents, NextEvents, Invariance, PTL DEF Spec

-------------------------------------------------------------------------------
\* The counters and flags that no other part of the invariant is about.
Counters ==
  /\ reconnectAttempt \in 0..MaxReconnectAttempts
  /\ listening \in BOOLEAN
  /\ gaveUp \in BOOLEAN

LEMMA ConnectCounters ==
  ASSUME Counters, NEW online, NEW attempt \in 0..MaxReconnectAttempts,
         ConnectWith(online, attempt)
  PROVE  Counters'
<1>1. reconnectAttempt' = 0 \/ reconnectAttempt' = attempt
  BY DEF ConnectWith
<1>2. gaveUp' = FALSE /\ listening' = listening
  BY DEF ConnectWith
<1>3. 0 \in 0..MaxReconnectAttempts
  BY ConstantsAssumption
<1> QED
  BY <1>1, <1>2, <1>3 DEF Counters

LEMMA NextCounters == IInv /\ Counters /\ [Next]_vars => Counters'
<1> SUFFICES ASSUME IInv, Counters, [Next]_vars PROVE Counters'
  OBVIOUS
<1>0. 0 \in 0..MaxReconnectAttempts /\ reconnectAttempt \in 0..MaxReconnectAttempts
  BY ConstantsAssumption DEF Counters
<1>1. CASE Connect
  BY <1>0, <1>1, ConnectCounters DEF Connect
<1>2. CASE Send
  <2>1. CASE IsOpen
    BY <1>2, <2>1 DEF Send, Counters
  <2>2. CASE ~IsOpen
    BY <1>0, <1>2, <2>2, ConnectCounters DEF Send
  <2> QED
    BY <2>1, <2>2
<1>3. CASE Disconnect \/ Dispose
  BY <1>3 DEF Disconnect, Dispose, DoDisconnect, Counters
<1>4. ASSUME NEW s \in Sockets, SocketOpens(s) PROVE Counters'
  BY <1>0, <1>4 DEF SocketOpens, Counters
<1>5. ASSUME NEW s \in Sockets, SocketCloses(s) PROVE Counters'
  <2>1. CASE ForgetStale(s)
    BY <1>5, <2>1 DEF SocketCloses, ForgetStale, Counters
  <2>2. CASE HandleClosedSocket(s)
    <3>1. /\ gaveUp' = (shouldReconnect /\ isBrowserOnline /\ Exhausted)
          /\ listening' = listening
      BY <1>5, <2>2 DEF SocketCloses, HandleClosedSocket
    <3>2. reconnectAttempt' = reconnectAttempt
            \/ (~Exhausted /\ reconnectAttempt' = reconnectAttempt + 1)
      BY <2>2 DEF HandleClosedSocket
    <3>3. reconnectAttempt' \in 0..MaxReconnectAttempts
      BY <1>0, <3>2, ConstantsAssumption DEF Exhausted
    <3> QED
      BY <3>1, <3>3 DEF Counters
  <2> QED
    BY <1>5, <2>1, <2>2 DEF SocketCloses
<1>6. CASE SocketFails \/ ReconnectTimerFires
  BY <1>6 DEF SocketFails, ReconnectTimerFires, Counters
<1>7. ASSUME NEW e \in Events, ReceiveAck(e) PROVE Counters'
  BY <1>7 DEF ReceiveAck, Counters
<1>8. CASE HeartbeatTimerFires \/ ReceivePong \/ PongTimesOut
  BY <1>8 DEF HeartbeatTimerFires, ReceivePong, PongTimesOut, Counters
<1>9. CASE BrowserOffline
  BY <1>9 DEF BrowserOffline, Counters
<1>10. CASE BrowserOnline
  <2>1. CASE ConnectWith(TRUE, 0)
    BY <1>0, <2>1, ConnectCounters
  <2>2. CASE ~shouldReconnect
    BY <1>10, <2>2 DEF BrowserOnline, Counters
  <2> QED
    BY <1>10, <2>1, <2>2 DEF BrowserOnline
<1>11. CASE UNCHANGED vars
  BY <1>11 DEF vars, Counters
<1> QED
  BY <1>1, <1>2, <1>3, <1>4, <1>5, <1>6, <1>7, <1>8, <1>9, <1>10, <1>11 DEF Next

LEMMA CountersInvariance == Spec => []Counters
<1>1. Init => Counters
  <2>1. 0 \in 0..MaxReconnectAttempts
    BY ConstantsAssumption
  <2> QED
    BY <2>1 DEF Init, Counters
<1> QED
  BY <1>1, NextCounters, Invariance, PTL DEF Spec

-------------------------------------------------------------------------------
\* The queue never holds more than its limit, a ping never waits for an
\* acknowledgement, and the attempts never exceed theirs.
THEOREM ClientTypes == Spec => []TypeOK
<1>1. IInv /\ EInv /\ Counters => TypeOK
  BY DEF IInv, ConnectionType, EInv, EventTypes, Counters, TypeOK
<1> QED
  BY <1>1, Invariance, EventsInvariance, CountersInvariance, PTL

\* Whatever is queued, resent and dropped, every connection carries the events in
\* the order in which they were made, and none of them twice.
THEOREM EveryWireInOrder == Spec => []WireInOrder
<1>1. EInv => WireInOrder
  BY DEF EInv, WiresInOrder, WireInOrder
<1> QED
  BY <1>1, EventsInvariance, PTL

\* Every event made is queued, waiting, finished or dropped, and only one of these.
THEOREM NoEventForgotten == Spec => []EventsAccounted
<1>1. EInv => EventsAccounted
  BY DEF EInv
<1> QED
  BY <1>1, EventsInvariance, PTL

\* An open connection has been given all there was to write.
THEOREM NothingHeldBack == Spec => []WrittenWhenOpen
<1>1. EInv => WrittenWhenOpen
  BY DEF EInv
<1> QED
  BY <1>1, EventsInvariance, PTL

-------------------------------------------------------------------------------
\* Outbox is implemented. Increasing and Elements are what it calls InOrder and
\* Given.
LEMMA SameNotions ==
  /\ \A seq : Box!InOrder(seq) <=> Increasing(seq)
  /\ \A seq : Box!Given(seq) = Elements(seq)
  /\ \A S : Box!Cardinality(S) = Cardinality(S)
<1>1. \A S : Box!Cardinality(S) = Cardinality(S)
  BY DEF Box!Cardinality, Cardinality
<1> QED
  BY <1>1 DEF Box!InOrder, Increasing, Box!Given, Elements

\* Whatever happens to the sockets, as long as nothing is written, is a connection
\* lost or nothing at all.
LEMMA QuietCloses ==
  ASSUME Quiet, UNCHANGED events
  PROVE  Box!Close \/ UNCHANGED Box!vars
<1>1. UNCHANGED <<queuedEvents, inFlightEvents, made, finished, dropped>>
  BY DEF events
<1>2. CASE IsOpen'
  <2>1. IsOpen /\ socket' = socket /\ wire'[socket] = wire[socket]
    BY <1>2 DEF Quiet
  <2>2. IsOpen' = IsOpen /\ Line' = Line
    BY <1>2, <2>1 DEF Line
  <2> QED
    BY <1>1, <2>2 DEF Box!vars
<1>3. CASE ~IsOpen'
  <2>1. Line' = <<>>
    BY <1>3 DEF Line
  <2> QED
    BY <1>1, <1>3, <2>1 DEF Box!Close
<1> QED
  BY <1>2, <1>3

\* A bounded queue that has to make room is full.
LEMMA IncreasingCounts ==
  ASSUME NEW s \in Seq(Events), Increasing(s)
  PROVE  Cardinality(Elements(s)) = Len(s)
<1>1. Len(s) \in Nat /\ DOMAIN s = 1..Len(s) /\ s \in [1..Len(s) -> Events]
  OBVIOUS
<1>2. s \in Bijection(1..Len(s), Elements(s))
  <2>1. s \in [1..Len(s) -> Elements(s)]
    BY <1>1 DEF Elements
  <2>2. \A i, j \in 1..Len(s) : s[i] = s[j] => i = j
    <3>1. SUFFICES ASSUME NEW i \in 1..Len(s), NEW j \in 1..Len(s), i < j PROVE s[i] # s[j]
      BY <1>1
    <3>2. s[i] < s[j] /\ s[i] \in Events /\ s[j] \in Events
      BY <1>1, <3>1 DEF Increasing
    <3> QED
      BY <3>2 DEF Events
  <2>3. \A x \in Elements(s) : \E i \in 1..Len(s) : s[i] = x
    BY <1>1 DEF Elements
  <2> QED
    BY <2>1, <2>2, <2>3 DEF Bijection, Injection, Surjection, IsInjective
<1>3. ExistsBijection(1..Len(s), Elements(s))
  BY <1>2 DEF ExistsBijection
<1> QED
  BY <1>1, <1>3, FS_CountingElements

LEMMA SendMakesDown ==
  ASSUME IInv, EInv, Send, ~IsOpen
  PROVE  Box!MakeDown
<1> DEFINE e == made + 1
           waiting == Elements(queuedEvents) \cup {e}
<1>1. /\ made < MaxEvents /\ made' = made + 1
      /\ EnqueueEvent(made + 1)
      /\ ConnectWith(isBrowserOnline, reconnectAttempt)
      /\ UNCHANGED <<inFlightEvents, finished>>
  BY DEF Send
<1>2. ~IsOpen' /\ Line = <<>> /\ Line' = <<>>
  <2>1. isBrowserOnline \in BOOLEAN
    BY DEF IInv, ConnectionType
  <2>2. ~IsOpen'
    BY <1>1, <2>1, ConnectQuiet
  <2> QED
    BY <2>2 DEF Line
<1>3. e \in Events /\ \A a \in 1..made : a < e
  BY <1>1, NewEvent
<1>4. queuedEvents \in Seq(Events) /\ Increasing(queuedEvents)
  BY DEF EInv, EventTypes, QueuesInOrder
<1>5. \A a \in Elements(queuedEvents) : a < e
  <2>1. Elements(queuedEvents) \subseteq 1..made
    BY <1>1, NewEvent
  <2> QED
    BY <1>3, <2>1
<1>6. EnqueueEvent(e) /\ waiting = Elements(queuedEvents) \cup {made + 1} /\ e = made + 1
  BY <1>1
<1> HIDE DEF e
<1>7. /\ queuedEvents' \in Seq(Events)
      /\ Len(queuedEvents') <= MaxQueuedEvents
      /\ Increasing(queuedEvents')
  BY <1>3, <1>4, <1>5, <1>6, Enqueued
<1>8. \E lost \in SUBSET Events :
        /\ dropped' = dropped \cup lost
        /\ Elements(queuedEvents') \cup lost = Elements(queuedEvents) \cup {e}
        /\ Elements(queuedEvents') \cap lost = {}
        /\ \A a \in lost, b \in Elements(queuedEvents') : a < b
        /\ lost # {} => Len(queuedEvents') = MaxQueuedEvents
  BY <1>3, <1>4, <1>5, <1>6, Enqueued
<1>9. PICK out \in SUBSET Events :
        /\ dropped' = dropped \cup out
        /\ Elements(queuedEvents') \cup out = Elements(queuedEvents) \cup {e}
        /\ Elements(queuedEvents') \cap out = {}
        /\ \A a \in out, b \in Elements(queuedEvents') : a < b
        /\ out # {} => Len(queuedEvents') = MaxQueuedEvents
  BY <1>8
<1>10. Cardinality(Elements(queuedEvents')) = Len(queuedEvents')
  BY <1>7, IncreasingCounts
<1>11. out \in SUBSET waiting /\ Elements(queuedEvents') = waiting \ out
  BY <1>9
<1>12. \E o \in SUBSET (Elements(queuedEvents) \cup {made + 1}) :
         /\ Elements(queuedEvents') = (Elements(queuedEvents) \cup {made + 1}) \ o
         /\ dropped' = dropped \cup o
         /\ Cardinality(Elements(queuedEvents')) <= MaxQueuedEvents
         /\ o # {} => Cardinality(Elements(queuedEvents')) = MaxQueuedEvents
         /\ \A a \in o, b \in Elements(queuedEvents') : a < b
  <2> HIDE DEF waiting
  <2> QED
    BY <1>6, <1>7, <1>9, <1>10, <1>11
<1>13. Elements(inFlightEvents') = Elements(inFlightEvents) /\ IsOpen' = IsOpen
  BY <1>1, <1>2 DEF IsOpen
<1>14. Box!Cardinality(Elements(queuedEvents')) = Cardinality(Elements(queuedEvents'))
  BY SameNotions
<1> QED
  BY <1>1, <1>2, <1>12, <1>13, <1>14 DEF Box!MakeDown

LEMMA SendMakesUp ==
  ASSUME IInv, EInv, Send, IsOpen
  PROVE  Box!MakeUp
<1> DEFINE e == made + 1
           one == <<e>>
<1>1. /\ made < MaxEvents /\ made' = e
      /\ wire' = [wire EXCEPT ![socket] = Append(@, e)]
      /\ TrackAfter(inFlightEvents, one)
      /\ UNCHANGED <<readyState, socket, queuedEvents, dropped>>
  BY DEF Send, Track
<1>2. one \in Seq(Events) /\ Elements(one) = {e}
  BY <1>1, NewEvent, Singleton
<1>3. IsOpen' /\ Line = wire[socket] /\ Line' = Append(wire[socket], e)
  <2>1. socket \in Sockets /\ wire \in [Sockets -> Seq(Events)]
    BY DEF EInv, EventTypes, IInv, ConnectionType, IsOpen
  <2>2. wire'[socket] = Append(wire[socket], e)
    BY <1>1, <2>1
  <2>3. IsOpen' /\ socket' = socket
    BY <1>1 DEF IsOpen
  <2> QED
    BY <2>2, <2>3 DEF Line
<1> HIDE DEF one
<1>4. PICK m \in Seq(Events \ Pings) :
        /\ inFlightEvents' = inFlightEvents \o m
        /\ Elements(m) = {e} \ Pings
        /\ finished' = finished \cup ({e} \cap Pings)
  BY <1>1, <1>2, TrackedMessages
<1>5. Elements(inFlightEvents \o m) = Elements(inFlightEvents) \cup Elements(m)
  BY <1>4, ElementsConcat DEF EInv, EventTypes
<1>6. Elements(inFlightEvents') = Elements(inFlightEvents) \cup ({e} \ Pings)
  BY <1>4, <1>5
<1> QED
  BY <1>1, <1>3, <1>4, <1>6 DEF Box!MakeUp

LEMMA OpensIsOpen ==
  ASSUME IInv, EInv, NEW s \in Sockets, SocketOpens(s)
  PROVE  Box!Open
<1> DEFINE all == inFlightEvents \o queuedEvents
<1>1. /\ readyState[s] = "connecting" /\ s = socket
      /\ readyState' = [readyState EXCEPT ![s] = "open"]
      /\ wire' = [wire EXCEPT ![s] = (@ \o inFlightEvents) \o queuedEvents]
      /\ TrackAfter(inFlightEvents, queuedEvents)
      /\ queuedEvents' = <<>>
      /\ UNCHANGED <<socket, made, dropped>>
  BY DEF SocketOpens, FlushPendingEvents, Track
<1>2. /\ queuedEvents \in Seq(Events) /\ Increasing(queuedEvents)
      /\ inFlightEvents \in Seq(Events) /\ Increasing(inFlightEvents)
      /\ inFlightEvents \in Seq(Events \ Pings)
      /\ \A a \in Elements(inFlightEvents), b \in Elements(queuedEvents) : a < b
      /\ wire[s] = <<>>
  BY <1>1 DEF EInv, EventTypes, QueuesInOrder, WiresInOrder
<1>3. /\ all \in Seq(Events) /\ Increasing(all)
      /\ Elements(all) = Elements(inFlightEvents) \cup Elements(queuedEvents)
  BY <1>2, ConcatProperties, IncreasingConcat, ElementsConcat
<1>4. ~IsOpen /\ IsOpen' /\ Line' = all
  <2>1. <<>> \o inFlightEvents = inFlightEvents
    BY <1>2, ConcatEmptySeq
  <2>2. wire'[s] = all
    BY <1>1, <1>2, <2>1 DEF EInv, EventTypes
  <2>3. ~IsOpen
    BY <1>1 DEF IsOpen
  <2>4. IsOpen' /\ socket' = s
    <3>1. s # None /\ readyState'[s] = "open"
      BY <1>1, ConstantsAssumption DEF IInv, ConnectionType
    <3> QED
      BY <1>1, <3>1 DEF IsOpen
  <2> QED
    BY <2>2, <2>3, <2>4 DEF Line
<1> HIDE DEF all
<1>5. PICK m \in Seq(Events \ Pings) :
        /\ inFlightEvents' = inFlightEvents \o m
        /\ Elements(m) = Elements(queuedEvents) \ Pings
        /\ finished' = finished \cup (Elements(queuedEvents) \cap Pings)
  BY <1>1, <1>2, TrackedMessages
<1>6. Elements(inFlightEvents \o m) = Elements(inFlightEvents) \cup Elements(m)
  BY <1>2, <1>5, ElementsConcat
<1>7. /\ Elements(inFlightEvents')
           = Elements(inFlightEvents) \cup (Elements(queuedEvents) \ Pings)
      /\ Elements(queuedEvents') = {}
  BY <1>1, <1>5, <1>6, EmptySequence
<1>8. Line' \in Seq(Elements(inFlightEvents) \cup Elements(queuedEvents))
  <2>1. all \in Seq(Elements(all))
    BY <1>3 DEF Elements
  <2> QED
    BY <1>3, <1>4, <2>1
<1>9. /\ Box!InOrder(Line')
      /\ Box!Given(Line') = Elements(inFlightEvents) \cup Elements(queuedEvents)
  BY <1>3, <1>4, SameNotions
<1> QED
  BY <1>1, <1>4, <1>5, <1>7, <1>8, <1>9 DEF Box!Open

LEMMA AckIsAcknowledge ==
  ASSUME IInv, EInv, NEW e \in Events, ReceiveAck(e)
  PROVE  e \in Elements(inFlightEvents) /\ Box!Acknowledge(e)
<1>1. PICK i \in DOMAIN inFlightEvents :
        /\ inFlightEvents[i] = e
        /\ inFlightEvents' = SubSeq(inFlightEvents, 1, i - 1)
                              \o SubSeq(inFlightEvents, i + 1, Len(inFlightEvents))
  BY DEF ReceiveAck
<1>2. /\ finished' = finished \cup {e}
      /\ IsOpen
      /\ UNCHANGED <<readyState, wire, socket, queuedEvents, made, dropped>>
  BY DEF ReceiveAck, link
<1>3. Elements(inFlightEvents') = Elements(inFlightEvents) \ {e}
  <2>1. Events \ Pings \in SUBSET Events
    OBVIOUS
  <2>2. inFlightEvents \in Seq(Events \ Pings) /\ Increasing(inFlightEvents)
    BY DEF EInv, EventTypes, QueuesInOrder
  <2> QED
    BY <1>1, <2>1, <2>2, TakeOut
<1>4. e \in Elements(inFlightEvents)
  BY <1>1 DEF Elements
<1>5. IsOpen' = IsOpen /\ Line' = Line
  BY <1>2 DEF IsOpen, Line
<1> QED
  BY <1>2, <1>3, <1>4, <1>5 DEF Box!Acknowledge

LEMMA DisconnectDiscards ==
  ASSUME IInv, EInv, DoDisconnect
  PROVE  Box!Discard
<1>1. /\ queuedEvents' = <<>> /\ inFlightEvents' = <<>>
      /\ dropped' = dropped \cup Elements(queuedEvents) \cup Elements(inFlightEvents)
      /\ socket' = None
      /\ UNCHANGED <<made, finished>>
  BY DEF DoDisconnect
<1>2. ~IsOpen' /\ Line' = <<>>
  BY <1>1 DEF IsOpen, Line
<1>3. Elements(queuedEvents') = {} /\ Elements(inFlightEvents') = {}
  BY <1>1, EmptySequence
<1> QED
  BY <1>1, <1>2, <1>3 DEF Box!Discard

\* All other steps leave the events where they are.
LEMMA OthersAreQuiet ==
  ASSUME IInv, EInv,
         \/ Connect \/ SocketFails \/ ReconnectTimerFires \/ HeartbeatTimerFires
         \/ ReceivePong \/ PongTimesOut \/ BrowserOffline \/ BrowserOnline
         \/ (\E s \in Sockets : SocketCloses(s))
         \/ UNCHANGED vars
  PROVE  Quiet /\ UNCHANGED events
<1>0. isBrowserOnline \in BOOLEAN /\ TRUE \in BOOLEAN
  BY DEF IInv, ConnectionType
<1>1. CASE Connect
  <2>1. ConnectWith(isBrowserOnline, reconnectAttempt) /\ UNCHANGED events
    BY <1>1 DEF Connect
  <2> QED
    BY <1>0, <2>1, ConnectQuiet
<1>2. ASSUME NEW s \in Sockets, SocketCloses(s) PROVE Quiet /\ UNCHANGED events
  <2>1. UNCHANGED events
    BY <1>2 DEF SocketCloses
  <2> QED
    BY <1>2, <2>1, ClosesQuiet
<1>3. CASE SocketFails \/ PongTimesOut
  <2>1. CloseCurrent /\ wire' = wire /\ socket' = socket /\ UNCHANGED events
    BY <1>3 DEF SocketFails, PongTimesOut
  <2> QED
    BY <2>1, ClosingQuiet
<1>4. CASE ReconnectTimerFires
  <2>1. UNCHANGED events /\ (OpenSocket("reconnecting") \/ UNCHANGED link)
    BY <1>4 DEF ReconnectTimerFires
  <2> QED
    BY <2>1, OpenSocketQuiet, SameLinkQuiet
<1>5. CASE HeartbeatTimerFires \/ ReceivePong \/ UNCHANGED vars
  <2>1. UNCHANGED link /\ UNCHANGED events
    BY <1>5 DEF HeartbeatTimerFires, ReceivePong, vars, link, events
  <2> QED
    BY <2>1, SameLinkQuiet
<1>6. CASE BrowserOffline
  <2>1. /\ wire' = wire /\ socket' = socket /\ UNCHANGED events
        /\ CloseCurrent \/ readyState' = readyState
    BY <1>6 DEF BrowserOffline
  <2>2. CASE CloseCurrent
    BY <2>1, <2>2, ClosingQuiet
  <2>3. CASE readyState' = readyState
    BY <2>1, <2>3, SameLinkQuiet DEF link
  <2> QED
    BY <2>1, <2>2, <2>3
<1>7. CASE BrowserOnline
  <2>1. UNCHANGED events /\ (ConnectWith(TRUE, 0) \/ UNCHANGED link)
    BY <1>7 DEF BrowserOnline
  <2> QED
    BY <1>0, <2>1, ConnectQuiet, SameLinkQuiet
<1> QED
  BY <1>1, <1>2, <1>3, <1>4, <1>5, <1>6, <1>7

\* The promise to the application, for every number of events and every limit of
\* the queue.
THEOREM ClientImplementsOutbox == Spec => ImplementsOutbox
<1>1. Init => Box!Init
  <2> SUFFICES ASSUME Init PROVE Box!Init
    OBVIOUS
  <2>1. /\ queuedEvents = <<>> /\ inFlightEvents = <<>> /\ socket = None
        /\ made = 0 /\ finished = {} /\ dropped = {}
    BY DEF Init
  <2>2. ~IsOpen /\ Line = <<>>
    BY <2>1 DEF IsOpen, Line
  <2> QED
    BY <2>1, <2>2, EmptySequence DEF Box!Init
<1>2. IInv /\ EInv /\ [Next]_vars => [Box!Next]_(Box!vars)
  <2> SUFFICES ASSUME IInv, EInv, [Next]_vars PROVE [Box!Next]_(Box!vars)
    OBVIOUS
  <2>1. CASE Send
    <3>1. Box!MakeDown \/ Box!MakeUp
      BY <2>1, SendMakesDown, SendMakesUp
    <3> QED
      BY <3>1 DEF Box!Next
  <2>2. CASE Disconnect \/ Dispose
    <3>1. Box!Discard
      BY <2>2, DisconnectDiscards DEF Disconnect, Dispose
    <3> QED
      BY <3>1 DEF Box!Next
  <2>3. ASSUME NEW s \in Sockets, SocketOpens(s) PROVE Box!Next
    <3>1. Box!Open
      BY <2>3, OpensIsOpen
    <3> QED
      BY <3>1 DEF Box!Next
  <2>4. ASSUME NEW e \in Events, ReceiveAck(e) PROVE Box!Next
    <3>1. e \in Elements(inFlightEvents) /\ Box!Acknowledge(e)
      BY <2>4, AckIsAcknowledge
    <3> QED
      BY <3>1 DEF Box!Next
  <2>5. CASE \/ Connect \/ SocketFails \/ ReconnectTimerFires \/ HeartbeatTimerFires
             \/ ReceivePong \/ PongTimesOut \/ BrowserOffline \/ BrowserOnline
             \/ (\E s \in Sockets : SocketCloses(s))
             \/ UNCHANGED vars
    <3>1. Box!Close \/ UNCHANGED Box!vars
      BY <2>5, OthersAreQuiet, QuietCloses
    <3> QED
      BY <3>1 DEF Box!Next
  <2> QED
    BY <2>1, <2>2, <2>3, <2>4, <2>5 DEF Next
<1> QED
  BY <1>1, <1>2, Invariance, EventsInvariance, PTL DEF Spec, ImplementsOutbox, Box!Spec
===============================================================================
