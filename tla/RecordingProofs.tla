-------------------------- MODULE RecordingProofs --------------------------
(***************************************************************************)
(* No event of a recording is lost and no flag of one is left behind, for  *)
(* every number of tracks, automation tracks and events.                   *)
(***************************************************************************)
EXTENDS Recording, FiniteSetTheorems, SequenceTheorems, WellFoundedInduction, TLAPS

(* What is known of the GTK thread and of a call between two steps: while a *)
(* stop is handled its event is held, and the action is made by the last   *)
(* of the recordings; a call that is about to read recording_stop_sent has *)
(* sent what it had.                                                       *)
Stopping == {"pause", "commit", "disarm", "clear", "clearStart", "clearStop"}
ThreadsInv ==
  /\ gtk.at \in {"idle", "freeing", "freed"} => gtk.ev = NoEvent
  /\ gtk.at \in Stopping => gtk.ev \in Events /\ gtk.ev.type = "stop"
  /\ gtk.at = "hung" => gtk.ev \in Events
  /\ gtk.at \in {"pause", "commit", "disarm"} => active = 1
  /\ \A t \in Tracks : call[t].stop # "no" => call[t].todo = << >>

IInv == TypeOK /\ ThreadsInv /\ FlagsAnswered

-----------------------------------------------------------------------------
(* What a call sends.                                                      *)
LEMMA LeastNatural ==
  ASSUME NEW S \in SUBSET Nat, S # {}
  PROVE  \E n \in S : \A k \in S : ~(k < n)
<1>1. \E n \in S : \A k \in S : ~(<<k, n>> \in OpToRel(<, Nat))
  BY WFMin, NatLessThanWellFounded, Zenon
<1>. QED
  BY <1>1 DEF OpToRel

(* What g has at each place of a sequence of sequences: the ones up to     *)
(* there, one after the other.                                             *)
Joins(seqs, n, g) ==
  g = [i \in 1..n |-> IF i = 1 THEN seqs[i] ELSE g[i - 1] \o seqs[i]]

LEMMA JoinExists ==
  ASSUME NEW seqs, NEW n \in Nat
  PROVE  \E g : Joins(seqs, n, g)
<1>. DEFINE Bad == {m \in Nat : ~\E g : Joins(seqs, m, g)}
<1>1. SUFFICES ASSUME Bad # {} PROVE FALSE
  OBVIOUS
<1>2. PICK m \in Bad : \A k \in Bad : ~(k < m)
  <2>1. Bad \in SUBSET Nat
    OBVIOUS
  <2>. HIDE DEF Bad
  <2>. QED
    BY <1>1, <2>1, LeastNatural
<1>3. CASE m = 0
  <2>. DEFINE g == << >>
  <2>1. g = [i \in 1..0 |-> IF i = 1 THEN seqs[i] ELSE g[i - 1] \o seqs[i]]
    OBVIOUS
  <2>. QED
    BY <1>2, <1>3, <2>1 DEF Joins
<1>4. CASE m # 0
  <2>1. m \in Nat \ {0} /\ m - 1 \in Nat /\ m - 1 \notin Bad
    BY <1>2, <1>4
  <2>2. PICK g : Joins(seqs, m - 1, g)
    BY <2>1
  <2>. DEFINE h == [i \in 1..m |-> IF i = 1 THEN seqs[i] ELSE g[i - 1] \o seqs[i]]
  <2>3. \A i \in 1..m - 1 : g[i] = h[i]
    <3>1. \A i \in 1..m - 1 : i \in 1..m
      BY <2>1
    <3>2. \A i \in 1..m - 1 : g[i] = IF i = 1 THEN seqs[i] ELSE g[i - 1] \o seqs[i]
      BY <2>2, Zenon DEF Joins
    <3>3. \A i \in 1..m : h[i] = IF i = 1 THEN seqs[i] ELSE g[i - 1] \o seqs[i]
      BY Zenon
    <3>. HIDE DEF h
    <3>. QED
      BY <3>1, <3>2, <3>3, Zenon
  <2>4. \A i \in 1..m : i # 1 => i - 1 \in 1..m - 1
    BY <2>1
  <2>5. h = [i \in 1..m |-> IF i = 1 THEN seqs[i] ELSE h[i - 1] \o seqs[i]]
    <3>1. \A i \in 1..m : h[i] = IF i = 1 THEN seqs[i] ELSE h[i - 1] \o seqs[i]
      <4>1. TAKE i \in 1..m
      <4>2. CASE i = 1
        BY <4>2
      <4>3. CASE i # 1
        <5>1. g[i - 1] = h[i - 1]
          BY <4>3, <2>3, <2>4
        <5>. QED
          BY <4>3, <5>1
      <4>. QED
        BY <4>2, <4>3
    <3>. HIDE DEF h
    <3>2. h = [i \in 1..m |-> h[i]]
      BY DEF h
    <3>. QED
      BY <3>1, <3>2
  <2>. HIDE DEF h
  <2>6. Joins(seqs, m, h)
    BY <2>5 DEF Joins
  <2>. QED
    BY <2>6, <1>2
<1>. QED
  BY <1>3, <1>4

(* A sequence that is joined to another has the elements of both.          *)
LEMMA Joined ==
  ASSUME NEW S, NEW u \in Seq(S), NEW v \in Seq(S)
  PROVE  /\ u \o v \in Seq(S)
         /\ ToSet(u) \subseteq ToSet(u \o v) /\ ToSet(v) \subseteq ToSet(u \o v)
<1>1. /\ u \o v \in Seq(S) /\ Len(u \o v) = Len(u) + Len(v)
      /\ \A k \in 1..Len(u) + Len(v) :
           (u \o v)[k] = IF k <= Len(u) THEN u[k] ELSE v[k - Len(u)]
  BY ConcatProperties
<1>2. /\ DOMAIN u = 1..Len(u) /\ DOMAIN v = 1..Len(v)
      /\ DOMAIN (u \o v) = 1..Len(u \o v) /\ Len(u) \in Nat /\ Len(v) \in Nat
  BY <1>1, LenProperties
<1>3. \A k \in 1..Len(u) : k \in 1..Len(u \o v) /\ (u \o v)[k] = u[k]
  BY <1>1, <1>2
<1>4. \A k \in 1..Len(v) : k + Len(u) \in 1..Len(u \o v) /\ (u \o v)[k + Len(u)] = v[k]
  BY <1>1, <1>2
<1>5. ToSet(u) \subseteq ToSet(u \o v) /\ ToSet(v) \subseteq ToSet(u \o v)
  <2>1. ToSet(u) = {u[k] : k \in 1..Len(u)} /\ ToSet(v) = {v[k] : k \in 1..Len(v)}
    BY <1>2, Zenon DEF ToSet
  <2>2. ToSet(u \o v) = {(u \o v)[k] : k \in 1..Len(u \o v)}
    BY <1>2, Zenon DEF ToSet
  <2>3. ASSUME NEW x \in ToSet(u) PROVE x \in ToSet(u \o v)
    <3>1. PICK k \in 1..Len(u) : x = u[k]
      BY <2>1, <2>3, Zenon
    <3>2. k \in 1..Len(u \o v) /\ (u \o v)[k] = x
      BY <3>1, <1>3
    <3>. QED
      BY <3>2, <2>2, Zenon
  <2>4. ASSUME NEW x \in ToSet(v) PROVE x \in ToSet(u \o v)
    <3>1. PICK k \in 1..Len(v) : x = v[k]
      BY <2>1, <2>4, Zenon
    <3>2. k + Len(u) \in 1..Len(u \o v) /\ (u \o v)[k + Len(u)] = x
      BY <3>1, <1>4
    <3>. QED
      BY <3>2, <2>2, Zenon
  <2>. QED
    BY <2>3, <2>4
<1>. QED
  BY <1>1, <1>5

(* What a sequence of sequences is joined to has all of their elements.    *)
LEMMA FlattenProperties ==
  ASSUME NEW S, NEW seqs \in Seq(Seq(S))
  PROVE  /\ FlattenSeq(seqs) \in Seq(S)
         /\ \A i \in 1..Len(seqs) : ToSet(seqs[i]) \subseteq ToSet(FlattenSeq(seqs))
<1>1. CASE Len(seqs) = 0
  <2>1. seqs = << >>
    BY <1>1, EmptySeq
  <2>. QED
    BY <1>1, <2>1, EmptySeq DEF FlattenSeq
<1>2. CASE Len(seqs) # 0
  <2>. DEFINE n == Len(seqs)
              g == CHOOSE f : Joins(seqs, n, f)
  <2>1. n \in Nat /\ n # 0 /\ \A i \in 1..n : seqs[i] \in Seq(S)
    BY <1>2, LenProperties, ElementOfSeq
  <2>2. Joins(seqs, n, g)
    BY <2>1, JoinExists
  <2>3. FlattenSeq(seqs) = g[n]
    BY <1>2 DEF FlattenSeq, Joins
  <2>. HIDE DEF g, n
  <2>4. \A i \in 1..n : g[i] = IF i = 1 THEN seqs[i] ELSE g[i - 1] \o seqs[i]
    BY <2>2 DEF Joins
  <2>. DEFINE Good(i) == g[i] \in Seq(S) /\ \A j \in 1..i : ToSet(seqs[j]) \subseteq ToSet(g[i])
              Bad == {i \in 1..n : ~Good(i)}
  <2>5. Bad = {}
    <3>1. SUFFICES ASSUME Bad # {} PROVE FALSE
      OBVIOUS
    <3>2. PICK i \in Bad : \A k \in Bad : ~(k < i)
      <4>1. Bad \in SUBSET Nat
        BY <2>1
      <4>. HIDE DEF Bad
      <4>. QED
        BY <3>1, <4>1, LeastNatural
    <3>3. i \in 1..n /\ seqs[i] \in Seq(S)
      BY <3>2, <2>1
    <3>4. CASE i = 1
      <4>1. g[i] = seqs[i]
        BY <3>3, <3>4, <2>4
      <4>2. Good(i)
        BY <3>3, <3>4, <4>1
      <4>. QED
        BY <3>2, <4>2
    <3>5. CASE i # 1
      <4>1. i - 1 \in 1..n /\ i - 1 < i
        BY <3>3, <3>5, <2>1
      <4>2. Good(i - 1)
        BY <3>2, <4>1
      <4>3. g[i] = g[i - 1] \o seqs[i]
        BY <3>3, <3>5, <2>4
      <4>4. /\ g[i] \in Seq(S)
            /\ ToSet(g[i - 1]) \subseteq ToSet(g[i]) /\ ToSet(seqs[i]) \subseteq ToSet(g[i])
        BY <4>2, <4>3, <3>3, Joined
      <4>5. \A j \in 1..i : j = i \/ j \in 1..i - 1
        BY <3>3
      <4>6. Good(i)
        BY <4>2, <4>4, <4>5
      <4>. QED
        BY <3>2, <4>6
    <3>. QED
      BY <3>4, <3>5
  <2>6. n \in 1..n
    BY <2>1
  <2>7. Good(n)
    BY <2>5, <2>6
  <2>. QED
    BY <2>3, <2>7 DEF n
<1>. QED
  BY <1>1, <1>2
(* SetToSeq has every element of a finite set.                             *)
LEMMA SetToSeqProperties ==
  ASSUME NEW D, IsFiniteSet(D)
  PROVE  /\ SetToSeq(D) \in Seq(D)
         /\ \A x \in D : \E i \in 1..Len(SetToSeq(D)) : SetToSeq(D)[i] = x
<1>. DEFINE n == Cardinality(D)
            us == SetToSeq(D)
<1>1. n \in Nat /\ ExistsBijection(1..n, D)
  BY FS_CardinalityType
<1>2. \E f \in [1..n -> D] : IsInjective(f)
  BY <1>1 DEF ExistsBijection, Bijection, Injection, IsInjective
<1>3. us \in [1..n -> D] /\ IsInjective(us)
  BY <1>2 DEF SetToSeq
<1>. HIDE DEF us
<1>4. us \in Seq(D) /\ Len(us) = n
  BY <1>1, <1>3
<1>5. us \in Injection(1..n, D)
  BY <1>3 DEF Injection
<1>6. us \in Surjection(1..n, D)
  <2>1. IsFiniteSet(1..n) /\ Cardinality(1..n) = n
    BY <1>1, FS_Interval
  <2>. HIDE DEF n
  <2>2. Cardinality(1..n) = Cardinality(D) <=> us \in Surjection(1..n, D)
    BY <1>5, FS_Injection
  <2>. QED
    BY <2>1, <2>2 DEF n
<1>7. \A x \in D : \E i \in 1..n : us[i] = x
  BY <1>6 DEF Surjection
<1>. QED
  BY <1>4, <1>7 DEF us

LEMMA EventsOfProperties ==
  ASSUME NEW D, IsFiniteSet(D), NEW f \in [D -> Seq(Events)]
  PROVE  /\ EventsOf(f) \in Seq(Events)
         /\ \A x \in D : ToSet(f[x]) \subseteq ToSet(EventsOf(f))
<1>. DEFINE us == SetToSeq(D)
            seqs == [i \in DOMAIN us |-> f[us[i]]]
<1>1. us \in Seq(D) /\ \A x \in D : \E i \in 1..Len(us) : us[i] = x
  BY SetToSeqProperties
<1>2. EventsOf(f) = FlattenSeq(seqs)
  BY DEF EventsOf
<1>. HIDE DEF us
<1>3. DOMAIN us = 1..Len(us) /\ Len(us) \in Nat /\ \A i \in 1..Len(us) : us[i] \in D
  BY <1>1, LenProperties, ElementOfSeq
<1>4. seqs \in [1..Len(us) -> Seq(Events)] /\ \A i \in 1..Len(us) : seqs[i] = f[us[i]]
  BY <1>3
<1>. HIDE DEF seqs
<1>5. seqs \in Seq(Seq(Events)) /\ Len(seqs) = Len(us)
  BY <1>3, <1>4
<1>6. /\ FlattenSeq(seqs) \in Seq(Events)
      /\ \A i \in 1..Len(seqs) : ToSet(seqs[i]) \subseteq ToSet(FlattenSeq(seqs))
  BY <1>5, FlattenProperties
<1>7. ASSUME NEW x \in D PROVE ToSet(f[x]) \subseteq ToSet(EventsOf(f))
  <2>1. PICK i \in 1..Len(us) : us[i] = x
    BY <1>1
  <2>. QED
    BY <2>1, <1>2, <1>4, <1>5, <1>6
<1>. QED
  BY <1>2, <1>6, <1>7

-----------------------------------------------------------------------------
(* The parts of the type invariant and of the flags.                       *)
Calls == [Tracks -> [stop : Segments \cup {"no"}, todo : Seq(Events), more : Seq(Segments)]]
Timers == [at : Places, ev : Events \cup {NoEvent}, roll : BOOLEAN]
Seen == ToSet(queue) \cup {gtk.ev} \cup UNION {ToSet(call[t].todo) : t \in Tracks}
Starts == {"start", "start0"}

StartsAnswered == \A u \in Units \ failed : startSent[u] =>
  on[u] \/ Pending(u, Starts) \/ (gtk.at = "clearStart" /\ gtk.ev.unit = u)
StopsAnswered == \A t \in Tracks : stopSent[t] => Pending(t, {"stop"})

FlagTypes == /\ on \in [Units -> BOOLEAN] /\ startSent \in [Units -> BOOLEAN]
             /\ paused \in [Units -> BOOLEAN] /\ stopSent \in [Tracks -> BOOLEAN]
TransportTypes == /\ recording \in BOOLEAN /\ rolling \in BOOLEAN /\ down \in BOOLEAN
                  /\ armed \in [Tracks -> BOOLEAN] /\ mode \in [Autos -> Modes]
                  /\ cached \subseteq Autos /\ ops \in Nat
RegionTypes == /\ active \in Nat /\ ids \subseteq Units
               /\ outdated \subseteq ids /\ failed \subseteq Tracks
EventsKept == /\ free \in Nat /\ queue \in Seq(Events)
              /\ free + Len(queue) + Held = PoolSize

LEMMA TypesSplit ==
  TypeOK <=> /\ TransportTypes /\ FlagTypes /\ call \in Calls /\ gtk \in Timers
             /\ RegionTypes /\ EventsKept
BY Zenon DEF TypeOK, TransportTypes, FlagTypes, Calls, Timers, RegionTypes, EventsKept

LEMMA TypesSplitNext ==
  TypeOK' <=> /\ TransportTypes' /\ FlagTypes' /\ call' \in Calls /\ gtk' \in Timers
              /\ RegionTypes' /\ EventsKept'
BY Zenon DEF TypeOK, TransportTypes, FlagTypes, Calls, Timers, RegionTypes, EventsKept

LEMMA AnEvent ==
  ASSUME NEW type \in Types, NEW u \in Units
  PROVE  /\ Event(type, u) \in Events
         /\ Event(type, u).type = type /\ Event(type, u).unit = u
BY DEF Event, Events

LEMMA NoEventIsNone == NoEvent \notin Events
BY DEF NoEvent, Events, Types

LEMMA OneEvent ==
  ASSUME NEW e \in Events
  PROVE  <<e>> \in Seq(Events) /\ ToSet(<<e>>) = {e}
BY DEF ToSet

LEMMA NoEvents == << >> \in Seq(Events) /\ ToSet(<< >>) = {}
BY DEF ToSet

(* The start of an automation track is among its events.                   *)
LEMMA AutoEventsProperties ==
  ASSUME NEW a \in Autos, NEW s
  PROVE  /\ AutoEvents(a, s) \in Seq(Events)
         /\ AutoStarts(a) => \E e \in ToSet(AutoEvents(a, s)) :
                               e \in Events /\ e.unit = a /\ e.type \in Starts
<1>. DEFINE u == IF AutoStops(a) THEN <<Event("stop", a)>>
                 ELSE IF AutoPauses(a, s) THEN <<Event("pause", a)>> ELSE << >>
            e == Event(IF s \in Empty THEN "start0" ELSE "start", a)
            v == IF AutoStarts(a) THEN <<e>> ELSE << >>
<1>1. a \in Units /\ {"stop", "pause", "start", "start0"} \subseteq Types
  BY DEF Units, Types
<1>2. Event("stop", a) \in Events /\ Event("pause", a) \in Events
  BY <1>1, AnEvent
<1>3. u \in Seq(Events)
  BY <1>2, OneEvent, NoEvents
<1>4. e \in Events /\ e.unit = a /\ e.type \in Starts
  <2>1. CASE s \in Empty
    BY <2>1, <1>1, AnEvent DEF Starts
  <2>2. CASE s \notin Empty
    BY <2>2, <1>1, AnEvent DEF Starts
  <2>. QED
    BY <2>1, <2>2
<1>. HIDE DEF e
<1>5. v \in Seq(Events) /\ (AutoStarts(a) => e \in ToSet(v))
  BY <1>4, OneEvent, NoEvents
<1>6. AutoEvents(a, s) = u \o v
  BY DEF AutoEvents, e
<1>. HIDE DEF u, v
<1>7. u \o v \in Seq(Events) /\ ToSet(v) \subseteq ToSet(u \o v)
  BY <1>3, <1>5, Joined
<1>. QED
  BY <1>4, <1>5, <1>6, <1>7

(* What a call has to send: what it begins with, and the start of every    *)
(* automation track of the cached list that starts.                        *)
LEMMA SendsProperties ==
  ASSUME IInv, NEW t \in Tracks, NEW s, NEW m \in Seq(Segments), NEW own \in Seq(Events),
         NEW data \in BOOLEAN, Sends(t, s, m, own, data)
  PROVE  /\ call' \in Calls /\ call'[t].stop = "no"
         /\ \A x \in Tracks : x # t => call'[x] = call[x]
         /\ ToSet(own) \subseteq ToSet(call'[t].todo)
         /\ \A a \in AutosOf(t) \cap cached : AutoStarts(a) =>
              \E e \in ToSet(call'[t].todo) :
                e \in Events /\ e.unit = a /\ e.type \in Starts
<1>. DEFINE D == AutosOf(t) \cap cached
            f == [a \in D |-> AutoEvents(a, s)]
            g == [a \in AutoData(t, s) |-> <<Event("data", a)>>]
            d == IF data THEN <<Event("data", t)>> ELSE << >>
            w1 == own \o EventsOf(f)
            w2 == w1 \o d
            w == w2 \o EventsOf(g)
<1>1. call \in Calls /\ IsFiniteSet(Autos)
  BY TypesSplit, UnitsAssumption DEF IInv
<1>2. D \subseteq Autos /\ AutoData(t, s) \subseteq Autos
  BY DEF AutosOf, AutoData
<1>3. IsFiniteSet(D) /\ IsFiniteSet(AutoData(t, s))
  BY <1>1, <1>2, FS_Subset
<1>4. f \in [D -> Seq(Events)]
  BY <1>2, AutoEventsProperties
<1>5. \A a \in AutoData(t, s) : <<Event("data", a)>> \in Seq(Events)
  <2>1. TAKE a \in AutoData(t, s)
  <2>2. Event("data", a) \in Events
    BY <1>2, AnEvent DEF Units, Types
  <2>. QED
    BY <2>2, OneEvent
<1>6. g \in [AutoData(t, s) -> Seq(Events)]
  BY <1>5
<1>7. d \in Seq(Events)
  <2>1. Event("data", t) \in Events
    BY AnEvent DEF Units, Types
  <2>. QED
    BY <2>1, OneEvent, NoEvents
<1>8. call' = [call EXCEPT ![t] = [stop |-> "no", more |-> m, todo |-> w]]
  BY DEF Sends
<1>9. /\ EventsOf(f) \in Seq(Events)
      /\ \A a \in D : ToSet(f[a]) \subseteq ToSet(EventsOf(f))
  <2>. HIDE DEF f, D
  <2>. QED
    BY <1>3, <1>4, EventsOfProperties
<1>10. EventsOf(g) \in Seq(Events)
  <2>. HIDE DEF g
  <2>. QED
    BY <1>3, <1>6, EventsOfProperties
<1>11. \A a \in D : f[a] = AutoEvents(a, s)
  OBVIOUS
<1>. HIDE DEF f, g, d, w, w1, w2
<1>12. /\ w1 \in Seq(Events) /\ ToSet(own) \subseteq ToSet(w1)
       /\ ToSet(EventsOf(f)) \subseteq ToSet(w1)
  BY <1>9, Joined DEF w1
<1>13. w2 \in Seq(Events) /\ ToSet(w1) \subseteq ToSet(w2)
  BY <1>7, <1>12, Joined DEF w2
<1>14. w \in Seq(Events) /\ ToSet(w2) \subseteq ToSet(w)
  BY <1>10, <1>13, Joined DEF w
<1>15. /\ call' \in Calls /\ call'[t].stop = "no" /\ call'[t].todo = w
       /\ \A x \in Tracks : x # t => call'[x] = call[x]
  BY <1>1, <1>8, <1>14 DEF Calls
<1>16. ASSUME NEW a \in D, AutoStarts(a)
       PROVE  \E e \in ToSet(w) : e \in Events /\ e.unit = a /\ e.type \in Starts
  <2>1. a \in Autos
    BY <1>2
  <2>2. PICK e \in ToSet(AutoEvents(a, s)) : e \in Events /\ e.unit = a /\ e.type \in Starts
    BY <2>1, <1>16, AutoEventsProperties
  <2>3. e \in ToSet(w)
    BY <2>2, <1>9, <1>11, <1>12, <1>13, <1>14
  <2>. QED
    BY <2>2, <2>3
<1>. QED
  BY <1>12, <1>13, <1>14, <1>15, <1>16
-----------------------------------------------------------------------------
(* What is on its way stays there as long as its event does.               *)
LEMMA PendingKept ==
  ASSUME NEW u, NEW types, Pending(u, types),
         \A e \in Seen : e \in Events /\ e.unit = u /\ e.type \in types => e \in Seen'
  PROVE  Pending(u, types)'
BY DEF Pending, Seen

LEMMA FlagsSplit ==
  FlagsAnswered <=> gtk.at \in {"freeing", "freed"} \/ (StartsAnswered /\ StopsAnswered)
BY DEF FlagsAnswered, StartsAnswered, StopsAnswered, Starts

LEMMA FlagsSplitNext ==
  FlagsAnswered' <=> gtk'.at \in {"freeing", "freed"} \/ (StartsAnswered' /\ StopsAnswered')
BY DEF FlagsAnswered, StartsAnswered, StopsAnswered, Starts

(* Of every start that a processor marks, there is an event in its call.   *)
LEMMA MarksAnswered ==
  ASSUME IInv, Running, NEW t \in Tracks, call[t].todo = << >>,
         NEW s, NEW m \in Seq(Segments), NEW own \in Seq(Events), NEW data \in BOOLEAN,
         Sends(t, s, m, own, data), NEW new \in BOOLEAN, Marks(t, new),
         new => Event("start", t) \in ToSet(own),
         UNCHANGED <<queue, gtk, on, failed>>
  PROVE  /\ call' \in Calls /\ startSent' \in [Units -> BOOLEAN]
         /\ Seen \subseteq Seen' /\ StartsAnswered'
         /\ ToSet(own) \subseteq Seen'
         /\ \A x \in Tracks : call'[x].stop # "no" => call'[x].todo = << >>
<1>1. /\ call' \in Calls /\ call'[t].stop = "no"
      /\ \A x \in Tracks : x # t => call'[x] = call[x]
      /\ ToSet(own) \subseteq ToSet(call'[t].todo)
      /\ \A a \in AutosOf(t) \cap cached : AutoStarts(a) =>
           \E e \in ToSet(call'[t].todo) :
             e \in Events /\ e.unit = a /\ e.type \in Starts
  BY SendsProperties, Zenon
<1>2. startSent \in [Units -> BOOLEAN] /\ AutosOf(t) \subseteq Units
  BY TypesSplit DEF IInv, FlagTypes, AutosOf, Units
<1>3. startSent' = [x \in Units |-> startSent[x] \/ (x = t /\ new)
                      \/ (x \in AutosOf(t) \cap cached /\ AutoStarts(x))]
  BY DEF Marks
<1>4. startSent' \in [Units -> BOOLEAN]
  BY <1>2, <1>3
<1>5. Seen \subseteq Seen'
  <2>1. \A x \in Tracks : ToSet(call[x].todo) \subseteq ToSet(call'[x].todo)
    BY <1>1, NoEvents
  <2>. QED
    BY <2>1 DEF Seen
<1>6. ToSet(call'[t].todo) \subseteq Seen'
  BY DEF Seen
<1>7. \A x \in Tracks : call'[x].stop # "no" => call'[x].todo = << >>
  BY <1>1 DEF IInv, ThreadsInv
<1>8. StartsAnswered'
  <2>1. SUFFICES ASSUME NEW u \in Units, u \notin failed, startSent'[u]
                 PROVE  \/ on[u] \/ Pending(u, Starts)'
                        \/ (gtk.at = "clearStart" /\ gtk.ev.unit = u)
    BY DEF StartsAnswered
  <2>2. CASE startSent[u]
    <3>1. on[u] \/ Pending(u, Starts) \/ (gtk.at = "clearStart" /\ gtk.ev.unit = u)
      BY <2>1, <2>2, FlagsSplit DEF IInv, Running, StartsAnswered
    <3>. QED
      BY <3>1, <1>5, PendingKept
  <2>3. CASE ~startSent[u]
    <3>1. \E e \in ToSet(call'[t].todo) : e \in Events /\ e.unit = u /\ e.type \in Starts
      <4>1. CASE u = t /\ new
        <5>1. /\ Event("start", t) \in Events /\ Event("start", t).unit = t
              /\ Event("start", t).type = "start"
          BY AnEvent DEF Units, Types
        <5>. QED
          BY <5>1, <4>1, <1>1 DEF Starts
      <4>2. CASE u \in AutosOf(t) \cap cached /\ AutoStarts(u)
        BY <4>2, <1>1
      <4>. QED
        BY <2>1, <2>3, <1>3, <4>1, <4>2
    <3>2. Pending(u, Starts)'
      BY <3>1, <1>6 DEF Pending, Seen
    <3>. QED
      BY <3>2
  <2>. QED
    BY <2>2, <2>3
<1>. QED
  BY <1>1, <1>4, <1>5, <1>6, <1>7, <1>8

(* What a step that leaves the GTK thread alone keeps.                     *)
LEMMA StopsKept ==
  ASSUME IInv, Running, Seen \subseteq Seen', UNCHANGED stopSent
  PROVE  StopsAnswered'
<1>1. StopsAnswered
  BY FlagsSplit DEF IInv, Running
<1>2. ASSUME NEW t \in Tracks, stopSent'[t] PROVE Pending(t, {"stop"})'
  <2>1. Pending(t, {"stop"})
    BY <1>1, <1>2 DEF StopsAnswered
  <2>. QED
    BY <2>1, PendingKept
<1>. QED
  BY <1>2 DEF StopsAnswered

(* All that a handler needs, once its flags and its call are known.        *)
LEMMA HandlerKeeps ==
  ASSUME IInv, Running, call' \in Calls, startSent' \in [Units -> BOOLEAN],
         stopSent' \in [Tracks -> BOOLEAN], StartsAnswered', StopsAnswered',
         \A x \in Tracks : call'[x].stop # "no" => call'[x].todo = << >>,
         UNCHANGED <<transport, cached, on, paused, events, gtk, regions, down, ops>>
  PROVE  IInv'
<1>1. TypeOK'
  <2>1. /\ TransportTypes /\ FlagTypes /\ gtk \in Timers /\ RegionTypes /\ EventsKept
    BY TypesSplit DEF IInv
  <2>2. TransportTypes' /\ FlagTypes' /\ gtk' \in Timers /\ RegionTypes'
    BY <2>1 DEF TransportTypes, FlagTypes, RegionTypes, transport, regions
  <2>3. EventsKept'
    BY <2>1 DEF EventsKept, Held, events
  <2>. QED
    BY <2>2, <2>3, TypesSplitNext
<1>2. ThreadsInv'
  BY DEF IInv, ThreadsInv, regions
<1>3. FlagsAnswered'
  BY FlagsSplitNext
<1>. QED
  BY <1>1, <1>2, <1>3 DEF IInv

(* What is left of a cycle is one of the segments and the ones after it.   *)
LEMMA Nonempty ==
  ASSUME NEW p \in Seq(Segments), p # << >>, NEW q \in Seq(Segments)
  PROVE  p \o q \in Seq(Segments) /\ p \o q # << >>
<1>1. p \o q \in Seq(Segments) /\ Len(p \o q) = Len(p) + Len(q)
  BY ConcatProperties
<1>2. Len(p) \in Nat \ {0} /\ Len(q) \in Nat /\ Len(<< >>) = 0
  BY EmptySeq, LenProperties
<1>. QED
  BY <1>1, <1>2

LEMMA Split ==
  ASSUME NEW c \in Cycles \cup (Seq(Segments) \ {<< >>})
  PROVE  Head(c) \in Segments /\ Tail(c) \in Seq(Segments)
<1>1. ASSUME NEW p \in Punches \cup PunchEnds PROVE p \in Seq(Segments) /\ p # << >>
  <2>1. /\ <<"inside">> \in Seq(Segments) /\ <<"outside">> \in Seq(Segments)
        /\ <<"outside", "inside">> \in Seq(Segments)
        /\ <<"inside", "outside">> \in Seq(Segments)
        /\ <<"outside", "inside", "outside">> \in Seq(Segments)
    BY DEF Segments
  <2>2. /\ <<"inside">> # << >> /\ <<"outside">> # << >> /\ <<"outside", "inside">> # << >>
        /\ <<"inside", "outside">> # << >> /\ <<"outside", "inside", "outside">> # << >>
    OBVIOUS
  <2>. QED
    BY <2>1, <2>2, <1>1, Zenon DEF Punches, PunchEnds
<1>2. /\ <<"pause">> \in Seq(Segments) /\ <<"loopEnd">> \in Seq(Segments)
      /\ <<"loopEnd", "pause">> \in Seq(Segments)
  BY DEF Segments
<1>3. c \in Seq(Segments) /\ c # << >>
  <2>1. CASE c \in Punches
    BY <2>1, <1>1
  <2>2. CASE c \in {p \o <<"pause">> : p \in PunchEnds}
    <3>1. PICK p \in PunchEnds : c = p \o <<"pause">>
      BY <2>2
    <3>2. p \in Seq(Segments) /\ p # << >>
      BY <1>1
    <3>. QED
      BY <3>1, <3>2, <1>2, Nonempty, Zenon
  <2>3. CASE c \in {p \o <<"loopEnd">> : p \in PunchEnds}
    <3>1. PICK p \in PunchEnds : c = p \o <<"loopEnd">>
      BY <2>3
    <3>2. p \in Seq(Segments) /\ p # << >>
      BY <1>1
    <3>. QED
      BY <3>1, <3>2, <1>2, Nonempty, Zenon
  <2>4. CASE c \in {p \o <<"loopEnd", "pause">> : p \in Punches \cup PunchEnds}
    <3>1. PICK p \in Punches \cup PunchEnds : c = p \o <<"loopEnd", "pause">>
      BY <2>4
    <3>2. p \in Seq(Segments) /\ p # << >>
      BY <1>1
    <3>. QED
      BY <3>1, <3>2, <1>2, Nonempty, Zenon
  <2>5. CASE c \in Seq(Segments) \ {<< >>}
    BY <2>5
  <2>. QED
    BY <2>1, <2>2, <2>3, <2>4, <2>5, Zenon DEF Cycles
<1>. QED
  BY <1>3, HeadTailProperties

LEMMA HandleRecordingKeeps ==
  ASSUME IInv, NEW t \in Tracks, HandleRecording(t)
  PROVE  IInv'
<1>1. /\ Running /\ call[t].stop = "no" /\ call[t].todo = << >>
      /\ UNCHANGED <<transport, cached, on, stopSent, paused, events, gtk, regions, down, ops>>
  BY DEF HandleRecording
<1>2. PICK s \in Segments, m \in Seq(Segments) :
        Unwanted(t, s, m) \/ Pausing(t, s, m) \/ Starting(t, s, m) \/ Outside(t, s, m)
  <2>1. PICK c \in IF call[t].more = << >> THEN Splits ELSE {call[t].more} :
          \/ Unwanted(t, Head(c), Tail(c)) \/ Pausing(t, Head(c), Tail(c))
          \/ Starting(t, Head(c), Tail(c)) \/ Outside(t, Head(c), Tail(c))
    BY DEF HandleRecording
  <2>2. call[t].more \in Seq(Segments)
    BY TypesSplit DEF IInv, Calls
  <2>3. c \in Cycles \cup (Seq(Segments) \ {<< >>})
    BY <2>1, <2>2, SplitsAssumption
  <2>. QED
    BY <2>1, <2>3, Split
<1>3. UNCHANGED <<queue, gtk, on, failed>>
  BY <1>1 DEF events, regions
<1>4. /\ call \in Calls /\ startSent \in [Units -> BOOLEAN] /\ stopSent \in [Tracks -> BOOLEAN]
  BY TypesSplit DEF IInv, FlagTypes
<1>5. /\ << >> \in Seq(Events) /\ <<Event("pause", t)>> \in Seq(Events)
      /\ <<Event("start", t)>> \in Seq(Events)
      /\ Event("start", t) \in ToSet(<<Event("start", t)>>)
  <2>1. Event("pause", t) \in Events /\ Event("start", t) \in Events
    BY AnEvent DEF Units, Types
  <2>. QED
    BY <2>1, OneEvent, NoEvents
<1>6. /\ call' \in Calls /\ startSent' \in [Units -> BOOLEAN]
      /\ Seen \subseteq Seen' /\ StartsAnswered'
      /\ \A x \in Tracks : call'[x].stop # "no" => call'[x].todo = << >>
  <2>1. CASE Unwanted(t, s, m) /\ on[t]
    <3>1. call' = [call EXCEPT ![t].stop = s, ![t].more = m] /\ UNCHANGED startSent
      BY <2>1 DEF Unwanted
    <3>2. call' \in Calls
      BY <3>1, <1>4 DEF Calls
    <3>3. \A x \in Tracks : call'[x].todo = call[x].todo
      BY <3>1, <1>4 DEF Calls
    <3>4. \A x \in Tracks : x # t => call'[x] = call[x]
      BY <3>1, <1>4 DEF Calls
    <3>5. Seen' = Seen
      BY <3>3, <1>3 DEF Seen
    <3>6. StartsAnswered
      BY <1>1, FlagsSplit DEF IInv, Running
    <3>7. StartsAnswered'
      <4>1. \A u : Pending(u, Starts) => Pending(u, Starts)'
        BY <3>5, PendingKept
      <4>. QED
        BY <4>1, <3>1, <3>6, <1>3 DEF StartsAnswered
    <3>8. \A x \in Tracks : call'[x].stop # "no" => call'[x].todo = << >>
      BY <3>3, <3>4, <1>1 DEF IInv, ThreadsInv
    <3>. QED
      BY <3>1, <3>2, <3>5, <3>7, <3>8, <1>4
  <2>2. CASE Unwanted(t, s, m) /\ ~on[t]
    <3>1. Marks(t, FALSE) /\ Sends(t, s, m, << >>, FALSE)
      BY <2>2 DEF Unwanted
    <3>. QED
      BY <3>1, <1>1, <1>3, <1>5, MarksAnswered
  <2>3. CASE Pausing(t, s, m)
    <3>1. /\ Marks(t, FALSE)
          /\ Sends(t, s, m, <<Event("pause", t)>>, FALSE) \/ Sends(t, s, m, << >>, TRUE)
      BY <2>3 DEF Pausing
    <3>2. CASE Sends(t, s, m, <<Event("pause", t)>>, FALSE)
      BY <3>1, <3>2, <1>1, <1>3, <1>5, MarksAnswered
    <3>3. CASE Sends(t, s, m, << >>, TRUE)
      BY <3>1, <3>3, <1>1, <1>3, <1>5, MarksAnswered
    <3>. QED
      BY <3>1, <3>2, <3>3
  <2>4. CASE Starting(t, s, m)
    <3>1. CASE ~on[t] /\ ~startSent[t]
      <4>1. Marks(t, TRUE) /\ Sends(t, s, m, <<Event("start", t)>>, TRUE)
        BY <2>4, <3>1 DEF Starting, Marks
      <4>. QED
        BY <4>1, <1>1, <1>3, <1>5, MarksAnswered
    <3>2. CASE ~(~on[t] /\ ~startSent[t])
      <4>1. Marks(t, FALSE) /\ Sends(t, s, m, << >>, TRUE)
        BY <2>4, <3>2 DEF Starting, Marks
      <4>. QED
        BY <4>1, <1>1, <1>3, <1>5, MarksAnswered
    <3>. QED
      BY <3>1, <3>2
  <2>5. CASE Outside(t, s, m)
    <3>1. Marks(t, FALSE) /\ Sends(t, s, m, << >>, FALSE)
      BY <2>5 DEF Outside
    <3>. QED
      BY <3>1, <1>1, <1>3, <1>5, MarksAnswered
  <2>. QED
    BY <1>2, <2>1, <2>2, <2>3, <2>4, <2>5
<1>7. StopsAnswered'
  BY <1>1, <1>6, StopsKept
<1>. QED
  BY <1>1, <1>4, <1>6, <1>7, HandlerKeeps

LEMMA CheckStopSentKeeps ==
  ASSUME IInv, NEW t \in Tracks, CheckStopSent(t)
  PROVE  IInv'
<1>. DEFINE s == call[t].stop
            m == call[t].more
            own == IF stopSent[t] THEN << >> ELSE <<Event("stop", t)>>
<1>1. /\ Running /\ s # "no" /\ Marks(t, FALSE) /\ Sends(t, s, m, own, FALSE)
      /\ stopSent' = [stopSent EXCEPT ![t] = TRUE]
      /\ UNCHANGED <<transport, cached, on, paused, events, gtk, regions, down, ops>>
  BY DEF CheckStopSent
<1>2. call \in Calls /\ stopSent \in [Tracks -> BOOLEAN]
  BY TypesSplit DEF IInv, FlagTypes
<1>3. call[t].todo = << >>
  BY <1>1 DEF IInv, ThreadsInv
<1>4. m \in Seq(Segments)
  BY <1>2 DEF Calls
<1>5. Event("stop", t) \in Events /\ Event("stop", t).unit = t /\ Event("stop", t).type = "stop"
  BY AnEvent DEF Units, Types
<1>6. own \in Seq(Events) /\ (~stopSent[t] => Event("stop", t) \in ToSet(own))
  BY <1>5, OneEvent, NoEvents
<1>7. UNCHANGED <<queue, gtk, on, failed>>
  BY <1>1 DEF events, regions
<1>. HIDE DEF s, m, own
<1>8. /\ call' \in Calls /\ startSent' \in [Units -> BOOLEAN]
      /\ Seen \subseteq Seen' /\ StartsAnswered' /\ ToSet(own) \subseteq Seen'
      /\ \A x \in Tracks : call'[x].stop # "no" => call'[x].todo = << >>
  BY <1>1, <1>3, <1>4, <1>6, <1>7, MarksAnswered
<1>9. StopsAnswered'
  <2>1. StopsAnswered
    BY <1>1, FlagsSplit DEF IInv, Running
  <2>2. ASSUME NEW x \in Tracks, stopSent'[x] PROVE Pending(x, {"stop"})'
    <3>1. CASE stopSent[x]
      <4>1. Pending(x, {"stop"})
        BY <2>1, <3>1 DEF StopsAnswered
      <4>. QED
        BY <4>1, <1>8, PendingKept
    <3>2. CASE ~stopSent[x]
      <4>1. x = t
        BY <1>1, <1>2, <2>2, <3>2
      <4>2. Event("stop", t) \in Seen'
        BY <4>1, <3>2, <1>6, <1>8
      <4>. QED
        BY <4>1, <4>2, <1>5 DEF Pending, Seen
    <3>. QED
      BY <3>1, <3>2
  <2>. QED
    BY <2>2 DEF StopsAnswered
<1>10. stopSent' \in [Tracks -> BOOLEAN]
  BY <1>1, <1>2
<1>. QED
  BY <1>1, <1>8, <1>9, <1>10, HandlerKeeps
-----------------------------------------------------------------------------
(* Events that go in and out of the queue.                                 *)
LEMMA TakeFirst ==
  ASSUME NEW S, NEW s \in Seq(S), s # << >>
  PROVE  /\ Head(s) \in S /\ Tail(s) \in Seq(S)
         /\ Len(s) \in Nat /\ Len(Tail(s)) = Len(s) - 1
         /\ ToSet(s) \subseteq ToSet(Tail(s)) \cup {Head(s)}
<1>1. /\ Head(s) \in S /\ Tail(s) \in Seq(S) /\ Len(Tail(s)) = Len(s) - 1
      /\ \A i \in 1..Len(Tail(s)) : Tail(s)[i] = s[i + 1]
  BY HeadTailProperties
<1>2. /\ DOMAIN s = 1..Len(s) /\ Len(s) \in Nat /\ Head(s) = s[1]
      /\ DOMAIN Tail(s) = 1..Len(Tail(s))
  BY <1>1, LenProperties
<1>3. ASSUME NEW x \in ToSet(s), x # Head(s) PROVE x \in ToSet(Tail(s))
  <2>1. PICK i \in 1..Len(s) : x = s[i]
    BY <1>2, <1>3 DEF ToSet
  <2>2. i # 1 /\ i - 1 \in 1..Len(Tail(s)) /\ (i - 1) + 1 = i
    BY <2>1, <1>1, <1>2, <1>3
  <2>3. Tail(s)[i - 1] = x
    BY <2>1, <2>2, <1>1
  <2>. QED
    BY <2>2, <2>3, <1>2 DEF ToSet
<1>. QED
  BY <1>1, <1>2, <1>3

LEMMA AddLast ==
  ASSUME NEW S, NEW s \in Seq(S), NEW e \in S
  PROVE  /\ Append(s, e) \in Seq(S) /\ Len(s) \in Nat /\ Len(Append(s, e)) = Len(s) + 1
         /\ ToSet(s) \cup {e} \subseteq ToSet(Append(s, e))
<1>. DEFINE z == Append(s, e)
<1>1. /\ z \in Seq(S) /\ Len(z) = Len(s) + 1 /\ Len(s) \in Nat
      /\ DOMAIN s = 1..Len(s) /\ DOMAIN z = 1..Len(z)
  BY LenProperties
<1>2. z[Len(s) + 1] = e /\ \A i \in 1..Len(s) : z[i] = s[i]
  BY <1>1
<1>. HIDE DEF z
<1>3. e \in ToSet(z)
  BY <1>1, <1>2 DEF ToSet
<1>4. ASSUME NEW x \in ToSet(s) PROVE x \in ToSet(z)
  <2>1. PICK i \in 1..Len(s) : x = s[i]
    BY <1>1, <1>4 DEF ToSet
  <2>2. i \in DOMAIN z /\ z[i] = x
    BY <2>1, <1>1, <1>2
  <2>. QED
    BY <2>2 DEF ToSet
<1>. QED
  BY <1>1, <1>3, <1>4 DEF z

LEMMA SendKeeps ==
  ASSUME IInv, NEW t \in Tracks, Send(t)
  PROVE  IInv'
<1>1. /\ Running /\ call[t].todo # << >>
      /\ UNCHANGED <<transport, cached, flags, gtk, regions, ops>>
  BY DEF Send
<1>2. /\ TransportTypes /\ FlagTypes /\ call \in Calls /\ gtk \in Timers
      /\ RegionTypes /\ EventsKept
  BY TypesSplit DEF IInv
<1>3. call[t].stop = "no"
  BY <1>1 DEF IInv, ThreadsInv
<1>4. /\ FlagTypes' /\ gtk' \in Timers /\ RegionTypes'
  BY <1>1, <1>2 DEF FlagTypes, RegionTypes, flags, regions
<1>5. /\ call' \in Calls /\ EventsKept' /\ TransportTypes' /\ Seen \subseteq Seen'
      /\ \A x \in Tracks : call'[x].stop # "no" => call'[x].todo = << >>
  <2>1. CASE free > 0
    <3>. DEFINE todo == call[t].todo
    <3>1. /\ free' = free - 1 /\ queue' = Append(queue, Head(todo))
          /\ call' = [call EXCEPT ![t].todo = Tail(@)] /\ UNCHANGED down
      BY <2>1 DEF Send
    <3>2. todo \in Seq(Events) /\ todo # << >>
      BY <1>1, <1>2 DEF Calls
    <3>3. /\ Head(todo) \in Events /\ Tail(todo) \in Seq(Events)
          /\ ToSet(todo) \subseteq ToSet(Tail(todo)) \cup {Head(todo)}
      <4>. HIDE DEF todo
      <4>. QED
        BY <3>2, TakeFirst
    <3>4. /\ queue' \in Seq(Events) /\ Len(queue) \in Nat /\ Len(queue') = Len(queue) + 1
          /\ ToSet(queue) \cup {Head(todo)} \subseteq ToSet(queue')
      <4>1. queue \in Seq(Events)
        BY <1>2 DEF EventsKept
      <4>. HIDE DEF todo
      <4>. QED
        BY <4>1, <3>1, <3>3, AddLast
    <3>5. /\ call' \in Calls /\ call'[t].todo = Tail(todo) /\ call'[t].stop = "no"
          /\ \A x \in Tracks : x # t => call'[x] = call[x]
      BY <3>1, <3>3, <1>2, <1>3 DEF Calls
    <3>6. EventsKept'
      <4>1. Held' = Held
        BY <1>1 DEF Held
      <4>2. Held \in Nat
        BY DEF Held
      <4>. QED
        BY <4>1, <4>2, <3>1, <3>4, <1>2, <2>1 DEF EventsKept
    <3>7. TransportTypes'
      BY <3>1, <1>1, <1>2 DEF TransportTypes, transport
    <3>8. Seen \subseteq Seen'
      <4>. HIDE DEF todo
      <4>1. ToSet(call[t].todo) \subseteq ToSet(call'[t].todo) \cup ToSet(queue')
        BY <3>3, <3>4, <3>5 DEF todo
      <4>2. \A x \in Tracks : x # t => call'[x].todo = call[x].todo
        BY <3>5
      <4>. QED
        BY <4>1, <4>2, <3>4, <1>1 DEF Seen
    <3>9. \A x \in Tracks : call'[x].stop # "no" => call'[x].todo = << >>
      BY <3>5 DEF IInv, ThreadsInv
    <3>. QED
      BY <3>5, <3>6, <3>7, <3>8, <3>9
  <2>2. CASE ~(free > 0)
    <3>1. down' = TRUE /\ UNCHANGED <<events, call>>
      BY <2>2 DEF Send
    <3>2. EventsKept'
      BY <3>1, <1>1, <1>2 DEF EventsKept, Held, events
    <3>3. TransportTypes'
      BY <3>1, <1>1, <1>2 DEF TransportTypes, transport
    <3>4. Seen' = Seen
      BY <3>1, <1>1 DEF Seen, events
    <3>. QED
      BY <3>1, <3>2, <3>3, <3>4, <1>2 DEF IInv, ThreadsInv
  <2>. QED
    BY <2>1, <2>2
<1>6. TypeOK'
  BY <1>4, <1>5, TypesSplitNext
<1>7. ThreadsInv'
  BY <1>1, <1>5 DEF IInv, ThreadsInv, regions
<1>8. StartsAnswered'
  <2>1. StartsAnswered
    BY <1>1, FlagsSplit DEF IInv, Running
  <2>2. \A u : Pending(u, Starts) => Pending(u, Starts)'
    BY <1>5, PendingKept
  <2>. QED
    BY <2>1, <2>2, <1>1 DEF StartsAnswered, flags, regions
<1>9. StopsAnswered'
  BY <1>1, <1>5, StopsKept DEF flags
<1>. QED
  BY <1>6, <1>7, <1>8, <1>9, FlagsSplitNext DEF IInv
-----------------------------------------------------------------------------
(* The GTK thread.  While it waits it holds no event; a flag waits for no  *)
(* event but those in the queue and in the calls.                          *)
LEMMA Idle ==
  ASSUME IInv, gtk.at = "idle"
  PROVE  /\ gtk.ev = NoEvent /\ gtk.ev \notin Events /\ Held = 0
         /\ StartsAnswered /\ StopsAnswered
BY NoEventIsNone, FlagsSplit DEF IInv, ThreadsInv, Held

LEMMA WaitingIsIdle ==
  /\ Waiting \in Timers /\ Waiting.at = "idle" /\ Waiting.ev = NoEvent
  /\ Waiting.ev \notin Events
<1>1. Waiting.at = "idle" /\ Waiting.ev = NoEvent /\ Waiting.roll = FALSE
  BY DEF Waiting
<1>2. Waiting \in Timers
  BY DEF Waiting, Timers, Places
<1>. QED
  BY <1>1, <1>2, NoEventIsNone

(* An event is taken from the queue, and no other is lost.                 *)
LEMMA Taken ==
  ASSUME IInv, gtk.at = "idle", queue # << >>, queue' = Tail(queue), UNCHANGED call
  PROVE  /\ Head(queue) \in Events /\ queue' \in Seq(Events)
         /\ Len(queue) \in Nat /\ Len(queue') = Len(queue) - 1
         /\ free + Len(queue) = PoolSize /\ free \in Nat
         /\ \A e \in Seen : e \in Events /\ e # Head(queue) => e \in Seen'
<1>1. EventsKept /\ Held = 0 /\ gtk.ev \notin Events
  BY TypesSplit, Idle DEF IInv
<1>2. /\ Head(queue) \in Events /\ Tail(queue) \in Seq(Events)
      /\ Len(queue) \in Nat /\ Len(Tail(queue)) = Len(queue) - 1
      /\ ToSet(queue) \subseteq ToSet(Tail(queue)) \cup {Head(queue)}
  BY <1>1, TakeFirst DEF EventsKept
<1>3. free + Len(queue) = PoolSize /\ free \in Nat
  BY <1>1, <1>2 DEF EventsKept
<1>4. \A e \in Seen : e \in Events /\ e # Head(queue) => e \in Seen'
  BY <1>1, <1>2 DEF Seen
<1>. QED
  BY <1>2, <1>3, <1>4

(* An event other than a stop is handled and returned to the pool: what it *)
(* leaves must answer its start.                                           *)
LEMMA HandledKeeps ==
  ASSUME IInv, NEW u \in Units, NEW type \in Types \ {"stop"}, Handling(u, type), Return,
         UNCHANGED <<transport, cached, startSent, stopSent, call, outdated, down, ops>>,
         on' \in [Units -> BOOLEAN], \A x \in Units : on[x] => on'[x],
         paused' \in [Units -> BOOLEAN], active' \in Nat,
         ids \subseteq ids', ids' \subseteq Units,
         failed \subseteq failed', failed' \subseteq Tracks,
         type \in Starts => on'[u] \/ u \in failed'
  PROVE  IInv'
<1>1. /\ gtk.at = "idle" /\ queue # << >> /\ queue' = Tail(queue)
      /\ Head(queue).type = type /\ Head(queue).unit = u
      /\ gtk' = Waiting /\ free' = free + 1
  BY DEF Handling, Return
<1>2. /\ queue' \in Seq(Events)
      /\ Len(queue) \in Nat /\ Len(queue') = Len(queue) - 1
      /\ free + Len(queue) = PoolSize /\ free \in Nat
      /\ \A e \in Seen : e \in Events /\ e # Head(queue) => e \in Seen'
  BY <1>1, Taken
<1>3. /\ TransportTypes /\ FlagTypes /\ call \in Calls /\ RegionTypes
  BY TypesSplit DEF IInv
<1>4. TypeOK'
  <2>1. TransportTypes' /\ FlagTypes' /\ call' \in Calls /\ RegionTypes'
    BY <1>3 DEF TransportTypes, FlagTypes, RegionTypes, transport
  <2>2. gtk' \in Timers
    BY <1>1, WaitingIsIdle
  <2>3. EventsKept'
    <3>1. Held' = 0
      BY <1>1, WaitingIsIdle DEF Held
    <3>2. free' \in Nat /\ free' + Len(queue') + 0 = PoolSize
      BY <1>1, <1>2
    <3>. QED
      BY <3>1, <3>2, <1>2 DEF EventsKept
  <2>. QED
    BY <2>1, <2>2, <2>3, TypesSplitNext
<1>5. ThreadsInv'
  <2>1. gtk'.at = "idle" /\ gtk'.ev = NoEvent
    BY <1>1, WaitingIsIdle
  <2>. QED
    BY <2>1 DEF IInv, ThreadsInv, Stopping
<1>6. StartsAnswered /\ StopsAnswered
  BY <1>1, Idle
<1>7. StartsAnswered'
  <2>1. SUFFICES ASSUME NEW x \in Units, x \notin failed', startSent[x], ~on'[x]
                 PROVE  Pending(x, Starts)'
    BY DEF StartsAnswered
  <2>2. x \notin failed /\ ~on[x] /\ gtk.at # "clearStart"
    BY <2>1, <1>1
  <2>3. Pending(x, Starts)
    BY <2>1, <2>2, <1>6 DEF StartsAnswered
  <2>4. ASSUME NEW e \in Seen, e \in Events, e.unit = x, e.type \in Starts
        PROVE  e \in Seen'
    <3>1. e # Head(queue)
      BY <2>1, <2>4, <1>1
    <3>. QED
      BY <3>1, <2>4, <1>2
  <2>. QED
    BY <2>3, <2>4, PendingKept
<1>8. StopsAnswered'
  <2>1. SUFFICES ASSUME NEW x \in Tracks, stopSent[x] PROVE Pending(x, {"stop"})'
    BY DEF StopsAnswered
  <2>2. Pending(x, {"stop"})
    BY <2>1, <1>6 DEF StopsAnswered
  <2>3. ASSUME NEW e \in Seen, e \in Events, e.unit = x, e.type \in {"stop"}
        PROVE  e \in Seen'
    <3>1. e # Head(queue)
      BY <2>3, <1>1
    <3>. QED
      BY <3>1, <2>3, <1>2
  <2>. QED
    BY <2>2, <2>3, PendingKept
<1>. QED
  BY <1>4, <1>5, <1>7, <1>8, FlagsSplitNext DEF IInv

LEMMA StartTrackKeeps ==
  ASSUME IInv, NEW t \in Tracks, StartTrack(t)
  PROVE  IInv'
<1>1. /\ Handling(t, "start") /\ Return /\ t \in Units
      /\ UNCHANGED <<transport, cached, startSent, stopSent, call, outdated, down, ops>>
  BY DEF StartTrack, Units
<1>2. FlagTypes /\ RegionTypes
  BY TypesSplit DEF IInv
<1>3. /\ on' \in [Units -> BOOLEAN] /\ \A x \in Units : on[x] => on'[x]
      /\ paused' \in [Units -> BOOLEAN] /\ active' \in Nat
      /\ ids \subseteq ids' /\ ids' \subseteq Units
      /\ failed \subseteq failed' /\ failed' \subseteq Tracks
      /\ on'[t] \/ t \in failed'
  <2>1. CASE on[t] /\ active' = active + 1 /\ UNCHANGED <<on, paused, ids, failed>>
    BY <2>1, <1>2 DEF FlagTypes, RegionTypes
  <2>2. CASE /\ ~on[t] /\ RegionAdded(t) /\ active' = active + 1
             /\ paused' = [paused EXCEPT ![t] = FALSE] /\ UNCHANGED failed
    <3>1. on' = [on EXCEPT ![t] = TRUE] /\ ids' = ids \cup {t}
      BY <2>2 DEF RegionAdded
    <3>. QED
      BY <3>1, <2>2, <1>1, <1>2 DEF FlagTypes, RegionTypes
  <2>3. CASE /\ ~on[t] /\ failed' = failed \cup {t}
             /\ paused' = [paused EXCEPT ![t] = FALSE] /\ UNCHANGED <<on, active, ids>>
    BY <2>3, <1>1, <1>2 DEF FlagTypes, RegionTypes
  <2>. QED
    BY <2>1, <2>2, <2>3 DEF StartTrack
<1>. QED
  BY <1>1, <1>3, HandledKeeps DEF Types

LEMMA StartAutomationKeeps ==
  ASSUME IInv, NEW a \in Autos, StartAutomation(a)
  PROVE  IInv'
<1>1. /\ Return /\ a \in Units
      /\ UNCHANGED <<transport, cached, startSent, stopSent, call, outdated, down, ops>>
      /\ on' = [on EXCEPT ![a] = TRUE] /\ UNCHANGED <<paused, ids, failed>>
      /\ active' \in {active, active + 1}
  BY DEF StartAutomation, Units
<1>2. PICK type \in {"start", "start0"} : Handling(a, type)
  BY DEF StartAutomation
<1>3. FlagTypes /\ RegionTypes
  BY TypesSplit DEF IInv
<1>4. /\ on' \in [Units -> BOOLEAN] /\ (\A x \in Units : on[x] => on'[x]) /\ on'[a]
      /\ paused' \in [Units -> BOOLEAN] /\ active' \in Nat
      /\ ids \subseteq ids' /\ ids' \subseteq Units
      /\ failed \subseteq failed' /\ failed' \subseteq Tracks
  BY <1>1, <1>3 DEF FlagTypes, RegionTypes
<1>5. type \in Types \ {"stop"}
  BY <1>2 DEF Types
<1>. QED
  BY <1>1, <1>2, <1>4, <1>5, HandledKeeps

LEMMA TrackDataKeeps ==
  ASSUME IInv, NEW t \in Tracks, TrackData(t)
  PROVE  IInv'
<1>1. /\ Handling(t, "data") /\ Return /\ t \in Units
      /\ UNCHANGED <<transport, cached, startSent, stopSent, call, outdated, down, ops>>
      /\ paused' = [paused EXCEPT ![t] = FALSE] /\ UNCHANGED <<active, failed>>
      /\ RegionAdded(t) \/ UNCHANGED <<on, ids>>
  BY DEF TrackData, Units
<1>2. FlagTypes /\ RegionTypes
  BY TypesSplit DEF IInv
<1>3. /\ on' \in [Units -> BOOLEAN] /\ \A x \in Units : on[x] => on'[x]
      /\ paused' \in [Units -> BOOLEAN] /\ active' \in Nat
      /\ ids \subseteq ids' /\ ids' \subseteq Units
      /\ failed \subseteq failed' /\ failed' \subseteq Tracks
  BY <1>1, <1>2 DEF FlagTypes, RegionTypes, RegionAdded
<1>. QED
  BY <1>1, <1>3, HandledKeeps DEF Types, Starts

LEMMA AutomationDataKeeps ==
  ASSUME IInv, NEW a \in Autos, AutomationData(a)
  PROVE  IInv'
<1>1. /\ Handling(a, "data") /\ Return /\ a \in Units
      /\ UNCHANGED <<transport, cached, on, startSent, stopSent, paused, call,
                     outdated, down, ops>>
      /\ ids' \in {ids, ids \cup {a}} /\ UNCHANGED <<active, failed>>
  BY DEF AutomationData, Units, flags
<1>2. FlagTypes /\ RegionTypes
  BY TypesSplit DEF IInv
<1>3. /\ on' \in [Units -> BOOLEAN] /\ \A x \in Units : on[x] => on'[x]
      /\ paused' \in [Units -> BOOLEAN] /\ active' \in Nat
      /\ ids \subseteq ids' /\ ids' \subseteq Units
      /\ failed \subseteq failed' /\ failed' \subseteq Tracks
  BY <1>1, <1>2 DEF FlagTypes, RegionTypes
<1>. QED
  BY <1>1, <1>3, HandledKeeps DEF Types, Starts

LEMMA PauseKeeps ==
  ASSUME IInv, NEW u \in Units, Pause(u)
  PROVE  IInv'
<1>1. /\ Handling(u, "pause") /\ Return
      /\ UNCHANGED <<transport, cached, on, startSent, stopSent, call, outdated, down, ops>>
      /\ paused' = [paused EXCEPT ![u] = TRUE] /\ UNCHANGED <<active, ids, failed>>
  BY DEF Pause, regions
<1>2. FlagTypes /\ RegionTypes
  BY TypesSplit DEF IInv
<1>3. /\ on' \in [Units -> BOOLEAN] /\ \A x \in Units : on[x] => on'[x]
      /\ paused' \in [Units -> BOOLEAN] /\ active' \in Nat
      /\ ids \subseteq ids' /\ ids' \subseteq Units
      /\ failed \subseteq failed' /\ failed' \subseteq Tracks
  BY <1>1, <1>2 DEF FlagTypes, RegionTypes
<1>. QED
  BY <1>1, <1>3, HandledKeeps DEF Types, Starts
(* An event that finds no track is held for ever.                          *)
LEMMA HeldKeeps ==
  ASSUME IInv, gtk.at = "idle", queue # << >>, queue' = Tail(queue),
         gtk' \in Timers, gtk'.ev = Head(queue), gtk'.at \notin {"freeing", "freed"},
         down' \in BOOLEAN, active' \in Nat, ThreadsInv',
         UNCHANGED <<transport, cached, flags, call, free, ids, outdated, failed, ops>>
  PROVE  IInv'
<1>1. /\ Head(queue) \in Events /\ queue' \in Seq(Events)
      /\ Len(queue) \in Nat /\ Len(queue') = Len(queue) - 1
      /\ free + Len(queue) = PoolSize /\ free \in Nat
      /\ \A e \in Seen : e \in Events /\ e # Head(queue) => e \in Seen'
  BY Taken DEF flags
<1>2. \A e \in Seen : e \in Events => e \in Seen'
  <2>1. Head(queue) \in Seen'
    BY DEF Seen
  <2>. QED
    BY <2>1, <1>1
<1>3. /\ TransportTypes /\ FlagTypes /\ call \in Calls /\ RegionTypes
  BY TypesSplit DEF IInv
<1>4. TypeOK'
  <2>1. TransportTypes' /\ FlagTypes' /\ call' \in Calls /\ RegionTypes'
    BY <1>3 DEF TransportTypes, FlagTypes, RegionTypes, transport, flags
  <2>2. EventsKept'
    <3>1. Held' = 1
      BY <1>1 DEF Held
    <3>2. free' \in Nat /\ free' + Len(queue') + 1 = PoolSize
      BY <1>1
    <3>. QED
      BY <3>1, <3>2, <1>1 DEF EventsKept
  <2>. QED
    BY <2>1, <2>2, TypesSplitNext
<1>5. StartsAnswered /\ StopsAnswered
  BY Idle
<1>6. StartsAnswered'
  <2>1. SUFFICES ASSUME NEW x \in Units, x \notin failed, startSent[x], ~on[x]
                 PROVE  Pending(x, Starts)'
    BY DEF StartsAnswered, flags
  <2>2. Pending(x, Starts)
    BY <2>1, <1>5 DEF StartsAnswered
  <2>. QED
    BY <2>2, <1>2, PendingKept
<1>7. StopsAnswered'
  <2>1. SUFFICES ASSUME NEW x \in Tracks, stopSent[x] PROVE Pending(x, {"stop"})'
    BY DEF StopsAnswered, flags
  <2>2. Pending(x, {"stop"})
    BY <2>1, <1>5 DEF StopsAnswered
  <2>. QED
    BY <2>2, <1>2, PendingKept
<1>. QED
  BY <1>4, <1>6, <1>7, FlagsSplitNext DEF IInv

LEMMA TrackNotFoundKeeps ==
  ASSUME IInv, TrackNotFound
  PROVE  IInv'
<1>1. /\ gtk.at = "idle" /\ queue # << >> /\ queue' = Tail(queue)
      /\ gtk' = [gtk EXCEPT !.at = "hung", !.ev = Head(queue)]
      /\ UNCHANGED <<transport, cached, flags, call, free, regions, ops>>
  BY DEF TrackNotFound
<1>2. down' \in BOOLEAN
  BY DEF TrackNotFound
<1>3. gtk \in Timers /\ RegionTypes
  BY TypesSplit DEF IInv
<1>4. Head(queue) \in Events
  BY <1>1, Taken DEF flags
<1>5. /\ gtk' \in Timers /\ gtk'.at = "hung" /\ gtk'.ev = Head(queue)
  BY <1>1, <1>3, <1>4 DEF Timers, Places
<1>6. ThreadsInv'
  BY <1>1, <1>4, <1>5 DEF IInv, ThreadsInv, Stopping
<1>7. active' \in Nat
  BY <1>1, <1>3 DEF regions, RegionTypes
<1>. QED
  BY <1>1, <1>2, <1>5, <1>6, <1>7, HeldKeeps DEF regions

(* A stop is held while it is handled.                                     *)
LEMMA StopKeeps ==
  ASSUME IInv, NEW u \in Units, Stop(u)
  PROVE  IInv'
<1>. DEFINE called == u \in Autos => on[u]
            commits == called /\ active = 1 /\ ~NotFound(u)
            at == IF commits THEN "pause" ELSE "clear"
<1>1. /\ gtk.at = "idle" /\ queue # << >> /\ queue' = Tail(queue)
      /\ Head(queue).type = "stop"
      /\ gtk' = [gtk EXCEPT !.at = at, !.ev = Head(queue)]
      /\ active' = IF called /\ active > 1 THEN active - 1 ELSE active
      /\ UNCHANGED <<transport, cached, flags, call, free, ids, outdated, failed, down, ops>>
  BY DEF Stop, Handling
<1>2. gtk \in Timers /\ RegionTypes /\ TransportTypes
  BY TypesSplit DEF IInv
<1>3. Head(queue) \in Events
  BY <1>1, Taken DEF flags
<1>4. at \in {"pause", "clear"} /\ (at = "pause" => active' = 1)
  <2>1. CASE commits
    <3>1. active = 1
      BY <2>1
    <3>2. active' = active
      BY <3>1, <1>1
    <3>. QED
      BY <3>1, <3>2, <2>1
  <2>2. CASE ~commits
    BY <2>2
  <2>. QED
    BY <2>1, <2>2
<1>5. active' \in Nat
  BY <1>1, <1>2 DEF RegionTypes
<1>. HIDE DEF at
<1>6. gtk' \in Timers /\ gtk'.at = at /\ gtk'.ev = Head(queue)
  BY <1>1, <1>2, <1>3, <1>4 DEF Timers, Places
<1>7. ThreadsInv'
  BY <1>1, <1>3, <1>4, <1>6 DEF IInv, ThreadsInv, Stopping
<1>8. down' \in BOOLEAN
  BY <1>1, <1>2 DEF TransportTypes
<1>. QED
  BY <1>1, <1>4, <1>5, <1>6, <1>7, <1>8, HeldKeeps

(* The steps of a stop that keep hold of its event, up to the reset of     *)
(* recording_start_sent.                                                   *)
LEMMA StepKeeps ==
  ASSUME IInv, gtk.at \in Stopping, gtk' \in Timers, gtk'.ev = gtk.ev,
         gtk'.at \in Stopping, gtk'.at \in {"pause", "commit", "disarm"} => active' = 1,
         TransportTypes', FlagTypes', RegionTypes',
         UNCHANGED <<call, free, queue>>,
         StartsAnswered => StartsAnswered',
         UNCHANGED stopSent
  PROVE  IInv'
<1>1. gtk.at \notin {"freeing", "freed", "idle", "hung"}
      /\ gtk'.at \notin {"freeing", "freed", "idle", "hung"}
  BY DEF Stopping
<1>2. gtk.ev \in Events /\ gtk.ev.type = "stop"
  BY DEF IInv, ThreadsInv
<1>3. Seen' = Seen
  BY DEF Seen
<1>4. StartsAnswered /\ StopsAnswered
  BY <1>1, FlagsSplit DEF IInv
<1>5. StopsAnswered'
  <2>1. \A x : Pending(x, {"stop"}) => Pending(x, {"stop"})'
    BY <1>3, PendingKept
  <2>. QED
    BY <2>1, <1>4 DEF StopsAnswered
<1>6. TypeOK'
  <2>1. call \in Calls /\ EventsKept
    BY TypesSplit DEF IInv
  <2>2. EventsKept'
    BY <2>1, <1>2 DEF EventsKept, Held
  <2>. QED
    BY <2>1, <2>2, TypesSplitNext
<1>7. ThreadsInv'
  BY <1>1, <1>2 DEF IInv, ThreadsInv
<1>. QED
  BY <1>4, <1>5, <1>6, <1>7, FlagsSplitNext DEF IInv

(* A step that changes no flag of a unit keeps what they wait for.         *)
LEMMA SameFlags ==
  ASSUME StartsAnswered, Seen' = Seen, UNCHANGED <<failed, startSent, on>>,
         gtk.at # "clearStart"
  PROVE  StartsAnswered'
<1>1. \A x : Pending(x, Starts) => Pending(x, Starts)'
  BY PendingKept
<1>. QED
  BY <1>1 DEF StartsAnswered

LEMMA PauseEngineKeeps ==
  ASSUME IInv, PauseEngine \/ Commit \/ Disarm
  PROVE  IInv'
<1>1. /\ gtk.at \in {"pause", "commit", "disarm"} /\ active = 1
      /\ TransportTypes /\ FlagTypes /\ gtk \in Timers /\ RegionTypes
  BY TypesSplit DEF IInv, ThreadsInv, PauseEngine, Commit, Disarm
<1>2. /\ gtk' \in Timers /\ gtk'.ev = gtk.ev
      /\ gtk'.at \in {"commit", "disarm", "clear"}
      /\ gtk'.at \in {"pause", "commit", "disarm"} => active' = 1
  <2>1. CASE PauseEngine
    <3>1. gtk' = [gtk EXCEPT !.at = "commit", !.roll = rolling] /\ active' = active
      BY <2>1 DEF PauseEngine, regions
    <3>. QED
      BY <3>1, <1>1 DEF Timers, Places, TransportTypes
  <2>2. CASE Commit
    <3>1. PICK next \in {"disarm", "clear"} :
            gtk' = [gtk EXCEPT !.at = next, !.roll = FALSE] /\ active' = active
      BY <2>2 DEF Commit, regions
    <3>. QED
      BY <3>1, <1>1 DEF Timers, Places
  <2>3. CASE Disarm
    <3>1. gtk' = [gtk EXCEPT !.at = "clear"]
      BY <2>3 DEF Disarm, At
    <3>. QED
      BY <3>1, <1>1 DEF Timers, Places
  <2>. QED
    BY <2>1, <2>2, <2>3
<1>3. TransportTypes'
  <2>1. gtk.roll \in BOOLEAN
    BY <1>1 DEF Timers
  <2>2. /\ rolling' \in BOOLEAN /\ recording' \in BOOLEAN /\ down' \in BOOLEAN
        /\ UNCHANGED <<armed, mode, cached, ops>>
    BY <2>1, <1>1 DEF PauseEngine, Commit, Disarm, TransportTypes
  <2>. QED
    BY <2>2, <1>1 DEF TransportTypes
<1>4. /\ FlagTypes' /\ UNCHANGED <<call, free, queue, on, startSent, stopSent, failed>>
  BY <1>1 DEF PauseEngine, Commit, Disarm, FlagTypes, flags, events, regions
<1>5. RegionTypes'
  <2>1. active - 1 \in Nat
    BY <1>1
  <2>. QED
    BY <2>1, <1>1 DEF PauseEngine, Commit, Disarm, RegionTypes, regions
<1>6. Seen' = Seen
  BY <1>2, <1>4 DEF Seen
<1>7. StartsAnswered => StartsAnswered'
  BY <1>1, <1>4, <1>6, SameFlags
<1>8. gtk.at \in Stopping /\ gtk'.at \in Stopping /\ gtk.at \notin {"freeing", "freed"}
  BY <1>1, <1>2 DEF Stopping
<1>. QED
  BY <1>2, <1>3, <1>4, <1>5, <1>7, <1>8, StepKeeps

LEMMA ClearKeeps ==
  ASSUME IInv, Clear
  PROVE  IInv'
<1>1. /\ gtk.at = "clear" /\ gtk' = [gtk EXCEPT !.at = "clearStart"]
      /\ on' = [on EXCEPT ![gtk.ev.unit] = FALSE]
      /\ UNCHANGED <<transport, cached, startSent, stopSent, paused, call, events,
                     regions, down, ops>>
  BY DEF Clear, At
<1>2. /\ TransportTypes /\ FlagTypes /\ gtk \in Timers /\ RegionTypes
  BY TypesSplit DEF IInv
<1>3. gtk' \in Timers /\ gtk'.ev = gtk.ev /\ gtk'.at = "clearStart"
  BY <1>1, <1>2 DEF Timers, Places
<1>4. TransportTypes' /\ FlagTypes' /\ RegionTypes' /\ UNCHANGED <<free, queue, failed>>
  BY <1>1, <1>2 DEF TransportTypes, FlagTypes, RegionTypes, transport, regions, events
<1>5. Seen' = Seen
  BY <1>1, <1>3, <1>4 DEF Seen
<1>6. StartsAnswered => StartsAnswered'
  <2>1. \A x : Pending(x, Starts) => Pending(x, Starts)'
    BY <1>5, PendingKept
  <2>2. \A x \in Units : x # gtk.ev.unit => on'[x] = on[x]
    BY <1>1, <1>2 DEF FlagTypes
  <2>. QED
    BY <2>1, <2>2, <1>1, <1>3, <1>4 DEF StartsAnswered
<1>7. gtk.at \in Stopping /\ gtk'.at \in Stopping /\ gtk.at \notin {"freeing", "freed"}
      /\ gtk'.at \notin {"pause", "commit", "disarm"}
  BY <1>1, <1>3 DEF Stopping
<1>. QED
  BY <1>1, <1>3, <1>4, <1>6, <1>7, StepKeeps

LEMMA ClearStartKeeps ==
  ASSUME IInv, ClearStart
  PROVE  IInv'
<1>1. /\ gtk.at = "clearStart" /\ gtk' = [gtk EXCEPT !.at = "clearStop"]
      /\ startSent' = [startSent EXCEPT ![gtk.ev.unit] = FALSE]
      /\ UNCHANGED <<transport, cached, on, stopSent, paused, call, events,
                     regions, down, ops>>
  BY DEF ClearStart, At
<1>2. /\ TransportTypes /\ FlagTypes /\ gtk \in Timers /\ RegionTypes
  BY TypesSplit DEF IInv
<1>3. gtk' \in Timers /\ gtk'.ev = gtk.ev /\ gtk'.at = "clearStop"
  BY <1>1, <1>2 DEF Timers, Places
<1>4. TransportTypes' /\ FlagTypes' /\ RegionTypes' /\ UNCHANGED <<free, queue, failed>>
  BY <1>1, <1>2 DEF TransportTypes, FlagTypes, RegionTypes, transport, regions, events
<1>5. Seen' = Seen
  BY <1>1, <1>3, <1>4 DEF Seen
<1>6. StartsAnswered => StartsAnswered'
  <2>1. \A x : Pending(x, Starts) => Pending(x, Starts)'
    BY <1>5, PendingKept
  <2>2. \A x \in Units : startSent'[x] => startSent[x] /\ x # gtk.ev.unit
    BY <1>1, <1>2 DEF FlagTypes
  <2>. QED
    BY <2>1, <2>2, <1>1, <1>4 DEF StartsAnswered
<1>7. gtk.at \in Stopping /\ gtk'.at \in Stopping /\ gtk.at \notin {"freeing", "freed"}
      /\ gtk'.at \notin {"pause", "commit", "disarm"}
  BY <1>1, <1>3 DEF Stopping
<1>. QED
  BY <1>1, <1>3, <1>4, <1>6, <1>7, StepKeeps

(* The event is returned, and recording_stop_sent of its track no longer   *)
(* waits for one.                                                          *)
LEMMA ClearStopKeeps ==
  ASSUME IInv, ClearStop
  PROVE  IInv'
<1>1. /\ gtk.at = "clearStop" /\ gtk' = Waiting /\ free' = free + 1
      /\ stopSent' = [t \in Tracks |-> stopSent[t] /\ t # gtk.ev.unit]
      /\ UNCHANGED <<transport, cached, on, startSent, paused, call, queue,
                     regions, down, ops>>
  BY DEF ClearStop, Return
<1>2. /\ TransportTypes /\ FlagTypes /\ call \in Calls /\ RegionTypes /\ EventsKept
  BY TypesSplit DEF IInv
<1>3. gtk.ev \in Events /\ gtk.ev.type = "stop" /\ StartsAnswered /\ StopsAnswered
  BY <1>1, FlagsSplit DEF IInv, ThreadsInv, Stopping
<1>4. gtk' \in Timers /\ gtk'.at = "idle" /\ gtk'.ev = NoEvent /\ gtk'.ev \notin Events
  BY <1>1, WaitingIsIdle
<1>5. TypeOK'
  <2>1. TransportTypes' /\ FlagTypes' /\ RegionTypes'
    BY <1>1, <1>2 DEF TransportTypes, FlagTypes, RegionTypes, transport, regions
  <2>2. EventsKept'
    <3>1. Held = 1 /\ Held' = 0
      BY <1>3, <1>4 DEF Held
    <3>2. Len(queue) \in Nat
      BY <1>2, LenProperties DEF EventsKept
    <3>. QED
      BY <3>1, <3>2, <1>1, <1>2 DEF EventsKept
  <2>. QED
    BY <2>1, <2>2, <1>1, <1>2, <1>4, TypesSplitNext
<1>6. ThreadsInv'
  BY <1>1, <1>4 DEF IInv, ThreadsInv, Stopping
<1>7. \A e \in Seen : e # gtk.ev => e \in Seen'
  BY <1>1 DEF Seen
<1>8. StartsAnswered'
  <2>1. SUFFICES ASSUME NEW x \in Units, x \notin failed, startSent[x], ~on[x]
                 PROVE  Pending(x, Starts)'
    BY <1>1 DEF StartsAnswered, regions
  <2>2. Pending(x, Starts)
    BY <2>1, <1>1, <1>3 DEF StartsAnswered
  <2>3. \A e : e \in Events /\ e.unit = x /\ e.type \in Starts => e # gtk.ev
    BY <1>3 DEF Starts
  <2>. QED
    BY <2>2, <2>3, <1>7, PendingKept
<1>9. StopsAnswered'
  <2>1. SUFFICES ASSUME NEW x \in Tracks, stopSent'[x] PROVE Pending(x, {"stop"})'
    BY DEF StopsAnswered
  <2>2. stopSent[x] /\ x # gtk.ev.unit
    BY <2>1, <1>1
  <2>3. Pending(x, {"stop"})
    BY <2>2, <1>3 DEF StopsAnswered
  <2>4. \A e : e \in Events /\ e.unit = x /\ e.type \in {"stop"} => e # gtk.ev
    BY <2>2
  <2>. QED
    BY <2>3, <2>4, <1>7, PendingKept
<1>. QED
  BY <1>5, <1>6, <1>8, <1>9, FlagsSplitNext DEF IInv
-----------------------------------------------------------------------------
(* What the user does, while the GTK thread waits.                         *)
LEMMA UserKeeps ==
  ASSUME IInv, gtk.at = "idle",
         gtk' \in Timers, gtk'.ev = gtk.ev, gtk'.at \in {"idle", "freeing"},
         TransportTypes', queue' \in Seq(Events), Len(queue') = Len(queue),
         outdated' \subseteq ids,
         UNCHANGED <<flags, call, free, active, ids, failed>>,
         \A e \in ToSet(queue) : \E f \in ToSet(queue') :
           f \in Events /\ f.unit = e.unit /\ f.type = e.type
  PROVE  IInv'
<1>1. /\ FlagTypes /\ call \in Calls /\ RegionTypes /\ EventsKept
  BY TypesSplit DEF IInv
<1>2. gtk.ev = NoEvent /\ gtk.ev \notin Events /\ StartsAnswered /\ StopsAnswered
  BY Idle
<1>3. TypeOK'
  <2>1. FlagTypes' /\ RegionTypes'
    BY <1>1 DEF FlagTypes, RegionTypes, flags
  <2>2. EventsKept'
    BY <1>1 DEF EventsKept, Held
  <2>. QED
    BY <2>1, <2>2, <1>1, TypesSplitNext
<1>4. ThreadsInv'
  BY <1>2 DEF IInv, ThreadsInv, Stopping
<1>5. ASSUME NEW u, NEW types, Pending(u, types) PROVE Pending(u, types)'
  <2>1. PICK e \in Seen : e \in Events /\ e.unit = u /\ e.type \in types
    BY <1>5 DEF Pending, Seen
  <2>2. CASE e \in ToSet(queue)
    <3>1. PICK f \in ToSet(queue') : f \in Events /\ f.unit = e.unit /\ f.type = e.type
      BY <2>2
    <3>. QED
      BY <3>1, <2>1 DEF Pending
  <2>3. CASE e \notin ToSet(queue)
    <3>1. e \in UNION {ToSet(call'[t].todo) : t \in Tracks}
      BY <2>1, <2>3, <1>2 DEF Seen
    <3>. QED
      BY <3>1, <2>1 DEF Pending
  <2>. QED
    BY <2>2, <2>3
<1>6. StartsAnswered'
  BY <1>2, <1>5 DEF StartsAnswered, flags
<1>7. StopsAnswered'
  BY <1>2, <1>5 DEF StopsAnswered, flags
<1>. QED
  BY <1>3, <1>4, <1>6, <1>7, FlagsSplitNext DEF IInv

(* The queue as it is.                                                     *)
LEMMA SameQueue ==
  ASSUME IInv, UNCHANGED queue
  PROVE  /\ queue' \in Seq(Events) /\ Len(queue') = Len(queue)
         /\ \A e \in ToSet(queue) : \E f \in ToSet(queue') :
              f \in Events /\ f.unit = e.unit /\ f.type = e.type
<1>1. queue \in Seq(Events)
  BY TypesSplit DEF IInv, EventsKept
<1>2. \A e \in ToSet(queue) : e \in Events
  BY <1>1, LenProperties, ElementOfSeq DEF ToSet
<1>. QED
  BY <1>1, <1>2

(* The rename of a track marks its events, and loses none.                 *)
LEMMA RenamedQueue ==
  ASSUME IInv, NEW t \in Tracks,
         queue' = [i \in DOMAIN queue |->
           [queue[i] EXCEPT !.old = @ \/ TrackOf(queue[i].unit) = t]]
  PROVE  /\ queue' \in Seq(Events) /\ Len(queue') = Len(queue)
         /\ \A e \in ToSet(queue) : \E f \in ToSet(queue') :
              f \in Events /\ f.unit = e.unit /\ f.type = e.type
<1>1. queue \in Seq(Events)
  BY TypesSplit DEF IInv, EventsKept
<1>2. DOMAIN queue = 1..Len(queue) /\ Len(queue) \in Nat
      /\ \A i \in 1..Len(queue) : queue[i] \in Events
  BY <1>1, LenProperties, ElementOfSeq
<1>3. \A i \in 1..Len(queue) :
        /\ queue'[i] \in Events
        /\ queue'[i].unit = queue[i].unit /\ queue'[i].type = queue[i].type
  <2>1. TAKE i \in 1..Len(queue)
  <2>2. PICK e \in Events : e = queue[i]
    BY <1>2
  <2>3. PICK o \in BOOLEAN : o = (e.old \/ TrackOf(e.unit) = t)
    BY <2>2 DEF Events
  <2>4. queue'[i] = [e EXCEPT !.old = o]
    BY <1>2, <2>2, <2>3
  <2>5. e = [type |-> e.type, unit |-> e.unit, old |-> e.old]
        /\ e.type \in Types /\ e.unit \in Units
    BY DEF Events
  <2>6. queue'[i] = [type |-> e.type, unit |-> e.unit, old |-> o]
    BY <2>4, <2>5
  <2>. QED
    BY <2>2, <2>5, <2>6 DEF Events
<1>4. DOMAIN queue' = 1..Len(queue)
  BY <1>2
<1>5. queue' \in [1..Len(queue) -> Events]
  <2>1. queue' = [i \in 1..Len(queue) |-> queue'[i]]
    BY <1>2
  <2>. QED
    BY <2>1, <1>3
<1>6. queue' \in Seq(Events) /\ Len(queue') = Len(queue)
  BY <1>2, <1>5
<1>7. ASSUME NEW e \in ToSet(queue)
      PROVE  \E f \in ToSet(queue') : f \in Events /\ f.unit = e.unit /\ f.type = e.type
  <2>1. PICK i \in 1..Len(queue) : e = queue[i]
    BY <1>2 DEF ToSet
  <2>2. queue'[i] \in ToSet(queue')
    BY <1>4 DEF ToSet
  <2>. QED
    BY <2>1, <2>2, <1>3
<1>. QED
  BY <1>6, <1>7

LEMMA UserStep ==
  ASSUME IInv, User
  PROVE  IInv'
<1>1. /\ TransportTypes /\ gtk \in Timers /\ RegionTypes
  BY TypesSplit DEF IInv
<1>2. /\ gtk.at = "idle" /\ ops' = ops + 1
      /\ UNCHANGED <<flags, call, free, active, ids, failed, down>>
  BY DEF User, Roll, Record, Arm, SetMode, SetCaches, Rename, Quit, Op
<1>3. /\ gtk' \in Timers /\ gtk'.ev = gtk.ev /\ gtk'.at \in {"idle", "freeing"}
  <2>1. gtk' = gtk \/ gtk' = [gtk EXCEPT !.at = "freeing"]
    BY DEF User, Roll, Record, Arm, SetMode, SetCaches, Rename, Quit, At
  <2>. QED
    BY <2>1, <1>1, <1>2 DEF Timers, Places
<1>4. outdated' \subseteq ids
  BY <1>1 DEF User, Roll, Record, Arm, SetMode, SetCaches, Rename, Quit, RegionTypes
<1>5. TransportTypes'
  <2>1. down' \in BOOLEAN /\ ops' \in Nat
    BY <1>1, <1>2 DEF TransportTypes
  <2>2. /\ recording' \in BOOLEAN /\ rolling' \in BOOLEAN
        /\ armed' \in [Tracks -> BOOLEAN] /\ mode' \in [Autos -> Modes]
        /\ cached' \subseteq Autos
    <3>1. CASE Roll
      BY <3>1, <1>1 DEF Roll, TransportTypes
    <3>2. CASE Record
      BY <3>2, <1>1 DEF Record, TransportTypes
    <3>3. CASE SetCaches \/ Quit
      BY <3>3, <1>1 DEF SetCaches, Quit, TransportTypes, transport
    <3>4. ASSUME NEW t \in Tracks, Arm(t) \/ Rename(t)
          PROVE  /\ recording' \in BOOLEAN /\ rolling' \in BOOLEAN
                 /\ armed' \in [Tracks -> BOOLEAN] /\ mode' \in [Autos -> Modes]
                 /\ cached' \subseteq Autos
      <4>1. CASE Arm(t)
        BY <4>1, <1>1 DEF Arm, TransportTypes
      <4>2. CASE Rename(t)
        BY <4>2, <1>1 DEF Rename, TransportTypes, transport
      <4>. QED
        BY <3>4, <4>1, <4>2
    <3>5. ASSUME NEW a \in Autos, SetMode(a)
          PROVE  /\ recording' \in BOOLEAN /\ rolling' \in BOOLEAN
                 /\ armed' \in [Tracks -> BOOLEAN] /\ mode' \in [Autos -> Modes]
                 /\ cached' \subseteq Autos
      BY <3>5, <1>1 DEF SetMode, TransportTypes
    <3>. QED
      BY <3>1, <3>2, <3>3, <3>4, <3>5 DEF User
  <2>. QED
    BY <2>1, <2>2 DEF TransportTypes
<1>6. /\ queue' \in Seq(Events) /\ Len(queue') = Len(queue)
      /\ \A e \in ToSet(queue) : \E f \in ToSet(queue') :
           f \in Events /\ f.unit = e.unit /\ f.type = e.type
  <2>1. CASE UNCHANGED queue
    BY <2>1, SameQueue
  <2>2. ASSUME NEW t \in Tracks, Rename(t)
        PROVE  /\ queue' \in Seq(Events) /\ Len(queue') = Len(queue)
               /\ \A e \in ToSet(queue) : \E f \in ToSet(queue') :
                    f \in Events /\ f.unit = e.unit /\ f.type = e.type
    BY <2>2, RenamedQueue DEF Rename
  <2>. QED
    BY <2>1, <2>2 DEF User, Roll, Record, Arm, SetMode, SetCaches, Quit
<1>. QED
  BY <1>2, <1>3, <1>4, <1>5, <1>6, UserKeeps

(* The events that are left are returned when the program ends.            *)
LEMMA FreeKeeps ==
  ASSUME IInv, Free
  PROVE  IInv'
<1>1. /\ gtk.at = "freeing"
      /\ UNCHANGED <<transport, cached, flags, call, regions, down, ops>>
  BY DEF Free
<1>2. /\ TransportTypes /\ FlagTypes /\ call \in Calls /\ gtk \in Timers
      /\ RegionTypes /\ EventsKept
  BY TypesSplit DEF IInv
<1>3. gtk.ev = NoEvent /\ gtk.ev \notin Events
  BY <1>1, NoEventIsNone DEF IInv, ThreadsInv
<1>4. TransportTypes' /\ FlagTypes' /\ call' \in Calls /\ RegionTypes'
  BY <1>1, <1>2 DEF TransportTypes, FlagTypes, RegionTypes, transport, flags, regions
<1>5. /\ gtk' \in Timers /\ gtk'.ev = NoEvent /\ gtk'.at \in {"freeing", "freed"}
      /\ EventsKept'
  <2>1. CASE queue = << >>
    <3>1. gtk' = [gtk EXCEPT !.at = "freed"] /\ UNCHANGED events
      BY <2>1 DEF Free, At
    <3>2. gtk' \in Timers /\ gtk'.ev = NoEvent /\ gtk'.at = "freed"
      BY <3>1, <1>2, <1>3 DEF Timers, Places
    <3>3. EventsKept'
      BY <3>1, <3>2, <1>2, <1>3 DEF EventsKept, Held, events
    <3>. QED
      BY <3>2, <3>3
  <2>2. CASE queue # << >>
    <3>1. queue' = Tail(queue) /\ free' = free + 1 /\ UNCHANGED gtk
      BY <2>2 DEF Free
    <3>2. queue' \in Seq(Events) /\ Len(queue) \in Nat /\ Len(queue') = Len(queue) - 1
      BY <2>2, <3>1, <1>2, TakeFirst DEF EventsKept
    <3>3. Held = 0 /\ Held' = 0
      BY <3>1, <1>3 DEF Held
    <3>4. free' \in Nat /\ free' + Len(queue') + 0 = PoolSize
      BY <3>1, <3>2, <3>3, <1>2 DEF EventsKept
    <3>. QED
      BY <3>1, <3>2, <3>3, <3>4, <1>1, <1>2, <1>3 DEF EventsKept
  <2>. QED
    BY <2>1, <2>2
<1>6. TypeOK'
  BY <1>4, <1>5, TypesSplitNext
<1>7. ThreadsInv'
  BY <1>1, <1>5 DEF IInv, ThreadsInv, Stopping, flags
<1>. QED
  BY <1>5, <1>6, <1>7, FlagsSplitNext DEF IInv

-----------------------------------------------------------------------------
LEMMA Initially == Init => IInv
<1>. SUFFICES ASSUME Init PROVE IInv
  OBVIOUS
<1>1. /\ TransportTypes /\ FlagTypes
  <2>1. mode \in [Autos -> Modes]
    BY DEF Init, Modes
  <2>2. FlagTypes
    BY DEF Init, FlagTypes
  <2>. QED
    BY <2>1, <2>2 DEF Init, TransportTypes
<1>2. call \in Calls /\ \A t \in Tracks : call[t].stop = "no"
  <2>1. NoCall \in [stop : Segments \cup {"no"}, todo : Seq(Events), more : Seq(Segments)]
        /\ NoCall.stop = "no"
    BY NoEvents DEF NoCall
  <2>. QED
    BY <2>1 DEF Init, Calls
<1>3. gtk \in Timers /\ gtk.at = "idle" /\ gtk.ev = NoEvent /\ gtk.ev \notin Events
  BY WaitingIsIdle DEF Init
<1>4. RegionTypes
  BY DEF Init, RegionTypes
<1>5. EventsKept
  <2>1. queue \in Seq(Events) /\ Len(queue) = 0
    BY EmptySeq DEF Init
  <2>2. Held = 0
    BY <1>3 DEF Held
  <2>3. free = PoolSize /\ PoolSize \in Nat
    BY BoundsAssumption DEF Init
  <2>. QED
    BY <2>1, <2>2, <2>3 DEF EventsKept
<1>6. TypeOK
  BY <1>1, <1>2, <1>3, <1>4, <1>5, TypesSplit
<1>7. ThreadsInv
  BY <1>2, <1>3 DEF ThreadsInv, Stopping
<1>8. \A u \in Units : ~startSent[u]
  BY DEF Init
<1>9. \A t \in Tracks : ~stopSent[t]
  BY DEF Init
<1>. QED
  BY <1>6, <1>7, <1>8, <1>9 DEF IInv, FlagsAnswered

LEMMA Consecution == IInv /\ [Next]_vars => IInv'
<1>. SUFFICES ASSUME IInv, [Next]_vars PROVE IInv'
  OBVIOUS
<1>1. CASE Process
  <2>1. CASE TrackNotFound
    BY <2>1, TrackNotFoundKeeps
  <2>2. ASSUME NEW t \in Tracks, StartTrack(t) \/ TrackData(t) PROVE IInv'
    BY <2>2, StartTrackKeeps, TrackDataKeeps
  <2>3. ASSUME NEW a \in Autos, StartAutomation(a) \/ AutomationData(a) PROVE IInv'
    BY <2>3, StartAutomationKeeps, AutomationDataKeeps
  <2>4. ASSUME NEW u \in Units, Pause(u) \/ Stop(u) PROVE IInv'
    BY <2>4, PauseKeeps, StopKeeps
  <2>5. CASE PauseEngine \/ Commit \/ Disarm
    BY <2>5, PauseEngineKeeps
  <2>6. CASE Clear \/ ClearStart \/ ClearStop
    BY <2>6, ClearKeeps, ClearStartKeeps, ClearStopKeeps
  <2>. QED
    BY <1>1, <2>1, <2>2, <2>3, <2>4, <2>5, <2>6 DEF Process
<1>2. CASE User
  BY <1>2, UserStep
<1>3. CASE Free
  BY <1>3, FreeKeeps
<1>4. ASSUME NEW t \in Tracks, Handler(t) PROVE IInv'
  BY <1>4, HandleRecordingKeeps, CheckStopSentKeeps, SendKeeps DEF Handler
<1>5. CASE UNCHANGED vars
  <2>1. UNCHANGED <<recording, rolling, armed, mode, cached, on, startSent, stopSent, paused,
                    call, free, queue, gtk, active, ids, outdated, failed, down, ops>>
    BY <1>5 DEF vars, transport, flags, events, regions
  <2>2. TypeOK'
    BY <2>1 DEF IInv, TypeOK, Held
  <2>3. ThreadsInv'
    BY <2>1 DEF IInv, ThreadsInv
  <2>4. \A u, types : Pending(u, types) => Pending(u, types)'
    BY <2>1 DEF Pending
  <2>5. FlagsAnswered'
    BY <2>1, <2>4 DEF IInv, FlagsAnswered
  <2>. QED
    BY <2>2, <2>3, <2>5 DEF IInv
<1>. QED
  BY <1>1, <1>2, <1>3, <1>4, <1>5 DEF Next

(* What recording_manager.c and object_pool.c keep of their events and     *)
(* flags, between any two steps of the audio threads, the timer and the    *)
(* user.                                                                   *)
THEOREM RecordingInvariance == Spec => []IInv
BY Initially, Consecution, PTL DEF Spec

(* Every event of the pool is free, in the queue or being handled, however *)
(* it is handled and in whatever order the threads go: object_pool_get and *)
(* object_pool_return balance.                                             *)
THEOREM TypeCorrect == Spec => []TypeOK
<1>1. IInv => TypeOK
  BY DEF IInv
<1>. QED
  BY RecordingInvariance, <1>1, PTL

(* recording_start_sent and recording_stop_sent, which two threads set and *)
(* reset without a lock, never wait for what is not on its way.            *)
THEOREM FlagsAreAnswered == Spec => []FlagsAnswered
<1>1. IInv => FlagsAnswered
  BY DEF IInv
<1>. QED
  BY RecordingInvariance, <1>1, PTL
=============================================================================
