---------------------------- MODULE ShardProofs -----------------------------
(***************************************************************************)
(* Proofs about Shard, for every stream, pool, cap, window and threshold,  *)
(* whatever order the workers observe in and whatever is shed or replayed: *)
(* the structures keep to the cap, an event is counted again only beyond   *)
(* it, the throttle spaces the alerts of a subject, and the counts are     *)
(* those of the window as long as the workers keep the order and the live  *)
(* subjects fit.                                                           *)
(***************************************************************************)
EXTENDS Shard, FiniteSetTheorems, TLAPS

-----------------------------------------------------------------------------
(***************************************************************************)
(* Least and greatest numbers.                                             *)
(***************************************************************************)

\* A set of numbers has a least one.
LEMMA LeastNumber ==
    ASSUME NEW S \in SUBSET Nat, S # {}
    PROVE  \E x \in S : \A y \in S : x <= y
<1>1. \E x \in S : \A y \in S : ~(<<y, x>> \in OpToRel(<, Nat))
  BY WFMin, NatLessThanWellFounded, ZenonT(30)
<1>2. PICK x \in S : \A y \in S : ~(y < x)
  <2>1. \A y, z \in S : y \in Nat /\ z \in Nat
    OBVIOUS
  <2> QED
    BY <1>1, <2>1, Zenon DEF OpToRel
<1> QED
  BY <1>2

\* The last stamp is one of the stamps and the latest of them.
LEMMA LastStamp ==
    ASSUME NEW n \in Nat, NEW S \in SUBSET (1..n), S # {}
    PROVE  Max(S) \in S /\ \A y \in S : y <= Max(S)
<1> DEFINE D == {n - x : x \in S}
<1>1. D \in SUBSET Nat /\ D # {}
  <2>1. \A x \in S : n - x \in Nat
    OBVIOUS
  <2> QED
    BY <2>1
<1>2. PICK d \in D : \A e \in D : d <= e
  BY <1>1, LeastNumber
<1>3. PICK x \in S : d = n - x
  BY <1>2
<1>4. \A y \in S : n - x <= n - y
  BY <1>2, <1>3
<1>5. \A y \in S : x >= y
  BY <1>4
<1>6. \E z \in S : \A y \in S : z >= y
  BY <1>5
<1>7. Max(S) \in S /\ \A y \in S : Max(S) >= y
  BY <1>6 DEF Max
<1> QED
  BY <1>7

-----------------------------------------------------------------------------
(***************************************************************************)
(* The keys an eviction leaves.                                            *)
(***************************************************************************)

\* Fewer keys than the structure may hold: there is room for one more.
LEMMA RecentFew ==
    ASSUME NEW S, IsFiniteSet(S), NEW touch \in [S -> Nat]
    PROVE  /\ Recent(touch) \subseteq S
           /\ IsFiniteSet(Recent(touch)) /\ Cardinality(Recent(touch)) < MaxKeys
<1> DEFINE R == Recent(touch)
           Since(k) == {y \in S : touch[y] >= k}
<1>1. R = {x \in S : touch[x] # 0 /\ Cardinality(Since(touch[x])) < MaxKeys}
  BY DEF Recent
<1> HIDE DEF R
<1>2. R \subseteq S
  BY <1>1
<1>3. IsFiniteSet(R)
  BY <1>2, FS_Subset
<1>4. CASE R = {}
  <2>1. Cardinality(R) = 0
    BY <1>4, FS_EmptySet
  <2> QED
    BY <1>2, <1>3, <2>1, ShardAssumption DEF R
<1>5. CASE R # {}
  <2> DEFINE T == {touch[x] : x \in R}
  <2>1. T \in SUBSET Nat /\ T # {}
    BY <1>2, <1>5
  <2>2. PICK k \in T : \A y \in T : k <= y
    BY <2>1, LeastNumber
  <2>3. PICK x \in R : touch[x] = k
    BY <2>2
  <2>4. \A y \in R : touch[y] >= touch[x]
    BY <2>2, <2>3, <1>2
  <2>5. R \in SUBSET Since(touch[x])
    BY <2>4, <1>2
  <2>6. IsFiniteSet(Since(touch[x]))
    <3>1. Since(touch[x]) \in SUBSET S
      OBVIOUS
    <3> QED
      BY <3>1, FS_Subset
  <2>7. Cardinality(Since(touch[x])) < MaxKeys
    BY <1>1, <2>3
  <2> HIDE DEF Since, T
  <2>8. /\ Cardinality(R) <= Cardinality(Since(touch[x]))
        /\ Cardinality(R) \in Nat /\ Cardinality(Since(touch[x])) \in Nat
    <3>1. Cardinality(R) \in Nat /\ Cardinality(Since(touch[x])) \in Nat
      BY <1>3, <2>6, FS_CardinalityType
    <3>2. Cardinality(R) <= Cardinality(Since(touch[x]))
      BY <2>5, <2>6, FS_Subset
    <3> QED
      BY <3>1, <3>2
  <2> QED
    BY <1>2, <1>3, <2>7, <2>8, ShardAssumption DEF R
<1> QED
  BY <1>2, <1>3, <1>4, <1>5 DEF R

\* Keys with different touches: no more of them since i than touches since i.
LEMMA TouchedSince ==
    ASSUME NEW S, IsFiniteSet(S), NEW n \in Nat, NEW touch \in [S -> 0..n],
           NEW i \in 1..n,
           \A x, y \in S : touch[x] # 0 /\ touch[x] = touch[y] => x = y
    PROVE  /\ IsFiniteSet({y \in S : touch[y] >= i})
           /\ Cardinality({y \in S : touch[y] >= i}) <= n - i + 1
<1> DEFINE Y == {y \in S : touch[y] >= i}
           f == [y \in Y |-> touch[y]]
<1>1. Y \in SUBSET S
  OBVIOUS
<1>2. IsFiniteSet(Y) /\ Cardinality(Y) \in Nat
  BY <1>1, FS_Subset, FS_CardinalityType
<1>3. IsFiniteSet(i..n) /\ Cardinality(i..n) = n - i + 1
  BY FS_Interval
<1>4. f \in [Y -> i..n]
  OBVIOUS
<1>5. \A x, y \in Y : f[x] = f[y] => x = y
  OBVIOUS
<1> HIDE DEF Y, f
<1>6. ~(Cardinality(i..n) < Cardinality(Y))
  BY <1>2, <1>3, <1>4, <1>5, FS_PigeonHole
<1> QED
  BY <1>2, <1>3, <1>6 DEF Y

-----------------------------------------------------------------------------
(***************************************************************************)
(* Types and bounds.                                                       *)
(***************************************************************************)

FeedOK ==
    /\ stream \in Seq(Records) /\ Len(stream) <= MaxEvents
    /\ pos \in 1..(Len(stream) + 1) /\ holds \in [Workers -> 0..Len(stream)]
    /\ rewinds \in 0..MaxRewinds /\ sheds \in 0..MaxSheds

ShardOK ==
    /\ counted \in Seq(Events) /\ \A n \in DOMAIN counted : counted[n] <= Len(stream)
    /\ window \in [Subjects -> SUBSET (1..Len(counted))]
    /\ Cardinality({s \in Subjects : window[s] # {}}) <= MaxKeys
    /\ dedup \in [Events -> 0..Len(counted)]
    /\ Cardinality({r \in Events : dedup[r] # 0}) <= MaxKeys
    /\ sinceSweep \in 0..(SweepEvery - 1)
    /\ result \in [event : 0..Len(stream), count : 0..Len(counted)]

AlertsOK ==
    /\ last \in [Subjects -> Times \cup {0}] /\ Cardinality(Fired) <= MaxKeys
    /\ alerts \in Seq(Alerts) /\ resets \in Nat

\* They are what TypeOK says.
LEMMA TypeParts == TypeOK <=> FeedOK /\ ShardOK /\ AlertsOK
BY Zenon DEF TypeOK, FeedOK, ShardOK, AlertsOK

\* The constants are numbers.
LEMMA Constants ==
    /\ MaxEvents \in Nat /\ MaxTime \in Nat /\ MaxRewinds \in Nat /\ MaxSheds \in Nat
    /\ Rewind \in Nat /\ DedupUS \in Nat
    /\ WindowUS \in Nat \ {0} /\ MaxKeys \in Nat \ {0} /\ SweepEvery \in Nat \ {0}
    /\ Events \subseteq Nat \ {0} /\ Times \subseteq Nat \ {0}
BY ShardAssumption DEF Events, Times

\* Subjects and events are finitely many.
LEMMA FinitelyMany == IsFiniteSet(Subjects) /\ IsFiniteSet(Events)
BY ShardAssumption, Constants, FS_Interval DEF Events

\* The initial states.
LEMMA TypeInit == Init => TypeOK
<1> SUFFICES ASSUME Init PROVE TypeOK
  OBVIOUS
<1>1. FeedOK
  BY Constants DEF Init, FeedOK
<1>2. ShardOK
  <2>1. /\ {s \in Subjects : window[s] # {}} = {} /\ {r \in Events : dedup[r] # 0} = {}
    BY DEF Init
  <2>2. Cardinality({s \in Subjects : window[s] # {}}) <= MaxKeys
    BY <2>1, FS_EmptySet, Constants
  <2>3. Cardinality({r \in Events : dedup[r] # 0}) <= MaxKeys
    BY <2>1, FS_EmptySet, Constants
  <2> QED
    BY <2>2, <2>3, Constants DEF Init, ShardOK
<1>3. AlertsOK
  <2>1. Fired = {}
    BY DEF Init, Fired
  <2> QED
    BY <2>1, FS_EmptySet, Constants DEF Init, AlertsOK
<1> QED
  BY <1>1, <1>2, <1>3, TypeParts

\* The next event is one of the stream, or is appended to it in order.
LEMMA NextEventStep ==
    ASSUME TypeOK, pos <= MaxEvents, NextEvent
    PROVE  /\ stream' \in Seq(Records) /\ Len(stream') \in Nat /\ Len(stream) \in Nat
           /\ Len(stream) <= Len(stream') /\ Len(stream') <= MaxEvents
           /\ pos \in 1..Len(stream')
           /\ \A i \in 1..Len(stream) : stream'[i] = stream[i]
           /\ \/ stream' = stream
              \/ /\ Len(stream') = Len(stream) + 1
                 /\ stream # <<>> => stream[Len(stream)].at <= stream'[Len(stream')].at
<1>1. /\ stream \in Seq(Records) /\ Len(stream) \in Nat /\ Len(stream) <= MaxEvents
      /\ pos \in 1..(Len(stream) + 1)
  BY DEF TypeOK
<1>2. CASE pos <= Len(stream)
  BY <1>1, <1>2 DEF NextEvent
<1>3. CASE ~(pos <= Len(stream))
  <2>1. PICK s \in Subjects, t \in Earliest..MaxTime :
          \E r \in {pos} \cup {stream[i].record : i \in {j \in DOMAIN stream :
                                                           stream[j].subject = s}} :
            stream' = Append(stream, [subject |-> s, record |-> r, at |-> t])
    BY <1>3 DEF NextEvent
  <2>2. PICK r \in {pos} \cup {stream[i].record : i \in {j \in DOMAIN stream :
                                                           stream[j].subject = s}} :
            stream' = Append(stream, [subject |-> s, record |-> r, at |-> t])
    BY <2>1
  <2>3. pos \in Events
    BY <1>1, Constants DEF Events
  <2>4. \A i \in DOMAIN stream : stream[i] \in Records
    BY <1>1
  <2>5. r \in Events
    BY <2>2, <2>3, <2>4 DEF Records
  <2>6. t \in Times /\ (stream # <<>> => stream[Len(stream)].at <= t)
    <3>1. CASE stream = <<>>
      BY <3>1, Constants DEF Earliest, Times
    <3>2. CASE stream # <<>>
      <4>1. Last(stream) = stream[Len(stream)] /\ Len(stream) \in DOMAIN stream
        BY <1>1, <3>2 DEF Last
      <4>2. Last(stream).at \in Times
        BY <2>4, <4>1 DEF Records
      <4>3. Earliest = Last(stream).at
        BY <3>2 DEF Earliest
      <4> QED
        BY <4>1, <4>2, <4>3, Constants DEF Times
    <3> QED
      BY <3>1, <3>2
  <2>7. [subject |-> s, record |-> r, at |-> t] \in Records
    BY <2>5, <2>6 DEF Records
  <2>8. /\ stream' \in Seq(Records) /\ Len(stream') = Len(stream) + 1
        /\ \A i \in 1..Len(stream) : stream'[i] = stream[i]
        /\ stream'[Len(stream')].at = t
    BY <1>1, <2>2, <2>7
  <2> QED
    BY <1>1, <1>3, <2>6, <2>8, Constants
<1> QED
  BY <1>2, <1>3

\* A reconnect goes back to an event of the stream.
LEMMA ReconnectStep ==
    ASSUME TypeOK, Reconnect
    PROVE  pos' \in 1..Len(stream)
<1> DEFINE I == {i \in 1..Len(stream) : stream[i].at + Rewind >= Last(stream).at}
<1>1. pos' = IF I # {} THEN CHOOSE x \in I : \A y \in I : x <= y ELSE 0
  BY DEF Reconnect, SelectInSeq, Min
<1>2. stream \in Seq(Records) /\ Len(stream) \in Nat /\ stream # <<>>
  BY DEF TypeOK, Reconnect
<1>3. Len(stream) \in I
  <2>1. Len(stream) \in 1..Len(stream) /\ Last(stream) = stream[Len(stream)]
    BY <1>2 DEF Last
  <2>2. stream[Len(stream)].at \in Nat
    <3>1. stream[Len(stream)] \in Records
      BY <1>2, <2>1
    <3>2. stream[Len(stream)].at \in Times
      BY <3>1 DEF Records
    <3> QED
      BY <3>2, Constants
  <2> QED
    BY <2>1, <2>2, Constants
<1>4. I \subseteq 1..Len(stream) /\ I \in SUBSET Nat /\ I # {}
  BY <1>2, <1>3
<1> HIDE DEF I
<1>5. \E x \in I : \A y \in I : x <= y
  BY <1>4, LeastNumber
<1> QED
  BY <1>1, <1>4, <1>5

\* What the feed does leaves the shard alone.
LEMMA FeedType ==
    ASSUME TypeOK, FeedOK', Len(stream) <= Len(stream'), UNCHANGED <<shardVars, history>>
    PROVE  TypeOK'
<1>1. UNCHANGED <<window, dedup, last, sinceSweep, counted, result, alerts, resets>>
  BY DEF shardVars, history
<1>2. Len(stream) \in Nat /\ Len(stream') \in Nat /\ ShardOK /\ AlertsOK
  BY TypeParts DEF FeedOK, TypeOK
<1>3. ShardOK'
  <2>1. \A n \in DOMAIN counted : counted[n] <= Len(stream')
    <3>1. \A n \in DOMAIN counted : counted[n] \in Events /\ counted[n] <= Len(stream)
      BY <1>2 DEF ShardOK
    <3>2. \A n \in DOMAIN counted : counted[n] \in Nat /\ counted[n] <= Len(stream)
      BY <3>1, Constants
    <3> QED
      BY <1>2, <3>2
  <2>2. result \in [event : 0..Len(stream'), count : 0..Len(counted)]
    BY <1>2 DEF ShardOK
  <2> QED
    BY <1>1, <1>2, <2>1, <2>2 DEF ShardOK
<1>4. AlertsOK'
  BY <1>1, <1>2 DEF AlertsOK, Fired
<1>5. (FeedOK /\ ShardOK /\ AlertsOK)'
  BY <1>3, <1>4
<1> QED
  BY <1>5, TypeParts, PTL

\* The event of a worker is one of the stream.
LEMMA HeldEvent ==
    ASSUME TypeOK, NEW w \in Workers, holds[w] # 0
    PROVE  /\ holds[w] \in 1..Len(stream) /\ Len(stream) \in Nat
           /\ Event(w).subject \in Subjects /\ Event(w).record \in Events
           /\ Event(w).at \in Times
<1>1. holds[w] \in 1..Len(stream) /\ Len(stream) \in Nat
  BY DEF TypeOK
<1>2. stream[holds[w]] \in Records
  BY <1>1 DEF TypeOK
<1> QED
  BY <1>1, <1>2 DEF Event, Records

\* What a counted occurrence adds to the log, and what it leaves as it was.
LEMMA LogStep ==
    ASSUME TypeOK, NEW w \in Workers, CountEvent(w)
    PROVE  /\ stream' = stream /\ Len(counted) \in Nat /\ Occurrence = Len(counted) + 1
           /\ Len(counted') = Len(counted) + 1
           /\ DOMAIN counted = 1..Len(counted) /\ DOMAIN counted' = 1..(Len(counted) + 1)
           /\ counted' \in Seq(Events) /\ counted'[Occurrence] = holds[w]
           /\ \A n \in 1..Len(counted) : counted'[n] = counted[n] /\ counted[n] \in 1..Len(stream)
<1>1. /\ stream' = stream /\ holds[w] # 0 /\ counted' = Append(counted, holds[w])
  BY DEF CountEvent, Release
<1>2. counted \in Seq(Events) /\ (\A n \in DOMAIN counted : counted[n] <= Len(stream))
  BY DEF TypeOK
<1>3. Len(counted) \in Nat /\ DOMAIN counted = 1..Len(counted)
  BY <1>2
<1>4. holds[w] \in Events /\ Len(stream) \in Nat
  BY <1>1, HeldEvent, Constants DEF TypeOK, Events
<1>5. \A n \in 1..Len(counted) : counted[n] \in Events /\ counted[n] <= Len(stream)
  BY <1>2, <1>3
<1>6. \A n \in 1..Len(counted) : counted[n] \in 1..Len(stream)
  BY <1>4, <1>5, Constants DEF Events
<1>7. /\ counted' \in Seq(Events) /\ Len(counted') = Len(counted) + 1
      /\ counted'[Len(counted) + 1] = holds[w]
      /\ \A n \in 1..Len(counted) : counted'[n] = counted[n]
  BY <1>1, <1>2, <1>3, <1>4
<1>8. DOMAIN counted' = 1..(Len(counted) + 1)
  BY <1>7
<1> QED
  BY <1>1, <1>3, <1>6, <1>7, <1>8 DEF Occurrence

\* The times, subjects and records of the occurrences, afterwards.
LEMMA OccurrenceStep ==
    ASSUME TypeOK, NEW w \in Workers, CountEvent(w)
    PROVE  /\ \A n \in 1..Len(counted) :
                /\ At(n)' = At(n) /\ At(n) \in Times
                /\ Subject(n)' = Subject(n) /\ Subject(n) \in Subjects
                /\ stream'[counted'[n]] = stream[counted[n]] /\ stream[counted[n]].record \in Events
           /\ stream'[counted'[Occurrence]] = Event(w)
<1>1. \A i \in 1..Len(stream) : stream[i] \in Records
  BY DEF TypeOK
<1>2. \A n \in 1..Len(counted) : stream[counted[n]] \in Records
  BY <1>1, LogStep
<1>3. \A n \in 1..Len(counted) : /\ stream[counted[n]].at \in Times
                               /\ stream[counted[n]].subject \in Subjects
                               /\ stream[counted[n]].record \in Events
  BY <1>2 DEF Records
<1>4. \A n \in 1..Len(counted) : stream'[counted'[n]] = stream[counted[n]]
  BY LogStep
<1>5. stream'[counted'[Occurrence]] = stream[holds[w]]
  BY LogStep
<1> QED
  BY <1>3, <1>4, <1>5 DEF At, Subject, Event

\* The window keeps to the types and to the cap.
LEMMA WindowStep ==
    ASSUME TypeOK, NEW w \in Workers, CountEvent(w)
    PROVE  /\ WindowWith(w) \in [Subjects -> SUBSET (1..Len(counted'))]
           /\ window' \in [Subjects -> SUBSET (1..Len(counted'))]
           /\ Cardinality({x \in Subjects : window'[x] # {}}) <= MaxKeys
<1> DEFINE s == Event(w).subject
           now == Event(w).at
           kept == IF window[s] # {} THEN Subjects ELSE Recent(Touched)
           Used(win) == {x \in Subjects : win[x] # {}}
<1>1. s \in Subjects
  BY HeldEvent DEF CountEvent, Release
<1>2. window \in [Subjects -> SUBSET (1..Len(counted))]
  BY DEF TypeOK
<1>3. WindowWith(w) = [x \in Subjects |-> IF x = s THEN Trim(window[s], now) \cup {Occurrence}
                                          ELSE IF x \in kept THEN window[x] ELSE {}]
  BY DEF WindowWith, Added
<1>4. \A x \in Subjects : \/ window'[x] = WindowWith(w)[x]
                         \/ window'[x] = {}
  <2>1. CASE SweepDue
    <3>1. window' = Swept(WindowWith(w), s, now)
      BY <2>1 DEF CountEvent
    <3> QED
      BY <3>1 DEF Swept
  <2>2. CASE ~SweepDue
    BY <2>2 DEF CountEvent
  <2> QED
    BY <2>1, <2>2
<1>6. Occurrence \in 1..Len(counted') /\ 1..Len(counted) \subseteq 1..Len(counted')
  BY LogStep
<1>7. Trim(window[s], now) \subseteq window[s]
  BY DEF Trim
<1> HIDE DEF s, now, kept
<1>8. \A x \in Subjects : WindowWith(w)[x] \in SUBSET (1..Len(counted'))
  BY <1>1, <1>2, <1>3, <1>6, <1>7
<1>9. window' \in [Subjects -> SUBSET (1..Len(counted'))]
  <2>1. \A x \in Subjects : window'[x] \in SUBSET (1..Len(counted'))
    BY <1>4, <1>8
  <2>2. window' = [x \in Subjects |-> window'[x]]
    <3>1. CASE SweepDue
      BY <3>1 DEF CountEvent, Swept
    <3>2. CASE ~SweepDue
      BY <3>2, <1>3 DEF CountEvent
    <3> QED
      BY <3>1, <3>2
  <2> QED
    BY <2>1, <2>2
<1>10. WindowWith(w) \in [Subjects -> SUBSET (1..Len(counted'))]
  BY <1>3, <1>8
<1>11. Used(window') \in SUBSET Used(WindowWith(w)) /\ IsFiniteSet(Used(WindowWith(w)))
  <2>1. Used(WindowWith(w)) \in SUBSET Subjects
    OBVIOUS
  <2> QED
    BY <1>4, <2>1, FinitelyMany, FS_Subset
<1>12. Cardinality(Used(WindowWith(w))) <= MaxKeys
  <2>1. CASE window[s] # {}
    <3>1. Used(WindowWith(w)) \in SUBSET Used(window)
      BY <1>1, <1>3, <2>1 DEF kept
    <3>2. Used(window) \in SUBSET Subjects
      OBVIOUS
    <3>3. IsFiniteSet(Used(window)) /\ Cardinality(Used(window)) <= MaxKeys
      BY <3>2, FinitelyMany, FS_Subset DEF TypeOK
    <3> HIDE DEF Used
    <3>4. Cardinality(Used(WindowWith(w))) <= Cardinality(Used(window))
      BY <3>1, <3>3, FS_Subset
    <3>5. Cardinality(Used(WindowWith(w))) \in Nat /\ Cardinality(Used(window)) \in Nat
      BY <1>11, <3>3, FS_CardinalityType
    <3> QED
      BY <3>3, <3>4, <3>5, Constants
  <2>2. CASE window[s] = {}
    <3> DEFINE R == Recent(Touched)
    <3>1. Touched \in [Subjects -> Nat]
      <4>1. ASSUME NEW x \in Subjects, window[x] # {} PROVE Max(window[x]) \in Nat
        <5>1. window[x] \in SUBSET (1..Len(counted)) /\ Len(counted) \in Nat
          BY <1>2, LogStep
        <5>2. Max(window[x]) \in window[x]
          BY <4>1, <5>1, LastStamp
        <5> QED
          BY <5>1, <5>2
      <4> QED
        BY <4>1 DEF Touched
    <3>2. R \subseteq Subjects /\ IsFiniteSet(R) /\ Cardinality(R) < MaxKeys
      BY <3>1, FinitelyMany, RecentFew
    <3>3. Used(WindowWith(w)) \in SUBSET (R \cup {s})
      BY <1>3, <2>2 DEF kept
    <3> HIDE DEF R, Used
    <3>4. /\ IsFiniteSet(R \cup {s}) /\ Cardinality(R) \in Nat
          /\ Cardinality(R \cup {s}) <= Cardinality(R) + 1 /\ Cardinality(R \cup {s}) \in Nat
      <4>1. /\ IsFiniteSet(R \cup {s})
            /\ Cardinality(R \cup {s}) = IF s \in R THEN Cardinality(R) ELSE Cardinality(R) + 1
        BY <3>2, FS_AddElement
      <4>2. Cardinality(R) \in Nat
        BY <3>2, FS_CardinalityType
      <4> QED
        BY <4>1, <4>2
    <3>5. /\ Cardinality(Used(WindowWith(w))) <= Cardinality(R \cup {s})
          /\ Cardinality(Used(WindowWith(w))) \in Nat
      BY <1>11, <3>3, <3>4, FS_Subset, FS_CardinalityType
    <3> QED
      BY <3>2, <3>4, <3>5, Constants
  <2> QED
    BY <2>1, <2>2
<1> HIDE DEF Used
<1>13. Cardinality(Used(window')) <= MaxKeys
  <2>1. Cardinality(Used(window')) <= Cardinality(Used(WindowWith(w)))
    BY <1>11, FS_Subset
  <2>2. Cardinality(Used(window')) \in Nat /\ Cardinality(Used(WindowWith(w))) \in Nat
    BY <1>11, FS_Subset, FS_CardinalityType
  <2> QED
    BY <1>12, <2>1, <2>2, Constants
<1> QED
  BY <1>9, <1>10, <1>13 DEF Used

\* The records an insertion leaves.
Kept(r) == Recent([dedup EXCEPT ![r] = 0])

\* So does the dedup set.
LEMMA DedupStep ==
    ASSUME TypeOK, NEW w \in Workers, CountEvent(w)
    PROVE  /\ dedup' \in [Events -> 0..Len(counted')]
           /\ Cardinality({r \in Events : dedup'[r] # 0}) <= MaxKeys
<1> DEFINE r == Event(w).record
           Used == {x \in Events : dedup'[x] # 0}
<1>1. r \in Events /\ dedup \in [Events -> 0..Len(counted)] /\ Len(counted) \in Nat
  BY HeldEvent, LogStep DEF CountEvent, Release, TypeOK
<1>2. dedup' = [x \in Events |-> IF x = r THEN Occurrence
                                 ELSE IF x \in Kept(r) THEN dedup[x] ELSE 0]
  BY DEF CountEvent, Remembered, Kept
<1> HIDE DEF r
<1>3. dedup' \in [Events -> 0..Len(counted')]
  BY <1>1, <1>2, LogStep
<1>4. [dedup EXCEPT ![r] = 0] \in [Events -> Nat]
  BY <1>1
<1>5. IsFiniteSet(Kept(r)) /\ Cardinality(Kept(r)) < MaxKeys /\ Cardinality(Kept(r)) \in Nat
  BY <1>4, FinitelyMany, RecentFew, FS_CardinalityType DEF Kept
<1>6. /\ IsFiniteSet(Kept(r) \cup {r})
      /\ Cardinality(Kept(r) \cup {r}) \in Nat /\ Cardinality(Kept(r) \cup {r}) <= MaxKeys
  <2>1. /\ IsFiniteSet(Kept(r) \cup {r})
        /\ Cardinality(Kept(r) \cup {r}) =
             IF r \in Kept(r) THEN Cardinality(Kept(r)) ELSE Cardinality(Kept(r)) + 1
    BY <1>5, FS_AddElement
  <2> QED
    BY <1>5, <2>1, Constants
<1>7. Used \in SUBSET (Kept(r) \cup {r})
  BY <1>2
<1> HIDE DEF Used
<1>8. Cardinality(Used) <= Cardinality(Kept(r) \cup {r}) /\ Cardinality(Used) \in Nat
  BY <1>6, <1>7, FS_Subset, FS_CardinalityType
<1>9. Cardinality(Used) <= MaxKeys
  BY <1>6, <1>8, Constants
<1> QED
  BY <1>3, <1>9 DEF Used

\* Counting an event preserves the types and bounds of the shard.
LEMMA CountType ==
    ASSUME TypeOK, NEW w \in Workers, CountEvent(w)
    PROVE  FeedOK' /\ ShardOK'
<1>1. FeedOK'
  <2>1. UNCHANGED <<stream, pos, rewinds, sheds>> /\ holds' = [holds EXCEPT ![w] = 0]
    BY DEF CountEvent, Release
  <2>2. Len(stream) \in Nat
    BY DEF TypeOK
  <2> QED
    BY <2>1, <2>2 DEF TypeOK, FeedOK
<1>2. counted' \in Seq(Events) /\ \A n \in DOMAIN counted' : counted'[n] <= Len(stream')
  <2>1. holds[w] \in 1..Len(stream) /\ Len(stream) \in Nat
    BY HeldEvent DEF CountEvent, Release
  <2>2. ASSUME NEW n \in 1..(Len(counted) + 1) PROVE counted'[n] \in 1..Len(stream)
    BY <2>1, LogStep
  <2> QED
    BY <2>1, <2>2, LogStep
<1>3. sinceSweep' \in 0..(SweepEvery - 1)
  <2>1. sinceSweep \in 0..(SweepEvery - 1) /\ SweepEvery \in Nat \ {0}
    BY Constants DEF TypeOK
  <2> QED
    BY <2>1 DEF CountEvent, SweepDue
<1>4. result' \in [event : 0..Len(stream'), count : 0..Len(counted')]
  <2>1. holds[w] \in 0..Len(stream) /\ Event(w).subject \in Subjects
    BY HeldEvent DEF CountEvent, Release
  <2>2. WindowWith(w)[Event(w).subject] \in SUBSET (1..Len(counted'))
    BY <2>1, WindowStep
  <2>3. Len(counted') \in Nat
    BY LogStep
  <2>4. IsFiniteSet(1..Len(counted')) /\ Cardinality(1..Len(counted')) = Len(counted')
    BY <2>3, FS_Interval
  <2>5. CountOf(w) <= Len(counted') /\ CountOf(w) \in Nat
    BY <2>2, <2>4, FS_Subset, FS_CardinalityType DEF CountOf
  <2>6. result' = [event |-> holds[w], count |-> CountOf(w)]
    BY DEF CountEvent
  <2> HIDE DEF CountOf
  <2> QED
    BY <2>1, <2>3, <2>5, <2>6, LogStep
<1> QED
  BY <1>1, <1>2, <1>3, <1>4, WindowStep, DedupStep DEF ShardOK

\* Neither does the throttle outgrow the cap.
LEMMA AllowType ==
    ASSUME TypeOK, NEW s \in Subjects, NEW now \in Times, Allow(s, now)
    PROVE  AlertsOK'
<1>1. /\ last \in [Subjects -> Times \cup {0}] /\ Cardinality(Fired) <= MaxKeys
      /\ alerts \in Seq(Alerts) /\ resets \in Nat
  BY DEF TypeOK
<1>2. resets' \in Nat
  BY <1>1 DEF Allow
<1>3. alerts' \in Seq(Alerts)
  <2>1. [subject |-> s, at |-> now, epoch |-> resets'] \in Alerts
    BY <1>2 DEF Alerts
  <2> QED
    BY <1>1, <2>1 DEF Allow
<1>4. last' = [x \in Subjects |-> IF x = s THEN now ELSE IF TableFull THEN 0 ELSE last[x]]
  BY DEF Allow
<1>5. last' \in [Subjects -> Times \cup {0}]
  BY <1>1, <1>4
<1>6. IsFiniteSet(Fired) /\ Cardinality(Fired) \in Nat
  <2>1. Fired \in SUBSET Subjects
    BY DEF Fired
  <2> QED
    BY <2>1, FinitelyMany, FS_Subset, FS_CardinalityType
<1>7. CASE TableFull
  <2>1. Fired' \in SUBSET {s}
    BY <1>4, <1>7 DEF Fired
  <2>2. IsFiniteSet({s}) /\ Cardinality({s}) = 1
    BY FS_Singleton
  <2>3. Cardinality(Fired') <= 1 /\ Cardinality(Fired') \in Nat
    BY <2>1, <2>2, FS_Subset, FS_CardinalityType
  <2> QED
    BY <1>2, <1>3, <1>5, <2>3, Constants DEF AlertsOK
<1>8. CASE ~TableFull
  <2>1. Fired' \in SUBSET (Fired \cup {s})
    BY <1>4, <1>8 DEF Fired
  <2>2. /\ IsFiniteSet(Fired \cup {s})
        /\ Cardinality(Fired \cup {s}) =
             IF s \in Fired THEN Cardinality(Fired) ELSE Cardinality(Fired) + 1
    BY <1>6, FS_AddElement
  <2>3. Cardinality(Fired') <= Cardinality(Fired \cup {s}) /\ Cardinality(Fired') \in Nat
    BY <2>1, <2>2, FS_Subset, FS_CardinalityType
  <2>4. Cardinality(Fired) < MaxKeys
    BY <1>6, <1>8, Constants DEF TableFull
  <2>5. Cardinality(Fired') <= MaxKeys
    BY <1>6, <2>2, <2>3, <2>4, Constants
  <2> QED
    BY <1>2, <1>3, <1>5, <2>5 DEF AlertsOK
<1> QED
  BY <1>7, <1>8

\* Every step preserves the types and bounds.
LEMMA TypeStep == ASSUME TypeOK, [Next]_vars PROVE TypeOK'
<1>1. FeedOK /\ ShardOK /\ AlertsOK
  BY TypeParts
<1>2. Len(stream) \in Nat
  BY <1>1 DEF FeedOK
<1>3. ASSUME NEW w \in Workers, Take(w) PROVE TypeOK'
  <2>1. FeedOK'
    BY <1>1, <1>2, <1>3, NextEventStep DEF FeedOK, Take
  <2> QED
    BY <1>3, <2>1, NextEventStep, FeedType DEF Take
<1>4. CASE Shed
  <2>1. FeedOK'
    BY <1>1, <1>2, <1>4, NextEventStep, Constants DEF FeedOK, Shed
  <2> QED
    BY <1>4, <2>1, NextEventStep, FeedType DEF Shed
<1>5. CASE Reconnect
  <2>1. FeedOK'
    BY <1>1, <1>2, <1>5, ReconnectStep, Constants DEF FeedOK, Reconnect
  <2> QED
    BY <1>2, <1>5, <2>1, FeedType DEF Reconnect
<1>6. ASSUME NEW w \in Workers, ObserveDuplicate(w) PROVE TypeOK'
  <2>1. FeedOK'
    BY <1>1, <1>2, <1>6 DEF FeedOK, ObserveDuplicate, Release
  <2> QED
    BY <1>2, <1>6, <2>1, FeedType DEF ObserveDuplicate, Release
<1>7. ASSUME NEW w \in Workers, ObserveQuiet(w) PROVE TypeOK'
  <2>1. FeedOK' /\ ShardOK'
    BY <1>7, CountType DEF ObserveQuiet
  <2>2. AlertsOK'
    BY <1>1, <1>7 DEF ObserveQuiet, AlertsOK, Fired
  <2> QED
    BY <2>1, <2>2, TypeParts, PTL
<1>8. ASSUME NEW w \in Workers, ObserveAlert(w) PROVE TypeOK'
  <2>1. FeedOK' /\ ShardOK'
    BY <1>8, CountType DEF ObserveAlert
  <2>2. AlertsOK'
    BY <1>8, HeldEvent, AllowType DEF ObserveAlert, CountEvent, Release
  <2> QED
    BY <2>1, <2>2, TypeParts, PTL
<1>9. CASE UNCHANGED vars
  BY <1>9 DEF TypeOK, Fired, vars, feedVars, shardVars, history
<1> QED
  BY <1>3, <1>4, <1>5, <1>6, <1>7, <1>8, <1>9 DEF Next, Observe

\* I7: whatever arrives, in whatever order, no structure holds more than MaxKeys keys, and
\* the worker's index and the stamps stay within the stream and the log (evictIfFull, Seen,
\* Allow).
THEOREM ShardTypeCorrect == Spec => []TypeOK
BY TypeInit, TypeStep, PTL DEF Spec

-----------------------------------------------------------------------------
(***************************************************************************)
(* The throttle.                                                           *)
(***************************************************************************)

\* The alerts since the table was last dropped are no later than what the table says.
ThrottleInv ==
    \A i \in DOMAIN alerts :
        /\ alerts[i].epoch <= resets
        /\ alerts[i].epoch = resets =>
             /\ last[alerts[i].subject] # 0
             /\ alerts[i].at <= last[alerts[i].subject]

\* An alert that passes the throttle is an interval after the earlier ones.
LEMMA AllowStep ==
    ASSUME TypeOK, ThrottleInv, AlertSpacing, NEW s \in Subjects, NEW now \in Times,
           ~Throttled(s, now), Allow(s, now)
    PROVE  ThrottleInv' /\ AlertSpacing'
<1>1. (\A t \in Times : t \in Nat /\ t # 0) /\ WindowUS \in Nat
  BY Constants
<1>2. /\ last \in [Subjects -> Times \cup {0}] /\ resets \in Nat
      /\ alerts \in Seq(Alerts)
  BY DEF TypeOK
<1>3. resets' \in Nat /\ ((resets' = resets /\ ~TableFull) \/ (resets' = resets + 1 /\ TableFull))
  <2>1. resets' = IF TableFull THEN resets + 1 ELSE resets
    BY DEF Allow
  <2>2. CASE TableFull
    BY <1>2, <2>1, <2>2
  <2>3. CASE ~TableFull
    BY <1>2, <2>1, <2>3
  <2> QED
    BY <2>2, <2>3
<1>4. /\ last' \in [Subjects -> Times \cup {0}] /\ last'[s] = now
      /\ ~TableFull => \A x \in Subjects \ {s} : last'[x] = last[x]
  BY <1>2 DEF Allow
<1> DEFINE n == Len(alerts)
           alert == [subject |-> s, at |-> now, epoch |-> resets']
<1>5. /\ n \in Nat /\ DOMAIN alerts = 1..n /\ DOMAIN alerts' = 1..(n + 1)
      /\ alerts' = Append(alerts, alert)
      /\ \A i \in 1..n : alerts'[i] = alerts[i]
      /\ alerts'[n + 1] = alert
  BY <1>2 DEF Allow
<1>6. alert.subject = s /\ alert.at = now /\ alert.epoch = resets'
  OBVIOUS
<1> HIDE DEF n, alert
<1>7. \A i \in 1..n : /\ alerts[i].subject \in Subjects /\ alerts[i].at \in Nat \ {0}
                      /\ alerts[i].epoch \in Nat /\ alerts[i].epoch <= resets
  <2>1. \A i \in DOMAIN alerts : alerts[i] \in Alerts
    BY <1>2
  <2>2. \A i \in 1..n : alerts[i].epoch <= resets
    BY <1>5 DEF ThrottleInv
  <2> QED
    BY <1>1, <1>5, <2>1, <2>2 DEF Alerts
<1>8. ASSUME NEW i \in 1..n, alerts[i].epoch = resets'
      PROVE  /\ ~TableFull /\ alerts[i].epoch = resets
             /\ last[alerts[i].subject] # 0 /\ alerts[i].at <= last[alerts[i].subject]
             /\ alerts[i].subject = s => alerts[i].at + WindowUS <= now
  <2>1. ~TableFull /\ alerts[i].epoch = resets
    BY <1>2, <1>3, <1>7, <1>8
  <2>2. last[alerts[i].subject] # 0 /\ alerts[i].at <= last[alerts[i].subject]
    <3>1. i \in DOMAIN alerts
      BY <1>5
    <3> QED
      BY <2>1, <3>1, Zenon DEF ThrottleInv
  <2>3. last[s] \in Nat /\ now \in Nat
    <3>1. last[s] \in Times \cup {0}
      BY <1>2
    <3> QED
      BY <1>1, <3>1
  <2>4. alerts[i].subject = s => last[s] + WindowUS <= now
    BY <1>1, <2>2, <2>3 DEF Throttled
  <2> QED
    BY <1>1, <1>7, <2>1, <2>2, <2>3, <2>4
<1>9. ThrottleInv'
  <2>1. ASSUME NEW i \in 1..(n + 1)
        PROVE  /\ alerts'[i].epoch <= resets'
               /\ alerts'[i].epoch = resets' =>
                    /\ last'[alerts'[i].subject] # 0
                    /\ alerts'[i].at <= last'[alerts'[i].subject]
    <3>1. CASE i = n + 1
      BY <1>1, <1>3, <1>4, <1>5, <1>6, <3>1
    <3>2. CASE i # n + 1
      <4>1. i \in 1..n /\ alerts'[i] = alerts[i]
        BY <1>5, <3>2
      <4>2. alerts[i].epoch <= resets'
        BY <1>2, <1>3, <1>7, <4>1
      <4>3. ASSUME alerts[i].epoch = resets'
            PROVE  /\ last'[alerts[i].subject] # 0
                   /\ alerts[i].at <= last'[alerts[i].subject]
        <5>1. /\ ~TableFull /\ last[alerts[i].subject] # 0
              /\ alerts[i].at <= last[alerts[i].subject]
              /\ alerts[i].subject = s => alerts[i].at + WindowUS <= now
          BY <1>8, <4>1, <4>3
        <5>2. CASE alerts[i].subject = s
          BY <1>1, <1>4, <1>7, <4>1, <5>1, <5>2
        <5>3. CASE alerts[i].subject # s
          BY <1>4, <1>7, <4>1, <5>1, <5>3
        <5> QED
          BY <5>2, <5>3
      <4> QED
        BY <4>1, <4>2, <4>3
    <3> QED
      BY <3>1, <3>2
  <2> QED
    BY <1>5, <2>1 DEF ThrottleInv
<1>10. AlertSpacing'
  <2>1. ASSUME NEW i \in 1..(n + 1), NEW j \in 1..(n + 1), i < j,
               alerts'[i].subject = alerts'[j].subject, alerts'[i].epoch = alerts'[j].epoch
        PROVE  alerts'[j].at >= alerts'[i].at + WindowUS
    <3>1. i \in 1..n /\ alerts'[i] = alerts[i]
      BY <1>5, <2>1
    <3>2. CASE j = n + 1
      <4>1. alerts[i].subject = s /\ alerts[i].epoch = resets' /\ alerts'[j].at = now
        BY <1>5, <1>6, <2>1, <3>1, <3>2
      <4> QED
        BY <1>1, <1>7, <1>8, <3>1, <4>1
    <3>3. CASE j # n + 1
      <4>1. j \in 1..n /\ alerts'[j] = alerts[j]
        BY <1>5, <3>3
      <4> QED
        BY <1>5, <2>1, <3>1, <4>1 DEF AlertSpacing
    <3> QED
      BY <3>2, <3>3
  <2> QED
    BY <1>5, <2>1 DEF AlertSpacing
<1> QED
  BY <1>9, <1>10

\* Every step preserves the spacing.
LEMMA SpacingStep ==
    ASSUME TypeOK, ThrottleInv, AlertSpacing, [Next]_vars
    PROVE  ThrottleInv' /\ AlertSpacing'
<1>1. UNCHANGED <<last, alerts, resets>> => ThrottleInv' /\ AlertSpacing'
  BY DEF ThrottleInv, AlertSpacing
<1>2. CASE \E w \in Workers : Take(w) \/ ObserveDuplicate(w) \/ ObserveQuiet(w)
  BY <1>1, <1>2 DEF Take, ObserveDuplicate, ObserveQuiet, shardVars, history
<1>3. CASE Shed \/ Reconnect \/ UNCHANGED vars
  BY <1>1, <1>3 DEF Shed, Reconnect, vars, shardVars, history
<1>4. ASSUME NEW w \in Workers, ObserveAlert(w)
      PROVE  ThrottleInv' /\ AlertSpacing'
  <2>1. holds[w] # 0 /\ MayAlert(w) /\ Allow(Event(w).subject, Event(w).at)
    BY <1>4 DEF ObserveAlert, CountEvent, Release
  <2>2. ~Throttled(Event(w).subject, Event(w).at)
    BY <2>1 DEF MayAlert
  <2> QED
    BY <2>1, <2>2, HeldEvent, AllowStep
<1> QED
  BY <1>2, <1>3, <1>4 DEF Next, Observe

\* Two alerts of a subject are an interval of event time apart unless the table was
\* dropped between them (Throttle.Allow), for every stream, pool, shed and replay.
THEOREM ShardAlertSpacing == Spec => []AlertSpacing
<1>1. Init => ThrottleInv /\ AlertSpacing
  BY DEF Init, ThrottleInv, AlertSpacing
<1> QED
  BY <1>1, SpacingStep, ShardTypeCorrect, PTL DEF Spec

-----------------------------------------------------------------------------
(***************************************************************************)
(* The steps, seen from the log: one that counts an event appends to it,   *)
(* any other leaves it and the state of the shard as they were.            *)
(***************************************************************************)

\* The other steps.
Elsewhere ==
    \/ \E w \in Workers : Take(w) \/ ObserveDuplicate(w)
    \/ Shed \/ Reconnect \/ UNCHANGED vars

\* Whatever counts no event is one of them.
LEMMA CountOrElsewhere ==
    ASSUME [Next]_vars PROVE Elsewhere \/ \E w \in Workers : CountEvent(w)
<1>1. \A w \in Workers : ObserveQuiet(w) \/ ObserveAlert(w) => CountEvent(w)
  BY DEF ObserveQuiet, ObserveAlert
<1> QED
  BY <1>1, Zenon DEF Next, Observe, Elsewhere

\* They leave window, dedup set and log alone, and the events that were counted.
LEMMA ElsewhereStep ==
    ASSUME TypeOK, Elsewhere
    PROVE  /\ UNCHANGED <<window, dedup, counted, result>>
           /\ Len(stream) \in Nat /\ Len(stream') \in Nat /\ Len(stream) <= Len(stream')
           /\ \A i \in 1..Len(stream) : stream'[i] = stream[i]
           /\ Len(counted) \in Nat /\ DOMAIN counted = 1..Len(counted)
           /\ \A n \in 1..Len(counted) : /\ counted[n] \in 1..Len(stream)
                                         /\ stream'[counted[n]] = stream[counted[n]]
           /\ \/ stream' = stream
              \/ /\ Len(stream') = Len(stream) + 1
                 /\ stream # <<>> => stream[Len(stream)].at <= stream'[Len(stream')].at
<1>1. UNCHANGED <<window, dedup, counted, result>>
  BY DEF Elsewhere, Take, ObserveDuplicate, Shed, Reconnect, vars, shardVars, history
<1>2. Len(stream) \in Nat /\ Len(counted) \in Nat /\ DOMAIN counted = 1..Len(counted)
  BY DEF TypeOK
<1>3. \A n \in 1..Len(counted) : counted[n] \in 1..Len(stream)
  <2>1. \A n \in 1..Len(counted) : counted[n] \in Events /\ counted[n] <= Len(stream)
    BY <1>2 DEF TypeOK
  <2> QED
    BY <1>2, <2>1, Constants DEF Events
<1>4. CASE stream' = stream
  BY <1>1, <1>2, <1>3, <1>4
<1>5. CASE stream' # stream
  <2>1. pos <= MaxEvents /\ NextEvent
    BY <1>5 DEF Elsewhere, Take, Shed, ObserveDuplicate, Release, Reconnect, vars, feedVars
  <2> QED
    BY <1>1, <1>2, <1>3, <1>5, <2>1, NextEventStep
<1> QED
  BY <1>4, <1>5

-----------------------------------------------------------------------------
(***************************************************************************)
(* Idempotency.                                                            *)
(***************************************************************************)

\* The occurrence that recorded a record was about it.
OwnRecord == \A r \in Events : dedup[r] # 0 => stream[counted[dedup[r]]].record = r

\* What one of the last MaxKeys occurrences recorded is still there, or was recorded anew
\* at no earlier a time.
Remembers ==
    \A i \in DOMAIN counted :
        Len(counted) - i < MaxKeys =>
            LET r == stream[counted[i]].record
            IN  dedup[r] >= i /\ At(dedup[r]) >= At(i)

\* What the shard is not asked about it keeps.
LEMMA DuplicateElsewhere ==
    ASSUME TypeOK, OwnRecord, Remembers, DuplicateBeyondCap, Elsewhere
    PROVE  OwnRecord' /\ Remembers' /\ DuplicateBeyondCap'
<1>1. dedup \in [Events -> 0..Len(counted)]
  BY DEF TypeOK
<1>2. DuplicateBeyondCap'
  BY ElsewhereStep DEF DuplicateBeyondCap
<1>3. OwnRecord'
  BY <1>1, ElsewhereStep DEF OwnRecord
<1>4. Remembers'
  <2> SUFFICES ASSUME NEW i \in 1..Len(counted), Len(counted) - i < MaxKeys
               PROVE  /\ dedup[stream[counted[i]].record] >= i
                      /\ stream'[counted[dedup[stream[counted[i]].record]]].at >= stream[counted[i]].at
    BY ElsewhereStep DEF Remembers, At
  <2> DEFINE r == stream[counted[i]].record
  <2>1. dedup[r] >= i /\ stream[counted[dedup[r]]].at >= stream[counted[i]].at
    BY ElsewhereStep DEF Remembers, At
  <2>2. r \in Events
    <3>1. stream[counted[i]] \in Records
      BY ElsewhereStep DEF TypeOK
    <3> QED
      BY <3>1 DEF Records
  <2>3. dedup[r] \in 1..Len(counted)
    BY <1>1, <2>1, <2>2, ElsewhereStep
  <2> QED
    BY <2>1, <2>3, ElsewhereStep
<1> QED
  BY <1>2, <1>3, <1>4

\* A record that one of the occurrences since i left, and fewer than the cap after it,
\* survives the next insertion.
LEMMA RecordKept ==
    ASSUME TypeOK, OwnRecord, NEW r \in Events, NEW q \in Events, q # r,
           NEW i \in 1..Len(counted), dedup[q] >= i, Len(counted) + 1 - i < MaxKeys
    PROVE  q \in Kept(r)
<1> DEFINE touch == [dedup EXCEPT ![r] = 0]
           n == Len(counted)
<1>1. dedup \in [Events -> 0..n] /\ n \in Nat
  BY DEF TypeOK
<1>2. touch \in [Events -> 0..n] /\ touch[r] = 0 /\ \A x \in Events \ {r} : touch[x] = dedup[x]
  BY <1>1
<1> HIDE DEF touch
<1>3. \A x, y \in Events : touch[x] # 0 /\ touch[x] = touch[y] => x = y
  BY <1>2 DEF OwnRecord
<1>4. /\ IsFiniteSet({y \in Events : touch[y] >= i})
      /\ Cardinality({y \in Events : touch[y] >= i}) <= n - i + 1
  BY <1>1, <1>2, <1>3, FinitelyMany, TouchedSince
<1>5. {y \in Events : touch[y] >= touch[q]} \in SUBSET {y \in Events : touch[y] >= i}
  BY <1>1, <1>2
<1>6. /\ Cardinality({y \in Events : touch[y] >= touch[q]})
           <= Cardinality({y \in Events : touch[y] >= i})
      /\ Cardinality({y \in Events : touch[y] >= touch[q]}) \in Nat
      /\ Cardinality({y \in Events : touch[y] >= i}) \in Nat
  BY <1>4, <1>5, FS_Subset, FS_CardinalityType
<1>7. Cardinality({y \in Events : touch[y] >= touch[q]}) < MaxKeys
  BY <1>1, <1>4, <1>6, Constants
<1>8. touch[q] # 0
  BY <1>1, <1>2
<1>9. q \in Recent(touch)
  BY <1>2, <1>7, <1>8 DEF Recent
<1> QED
  BY <1>9 DEF Kept, touch

\* Counting an event.
LEMMA DuplicateCount ==
    ASSUME TypeOK, OwnRecord, Remembers, DuplicateBeyondCap, NEW w \in Workers, CountEvent(w)
    PROVE  OwnRecord' /\ Remembers' /\ DuplicateBeyondCap'
<1> DEFINE e == Event(w)
           n == Len(counted)
<1>1. /\ n \in Nat /\ Occurrence = n + 1 /\ Len(counted') = n + 1
      /\ DOMAIN counted = 1..n /\ DOMAIN counted' = 1..(n + 1)
      /\ counted'[n + 1] = holds[w] /\ \A i \in 1..n : counted'[i] = counted[i]
      /\ stream' = stream
  BY LogStep
<1>2. /\ \A i \in 1..n : /\ stream'[counted'[i]] = stream[counted[i]]
                        /\ stream[counted[i]].record \in Events /\ At(i) \in Nat
      /\ stream'[counted'[n + 1]] = e
  BY <1>1, OccurrenceStep, Constants
<1>3. e = stream[holds[w]] /\ e.record \in Events /\ e.at \in Nat
  BY HeldEvent, Constants DEF CountEvent, Release, Event
<1>4. dedup \in [Events -> 0..n]
  BY DEF TypeOK
<1>5. dedup' = [x \in Events |-> IF x = e.record THEN n + 1
                                 ELSE IF x \in Kept(e.record) THEN dedup[x] ELSE 0]
  BY <1>1 DEF CountEvent, Remembered, Kept
<1>6. dedup[e.record] # 0 => At(dedup[e.record]) + DedupUS < e.at
  BY DEF CountEvent, Seen, Stale
<1> HIDE DEF e, n
<1>7. ASSUME NEW i \in 1..n, n - i < MaxKeys
      PROVE  LET r == stream[counted[i]].record
             IN  /\ r \in Events /\ dedup[r] \in i..n /\ At(dedup[r]) >= At(i)
                 /\ dedup[r] \in 1..n
  BY <1>1, <1>2, <1>4, <1>7 DEF Remembers, n
<1>8. OwnRecord'
  BY <1>1, <1>2, <1>4, <1>5 DEF OwnRecord
<1>9. Remembers'
  <2> SUFFICES ASSUME NEW i \in 1..(n + 1), n + 1 - i < MaxKeys
               PROVE  LET r == stream'[counted'[i]].record
                      IN  /\ dedup'[r] >= i
                          /\ stream'[counted'[dedup'[r]]].at >= stream'[counted'[i]].at
    BY <1>1 DEF Remembers, At
  <2>1. CASE i = n + 1
    <3>1. stream'[counted'[i]] = e /\ dedup'[e.record] = i
      BY <1>2, <1>3, <1>5, <2>1
    <3> QED
      BY <1>1, <1>3, <2>1, <3>1
  <2>2. CASE i # n + 1
    <3> DEFINE r == stream[counted[i]].record
    <3>1. i \in 1..n /\ n - i < MaxKeys
      BY <1>1, <2>2, Constants
    <3>2. r \in Events /\ dedup[r] \in i..n /\ At(dedup[r]) >= At(i) /\ dedup[r] \in 1..n
      BY <1>7, <3>1
    <3>3. stream'[counted'[i]].record = r /\ stream'[counted'[i]].at = At(i)
      BY <1>2, <3>1 DEF At
    <3> HIDE DEF r
    <3>4. CASE r = e.record
      <4>1. At(i) <= e.at
        BY <1>2, <1>3, <1>6, <3>1, <3>2, <3>4, Constants
      <4> QED
        BY <1>1, <1>2, <1>3, <1>5, <3>1, <3>3, <3>4, <4>1
    <3>5. CASE r # e.record
      <4>1. r \in Kept(e.record)
        BY <1>1, <1>3, <3>1, <3>2, <3>5, RecordKept DEF n
      <4>2. dedup'[r] = dedup[r]
        BY <1>5, <3>2, <3>5, <4>1
      <4> QED
        BY <1>2, <3>2, <3>3, <4>2 DEF At
    <3> QED
      BY <3>4, <3>5
  <2> QED
    BY <2>1, <2>2
<1>10. DuplicateBeyondCap'
  <2> SUFFICES ASSUME NEW i \in 1..(n + 1), NEW j \in 1..(n + 1), i < j, counted'[i] = counted'[j]
               PROVE  j - i > MaxKeys
    BY <1>1 DEF DuplicateBeyondCap
  <2>1. CASE j = n + 1
    <3>1. i \in 1..n /\ counted[i] = holds[w]
      BY <1>1, <2>1
    <3>2. stream[counted[i]].record = e.record /\ At(i) = e.at
      BY <1>3, <3>1 DEF At
    <3>3. ASSUME n - i < MaxKeys PROVE FALSE
      <4>1. dedup[e.record] \in 1..n /\ At(dedup[e.record]) >= e.at
        BY <1>7, <3>1, <3>2, <3>3
      <4> QED
        BY <1>2, <1>3, <1>6, <4>1, Constants
    <3> QED
      BY <1>1, <2>1, <3>1, <3>3, Constants
  <2>2. CASE j # n + 1
    BY <1>1, <2>2 DEF DuplicateBeyondCap
  <2> QED
    BY <2>1, <2>2
<1> QED
  BY <1>8, <1>9, <1>10

\* D7: an event counted twice was counted with at least MaxKeys others in between,
\* through every replay, shed and overtaking (Dedup.Seen).
THEOREM ShardDuplicateBeyondCap == Spec => []DuplicateBeyondCap
<1> DEFINE Inv == OwnRecord /\ Remembers /\ DuplicateBeyondCap
<1>1. Init => Inv
  BY DEF Init, OwnRecord, Remembers, DuplicateBeyondCap
<1>2. TypeOK /\ Inv /\ [Next]_vars => Inv'
  BY CountOrElsewhere, DuplicateElsewhere, DuplicateCount
<1>3. Inv => DuplicateBeyondCap
  OBVIOUS
<1> QED
  BY <1>1, <1>2, <1>3, ShardTypeCorrect, PTL DEF Spec

-----------------------------------------------------------------------------
(***************************************************************************)
(* The counts.                                                             *)
(***************************************************************************)

\* Event times do not decrease along the stream.
StreamOrdered == \A i, j \in DOMAIN stream : i <= j => stream[i].at <= stream[j].at

\* The stamps of a subject are occurrences of it.
OwnStamps == \A x \in Subjects : \A n \in window[x] : Subject(n) = x

\* The subjects that occurred since n.
Since(n) == {Subject(m) : m \in n..Len(counted)}

\* In order, an occurrence that the window lost is stale, or more subjects than fit have
\* occurred since.
Missing ==
    CountedInOrder =>
        \A n \in DOMAIN counted :
            n \notin window[Subject(n)] =>
                \/ Stale(At(n), At(Len(counted)), WindowUS)
                \/ Cardinality(Since(n)) > MaxKeys

\* What is appended to the stream is no earlier than what it holds.
LEMMA OrderedStep ==
    ASSUME TypeOK, StreamOrdered, [Next]_vars PROVE StreamOrdered'
<1>1. CASE Elsewhere
  <2>1. CASE stream' = stream
    BY <2>1 DEF StreamOrdered
  <2>2. CASE stream' # stream
    <3> DEFINE n == Len(stream)
    <3>1. /\ n \in Nat /\ Len(stream') = n + 1
          /\ \A i \in 1..n : stream'[i] = stream[i]
          /\ stream # <<>> => stream[n].at <= stream'[n + 1].at
      BY <1>1, <2>2, ElsewhereStep
    <3>2. stream \in Seq(Records) /\ stream' \in Seq(Records)
      <4>1. pos <= MaxEvents /\ NextEvent
        BY <1>1, <2>2 DEF Elsewhere, Take, Shed, ObserveDuplicate, Release, Reconnect, vars, feedVars
      <4> QED
        BY <4>1, NextEventStep DEF TypeOK
    <3>3. DOMAIN stream = 1..n /\ DOMAIN stream' = 1..(n + 1)
      BY <3>1, <3>2
    <3>4. \A i \in 1..(n + 1) : stream'[i].at \in Nat
      <4>1. \A i \in 1..(n + 1) : stream'[i] \in Records
        BY <3>2, <3>3
      <4> QED
        BY <4>1, Constants DEF Records
    <3> HIDE DEF n
    <3>5. ASSUME NEW i \in 1..(n + 1), NEW j \in 1..(n + 1), i <= j
          PROVE  stream'[i].at <= stream'[j].at
      <4>1. CASE j <= n
        BY <3>1, <3>3, <3>5, <4>1 DEF StreamOrdered
      <4>2. CASE i <= n /\ j = n + 1
        <5>1. i \in 1..n /\ n \in 1..n /\ stream # <<>>
          BY <3>1, <3>3, <4>2
        <5>2. stream[i].at <= stream[n].at /\ stream[n].at <= stream'[j].at
          BY <3>1, <3>3, <4>2, <5>1 DEF StreamOrdered
        <5>3. stream'[i] = stream[i] /\ stream'[n] = stream[n]
          BY <3>1, <5>1
        <5> QED
          BY <3>1, <3>4, <5>1, <5>2, <5>3
      <4>3. CASE i = n + 1
        BY <3>1, <3>4, <3>5, <4>3
      <4> QED
        BY <3>1, <3>5, <4>1, <4>2, <4>3
    <3> QED
      BY <3>3, <3>5 DEF StreamOrdered
  <2> QED
    BY <2>1, <2>2
<1>2. CASE \E w \in Workers : CountEvent(w)
  BY <1>2 DEF StreamOrdered, CountEvent, Release
<1> QED
  BY <1>1, <1>2, CountOrElsewhere

\* Nothing is lost while nothing is counted.
LEMMA CountElsewhere ==
    ASSUME TypeOK, OwnStamps, Missing, CountIsExact, Elsewhere
    PROVE  OwnStamps' /\ Missing' /\ CountIsExact'
<1> DEFINE n == Len(counted)
<1>1. /\ UNCHANGED <<window, counted, result>> /\ n \in Nat /\ DOMAIN counted = 1..n
      /\ \A i \in 1..Len(stream) : stream'[i] = stream[i]
      /\ \A m \in 1..n : stream'[counted'[m]] = stream[counted[m]]
  BY ElsewhereStep
<1>2. \A m \in 1..n : At(m)' = At(m) /\ Subject(m)' = Subject(m)
  BY <1>1 DEF At, Subject
<1>3. OwnStamps'
  <2>1. \A x \in Subjects : window[x] \subseteq 1..n
    BY DEF TypeOK
  <2> QED
    BY <1>1, <1>2, <2>1 DEF OwnStamps
<1>4. Missing'
  <2> SUFFICES ASSUME CountedInOrder, NEW m \in 1..n, m \notin window[Subject(m)]
               PROVE  \/ Stale(At(m), At(n)', WindowUS)
                      \/ Cardinality(Since(m)') > MaxKeys
    BY <1>1, <1>2 DEF Missing, CountedInOrder
  <2>1. n \in 1..n /\ At(n)' = At(n)
    BY <1>1, <1>2
  <2>2. Since(m)' = Since(m)
    <3>1. m..n \subseteq 1..n
      BY <1>1
    <3> QED
      BY <1>1, <1>2, <3>1 DEF Since
  <2> QED
    BY <1>1, <2>1, <2>2 DEF Missing
<1>5. CountIsExact'
  <2> SUFFICES ASSUME result.event # 0, CountedInOrder, Cardinality(LiveSubjects') <= MaxKeys
               PROVE  result.count =
                        Cardinality({m \in Live' : Subject(m)' = stream'[result.event].subject})
    BY <1>1 DEF CountIsExact, CountedInOrder
  <2>1. stream'[result.event] = stream[result.event]
    BY <1>1 DEF TypeOK
  <2>2. Live' = Live
    BY <1>1, <1>2, <2>1 DEF Live
  <2>3. Live \subseteq 1..n
    BY <1>1 DEF Live
  <2>4. LiveSubjects' = LiveSubjects
    BY <1>2, <2>2, <2>3 DEF LiveSubjects
  <2>5. {m \in Live' : Subject(m)' = stream'[result.event].subject}
          = {m \in Live : Subject(m) = stream[result.event].subject}
    BY <1>2, <2>1, <2>2, <2>3
  <2> QED
    BY <2>4, <2>5 DEF CountIsExact
<1> QED
  BY <1>3, <1>4, <1>5

\* In order, the times of the log ascend up to the event that is counted.
LEMMA TimesAscend ==
    ASSUME TypeOK, StreamOrdered, NEW w \in Workers, CountEvent(w), CountedInOrder'
    PROVE  /\ CountedInOrder
           /\ \A i, j \in 1..Len(counted) : i <= j => At(i) <= At(j)
           /\ \A i \in 1..Len(counted) : At(i) <= Event(w).at
<1> DEFINE n == Len(counted)
<1>1. /\ n \in Nat /\ DOMAIN counted = 1..n /\ DOMAIN counted' = 1..(n + 1)
      /\ counted'[n + 1] = holds[w]
      /\ \A i \in 1..n : counted'[i] = counted[i] /\ counted[i] \in 1..Len(stream)
  BY LogStep
<1>2. CountedInOrder
  BY <1>1 DEF CountedInOrder
<1>3. DOMAIN stream = 1..Len(stream) /\ Len(stream) \in Nat /\ holds[w] \in 1..Len(stream)
  BY HeldEvent DEF CountEvent, Release, TypeOK
<1>4. ASSUME NEW i \in 1..n, NEW j \in 1..n, i <= j PROVE At(i) <= At(j)
  <2>1. counted[i] <= counted[j]
    <3>1. CASE i = j
      BY <1>1, <1>3, <3>1
    <3>2. CASE i < j
      BY <1>1, <1>2, <1>3, <3>2 DEF CountedInOrder
    <3> QED
      BY <1>1, <1>4, <3>1, <3>2
  <2> QED
    BY <1>1, <1>3, <2>1 DEF StreamOrdered, At
<1>5. ASSUME NEW i \in 1..n PROVE At(i) <= Event(w).at
  <2>1. counted[i] <= holds[w]
    <3>1. i < n + 1 /\ i \in DOMAIN counted' /\ n + 1 \in DOMAIN counted'
      BY <1>1
    <3>2. counted'[i] < counted'[n + 1]
      BY <3>1 DEF CountedInOrder
    <3> QED
      BY <1>1, <1>3, <3>2
  <2> QED
    BY <1>1, <1>3, <2>1 DEF StreamOrdered, At, Event
<1> QED
  BY <1>2, <1>4, <1>5

\* What the window holds after the event was added, and before a sweep.
LEMMA WindowAfter ==
    ASSUME TypeOK, OwnStamps, NEW w \in Workers, CountEvent(w)
    PROVE  /\ WindowWith(w)[Event(w).subject] =
                Trim(window[Event(w).subject], Event(w).at) \cup {Occurrence}
           /\ \A x \in Subjects \ {Event(w).subject} :
                \/ WindowWith(w)[x] = window[x]
                \/ /\ WindowWith(w)[x] = {} /\ x \notin Recent(Touched)
                   /\ window[Event(w).subject] = {}
           /\ OwnStamps'
<1> DEFINE s == Event(w).subject
           n == Len(counted)
           kept == IF window[s] # {} THEN Subjects ELSE Recent(Touched)
<1>1. s \in Subjects
  BY HeldEvent DEF CountEvent, Release
<1>2. WindowWith(w) = [x \in Subjects |-> IF x = s THEN Trim(window[s], Event(w).at) \cup {Occurrence}
                                          ELSE IF x \in kept THEN window[x] ELSE {}]
  BY DEF WindowWith, Added
<1> HIDE DEF s
<1>3. WindowWith(w)[s] = Trim(window[s], Event(w).at) \cup {Occurrence}
  BY <1>1, <1>2
<1>4. \A x \in Subjects \ {s} : \/ WindowWith(w)[x] = window[x]
                               \/ /\ WindowWith(w)[x] = {} /\ x \notin Recent(Touched)
                                  /\ window[s] = {}
  BY <1>2
<1>5. \A x \in Subjects : window'[x] \subseteq WindowWith(w)[x]
  <2>1. CASE SweepDue
    <3>1. window' = Swept(WindowWith(w), s, Event(w).at)
      BY <2>1 DEF CountEvent, s
    <3> QED
      BY <3>1 DEF Swept
  <2>2. CASE ~SweepDue
    BY <2>2 DEF CountEvent
  <2> QED
    BY <2>1, <2>2
<1>6. Trim(window[s], Event(w).at) \subseteq window[s]
  BY DEF Trim
<1>7. /\ n \in Nat /\ Occurrence = n + 1 /\ \A x \in Subjects : window[x] \subseteq 1..n
      /\ \A m \in 1..n : Subject(m)' = Subject(m)
      /\ stream'[counted'[n + 1]].subject = s
  BY LogStep, OccurrenceStep DEF TypeOK, s
<1> HIDE DEF n
<1>8. ASSUME NEW x \in Subjects, NEW m \in window'[x]
      PROVE  stream'[counted'[m]].subject = x
  <2>1. m \in window[x] \/ (x = s /\ m = n + 1)
    BY <1>3, <1>4, <1>5, <1>6, <1>7
  <2>2. CASE m \in window[x]
    <3>1. Subject(m) = x /\ Subject(m)' = Subject(m)
      BY <1>7, <2>2 DEF OwnStamps
    <3> QED
      BY <3>1 DEF Subject
  <2>3. CASE x = s /\ m = n + 1
    BY <1>7, <2>3
  <2> QED
    BY <2>1, <2>2, <2>3
<1>9. OwnStamps'
  BY <1>8 DEF OwnStamps, Subject
<1> QED
  BY <1>3, <1>4, <1>9 DEF s

\* A subject that the cap evicts is the one of MaxKeys that was touched first.
LEMMA EvictedBehindCap ==
    ASSUME TypeOK, OwnStamps, NEW s \in Subjects, window[s] = {},
           NEW x \in Subjects, x \notin Recent(Touched), NEW i \in window[x]
    PROVE  \E Y \in SUBSET Since(i) : s \notin Y /\ Cardinality(Y) >= MaxKeys
<1> DEFINE n == Len(counted)
           Y == {y \in Subjects : Touched[y] >= Touched[x]}
<1>1. n \in Nat /\ \A y \in Subjects : window[y] \in SUBSET (1..n)
  BY DEF TypeOK
<1>2. \A y \in Subjects : window[y] # {} =>
        /\ Touched[y] \in window[y] /\ \A m \in window[y] : m <= Touched[y]
  BY <1>1, LastStamp DEF Touched
<1>3. DOMAIN Touched = Subjects /\ \A y \in Subjects : window[y] = {} => Touched[y] = 0
  BY DEF Touched
<1>4. Touched[x] \in 1..n /\ i <= Touched[x] /\ i \in 1..n
  BY <1>1, <1>2
<1>5. IsFiniteSet(Y) /\ Cardinality(Y) \in Nat
  <2>1. Y \in SUBSET Subjects
    OBVIOUS
  <2> QED
    BY <2>1, FinitelyMany, FS_Subset, FS_CardinalityType
<1>6. ~(Cardinality(Y) < MaxKeys)
  BY <1>3, <1>4 DEF Recent
<1>7. Y \subseteq Since(i)
  <2> SUFFICES ASSUME NEW y \in Subjects, Touched[y] >= Touched[x] PROVE y \in Since(i)
    OBVIOUS
  <2>1. window[y] # {}
    BY <1>3, <1>4
  <2>2. Touched[y] \in window[y] /\ Touched[y] \in i..n
    BY <1>1, <1>2, <1>4, <2>1
  <2>3. Subject(Touched[y]) = y
    BY <2>2 DEF OwnStamps
  <2> QED
    BY <2>2, <2>3 DEF Since
<1>8. s \notin Y
  BY <1>3, <1>4
<1> QED
  BY <1>5, <1>6, <1>7, <1>8, Constants

\* Finitely many subjects have occurred, and no fewer after one more occurrence.
LEMMA SinceGrows ==
    ASSUME TypeOK, NEW w \in Workers, CountEvent(w), NEW i \in 1..Len(counted)
    PROVE  /\ IsFiniteSet(Since(i)) /\ IsFiniteSet(Since(i)')
           /\ Cardinality(Since(i)) \in Nat /\ Cardinality(Since(i)') \in Nat
           /\ Since(i) \cup {Event(w).subject} \subseteq Since(i)'
<1> DEFINE n == Len(counted)
<1>1. /\ n \in Nat /\ Len(counted') = n + 1
      /\ \A m \in 1..n : Subject(m)' = Subject(m) /\ Subject(m) \in Subjects
      /\ stream'[counted'[n + 1]].subject = Event(w).subject /\ Event(w).subject \in Subjects
  BY LogStep, OccurrenceStep, HeldEvent DEF CountEvent, Release
<1> HIDE DEF n
<1>2. /\ Since(i) = {Subject(m) : m \in i..n}
      /\ Since(i)' = {stream'[counted'[m]].subject : m \in i..(n + 1)}
  BY <1>1 DEF Since, Subject, n
<1>3. \A m \in 1..n : stream'[counted'[m]].subject = Subject(m)
  BY <1>1 DEF Subject
<1>4. i \in 1..n
  BY DEF n
<1>5. Since(i) \in SUBSET Subjects /\ Since(i)' \in SUBSET Subjects
  <2>1. \A m \in i..(n + 1) : m \in 1..n \/ m = n + 1
    BY <1>1, <1>4
  <2> QED
    BY <1>1, <1>2, <1>3, <1>4, <2>1
<1>6. Since(i) \cup {Event(w).subject} \subseteq Since(i)'
  <2>1. \A m \in i..n : m \in 1..n /\ m \in i..(n + 1)
    BY <1>1, <1>4
  <2>2. n + 1 \in i..(n + 1)
    BY <1>1, <1>4
  <2> QED
    BY <1>1, <1>2, <1>3, <2>1, <2>2
<1> QED
  BY <1>5, <1>6, FinitelyMany, FS_Subset, FS_CardinalityType

\* An occurrence the window lost, before or by this step.
LEMMA MissingCount ==
    ASSUME TypeOK, StreamOrdered, OwnStamps, Missing, NEW w \in Workers, CountEvent(w)
    PROVE  Missing'
<1> DEFINE s == Event(w).subject
           now == Event(w).at
           n == Len(counted)
<1> SUFFICES ASSUME CountedInOrder', NEW i \in 1..(n + 1),
                    i \notin window'[stream'[counted'[i]].subject]
             PROVE  \/ Stale(At(i)', now, WindowUS)
                    \/ Cardinality(Since(i)') > MaxKeys
  <2>1. stream'[counted'[n + 1]].at = now /\ Len(counted') = n + 1 /\ DOMAIN counted' = 1..(n + 1)
    BY LogStep, OccurrenceStep
  <2> QED
    BY <2>1 DEF Missing, At, Subject
<1>1. /\ s \in Subjects /\ now \in Nat /\ n \in Nat /\ Occurrence = n + 1
      /\ \A m \in 1..n : /\ At(m)' = At(m) /\ At(m) \in Nat
                        /\ stream'[counted'[m]].subject = Subject(m) /\ Subject(m) \in Subjects
      /\ stream'[counted'[n + 1]].subject = s
  BY LogStep, OccurrenceStep, HeldEvent, Constants DEF CountEvent, Release, Subject
<1>2. /\ CountedInOrder
      /\ \A j, k \in 1..n : j <= k => At(j) <= At(k)
      /\ \A j \in 1..n : At(j) <= now
  BY TimesAscend
<1>3. \A x \in Subjects :
        \/ window'[x] = WindowWith(w)[x]
        \/ /\ x # s /\ WindowWith(w)[x] # {}
           /\ Stale(At(Max(WindowWith(w)[x])), now, WindowUS)
  <2>1. CASE SweepDue
    <3>1. window' = Swept(WindowWith(w), s, now)
      BY <2>1 DEF CountEvent
    <3> QED
      BY <3>1 DEF Swept
  <2>2. CASE ~SweepDue
    BY <2>2 DEF CountEvent
  <2> QED
    BY <2>1, <2>2
<1>4. /\ WindowWith(w)[s] = Trim(window[s], now) \cup {n + 1}
      /\ \A x \in Subjects \ {s} :
           \/ WindowWith(w)[x] = window[x]
           \/ WindowWith(w)[x] = {} /\ x \notin Recent(Touched) /\ window[s] = {}
  BY <1>1, WindowAfter
<1> HIDE DEF s, now
<1>5. i \in 1..n
  <2>1. ASSUME i = n + 1 PROVE FALSE
    BY <1>1, <1>3, <1>4, <2>1
  <2> QED
    BY <1>1, <2>1
<1> DEFINE x == Subject(i)
<1>6. x \in Subjects /\ i \notin window'[x] /\ At(i)' = At(i)
  BY <1>1, <1>5
<1>7. \A y \in Subjects : window[y] \in SUBSET (1..n)
  BY DEF TypeOK
<1>8. CASE i \notin window[x]
  <2>1. \/ Stale(At(i), At(n), WindowUS)
        \/ Cardinality(Since(i)) > MaxKeys
    BY <1>1, <1>2, <1>5, <1>8 DEF Missing, TypeOK
  <2>2. CASE Stale(At(i), At(n), WindowUS)
    <3>1. n \in 1..n
      BY <1>1, <1>5
    <3> QED
      BY <1>1, <1>2, <1>5, <1>6, <2>2, <3>1, Constants DEF Stale
  <2>3. CASE Cardinality(Since(i)) > MaxKeys
    <3>1. Since(i) \in SUBSET Since(i)' /\ IsFiniteSet(Since(i)')
          /\ Cardinality(Since(i)) \in Nat /\ Cardinality(Since(i)') \in Nat
      BY <1>5, SinceGrows
    <3>2. Cardinality(Since(i)) <= Cardinality(Since(i)')
      BY <3>1, FS_Subset
    <3> QED
      BY <2>3, <3>1, <3>2, Constants
  <2> QED
    BY <2>1, <2>2, <2>3
<1>9. CASE i \in window[x] /\ i \notin WindowWith(w)[x]
  <2>1. CASE x = s
    <3>1. i \notin Trim(window[s], now)
      BY <1>4, <1>9, <2>1
    <3>2. Stale(At(i), now, WindowUS)
      BY <1>1, <1>5, <1>9, <2>1, <3>1 DEF Trim
    <3> QED
      BY <1>6, <3>2
  <2>2. CASE x # s
    <3>1. x \notin Recent(Touched) /\ window[s] = {}
      BY <1>4, <1>6, <1>9, <2>2
    <3>2. PICK Y \in SUBSET Since(i) : s \notin Y /\ Cardinality(Y) >= MaxKeys
      BY <1>1, <1>6, <1>9, <3>1, EvictedBehindCap
    <3>3. /\ IsFiniteSet(Since(i)) /\ IsFiniteSet(Since(i)') /\ Cardinality(Since(i)') \in Nat
          /\ Since(i) \cup {s} \subseteq Since(i)'
      BY <1>5, SinceGrows DEF s
    <3>4. IsFiniteSet(Y) /\ Cardinality(Y) \in Nat
      BY <3>2, <3>3, FS_Subset, FS_CardinalityType
    <3>5. Cardinality(Y \cup {s}) = Cardinality(Y) + 1 /\ IsFiniteSet(Y \cup {s})
      BY <3>2, <3>4, FS_AddElement
    <3>6. Y \cup {s} \in SUBSET Since(i)'
      BY <3>2, <3>3
    <3>7. Cardinality(Y \cup {s}) <= Cardinality(Since(i)')
      BY <3>3, <3>6, FS_Subset
    <3> QED
      BY <3>2, <3>3, <3>4, <3>5, <3>7, Constants
  <2> QED
    BY <2>1, <2>2
<1>10. CASE i \in WindowWith(w)[x]
  <2>1. x # s /\ Stale(At(Max(WindowWith(w)[x])), now, WindowUS)
    BY <1>3, <1>6, <1>10
  <2>2. WindowWith(w)[x] = window[x]
    BY <1>4, <1>6, <1>10, <2>1
  <2>3. Max(window[x]) \in window[x] /\ i <= Max(window[x])
    BY <1>1, <1>6, <1>7, <1>10, <2>2, LastStamp
  <2>4. Max(window[x]) \in 1..n
    BY <1>6, <1>7, <2>3
  <2>5. At(i) <= At(Max(window[x]))
    BY <1>2, <1>5, <2>3, <2>4
  <2>6. Stale(At(i), now, WindowUS)
    BY <1>1, <1>5, <2>1, <2>2, <2>4, <2>5, Constants DEF Stale
  <2> QED
    BY <1>6, <2>6
<1> QED
  BY <1>8, <1>9, <1>10

\* The count is that of the window.
LEMMA ExactCount ==
    ASSUME TypeOK, StreamOrdered, OwnStamps, Missing, NEW w \in Workers, CountEvent(w)
    PROVE  CountIsExact'
<1> DEFINE s == Event(w).subject
           now == Event(w).at
           n == Len(counted)
<1>1. /\ s \in Subjects /\ now \in Nat /\ n \in Nat /\ Occurrence = n + 1
      /\ \A m \in 1..n : /\ stream'[counted'[m]].at = At(m) /\ At(m) \in Nat
                        /\ stream'[counted'[m]].subject = Subject(m)
      /\ stream'[counted'[n + 1]] = Event(w) /\ DOMAIN counted' = 1..(n + 1)
  BY LogStep, OccurrenceStep, HeldEvent, Constants DEF CountEvent, Release, Subject, At
<1>2. result' = [event |-> holds[w], count |-> CountOf(w)] /\ stream'[result'.event] = Event(w)
  BY LogStep DEF CountEvent, Event
<1>3. Live' = {m \in 1..(n + 1) : ~Stale(stream'[counted'[m]].at, now, WindowUS)}
  BY <1>1, <1>2 DEF Live, At
<1>4. LiveSubjects' = {stream'[counted'[m]].subject : m \in Live'}
  BY DEF LiveSubjects, Subject
<1> DEFINE Own == {m \in Live' : stream'[counted'[m]].subject = s}
<1>5. {m \in Live' : Subject(m)' = stream'[result'.event].subject} = Own
  BY <1>2 DEF Subject
<1> SUFFICES ASSUME CountedInOrder', Cardinality(LiveSubjects') <= MaxKeys
             PROVE  WindowWith(w)[s] = Own
  BY <1>2, <1>5 DEF CountIsExact, CountOf
<1>6. /\ CountedInOrder
      /\ \A j, k \in 1..n : j <= k => At(j) <= At(k)
      /\ \A j \in 1..n : At(j) <= now
  BY TimesAscend
<1>7. WindowWith(w)[s] = Trim(window[s], now) \cup {n + 1}
  BY <1>1, WindowAfter
<1>8. window[s] \in SUBSET (1..n) /\ DOMAIN counted = 1..n
  BY <1>1 DEF TypeOK
<1>9. stream'[counted'[n + 1]].at = now /\ stream'[counted'[n + 1]].subject = s
  BY <1>1
<1> HIDE DEF s, now
<1>10. n + 1 \in Own
  BY <1>1, <1>3, <1>9, Constants DEF Stale
<1>11. ASSUME NEW i \in Trim(window[s], now) PROVE i \in Own
  <2>1. PICK j \in window[s] : j <= i /\ ~Stale(At(j), now, WindowUS)
    BY DEF Trim
  <2>2. i \in window[s] /\ i \in 1..n /\ j \in 1..n
    BY <1>8 DEF Trim
  <2>3. ~Stale(At(i), now, WindowUS)
    BY <1>1, <1>6, <2>1, <2>2, Constants DEF Stale
  <2>4. Subject(i) = s
    BY <1>1, <2>2 DEF OwnStamps
  <2> QED
    BY <1>1, <1>3, <2>2, <2>3, <2>4
<1>12. ASSUME NEW i \in Own, i # n + 1 PROVE i \in Trim(window[s], now)
  <2>1. i \in 1..n /\ ~Stale(At(i), now, WindowUS) /\ Subject(i) = s
    BY <1>1, <1>3, <1>12
  <2>2. CASE i \in window[s]
    <3>1. i <= i
      BY <1>1, <2>1
    <3> QED
      BY <2>1, <2>2, <3>1 DEF Trim
  <2>3. CASE i \notin window[s]
    <3>1. \/ Stale(At(i), At(n), WindowUS)
          \/ Cardinality(Since(i)) > MaxKeys
      BY <1>6, <1>8, <2>1, <2>3 DEF Missing
    <3>2. n \in 1..n
      BY <1>1, <2>1
    <3>3. ~Stale(At(i), At(n), WindowUS)
      BY <1>1, <1>6, <2>1, <3>2, Constants DEF Stale
    <3>4. Since(i) \in SUBSET LiveSubjects'
      <4>1. ASSUME NEW m \in i..n
            PROVE  Subject(m) \in LiveSubjects'
        <5>1. m \in 1..n /\ i <= m
          BY <1>1, <2>1
        <5>2. At(i) <= At(m)
          BY <1>6, <2>1, <5>1
        <5>3. ~Stale(At(m), now, WindowUS)
          BY <1>1, <2>1, <5>1, <5>2, Constants DEF Stale
        <5>4. m \in Live'
          BY <1>1, <1>3, <5>1, <5>3
        <5> QED
          BY <1>1, <1>4, <5>1, <5>4
      <4> QED
        BY <4>1 DEF Since
    <3>5. IsFiniteSet(LiveSubjects')
      <4>1. \A m \in 1..(n + 1) : stream'[counted'[m]].subject \in Subjects
        <5>1. \A m \in 1..n : Subject(m) \in Subjects
          BY OccurrenceStep
        <5> QED
          BY <1>1, <1>9, <5>1 DEF s
      <4>2. LiveSubjects' \in SUBSET Subjects
        BY <1>3, <1>4, <4>1
      <4> QED
        BY <4>2, FinitelyMany, FS_Subset
    <3>6. Cardinality(Since(i)) <= Cardinality(LiveSubjects')
      BY <3>4, <3>5, FS_Subset
    <3>7. Cardinality(LiveSubjects') \in Nat /\ Cardinality(Since(i)) \in Nat
      BY <3>4, <3>5, FS_Subset, FS_CardinalityType
    <3> QED
      BY <3>1, <3>3, <3>6, <3>7, Constants
  <2> QED
    BY <2>2, <2>3
<1> QED
  BY <1>7, <1>10, <1>11, <1>12

\* Add "returns the number of occurrences within the window, including this one" for every
\* window, cap and sweep, as long as the workers keep the order of the stream and no more
\* subjects are live than the cap allows: an LRU eviction then takes only what is stale.
THEOREM ShardCountIsExact == Spec => []CountIsExact
<1> DEFINE Inv == StreamOrdered /\ OwnStamps /\ Missing /\ CountIsExact
<1>1. Init => Inv
  BY DEF Init, StreamOrdered, OwnStamps, Missing, CountIsExact
<1>2. ASSUME TypeOK, Inv, [Next]_vars PROVE Inv'
  <2>1. StreamOrdered'
    BY <1>2, OrderedStep
  <2>2. CASE Elsewhere
    BY <1>2, <2>1, <2>2, CountElsewhere
  <2>3. ASSUME NEW w \in Workers, CountEvent(w)
        PROVE  OwnStamps' /\ Missing' /\ CountIsExact'
    BY <1>2, <2>3, WindowAfter, MissingCount, ExactCount
  <2> QED
    BY <1>2, <2>1, <2>2, <2>3, CountOrElsewhere
<1>3. Inv => CountIsExact
  OBVIOUS
<1> QED
  BY <1>1, <1>2, <1>3, ShardTypeCorrect, PTL DEF Spec
=============================================================================
