--------------------------- MODULE PipelineProofs ---------------------------
(***************************************************************************)
(* Proofs about Pipeline, for every finite set of routes, every buffer,    *)
(* pool and policy, every stream, and every timeout and grace period that  *)
(* is not zero.  The inductive invariant relates the clock to the drains:  *)
(* the time since the signal is bounded by a timeout for every slow route  *)
(* main is done with, and one for the route it drains.                     *)
(***************************************************************************)
EXTENDS Pipeline, FiniteSetTheorems, TLAPS

-----------------------------------------------------------------------------
(***************************************************************************)
(* The inductive invariant.                                                *)
(***************************************************************************)

\* Where an event is, and whose it is.
Places ==
    /\ reader \in {"offer", "waiting"} => latest < NumEvents
    /\ \A r \in Routes : \A e \in busy[r] : dest[e] = r
    /\ \A r \in Routes : \A i \in 1..Len(queue[r]) : dest[queue[r][i]] = r
    /\ \A e \in Events : fate[e] = "accepted" =>
         \/ e \in busy[dest[e]]
         \/ \E i \in 1..Len(queue[dest[e]]) : queue[dest[e]][i] = e

\* The order of the shutdown, and what main knows of the routes it is done with.
Phases ==
    /\ main.pc # "waiting" => reader = "returned"
    /\ main.pc = "waiting" => main.done = {} /\ expired = {} /\ now = 0
    /\ main.current # {} => main.pc = "draining"
    /\ main.current \subseteq Undrained
    /\ \A r, s \in main.current : r = s
    /\ main.pc \in {"admin", "exited"} => main.done = Routes
    /\ \A r \in main.done \ expired : Drained(r)

\* One timeout for each route of a set.
Budget(S) == Cardinality(S) * DrainTimeout

\* Where the time since the signal went.
Clock ==
    /\ main.since <= now
    /\ killed => now >= Grace /\ main.pc # "exited"
    /\ expired # {} => now > 0
    /\ main.pc = "draining" /\ main.current = {} => now <= Budget(main.done \cap slow)
    /\ \A r \in main.current :
         /\ main.since <= Budget(main.done \cap slow)
         /\ now <= main.since + DrainTimeout
         /\ now > main.since => r \in slow
    /\ now > 0 => \A r \in Routes \ slow : Drained(r)

PipelineInv == TypeOK /\ Places /\ Phases /\ Clock

-----------------------------------------------------------------------------
(***************************************************************************)
(* Lemmas about timeouts and about the state of a route.                   *)
(***************************************************************************)

\* A budget is a number of units, and grows with the set.
LEMMA BudgetMonotone ==
    ASSUME NEW S \in SUBSET Routes, NEW T \in SUBSET S
    PROVE  Budget(T) \in Nat /\ Budget(S) \in Nat /\ Budget(T) <= Budget(S)
<1>1. IsFiniteSet(S) /\ IsFiniteSet(T)
  BY PipelineAssumption, FS_Subset
<1>2. Cardinality(T) \in Nat /\ Cardinality(S) \in Nat /\ Cardinality(T) <= Cardinality(S)
  BY <1>1, FS_CardinalityType, FS_Subset
<1>3. DrainTimeout \in Nat
  BY PipelineAssumption
<1>4. ASSUME NEW m \in Nat, NEW n \in Nat, m <= n
      PROVE  m * DrainTimeout \in Nat /\ m * DrainTimeout <= n * DrainTimeout
  BY <1>3, <1>4
<1> QED
  BY <1>2, <1>4 DEF Budget

\* One more route has one more timeout.
LEMMA BudgetAdd ==
    ASSUME NEW S \in SUBSET Routes, NEW r \in Routes, r \notin S
    PROVE  Budget(S \cup {r}) = Budget(S) + DrainTimeout
<1>1. IsFiniteSet(S) /\ Cardinality(S) \in Nat
  BY PipelineAssumption, FS_Subset, FS_CardinalityType
<1>2. Cardinality(S \cup {r}) = Cardinality(S) + 1
  BY <1>1, FS_AddElement
<1>3. DrainTimeout \in Nat
  BY PipelineAssumption
<1>4. \A n \in Nat : (n + 1) * DrainTimeout = n * DrainTimeout + DrainTimeout
  BY <1>3
<1> QED
  BY <1>1, <1>2, <1>4 DEF Budget

-----------------------------------------------------------------------------
(***************************************************************************)
(* Types.                                                                  *)
(***************************************************************************)

\* A pool that took an event while a worker was idle is not larger than it may be.
LEMMA PoolBound ==
    ASSUME NEW S \in SUBSET Events, NEW e \in Events, NEW n \in Nat
    PROVE  /\ Cardinality(S) \in Nat
           /\ Cardinality(S) < n => Cardinality(S \cup {e}) <= n
           /\ Cardinality(S) <= n => Cardinality(S \ {e}) <= n
           /\ n > 0 /\ S = {} => Cardinality(S) < n
<1>1. IsFiniteSet(Events)
  BY PipelineAssumption, FS_Interval DEF Events
<1>2. IsFiniteSet(S) /\ Cardinality(S) \in Nat
  BY <1>1, FS_Subset, FS_CardinalityType
<1>3. Cardinality(S \cup {e}) = IF e \in S THEN Cardinality(S) ELSE Cardinality(S) + 1
  BY <1>2, FS_AddElement
<1>4. Cardinality(S \ {e}) = IF e \in S THEN Cardinality(S) - 1 ELSE Cardinality(S)
  BY <1>2, FS_RemoveElement
<1>5. S = {} => Cardinality(S) = 0
  BY FS_EmptySet
<1> QED
  BY <1>2, <1>3, <1>4, <1>5

\* The event offered is one of the stream.
LEMMA OfferedIsEvent ==
    ASSUME TypeOK, Places, reader \in {"offer", "waiting"}
    PROVE  Offered \in Events /\ Target \in Routes
BY PipelineAssumption DEF TypeOK, Places, Offered, Target, Events

\* Every step of the ingest goroutine keeps the types.
LEMMA ReaderTypes ==
    ASSUME TypeOK, Places, Reader
    PROVE  TypeOK'
<1> USE PipelineAssumption
<1>1. CASE Accept
  <2>1. Offered \in Events /\ Target \in Routes
    BY <1>1, OfferedIsEvent DEF Accept
  <2>2. queue[Target] \in Seq(Events) /\ Len(queue[Target]) < Buffer[Target]
    BY <1>1, <2>1 DEF Accept, Full, TypeOK
  <2>3. /\ Append(queue[Target], Offered) \in Seq(Events)
        /\ Len(Append(queue[Target], Offered)) <= Buffer[Target]
    <3>1. Buffer[Target] \in Nat
      BY <2>1
    <3> HIDE PipelineAssumption
    <3>2. Len(queue[Target]) \in Nat /\ Len(Append(queue[Target], Offered)) = Len(queue[Target]) + 1
      BY <2>1, <2>2
    <3>3. Append(queue[Target], Offered) \in Seq(Events)
      BY <2>1, <2>2
    <3> QED
      BY <2>2, <3>1, <3>2, <3>3
  <2>4. queue' \in [Routes -> Seq(Events)] /\ \A r \in Routes : Len(queue'[r]) <= Buffer[r]
    BY <1>1, <2>1, <2>3 DEF Accept, TypeOK
  <2>5. /\ fate' \in [Events -> Fates] /\ latest' \in 0..NumEvents /\ reader' = "read"
        /\ file \in 0..latest'
    BY <1>1, <2>1 DEF Accept, OfferReturns, TypeOK, Fates, Events, Offered
  <2> QED
    BY <1>1, <2>4, <2>5 DEF Accept, TypeOK, shutdownVars
<1>2. CASE Shed \/ WaitTimesOut \/ OfferCancelled
  <2>1. Offered \in Events /\ Target \in Routes
    BY <1>2, OfferedIsEvent DEF Shed, WaitTimesOut, OfferCancelled
  <2>2. PICK f \in Fates : OfferReturns(f)
    BY <1>2 DEF Shed, WaitTimesOut, OfferCancelled, Fates
  <2>3. fate' \in [Events -> Fates] /\ reader' = "read"
    BY <2>1, <2>2 DEF OfferReturns, TypeOK
  <2>4. latest' \in 0..NumEvents /\ file \in 0..latest'
    BY <2>1, <2>2 DEF OfferReturns, TypeOK, Events, Offered
  <2> QED
    BY <1>2, <2>3, <2>4 DEF Shed, WaitTimesOut, OfferCancelled, TypeOK, routeVars, shutdownVars
<1>3. CASE ReadNext \/ BeginWait \/ ReaderReturns
  BY <1>3 DEF ReadNext, BeginWait, ReaderReturns, TypeOK, routeVars, shutdownVars
<1> QED
  BY <1>1, <1>2, <1>3 DEF Reader

\* What the head of a channel that is not empty is, and what is left.
LEMMA TailOfQueue ==
    ASSUME NEW q \in Seq(Events), q # <<>>
    PROVE  /\ Head(q) \in Events /\ Head(q) = q[1] /\ Len(q) >= 1
           /\ Tail(q) \in Seq(Events) /\ Len(Tail(q)) = Len(q) - 1
           /\ \A i \in 1..Len(Tail(q)) : Tail(q)[i] = q[i + 1]
OBVIOUS

\* Every step of a worker or of its handler keeps the types.
LEMMA WorkerTypes ==
    ASSUME TypeOK, Worker
    PROVE  TypeOK'
<1> USE PipelineAssumption
<1>1. ASSUME NEW r \in Routes, Receive(r) PROVE TypeOK'
  <2>1. queue[r] \in Seq(Events) /\ queue[r] # <<>> /\ busy[r] \in SUBSET Events
    BY <1>1 DEF Receive, CanReceive, TypeOK
  <2>2. /\ Head(queue[r]) \in Events /\ Tail(queue[r]) \in Seq(Events)
        /\ Len(Tail(queue[r])) <= Len(queue[r]) /\ Len(queue[r]) \in Nat
    BY <2>1, TailOfQueue
  <2>3. Cardinality(busy[r] \cup {Head(queue[r])}) <= Workers[r]
    BY <1>1, <2>1, <2>2, PoolBound DEF Receive, CanReceive, HasIdleWorker
  <2>4. queue' \in [Routes -> Seq(Events)] /\ \A s \in Routes : Len(queue'[s]) <= Buffer[s]
    BY <1>1, <2>2 DEF Receive, TypeOK
  <2>5. busy' \in [Routes -> SUBSET Events] /\ \A s \in Routes : Cardinality(busy'[s]) <= Workers[s]
    BY <1>1, <2>1, <2>2, <2>3 DEF Receive, TypeOK
  <2> QED
    BY <1>1, <2>4, <2>5 DEF Receive, TypeOK, readerVars, shutdownVars
<1>2. ASSUME NEW e \in Events, NEW f \in Fates, LeavesWorker(e, f) PROVE TypeOK'
  <2>1. dest[e] \in Routes /\ busy[dest[e]] \in SUBSET Events
    BY DEF TypeOK
  <2>2. Cardinality(busy[dest[e]] \ {e}) <= Workers[dest[e]]
    BY <2>1, PoolBound DEF TypeOK
  <2>3. busy' \in [Routes -> SUBSET Events] /\ \A s \in Routes : Cardinality(busy'[s]) <= Workers[s]
    BY <1>2, <2>1, <2>2 DEF LeavesWorker, TypeOK
  <2> QED
    BY <1>2, <2>3 DEF LeavesWorker, TypeOK, readerVars, shutdownVars
<1>3. ASSUME NEW e \in Events, Hang(e) \/ Resume(e) PROVE TypeOK'
  BY <1>3 DEF Hang, Resume, TypeOK, readerVars, shutdownVars
<1>4. "settled" \in Fates /\ "cut" \in Fates
  BY DEF Fates
<1> QED
  BY <1>1, <1>2, <1>3, <1>4 DEF Worker, Settle, CutShort

\* Every step of main, of the clock and of the kubelet keeps the types.
LEMMA MainTypes ==
    ASSUME TypeOK, Main \/ Tick \/ Kill
    PROVE  TypeOK'
<1> USE PipelineAssumption
<1>1. CASE Cancel \/ Kill
  BY <1>1 DEF Cancel, Kill, TypeOK, readerVars, routeVars
<1>2. ASSUME NEW m \in [pc : {"waiting", "draining", "admin", "exited"},
                        current : SUBSET Routes, since : 0..Grace, done : SUBSET Routes],
             main' = m, expired' \subseteq Routes, file' \in 0..latest,
             UNCHANGED <<dest, reader, latest, fate, queue, busy, stuck, ctxDone, now,
                         killed, slow>>
      PROVE  TypeOK'
  BY <1>2 DEF TypeOK
<1>4. main.since \in 0..Grace /\ now \in 0..Grace /\ latest \in 0..NumEvents /\ file \in 0..latest
  BY DEF TypeOK
<1>5. CASE BeginShutdown \/ Exit
  BY <1>5, <1>2, <1>4 DEF BeginShutdown, Exit, TypeOK, readerVars, routeVars
<1>6. CASE FinalCommit
  <2>1. file' \in 0..latest
    BY <1>4, <1>6 DEF FinalCommit
  <2> QED
    BY <1>2, <1>4, <1>6, <2>1 DEF FinalCommit, TypeOK, readerVars, routeVars
<1>7. ASSUME NEW r \in Routes, BeginDrain(r) \/ DrainEnds(r) \/ DrainTimesOut(r)
      PROVE  TypeOK'
  <2>1. CASE BeginDrain(r)
    BY <1>2, <1>4, <2>1 DEF BeginDrain, TypeOK, readerVars, routeVars
  <2>2. /\ DoneWith(r) \in [pc : {"waiting", "draining", "admin", "exited"},
                            current : SUBSET Routes, since : 0..Grace, done : SUBSET Routes]
        /\ expired \cup {r} \subseteq Routes
    BY DEF DoneWith, TypeOK
  <2>3. CASE DrainEnds(r)
    BY <1>2, <1>4, <2>2, <2>3 DEF DrainEnds, TypeOK, readerVars, routeVars
  <2>4. CASE DrainTimesOut(r)
    BY <1>2, <1>4, <2>2, <2>4 DEF DrainTimesOut, readerVars, routeVars
  <2> QED
    BY <1>7, <2>1, <2>3, <2>4
<1>3. CASE Tick
  <2>1. stuck \subseteq Events /\ dest \in [Events -> Routes]
    BY DEF TypeOK
  <2>2. slow' \subseteq Routes /\ now' \in 0..Grace
    BY <1>3, <2>1 DEF Tick, TypeOK
  <2> QED
    BY <1>3, <2>2 DEF Tick, TypeOK, readerVars, routeVars
<1> QED
  BY <1>1, <1>3, <1>5, <1>6, <1>7 DEF Main

\* The initial states satisfy the invariant.
LEMMA PipelineInit == Init => PipelineInv
<1> SUFFICES ASSUME Init PROVE PipelineInv
  OBVIOUS
<1> USE PipelineAssumption DEF Init
<1>1. Cardinality({}) = 0
  BY FS_EmptySet
<1>2. TypeOK
  <2>1. dest \in [Events -> Routes] /\ fate \in [Events -> Fates]
    BY DEF Events, Fates
  <2>2. queue \in [Routes -> Seq(Events)] /\ busy \in [Routes -> SUBSET Events]
    OBVIOUS
  <2>3. \A r \in Routes : Len(queue[r]) <= Buffer[r] /\ Cardinality(busy[r]) <= Workers[r]
    BY <1>1
  <2>4. main \in [pc : {"waiting", "draining", "admin", "exited"},
                 current : SUBSET Routes, since : 0..Grace, done : SUBSET Routes]
    <3>1. 0 \in 0..Grace
      OBVIOUS
    <3>2. main = [pc |-> "waiting", current |-> {}, since |-> 0, done |-> {}]
      OBVIOUS
    <3> HIDE PipelineAssumption DEF Init
    <3> QED
      BY <3>1, <3>2
  <2>5. /\ reader \in {"read", "offer", "waiting", "returned"} /\ latest \in 0..NumEvents
        /\ stuck \subseteq Events /\ ctxDone \in BOOLEAN /\ now \in 0..Grace /\ killed \in BOOLEAN
        /\ expired \subseteq Routes /\ slow \subseteq Routes /\ file \in 0..latest
    <3>1. 0 \in 0..Grace /\ 0 \in 0..NumEvents /\ 0 \in 0..0
      OBVIOUS
    <3>2. /\ reader = "read" /\ latest = 0 /\ stuck = {} /\ ctxDone = FALSE /\ now = 0
          /\ expired = {} /\ killed = FALSE /\ file = 0 /\ slow = {}
      OBVIOUS
    <3> HIDE PipelineAssumption DEF Init
    <3> QED
      BY <3>1, <3>2
  <2> HIDE DEF Init
  <2> QED
    BY <2>1, <2>2, <2>3, <2>4, <2>5 DEF TypeOK
<1>3. Places
  BY DEF Places
<1>4. Phases
  BY DEF Phases, Undrained
<1>5. Clock
  BY DEF Clock
<1> QED
  BY <1>2, <1>3, <1>4, <1>5 DEF PipelineInv

-----------------------------------------------------------------------------
(***************************************************************************)
(* Where the events are.                                                   *)
(***************************************************************************)

\* Every step of the ingest goroutine keeps the events where they belong.
LEMMA ReaderPlaces ==
    ASSUME TypeOK, Places, Reader
    PROVE  Places'
<1> USE PipelineAssumption
<1>1. CASE Accept
  <2>1. Offered \in Events /\ Target \in Routes
    BY <1>1, OfferedIsEvent DEF Accept
  <2>2. queue[Target] \in Seq(Events)
    BY <2>1 DEF TypeOK
  <2> DEFINE q == Append(queue[Target], Offered)
  <2>3. /\ Len(queue[Target]) \in Nat /\ Len(q) = Len(queue[Target]) + 1
        /\ \A i \in 1..Len(queue[Target]) : q[i] = queue[Target][i]
        /\ q[Len(q)] = Offered
    BY <2>1, <2>2
  <2> HIDE DEF q
  <2>4. /\ queue'[Target] = q
        /\ \A r \in Routes \ {Target} : queue'[r] = queue[r]
    BY <1>1, <2>1 DEF Accept, TypeOK, q
  <2>5. UNCHANGED <<dest, busy>> /\ reader' = "read"
    BY <1>1 DEF Accept, OfferReturns
  <2>6. \A r \in Routes : \A i \in 1..Len(queue'[r]) : dest[queue'[r][i]] = r
    <3>1. ASSUME NEW i \in 1..Len(q) PROVE dest[q[i]] = Target
      <4>1. CASE i = Len(q)
        BY <2>3, <4>1 DEF Target
      <4>2. CASE i # Len(q)
        <5>1. i \in 1..Len(queue[Target])
          BY <2>3, <4>2
        <5>2. q[i] = queue[Target][i] /\ dest[queue[Target][i]] = Target
          BY <2>1, <2>3, <5>1 DEF Places
        <5> QED
          BY <5>2
      <4> QED
        BY <4>1, <4>2
    <3>2. ASSUME NEW r \in Routes, NEW i \in 1..Len(queue'[r]) PROVE dest[queue'[r][i]] = r
      <4>1. CASE r = Target
        BY <2>4, <3>1, <4>1
      <4>2. CASE r # Target
        BY <2>4, <4>2 DEF Places
      <4> QED
        BY <4>1, <4>2
    <3> QED
      BY <3>2
  <2>7. ASSUME NEW e \in Events, fate'[e] = "accepted"
        PROVE  \/ e \in busy[dest[e]]
               \/ \E i \in 1..Len(queue'[dest[e]]) : queue'[dest[e]][i] = e
    <3>1. CASE e = Offered
      <4>1. dest[e] = Target /\ Len(q) \in 1..Len(q)
        BY <2>3, <3>1 DEF Target
      <4> QED
        BY <2>3, <2>4, <3>1, <4>1
    <3>2. CASE e # Offered
      <4>1. fate[e] = "accepted" /\ dest[e] \in Routes
        BY <1>1, <2>7, <3>2 DEF Accept, OfferReturns, TypeOK
      <4>2. CASE dest[e] # Target
        BY <2>4, <4>1, <4>2 DEF Places
      <4>3. CASE dest[e] = Target
        <5>1. ASSUME NEW i \in 1..Len(queue[Target]), queue[Target][i] = e
              PROVE  i \in 1..Len(q) /\ q[i] = e
          BY <2>3, <5>1
        <5> QED
          BY <2>4, <4>1, <4>3, <5>1 DEF Places
      <4> QED
        BY <4>2, <4>3
    <3> QED
      BY <3>1, <3>2
  <2> QED
    BY <2>5, <2>6, <2>7 DEF Places
<1>2. CASE Shed \/ WaitTimesOut \/ OfferCancelled
  <2>1. Offered \in Events
    BY <1>2, OfferedIsEvent DEF Shed, WaitTimesOut, OfferCancelled
  <2>2. UNCHANGED <<dest, queue, busy>> /\ reader' = "read"
    BY <1>2 DEF Shed, WaitTimesOut, OfferCancelled, OfferReturns, routeVars
  <2>3. \A e \in Events : fate'[e] = "accepted" => fate[e] = "accepted"
    BY <1>2, <2>1 DEF Shed, WaitTimesOut, OfferCancelled, OfferReturns, TypeOK
  <2> QED
    BY <2>2, <2>3 DEF Places
<1>3. CASE ReadNext \/ BeginWait \/ ReaderReturns
  BY <1>3 DEF ReadNext, BeginWait, ReaderReturns, Places, routeVars
<1> QED
  BY <1>1, <1>2, <1>3 DEF Reader

\* Every step of a worker or of its handler keeps them where they belong.
LEMMA WorkerPlaces ==
    ASSUME TypeOK, Places, Worker
    PROVE  Places'
<1> USE PipelineAssumption
<1>1. ASSUME NEW r \in Routes, Receive(r) PROVE Places'
  <2>1. queue[r] \in Seq(Events) /\ queue[r] # <<>>
    BY <1>1 DEF Receive, CanReceive, TypeOK
  <2> DEFINE h == Head(queue[r])
             t == Tail(queue[r])
  <2>2. /\ h \in Events /\ h = queue[r][1] /\ Len(queue[r]) \in Nat /\ Len(queue[r]) >= 1
        /\ Len(t) = Len(queue[r]) - 1
        /\ \A i \in 1..Len(t) : t[i] = queue[r][i + 1]
    BY <2>1, TailOfQueue
  <2>3. UNCHANGED <<dest, fate, reader, latest>>
    BY <1>1 DEF Receive, readerVars
  <2>4. /\ queue'[r] = t /\ busy'[r] = busy[r] \cup {h}
        /\ \A s \in Routes \ {r} : queue'[s] = queue[s] /\ busy'[s] = busy[s]
    BY <1>1 DEF Receive, TypeOK
  <2> HIDE DEF h, t
  <2>5. dest[h] = r
    <3>1. 1 \in 1..Len(queue[r])
      BY <2>2
    <3> QED
      BY <2>2, <3>1 DEF Places
  <2>6. ASSUME NEW s \in Routes, NEW e \in busy'[s]
        PROVE  dest[e] = s
    <3>1. e \in busy[s] \/ (s = r /\ e = h)
      BY <2>4, <2>6
    <3> QED
      BY <2>5, <3>1 DEF Places
  <2>7. ASSUME NEW s \in Routes, NEW i \in 1..Len(queue'[s])
        PROVE  dest[queue'[s][i]] = s
    <3>1. CASE s = r
      <4>1. i \in 1..Len(t) /\ queue'[s][i] = t[i]
        BY <2>4, <2>7, <3>1
      <4>2. i + 1 \in 1..Len(queue[r]) /\ t[i] = queue[r][i + 1]
        BY <2>2, <4>1
      <4>3. dest[queue[r][i + 1]] = r
        BY <4>2 DEF Places
      <4> QED
        BY <3>1, <4>1, <4>2, <4>3
    <3>2. CASE s # r
      <4>1. queue'[s] = queue[s]
        BY <2>4, <2>7, <3>2
      <4> QED
        BY <2>7, <4>1 DEF Places
    <3> QED
      BY <3>1, <3>2
  <2>8. ASSUME NEW e \in Events, fate[e] = "accepted"
        PROVE  \/ e \in busy'[dest[e]]
               \/ \E i \in 1..Len(queue'[dest[e]]) : queue'[dest[e]][i] = e
    <3>1. dest[e] \in Routes
      BY DEF TypeOK
    <3>2. CASE dest[e] # r
      <4>1. queue'[dest[e]] = queue[dest[e]] /\ busy'[dest[e]] = busy[dest[e]]
        BY <2>4, <3>1, <3>2
      <4>2. \/ e \in busy[dest[e]]
            \/ \E i \in 1..Len(queue[dest[e]]) : queue[dest[e]][i] = e
        BY <2>8 DEF Places
      <4> QED
        BY <4>1, <4>2
    <3>3. CASE dest[e] = r
      <4>1. CASE e \in busy[r]
        BY <2>4, <3>3, <4>1
      <4>2. ASSUME NEW i \in 1..Len(queue[r]), queue[r][i] = e
            PROVE  e \in busy'[r] \/ \E j \in 1..Len(t) : t[j] = e
        <5>1. CASE i = 1
          BY <2>2, <2>4, <4>2, <5>1
        <5>2. CASE i # 1
          <6>1. i - 1 \in 1..Len(t) /\ (i - 1) + 1 = i
            BY <2>2, <5>2
          <6> QED
            BY <2>2, <4>2, <6>1
        <5> QED
          BY <5>1, <5>2
      <4> QED
        BY <2>4, <2>8, <3>3, <4>1, <4>2 DEF Places
    <3> QED
      BY <3>2, <3>3
  <2> QED
    BY <2>3, <2>6, <2>7, <2>8 DEF Places
<1>2. ASSUME NEW e \in Events, NEW f \in Fates \ {"accepted"}, LeavesWorker(e, f) PROVE Places'
  <2>1. UNCHANGED <<dest, queue, reader, latest>>
    BY <1>2 DEF LeavesWorker, readerVars
  <2>2. /\ \A s \in Routes : busy'[s] \subseteq busy[s]
        /\ \A s \in Routes : busy[s] \subseteq busy'[s] \cup {e}
    BY <1>2 DEF LeavesWorker, TypeOK
  <2>3. \A d \in Events : fate'[d] = "accepted" => fate[d] = "accepted" /\ d # e
    BY <1>2 DEF LeavesWorker, TypeOK
  <2>4. ASSUME NEW d \in Events, fate'[d] = "accepted"
        PROVE  \/ d \in busy'[dest[d]]
               \/ \E i \in 1..Len(queue[dest[d]]) : queue[dest[d]][i] = d
    <3>1. dest[d] \in Routes /\ fate[d] = "accepted" /\ d # e
      BY <2>3, <2>4 DEF TypeOK
    <3>2. d \in busy[dest[d]] \/ \E i \in 1..Len(queue[dest[d]]) : queue[dest[d]][i] = d
      BY <3>1 DEF Places
    <3>3. busy[dest[d]] \subseteq busy'[dest[d]] \cup {e}
      BY <2>2, <3>1
    <3> QED
      BY <3>1, <3>2, <3>3
  <2>5. \A s \in Routes : \A d \in busy'[s] : dest[d] = s
    BY <2>2 DEF Places
  <2> HIDE PipelineAssumption
  <2> QED
    BY <2>1, <2>4, <2>5 DEF Places
<1>3. ASSUME NEW e \in Events, Hang(e) \/ Resume(e) PROVE Places'
  BY <1>3 DEF Hang, Resume, Places, readerVars
<1>4. "settled" \in Fates \ {"accepted"} /\ "cut" \in Fates \ {"accepted"}
  BY DEF Fates
<1> QED
  BY <1>1, <1>2, <1>3, <1>4 DEF Worker, Settle, CutShort

\* Main, the clock and the kubelet move no event.
LEMMA MainPlaces ==
    ASSUME Places, Main \/ Tick \/ Kill
    PROVE  Places'
<1>1. UNCHANGED <<dest, reader, latest, fate, queue, busy>>
  BY DEF Main, Tick, Kill, Cancel, BeginShutdown, FinalCommit, Exit, BeginDrain, DrainEnds,
         DrainTimesOut, readerVars, routeVars
<1> QED
  BY <1>1 DEF Places

-----------------------------------------------------------------------------
(***************************************************************************)
(* The order of the shutdown.                                              *)
(***************************************************************************)

\* What the ingest goroutine does it does before main drains anything.
LEMMA ReaderPhases ==
    ASSUME Phases, Reader
    PROVE  Phases'
<1>1. reader # "returned" /\ main.pc = "waiting"
  BY DEF Phases, Reader, ReadNext, Accept, Shed, BeginWait, WaitTimesOut, OfferCancelled,
         ReaderReturns
<1>2. UNCHANGED <<main, expired, now>>
  BY DEF Reader, ReadNext, Accept, Shed, BeginWait, WaitTimesOut, OfferCancelled,
         ReaderReturns, shutdownVars
<1> QED
  BY <1>1, <1>2 DEF Phases, Undrained

\* A worker gives nothing back to a route that was drained.
LEMMA DrainedStays ==
    ASSUME TypeOK, Worker, NEW r \in Routes, Drained(r)
    PROVE  Drained(r)'
<1>1. CASE \E s \in Routes : Receive(s)
  BY <1>1 DEF Receive, CanReceive, Drained, TypeOK
<1>2. CASE \E e \in Events : \E f \in Fates : LeavesWorker(e, f)
  BY <1>2 DEF LeavesWorker, Drained, TypeOK
<1>3. CASE \E e \in Events : Hang(e) \/ Resume(e)
  BY <1>3 DEF Hang, Resume, Drained
<1> QED
  BY <1>1, <1>2, <1>3 DEF Worker, Settle, CutShort, Fates

\* Neither do the handlers.
LEMMA WorkerPhases ==
    ASSUME TypeOK, Phases, Worker
    PROVE  Phases'
<1>1. UNCHANGED <<reader, main, expired, now>>
  BY DEF Worker, Receive, Settle, CutShort, LeavesWorker, Hang, Resume, readerVars, shutdownVars
<1>2. main.done \subseteq Routes
  BY DEF TypeOK
<1> QED
  BY <1>1, <1>2, DrainedStays DEF Phases, Undrained

\* main moves from one phase to the next, and knows what it is done with.
LEMMA MainPhases ==
    ASSUME TypeOK, Phases, Main \/ Tick \/ Kill
    PROVE  Phases'
<1>1. UNCHANGED <<reader, queue, busy>>
  BY DEF Main, Tick, Kill, Cancel, BeginShutdown, FinalCommit, Exit, BeginDrain, DrainEnds,
         DrainTimesOut, readerVars, routeVars
<1>2. /\ main \in [pc : {"waiting", "draining", "admin", "exited"},
                   current : SUBSET Routes, since : 0..Grace, done : SUBSET Routes]
      /\ expired \subseteq Routes
  BY DEF TypeOK
<1>3. CASE Cancel \/ Kill
  BY <1>1, <1>3 DEF Cancel, Kill, Phases, Undrained, Drained
<1>4. CASE BeginShutdown \/ FinalCommit \/ Exit
  BY <1>1, <1>2, <1>4 DEF BeginShutdown, FinalCommit, Exit, Phases, Undrained, Drained
<1>5. ASSUME NEW r \in Routes, BeginDrain(r) PROVE Phases'
  BY <1>1, <1>2, <1>5 DEF BeginDrain, Phases, Undrained, Drained
<1>6. ASSUME NEW r \in Routes, DrainEnds(r) \/ DrainTimesOut(r) PROVE Phases'
  <2>1. /\ main.current = {r} /\ main.pc = "draining" /\ reader = "returned"
    BY <1>2, <1>6 DEF Phases, DrainEnds, DrainTimesOut
  <2>2. /\ main' \in [pc : {"waiting", "draining", "admin", "exited"},
                      current : SUBSET Routes, since : 0..Grace, done : SUBSET Routes]
        /\ main'.pc = "draining" /\ main'.current = {} /\ main'.done = main.done \cup {r}
    BY <1>2, <1>6, <2>1 DEF DrainEnds, DrainTimesOut, DoneWith
  <2>3. \A s \in main'.done \ expired' : Drained(s)
    BY <1>6, <2>2 DEF DrainEnds, DrainTimesOut, Phases
  <2> QED
    BY <1>1, <2>1, <2>2, <2>3 DEF Phases, Undrained, Drained
<1>7. CASE Tick
  <2>1. main.pc # "waiting" /\ UNCHANGED <<main, expired>>
    BY <1>7 DEF Tick, DrainWaits, AdminWaits, Phases
  <2> QED
    BY <1>1, <2>1 DEF Phases, Undrained, Drained
<1> QED
  BY <1>3, <1>4, <1>5, <1>6, <1>7 DEF Main

-----------------------------------------------------------------------------
(***************************************************************************)
(* Where the time since the signal went.                                   *)
(***************************************************************************)

\* The ingest goroutine takes none.
LEMMA ReaderClock ==
    ASSUME Phases, Clock, Reader
    PROVE  Clock'
<1>1. main.pc = "waiting" /\ now = 0
  BY DEF Phases, Reader, ReadNext, Accept, Shed, BeginWait, WaitTimesOut, OfferCancelled,
         ReaderReturns
<1>2. UNCHANGED <<main, expired, now, killed, slow>>
  BY DEF Reader, ReadNext, Accept, Shed, BeginWait, WaitTimesOut, OfferCancelled,
         ReaderReturns, shutdownVars
<1> QED
  BY <1>1, <1>2 DEF Clock, Phases, Budget

\* The workers take none, and give nothing back.
LEMMA WorkerClock ==
    ASSUME TypeOK, Clock, Worker
    PROVE  Clock'
<1>1. UNCHANGED <<main, expired, now, killed, slow>>
  BY DEF Worker, Receive, Settle, CutShort, LeavesWorker, Hang, Resume, shutdownVars
<1> QED
  BY <1>1, DrainedStays DEF Clock, Budget

\* Main moves from route to route within the budget of the slow ones.
LEMMA MainClock ==
    ASSUME TypeOK, Phases, Clock, Main
    PROVE  Clock'
<1>1. UNCHANGED <<queue, busy, now, killed, slow>>
  BY DEF Main, Cancel, BeginShutdown, FinalCommit, Exit, BeginDrain, DrainEnds,
         DrainTimesOut, routeVars
<1>2. /\ main \in [pc : {"waiting", "draining", "admin", "exited"},
                   current : SUBSET Routes, since : 0..Grace, done : SUBSET Routes]
      /\ now \in Nat /\ main.since \in Nat /\ DrainTimeout \in Nat
  BY PipelineAssumption DEF TypeOK
<1>3. ~killed
  BY DEF Main, Cancel, BeginShutdown, FinalCommit, Exit, BeginDrain, DrainEnds,
         DrainTimesOut, Alive
<1>4. now > 0 => \A s \in Routes \ slow : Drained(s)'
  BY <1>1 DEF Clock, Drained
<1>5. main.done \cap slow \in SUBSET Routes /\ Budget(main.done \cap slow) \in Nat
  BY <1>2, BudgetMonotone
<1>6. CASE Cancel
  BY <1>1, <1>4, <1>6 DEF Cancel, Clock, Budget
<1>7. CASE BeginShutdown
  <2>1. /\ now = 0 /\ main'.pc = "draining" /\ main'.since = now /\ main'.current = {}
        /\ main'.done = main.done /\ expired' = expired
    BY <1>2, <1>7 DEF BeginShutdown, Phases
  <2> QED
    BY <1>1, <1>2, <1>3, <1>4, <1>5, <2>1 DEF Clock, Budget
<1>8. CASE FinalCommit \/ Exit
  <2>1. /\ main'.pc # "draining" /\ main'.since \in {main.since, now} /\ main'.current = {}
        /\ expired' = expired
    BY <1>2, <1>8 DEF FinalCommit, Exit, Phases
  <2> QED
    BY <1>1, <1>2, <1>3, <1>4, <2>1 DEF Clock
<1>9. ASSUME NEW r \in Routes, BeginDrain(r) PROVE Clock'
  <2>1. /\ main'.current = {r} /\ main'.since = now /\ main'.done = main.done
        /\ main'.pc = "draining" /\ expired' = expired /\ now <= Budget(main.done \cap slow)
    BY <1>2, <1>9 DEF BeginDrain, Clock
  <2>2. /\ main'.since <= Budget(main.done \cap slow) /\ main'.since <= now
        /\ now <= main'.since + DrainTimeout /\ ~(now > main'.since)
    BY <1>2, <1>5, <2>1
  <2>3. expired # {} => now > 0
    BY DEF Clock
  <2> QED
    BY <1>1, <1>3, <1>4, <2>1, <2>2, <2>3 DEF Clock, Budget
<1>10. ASSUME NEW r \in Routes, DrainEnds(r) \/ DrainTimesOut(r) PROVE Clock'
  <2>1. /\ r \in main.current /\ r \notin main.done /\ main.pc = "draining"
        /\ main.since <= now
        /\ main.since <= Budget(main.done \cap slow) /\ now <= main.since + DrainTimeout
        /\ now > main.since => r \in slow
    BY <1>10 DEF DrainEnds, DrainTimesOut, Phases, Clock, Undrained
  <2>2. /\ main'.pc = "draining" /\ main'.current = {} /\ main'.since = main.since
        /\ main'.done = main.done \cup {r}
    BY <1>2, <1>10, <2>1 DEF DrainEnds, DrainTimesOut, DoneWith, Phases
  <2>3. now <= Budget((main.done \cup {r}) \cap slow)
    <3>1. CASE r \in slow
      <4>1. (main.done \cup {r}) \cap slow = (main.done \cap slow) \cup {r}
        BY <3>1
      <4>2. Budget((main.done \cap slow) \cup {r}) = Budget(main.done \cap slow) + DrainTimeout
        BY <1>5, <2>1, BudgetAdd
      <4>3. now <= Budget((main.done \cap slow) \cup {r})
        BY <1>2, <1>5, <2>1, <4>2
      <4> QED
        BY <4>1, <4>3, Zenon
    <3>2. CASE r \notin slow
      <4>1. (main.done \cup {r}) \cap slow = main.done \cap slow
        BY <3>2
      <4>2. now <= Budget(main.done \cap slow)
        BY <1>2, <1>5, <2>1, <3>2
      <4> QED
        BY <4>1, <4>2, Zenon
    <3> QED
      BY <3>1, <3>2
  <2>4. expired' # {} => now > 0
    <3>1. CASE DrainEnds(r)
      BY <3>1 DEF DrainEnds, Clock
    <3>2. CASE DrainTimesOut(r)
      <4>1. now - main.since >= DrainTimeout /\ DrainTimeout > 0
        BY <3>2, PipelineAssumption DEF DrainTimesOut, DeadlinePassed
      <4> QED
        BY <1>2, <4>1
    <3> QED
      BY <1>10, <3>1, <3>2
  <2> QED
    BY <1>1, <1>3, <1>4, <2>1, <2>2, <2>3, <2>4 DEF Clock, Budget
<1> QED
  BY <1>6, <1>7, <1>8, <1>9, <1>10 DEF Main

\* A route that is not drained while the clock advances is a slow one.
LEMMA TickSlow ==
    ASSUME TypeOK, Places, Tick, NEW r \in Routes, ~Drained(r)
    PROVE  r \in slow'
<1> USE PipelineAssumption
<1>1. busy[r] \subseteq stuck /\ (queue[r] = <<>> \/ ~HasIdleWorker(r)) /\ busy[r] \subseteq Events
  BY DEF Tick, WorkersWait, CanReceive, TypeOK
<1>2. busy[r] # {}
  <2>1. SUFFICES ASSUME busy[r] = {} PROVE FALSE
    OBVIOUS
  <2>2. Cardinality(busy[r]) = 0 /\ Workers[r] \in Nat \ {0}
    BY <2>1, FS_EmptySet
  <2>3. HasIdleWorker(r)
    BY <2>2 DEF HasIdleWorker
  <2> QED
    BY <1>1, <2>1, <2>3 DEF Drained
<1>3. PICK e \in busy[r] : TRUE
  BY <1>2
<1>4. dest[e] = r /\ e \in stuck
  BY <1>1, <1>3 DEF Places
<1> QED
  BY <1>4 DEF Tick

\* Time passes only for what hangs, and within the timeout of the drain.
LEMMA TickClock ==
    ASSUME TypeOK, Places, Phases, Clock, Tick
    PROVE  Clock'
<1>1. UNCHANGED <<main, queue, busy, expired, killed>> /\ now' = now + 1 /\ slow \subseteq slow'
  BY DEF Tick, routeVars
<1>2. /\ main \in [pc : {"waiting", "draining", "admin", "exited"},
                   current : SUBSET Routes, since : 0..Grace, done : SUBSET Routes]
      /\ now \in Nat /\ main.since \in Nat /\ DrainTimeout \in Nat
  BY PipelineAssumption DEF TypeOK
<1>3. slow' \subseteq Routes
  <2>1. stuck \subseteq Events /\ dest \in [Events -> Routes] /\ slow \subseteq Routes
    BY DEF TypeOK
  <2> QED
    BY <2>1 DEF Tick
<1>4. ~killed /\ main.pc # "exited" /\ (DrainWaits \/ AdminWaits)
  BY DEF Tick, Alive
<1>5. \A r \in Routes \ slow' : Drained(r)'
  BY <1>1, TickSlow DEF Drained
<1>6. ASSUME NEW r \in main.current
      PROVE  /\ main.since <= Budget(main.done \cap slow')
             /\ now + 1 <= main.since + DrainTimeout
             /\ r \in slow'
  <2>1. main.pc = "draining" /\ r \in Routes /\ main.current = {r}
    BY <1>2, <1>6 DEF Phases
  <2>2. ~Drained(r) /\ ~DeadlinePassed
    BY <1>4, <2>1 DEF DrainWaits, AdminWaits
  <2>3. r \in slow'
    BY <2>1, <2>2, TickSlow
  <2>4. now + 1 <= main.since + DrainTimeout
    BY <1>2, <2>2 DEF DeadlinePassed
  <2>5. main.since <= Budget(main.done \cap slow)
    BY DEF Clock
  <2>6. /\ main.done \cap slow' \in SUBSET Routes
        /\ main.done \cap slow \in SUBSET (main.done \cap slow')
    BY <1>1, <1>3
  <2>7. /\ Budget(main.done \cap slow) \in Nat /\ Budget(main.done \cap slow') \in Nat
        /\ Budget(main.done \cap slow) <= Budget(main.done \cap slow')
    BY <2>6, BudgetMonotone
  <2> QED
    BY <1>2, <2>3, <2>4, <2>5, <2>7
<1>7. main.pc = "draining" => main.current # {}
  BY <1>4 DEF DrainWaits, AdminWaits
<1>8. now' > 0 /\ main.since <= now'
  BY <1>1, <1>2 DEF Clock
<1> QED
  BY <1>1, <1>4, <1>5, <1>6, <1>7, <1>8 DEF Clock, Budget

\* The kubelet kills the process when the grace period is over.
LEMMA KillClock ==
    ASSUME Clock, Kill
    PROVE  Clock'
BY DEF Kill, Alive, Clock, Budget, Drained, routeVars

-----------------------------------------------------------------------------
(***************************************************************************)
(* The invariant, and what follows from it.                                *)
(***************************************************************************)

\* Every step keeps the invariant.
LEMMA PipelineStep == PipelineInv /\ [Next]_vars => PipelineInv'
<1> SUFFICES ASSUME PipelineInv, [Next]_vars PROVE PipelineInv'
  OBVIOUS
<1> USE DEF PipelineInv
<1>1. CASE Reader
  BY <1>1, ReaderTypes, ReaderPlaces, ReaderPhases, ReaderClock
<1>2. CASE Worker
  BY <1>2, WorkerTypes, WorkerPlaces, WorkerPhases, WorkerClock
<1>3. CASE Main
  BY <1>3, MainTypes, MainPlaces, MainPhases, MainClock
<1>4. CASE Tick
  BY <1>4, MainTypes, MainPlaces, MainPhases, TickClock
<1>5. CASE Kill
  BY <1>5, MainTypes, MainPlaces, MainPhases, KillClock
<1>6. CASE UNCHANGED vars
  <2> USE <1>6 DEF vars
  <2>1. TypeOK'
    BY DEF TypeOK
  <2>2. Places'
    BY DEF Places
  <2>3. Phases'
    BY DEF Phases, Undrained, Drained
  <2>4. Clock'
    BY DEF Clock, Budget, Drained
  <2> QED
    BY <2>1, <2>2, <2>3, <2>4
<1> QED
  BY <1>1, <1>2, <1>3, <1>4, <1>5, <1>6 DEF Next, Over

\* The process is always in a state the invariant describes (run in main.go).
THEOREM PipelineInvariant == Spec => []PipelineInv
<1> QED
  BY PipelineInit, PipelineStep, PTL DEF Spec

\* A killed process did not reach its final commit because the slow routes used
\* up the grace period, at one timeout each.
LEMMA InvFinalCommit == PipelineInv => FinalCommitReached
<1> SUFFICES ASSUME PipelineInv, killed, main.pc # "admin"
             PROVE  Cardinality(slow) * DrainTimeout >= Grace
  BY DEF FinalCommitReached
<1> USE DEF PipelineInv
<1>1. /\ now \in Nat /\ main.since \in Nat /\ DrainTimeout \in Nat /\ Grace \in Nat \ {0}
      /\ now >= Grace /\ slow \in SUBSET Routes /\ main.current \subseteq Routes
  BY PipelineAssumption DEF TypeOK, Clock
<1>2. main.pc = "draining"
  BY <1>1 DEF TypeOK, Phases, Clock
<1>3. /\ Budget(main.done \cap slow) \in Nat /\ Budget(slow) \in Nat
      /\ Budget(main.done \cap slow) <= Budget(slow)
  <2>1. main.done \cap slow \in SUBSET slow
    OBVIOUS
  <2> QED
    BY <1>1, <2>1, BudgetMonotone
<1>4. CASE main.current = {}
  BY <1>1, <1>2, <1>3, <1>4 DEF Clock, Budget
<1>5. ASSUME NEW r \in main.current PROVE Budget(slow) >= Grace
  <2>1. /\ main.since <= Budget(main.done \cap slow) /\ now <= main.since + DrainTimeout
        /\ now > main.since => r \in slow
    BY DEF Clock
  <2>2. CASE r \notin slow
    BY <1>1, <1>3, <2>1, <2>2
  <2>3. CASE r \in slow
    <3>1. /\ main.done \cap slow \in SUBSET Routes /\ r \in Routes /\ r \notin main.done \cap slow
          /\ (main.done \cap slow) \cup {r} \in SUBSET slow
      BY <1>1, <2>3 DEF Phases, Undrained
    <3>2. Budget((main.done \cap slow) \cup {r}) = Budget(main.done \cap slow) + DrainTimeout
      BY <3>1, BudgetAdd
    <3>3. /\ Budget((main.done \cap slow) \cup {r}) <= Budget(slow)
      BY <1>1, <3>1, BudgetMonotone
    <3> QED
      BY <1>1, <1>3, <2>1, <3>2, <3>3
  <2> QED
    BY <2>2, <2>3
<1> QED
  BY <1>4, <1>5 DEF Budget

\* Nothing accepted is left behind by the final commit but for an expired drain.
LEMMA InvCommitCovers == PipelineInv => CommitCoversSettled
<1> SUFFICES ASSUME PipelineInv, main.pc \in {"admin", "exited"},
                    NEW e \in 1..latest, fate[e] = "accepted"
             PROVE  dest[e] \in expired
  BY DEF CommitCoversSettled
<1> USE DEF PipelineInv
<1>1. e \in Events /\ dest[e] \in Routes
  BY PipelineAssumption DEF TypeOK, Events
<1>2. ~Drained(dest[e])
  <2>1. CASE e \in busy[dest[e]]
    BY <2>1 DEF Drained
  <2>2. ASSUME NEW i \in 1..Len(queue[dest[e]]) PROVE queue[dest[e]] # <<>>
    BY <2>2
  <2> QED
    BY <1>1, <2>1, <2>2 DEF Places, Drained
<1>3. main.done = Routes
  BY DEF Phases
<1> QED
  BY <1>1, <1>2, <1>3 DEF Phases

\* When the process is over, a route that was never slow holds nothing.
LEMMA InvHealthy == PipelineInv => HealthyRouteLosesNothing
<1> SUFFICES ASSUME PipelineInv, ~Alive, NEW r \in Routes \ slow
             PROVE  Drained(r)
  BY DEF HealthyRouteLosesNothing
<1> USE DEF PipelineInv
<1>1. now \in Nat /\ Grace \in Nat \ {0}
  BY PipelineAssumption DEF TypeOK
<1>2. CASE now > 0
  BY <1>2 DEF Clock
<1>3. CASE ~(now > 0)
  <2>1. main.pc = "exited" /\ expired = {}
    BY <1>1, <1>3 DEF Clock, Alive
  <2> QED
    BY <2>1 DEF Phases
<1> QED
  BY <1>2, <1>3

\* TypeOK, for every size of the instance.
THEOREM PipelineTypes == Spec => []TypeOK
<1>1. PipelineInv => TypeOK
  BY DEF PipelineInv
<1> QED
  BY <1>1, PipelineInvariant, PTL

\* FinalCommitReached, for every set of routes, timeout and grace period.
THEOREM GracePeriodSuffices == Spec => []FinalCommitReached
<1> QED
  BY InvFinalCommit, PipelineInvariant, PTL

\* CommitCoversSettled, in whatever order the routes are drained.
THEOREM FinalCommitCovers == Spec => []CommitCoversSettled
<1> QED
  BY InvCommitCovers, PipelineInvariant, PTL

\* HealthyRouteLosesNothing, whatever the other routes do.
THEOREM HealthyRoutesDrain == Spec => []HealthyRouteLosesNothing
<1> QED
  BY InvHealthy, PipelineInvariant, PTL

-----------------------------------------------------------------------------
(***************************************************************************)
(* Every route keeps its ledger.  Where an event is and what became of it  *)
(* determine each other, and a channel holds no event twice.               *)
(***************************************************************************)
Accounts ==
    /\ \A e \in Events : fate[e] = "upstream" <=> e > latest
    /\ \A r \in Routes : \A e \in busy[r] : fate[e] = "accepted"
    /\ \A r \in Routes : \A i \in 1..Len(queue[r]) :
         /\ fate[queue[r][i]] = "accepted" /\ queue[r][i] \notin busy[r]
         /\ \A j \in 1..Len(queue[r]) : queue[r][i] = queue[r][j] => i = j

\* What Offer returned for an event leaves the others as they were.
LEMMA OfferedFate ==
    ASSUME TypeOK, Places, reader \in {"offer", "waiting"}, NEW f \in Fates, OfferReturns(f)
    PROVE  /\ Offered \in Events /\ latest' = Offered /\ latest \in Nat /\ Offered = latest + 1
           /\ fate'[Offered] = f
           /\ \A e \in Events \ {Offered} : fate'[e] = fate[e]
<1>1. Offered \in Events /\ fate \in [Events -> Fates] /\ latest \in Nat
  BY OfferedIsEvent, PipelineAssumption DEF TypeOK
<1> QED
  BY <1>1 DEF OfferReturns, Offered

\* The events in a channel are events of the stream.
LEMMA QueuedEvents ==
    ASSUME TypeOK, NEW r \in Routes
    PROVE  /\ queue[r] \in Seq(Events) /\ Len(queue[r]) \in Nat
           /\ \A i \in 1..Len(queue[r]) : queue[r][i] \in Events
           /\ busy[r] \subseteq Events
BY DEF TypeOK

\* A step of the ingest goroutine gives one event a fate, the next one.
LEMMA ReaderAccounts ==
    ASSUME TypeOK, Places, Accounts, Reader
    PROVE  Accounts'
<1>1. CASE Accept
  <2>1. /\ Offered \in Events /\ latest' = Offered /\ latest \in Nat /\ Offered = latest + 1
        /\ fate'[Offered] = "accepted"
        /\ \A e \in Events \ {Offered} : fate'[e] = fate[e]
    BY <1>1, OfferedFate DEF Accept, Fates
  <2>2. fate[Offered] = "upstream"
    BY <2>1 DEF Accounts
  <2>3. Target \in Routes /\ busy' = busy
    BY <1>1, OfferedIsEvent DEF Accept
  <2> DEFINE q == Append(queue[Target], Offered)
             n == Len(queue[Target])
  <2>4. /\ n \in Nat /\ Len(q) = n + 1 /\ q[n + 1] = Offered
        /\ \A i \in 1..n : q[i] = queue[Target][i]
    BY <2>1, <2>3, QueuedEvents
  <2>5. queue'[Target] = q /\ \A r \in Routes \ {Target} : queue'[r] = queue[r]
    BY <1>1, <2>3 DEF Accept, TypeOK
  <2> HIDE DEF q, n
  <2>6. \A r \in Routes : Offered \notin busy[r]
    BY <2>2 DEF Accounts
  <2>7. \A r \in Routes : \A i \in 1..Len(queue[r]) :
          queue[r][i] \in Events \ {Offered} /\ fate'[queue[r][i]] = "accepted"
    <3> SUFFICES ASSUME NEW r \in Routes, NEW i \in 1..Len(queue[r])
                 PROVE  queue[r][i] \in Events \ {Offered} /\ fate'[queue[r][i]] = "accepted"
      OBVIOUS
    <3>1. queue[r][i] \in Events
      BY QueuedEvents
    <3>2. fate[queue[r][i]] = "accepted"
      BY DEF Accounts
    <3> QED
      BY <2>1, <2>2, <3>1, <3>2
  <2>8. ASSUME NEW r \in Routes, NEW i \in 1..Len(queue'[r])
        PROVE  /\ fate'[queue'[r][i]] = "accepted" /\ queue'[r][i] \notin busy'[r]
               /\ \A j \in 1..Len(queue'[r]) : queue'[r][i] = queue'[r][j] => i = j
    <3>1. CASE r # Target
      BY <2>3, <2>5, <2>7, <3>1 DEF Accounts
    <3>2. CASE r = Target
      <4>1. \A k \in 1..Len(q) : k = n + 1 \/ (k \in 1..n /\ q[k] = queue[Target][k])
        BY <2>4
      <4>2. \A k \in 1..n : q[k] # Offered
        BY <2>3, <2>4, <2>7 DEF n
      <4>3. \A k, l \in 1..n : q[k] = q[l] => k = l
        BY <2>3, <2>4 DEF Accounts, n
      <4>4. \A k, l \in 1..Len(q) : q[k] = q[l] => k = l
        BY <2>4, <4>1, <4>2, <4>3
      <4>5. \A k \in 1..Len(q) : fate'[q[k]] = "accepted" /\ q[k] \notin busy[Target]
        BY <2>1, <2>3, <2>4, <2>6, <2>7, <4>1 DEF Accounts, n
      <4> QED
        BY <2>3, <2>5, <3>2, <4>4, <4>5
    <3> QED
      BY <3>1, <3>2
  <2>9. \A e \in Events : fate'[e] = "upstream" <=> e > latest'
    BY <2>1 DEF Accounts, Events
  <2>10. \A r \in Routes : \A e \in busy'[r] : fate'[e] = "accepted"
    BY <2>1, <2>3, <2>6, QueuedEvents DEF Accounts
  <2> QED
    BY <2>8, <2>9, <2>10 DEF Accounts
<1>2. CASE Shed \/ WaitTimesOut \/ OfferCancelled
  <2>1. PICK f \in Fates \ {"upstream", "accepted"} : OfferReturns(f)
    BY <1>2 DEF Shed, WaitTimesOut, OfferCancelled, Fates
  <2>2. /\ Offered \in Events /\ latest' = Offered /\ latest \in Nat /\ Offered = latest + 1
        /\ fate'[Offered] = f
        /\ \A e \in Events \ {Offered} : fate'[e] = fate[e]
    BY <1>2, <2>1, OfferedFate DEF Shed, WaitTimesOut, OfferCancelled
  <2>3. fate[Offered] = "upstream" /\ UNCHANGED <<queue, busy>>
    BY <1>2, <2>2 DEF Accounts, Shed, WaitTimesOut, OfferCancelled, routeVars
  <2>4. \A e \in Events : fate[e] = "accepted" => fate'[e] = "accepted"
    BY <2>2, <2>3
  <2>5. \A e \in Events : fate'[e] = "upstream" <=> e > latest'
    BY <2>1, <2>2 DEF Accounts, Events
  <2> QED
    BY <2>3, <2>4, <2>5, QueuedEvents DEF Accounts
<1>3. CASE ReadNext \/ BeginWait \/ ReaderReturns
  BY <1>3 DEF ReadNext, BeginWait, ReaderReturns, Accounts, routeVars
<1> QED
  BY <1>1, <1>2, <1>3 DEF Reader

\* A worker takes an event out of the channel, or gives it its fate.
LEMMA WorkerAccounts ==
    ASSUME TypeOK, Places, Accounts, Worker
    PROVE  Accounts'
<1>1. ASSUME NEW r \in Routes, Receive(r) PROVE Accounts'
  <2>1. UNCHANGED <<dest, fate, latest>> /\ queue[r] # <<>>
    BY <1>1 DEF Receive, CanReceive, readerVars
  <2> DEFINE h == Head(queue[r])
             t == Tail(queue[r])
             n == Len(queue[r])
  <2>2. /\ n \in Nat /\ n >= 1 /\ h = queue[r][1] /\ Len(t) = n - 1
        /\ \A i \in 1..Len(t) : t[i] = queue[r][i + 1]
    BY <2>1, QueuedEvents, TailOfQueue
  <2>3. /\ queue'[r] = t /\ busy'[r] = busy[r] \cup {h}
        /\ \A s \in Routes \ {r} : queue'[s] = queue[s] /\ busy'[s] = busy[s]
    BY <1>1 DEF Receive, TypeOK
  <2> HIDE DEF h, t, n
  <2>4. 1 \in 1..n /\ fate[h] = "accepted"
    BY <2>2 DEF Accounts, n
  <2>5. \A i \in 1..Len(t) : i + 1 \in 1..n /\ i + 1 # 1
    BY <2>2
  <2>6. /\ \A i \in 1..Len(t) : fate[t[i]] = "accepted" /\ t[i] \notin busy[r] /\ t[i] # h
        /\ \A i, j \in 1..Len(t) : t[i] = t[j] => i = j
    <3>1. \A i \in 1..Len(t) : fate[t[i]] = "accepted" /\ t[i] \notin busy[r] /\ t[i] # h
      BY <2>2, <2>4, <2>5 DEF Accounts, n
    <3>2. ASSUME NEW i \in 1..Len(t), NEW j \in 1..Len(t), t[i] = t[j] PROVE i = j
      <4>1. i + 1 = j + 1
        BY <2>2, <2>5, <3>2 DEF Accounts, n
      <4> QED
        BY <4>1
    <3> QED
      BY <3>1, <3>2
  <2>7. ASSUME NEW s \in Routes, NEW i \in 1..Len(queue'[s])
        PROVE  /\ fate[queue'[s][i]] = "accepted" /\ queue'[s][i] \notin busy'[s]
               /\ \A j \in 1..Len(queue'[s]) : queue'[s][i] = queue'[s][j] => i = j
    <3>1. CASE s = r
      BY <2>3, <2>6, <3>1
    <3>2. CASE s # r
      BY <2>3, <3>2 DEF Accounts
    <3> QED
      BY <3>1, <3>2
  <2>8. \A s \in Routes : \A e \in busy'[s] : fate[e] = "accepted"
    BY <2>3, <2>4 DEF Accounts
  <2> QED
    BY <2>1, <2>7, <2>8 DEF Accounts
<1>2. ASSUME NEW e \in Events, NEW f \in Fates \ {"upstream"}, LeavesWorker(e, f) PROVE Accounts'
  <2>1. /\ UNCHANGED <<queue, latest>> /\ dest[e] \in Routes /\ e \in busy[dest[e]]
        /\ fate'[e] = f /\ \A d \in Events \ {e} : fate'[d] = fate[d]
        /\ busy'[dest[e]] = busy[dest[e]] \ {e}
        /\ \A s \in Routes \ {dest[e]} : busy'[s] = busy[s]
    BY <1>2 DEF LeavesWorker, TypeOK, readerVars
  <2>2. fate[e] = "accepted"
    BY <2>1 DEF Accounts
  <2>3. \A d \in Events : fate'[d] = "upstream" <=> d > latest
    BY <2>1, <2>2 DEF Accounts
  <2>4. \A s \in Routes : e \notin busy'[s] /\ busy'[s] \subseteq busy[s]
    BY <2>1 DEF Places
  <2>5. \A s \in Routes : \A d \in busy'[s] : fate'[d] = "accepted"
    BY <2>1, <2>4, QueuedEvents DEF Accounts
  <2>6. \A s \in Routes : \A i \in 1..Len(queue[s]) : queue[s][i] # e
    BY <2>1 DEF Places, Accounts
  <2>7. \A s \in Routes : \A i \in 1..Len(queue[s]) :
          fate'[queue[s][i]] = "accepted" /\ queue[s][i] \notin busy'[s]
    BY <2>1, <2>4, <2>6, QueuedEvents DEF Accounts
  <2> QED
    BY <2>1, <2>3, <2>5, <2>7 DEF Accounts
<1>3. ASSUME NEW e \in Events, Hang(e) \/ Resume(e) PROVE Accounts'
  BY <1>3 DEF Hang, Resume, Accounts, readerVars
<1>4. "settled" \in Fates \ {"upstream"} /\ "cut" \in Fates \ {"upstream"}
  BY DEF Fates
<1> QED
  BY <1>1, <1>2, <1>3, <1>4 DEF Worker, Settle, CutShort

\* The accounts stay in order.
LEMMA AccountsStep ==
    ASSUME TypeOK, Places, Accounts, [Next]_vars
    PROVE  Accounts'
<1>1. CASE Main \/ Tick \/ Kill \/ UNCHANGED vars
  BY <1>1 DEF Main, Tick, Kill, Cancel, BeginShutdown, FinalCommit, Exit, BeginDrain, DrainEnds,
              DrainTimesOut, readerVars, routeVars, vars, Accounts
<1> QED
  BY <1>1, ReaderAccounts, WorkerAccounts DEF Next, Over

\* The events of a route that were accepted and have no outcome yet.
InRoute(r) == {e \in Events : dest[e] = r /\ fate[e] = "accepted"}

\* They fill the channel, one place each, and a worker each.
LEMMA InRouteCount ==
    ASSUME TypeOK, Places, Accounts, NEW r \in Routes
    PROVE  /\ IsFiniteSet(InRoute(r)) /\ Cardinality(InRoute(r)) \in Nat
           /\ Len(queue[r]) <= Cardinality(InRoute(r))
           /\ Cardinality(InRoute(r)) <= Len(queue[r]) + Cardinality(busy[r])
<1> DEFINE q == queue[r]
           Queued == {q[i] : i \in 1..Len(q)}
<1>1. /\ Len(q) \in Nat /\ \A i \in 1..Len(q) : q[i] \in Events
      /\ IsFiniteSet(1..Len(q)) /\ Cardinality(1..Len(q)) = Len(q)
  BY QueuedEvents, FS_Interval
<1>2. IsFiniteSet(Events)
  BY FS_Interval, PipelineAssumption DEF Events
<1>3. busy[r] \subseteq Events /\ IsFiniteSet(busy[r]) /\ Cardinality(busy[r]) \in Nat
  BY <1>2, QueuedEvents, FS_Subset, FS_CardinalityType
<1>4. InRoute(r) \subseteq Events /\ IsFiniteSet(InRoute(r)) /\ Cardinality(InRoute(r)) \in Nat
  BY <1>2, FS_Subset, FS_CardinalityType DEF InRoute
<1>5. Queued \subseteq InRoute(r)
  BY <1>1 DEF Accounts, Places, InRoute
<1>6. InRoute(r) \subseteq Queued \cup busy[r]
  BY DEF Places, InRoute
<1>7. \A i, j \in 1..Len(q) : q[i] = q[j] => i = j
  BY DEF Accounts
<1> DEFINE f == [i \in 1..Len(q) |-> q[i]]
<1>8. /\ IsFiniteSet(Queued) /\ Cardinality(Queued) = Len(q)
  <2>1. f \in [1..Len(q) -> Queued]
    OBVIOUS
  <2>2. \A i, j \in 1..Len(q) : f[i] = f[j] => i = j
    BY <1>7
  <2>3. \A e \in Queued : \E i \in 1..Len(q) : f[i] = e
    OBVIOUS
  <2>4. f \in Injection(1..Len(q), Queued) /\ f \in Surjection(1..Len(q), Queued)
    <3> HIDE DEF f, Queued
    <3> QED
      BY <2>1, <2>2, <2>3 DEF Injection, IsInjective, Surjection
  <2>5. ExistsBijection(1..Len(q), Queued)
    BY <2>4 DEF Bijection, ExistsBijection
  <2> QED
    BY <1>1, <2>5, FS_Bijection
<1> HIDE DEF Queued
<1>9. Cardinality(Queued) <= Cardinality(InRoute(r))
  BY <1>4, <1>5, FS_Subset
<1>10. IsFiniteSet(Queued \cup busy[r])
       /\ Cardinality(Queued \cup busy[r])
            = Cardinality(Queued) + Cardinality(busy[r]) - Cardinality(Queued \cap busy[r])
  BY <1>3, <1>8, FS_Union
<1>11. Queued \cap busy[r] = {} /\ Cardinality({}) = 0
  BY FS_EmptySet DEF Queued, Accounts
<1>12. Cardinality(Queued \cap busy[r]) = 0
  BY <1>11, Zenon
<1>13. Cardinality(InRoute(r)) <= Cardinality(Queued \cup busy[r])
  BY <1>6, <1>10, FS_Subset
<1> QED
  BY <1>1, <1>3, <1>4, <1>8, <1>9, <1>10, <1>12, <1>13

\* The ledger counts as the pipeline does.
LEMMA LedgerCounts == \A r, S : Ledger(r)!Cardinality(S) = Cardinality(S)
BY DEF Ledger!Cardinality, Cardinality

\* The events of a status, in the ledger of a route.
LEMMA LedgerSets ==
    ASSUME TypeOK, NEW r \in Routes
    PROVE  /\ Ledger(r)!With("new") = {e \in Events : dest[e] = r /\ fate[e] = "upstream"}
           /\ Ledger(r)!With("accepted") = InRoute(r)
<1>1. \A e \in Events : LedgerStatus(r)[e] = IF dest[e] = r THEN InLedger[fate[e]] ELSE "elsewhere"
  BY DEF LedgerStatus
<1>2. \A e \in Events : fate[e] \in Fates
  BY DEF TypeOK
<1>3. \A f \in Fates : /\ InLedger[f] = "new" <=> f = "upstream"
                       /\ InLedger[f] = "accepted" <=> f = "accepted"
  BY DEF InLedger, Fates
<1>4. \A s : Ledger(r)!With(s) = {e \in Events : LedgerStatus(r)[e] = s}
  BY DEF Ledger!With, Ledger!Events, Events
<1> QED
  BY <1>1, <1>2, <1>3, <1>4 DEF InRoute

\* One event of the route changes its status: a step of the ledger's Become.
LEMMA Becomes ==
    ASSUME TypeOK, NEW r \in Routes, NEW e \in Events, dest[e] = r, NEW f \in Fates,
           fate' = [fate EXCEPT ![e] = f], UNCHANGED <<dest, ctxDone>>
    PROVE  Ledger(r)!Become(e, InLedger[fate[e]], InLedger[f])
<1>1. fate'[e] = f /\ \A d \in Events \ {e} : fate'[d] = fate[d]
  BY DEF TypeOK
<1>2. \A d \in Events : LedgerStatus(r)[d] = IF dest[d] = r THEN InLedger[fate[d]] ELSE "elsewhere"
  BY DEF LedgerStatus
<1>3. LedgerStatus(r)' = [d \in Events |-> IF dest[d] = r THEN InLedger[fate'[d]] ELSE "elsewhere"]
  BY DEF LedgerStatus
<1>4. LedgerStatus(r)' = [LedgerStatus(r) EXCEPT ![e] = InLedger[f]]
  <2>1. LedgerStatus(r) = [d \in Events |-> LedgerStatus(r)[d]]
    BY DEF LedgerStatus
  <2> QED
    BY <1>1, <1>2, <1>3, <2>1
<1> QED
  BY <1>2, <1>4 DEF Ledger!Become

\* The ledgers of the other routes do not see it.
LEMMA OthersStutter ==
    ASSUME TypeOK, NEW e \in Events, NEW f \in Fates, fate' = [fate EXCEPT ![e] = f],
           UNCHANGED <<dest, ctxDone>>, NEW r \in Routes \ {dest[e]}
    PROVE  UNCHANGED Ledger(r)!vars
<1>1. \A d \in Events \ {e} : fate'[d] = fate[d]
  BY DEF TypeOK
<1>2. LedgerStatus(r)' = LedgerStatus(r)
  BY <1>1 DEF LedgerStatus
<1> QED
  BY <1>2 DEF Ledger!vars

\* The next event is in turn for the route it resolves to.
LEMMA OfferedInTurn ==
    ASSUME TypeOK, Places, Accounts, reader \in {"offer", "waiting"}, NEW r \in Routes
    PROVE  /\ Offered \in Events /\ dest[Offered] = Target
           /\ fate[Offered] = "upstream" /\ Ledger(r)!InTurn(Offered)
<1>1. Offered \in Events /\ dest[Offered] = Target /\ latest \in Nat
  BY OfferedIsEvent, PipelineAssumption DEF Target, TypeOK
<1>2. Events \subseteq Int /\ Offered = latest + 1
  BY PipelineAssumption DEF Events, Offered
<1>3. fate[Offered] = "upstream"
  BY <1>1, <1>2 DEF Accounts
<1>4. \A e \in Events : fate[e] = "upstream" => Offered <= e
  BY <1>1, <1>2 DEF Accounts
<1>5. \A e \in Ledger(r)!With("new") : e \in Events /\ fate[e] = "upstream"
  BY LedgerSets
<1>6. Ledger(r)!InTurn(Offered)
  BY <1>4, <1>5 DEF Ledger!InTurn
<1> QED
  BY <1>1, <1>3, <1>6

\* A step of the ledger for one event is a step of the ledger.
LEMMA LedgerNext ==
    ASSUME NEW r \in Routes, NEW e \in Events,
           \/ Ledger(r)!Accept(e) \/ Ledger(r)!Refuse(e) \/ Ledger(r)!Withdraw(e)
           \/ Ledger(r)!Settle(e) \/ Ledger(r)!Abandon(e)
    PROVE  Ledger(r)!Next
BY DEF Ledger!Next, Ledger!Events, Events

\* What an offer does is in the ledger of the route it is made to, and in no other.
LEMMA OfferInLedger ==
    ASSUME TypeOK, Places, Accounts, Accept \/ Shed \/ WaitTimesOut \/ OfferCancelled,
           NEW r \in Routes
    PROVE  [Ledger(r)!Next]_(Ledger(r)!vars)
<1>1. /\ Offered \in Events /\ dest[Offered] = Target
      /\ fate[Offered] = "upstream" /\ Ledger(r)!InTurn(Offered)
  BY OfferedInTurn DEF Accept, Shed, WaitTimesOut, OfferCancelled
<1>2. UNCHANGED <<dest, ctxDone>>
  BY DEF Accept, Shed, WaitTimesOut, OfferCancelled, shutdownVars
<1>3. {"accepted", "shed", "refused"} \subseteq Fates
  BY DEF Fates
<1>4. /\ InLedger["upstream"] = "new" /\ InLedger["accepted"] = "accepted"
      /\ InLedger["shed"] = "refused" /\ InLedger["refused"] = "withdrawn"
  BY DEF InLedger
<1>5. CASE r # Target
  <2>1. PICK f \in Fates : OfferReturns(f)
    BY <1>3 DEF Accept, Shed, WaitTimesOut, OfferCancelled
  <2>2. fate' = [fate EXCEPT ![Offered] = f]
    BY <2>1 DEF OfferReturns
  <2>3. UNCHANGED Ledger(r)!vars
    BY <1>1, <1>2, <1>5, <2>2, OthersStutter
  <2> QED
    BY <2>3
<1>6. CASE r = Target
  <2>1. ASSUME NEW f \in Fates, OfferReturns(f)
        PROVE  Ledger(r)!Become(Offered, "new", InLedger[f])
    <3>1. fate' = [fate EXCEPT ![Offered] = f]
      BY <2>1 DEF OfferReturns
    <3>2. Ledger(r)!Become(Offered, InLedger[fate[Offered]], InLedger[f])
      BY <1>1, <1>2, <1>6, <3>1, Becomes
    <3> QED
      BY <1>1, <1>4, <3>2
  <2>2. /\ Buffer[r] \in Nat /\ Workers[r] \in Nat /\ Len(queue[r]) \in Nat
        /\ Cardinality(busy[r]) \in Nat /\ Cardinality(busy[r]) <= Workers[r]
    <3>1. IsFiniteSet(Events)
      BY FS_Interval, PipelineAssumption DEF Events
    <3>2. busy[r] \subseteq Events
      BY QueuedEvents
    <3>3. Cardinality(busy[r]) \in Nat
      BY <3>1, <3>2, FS_Subset, FS_CardinalityType
    <3> QED
      BY <3>3, QueuedEvents, PipelineAssumption DEF TypeOK
  <2>3. /\ Cardinality(InRoute(r)) \in Nat
        /\ Len(queue[r]) <= Cardinality(InRoute(r))
        /\ Cardinality(InRoute(r)) <= Len(queue[r]) + Cardinality(busy[r])
    BY InRouteCount
  <2>4. Ledger(r)!Cardinality(Ledger(r)!With("accepted")) = Cardinality(InRoute(r))
    BY LedgerSets, LedgerCounts
  <2>5. CASE Accept
    <3>1. OfferReturns("accepted") /\ Len(queue[r]) < Buffer[r]
      BY <1>6, <2>2, <2>5 DEF Accept, Full
    <3>2. Cardinality(InRoute(r)) < Buffer[r] + Workers[r]
      BY <2>2, <2>3, <3>1
    <3>3. Ledger(r)!Become(Offered, "new", "accepted")
      BY <1>3, <1>4, <2>1, <3>1
    <3>4. Ledger(r)!Accept(Offered)
      BY <1>1, <2>4, <3>2, <3>3 DEF Ledger!Accept
    <3> QED
      BY <1>1, <3>4, LedgerNext
  <2>6. CASE Shed \/ WaitTimesOut
    <3>1. OfferReturns("shed") /\ Len(queue[r]) >= Buffer[r]
      BY <1>6, <2>6 DEF Shed, WaitTimesOut, Full
    <3>2. Cardinality(InRoute(r)) >= Buffer[r]
      BY <2>2, <2>3, <3>1
    <3>3. Ledger(r)!Become(Offered, "new", "refused")
      BY <1>3, <1>4, <2>1, <3>1
    <3>4. Ledger(r)!Refuse(Offered)
      BY <1>1, <2>4, <3>2, <3>3 DEF Ledger!Refuse
    <3> QED
      BY <1>1, <3>4, LedgerNext
  <2>7. CASE OfferCancelled
    <3>1. OfferReturns("refused") /\ Policy[r] = "block" /\ ctxDone
      BY <1>6, <2>7 DEF OfferCancelled
    <3>2. Ledger(r)!Become(Offered, "new", "withdrawn")
      BY <1>3, <1>4, <2>1, <3>1
    <3>3. Ledger(r)!Withdraw(Offered)
      BY <1>1, <3>1, <3>2 DEF Ledger!Withdraw
    <3> QED
      BY <1>1, <3>3, LedgerNext
  <2> QED
    BY <2>5, <2>6, <2>7
<1> QED
  BY <1>5, <1>6

\* So is what a worker does with an event when it is through with it.
LEMMA OutcomeInLedger ==
    ASSUME TypeOK, Places, Accounts, NEW e \in Events, Settle(e) \/ CutShort(e),
           NEW r \in Routes
    PROVE  [Ledger(r)!Next]_(Ledger(r)!vars)
<1>1. PICK f \in {"settled", "cut"} : LeavesWorker(e, f) /\ (f = "cut" => ctxDone)
  BY DEF Settle, CutShort
<1>2. dest[e] \in Routes
  BY DEF TypeOK
<1>3. /\ UNCHANGED <<dest, ctxDone>> /\ fate' = [fate EXCEPT ![e] = f]
      /\ f \in Fates /\ fate[e] = "accepted"
  BY <1>1, <1>2 DEF LeavesWorker, shutdownVars, Fates, Accounts
<1>4. /\ InLedger["accepted"] = "accepted" /\ InLedger["settled"] = "settled"
      /\ InLedger["cut"] = "abandoned"
  BY DEF InLedger
<1>5. CASE dest[e] = r
  <2>1. Ledger(r)!Become(e, InLedger[fate[e]], InLedger[f])
    BY <1>3, <1>5, Becomes
  <2>2. Ledger(r)!Become(e, "accepted", InLedger[f])
    BY <1>3, <1>4, <2>1
  <2>3. Ledger(r)!Settle(e) \/ Ledger(r)!Abandon(e)
    BY <1>1, <1>4, <2>2 DEF Ledger!Settle, Ledger!Abandon
  <2> QED
    BY <2>3, LedgerNext
<1>6. CASE dest[e] # r
  BY <1>3, <1>6, OthersStutter
<1> QED
  BY <1>5, <1>6

\* Every step of the pipeline is a step of the ledger of every route, or leaves it
\* as it is.
LEMMA LedgersStep ==
    ASSUME TypeOK, Places, Accounts, [Next]_vars, NEW r \in Routes
    PROVE  [Ledger(r)!Next]_(Ledger(r)!vars)
<1>1. CASE Accept \/ Shed \/ WaitTimesOut \/ OfferCancelled
  BY <1>1, OfferInLedger
<1>2. ASSUME NEW e \in Events, Settle(e) \/ CutShort(e)
      PROVE  [Ledger(r)!Next]_(Ledger(r)!vars)
  BY <1>2, OutcomeInLedger
<1>3. CASE UNCHANGED <<dest, fate>> /\ ctxDone' \in {ctxDone, TRUE}
  <2>1. LedgerStatus(r)' = LedgerStatus(r)
    BY <1>3 DEF LedgerStatus
  <2>2. CASE ctxDone' = ctxDone
    BY <2>1, <2>2 DEF Ledger!vars
  <2>3. CASE ctxDone' = TRUE
    BY <2>1, <2>3 DEF Ledger!Next, Ledger!Cancel
  <2> QED
    BY <1>3, <2>2, <2>3
<1>4. CASE ReadNext \/ BeginWait \/ ReaderReturns
  BY <1>3, <1>4 DEF ReadNext, BeginWait, ReaderReturns, shutdownVars
<1>5. CASE \/ \E s \in Routes : Receive(s)
           \/ \E e \in Events : Hang(e) \/ Resume(e)
  BY <1>3, <1>5 DEF Receive, Hang, Resume, shutdownVars
<1>6. CASE Main \/ Tick \/ Kill \/ UNCHANGED vars
  BY <1>3, <1>6 DEF Main, Tick, Kill, Cancel, BeginShutdown, FinalCommit, Exit, BeginDrain,
                    DrainEnds, DrainTimesOut, vars
<1> QED
  BY <1>1, <1>2, <1>4, <1>5, <1>6 DEF Next, Reader, Worker, Over

\* Before the first frame every ledger is new, and the accounts are in order.
LEMMA LedgersInit == Init => Accounts /\ \A r \in Routes : Ledger(r)!Init
<1> SUFFICES ASSUME Init PROVE Accounts /\ \A r \in Routes : Ledger(r)!Init
  OBVIOUS
<1>1. Accounts
  BY PipelineAssumption DEF Init, Accounts, Events
<1>2. \A e \in Events : InLedger[fate[e]] = "new"
  BY DEF Init, InLedger
<1>3. ASSUME NEW r \in Routes PROVE Ledger(r)!Init
  <2>1. LedgerStatus(r) \in [Events -> {"new", "elsewhere"}]
    BY <1>2 DEF LedgerStatus
  <2> QED
    BY <2>1 DEF Init, Ledger!Init, Ledger!Events, Events
<1> QED
  BY <1>1, <1>3

\* RoutesKeepLedgers: however many routes share the one reader, whatever their buffers,
\* pools and policies, and in whatever order they are drained, each of them implements
\* the ledger that Route implements alone (main.go, dispatch and run; route.go, Offer).
THEOREM PipelineKeepsLedgers == Spec => RoutesKeepLedgers
<1> DEFINE Step == \A r \in Routes : [Ledger(r)!Next]_(Ledger(r)!vars)
           Start == \A r \in Routes : Ledger(r)!Init
<1>1. Init => Accounts /\ Start
  BY LedgersInit
<1>2. PipelineInv /\ Accounts /\ [Next]_vars => Accounts' /\ Step
  BY AccountsStep, LedgersStep DEF PipelineInv
<1>3. RoutesKeepLedgers <=> Start /\ [][Step]_vars
  BY DEF RoutesKeepLedgers
<1> HIDE DEF Step, Start
<1>4. Spec => Start /\ [][Step]_vars
  BY <1>1, <1>2, PipelineInvariant, PTL DEF Spec
<1> QED
  BY <1>3, <1>4
=============================================================================
