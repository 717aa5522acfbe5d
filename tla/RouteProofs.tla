---------------------------- MODULE RouteProofs -----------------------------
(***************************************************************************)
(* Proofs about Route, for every number of events, buffer, finite pool,    *)
(* retry budget and policy.  The plan: lemmas say, action by action, which *)
(* sets of events change and how; one lemma per action then preserves      *)
(* IInv; the theorems read the safety properties off IInv.                 *)
(***************************************************************************)
EXTENDS Route, FiniteSetTheorems, TLAPS

-----------------------------------------------------------------------------
(***************************************************************************)
(* The sets of events.                                                     *)
(***************************************************************************)

\* The three terminal outcomes make up Settled.
LEMMA SettledIs ==
    Settled = handled["ok"] \cup handled["permanent"] \cup handled["exhausted"]
BY DEF Settled, Outcomes

\* Appending to the channel adds the event to those queued.
LEMMA AppendQueued ==
    ASSUME NEW S, NEW q \in Seq(S), NEW x \in S, NEW r, r = Append(q, x)
    PROVE  /\ r \in Seq(S) /\ Len(r) = Len(q) + 1
           /\ {r[i] : i \in DOMAIN r} = {q[i] : i \in DOMAIN q} \cup {x}
           /\ \A i \in 1..Len(q) : r[i] = q[i]
           /\ r[Len(q) + 1] = x
<1>1. r \in Seq(S) /\ Len(r) = Len(q) + 1 /\ r[Len(q) + 1] = x
  OBVIOUS
<1>2. DOMAIN q = 1..Len(q) /\ DOMAIN r = 1..(Len(q) + 1) /\ Len(q) \in Nat
  OBVIOUS
<1>3. \A i \in 1..Len(q) : r[i] = q[i]
  OBVIOUS
<1>4. {r[i] : i \in DOMAIN r} = {q[i] : i \in DOMAIN q} \cup {x}
  BY <1>1, <1>2, <1>3
<1> QED
  BY <1>1, <1>3, <1>4

\* Receiving takes the head, and nothing else, from the events queued.
LEMMA TailQueued ==
    ASSUME queue \in Seq(Events), queue # <<>>, queue' = Tail(queue)
    PROVE  /\ queue' \in Seq(Events) /\ Len(queue') = Len(queue) - 1 /\ Len(queue) >= 1
           /\ Head(queue) \in Events /\ Head(queue) = queue[1]
           /\ Queued = Queued' \cup {Head(queue)}
           /\ \A i \in 1..Len(queue') : queue'[i] = queue[i + 1]
<1>1. /\ queue' \in Seq(Events) /\ Len(queue') = Len(queue) - 1 /\ Len(queue) >= 1
      /\ Head(queue) \in Events /\ Head(queue) = queue[1]
  OBVIOUS
<1>2. DOMAIN queue = 1..Len(queue) /\ DOMAIN queue' = 1..Len(queue') /\ Len(queue) \in Nat
  BY <1>1
<1>3. \A i \in 1..Len(queue') : queue'[i] = queue[i + 1]
  BY <1>1, <1>2
<1>4. ASSUME NEW i \in DOMAIN queue PROVE queue[i] \in {queue'[j] : j \in DOMAIN queue'} \cup {Head(queue)}
  <2>1. CASE i = 1
    BY <2>1, <1>1
  <2>2. CASE i # 1
    <3>1. i - 1 \in DOMAIN queue' /\ i - 1 \in 1..Len(queue')
      BY <2>2, <1>1, <1>2
    <3>2. queue'[i - 1] = queue[i]
      BY <3>1, <1>3, <1>2
    <3> QED
      BY <3>1, <3>2
  <2> QED
    BY <2>1, <2>2
<1>5. ASSUME NEW i \in DOMAIN queue' PROVE queue'[i] \in {queue[j] : j \in DOMAIN queue}
  <2>1. i + 1 \in DOMAIN queue /\ queue'[i] = queue[i + 1]
    BY <1>1, <1>2, <1>3
  <2> QED
    BY <2>1
<1>6. Head(queue) \in {queue[j] : j \in DOMAIN queue}
  BY <1>1, <1>2
<1>7. Queued = Queued' \cup {Head(queue)}
  BY <1>4, <1>5, <1>6 DEF Queued
<1> QED
  BY <1>1, <1>3, <1>7

\* The sets that say where an event is are sets of events.
LEMMA SetsInEvents ==
    ASSUME TypeOK, ReaderInv, WorkerInv
    PROVE  /\ Queued \subseteq Events /\ Held \subseteq Events
           /\ Settled \subseteq Events /\ Offering \subseteq Events
           /\ Events \subseteq Nat
<1>1. Queued \subseteq Events
  BY DEF Queued, TypeOK
<1>2. Held \subseteq Events
  BY DEF Held, WorkerInv
<1>3. Settled \subseteq Events
  BY SettledIs DEF TypeOK, Outcomes
<1>4. Offering \subseteq Events
  BY DEF Offering, ReaderInv
<1>5. Events \subseteq Nat
  BY RouteAssumption DEF Events
<1> QED
  BY <1>1, <1>2, <1>3, <1>4, <1>5

-----------------------------------------------------------------------------
(***************************************************************************)
(* How each action moves events between the sets.                          *)
(***************************************************************************)

\* The sets that depend on the workers alone stay while the workers do.
LEMMA WorkersFrame ==
    ASSUME UNCHANGED workerVars
    PROVE  /\ Held' = Held /\ Settled' = Settled
           /\ \A w \in Workers : InProcess(w)' = InProcess(w)
BY DEF workerVars, Held, Settled, InProcess

\* The sets that depend on the reader stay while its variables do.
LEMMA ReaderFrame ==
    ASSUME UNCHANGED readerVars
    PROVE  Offering' = Offering /\ Accepted' = Accepted
BY DEF readerVars, Offering, Accepted

\* What is queued depends on the channel alone.
LEMMA QueueFrame == ASSUME UNCHANGED queue PROVE Queued' = Queued
BY DEF Queued

\* Offer puts the next event at the select: it is the only one offered.
LEMMA OfferMoves ==
    ASSUME IInv, Offer
    PROVE  /\ Queued' = Queued /\ Held' = Held /\ Settled' = Settled
           /\ Offering = {} /\ Offering' = {next} /\ Accepted' = Accepted
           /\ Lost' = Lost
<1> USE DEF Offer
<1>1. Queued' = Queued /\ Held' = Held /\ Settled' = Settled
  BY WorkersFrame, QueueFrame
<1>2. Offering = {} /\ Offering' = {next} /\ Accepted' = Accepted
  BY DEF Offering, Accepted
<1>3. next \in Nat /\ Events \subseteq Nat
  BY RouteAssumption DEF IInv, TypeOK, Events
<1>4. \A e \in Events : (e < next' /\ e # next) <=> e < next
  BY <1>3
<1>5. Lost' = Lost
  BY <1>1, <1>2, <1>4 DEF Lost, InFlight
<1> QED
  BY <1>1, <1>2, <1>5

\* A send moves the event at the select into the buffer, and accepts it.
LEMMA SendMoves ==
    ASSUME IInv, Send
    PROVE  /\ Queued' = Queued \cup {reader.ev} /\ Held' = Held /\ Settled' = Settled
           /\ Offering = {reader.ev} /\ Offering' = {}
           /\ Accepted' = Accepted \cup {reader.ev}
           /\ Lost' = Lost
<1> USE DEF Send
<1>1. Held' = Held /\ Settled' = Settled
  BY WorkersFrame
<1>2. reader.ev \in Events /\ queue \in Seq(Events)
  BY DEF IInv, ReaderInv, TypeOK
<1>3. Queued' = Queued \cup {reader.ev}
  BY <1>2, AppendQueued DEF Queued
<1>4. reader'.ev = reader.ev /\ reader'.pc = "sent"
  BY DEF IInv, TypeOK
<1>5. /\ Offering = {reader.ev} /\ Offering' = {}
      /\ Accepted' = Accepted \cup {reader.ev}
  BY <1>4 DEF Offering, Accepted
<1>6. Lost' = Lost
  BY <1>1, <1>3, <1>5 DEF Lost, InFlight
<1> QED
  BY <1>1, <1>3, <1>5, <1>6

\* Counting the event and setting the gauge move nothing.
LEMMA CountMoves ==
    ASSUME IInv, CountRouted \/ SetDepthReader \/ ReaderReturns
    PROVE  /\ Queued' = Queued /\ Held' = Held /\ Settled' = Settled
           /\ Offering = {} /\ Offering' = {} /\ Accepted' = Accepted
           /\ Lost' = Lost
<1>1. Queued' = Queued /\ Held' = Held /\ Settled' = Settled
  BY WorkersFrame, QueueFrame DEF CountRouted, SetDepthReader, ReaderReturns
<1>2. Offering = {} /\ Offering' = {} /\ Accepted' = Accepted
  <2>1. CASE CountRouted
    <3>1. reader'.ev = reader.ev /\ reader'.pc = "gauge"
      BY <2>1 DEF CountRouted, IInv, TypeOK
    <3> QED
      BY <2>1, <3>1 DEF CountRouted, Offering, Accepted
  <2>2. CASE SetDepthReader
    BY <2>2 DEF SetDepthReader, ReaderAt, Offering, Accepted
  <2>3. CASE ReaderReturns
    BY <2>3 DEF ReaderReturns, ReaderAt, Offering, Accepted
  <2> QED
    BY <2>1, <2>2, <2>3
<1>3. Lost' = Lost
  BY <1>1, <1>2 DEF Lost, InFlight, CountRouted, SetDepthReader, ReaderReturns
<1> QED
  BY <1>1, <1>2, <1>3

\* Shedding moves the event at the select to those dropped.
LEMMA ShedMoves ==
    ASSUME IInv, ShedEvent
    PROVE  /\ Queued' = Queued /\ Held' = Held /\ Settled' = Settled
           /\ Offering = {reader.ev} /\ Offering' = {} /\ Accepted' = Accepted
           /\ dropped' = dropped \cup {reader.ev}
           /\ Lost' = Lost
<1> USE DEF ShedEvent
<1>1. Queued' = Queued /\ Held' = Held /\ Settled' = Settled
  BY WorkersFrame, QueueFrame
<1>2. Offering = {reader.ev} /\ Offering' = {} /\ Accepted' = Accepted
  BY DEF ReaderAt, Offering, Accepted
<1>3. Lost' = Lost
  BY <1>1, <1>2 DEF Lost, InFlight
<1> QED
  BY <1>1, <1>2, <1>3

\* A withdrawn offer moves the event at the select to those lost.
LEMMA OfferCancelledMoves ==
    ASSUME IInv, OfferCancelled
    PROVE  /\ Queued' = Queued /\ Held' = Held /\ Settled' = Settled
           /\ Offering = {reader.ev} /\ Offering' = {} /\ Accepted' = Accepted
           /\ Lost' \subseteq Lost \cup {reader.ev}
           /\ Lost \subseteq Lost'
<1> USE DEF OfferCancelled
<1>1. Queued' = Queued /\ Held' = Held /\ Settled' = Settled
  BY WorkersFrame, QueueFrame
<1>2. Offering = {reader.ev} /\ Offering' = {} /\ Accepted' = Accepted
  BY DEF ReaderAt, Offering, Accepted
<1>3. Lost' \subseteq Lost \cup {reader.ev} /\ Lost \subseteq Lost'
  BY <1>1, <1>2 DEF Lost, InFlight
<1> QED
  BY <1>1, <1>2, <1>3

\* What the workers other than w hold.
HeldByOthers(w) == {worker[v].ev : v \in {u \in Workers \ {w} : InProcess(u)}}

\* What the workers hold after one of them, w, changed its record to r.
LEMMA HeldAfter ==
    ASSUME IInv, NEW w \in Workers, NEW r, worker' = [worker EXCEPT ![w] = r]
    PROVE  /\ Held = IF InProcess(w) THEN HeldByOthers(w) \cup {worker[w].ev}
                                     ELSE HeldByOthers(w)
           /\ Held' = IF r.pc \in {"call", "backoff"} THEN HeldByOthers(w) \cup {r.ev}
                                                      ELSE HeldByOthers(w)
           /\ InProcess(w) => worker[w].ev \notin HeldByOthers(w)
           /\ \A v \in Workers \ {w} : InProcess(v)' = InProcess(v) /\ worker'[v] = worker[v]
           /\ worker'[w] = r
           /\ InProcess(w)' <=> r.pc \in {"call", "backoff"}
<1>1. worker'[w] = r /\ \A v \in Workers \ {w} : worker'[v] = worker[v]
  BY DEF IInv, TypeOK
<1>2. \A v \in Workers \ {w} : InProcess(v)' = InProcess(v)
  BY <1>1 DEF InProcess
<1>3. InProcess(w)' <=> r.pc \in {"call", "backoff"}
  BY <1>1 DEF InProcess
<1>4. Held = IF InProcess(w) THEN HeldByOthers(w) \cup {worker[w].ev} ELSE HeldByOthers(w)
  BY DEF Held, HeldByOthers
<1>5. Held' = IF r.pc \in {"call", "backoff"} THEN HeldByOthers(w) \cup {r.ev}
                                              ELSE HeldByOthers(w)
  BY <1>1, <1>2, <1>3 DEF Held, HeldByOthers
<1>6. InProcess(w) => worker[w].ev \notin HeldByOthers(w)
  BY DEF IInv, OnePlace, HeldByOthers
<1> QED
  BY <1>1, <1>2, <1>3, <1>4, <1>5, <1>6

\* A worker leaves process: its event is no longer held.
LEMMA HeldLeaves ==
    ASSUME IInv, NEW w \in Workers, NEW r, worker' = [worker EXCEPT ![w] = r],
           InProcess(w), r.pc \notin {"call", "backoff"}
    PROVE  worker[w].ev \in Held /\ Held' = Held \ {worker[w].ev}
<1>1. /\ Held = HeldByOthers(w) \cup {worker[w].ev} /\ Held' = HeldByOthers(w)
      /\ worker[w].ev \notin HeldByOthers(w)
  BY HeldAfter
<1> QED
  BY <1>1

\* A worker stays in process with its event.
LEMMA HeldKeeps ==
    ASSUME IInv, NEW w \in Workers, NEW r, worker' = [worker EXCEPT ![w] = r],
           InProcess(w), r.pc \in {"call", "backoff"}, r.ev = worker[w].ev
    PROVE  Held' = Held
<1>1. /\ Held = HeldByOthers(w) \cup {worker[w].ev}
      /\ Held' = HeldByOthers(w) \cup {r.ev}
  BY HeldAfter
<1> QED
  BY <1>1

\* A worker enters process with the event of r.
LEMMA HeldEnters ==
    ASSUME IInv, NEW w \in Workers, NEW r, worker' = [worker EXCEPT ![w] = r],
           ~InProcess(w), r.pc \in {"call", "backoff"}
    PROVE  Held' = Held \cup {r.ev}
BY HeldAfter

\* A worker is outside process before and after.
LEMMA HeldIdle ==
    ASSUME IInv, NEW w \in Workers, NEW r, worker' = [worker EXCEPT ![w] = r],
           ~InProcess(w), r.pc \notin {"call", "backoff"}
    PROVE  Held' = Held
BY HeldAfter

\* A receive moves the head of the buffer to the worker.
LEMMA ReceiveMoves ==
    ASSUME IInv, NEW w \in Workers, Receive(w)
    PROVE  /\ Queued = Queued' \cup {Head(queue)} /\ Head(queue) \notin Queued'
           /\ Head(queue) \in Events
           /\ Held' = Held \cup {Head(queue)} /\ Settled' = Settled
           /\ Offering' = Offering /\ Accepted' = Accepted
           /\ Lost' = Lost
<1> USE DEF Receive
<1>1. Settled' = Settled /\ Offering' = Offering /\ Accepted' = Accepted
  BY ReaderFrame DEF Settled
<1>2. queue \in Seq(Events) /\ queue # <<>>
  BY DEF IInv, TypeOK
<1>3. Queued = Queued' \cup {Head(queue)} /\ Head(queue) \in Events
  BY <1>2, TailQueued
<1>4. Head(queue) \notin Queued'
  <2>1. /\ queue' \in Seq(Events) /\ Len(queue') = Len(queue) - 1 /\ Len(queue) >= 1
        /\ Head(queue) = queue[1]
        /\ \A i \in 1..Len(queue') : queue'[i] = queue[i + 1]
    BY <1>2, TailQueued
  <2>2. SUFFICES ASSUME NEW i \in DOMAIN queue', queue'[i] = Head(queue) PROVE FALSE
    BY DEF Queued
  <2>3. DOMAIN queue = 1..Len(queue) /\ DOMAIN queue' = 1..Len(queue') /\ Len(queue) \in Nat
    BY <1>2, <2>1
  <2>4. i + 1 \in DOMAIN queue /\ 1 \in DOMAIN queue /\ i + 1 # 1 /\ queue[i + 1] = queue[1]
    BY <2>1, <2>2, <2>3
  <2> QED
    BY <2>4 DEF IInv, OnePlace
<1>5. Held' = Held \cup {Head(queue)}
  <2> DEFINE r == [pc |-> "call", ev |-> Head(queue), attempt |-> 1, depth |-> 0]
  <2>1. /\ worker' = [worker EXCEPT ![w] = r] /\ ~InProcess(w)
        /\ r.pc = "call" /\ r.ev = Head(queue)
    BY DEF InProcess
  <2> HIDE DEF r
  <2> QED
    BY <2>1, HeldEnters
<1>6. Lost' = Lost
  BY <1>1, <1>3, <1>5 DEF Lost, InFlight, readerVars
<1> QED
  BY <1>1, <1>3, <1>4, <1>5, <1>6

\* The event of w reaches the terminal outcome o.
LEMMA SettleMoves ==
    ASSUME IInv, NEW w \in Workers, worker[w].pc = "call", NEW o \in Outcomes,
           CountHandled(worker[w].ev, o), LeaveProcess(w), UNCHANGED <<queue, readerVars>>
    PROVE  /\ Queued' = Queued /\ worker[w].ev \in Held /\ Held' = Held \ {worker[w].ev}
           /\ Settled' = Settled \cup {worker[w].ev}
           /\ Offering' = Offering /\ Accepted' = Accepted
           /\ Lost' = Lost
<1> DEFINE r == [WorkerAt("gauge") EXCEPT !.depth = Len(queue)]
<1>1. Queued' = Queued /\ Offering' = Offering /\ Accepted' = Accepted
  BY ReaderFrame, QueueFrame
<1>2. r.pc = "gauge" /\ worker' = [worker EXCEPT ![w] = r]
  BY DEF WorkerAt, LeaveProcess
<1> HIDE DEF r
<1>3. worker[w].ev \in Held /\ Held' = Held \ {worker[w].ev}
  BY <1>2, HeldLeaves DEF InProcess
<1>4. Settled' = Settled \cup {worker[w].ev}
  <2>1. Settled' = handled'["ok"] \cup handled'["permanent"] \cup handled'["exhausted"]
    BY DEF Settled, Outcomes
  <2>2. handled'[o] = handled[o] \cup {worker[w].ev}
    BY DEF CountHandled, IInv, TypeOK
  <2>3. \A p \in Outcomes \ {o} : handled'[p] = handled[p]
    BY DEF CountHandled, IInv, TypeOK
  <2> QED
    BY <2>1, <2>2, <2>3, SettledIs DEF Outcomes
<1>5. Lost' = Lost
  BY <1>1, <1>3, <1>4 DEF Lost, InFlight, readerVars
<1> QED
  BY <1>1, <1>3, <1>4, <1>5

\* A transient error, the next attempt, the gauge and the exit move nothing.
LEMMA WorkerStays ==
    ASSUME IInv, NEW w \in Workers,
           \/ HandlerTransient(w) \/ Retry(w) \/ SetDepthWorker(w) \/ WorkerExits(w)
    PROVE  /\ Queued' = Queued /\ Held' = Held /\ Settled' = Settled
           /\ Offering' = Offering /\ Accepted' = Accepted /\ Lost' = Lost
<1>1. Queued' = Queued /\ Settled' = Settled /\ Offering' = Offering /\ Accepted' = Accepted
  BY ReaderFrame, QueueFrame
     DEF HandlerTransient, Retry, SetDepthWorker, WorkerExits, Settled
<1>2. Held' = Held
  <2>1. CASE HandlerTransient(w)
    <3> DEFINE r == [worker[w] EXCEPT !.pc = "backoff"]
    <3>1. /\ worker' = [worker EXCEPT ![w] = r] /\ InProcess(w)
          /\ r.pc = "backoff" /\ r.ev = worker[w].ev
      BY <2>1 DEF HandlerTransient, InProcess, IInv, TypeOK
    <3> HIDE DEF r
    <3> QED
      BY <3>1, HeldKeeps
  <2>2. CASE Retry(w)
    <3> DEFINE r == [worker[w] EXCEPT !.pc = "call", !.attempt = @ + 1]
    <3>1. /\ worker' = [worker EXCEPT ![w] = r] /\ InProcess(w)
          /\ r.pc = "call" /\ r.ev = worker[w].ev
      BY <2>2 DEF Retry, InProcess, IInv, TypeOK
    <3> HIDE DEF r
    <3> QED
      BY <3>1, HeldKeeps
  <2>3. CASE SetDepthWorker(w)
    BY <2>3, HeldIdle DEF SetDepthWorker, WorkerAt, InProcess
  <2>4. CASE WorkerExits(w)
    BY <2>4, HeldIdle DEF WorkerExits, WorkerAt, InProcess
  <2> QED
    BY <2>1, <2>2, <2>3, <2>4
<1>3. UNCHANGED <<next, dropped>>
  BY DEF HandlerTransient, Retry, SetDepthWorker, WorkerExits, readerVars
<1>4. Lost' = Lost
  BY <1>1, <1>2, <1>3 DEF Lost, InFlight
<1> QED
  BY <1>1, <1>2, <1>4

\* A retry cut short moves the event of the worker to those lost.
LEMMA AbandonMoves ==
    ASSUME IInv, NEW w \in Workers, AbandonRetry(w)
    PROVE  /\ Queued' = Queued /\ worker[w].ev \in Held /\ Held' = Held \ {worker[w].ev}
           /\ Settled' = Settled /\ Offering' = Offering /\ Accepted' = Accepted
           /\ Lost' \subseteq Lost \cup {worker[w].ev} /\ Lost \subseteq Lost'
<1> USE DEF AbandonRetry
<1> DEFINE r == [WorkerAt("gauge") EXCEPT !.depth = Len(queue)]
<1>1. /\ Queued' = Queued /\ Settled' = Settled
      /\ Offering' = Offering /\ Accepted' = Accepted
  BY ReaderFrame, QueueFrame DEF Settled
<1>2. r.pc = "gauge" /\ worker' = [worker EXCEPT ![w] = r]
  BY DEF WorkerAt, LeaveProcess
<1> HIDE DEF r
<1>3. worker[w].ev \in Held /\ Held' = Held \ {worker[w].ev}
  BY <1>2, HeldLeaves DEF InProcess
<1>4. Lost' \subseteq Lost \cup {worker[w].ev} /\ Lost \subseteq Lost'
  BY <1>1, <1>3 DEF Lost, InFlight, readerVars
<1> QED
  BY <1>1, <1>3, <1>4

\* The steps of main, and stuttering, move nothing.
LEMMA MainMoves ==
    ASSUME UNCHANGED <<queue, readerVars, workerVars>>
    PROVE  /\ Queued' = Queued /\ Held' = Held /\ Settled' = Settled
           /\ Offering' = Offering /\ Accepted' = Accepted /\ Lost' = Lost
           /\ \A w \in Workers : InProcess(w)' = InProcess(w)
<1>1. /\ Queued' = Queued /\ Held' = Held /\ Settled' = Settled
      /\ Offering' = Offering /\ Accepted' = Accepted
      /\ \A w \in Workers : InProcess(w)' = InProcess(w)
  BY WorkersFrame, ReaderFrame, QueueFrame
<1>2. Lost' = Lost
  BY <1>1 DEF Lost, InFlight, readerVars
<1> QED
  BY <1>1, <1>2

-----------------------------------------------------------------------------
(***************************************************************************)
(* IInv holds initially and every step preserves it.                       *)
(***************************************************************************)

\* The invariant holds when the pool has started and nothing was offered.
LEMMA InitIInv == Init => IInv
<1> SUFFICES ASSUME Init PROVE IInv
  OBVIOUS
<1> USE RouteAssumption DEF Init
<1>1. TypeOK
  <2>1. queue \in Seq(Events) /\ Len(queue) <= Buffer
    OBVIOUS
  <2>2. reader \in [pc : {"idle", "select", "sent", "gauge", "returned"},
                    ev : 0..MaxEvents, depth : 0..Buffer]
    BY DEF ReaderAt
  <2>3. worker \in [Workers -> [pc : {"receive", "call", "backoff", "gauge", "exited"},
                                ev : 0..MaxEvents, attempt : 0..MaxAttempts,
                                depth : 0..Buffer]]
    BY DEF WorkerAt
  <2>4. calls \in [Events -> 0..MaxAttempts] /\ handled \in [Outcomes -> SUBSET Events]
    OBVIOUS
  <2>5. next \in 1..(MaxEvents + 1) /\ gauge \in 0..Buffer
    OBVIOUS
  <2> QED
    BY <2>1, <2>2, <2>3, <2>4, <2>5, Zenon DEF TypeOK
<1>2. Queued = {} /\ Held = {} /\ Settled = {} /\ Offering = {} /\ Accepted = {}
  BY SettledIs DEF Queued, Held, InProcess, WorkerAt, ReaderAt, Offering, Accepted, Outcomes
<1>3. Lost = {}
  BY DEF Lost, Events
<1>4. ReaderInv /\ WorkerInv /\ NoSendOnClosed
  BY DEF ReaderInv, WorkerInv, NoSendOnClosed, ReaderAt, WorkerAt, InProcess
<1>5. Past
  BY <1>2 DEF Past, InFlight
<1>6. DrainInv
  BY DEF DrainInv, WorkerAt
<1>7. OnePlace
  BY <1>2 DEF OnePlace, InFlight, InProcess, WorkerAt, Outcomes
<1>8. NothingLost
  BY <1>3 DEF NothingLost
<1>9. RetryBudget
  BY <1>2 DEF RetryBudget, WorkerAt, Outcomes
<1> QED
  BY <1>1, <1>4, <1>5, <1>6, <1>7, <1>8, <1>9 DEF IInv

\* Offer preserves the invariant: the event it numbers is new everywhere.
LEMMA OfferIInv == IInv /\ Offer => IInv'
<1> SUFFICES ASSUME IInv, Offer PROVE IInv'
  OBVIOUS
<1>0. /\ Queued' = Queued /\ Held' = Held /\ Settled' = Settled
      /\ Offering = {} /\ Offering' = {next} /\ Accepted' = Accepted /\ Lost' = Lost
      /\ \A w \in Workers : InProcess(w)' = InProcess(w)
  BY OfferMoves, WorkersFrame DEF Offer
<1>1. TypeOK'
  BY RouteAssumption DEF IInv, TypeOK, Offer, workerVars, processVars, Events
<1>2. ReaderInv' /\ WorkerInv' /\ NoSendOnClosed' /\ DrainInv'
  BY RouteAssumption DEF IInv, TypeOK, ReaderInv, WorkerInv, NoSendOnClosed, DrainInv, Offer, workerVars,
     processVars, Events, InProcess
<1>3. Past'
  BY <1>0, SetsInEvents DEF IInv, TypeOK, Past, InFlight, Offer
<1>4. OnePlace'
  BY <1>0 DEF IInv, OnePlace, InFlight, Offer, workerVars
<1>5. NothingLost' /\ RetryBudget'
  BY <1>0 DEF IInv, NothingLost, RetryBudget, Offer, workerVars, processVars
<1> QED
  BY <1>1, <1>2, <1>3, <1>4, <1>5 DEF IInv

\* A send preserves the invariant: the buffer has room and the event is new to it.
LEMMA SendIInv == IInv /\ Send => IInv'
<1> SUFFICES ASSUME IInv, Send PROVE IInv'
  OBVIOUS
<1>0. /\ Queued' = Queued \cup {reader.ev} /\ Held' = Held /\ Settled' = Settled
      /\ Offering = {reader.ev} /\ Offering' = {}
      /\ Accepted' = Accepted \cup {reader.ev} /\ Lost' = Lost
      /\ \A w \in Workers : InProcess(w)' = InProcess(w)
  BY SendMoves, WorkersFrame DEF Send
<1>a. /\ reader.ev \in Events /\ next = reader.ev + 1 /\ reader.ev < next
      /\ reader'.ev = reader.ev /\ reader'.pc = "sent"
  BY RouteAssumption DEF IInv, TypeOK, ReaderInv, Send, Events
<1>b. reader.ev \notin InFlight \cup Settled \cup dropped \cup routed
  BY <1>0 DEF IInv, Past
<1>1. TypeOK'
  <2>1. queue' \in Seq(Events) /\ Len(queue') <= Buffer
    BY <1>a, RouteAssumption DEF IInv, TypeOK, Send
  <2>2. reader' \in [pc : {"idle", "select", "sent", "gauge", "returned"},
                     ev : 0..MaxEvents, depth : 0..Buffer]
    BY DEF IInv, TypeOK, Send
  <2> QED
    BY <2>1, <2>2 DEF IInv, TypeOK, Send, workerVars, processVars
<1>2. ReaderInv' /\ WorkerInv' /\ NoSendOnClosed' /\ DrainInv'
  <2>1. ReaderInv' /\ WorkerInv'
    BY <1>0, <1>a DEF IInv, ReaderInv, WorkerInv, Send, workerVars
  <2>2. ~closed
    BY DEF IInv, NoSendOnClosed, Send
  <2> QED
    BY <2>1, <2>2 DEF IInv, NoSendOnClosed, DrainInv, Send, workerVars, processVars
<1>3. Past'
  BY <1>0, <1>a DEF IInv, Past, InFlight, Send
<1>4. OnePlace'
  <2>1. \A i, j \in DOMAIN queue' : queue'[i] = queue'[j] => i = j
    <3>1. /\ Len(queue') = Len(queue) + 1 /\ Len(queue) \in Nat
          /\ DOMAIN queue = 1..Len(queue) /\ DOMAIN queue' = 1..Len(queue')
          /\ \A i \in 1..Len(queue) : queue'[i] = queue[i]
          /\ queue'[Len(queue) + 1] = reader.ev
      BY <1>a DEF IInv, TypeOK, Send
    <3>2. \A i \in 1..Len(queue) : queue[i] # reader.ev
      BY <1>b, <3>1 DEF Queued, InFlight
    <3> QED
      BY <3>1, <3>2 DEF IInv, OnePlace
  <2>2. /\ \A v, w \in Workers : InProcess(v)' /\ InProcess(w)' /\ worker'[v].ev = worker'[w].ev
                                    => v = w
        /\ \A o, p \in Outcomes : o # p => handled'[o] \cap handled'[p] = {}
    BY <1>0 DEF IInv, OnePlace, Send, workerVars
  <2>3. /\ Queued' \cap Held' = {} /\ InFlight' \cap Settled' = {}
        /\ dropped' \cap Accepted' = {}
        /\ Accepted' = InFlight' \cup Settled' \cup (Accepted' \cap Lost')
    BY <1>0, <1>b DEF IInv, OnePlace, InFlight, Send
  <2> QED
    BY <2>1, <2>2, <2>3 DEF OnePlace
<1>5. NothingLost' /\ RetryBudget'
  <2>1. reader.ev \notin Lost
    BY <1>0 DEF Lost
  <2> QED
    BY <1>0, <2>1 DEF IInv, NothingLost, RetryBudget, Send, workerVars, processVars
<1> QED
  BY <1>1, <1>2, <1>3, <1>4, <1>5 DEF IInv

\* The counters after the send, and the return of the reader.
LEMMA CountIInv == IInv /\ (CountRouted \/ SetDepthReader \/ ReaderReturns) => IInv'
<1> SUFFICES ASSUME IInv, CountRouted \/ SetDepthReader \/ ReaderReturns PROVE IInv'
  OBVIOUS
<1> USE DEF CountRouted, SetDepthReader, ReaderReturns
<1>0. /\ Queued' = Queued /\ Held' = Held /\ Settled' = Settled
      /\ Offering = {} /\ Offering' = {} /\ Accepted' = Accepted /\ Lost' = Lost
      /\ \A w \in Workers : InProcess(w)' = InProcess(w)
  BY CountMoves, WorkersFrame
<1>a. reader.pc = "sent" => reader.ev \in Events /\ next = reader.ev + 1 /\ reader.ev < next
  BY RouteAssumption DEF IInv, ReaderInv, Events
<1>b. /\ UNCHANGED <<next, queue, dropped, workerVars, processVars>>
      /\ routed' = routed \/ (routed' = routed \cup {reader.ev} /\ reader.pc = "sent")
      /\ gauge' = gauge \/ gauge' = reader.depth
      /\ \/ reader' = ReaderAt("idle") \/ reader' = ReaderAt("returned")
         \/ reader' = [reader EXCEPT !.pc = "gauge", !.depth = Len(queue)] /\ reader.pc = "sent"
  <2>1. CASE CountRouted
    BY <2>1
  <2>2. CASE SetDepthReader
    BY <2>2
  <2>3. CASE ReaderReturns
    BY <2>3
  <2> QED
    BY <2>1, <2>2, <2>3
<1>1. TypeOK'
  <2>1. Len(queue) \in 0..Buffer
    BY RouteAssumption DEF IInv, TypeOK
  <2>2. reader' \in [pc : {"idle", "select", "sent", "gauge", "returned"},
                     ev : 0..MaxEvents, depth : 0..Buffer]
    <3>1. CASE reader' = ReaderAt("idle") \/ reader' = ReaderAt("returned")
      BY <3>1, RouteAssumption DEF ReaderAt
    <3>2. CASE reader' = [reader EXCEPT !.pc = "gauge", !.depth = Len(queue)]
      BY <3>2, <2>1 DEF IInv, TypeOK
    <3> QED
      BY <3>1, <3>2, <1>b
  <2>3. gauge' \in 0..Buffer
    BY <1>b DEF IInv, TypeOK
  <2>4. routed' \subseteq Events
    BY <1>a, <1>b DEF IInv, TypeOK
  <2> QED
    BY <2>2, <2>3, <2>4, <1>b DEF IInv, TypeOK, workerVars, processVars
<1>2. ReaderInv' /\ WorkerInv' /\ NoSendOnClosed' /\ DrainInv'
  <2>1. ReaderInv'
    <3>1. CASE reader' = ReaderAt("idle") \/ reader' = ReaderAt("returned")
      BY <3>1 DEF ReaderAt, ReaderInv
    <3>2. CASE /\ reader' = [reader EXCEPT !.pc = "gauge", !.depth = Len(queue)]
               /\ reader.pc = "sent"
      BY <3>2, <1>a, <1>b DEF IInv, TypeOK, ReaderInv
    <3> QED
      BY <3>1, <3>2, <1>b
  <2>2. NoSendOnClosed'
    BY DEF IInv, NoSendOnClosed, processVars, ReaderAt
  <2> QED
    BY <2>1, <2>2, <1>0, <1>b DEF IInv, WorkerInv, DrainInv, workerVars, processVars
<1>3. Past'
  BY <1>0, <1>a, <1>b DEF IInv, Past, InFlight
<1>4. OnePlace'
  BY <1>0, <1>b DEF IInv, OnePlace, InFlight, workerVars
<1>5. NothingLost' /\ RetryBudget'
  BY <1>0, <1>b DEF IInv, NothingLost, RetryBudget, workerVars, processVars
<1> QED
  BY <1>1, <1>2, <1>3, <1>4, <1>5 DEF IInv

\* An offer that ends without a send: shed, or withdrawn after the signal.
LEMMA RefuseIInv == IInv /\ (ShedEvent \/ OfferCancelled) => IInv'
<1> SUFFICES ASSUME IInv, ShedEvent \/ OfferCancelled PROVE IInv'
  OBVIOUS
<1> USE DEF ShedEvent, OfferCancelled
<1>0. /\ Queued' = Queued /\ Held' = Held /\ Settled' = Settled
      /\ Offering = {reader.ev} /\ Offering' = {} /\ Accepted' = Accepted
      /\ Lost \subseteq Lost' /\ Lost' \subseteq Lost \cup {reader.ev}
      /\ \A w \in Workers : InProcess(w)' = InProcess(w)
  BY ShedMoves, OfferCancelledMoves, WorkersFrame
<1>a. reader.ev \in Events /\ next = reader.ev + 1 /\ reader.ev < next
  BY RouteAssumption DEF IInv, ReaderInv, Events
<1>b. /\ UNCHANGED <<next, queue, routed, gauge, workerVars, processVars>>
      /\ \/ dropped' = dropped /\ ctxDone /\ Policy = "block"
         \/ dropped' = dropped \cup {reader.ev} /\ Lost' = Lost
  BY ShedMoves
<1>c. reader.ev \notin InFlight \cup Settled \cup dropped \cup routed \cup Lost \cup Accepted
  BY <1>0 DEF IInv, Past, Lost, Accepted
<1>d. calls[reader.ev] = 0
  BY <1>a, <1>c DEF IInv, RetryBudget, InFlight
<1>1. TypeOK'
  <2>1. reader' \in [pc : {"idle", "select", "sent", "gauge", "returned"},
                     ev : 0..MaxEvents, depth : 0..Buffer]
    BY RouteAssumption DEF ReaderAt
  <2> QED
    BY <2>1, <1>a, <1>b DEF IInv, TypeOK, workerVars, processVars
<1>2. ReaderInv' /\ WorkerInv' /\ NoSendOnClosed' /\ DrainInv'
  <2>1. ReaderInv'
    BY DEF ReaderInv, ReaderAt
  <2>2. NoSendOnClosed'
    BY DEF IInv, NoSendOnClosed, processVars, ReaderAt
  <2> QED
    BY <2>1, <2>2, <1>0, <1>b DEF IInv, WorkerInv, DrainInv, workerVars, processVars
<1>3. Past'
  BY <1>0, <1>a, <1>b DEF IInv, Past, InFlight
<1>4. OnePlace'
  <2>1. Accepted' \cap Lost' = Accepted \cap Lost
    BY <1>0, <1>c
  <2> QED
    BY <1>0, <1>b, <1>c, <2>1 DEF IInv, OnePlace, InFlight, workerVars
<1>5. NothingLost'
  <2>1. Lost' # {} => ctxDone'
    BY <1>0, <1>b DEF IInv, NothingLost, processVars
  <2>2. ASSUME NEW e \in Lost'
        PROVE IF e \in Accepted' THEN calls'[e] \in 1..(MaxAttempts - 1)
                                 ELSE Policy = "block" /\ calls'[e] = 0
    <3>1. calls' = calls
      BY <1>b DEF workerVars
    <3>2. CASE e \in Lost
      BY <3>1, <3>2, <1>0 DEF IInv, NothingLost
    <3>3. CASE e \notin Lost
      BY <3>1, <3>3, <1>0, <1>b, <1>c, <1>d
    <3> QED
      BY <3>2, <3>3
  <2> QED
    BY <2>1, <2>2 DEF NothingLost
<1>6. RetryBudget'
  BY <1>0, <1>b DEF IInv, RetryBudget, workerVars
<1> QED
  BY <1>1, <1>2, <1>3, <1>4, <1>5, <1>6 DEF IInv

\* What a worker record may be.
WorkerRecord == [pc : {"receive", "call", "backoff", "gauge", "exited"},
                 ev : 0..MaxEvents, attempt : 0..MaxAttempts, depth : 0..Buffer]

\* The reader's part of the invariant under a step of a worker.
LEMMA ReaderPart ==
    ASSUME IInv, UNCHANGED readerVars, UNCHANGED processVars
    PROVE  ReaderInv' /\ NoSendOnClosed'
BY DEF IInv, ReaderInv, NoSendOnClosed, readerVars, processVars

\* A receive preserves the invariant: the head leaves the buffer for one worker.
LEMMA ReceiveIInv == \A w \in Workers : IInv /\ Receive(w) => IInv'
<1> SUFFICES ASSUME NEW w \in Workers, IInv, Receive(w) PROVE IInv'
  OBVIOUS
<1> USE DEF Receive
<1> DEFINE e == Head(queue)
           r == [pc |-> "call", ev |-> e, attempt |-> 1, depth |-> 0]
<1>0. /\ Queued = Queued' \cup {e} /\ e \notin Queued' /\ e \in Events
      /\ Held' = Held \cup {e} /\ Settled' = Settled
      /\ Offering' = Offering /\ Accepted' = Accepted /\ Lost' = Lost
  BY ReceiveMoves
<1>a. /\ worker'[w] = r /\ InProcess(w)' /\ ~InProcess(w)
      /\ \A v \in Workers \ {w} : InProcess(v)' = InProcess(v) /\ worker'[v] = worker[v]
  <2>1. worker' = [worker EXCEPT ![w] = r] /\ r.pc = "call" /\ ~InProcess(w)
    BY DEF InProcess
  <2> HIDE DEF r
  <2> QED
    BY <2>1, HeldAfter
<1>b. /\ queue' \in Seq(Events) /\ Len(queue') = Len(queue) - 1 /\ Len(queue) >= 1
      /\ \A i \in 1..Len(queue') : queue'[i] = queue[i + 1]
  BY TailQueued DEF IInv, TypeOK
<1>c. UNCHANGED <<ctxDone, next, reader, closed, calls, routed, dropped, handled,
                  panics, gauge, drain>>
  BY DEF readerVars, processVars
<1>d. e \in Queued /\ e \notin Held /\ e \notin Settled /\ e \notin Lost
  BY <1>0 DEF IInv, OnePlace, InFlight, Lost
<1>1. TypeOK'
  <2>1. r \in WorkerRecord
    BY <1>0, RouteAssumption DEF WorkerRecord, Events
  <2>2. worker' \in [Workers -> WorkerRecord]
    BY <2>1 DEF IInv, TypeOK, WorkerRecord
  <2>3. queue' \in Seq(Events) /\ Len(queue') <= Buffer
    BY <1>b, RouteAssumption DEF IInv, TypeOK
  <2> QED
    BY <2>2, <2>3, <1>c DEF IInv, TypeOK, WorkerRecord
<1>2. ReaderInv' /\ WorkerInv' /\ NoSendOnClosed' /\ DrainInv'
  <2>1. ReaderInv' /\ NoSendOnClosed'
    BY ReaderPart
  <2>2. WorkerInv'
    BY <1>0, <1>a DEF IInv, WorkerInv
  <2>3. DrainInv'
    BY <1>a, <1>c DEF IInv, DrainInv
  <2> QED
    BY <2>1, <2>2, <2>3
<1>3. Past'
  BY <1>0, <1>c DEF IInv, Past, InFlight
<1>4. OnePlace'
  <2>1. \A i, j \in DOMAIN queue' : queue'[i] = queue'[j] => i = j
    <3>1. /\ DOMAIN queue = 1..Len(queue) /\ DOMAIN queue' = 1..Len(queue')
          /\ Len(queue) \in Nat
      BY <1>b DEF IInv, TypeOK
    <3>2. SUFFICES ASSUME NEW i \in DOMAIN queue', NEW j \in DOMAIN queue',
                          queue'[i] = queue'[j]
                   PROVE  i = j
      OBVIOUS
    <3>3. /\ i + 1 \in DOMAIN queue /\ j + 1 \in DOMAIN queue
          /\ queue[i + 1] = queue[j + 1]
      BY <1>b, <3>1, <3>2
    <3>4. i + 1 = j + 1
      BY <3>3 DEF IInv, OnePlace
    <3> QED
      BY <3>1, <3>4
  <2>2. \A u, v \in Workers : InProcess(u)' /\ InProcess(v)' /\ worker'[u].ev = worker'[v].ev
                                 => u = v
    <3>1. \A v \in Workers \ {w} : InProcess(v)' => worker'[v].ev # e
      BY <1>a, <1>d DEF Held
    <3>2. worker'[w].ev = e
      BY <1>a
    <3> QED
      BY <1>a, <3>1, <3>2 DEF IInv, OnePlace
  <2>3. \A o, p \in Outcomes : o # p => handled'[o] \cap handled'[p] = {}
    BY <1>c DEF IInv, OnePlace
  <2>4. /\ Queued' \cap Held' = {} /\ InFlight' = InFlight
    BY <1>0, <1>d DEF IInv, OnePlace, InFlight
  <2> QED
    BY <2>1, <2>2, <2>3, <2>4, <1>0, <1>c DEF IInv, OnePlace
<1>5. NothingLost'
  BY <1>0, <1>c DEF IInv, NothingLost
<1>6. RetryBudget'
  <2>1. calls[e] = 0
    BY <1>0, <1>d DEF IInv, RetryBudget
  <2>2. \A v \in Workers :
          /\ worker'[v].pc = "call" => calls[worker'[v].ev] = worker'[v].attempt - 1
          /\ worker'[v].pc = "backoff" => calls[worker'[v].ev] = worker'[v].attempt
    BY <2>1, <1>a DEF IInv, RetryBudget
  <2> QED
    BY <2>2, <1>0, <1>c DEF IInv, RetryBudget
<1> QED
  BY <1>1, <1>2, <1>3, <1>4, <1>5, <1>6 DEF IInv

\* A worker that is out of process before and after: it exits, or goes back
\* to receive after setting the gauge.
LEMMA IdleWorkerIInv ==
    \A w \in Workers : IInv /\ (WorkerExits(w) \/ SetDepthWorker(w)) => IInv'
<1> SUFFICES ASSUME NEW w \in Workers, IInv, WorkerExits(w) \/ SetDepthWorker(w) PROVE IInv'
  OBVIOUS
<1>0. /\ Queued' = Queued /\ Held' = Held /\ Settled' = Settled
      /\ Offering' = Offering /\ Accepted' = Accepted /\ Lost' = Lost
  BY WorkerStays
<1>a. PICK p \in {"exited", "receive"} :
        /\ worker' = [worker EXCEPT ![w] = WorkerAt(p)]
        /\ p = "exited" => closed /\ queue = <<>>
        /\ p = "receive" => worker[w].pc = "gauge"
        /\ ~InProcess(w)
  BY DEF WorkerExits, SetDepthWorker, InProcess
<1>b. /\ worker'[w] = WorkerAt(p) /\ ~InProcess(w)'
      /\ \A v \in Workers \ {w} : InProcess(v)' = InProcess(v) /\ worker'[v] = worker[v]
  <2>1. WorkerAt(p).pc \notin {"call", "backoff"}
    BY DEF WorkerAt
  <2> QED
    BY <1>a, <2>1, HeldAfter
<1>c. /\ UNCHANGED <<ctxDone, next, reader, closed, calls, queue, routed, dropped, handled,
                  panics, drain>>
      /\ gauge' \in 0..Buffer
  BY DEF WorkerExits, SetDepthWorker, readerVars, processVars, IInv, TypeOK
<1>d. WorkerAt(p).pc = p
  BY DEF WorkerAt
<1>1. TypeOK'
  <2>1. WorkerAt(p) \in WorkerRecord
    BY RouteAssumption DEF WorkerRecord, WorkerAt
  <2>2. worker' \in [Workers -> WorkerRecord]
    BY <1>a, <2>1 DEF IInv, TypeOK, WorkerRecord
  <2> QED
    BY <2>2, <1>c DEF IInv, TypeOK, WorkerRecord
<1>2. ReaderInv' /\ WorkerInv' /\ NoSendOnClosed' /\ DrainInv'
  <2>1. ReaderInv' /\ NoSendOnClosed'
    BY <1>c DEF IInv, ReaderInv, NoSendOnClosed
  <2>2. WorkerInv'
    BY <1>b, <1>d DEF IInv, WorkerInv
  <2>3. DrainInv'
    BY <1>a, <1>b, <1>c, <1>d DEF IInv, DrainInv
  <2> QED
    BY <2>1, <2>2, <2>3
<1>3. Past'
  BY <1>0, <1>c DEF IInv, Past, InFlight
<1>4. OnePlace'
  <2>1. \A u, v \in Workers : InProcess(u)' /\ InProcess(v)' /\ worker'[u].ev = worker'[v].ev
                                 => u = v
    BY <1>b DEF IInv, OnePlace
  <2> QED
    BY <2>1, <1>0, <1>c DEF IInv, OnePlace, InFlight
<1>5. NothingLost'
  BY <1>0, <1>c DEF IInv, NothingLost
<1>6. RetryBudget'
  <2>2. \A v \in Workers :
          /\ worker'[v].pc = "call" => calls[worker'[v].ev] = worker'[v].attempt - 1
          /\ worker'[v].pc = "backoff" => calls[worker'[v].ev] = worker'[v].attempt
    BY <1>b, <1>d DEF IInv, RetryBudget
  <2> QED
    BY <2>2, <1>0, <1>c DEF IInv, RetryBudget
<1> QED
  BY <1>1, <1>2, <1>3, <1>4, <1>5, <1>6 DEF IInv

\* The handler gives its last answer on the event of w: outcome o.
LEMMA SettleIInv ==
    ASSUME IInv, NEW w \in Workers, worker[w].pc = "call", NEW o \in Outcomes,
           CountCall(worker[w].ev), CountHandled(worker[w].ev, o), LeaveProcess(w),
           panics' = panics \/ (o = "permanent" /\ panics' = panics \cup {worker[w].ev}),
           o = "exhausted" => worker[w].attempt >= MaxAttempts,
           UNCHANGED <<queue, gauge, readerVars, processVars>>
    PROVE  IInv'
<1> DEFINE e == worker[w].ev
           r == [WorkerAt("gauge") EXCEPT !.depth = Len(queue)]
<1>0. /\ Queued' = Queued /\ e \in Held /\ Held' = Held \ {e}
      /\ Settled' = Settled \cup {e}
      /\ Offering' = Offering /\ Accepted' = Accepted /\ Lost' = Lost
  BY SettleMoves
<1>a. /\ r.pc = "gauge" /\ worker' = [worker EXCEPT ![w] = r]
      /\ r \in WorkerRecord
  <2>1. Len(queue) \in 0..Buffer
    BY RouteAssumption DEF IInv, TypeOK
  <2> QED
    BY <2>1, RouteAssumption DEF WorkerAt, LeaveProcess, WorkerRecord
<1> HIDE DEF r
<1>b. /\ worker'[w] = r /\ ~InProcess(w)' /\ InProcess(w)
      /\ \A v \in Workers \ {w} : InProcess(v)' = InProcess(v) /\ worker'[v] = worker[v]
  BY <1>a, HeldAfter DEF InProcess
<1>c. UNCHANGED <<ctxDone, next, reader, closed, routed, dropped, drain, queue, gauge>>
  BY DEF readerVars, processVars
<1>d. /\ e \in Events /\ e \notin Queued /\ e \notin Settled /\ e \notin Lost
      /\ \A v \in Workers \ {w} : InProcess(v) => worker[v].ev # e
  BY <1>0, <1>b DEF IInv, OnePlace, InFlight, Lost, WorkerInv
<1>e. /\ calls' = [calls EXCEPT ![e] = @ + 1] /\ calls[e] = worker[w].attempt - 1
      /\ calls'[e] = worker[w].attempt /\ calls'[e] \in 1..MaxAttempts
      /\ \A f \in Events \ {e} : calls'[f] = calls[f]
  <2>1. calls' = [calls EXCEPT ![e] = @ + 1] /\ calls[e] = worker[w].attempt - 1
    BY DEF CountCall, IInv, RetryBudget
  <2>2. worker[w].attempt \in 1..MaxAttempts
    BY <1>b, RouteAssumption DEF IInv, TypeOK, WorkerInv
  <2> QED
    BY <2>1, <2>2, <1>d, RouteAssumption DEF IInv, TypeOK
<1>f. /\ handled'[o] = handled[o] \cup {e}
      /\ \A p \in Outcomes \ {o} : handled'[p] = handled[p]
      /\ handled' \in [Outcomes -> SUBSET Events]
  BY <1>d DEF CountHandled, IInv, TypeOK
<1>g. panics' = panics \/ (o = "permanent" /\ panics' = panics \cup {e})
  OBVIOUS
<1>h. o = "exhausted" => calls'[e] = MaxAttempts
  BY <1>e, RouteAssumption
<1> HIDE DEF e
<1>1. TypeOK'
  <2>1. worker' \in [Workers -> WorkerRecord]
    BY <1>a DEF IInv, TypeOK, WorkerRecord
  <2>2. calls' \in [Events -> 0..MaxAttempts]
    <3>1. \A f \in Events : calls'[f] \in 0..MaxAttempts
      BY <1>e, RouteAssumption DEF IInv, TypeOK
    <3>2. DOMAIN calls' = Events /\ calls' = [f \in DOMAIN calls' |-> calls'[f]]
      BY <1>e DEF IInv, TypeOK
    <3> QED
      BY <3>1, <3>2
  <2>3. panics' \subseteq Events
    BY <1>d, <1>g DEF IInv, TypeOK
  <2> QED
    BY <2>1, <2>2, <2>3, <1>c, <1>f DEF IInv, TypeOK, WorkerRecord
<1>2. ReaderInv' /\ WorkerInv' /\ NoSendOnClosed' /\ DrainInv'
  <2>1. ReaderInv' /\ NoSendOnClosed'
    BY <1>c DEF IInv, ReaderInv, NoSendOnClosed
  <2>2. WorkerInv'
    BY <1>a, <1>b DEF IInv, WorkerInv
  <2>3. DrainInv'
    BY <1>a, <1>b, <1>c DEF IInv, DrainInv, InProcess
  <2> QED
    BY <2>1, <2>2, <2>3
<1>3. Past'
  BY <1>0, <1>c DEF IInv, Past, InFlight
<1>4. OnePlace'
  <2>1. \A u, v \in Workers : InProcess(u)' /\ InProcess(v)' /\ worker'[u].ev = worker'[v].ev
                                 => u = v
    BY <1>b DEF IInv, OnePlace
  <2>2. \A p, q \in Outcomes : p # q => handled'[p] \cap handled'[q] = {}
    <3>1. \A p \in Outcomes : e \notin handled[p]
      BY <1>d DEF Settled
    <3> QED
      BY <3>1, <1>f DEF IInv, OnePlace
  <2> QED
    BY <2>1, <2>2, <1>0, <1>c, <1>d DEF IInv, OnePlace, InFlight
<1>5. NothingLost'
  <2>1. \A f \in Lost : calls'[f] = calls[f]
    BY <1>d, <1>e DEF Lost
  <2> QED
    BY <2>1, <1>0, <1>c DEF IInv, NothingLost
<1>6. RetryBudget'
  <2>1. \A f \in Events : calls'[f] <= MaxAttempts
    BY <1>e, RouteAssumption DEF IInv, RetryBudget
  <2>2. \A f \in handled'["exhausted"] : calls'[f] = MaxAttempts
    <3>1. \A f \in handled["exhausted"] : f \in Events /\ f # e
      BY <1>d, SettledIs DEF IInv, TypeOK, Outcomes
    <3> QED
      BY <3>1, <1>e, <1>f, <1>h DEF IInv, RetryBudget, Outcomes
  <2>3. \A f \in Settled' : calls'[f] >= 1
    <3>1. \A f \in Settled : f \in Events /\ f # e
      BY <1>d, SettledIs DEF IInv, TypeOK, Outcomes
    <3> QED
      BY <3>1, <1>0, <1>e, RouteAssumption DEF IInv, RetryBudget
  <2>4. panics' \subseteq handled'["permanent"]
    BY <1>f, <1>g DEF IInv, RetryBudget, Outcomes
  <2>5. ASSUME NEW v \in Workers
        PROVE  /\ worker'[v].pc = "call" => calls'[worker'[v].ev] = worker'[v].attempt - 1
               /\ worker'[v].pc = "backoff" => calls'[worker'[v].ev] = worker'[v].attempt
    <3>1. CASE v = w
      BY <3>1, <1>a, <1>b
    <3>2. CASE v # w
      <4>1. InProcess(v) => worker[v].ev \in Events \ {e}
        BY <3>2, <1>d DEF IInv, WorkerInv
      <4> QED
        BY <3>2, <4>1, <1>b, <1>e DEF IInv, RetryBudget, InProcess
    <3> QED
      BY <3>1, <3>2
  <2>6. \A f \in Events \ (Held' \cup Settled' \cup Lost') : calls'[f] = 0
    BY <1>0, <1>e DEF IInv, RetryBudget
  <2> QED
    BY <2>1, <2>2, <2>3, <2>4, <2>5, <2>6 DEF RetryBudget
<1> QED
  BY <1>1, <1>2, <1>3, <1>4, <1>5, <1>6 DEF IInv

\* The signal, the steps of Drain and stuttering preserve the invariant.
LEMMA MainIInv ==
    IInv /\ (Main \/ Terminated \/ UNCHANGED vars) => IInv'
<1> SUFFICES ASSUME IInv, Main \/ Terminated \/ UNCHANGED vars PROVE IInv'
  OBVIOUS
<1>a. UNCHANGED <<queue, gauge, readerVars, workerVars>>
  BY DEF Main, Cancel, DrainStarts, DrainEnds, DrainTimesOut, Terminated, vars,
         readerVars, workerVars
<1>0. /\ Queued' = Queued /\ Held' = Held /\ Settled' = Settled
      /\ Offering' = Offering /\ Accepted' = Accepted /\ Lost' = Lost
      /\ \A w \in Workers : InProcess(w)' = InProcess(w)
  BY <1>a, MainMoves
<1>b. UNCHANGED <<next, reader, queue, worker, calls, routed, dropped, handled, panics, gauge>>
  BY <1>a DEF readerVars, workerVars
<1>c. /\ ctxDone => ctxDone'
      /\ ctxDone' \in BOOLEAN /\ closed' \in BOOLEAN
      /\ drain' \in {"no", "waiting", "drained", "abandoned"}
      /\ closed' => closed \/ reader.pc = "returned"
      /\ closed => closed'
      /\ closed' <=> drain' # "no"
      /\ drain' = "drained" => \A w \in Workers : worker[w].pc = "exited"
  <2>1. CASE Cancel
    BY <2>1 DEF Cancel, IInv, TypeOK, DrainInv
  <2>2. CASE DrainStarts
    BY <2>2 DEF DrainStarts, IInv, TypeOK, DrainInv
  <2>3. CASE DrainEnds
    BY <2>3 DEF DrainEnds, IInv, TypeOK, DrainInv
  <2>4. CASE DrainTimesOut
    BY <2>4 DEF DrainTimesOut, IInv, TypeOK, DrainInv
  <2>5. CASE UNCHANGED vars
    BY <2>5 DEF vars, IInv, TypeOK, DrainInv
  <2> QED
    BY <2>1, <2>2, <2>3, <2>4, <2>5 DEF Main, Terminated
<1>1. TypeOK'
  BY <1>b, <1>c DEF IInv, TypeOK
<1>2. ReaderInv' /\ WorkerInv' /\ NoSendOnClosed' /\ DrainInv'
  BY <1>0, <1>b, <1>c DEF IInv, ReaderInv, WorkerInv, NoSendOnClosed, DrainInv
<1>3. Past' /\ OnePlace' /\ NothingLost' /\ RetryBudget'
  BY <1>0, <1>b, <1>c DEF IInv, Past, OnePlace, NothingLost, RetryBudget, InFlight
<1> QED
  BY <1>1, <1>2, <1>3 DEF IInv

\* A transient error with attempts left counts the call and waits.
LEMMA TransientIInv == \A w \in Workers : IInv /\ HandlerTransient(w) => IInv'
<1> SUFFICES ASSUME NEW w \in Workers, IInv, HandlerTransient(w) PROVE IInv'
  OBVIOUS
<1> DEFINE e == worker[w].ev
           r == [worker[w] EXCEPT !.pc = "backoff"]
<1>0. /\ Queued' = Queued /\ Held' = Held /\ Settled' = Settled
      /\ Offering' = Offering /\ Accepted' = Accepted /\ Lost' = Lost
  BY WorkerStays
<1>a. /\ worker' = [worker EXCEPT ![w] = r] /\ r \in WorkerRecord
      /\ r.pc = "backoff" /\ r.ev = e /\ r.attempt = worker[w].attempt
      /\ InProcess(w) /\ worker[w].pc = "call"
  BY DEF HandlerTransient, IInv, TypeOK, WorkerRecord, InProcess
<1> HIDE DEF r
<1>b. /\ worker'[w] = r /\ InProcess(w)'
      /\ \A v \in Workers \ {w} : InProcess(v)' = InProcess(v) /\ worker'[v] = worker[v]
  BY <1>a, HeldAfter
<1>c. UNCHANGED <<ctxDone, next, reader, closed, routed, dropped, drain, queue, gauge,
                  handled, panics>>
  BY DEF HandlerTransient, readerVars, processVars
<1>d. /\ e \in Events /\ e \in Held /\ e \notin Settled /\ e \notin Lost
      /\ \A v \in Workers \ {w} : InProcess(v) => worker[v].ev # e
  BY <1>a DEF IInv, OnePlace, InFlight, Lost, WorkerInv, Held
<1>e. /\ calls' = [calls EXCEPT ![e] = @ + 1]
      /\ calls'[e] = worker[w].attempt /\ calls'[e] \in 1..(MaxAttempts - 1)
      /\ \A f \in Events \ {e} : calls'[f] = calls[f]
  <2>1. calls' = [calls EXCEPT ![e] = @ + 1] /\ calls[e] = worker[w].attempt - 1
    BY <1>a DEF HandlerTransient, CountCall, IInv, RetryBudget
  <2>2. worker[w].attempt \in 1..(MaxAttempts - 1)
    BY <1>a, RouteAssumption DEF HandlerTransient, IInv, TypeOK, WorkerInv
  <2> QED
    BY <2>1, <2>2, <1>d, RouteAssumption DEF IInv, TypeOK
<1> HIDE DEF e
<1>1. TypeOK'
  <2>1. worker' \in [Workers -> WorkerRecord]
    BY <1>a DEF IInv, TypeOK, WorkerRecord
  <2>2. calls' \in [Events -> 0..MaxAttempts]
    <3>1. \A f \in Events : calls'[f] \in 0..MaxAttempts
      BY <1>e, RouteAssumption DEF IInv, TypeOK
    <3>2. DOMAIN calls' = Events /\ calls' = [f \in DOMAIN calls' |-> calls'[f]]
      BY <1>e DEF IInv, TypeOK
    <3> QED
      BY <3>1, <3>2
  <2> QED
    BY <2>1, <2>2, <1>c DEF IInv, TypeOK, WorkerRecord
<1>2. ReaderInv' /\ WorkerInv' /\ NoSendOnClosed' /\ DrainInv'
  <2>1. ReaderInv' /\ NoSendOnClosed'
    BY <1>c DEF IInv, ReaderInv, NoSendOnClosed
  <2>2. WorkerInv'
    BY <1>a, <1>b, <1>d, <1>e, RouteAssumption DEF IInv, WorkerInv
  <2>3. DrainInv'
    BY <1>a, <1>b, <1>c DEF IInv, DrainInv, InProcess
  <2> QED
    BY <2>1, <2>2, <2>3
<1>3. Past'
  BY <1>0, <1>c DEF IInv, Past, InFlight
<1>4. OnePlace'
  <2>1. \A u, v \in Workers : InProcess(u)' /\ InProcess(v)' /\ worker'[u].ev = worker'[v].ev
                                 => u = v
    BY <1>a, <1>b, <1>d DEF IInv, OnePlace
  <2> QED
    BY <2>1, <1>0, <1>c DEF IInv, OnePlace, InFlight
<1>5. NothingLost'
  <2>1. \A f \in Lost : calls'[f] = calls[f]
    BY <1>d, <1>e DEF Lost
  <2> QED
    BY <2>1, <1>0, <1>c DEF IInv, NothingLost
<1>6. RetryBudget'
  <2>1. \A f \in Events : calls'[f] <= MaxAttempts
    BY <1>e, RouteAssumption DEF IInv, RetryBudget
  <2>2. \A f \in Settled : f \in Events /\ f # e
    BY <1>d, SettledIs DEF IInv, TypeOK, Outcomes
  <2>3. \A f \in handled["exhausted"] : f \in Settled
    BY SettledIs
  <2>4. \A v \in Workers :
          /\ worker'[v].pc = "call" => calls'[worker'[v].ev] = worker'[v].attempt - 1
          /\ worker'[v].pc = "backoff" => calls'[worker'[v].ev] = worker'[v].attempt
    <3> SUFFICES ASSUME NEW v \in Workers
                 PROVE  /\ worker'[v].pc = "call"
                             => calls'[worker'[v].ev] = worker'[v].attempt - 1
                        /\ worker'[v].pc = "backoff"
                             => calls'[worker'[v].ev] = worker'[v].attempt
      OBVIOUS
    <3>1. CASE v = w
      BY <3>1, <1>a, <1>b, <1>e
    <3>2. CASE v # w
      <4>1. InProcess(v) => worker[v].ev \in Events \ {e}
        BY <3>2, <1>d DEF IInv, WorkerInv
      <4> QED
        BY <3>2, <4>1, <1>b, <1>e DEF IInv, RetryBudget, InProcess
    <3> QED
      BY <3>1, <3>2
  <2>5. \A f \in Events \ (Held' \cup Settled' \cup Lost') : calls'[f] = 0
    BY <1>0, <1>d, <1>e DEF IInv, RetryBudget
  <2> QED
    BY <2>1, <2>2, <2>3, <2>4, <2>5, <1>0, <1>c, <1>e DEF IInv, RetryBudget
<1> QED
  BY <1>1, <1>2, <1>3, <1>4, <1>5, <1>6 DEF IInv

\* The next attempt.
LEMMA RetryIInv == \A w \in Workers : IInv /\ Retry(w) => IInv'
<1> SUFFICES ASSUME NEW w \in Workers, IInv, Retry(w) PROVE IInv'
  OBVIOUS
<1> DEFINE r == [worker[w] EXCEPT !.pc = "call", !.attempt = @ + 1]
<1>0. /\ Queued' = Queued /\ Held' = Held /\ Settled' = Settled
      /\ Offering' = Offering /\ Accepted' = Accepted /\ Lost' = Lost
  BY WorkerStays
<1>a. /\ worker' = [worker EXCEPT ![w] = r]
      /\ r.pc = "call" /\ r.ev = worker[w].ev /\ r.attempt = worker[w].attempt + 1
      /\ r \in WorkerRecord
      /\ InProcess(w) /\ worker[w].pc = "backoff"
  <2>1. worker[w] \in WorkerRecord
    BY DEF IInv, TypeOK, WorkerRecord
  <2>2. worker' = [worker EXCEPT ![w] = r] /\ InProcess(w) /\ worker[w].pc = "backoff"
    BY DEF Retry, InProcess
  <2>3. r.pc = "call" /\ r.ev = worker[w].ev /\ r.attempt = worker[w].attempt + 1
    BY <2>1 DEF WorkerRecord
  <2>4. r \in WorkerRecord
    <3>1. worker[w].attempt + 1 \in 0..MaxAttempts
      BY <2>1, <2>2, RouteAssumption DEF IInv, WorkerInv, WorkerRecord
    <3> QED
      BY <2>1, <3>1 DEF WorkerRecord
  <2> QED
    BY <2>2, <2>3, <2>4
<1> HIDE DEF r
<1>b. /\ worker'[w] = r /\ InProcess(w)'
      /\ \A v \in Workers \ {w} : InProcess(v)' = InProcess(v) /\ worker'[v] = worker[v]
  BY <1>a, HeldAfter
<1>c. UNCHANGED <<ctxDone, next, reader, closed, routed, dropped, drain, queue, gauge,
                  calls, handled, panics>>
  BY DEF Retry, readerVars, processVars
<1>d. /\ worker[w].ev \in Events /\ worker[w].attempt \in 1..(MaxAttempts - 1)
      /\ calls[worker[w].ev] = worker[w].attempt
  BY <1>a, RouteAssumption DEF IInv, TypeOK, WorkerInv, RetryBudget
<1>1. TypeOK'
  <2>1. worker' \in [Workers -> WorkerRecord]
    BY <1>a DEF IInv, TypeOK, WorkerRecord
  <2> QED
    BY <2>1, <1>c DEF IInv, TypeOK, WorkerRecord
<1>2. ReaderInv' /\ WorkerInv' /\ NoSendOnClosed' /\ DrainInv'
  <2>1. ReaderInv' /\ NoSendOnClosed'
    BY <1>c DEF IInv, ReaderInv, NoSendOnClosed
  <2>2. WorkerInv'
    BY <1>a, <1>b, <1>d DEF IInv, WorkerInv
  <2>3. DrainInv'
    BY <1>a, <1>b, <1>c DEF IInv, DrainInv, InProcess
  <2> QED
    BY <2>1, <2>2, <2>3
<1>3. Past'
  BY <1>0, <1>c DEF IInv, Past, InFlight
<1>4. OnePlace'
  <2>1. \A u, v \in Workers : InProcess(u)' /\ InProcess(v)' /\ worker'[u].ev = worker'[v].ev
                                 => u = v
    BY <1>a, <1>b DEF IInv, OnePlace
  <2> QED
    BY <2>1, <1>0, <1>c DEF IInv, OnePlace, InFlight
<1>5. NothingLost'
  BY <1>0, <1>c DEF IInv, NothingLost
<1>6. RetryBudget'
  <2>1. \A v \in Workers :
          /\ worker'[v].pc = "call" => calls[worker'[v].ev] = worker'[v].attempt - 1
          /\ worker'[v].pc = "backoff" => calls[worker'[v].ev] = worker'[v].attempt
    BY <1>a, <1>b, <1>d DEF IInv, RetryBudget
  <2> QED
    BY <2>1, <1>0, <1>c DEF IInv, RetryBudget
<1> QED
  BY <1>1, <1>2, <1>3, <1>4, <1>5, <1>6 DEF IInv

\* The signal cuts a backoff short: the event is lost with attempts left.
LEMMA AbandonIInv == \A w \in Workers : IInv /\ AbandonRetry(w) => IInv'
<1> SUFFICES ASSUME NEW w \in Workers, IInv, AbandonRetry(w) PROVE IInv'
  OBVIOUS
<1> DEFINE e == worker[w].ev
           r == [WorkerAt("gauge") EXCEPT !.depth = Len(queue)]
<1>0. /\ Queued' = Queued /\ e \in Held /\ Held' = Held \ {e} /\ Settled' = Settled
      /\ Offering' = Offering /\ Accepted' = Accepted
      /\ Lost' \subseteq Lost \cup {e} /\ Lost \subseteq Lost'
  BY AbandonMoves
<1>a. /\ r.pc = "gauge" /\ worker' = [worker EXCEPT ![w] = r] /\ r \in WorkerRecord
      /\ InProcess(w) /\ worker[w].pc = "backoff" /\ ctxDone
  <2>1. Len(queue) \in 0..Buffer
    BY RouteAssumption DEF IInv, TypeOK
  <2> QED
    BY <2>1, RouteAssumption DEF AbandonRetry, WorkerAt, LeaveProcess, WorkerRecord, InProcess
<1> HIDE DEF r
<1>b. /\ worker'[w] = r /\ ~InProcess(w)'
      /\ \A v \in Workers \ {w} : InProcess(v)' = InProcess(v) /\ worker'[v] = worker[v]
  BY <1>a, HeldAfter
<1>c. UNCHANGED <<ctxDone, next, reader, closed, routed, dropped, drain, queue, gauge,
                  calls, handled, panics>>
  BY DEF AbandonRetry, readerVars, processVars
<1>d. /\ e \in Events /\ e \notin Queued /\ e \notin Settled /\ e \notin Lost
      /\ e \notin dropped /\ e \notin Offering /\ e < next /\ e \in Accepted
  BY <1>0, <1>a DEF IInv, OnePlace, Past, InFlight, Lost, WorkerInv
<1>e. calls[e] \in 1..(MaxAttempts - 1)
  BY <1>a, RouteAssumption DEF IInv, TypeOK, WorkerInv, RetryBudget
<1> HIDE DEF e
<1>f. Lost' = Lost \cup {e}
  BY <1>0, <1>c, <1>d DEF Lost, InFlight
<1>1. TypeOK'
  <2>1. worker' \in [Workers -> WorkerRecord]
    BY <1>a DEF IInv, TypeOK, WorkerRecord
  <2> QED
    BY <2>1, <1>c DEF IInv, TypeOK, WorkerRecord
<1>2. ReaderInv' /\ WorkerInv' /\ NoSendOnClosed' /\ DrainInv'
  <2>1. ReaderInv' /\ NoSendOnClosed'
    BY <1>c DEF IInv, ReaderInv, NoSendOnClosed
  <2>2. WorkerInv'
    BY <1>a, <1>b DEF IInv, WorkerInv
  <2>3. DrainInv'
    BY <1>a, <1>b, <1>c DEF IInv, DrainInv, InProcess
  <2> QED
    BY <2>1, <2>2, <2>3
<1>3. Past'
  BY <1>0, <1>c DEF IInv, Past, InFlight
<1>4. OnePlace'
  <2>1. \A u, v \in Workers : InProcess(u)' /\ InProcess(v)' /\ worker'[u].ev = worker'[v].ev
                                 => u = v
    BY <1>a, <1>b DEF IInv, OnePlace
  <2>2. Accepted' = InFlight' \cup Settled' \cup (Accepted' \cap Lost')
    BY <1>0, <1>d, <1>f DEF IInv, OnePlace, InFlight
  <2> QED
    BY <2>1, <2>2, <1>0, <1>c DEF IInv, OnePlace, InFlight
<1>5. NothingLost'
  BY <1>0, <1>a, <1>c, <1>d, <1>e, <1>f DEF IInv, NothingLost
<1>6. RetryBudget'
  <2>1. \A v \in Workers :
          /\ worker'[v].pc = "call" => calls[worker'[v].ev] = worker'[v].attempt - 1
          /\ worker'[v].pc = "backoff" => calls[worker'[v].ev] = worker'[v].attempt
    BY <1>a, <1>b DEF IInv, RetryBudget
  <2> QED
    BY <2>1, <1>0, <1>c, <1>f DEF IInv, RetryBudget
<1> QED
  BY <1>1, <1>2, <1>3, <1>4, <1>5, <1>6 DEF IInv

-----------------------------------------------------------------------------
(***************************************************************************)
(* The theorems.                                                           *)
(***************************************************************************)

\* Every step of the route preserves the inductive invariant.
LEMMA StepIInv == IInv /\ [Next]_vars => IInv'
<1> SUFFICES ASSUME IInv, [Next]_vars PROVE IInv'
  OBVIOUS
<1>1. CASE Reader
  <2>1. ASSUME Shed \/ BlockTimeout PROVE ShedEvent
    BY <2>1 DEF Shed, BlockTimeout
  <2> QED
    BY <1>1, <2>1, OfferIInv, SendIInv, CountIInv, RefuseIInv DEF Reader
<1>2. ASSUME NEW w \in Workers, HandlerReturns(w) PROVE IInv'
  <2>1. CASE HandlerOk(w)
    BY <2>1, SettleIInv DEF HandlerOk, Outcomes
  <2>2. ASSUME NEW panicked \in BOOLEAN, HandlerPermanent(w, panicked) PROVE IInv'
    BY <2>2, SettleIInv DEF HandlerPermanent, Outcomes
  <2>3. CASE HandlerExhausted(w)
    BY <2>3, SettleIInv DEF HandlerExhausted, Outcomes
  <2>4. CASE HandlerTransient(w)
    BY <2>4, TransientIInv
  <2> QED
    BY <1>2, <2>1, <2>2, <2>3, <2>4 DEF HandlerReturns
<1>3. ASSUME NEW w \in Workers, WorkerLoop(w) PROVE IInv'
  BY <1>3, ReceiveIInv, IdleWorkerIInv, RetryIInv, AbandonIInv DEF WorkerLoop
<1>4. CASE Main \/ Terminated \/ UNCHANGED vars
  BY <1>4, MainIInv
<1> QED
  BY <1>1, <1>2, <1>3, <1>4 DEF Next

\* The inductive invariant holds of every reachable state.
THEOREM RouteInvariant == Spec => []IInv
<1> QED
  BY InitIInv, StepIInv, PTL DEF Spec

\* Every variable keeps its type: the buffer its bound, the attempts and calls
\* their budget (Offer, process).
THEOREM RouteTypeCorrect == Spec => []TypeOK
<1>1. IInv => TypeOK
  BY DEF IInv
<1> QED
  BY <1>1, RouteInvariant, PTL

\* No event is in two places, and none is handled twice.
THEOREM RouteOnePlace == Spec => []OnePlace
<1>1. IInv => OnePlace
  BY DEF IInv
<1> QED
  BY <1>1, RouteInvariant, PTL

\* No event disappears while the process runs, and after the signal only
\* withdrawn offers and retries cut short do.
THEOREM RouteNothingLost == Spec => []NothingLost
<1>1. IInv => NothingLost
  BY DEF IInv
<1> QED
  BY <1>1, RouteInvariant, PTL

\* process spends at most MaxAttempts calls on an event, and reports it
\* exhausted exactly when it spent them all.
THEOREM RouteRetryBudget == Spec => []RetryBudget
<1>1. IInv => RetryBudget
  BY DEF IInv
<1> QED
  BY <1>1, RouteInvariant, PTL

\* Nobody sends on the channel Drain closed.
THEOREM RouteNoSendOnClosed == Spec => []NoSendOnClosed
<1>1. IInv => NoSendOnClosed
  BY DEF IInv
<1> QED
  BY <1>1, RouteInvariant, PTL

\* A route that reports itself drained has nothing buffered and nothing running.
THEOREM RouteDrainComplete == Spec => []DrainComplete
<1>1. ASSUME IInv PROVE DrainComplete
  <2> SUFFICES ASSUME drain = "drained"
               PROVE  InFlight = {} /\ routed \subseteq Settled \cup Lost
    BY DEF DrainComplete
  <2>1. Held = {}
    BY <1>1 DEF IInv, DrainInv, Held, InProcess
  <2>2. Queued = {}
    <3>1. queue = <<>>
      BY <1>1, RouteAssumption DEF IInv, DrainInv
    <3> QED
      BY <3>1 DEF Queued
  <2>3. routed \subseteq Accepted
    BY DEF Accepted
  <2> QED
    BY <1>1, <2>1, <2>2, <2>3 DEF IInv, OnePlace, InFlight
<1> QED
  BY <1>1, RouteInvariant, PTL

\* A set that a finite set is mapped onto has at most as many elements.
LEMMA ImageBound ==
    ASSUME NEW S, IsFiniteSet(S), NEW f, f = [x \in S |-> f[x]]
    PROVE  /\ IsFiniteSet({f[x] : x \in S})
           /\ Cardinality({f[x] : x \in S}) <= Cardinality(S)
<1> DEFINE T == {f[x] : x \in S}
<1>1. f \in Surjection(S, T)
  BY DEF Surjection
<1> QED
  BY <1>1, FS_Surjection

\* Queued events take up the channel, one place each, and held ones a worker each.
LEMMA InFlightCount ==
    ASSUME IInv
    PROVE  /\ IsFiniteSet(InFlight) /\ Cardinality(InFlight) \in Nat
           /\ Len(queue) <= Cardinality(InFlight)
           /\ Cardinality(InFlight) <= Len(queue) + Cardinality(Workers)
<1>1. /\ IsFiniteSet(Queued) /\ Cardinality(Queued) = Len(queue) /\ Len(queue) \in Nat
  <2>1. queue \in Seq(Events) /\ Len(queue) \in Nat /\ DOMAIN queue = 1..Len(queue)
        /\ \A i \in DOMAIN queue : queue[i] \in Queued
    BY DEF IInv, TypeOK, Queued
  <2>2. IsFiniteSet(1..Len(queue)) /\ Cardinality(1..Len(queue)) = Len(queue)
    BY <2>1, FS_Interval
  <2>3. queue \in Bijection(1..Len(queue), Queued)
    <3>1. queue \in [1..Len(queue) -> Queued]
      BY <2>1
    <3>2. \A i, j \in 1..Len(queue) : i # j => queue[i] # queue[j]
      BY <2>1 DEF IInv, OnePlace
    <3>3. \A e \in Queued : \E i \in 1..Len(queue) : queue[i] = e
      BY <2>1 DEF Queued
    <3>4. queue \in Injection(1..Len(queue), Queued)
      BY <3>1, <3>2 DEF Injection, IsInjective
    <3>5. queue \in Surjection(1..Len(queue), Queued)
      BY <3>1, <3>3 DEF Surjection
    <3> QED
      BY <3>4, <3>5 DEF Bijection
  <2>4. ExistsBijection(1..Len(queue), Queued)
    BY <2>3 DEF ExistsBijection
  <2> QED
    BY <2>1, <2>2, <2>4, FS_Bijection
<1>2. IsFiniteSet(Held) /\ Cardinality(Held) <= Cardinality(Workers)
  <2> DEFINE busy == {v \in Workers : InProcess(v)}
             at == [w \in busy |-> worker[w].ev]
  <2>1. IsFiniteSet(busy) /\ Cardinality(busy) <= Cardinality(Workers)
    BY FS_Subset, RouteAssumption
  <2>2. Held = {at[w] : w \in busy}
    BY DEF Held
  <2>3. at = [w \in busy |-> at[w]]
    OBVIOUS
  <2>4. IsFiniteSet(Held) /\ Cardinality(Held) <= Cardinality(busy)
    <3> HIDE DEF at, busy
    <3> QED
      BY <2>1, <2>2, <2>3, ImageBound
  <2>5. Cardinality(Held) \in Nat /\ Cardinality(busy) \in Nat /\ Cardinality(Workers) \in Nat
    BY <2>1, <2>4, FS_CardinalityType, RouteAssumption
  <2> QED
    BY <2>1, <2>4, <2>5
<1>3. Queued \cap Held = {} /\ Cardinality({}) = 0
  BY FS_EmptySet DEF IInv, OnePlace
<1>4. /\ IsFiniteSet(Queued \cup Held)
      /\ Cardinality(Queued \cup Held)
           = Cardinality(Queued) + Cardinality(Held) - Cardinality(Queued \cap Held)
  BY <1>1, <1>2, FS_Union
<1>5. Cardinality(Queued \cap Held) = 0
  BY <1>3, Zenon
<1>6. Cardinality(Held) \in Nat /\ Cardinality(Workers) \in Nat
  BY <1>2, FS_CardinalityType, RouteAssumption
<1> QED
  BY <1>1, <1>2, <1>4, <1>5, <1>6 DEF InFlight
=============================================================================
