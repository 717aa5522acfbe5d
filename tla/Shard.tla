------------------------------- MODULE Shard --------------------------------
(***************************************************************************)
(* One shard of the aggregation state of a route (internal/handler/        *)
(* state.go and shard.go): a sliding window of counts per subject, a set   *)
(* of events already seen, and a throttle on alerts, all bounded by the    *)
(* same number of keys and all on event time.                              *)
(*                                                                         *)
(* The workers of the route share the shard.  A worker takes an event from *)
(* the channel, decodes it and then acquires the lock of the shard, so     *)
(* observe is atomic, but the order of two observes is not the order in    *)
(* which the channel handed out the events.  The ingestor replays: after a *)
(* reconnect it goes back to Rewind before its position, and a route that  *)
(* is full sheds an event that a replay may yet deliver.                   *)
(*                                                                         *)
(* Events are numbered in the order of the stream, whose times never       *)
(* decrease; what the stream holds is chosen as it is first read.          *)
(*                                                                         *)
(* The occurrences that observe counts are numbered as well, and the state *)
(* holds their numbers in the place of their times: the lists of the code  *)
(* are in the order of insertion, which is the order of these numbers, and *)
(* the time of an occurrence is the time of the event that was counted.    *)
(***************************************************************************)
EXTENDS Naturals, SequencesExt

CONSTANTS
    MaxEvents,      \* bound of the model: events in the stream
    MaxTime,        \* bound of the model: the last event time
    MaxRewinds,     \* bound of the model: reconnects
    MaxSheds,       \* bound of the model: events shed by the full route
    Subjects,       \* the keys of the shard: subject URIs or DIDs
    Workers,        \* the worker pool of the route
    Rewind,         \* how far a reconnect goes back, in event time
    WindowUS,       \* width of the counting window, and the alert interval
    DedupUS,        \* width of the dedup window
    MaxKeys,        \* Limits.MaxKeysPerShard
    SweepEvery,     \* occurrences between two sweeps
    Threshold       \* occurrences in the window that raise an alert

ASSUME ShardAssumption ==
    /\ {MaxEvents, MaxTime, MaxRewinds, MaxSheds, Rewind, DedupUS} \subseteq Nat
    /\ {WindowUS, MaxKeys, SweepEvery, Threshold} \subseteq Nat \ {0}
    /\ IsFiniteSet(Subjects) /\ IsFiniteSet(Workers)

Events  == 1..MaxEvents
Times   == 1..MaxTime

VARIABLES
    stream,     \* the events read so far: subject, dedup key (record), time
    pos,        \* the next event the ingestor reads
    holds,      \* per worker: the event it is about to observe, 0 for none
    rewinds,    \* reconnects so far
    sheds,      \* events shed so far
    window,     \* Window: the stamps of each subject, none for one without an entry
    dedup,      \* Dedup: the occurrence that recorded each record, 0 for none
    last,       \* Throttle.last, 0 for none
    sinceSweep, \* shard.sinceSwep
    counted,    \* the events observe counted, in order: occurrence n is counted[n]
    result,     \* history: the last event counted and the count it got
    alerts,     \* history: the alerts that fired
    resets      \* history: how often the throttle dropped its table

feedVars  == <<stream, pos, holds, rewinds, sheds>>
shardVars == <<window, dedup, last, sinceSweep>>
history   == <<counted, result, alerts, resets>>
vars      == <<feedVars, shardVars, history>>

Init ==
    /\ stream = <<>> /\ pos = 1
    /\ holds = [w \in Workers |-> 0]
    /\ rewinds = 0 /\ sheds = 0
    /\ window = [s \in Subjects |-> {}]
    /\ dedup = [r \in Events |-> 0]
    /\ last = [s \in Subjects |-> 0]
    /\ sinceSweep = 0
    /\ counted = <<>> /\ result = [event |-> 0, count |-> 0]
    /\ alerts = <<>> /\ resets = 0

-----------------------------------------------------------------------------
(***************************************************************************)
(* Occurrences, and the keys an insertion into a bounded structure leaves. *)
(***************************************************************************)
Subject(n) == stream[counted[n]].subject
At(n)      == stream[counted[n]].at

\* The occurrence being counted.
Occurrence == Len(counted) + 1

Stale(stamp, now, width) == stamp + width < now

\* Mutant: the bound is looked at before the insertion makes it too large.
RecentLate(touch) ==
    {x \in DOMAIN touch :
        touch[x] # 0 /\ Cardinality({y \in DOMAIN touch : touch[y] >= touch[x]}) <= MaxKeys}

\* evictIfFull, which makes room for one more: of the keys that were touched, those
\* touched most recently stay, one fewer than the structure may hold.
Recent(touch) ==
    {x \in DOMAIN touch :
        touch[x] # 0 /\ Cardinality({y \in DOMAIN touch : touch[y] >= touch[x]}) < MaxKeys}

-----------------------------------------------------------------------------
(***************************************************************************)
(* Window.                                                                 *)
(***************************************************************************)

\* Every touch appends a stamp: the last one is the latest touch.
Touched == [x \in Subjects |-> IF window[x] = {} THEN 0 ELSE Max(window[x])]

\* Mutant: a stamp at the edge of the window is trimmed.
TrimEdge(stamps, now) ==
    {i \in stamps : \E j \in stamps : j <= i /\ At(j) + WindowUS > now}

\* Stamps leave at the front while they are stale.
Trim(stamps, now) ==
    {i \in stamps : \E j \in stamps : j <= i /\ ~Stale(At(j), now, WindowUS)}

\* Window.Add: touch or insert the subject, append the stamp, which is never stale
\* itself, and trim.
Added(s, now) ==
    LET kept == IF window[s] # {} THEN Subjects ELSE Recent(Touched)
    IN  [x \in Subjects |-> IF x = s THEN Trim(window[s], now) \cup {Occurrence}
                            ELSE IF x \in kept THEN window[x] ELSE {}]

\* Window.Sweep, after s was touched: a subject goes when its last stamp is stale.
Swept(win, s, now) ==
    [x \in Subjects |-> IF x # s /\ win[x] # {} /\ Stale(At(Max(win[x])), now, WindowUS)
                        THEN {} ELSE win[x]]

-----------------------------------------------------------------------------
(***************************************************************************)
(* Dedup and Throttle.                                                     *)
(***************************************************************************)

\* Dedup.Seen finds the record within its window.
Seen(r, now) == dedup[r] # 0 /\ ~Stale(At(dedup[r]), now, DedupUS)

\* Mutant: the newest records are the first to be evicted.
RememberedOldest(r) ==
    [x \in Events |->
        IF x = r THEN Occurrence
        ELSE IF Cardinality({y \in Events \ {r} : dedup[y] \in 1..dedup[x]}) < MaxKeys
        THEN dedup[x] ELSE 0]

\* Dedup.Seen records it: a stale entry of its own is removed first.
Remembered(r) ==
    LET kept == Recent([dedup EXCEPT ![r] = 0])
    IN  [x \in Events |-> IF x = r THEN Occurrence ELSE IF x \in kept THEN dedup[x] ELSE 0]

\* Mutant: only a replay of what already fired is throttled.
ThrottledReplay(s, now) == last[s] # 0 /\ now <= last[s]

\* Throttle.Allow: it fired less than an interval ago, or later than now.
Throttled(s, now) == last[s] # 0 /\ now < last[s] + WindowUS

Fired == {s \in Subjects : last[s] # 0}
TableFull == Cardinality(Fired) >= MaxKeys

\* The alert fires; a full table is dropped as a whole, known subject or not.
Allow(s, now) ==
    /\ last' = [x \in Subjects |-> IF x = s THEN now ELSE IF TableFull THEN 0 ELSE last[x]]
    /\ resets' = IF TableFull THEN resets + 1 ELSE resets
    /\ alerts' = Append(alerts, [subject |-> s, at |-> now, epoch |-> resets'])

-----------------------------------------------------------------------------
(***************************************************************************)
(* observe, called by a worker under the lock of the shard.                *)
(***************************************************************************)
Event(w) == stream[holds[w]]

Release(w) ==
    /\ holds[w] # 0
    /\ holds' = [holds EXCEPT ![w] = 0]
    /\ UNCHANGED <<stream, pos, rewinds, sheds>>

\* A duplicate is not counted and changes nothing.
ObserveDuplicate(w) ==
    /\ Release(w)
    /\ Seen(Event(w).record, Event(w).at)
    /\ UNCHANGED <<shardVars, history>>

SweepDue == sinceSweep + 1 >= SweepEvery

\* The window with the event of the worker added, and the count that Add returns.
WindowWith(w) == Added(Event(w).subject, Event(w).at)
CountOf(w) == Cardinality(WindowWith(w)[Event(w).subject])

\* A new event: remembered, counted, and every SweepEvery of them the window is
\* swept.
CountEvent(w) ==
    /\ Release(w)
    /\ ~Seen(Event(w).record, Event(w).at)
    /\ dedup' = Remembered(Event(w).record)
    /\ window' = IF SweepDue THEN Swept(WindowWith(w), Event(w).subject, Event(w).at)
                             ELSE WindowWith(w)
    /\ sinceSweep' = IF SweepDue THEN 0 ELSE sinceSweep + 1
    /\ counted' = Append(counted, holds[w])
    /\ result' = [event |-> holds[w], count |-> CountOf(w)]

MayAlert(w) == CountOf(w) >= Threshold /\ ~Throttled(Event(w).subject, Event(w).at)

\* Below the threshold, or the subject alerted already: no alert.
ObserveQuiet(w) ==
    /\ CountEvent(w)
    /\ ~MayAlert(w)
    /\ UNCHANGED <<last, resets, alerts>>

\* The threshold is reached and the throttle lets the alert through.
ObserveAlert(w) ==
    /\ CountEvent(w)
    /\ MayAlert(w)
    /\ Allow(Event(w).subject, Event(w).at)

-----------------------------------------------------------------------------
(***************************************************************************)
(* The ingestor and the channel of the route, as far as they decide which  *)
(* events arrive and in which order.                                       *)
(***************************************************************************)
Earliest == IF stream = <<>> THEN 1 ELSE Last(stream).at

\* The event at the position, chosen when it is read for the first time.  Its
\* record may be one that an earlier event of the subject was about.
NextEvent ==
    IF pos <= Len(stream) THEN stream' = stream
    ELSE \E s \in Subjects, t \in Earliest..MaxTime :
           \E r \in {pos} \cup {stream[i].record : i \in {j \in DOMAIN stream :
                                                            stream[j].subject = s}} :
             stream' = Append(stream, [subject |-> s, record |-> r, at |-> t])

\* A worker takes the next event and decodes it.
Take(w) ==
    /\ holds[w] = 0 /\ pos <= MaxEvents
    /\ NextEvent
    /\ pos' = pos + 1
    /\ holds' = [holds EXCEPT ![w] = pos]
    /\ UNCHANGED <<rewinds, sheds, shardVars, history>>

\* The route sheds the next event.
Shed ==
    /\ pos <= MaxEvents /\ sheds < MaxSheds
    /\ NextEvent
    /\ pos' = pos + 1 /\ sheds' = sheds + 1
    /\ UNCHANGED <<holds, rewinds, shardVars, history>>

\* A reconnect resumes Rewind before the newest position read.
Reconnect ==
    /\ rewinds < MaxRewinds /\ stream # <<>>
    /\ pos' = SelectInSeq(stream, LAMBDA e : e.at + Rewind >= Last(stream).at)
    /\ rewinds' = rewinds + 1
    /\ UNCHANGED <<stream, holds, sheds, shardVars, history>>

Observe(w) == ObserveDuplicate(w) \/ ObserveQuiet(w) \/ ObserveAlert(w)

Next == (\E w \in Workers : Take(w) \/ Observe(w)) \/ Shed \/ Reconnect

Spec == Init /\ [][Next]_vars

-----------------------------------------------------------------------------
Records == [subject : Subjects, record : Events, at : Times]
Alerts  == [subject : Subjects, at : Times, epoch : Nat]

\* Types and bounds: no structure outgrows the cap, whatever arrives (I7).
TypeOK ==
    /\ stream \in Seq(Records) /\ Len(stream) <= MaxEvents
    /\ pos \in 1..(Len(stream) + 1) /\ holds \in [Workers -> 0..Len(stream)]
    /\ rewinds \in 0..MaxRewinds /\ sheds \in 0..MaxSheds
    /\ counted \in Seq(Events) /\ \A n \in DOMAIN counted : counted[n] <= Len(stream)
    /\ window \in [Subjects -> SUBSET (1..Len(counted))]
    /\ Cardinality({s \in Subjects : window[s] # {}}) <= MaxKeys
    /\ dedup \in [Events -> 0..Len(counted)]
    /\ Cardinality({r \in Events : dedup[r] # 0}) <= MaxKeys
    /\ last \in [Subjects -> Times \cup {0}] /\ Cardinality(Fired) <= MaxKeys
    /\ sinceSweep \in 0..(SweepEvery - 1)
    /\ result \in [event : 0..Len(stream), count : 0..Len(counted)]
    /\ alerts \in Seq(Alerts) /\ resets \in Nat

\* An event is counted twice only when MaxKeys others were counted in between:
\* neither replays, nor sheds, nor workers that overtake each other break the
\* idempotency within that distance (Dedup.Seen, D7).
DuplicateBeyondCap ==
    \A i, j \in DOMAIN counted : i < j /\ counted[i] = counted[j] => j - i > MaxKeys

\* Two alerts for a subject are an interval of event time apart, and their times
\* ascend, unless the throttle dropped its table between them (Throttle.Allow).
AlertSpacing ==
    \A i, j \in DOMAIN alerts :
        /\ i < j /\ alerts[i].subject = alerts[j].subject
        /\ alerts[i].epoch = alerts[j].epoch
        => alerts[j].at >= alerts[i].at + WindowUS

\* The events were counted in the order of the stream, and none twice.
CountedInOrder == \A i, j \in DOMAIN counted : i < j => counted[i] < counted[j]

\* The occurrences that lie in the window which ends with the event last counted, and
\* their subjects.
Live == {n \in DOMAIN counted : ~Stale(At(n), stream[result.event].at, WindowUS)}
LiveSubjects == {Subject(n) : n \in Live}

\* state.go: Add "returns the number of occurrences within the window, including
\* this one".  It does, through sheds, replays, evictions and sweeps, while the workers
\* count in the order of the stream and the subjects that are live fit under the cap;
\* two workers that overtake each other break it, and so does one subject too many.
CountIsExact ==
    /\ result.event # 0 /\ CountedInOrder
    /\ Cardinality(LiveSubjects) <= MaxKeys
    => result.count = Cardinality({n \in Live : Subject(n) = stream[result.event].subject})

=============================================================================
