---------------------------- MODULE IngestProofs ----------------------------
(***************************************************************************)
(* Proofs about Ingest, for every clock, window, rewind, retention and     *)
(* timeout, and any number of processes.                                   *)
(***************************************************************************)
EXTENDS Ingest, WellFoundedInduction, TLAPS

Connected == run.pc \in {"up", "read", "dispatch"}

\* What subscribeURL decided stays true of the position while the dial lasts.
Dialling ==
    run.pc = "dial" =>
        /\ run.since <= now
        /\ latest = 0 => run.cursor = 0 /\ ~run.lapsed
        /\ latest # 0 /\ run.lapsed => run.cursor = 0
        /\ latest # 0 /\ ~run.lapsed =>
             /\ run.cursor = latest - Rewind
             /\ Window > 0 => run.since - run.cursor <= Window

\* Nothing is ahead of the clock.
Behind ==
    /\ latest <= now /\ \A t \in dispatched : t <= now
    /\ \A t \in Times : t > now => stream[t] = "none"
    /\ Connected => conn.next <= now + 1 /\ run.since <= conn.since /\ conn.since <= now
    /\ run.pc = "dispatch" => run.frame \in Times /\ conn.next = run.frame + 1

\* A process without a position has dispatched nothing.
Newest ==
    /\ CursorIsNewestDispatched
    /\ latest = 0 => dispatched = {}

\* A connection that held is remembered until the next dial.
Held ==
    /\ held => run.pc \in {"lost", "backoff", "top", "returned"}
    /\ held /\ run.pc = "lost" => now - run.since > HealthyFor
    /\ PromptRedial

IngestInv == TypeOK /\ Dialling /\ Behind /\ Newest /\ Held

\* With the window checked, what lies between the cursor and the next frame was skipped
\* by a dial, counted as a gap or too slow, or is in the hands of the dispatcher.
Bridged ==
    /\ first = 0 <=> latest = 0
    /\ first <= latest
    /\ Window > 0 /\ Connected => \A t \in Times :
         first # 0 /\ latest < t /\ t < conn.next /\ stream[t] = "ok" =>
           t \in excused \cup outrun \cup dispatched \/ (run.pc = "dispatch" /\ t = run.frame)

GapInv == Bridged /\ SilentGapNeedsSlowDial

-----------------------------------------------------------------------------
(***************************************************************************)
(* Lemmas about the data.                                                  *)
(***************************************************************************)
Pcs  == {"top", "dial", "up", "read", "dispatch", "lost", "backoff", "returned"}
Runs == [pc : Pcs, cursor : 0..MaxTime, since : 0..MaxTime, lapsed : BOOLEAN,
         frame : Times \cup {0}, until : 0..MaxTime]

\* Times are naturals that are not zero, and can be rewound.
LEMMA TimesAreLate ==
    /\ Start \in Nat /\ Start > Rewind /\ Rewind \in Nat /\ MaxTime \in Nat
    /\ \A t \in Times : t \in 0..MaxTime /\ t # 0 /\ t > Rewind
BY IngestAssumption DEF Times, Start

\* The longest delay is a number, however large the attempt.
LEMMA DelayIsTime == \A n \in Nat : LongestDelay(n) \in Int
<1> SUFFICES ASSUME NEW n \in Nat PROVE LongestDelay(n) \in Int
  OBVIOUS
<1>1. BackoffMax \in Int /\ 2 ^ n \in Int
  BY IngestAssumption
<1> QED
  BY <1>1 DEF LongestDelay

\* The record of a new program counter.
LEMMA AtFields ==
    ASSUME TypeOK, NEW p \in Pcs
    PROVE  /\ RunAt(p) \in Runs /\ RunAt(p).pc = p
           /\ At(p) \in Runs /\ At(p).pc = p /\ At(p).since = run.since
<1>1. 0 \in 0..MaxTime /\ run.since \in 0..MaxTime /\ 0 \in Times \cup {0}
  BY TimesAreLate DEF TypeOK
<1>2. RunAt(p) \in Runs /\ RunAt(p).pc = p
  BY <1>1 DEF RunAt, Runs
<1>3. At(p) \in Runs /\ At(p).pc = p /\ At(p).since = run.since
  BY <1>1, <1>2 DEF At, Runs
<1> QED
  BY <1>2, <1>3

\* There is a first frame among those pending.
LEMMA NextFrameIsFirst ==
    ASSUME TypeOK, Readable
    PROVE  /\ NextFrame \in Times /\ NextFrame <= now /\ conn.next <= NextFrame
           /\ \A t \in Times : conn.next <= t /\ t < NextFrame => stream[t] = "none"
<1>1. /\ Pending # {} /\ Pending \subseteq Nat
      /\ \A t \in Pending : t \in Times /\ conn.next <= t /\ t <= now
  BY TimesAreLate DEF Readable, Pending, TypeOK
<1>2. \E t \in Pending : \A u \in Pending : ~(<<u, t>> \in OpToRel(<, Nat))
  <2>1. Pending # {} /\ Pending \subseteq Nat
    BY <1>1
  <2> QED
    BY <2>1, WFMin, NatLessThanWellFounded, ZenonT(30)
<1>3. \E t \in Pending : \A u \in Pending : t <= u
  <2>1. PICK t \in Pending : \A u \in Pending : ~(u < t)
    <3>1. \A u, t \in Pending : u \in Nat /\ t \in Nat
      BY <1>1
    <3> QED
      BY <1>2, <3>1, Zenon DEF OpToRel
  <2> QED
    BY <1>1, <2>1
<1>4. NextFrame \in Pending /\ \A u \in Pending : NextFrame <= u
  BY <1>3 DEF NextFrame
<1>5. ASSUME NEW t \in Times, conn.next <= t, t < NextFrame
      PROVE  stream[t] = "none"
  <2>1. t \in Nat /\ NextFrame \in Nat /\ NextFrame <= now /\ now \in Nat /\ conn.next \in Nat
    BY <1>1, <1>4, TimesAreLate DEF TypeOK
  <2>2. t \in conn.next..now /\ t \notin Pending
    BY <1>4, <1>5, <2>1
  <2> QED
    BY <2>2 DEF Pending
<1> QED
  BY <1>1, <1>4, <1>5

-----------------------------------------------------------------------------
(***************************************************************************)
(* The invariant.                                                          *)
(***************************************************************************)

\* The initial states.
LEMMA IngestInit == Init => IngestInv /\ GapInv
<1> SUFFICES ASSUME Init PROVE IngestInv /\ GapInv
  OBVIOUS
<1>1. /\ now = Start /\ latest = 0 /\ run = RunAt("top") /\ conn = NoConn /\ held = FALSE
      /\ dispatched = {} /\ first = 0 /\ excused = {} /\ outrun = {} /\ inherited = 0
      /\ stream = [t \in Times |-> "none"]
      /\ state = "disconnected" /\ attempt = 0 /\ connected = FALSE
      /\ ready = FALSE /\ maint = MaintIdle /\ ctxDone = FALSE /\ restarts = 0
  BY DEF Init
<1>2. run.pc = "top"
  BY <1>1 DEF RunAt
<1>3. TypeOK
  <2>1. Start \in Times /\ 0 \in 0..MaxTime /\ 0 \in 0..(MaxTime + 1) /\ 0 \in 0..MaxShift
        /\ 0 \in 0..MaxRestarts
    BY IngestAssumption DEF Times, Start
  <2>2. run \in [pc : {"top", "dial", "up", "read", "dispatch", "lost", "backoff", "returned"},
                 cursor : 0..MaxTime, since : 0..MaxTime, lapsed : BOOLEAN,
                 frame : Times \cup {0}, until : 0..MaxTime]
    BY <1>1, <2>1 DEF RunAt
  <2>3. conn \in [up : BOOLEAN, next : 0..(MaxTime + 1), since : 0..MaxTime]
    BY <1>1, <2>1 DEF NoConn
  <2>4. maint \in [pc : {"idle", "check", "set", "returned"}, lagging : BOOLEAN]
    BY <1>1 DEF MaintIdle
  <2> QED
    BY <1>1, <2>1, <2>2, <2>3, <2>4 DEF TypeOK, States
<1>4. Dialling /\ Newest /\ Held
  BY <1>1, <1>2 DEF Dialling, Newest, Held, CursorIsNewestDispatched, PromptRedial, Connected
<1>5. Behind
  BY <1>1, <1>2, TimesAreLate DEF Behind, Connected
<1>6. Bridged /\ SilentGapNeedsSlowDial
  BY <1>1, <1>2 DEF Bridged, SilentGapNeedsSlowDial, Missed, Connected
<1> QED
  BY <1>3, <1>4, <1>5, <1>6 DEF IngestInv, GapInv

\* What the maintenance goroutine, the signal and a half-open connection leave alone.
LEMMA QuietStep ==
    ASSUME UNCHANGED <<now, stream, latest, run, held, dispatched, first, excused, outrun>>,
           conn'.next = conn.next, conn'.since = conn.since
    PROVE  /\ Dialling /\ Behind /\ Newest /\ Held => Dialling' /\ Behind' /\ Newest' /\ Held'
           /\ GapInv => GapInv'
<1>1. /\ Dialling => Dialling'
      /\ Held => Held'
  BY DEF Dialling, Held, PromptRedial
<1>2. Behind => Behind'
  BY DEF Behind, Connected
<1>3. Newest => Newest'
  BY DEF Newest, Connected, CursorIsNewestDispatched
<1>4. GapInv => GapInv'
  BY DEF GapInv, Bridged, SilentGapNeedsSlowDial, Missed, Connected
<1> QED
  BY <1>1, <1>2, <1>3, <1>4

\* The maintenance goroutine, the signal and the network.
LEMMA MaintenanceStep ==
    ASSUME IngestInv, Maintenance \/ Cancel \/ HalfOpen
    PROVE  IngestInv' /\ (GapInv => GapInv')
<1>1. /\ UNCHANGED <<now, stream, latest, run, held, dispatched, first, excused, outrun, state,
                     attempt, connected, restarts, inherited>>
      /\ conn' \in {conn, [conn EXCEPT !.up = FALSE]}
  BY DEF Maintenance, MaintTick, MaintCheck, MaintSet, MaintReturns, Cancel, HalfOpen, runVars,
         envVars, history, skipped
<1>2. conn \in [up : BOOLEAN, next : 0..(MaxTime + 1), since : 0..MaxTime]
  BY DEF IngestInv, TypeOK
<1>3. conn'.next = conn.next /\ conn'.since = conn.since
      /\ conn' \in [up : BOOLEAN, next : 0..(MaxTime + 1), since : 0..MaxTime]
  BY <1>1, <1>2
<1>4. /\ ready' \in BOOLEAN /\ ctxDone' \in BOOLEAN
      /\ maint' \in [pc : {"idle", "check", "set", "returned"}, lagging : BOOLEAN]
  <2>1. /\ ready \in BOOLEAN /\ ctxDone \in BOOLEAN
        /\ maint \in [pc : {"idle", "check", "set", "returned"}, lagging : BOOLEAN]
    BY DEF IngestInv, TypeOK
  <2>2. MaintIdle \in [pc : {"idle", "check", "set", "returned"}, lagging : BOOLEAN]
    BY DEF MaintIdle
  <2>3. CASE MaintTick
    <3>1. (Lag > MaxLag) \in BOOLEAN
      OBVIOUS
    <3>2. [pc |-> "check", lagging |-> Lag > MaxLag]
            \in [pc : {"idle", "check", "set", "returned"}, lagging : BOOLEAN]
      BY <3>1, Zenon
    <3> QED
      BY <2>1, <2>2, <2>3, <3>2, Zenon DEF MaintTick, envVars
  <2>4. CASE MaintCheck \/ MaintSet \/ MaintReturns
    BY <2>1, <2>2, <2>4 DEF MaintCheck, MaintSet, MaintReturns, envVars
  <2>5. CASE Cancel \/ HalfOpen
    BY <2>1, <2>5 DEF Cancel, HalfOpen, envVars
  <2> QED
    BY <2>3, <2>4, <2>5 DEF Maintenance
<1>5. TypeOK'
  BY <1>1, <1>3, <1>4 DEF IngestInv, TypeOK
<1> QED
  BY <1>1, <1>3, <1>5, QuietStep DEF IngestInv

\* Time passes: what is published now is behind nothing yet.
LEMMA TickStep ==
    ASSUME IngestInv, Tick
    PROVE  IngestInv' /\ (GapInv => GapInv')
<1>1. /\ now' = now + 1 /\ now < MaxTime
      /\ UNCHANGED <<latest, run, conn, state, attempt, connected, dispatched, first, excused,
                     outrun, held, ready, maint, ctxDone, restarts, inherited>>
  BY DEF Tick, runVars, history, skipped
<1>2. PICK e \in {"none", "ok", "bad"} : stream' = [stream EXCEPT ![now + 1] = e]
  BY DEF Tick
<1>3. now \in Nat /\ now \in Times /\ now + 1 \in Times /\ latest \in Nat /\ first \in Nat
      /\ conn.next \in Nat /\ conn.since \in Nat /\ run.since \in Nat /\ run.until \in Nat
      /\ stream \in [Times -> {"none", "ok", "bad"}] /\ dispatched \subseteq Nat
      /\ Times \subseteq Nat
  BY <1>1, TimesAreLate DEF IngestInv, TypeOK, Times
<1>4. \A t \in Times : t <= now => stream'[t] = stream[t]
  BY <1>2, <1>3
<1>5. TypeOK'
  <2>1. stream' \in [Times -> {"none", "ok", "bad"}]
    BY <1>2, <1>3
  <2> QED
    BY <1>1, <1>3, <2>1 DEF IngestInv, TypeOK
<1>6. Dialling'
  BY <1>1, <1>3 DEF IngestInv, Dialling
<1>7. Behind'
  <2>1. \A t \in Times : t > now + 1 => stream'[t] = "none"
    BY <1>2, <1>3 DEF IngestInv, Behind
  <2> QED
    BY <1>1, <1>3, <2>1 DEF IngestInv, Behind, Connected
<1>8. Newest'
  BY <1>1 DEF IngestInv, Newest, Connected, CursorIsNewestDispatched
<1>9. Held'
  <2>1. HealthyFor \in Nat /\ LongestDelay(1) \in Int
    BY IngestAssumption, DelayIsTime
  <2>2. held /\ run.pc = "backoff" => run.until - now <= LongestDelay(1)
    BY DEF IngestInv, Held, PromptRedial
  <2>3. run.pc = "backoff" => now < run.until
    BY DEF Tick
  <2> QED
    BY <1>1, <1>3, <2>1, <2>2 DEF IngestInv, Held, PromptRedial, LongestDelay
<1>10. GapInv => GapInv'
  <2> SUFFICES ASSUME GapInv PROVE GapInv'
    OBVIOUS
  <2>1. SilentGapNeedsSlowDial'
    <3>1. \A t \in Times : t <= latest => t \in Nat /\ stream'[t] = stream[t]
      BY <1>3, <1>4 DEF IngestInv, Behind
    <3>2. Missed' \subseteq Missed
      BY <1>1, <3>1 DEF Missed
    <3> QED
      BY <1>1, <3>2 DEF GapInv, SilentGapNeedsSlowDial
  <2>2. Bridged'
    BY <1>1, <1>3, <1>4 DEF GapInv, Bridged, Connected, IngestInv, Behind
  <2> QED
    BY <2>1, <2>2 DEF GapInv
<1> QED
  BY <1>5, <1>6, <1>7, <1>8, <1>9, <1>10 DEF IngestInv

\* What a type-correct state says of the record of the goroutine.
LEMMA TypedRun ==
    ASSUME TypeOK
    PROVE  /\ run \in Runs /\ now \in Times /\ now \in 0..MaxTime
           /\ latest \in Times \cup {0} /\ first \in Times \cup {0}
           /\ {now, latest, first, run.since, run.until, run.cursor, conn.next, conn.since,
               attempt, Window, Retention, HealthyFor, MaxTime, MaxShift}
                 \subseteq Nat
           /\ dispatched \subseteq Times /\ excused \subseteq Times /\ outrun \subseteq Times
           /\ stream \in [Times -> {"none", "ok", "bad"}]
           /\ run.pc = "dispatch" => run.frame \in Times \cup {0}
<1>1. /\ run \in Runs /\ conn \in [up : BOOLEAN, next : 0..(MaxTime + 1), since : 0..MaxTime]
      /\ now \in Times /\ latest \in Times \cup {0} /\ first \in Times \cup {0}
      /\ attempt \in 0..MaxShift
      /\ dispatched \subseteq Times /\ excused \subseteq Times /\ outrun \subseteq Times
      /\ stream \in [Times -> {"none", "ok", "bad"}]
  BY DEF TypeOK, Runs, Pcs
<1>2. /\ run.since \in 0..MaxTime /\ run.until \in 0..MaxTime /\ run.cursor \in 0..MaxTime
      /\ run.frame \in Times \cup {0}
      /\ conn.next \in 0..(MaxTime + 1) /\ conn.since \in 0..MaxTime
  BY <1>1 DEF Runs
<1>3. {Window, Retention, HealthyFor, MaxTime, MaxShift} \subseteq Nat
  BY IngestAssumption
<1> QED
  BY <1>1, <1>2, <1>3, TimesAreLate

\* A goroutine that neither dials nor has a connection disturbs little.
LEMMA DownStep ==
    ASSUME UNCHANGED <<now, stream, latest, dispatched, first, excused, outrun>>,
           run'.pc \in {"lost", "backoff", "top", "returned"}
    PROVE  /\ Behind => Behind'
           /\ Newest => Newest'
           /\ Dialling'
           /\ GapInv => GapInv'
<1>1. /\ ~Connected' /\ run'.pc # "dispatch" /\ run'.pc # "dial"
  BY DEF Connected
<1>2. Behind => Behind'
  BY <1>1 DEF Behind
<1>3. Newest => Newest'
  BY <1>1 DEF Newest, CursorIsNewestDispatched
<1>4. Dialling'
  BY <1>1 DEF Dialling
<1>5. GapInv => GapInv'
  BY <1>1 DEF GapInv, Bridged, SilentGapNeedsSlowDial, Missed
<1> QED
  BY <1>2, <1>3, <1>4, <1>5

\* The dial begins.
LEMMA BeginDialStep ==
    ASSUME IngestInv, BeginDial
    PROVE  IngestInv' /\ (GapInv => GapInv')
<1>1. /\ UNCHANGED <<now, stream, latest, conn, attempt, connected, dispatched, first, excused,
                     outrun, ready, maint, ctxDone, restarts, inherited>>
      /\ held' = FALSE /\ state' \in States
      /\ run' = [RunAt("dial") EXCEPT !.cursor = Subscribe.cursor, !.since = now,
                                      !.lapsed = Subscribe.lapsed]
  BY DEF BeginDial, envVars, skipped, States
<1>2. TypeOK /\ Behind /\ Newest
  BY DEF IngestInv
<1>3. /\ Subscribe.cursor \in 0..MaxTime /\ Subscribe.lapsed \in BOOLEAN
      /\ latest = 0 => Subscribe.cursor = 0 /\ ~Subscribe.lapsed
      /\ latest # 0 /\ Subscribe.lapsed => Subscribe.cursor = 0
      /\ latest # 0 /\ ~Subscribe.lapsed =>
           /\ Subscribe.cursor = latest - Rewind
           /\ Window > 0 => now - Subscribe.cursor <= Window
  <2>1. latest # 0 => latest \in 0..MaxTime /\ latest > Rewind
    BY <1>2, TimesAreLate, TypedRun
  <2>2. /\ now \in Nat /\ Window \in Nat /\ Rewind \in Nat /\ MaxTime \in Nat
        /\ latest \in Nat
    BY <1>2, TypedRun, TimesAreLate
  <2>3. CASE latest = 0
    BY <2>2, <2>3 DEF Subscribe
  <2>4. CASE latest # 0
    <3>1. CASE Window > 0 /\ now - (latest - Rewind) > Window
      <4>1. Subscribe = [cursor |-> 0, lapsed |-> TRUE]
        BY <2>4, <3>1 DEF Subscribe
      <4> QED
        BY <2>2, <2>4, <4>1
    <3>2. CASE ~(Window > 0 /\ now - (latest - Rewind) > Window)
      <4>1. Subscribe = [cursor |-> latest - Rewind, lapsed |-> FALSE]
        BY <2>4, <3>2 DEF Subscribe
      <4> QED
        BY <2>1, <2>2, <2>4, <3>2, <4>1
    <3> QED
      BY <3>1, <3>2
  <2> QED
    BY <2>3, <2>4
<1>4. /\ run' \in Runs /\ run'.pc = "dial" /\ run'.since = now
      /\ run'.cursor = Subscribe.cursor /\ run'.lapsed = Subscribe.lapsed
  <2>1. RunAt("dial") \in Runs /\ RunAt("dial").pc = "dial"
    BY <1>2, AtFields DEF Pcs
  <2>2. now \in 0..MaxTime
    BY <1>2, TypedRun
  <2> QED
    BY <1>1, <1>3, <2>1, <2>2 DEF Runs
<1>5. TypeOK'
  BY <1>1, <1>2, <1>4 DEF TypeOK, Runs, Pcs, States
<1>6. Dialling'
  <2>1. now \in Nat
    BY <1>2, TypedRun
  <2> QED
    BY <1>1, <1>3, <1>4, <2>1 DEF Dialling
<1>7. Behind' /\ Newest'
  BY <1>1, <1>2, <1>4 DEF Behind, Newest, Connected, CursorIsNewestDispatched
<1>8. Held'
  BY <1>1, <1>4 DEF Held, PromptRedial
<1>9. GapInv => GapInv'
  BY <1>1, <1>4 DEF GapInv, Bridged, SilentGapNeedsSlowDial, Missed, Connected
<1> QED
  BY <1>5, <1>6, <1>7, <1>8, <1>9 DEF IngestInv

\* Where the server starts, seen from the clock.
LEMMA StartsBehind ==
    ASSUME IngestInv, run.pc = "dial", NEW s \in 0..(MaxTime + 1), StartsAt(s)
    PROVE  /\ s <= now + 1
           /\ latest = 0 => s = now + 1
           /\ Window > 0 /\ latest # 0 /\ ~run.lapsed /\ ~Outrun => s <= latest + 1
<1>1. TypeOK /\ Dialling /\ Behind
  BY DEF IngestInv
<1>2. /\ now \in Nat /\ latest \in Nat /\ run.cursor \in Nat /\ Retention \in Nat
      /\ Rewind \in Nat /\ Window \in Nat /\ run.since \in Nat
      /\ s \in Nat
  BY <1>1, TypedRun, TimesAreLate
<1>3. CASE latest = 0 \/ run.lapsed
  <2>1. run.cursor = 0
    BY <1>1, <1>3 DEF Dialling
  <2>2. s = now + 1
    BY <2>1 DEF StartsAt
  <2> QED
    BY <1>2, <1>3, <2>2
<1>4. CASE latest # 0 /\ ~run.lapsed
  <2>1. /\ run.cursor = latest - Rewind /\ latest <= now
        /\ Window > 0 => run.since - run.cursor <= Window
    BY <1>1, <1>4 DEF Dialling, Behind
  <2>2. run.cursor # 0
    <3>1. latest > Rewind
      BY <1>1, <1>4, TypedRun, TimesAreLate
    <3> QED
      BY <1>2, <2>1, <3>1
  <2>3. s <= Later(run.cursor + 1, now - Retention)
    BY <1>2, <2>2 DEF StartsAt, Later
  <2>4. s <= now + 1
    BY <1>2, <2>1, <2>3 DEF Later
  <2>5. Window > 0 /\ ~Outrun => now - Retention <= latest + 1
    BY <1>2, <1>4, <2>1 DEF Outrun
  <2> QED
    BY <1>2, <1>4, <2>1, <2>3, <2>4, <2>5 DEF Later
<1> QED
  BY <1>3, <1>4

\* The dial succeeds: the gap that was recorded ends where the server starts, and
\* without one the server starts no later than the next position.
LEMMA DialSucceedsStep ==
    ASSUME IngestInv, DialSucceeds
    PROVE  IngestInv' /\ (GapInv => GapInv')
<1>1. PICK s \in 0..(MaxTime + 1) :
        /\ StartsAt(s)
        /\ conn' = [up |-> TRUE, next |-> s, since |-> now]
        /\ excused' = IF run.lapsed THEN excused \cup ((latest + 1)..(s - 1)) ELSE excused
        /\ outrun' = IF Outrun THEN outrun \cup ((latest + 1)..(s - 1)) ELSE outrun
  BY DEF DialSucceeds
<1>2. /\ run.pc = "dial" /\ run' = At("up") /\ state' \in States /\ connected' = TRUE
      /\ UNCHANGED <<now, stream, latest, attempt, dispatched, first, held, ready, maint,
                     ctxDone, restarts, inherited>>
  BY DEF DialSucceeds, envVars, States
<1>3. TypeOK /\ Dialling /\ Behind /\ Newest /\ Held
  BY DEF IngestInv
<1>4. /\ run' \in Runs /\ run'.pc = "up" /\ run'.since = run.since /\ Connected'
  BY <1>2, <1>3, AtFields DEF Pcs, Connected
<1>5. /\ conn'.next = s /\ conn'.since = now
      /\ conn' \in [up : BOOLEAN, next : 0..(MaxTime + 1), since : 0..MaxTime]
  BY <1>1, <1>3, TypedRun
<1>6. /\ s <= now + 1
      /\ latest = 0 => s = now + 1
      /\ Window > 0 /\ latest # 0 /\ ~run.lapsed /\ ~Outrun => s <= latest + 1
  BY <1>1, <1>2, StartsBehind
<1>7. /\ now \in Nat /\ latest \in Nat /\ s \in Nat /\ run.since \in Nat /\ Times \subseteq Nat
      /\ dispatched \subseteq Nat
  BY <1>3, TypedRun, TimesAreLate
<1>8. excused' \subseteq Times /\ outrun' \subseteq Times
  <2>1. excused \subseteq Times /\ outrun \subseteq Times
    BY <1>3 DEF TypeOK
  <2>2. run.lapsed \/ Outrun => latest \in Times
    BY <1>2, <1>3 DEF TypeOK, Dialling, Outrun
  <2>3. run.lapsed \/ Outrun => (latest + 1)..(s - 1) \subseteq Times
    <3>1. Start \in Nat /\ MaxTime \in Nat /\ now <= MaxTime
      BY <1>3, <1>7, TypedRun, TimesAreLate
    <3>2. ASSUME run.lapsed \/ Outrun, NEW t \in (latest + 1)..(s - 1)
          PROVE  t \in Times
      <4>1. Start <= latest
        BY <1>7, <2>2, <3>1, <3>2 DEF Times
      <4>2. t \in Int /\ latest + 1 <= t /\ t <= s - 1
        BY <1>7, <3>2
      <4>3. Start <= t /\ t <= MaxTime
        BY <1>6, <1>7, <3>1, <4>1, <4>2
      <4> QED
        BY <3>1, <4>2, <4>3 DEF Times
    <3> QED
      BY <3>2
  <2> QED
    BY <1>1, <2>1, <2>3
<1>9. TypeOK'
  BY <1>2, <1>3, <1>4, <1>5, <1>8 DEF TypeOK, Runs, Pcs, States
<1>10. Behind'
  BY <1>2, <1>3, <1>4, <1>5, <1>6, <1>7 DEF Behind, Dialling
<1>11. Newest'
  <2>1. \A t \in dispatched : t <= now
    BY <1>3 DEF Behind
  <2> QED
    BY <1>2, <1>3, <1>4, <1>5, <1>6, <1>7, <2>1 DEF Newest, CursorIsNewestDispatched
<1>12. Dialling' /\ Held'
  BY <1>2, <1>3, <1>4 DEF Dialling, Held, PromptRedial
<1>13. ASSUME GapInv
       PROVE  GapInv'
  <2>1. excused \subseteq excused' /\ outrun \subseteq outrun'
    BY <1>1
  <2>2. SilentGapNeedsSlowDial'
    BY <1>2, <1>13, <2>1 DEF GapInv, SilentGapNeedsSlowDial, Missed
  <2>3. ASSUME Window > 0, NEW t \in Times, first # 0, latest < t, t < s
        PROVE  t \in excused' \cup outrun'
    <3>1. latest # 0
      BY <1>13, <2>3 DEF GapInv, Bridged
    <3>2. t \in Nat
      BY <1>7
    <3>3. run.lapsed \/ Outrun
      BY <1>6, <1>7, <2>3, <3>1, <3>2
    <3>4. t \in (latest + 1)..(s - 1)
      BY <1>7, <2>3, <3>2
    <3> QED
      BY <1>1, <3>3, <3>4
  <2>4. Bridged'
    BY <1>2, <1>5, <1>13, <2>3 DEF GapInv, Bridged
  <2> QED
    BY <2>2, <2>4 DEF GapInv
<1> QED
  BY <1>9, <1>10, <1>11, <1>12, <1>13 DEF IngestInv

\* Readiness is granted before the first frame.
LEMMA ReadyOnConnectStep ==
    ASSUME IngestInv, ReadyOnConnect
    PROVE  IngestInv' /\ (GapInv => GapInv')
<1>1. /\ run.pc = "up" /\ run' = At("read") /\ ready' = TRUE
      /\ UNCHANGED <<now, stream, latest, conn, state, attempt, connected, dispatched, first,
                     excused, outrun, held, maint, ctxDone, restarts, inherited>>
  BY DEF ReadyOnConnect, envVars, history, skipped
<1>2. TypeOK /\ Behind /\ Newest /\ Held
  BY DEF IngestInv
<1>3. run' \in Runs /\ run'.pc = "read" /\ run'.since = run.since /\ Connected' /\ Connected
  BY <1>1, <1>2, AtFields DEF Pcs, Connected
<1>4. TypeOK'
  BY <1>1, <1>2, <1>3 DEF TypeOK, Runs, Pcs, States
<1>5. Behind' /\ Newest' /\ Dialling'
  BY <1>1, <1>2, <1>3 DEF Behind, Newest, Dialling, CursorIsNewestDispatched
<1>6. Held'
  BY <1>1, <1>2, <1>3 DEF Held, PromptRedial
<1>7. GapInv => GapInv'
  BY <1>1, <1>3 DEF GapInv, Bridged, SilentGapNeedsSlowDial, Missed
<1> QED
  BY <1>4, <1>5, <1>6, <1>7 DEF IngestInv

\* A frame leaves the connection, malformed or for the dispatcher.
LEMMA ReadStep ==
    ASSUME IngestInv, Read
    PROVE  IngestInv' /\ (GapInv => GapInv')
<1>1. /\ run.pc = "read" /\ Readable
      /\ conn' = [conn EXCEPT !.next = NextFrame + 1]
      /\ UNCHANGED <<now, stream, latest, state, attempt, connected, dispatched, first, excused,
                     outrun, held, ready, maint, ctxDone, restarts, inherited>>
  BY DEF Read, ReadMalformed, ReadFrame, envVars, history, skipped
<1>2. \/ run' = run /\ stream[NextFrame] = "bad"
      \/ run' = [At("dispatch") EXCEPT !.frame = NextFrame]
  BY DEF Read, ReadMalformed, ReadFrame
<1>3. TypeOK /\ Behind /\ Newest /\ Held
  BY DEF IngestInv
<1>4. /\ NextFrame \in Times /\ NextFrame <= now /\ conn.next <= NextFrame
      /\ \A t \in Times : conn.next <= t /\ t < NextFrame => stream[t] = "none"
  BY <1>1, <1>3, NextFrameIsFirst
<1>5. /\ now \in Nat /\ latest \in Nat /\ conn.next \in Nat /\ Times \subseteq Nat
      /\ NextFrame \in Nat /\ MaxTime \in Nat /\ now <= MaxTime
  BY <1>3, <1>4, TypedRun, TimesAreLate
<1>6. /\ conn'.next = NextFrame + 1 /\ conn'.since = conn.since
      /\ conn' \in [up : BOOLEAN, next : 0..(MaxTime + 1), since : 0..MaxTime]
  <2>1. conn \in [up : BOOLEAN, next : 0..(MaxTime + 1), since : 0..MaxTime]
    BY <1>3 DEF TypeOK
  <2>2. NextFrame + 1 \in 0..(MaxTime + 1)
    BY <1>4, <1>5
  <2> QED
    BY <1>1, <2>1, <2>2
<1>7. /\ run' \in Runs /\ run'.since = run.since /\ Connected /\ Connected'
      /\ run'.pc \in {"read", "dispatch"}
      /\ run'.pc = "read" => stream[NextFrame] = "bad"
      /\ run'.pc = "dispatch" => run'.frame = NextFrame
  <2>1. run \in Runs
    BY <1>3, TypedRun
  <2>2. At("dispatch") \in Runs /\ At("dispatch").pc = "dispatch"
        /\ At("dispatch").since = run.since
    BY <1>3, AtFields DEF Pcs
  <2>3. [At("dispatch") EXCEPT !.frame = NextFrame] \in Runs
    BY <1>4, <2>2 DEF Runs
  <2>4. /\ [At("dispatch") EXCEPT !.frame = NextFrame].pc = "dispatch"
        /\ [At("dispatch") EXCEPT !.frame = NextFrame].since = run.since
        /\ [At("dispatch") EXCEPT !.frame = NextFrame].frame = NextFrame
    BY <2>2 DEF Runs
  <2> QED
    BY <1>1, <1>2, <2>1, <2>3, <2>4 DEF Connected
<1>8. TypeOK'
  BY <1>1, <1>3, <1>6, <1>7 DEF TypeOK, Runs, Pcs, States
<1>9. Behind'
  BY <1>1, <1>3, <1>4, <1>5, <1>6, <1>7 DEF Behind
<1>10. Newest'
  BY <1>1, <1>3 DEF Newest, CursorIsNewestDispatched
<1>11. Dialling' /\ Held'
  BY <1>1, <1>3, <1>7 DEF Dialling, Held, PromptRedial
<1>12. ASSUME GapInv PROVE GapInv'
  <2>1. SilentGapNeedsSlowDial'
    BY <1>1, <1>12 DEF GapInv, SilentGapNeedsSlowDial, Missed
  <2>2. ASSUME Window > 0, NEW t \in Times, first # 0, latest < t, t < NextFrame + 1,
               stream[t] = "ok"
        PROVE  t \in excused \cup outrun \cup dispatched \/ (run'.pc = "dispatch" /\ t = run'.frame)
    <3>1. CASE t < conn.next
      BY <1>1, <1>7, <1>12, <2>2, <3>1 DEF GapInv, Bridged
    <3>2. CASE conn.next <= t
      <4>1. ~(t < NextFrame)
        BY <1>4, <2>2, <3>2
      <4>2. t = NextFrame
        BY <1>5, <2>2, <4>1
      <4> QED
        BY <1>7, <2>2, <4>2
    <3> QED
      BY <1>5, <3>1, <3>2
  <2>3. Bridged'
    BY <1>1, <1>6, <1>12, <2>2 DEF GapInv, Bridged
  <2> QED
    BY <2>1, <2>3 DEF GapInv
<1> QED
  BY <1>8, <1>9, <1>10, <1>11, <1>12 DEF IngestInv

\* The dispatcher returned: the cursor is the newest position dispatched.
LEMMA HandleFrameStep ==
    ASSUME IngestInv, HandleFrame
    PROVE  IngestInv' /\ (GapInv => GapInv')
<1>1. /\ run.pc = "dispatch" /\ run' = At("read") /\ state' \in {"live", state}
      /\ dispatched' = dispatched \cup {run.frame}
      /\ first' = IF first = 0 THEN run.frame ELSE first
      /\ latest' = Later(latest, run.frame)
      /\ UNCHANGED <<now, stream, conn, attempt, connected, excused, outrun, held, ready, maint,
                     ctxDone, restarts, inherited>>
  BY DEF HandleFrame, envVars, skipped
<1>2. TypeOK /\ Behind /\ Newest /\ Held
  BY DEF IngestInv
<1>3. run' \in Runs /\ run'.pc = "read" /\ run'.since = run.since /\ Connected /\ Connected'
  BY <1>1, <1>2, AtFields DEF Pcs, Connected
<1>4. /\ run.frame \in Times /\ conn.next = run.frame + 1 /\ conn.next <= now + 1
  BY <1>1, <1>2, <1>3 DEF Behind
<1>5. /\ now \in Nat /\ latest \in Nat /\ first \in Nat /\ Times \subseteq Nat
      /\ run.frame \in Nat /\ run.frame # 0 /\ run.frame <= now
      /\ dispatched \subseteq Nat
  BY <1>2, <1>4, TypedRun, TimesAreLate
<1>6. latest' \in Times \cup {0} /\ latest' \in {latest, run.frame} /\ latest' <= now
      /\ latest <= latest' /\ run.frame <= latest' /\ latest' # 0
  <2>1. latest \in Times \cup {0} /\ latest <= now
    BY <1>2, TypedRun DEF Behind
  <2> QED
    BY <1>1, <1>4, <1>5, <2>1 DEF Later
<1>7. TypeOK'
  <2>1. first' \in Times \cup {0} /\ dispatched' \subseteq Times /\ state' \in States
    BY <1>1, <1>2, <1>4, TypedRun DEF TypeOK, States
  <2> QED
    BY <1>1, <1>2, <1>3, <1>6, <2>1 DEF TypeOK, Runs, Pcs, States
<1>8. Behind'
  BY <1>1, <1>2, <1>3, <1>5, <1>6 DEF Behind
<1>9. Newest'
  <2>1. CASE latest = 0
    <3>1. dispatched = {}
      BY <1>2, <2>1 DEF Newest
    <3>2. latest' = run.frame
      BY <1>1, <1>5, <2>1 DEF Later
    <3> QED
      BY <1>1, <1>5, <3>1, <3>2 DEF Newest, CursorIsNewestDispatched
  <2>2. CASE latest # 0
    <3>1. latest \in dispatched /\ \A t \in dispatched : t <= latest
      BY <1>2, <2>2 DEF Newest, CursorIsNewestDispatched
    <3>2. latest' \in dispatched' /\ \A t \in dispatched' : t <= latest'
      BY <1>1, <1>5, <1>6, <3>1
    <3> QED
      BY <1>6, <3>2 DEF Newest, CursorIsNewestDispatched
  <2> QED
    BY <2>1, <2>2
<1>10. Dialling' /\ Held'
  BY <1>1, <1>2, <1>3 DEF Dialling, Held, PromptRedial
<1>11. ASSUME GapInv PROVE GapInv'
  <2>1. first' # 0 /\ first' <= latest'
    BY <1>1, <1>5, <1>6, <1>11 DEF GapInv, Bridged
  <2>2. CASE first = 0
    <3>1. latest = 0 /\ first' = run.frame /\ latest' = run.frame
      BY <1>1, <1>5, <1>11, <2>2 DEF GapInv, Bridged, Later
    <3>2. \A t \in Times : ~(latest' < t /\ t < conn.next) /\ ~(first' < t /\ t <= latest')
      BY <1>4, <1>5, <3>1
    <3> QED
      BY <1>1, <1>6, <2>1, <3>2 DEF GapInv, Bridged, SilentGapNeedsSlowDial, Missed
  <2>3. CASE first # 0
    <3>1. first' = first /\ latest # 0
      BY <1>1, <1>11, <2>3 DEF GapInv, Bridged
    <3>2. Window > 0 => \A t \in Times : latest < t /\ t < conn.next /\ stream[t] = "ok" =>
            t \in excused \cup outrun \cup dispatched'
      BY <1>1, <1>3, <1>11, <2>3 DEF GapInv, Bridged
    <3>3. Bridged'
      BY <1>1, <1>5, <1>6, <2>1, <3>1, <3>2 DEF Bridged
    <3>4. ASSUME Window > 0, NEW t \in Times, first < t, t <= latest', stream[t] = "ok",
                 t \notin dispatched'
          PROVE  t \in excused \cup outrun
      <4>1. CASE t <= latest
        BY <1>1, <1>11, <2>3, <3>4, <4>1 DEF GapInv, SilentGapNeedsSlowDial, Missed
      <4>2. CASE ~(t <= latest)
        <5>1. latest < t /\ t < conn.next
          BY <1>4, <1>5, <1>6, <3>4, <4>2
        <5> QED
          BY <3>2, <3>4, <5>1
      <4> QED
        BY <4>1, <4>2
    <3>5. SilentGapNeedsSlowDial'
      BY <1>1, <3>1, <3>4 DEF SilentGapNeedsSlowDial, Missed
    <3> QED
      BY <3>3, <3>5 DEF GapInv
  <2> QED
    BY <2>2, <2>3
<1> QED
  BY <1>7, <1>8, <1>9, <1>10, <1>11 DEF IngestInv

\* The dial fails, the connection is lost, Run returns or the backoff is over: what
\* was held is remembered.
LEMMA LeaveStep ==
    ASSUME IngestInv,
           DialFails \/ ReadFails \/ IdleTimeout \/ ReadCancelled \/ Return \/ BackoffEnds
    PROVE  IngestInv' /\ (GapInv => GapInv')
<1>1. /\ UNCHANGED <<now, stream, latest, dispatched, first, excused, outrun, attempt, ready,
                     maint, ctxDone, restarts, inherited>>
      /\ state' \in {state, "disconnected"}
      /\ conn' \in {conn, NoConn} /\ connected' \in {connected, FALSE}
  BY DEF DialFails, ReadFails, IdleTimeout, ReadCancelled, LeaveConnection, Return, BackoffEnds,
         envVars, history, skipped
<1>2. TypeOK /\ Behind /\ Newest /\ Held
  BY DEF IngestInv
<1>3. \E p \in {"lost", "returned", "top"} : run' \in {RunAt(p), At(p)}
  BY DEF DialFails, ReadFails, IdleTimeout, ReadCancelled, LeaveConnection, Return, BackoffEnds
<1>4. run' \in Runs /\ run'.pc \in {"lost", "returned", "top"}
  BY <1>2, <1>3, AtFields DEF Pcs
<1>5. conn' \in [up : BOOLEAN, next : 0..(MaxTime + 1), since : 0..MaxTime]
  <2>1. conn \in [up : BOOLEAN, next : 0..(MaxTime + 1), since : 0..MaxTime]
    BY <1>2 DEF TypeOK
  <2>2. NoConn \in [up : BOOLEAN, next : 0..(MaxTime + 1), since : 0..MaxTime]
    BY TimesAreLate DEF NoConn
  <2> QED
    BY <1>1, <2>1, <2>2
<1>6. held' \in BOOLEAN /\ (held' /\ run'.pc = "lost" => now - run'.since > HealthyFor)
  <2>1. CASE ReadFails \/ IdleTimeout \/ ReadCancelled
    <3>1. /\ run.pc = "read" /\ run' = At("lost") /\ held' = (now - conn.since > HealthyFor)
      BY <2>1 DEF ReadFails, IdleTimeout, ReadCancelled, LeaveConnection
    <3>2. run'.since = run.since
      BY <1>2, <3>1, AtFields DEF Pcs
    <3>3. run.since <= conn.since
      BY <1>2, <3>1 DEF Behind, Connected
    <3>4. {now, run.since, conn.since, HealthyFor} \subseteq Nat
      BY <1>2, TypedRun
    <3>5. held' \in BOOLEAN
      BY <3>1
    <3>6. now - conn.since > HealthyFor => now - run.since > HealthyFor
      BY <3>3, <3>4
    <3> QED
      BY <3>1, <3>2, <3>5, <3>6
  <2>2. CASE DialFails
    <3>1. held' = held /\ run.pc = "dial"
      BY <2>2 DEF DialFails, history, skipped
    <3>2. ~held
      BY <1>2, <3>1 DEF Held
    <3> QED
      BY <3>1, <3>2, <1>2 DEF TypeOK
  <2>3. CASE Return \/ BackoffEnds
    <3>1. held' = held
      BY <2>3 DEF Return, BackoffEnds, history, skipped
    <3>2. run'.pc # "lost"
      BY <1>2, <2>3, AtFields DEF Return, BackoffEnds, Pcs
    <3>3. held \in BOOLEAN
      BY <1>2 DEF TypeOK
    <3> QED
      BY <3>1, <3>2, <3>3
  <2> QED
    BY <2>1, <2>2, <2>3
<1>7. TypeOK'
  <2>1. state' \in States /\ connected' \in BOOLEAN
    BY <1>1, <1>2 DEF TypeOK, States
  <2> QED
    BY <1>1, <1>2, <1>4, <1>5, <1>6, <2>1 DEF TypeOK, Runs, Pcs
<1>8. Held'
  BY <1>1, <1>4, <1>6 DEF Held, PromptRedial
<1>9. Dialling' /\ Behind' /\ Newest' /\ (GapInv => GapInv')
  BY <1>1, <1>2, <1>4, DownStep
<1> QED
  BY <1>7, <1>8, <1>9 DEF IngestInv

\* The connection is lost: after one that held, the attempts start anew.
LEMMA DisconnectedStep ==
    ASSUME IngestInv, Disconnected
    PROVE  IngestInv' /\ (GapInv => GapInv')
<1>1. /\ run.pc = "lost" /\ attempt' = Attempt /\ state' \in States /\ ready' = FALSE
      /\ UNCHANGED <<now, stream, latest, conn, connected, dispatched, first, excused, outrun,
                     held, maint, ctxDone, restarts, inherited>>
  BY DEF Disconnected, envVars, history, skipped, States
<1>2. PICK d \in 0..LongestDelay(attempt') :
        now + d <= MaxTime /\ run' = [RunAt("backoff") EXCEPT !.until = now + d]
  BY DEF Disconnected
<1>3. TypeOK /\ Behind /\ Newest /\ Held
  BY DEF IngestInv
<1>4. now \in Nat /\ MaxTime \in Nat /\ d \in Nat /\ MaxShift \in Nat \ {0} /\ attempt \in Nat
      /\ attempt \in 0..MaxShift
  <2>1. d \in Nat
    BY <1>2
  <2> QED
    BY <1>3, <2>1, TypedRun, IngestAssumption DEF TypeOK
<1>5. /\ run' \in Runs /\ run'.pc = "backoff" /\ run'.until = now + d
  <2>1. RunAt("backoff") \in Runs /\ RunAt("backoff").pc = "backoff"
    BY <1>3, AtFields DEF Pcs
  <2>2. now + d \in 0..MaxTime
    BY <1>2, <1>4
  <2> QED
    BY <1>2, <2>1, <2>2 DEF Runs
<1>6. attempt' \in 0..MaxShift
  BY <1>1, <1>4 DEF Attempt
<1>7. TypeOK'
  BY <1>1, <1>3, <1>5, <1>6 DEF TypeOK, Runs, Pcs, States
<1>8. Held'
  <2>1. held => attempt' = 1
    BY <1>1, <1>3 DEF Held, Attempt
  <2>2. held => d \in 0..LongestDelay(1)
    BY <1>2, <2>1
  <2>3. LongestDelay(1) \in Int
    BY DelayIsTime
  <2>4. held => run'.until - now <= LongestDelay(1)
    BY <1>4, <1>5, <2>2, <2>3
  <2> QED
    BY <1>1, <1>5, <2>4 DEF Held, PromptRedial, LongestDelay
<1>9. Dialling' /\ Behind' /\ Newest' /\ (GapInv => GapInv')
  BY <1>1, <1>3, <1>5, DownStep
<1> QED
  BY <1>7, <1>8, <1>9 DEF IngestInv

\* A new process: no position, no connection, nothing dispatched.
LEMMA RestartStep ==
    ASSUME IngestInv, Restart
    PROVE  IngestInv' /\ GapInv'
<1>1. /\ UNCHANGED <<now, stream>>
      /\ latest' = 0 /\ run' = RunAt("top") /\ conn' = NoConn
      /\ state' = "disconnected" /\ attempt' = 0 /\ connected' = FALSE /\ ready' = FALSE
      /\ maint' = MaintIdle /\ ctxDone' = FALSE /\ held' = FALSE
      /\ dispatched' = {} /\ first' = 0 /\ excused' = {} /\ outrun' = {}
      /\ restarts' = restarts + 1 /\ restarts < MaxRestarts
      /\ inherited' \in {0, latest}
  BY DEF Restart, Replaced, Killed, NewProcess
<1>2. TypeOK /\ Behind
  BY DEF IngestInv
<1>3. run' \in Runs /\ run'.pc = "top" /\ ~Connected'
  BY <1>1, <1>2, AtFields DEF Pcs, Connected
<1>4. restarts \in 0..MaxRestarts /\ MaxRestarts \in Nat /\ MaxShift \in Nat
  BY <1>2, IngestAssumption DEF TypeOK
<1>5. TypeOK'
  <2>1. conn' \in [up : BOOLEAN, next : 0..(MaxTime + 1), since : 0..MaxTime]
    BY <1>1, TimesAreLate DEF NoConn
  <2>2. maint' \in [pc : {"idle", "check", "set", "returned"}, lagging : BOOLEAN]
    BY <1>1 DEF MaintIdle
  <2>3. attempt' \in 0..MaxShift /\ restarts' \in 0..MaxRestarts
    BY <1>1, <1>4
  <2>4. inherited' \in Times \cup {0} /\ latest' \in Times \cup {0}
    BY <1>1, <1>2 DEF TypeOK
  <2> QED
    BY <1>1, <1>2, <1>3, <2>1, <2>2, <2>3, <2>4 DEF TypeOK, Runs, Pcs, States
<1>6. Behind'
  <2>1. now \in Nat
    BY <1>2, TypedRun
  <2> QED
    BY <1>1, <1>2, <1>3, <2>1 DEF Behind
<1>7. Dialling' /\ Newest' /\ Held'
  BY <1>1, <1>3 DEF Dialling, Newest, Held, CursorIsNewestDispatched, PromptRedial
<1>8. GapInv'
  BY <1>1, <1>3 DEF GapInv, Bridged, SilentGapNeedsSlowDial, Missed
<1> QED
  BY <1>5, <1>6, <1>7, <1>8 DEF IngestInv

-----------------------------------------------------------------------------
(***************************************************************************)
(* The theorems.                                                           *)
(***************************************************************************)

\* Every step preserves the invariant, and the bridge over what was skipped.
LEMMA IngestStep ==
    ASSUME IngestInv, [Next]_vars
    PROVE  IngestInv' /\ (GapInv => GapInv')
<1>1. CASE Run
  BY <1>1, BeginDialStep, DialSucceedsStep, ReadyOnConnectStep, ReadStep, HandleFrameStep,
     LeaveStep, DisconnectedStep, Zenon DEF Run
<1>2. CASE Maintenance \/ Cancel \/ HalfOpen
  BY <1>2, MaintenanceStep, Zenon
<1>3. CASE Tick
  BY <1>3, TickStep, Zenon
<1>4. CASE Restart
  BY <1>4, RestartStep, Zenon
<1>5. CASE Terminated \/ UNCHANGED vars
  <2>1. UNCHANGED vars
    BY <1>5 DEF Terminated
  <2>2. /\ UNCHANGED <<now, stream, latest, run, held, dispatched, first, excused, outrun>>
        /\ UNCHANGED <<conn, state, attempt, connected, ready, maint, ctxDone, restarts, inherited>>
    BY <2>1 DEF vars
  <2>3. TypeOK'
    BY <2>2 DEF IngestInv, TypeOK
  <2>4. conn'.next = conn.next /\ conn'.since = conn.since
    BY <2>2
  <2> QED
    BY <2>2, <2>3, <2>4, QuietStep DEF IngestInv
<1> QED
  BY <1>1, <1>2, <1>3, <1>4, <1>5, Zenon DEF Next

\* Clock, connection, cursor and backoff stay in step in every behaviour of the
\* ingestor (ingest.go).
THEOREM IngestInvariant == Spec => []IngestInv
<1>1. Init => IngestInv
  BY IngestInit
<1>2. IngestInv /\ [Next]_vars => IngestInv'
  BY IngestStep
<1> QED
  BY <1>1, <1>2, PTL DEF Spec

\* The state of the ingestor keeps its shape.
THEOREM IngestTypes == Spec => []TypeOK
<1>1. IngestInv => TypeOK
  BY DEF IngestInv
<1> QED
  BY <1>1, IngestInvariant, PTL

\* The cursor is the newest position dispatched, whatever is replayed, lost, malformed or
\* reconnected (Advance, connectAndRead).
THEOREM IngestCursorIsNewestDispatched == Spec => []CursorIsNewestDispatched
<1>1. IngestInv => CursorIsNewestDispatched
  BY DEF IngestInv, Newest
<1> QED
  BY <1>1, IngestInvariant, PTL

\* A connection that held resets the backoff, for every maximum delay (Run).
THEOREM IngestPromptRedial == Spec => []PromptRedial
<1>1. IngestInv => PromptRedial
  BY DEF IngestInv, Held
<1> QED
  BY <1>1, IngestInvariant, PTL

\* For every window that is checked, rewind, retention and dial timeout, and through any
\* number of processes: what a process skips without counting it, it skipped behind a dial
\* that outlasted the rewind and what the server retains beyond the window (subscribeURL,
\* connectAndRead, Advance).
THEOREM IngestSilentGapNeedsSlowDial == Spec => []SilentGapNeedsSlowDial
<1>1. Init => IngestInv /\ GapInv
  BY IngestInit
<1>2. IngestInv /\ GapInv /\ [Next]_vars => IngestInv' /\ GapInv'
  BY IngestStep
<1>3. GapInv => SilentGapNeedsSlowDial
  BY DEF GapInv
<1> QED
  BY <1>1, <1>2, <1>3, PTL DEF Spec
=============================================================================
