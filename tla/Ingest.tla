------------------------------- MODULE Ingest -------------------------------
(***************************************************************************)
(* The ingestor (internal/jetstream/ingest.go): the goroutine that keeps a *)
(* connection to the stream, hands every decoded frame to the dispatcher   *)
(* and advances the cursor, and the maintenance goroutine that commits the *)
(* cursor and gates readiness on its lag.                                  *)
(*                                                                         *)
(* Positions are times, as in the stream: the event published at time t    *)
(* has time_us t, and at most one is published at each instant of the      *)
(* model.  Server and client share the clock.  The server is external: it  *)
(* replays what it retains from the cursor it is given, or starts at the   *)
(* live tip.  The dial timeout and the backoff last as long as the clock   *)
(* says; the other timers may fire at any moment at which they are set.    *)
(* The cursor file and Commit are the business of module Cursor: here the  *)
(* file only appears as what an ordered shutdown leaves to the process     *)
(* that follows (inherited).                                               *)
(***************************************************************************)
EXTENDS Integers, FiniteSets

CONSTANTS
    MaxTime,        \* bound of the model: the clock stops here
    MaxRestarts,    \* bound of the model: how often the process is replaced
    Rewind,         \* Config.ReplayRewind
    Window,         \* Config.ReplayWindow; 0 switches the check off
    Retention,      \* what the server really retains
    LiveThreshold,  \* Config.LiveThreshold
    MaxLag,         \* Config.MaxLag
    DialTimeout,    \* the bound of a dial, 20 s in connectAndRead
    HealthyFor,     \* healthyFor: how long a connection holds to reset the backoff
    BackoffMax,     \* Config.BackoffMax
    MaxShift        \* the attempt at which the backoff stops to double, 6 in Run

ASSUME IngestAssumption ==
    /\ {MaxTime, MaxRestarts, Rewind, Window, Retention, LiveThreshold, MaxLag,
        DialTimeout, HealthyFor, BackoffMax} \subseteq Nat
    /\ MaxShift \in Nat \ {0}
    /\ Rewind + 1 <= MaxTime

\* The stream is older than the rewind: no position is too small to rewind.
Start == Rewind + 1
Times == Start..MaxTime

VARIABLES
    now,        \* the clock
    stream,     \* what was published at each time: "none", "ok" or "bad" (malformed)
    latest,     \* Cursor.latest, 0 before the first Advance
    run,        \* the ingest goroutine: pc, the cursor it asks for, when it dialled
                \* (connectedAt), whether it recorded a gap, the frame it dispatches,
                \* when the backoff is over
    conn,       \* the connection: whether frames arrive, next position to be sent,
                \* since when there is one
    state,      \* Ingestor.state
    attempt,    \* attempt in Run, up to MaxShift, beyond which it tells nothing apart
    connected,  \* Ingestor.connected
    ready,      \* Health.ready
    maint,      \* the maintenance goroutine: pc, the verdict it reached on the lag
    ctxDone,    \* the context is cancelled
    restarts,   \* processes replaced so far
    inherited,  \* history: what the final commit of the process before this one left in
                \* the file, 0 if there was none
    dispatched, \* history: positions this process handed to the dispatcher
    first,      \* history: the first of them in time
    excused,    \* history: positions inside a gap that was recorded (ReplayGap)
    outrun,     \* history: positions skipped by a dial that took too long (Outrun)
    held        \* history: the last connection lasted longer than HealthyFor, and no
                \* dial has begun since

vars == <<now, stream, latest, run, conn, state, attempt, connected, ready,
          maint, ctxDone, restarts, inherited, dispatched, first, excused, outrun, held>>

envVars  == <<now, stream, ctxDone, restarts, inherited>>
skipped  == <<excused, outrun>>
history  == <<dispatched, first, skipped, held>>
runVars  == <<latest, run, conn, state, attempt, connected, history>>

RunAt(p)  == [pc |-> p, cursor |-> 0, since |-> 0, lapsed |-> FALSE, frame |-> 0,
              until |-> 0]
NoConn    == [up |-> FALSE, next |-> 0, since |-> 0]
At(p)     == [RunAt(p) EXCEPT !.since = run.since]
MaintIdle == [pc |-> "idle", lagging |-> FALSE]

Init ==
    /\ now = Start
    /\ stream = [t \in Times |-> "none"]
    /\ latest = 0
    /\ run = RunAt("top")
    /\ conn = NoConn
    /\ state = "disconnected" /\ attempt = 0 /\ connected = FALSE
    /\ ready = FALSE
    /\ maint = MaintIdle
    /\ ctxDone = FALSE /\ restarts = 0 /\ inherited = 0
    /\ dispatched = {} /\ first = 0 /\ excused = {} /\ outrun = {} /\ held = FALSE

Later(a, b) == IF a > b THEN a ELSE b
Lag == now - latest

-----------------------------------------------------------------------------
(***************************************************************************)
(* The ingest goroutine: Run and connectAndRead.                           *)
(***************************************************************************)

\* Mutant: the age of the position is looked at, not of the one that is asked for.
SubscribeUnrewound ==
    IF latest = 0 THEN [cursor |-> 0, lapsed |-> FALSE]
    ELSE IF Window > 0 /\ now - latest > Window THEN [cursor |-> 0, lapsed |-> TRUE]
    ELSE [cursor |-> latest - Rewind, lapsed |-> FALSE]

\* subscribeURL: the cursor to resume from, 0 for none, and whether the replay
\* window has lapsed, in which case the gap is recorded and the tip asked for.
Subscribe ==
    LET resume == latest - Rewind
    IN  IF latest = 0 THEN [cursor |-> 0, lapsed |-> FALSE]
        ELSE IF Window > 0 /\ now - resume > Window THEN [cursor |-> 0, lapsed |-> TRUE]
        ELSE [cursor |-> resume, lapsed |-> FALSE]

\* The top of the loop of Run: the state, the URL, and the dial begins.
BeginDial ==
    /\ run.pc = "top" /\ ~ctxDone
    /\ state' = IF attempt > 0 THEN "reconnecting" ELSE "connecting"
    /\ run' = [RunAt("dial") EXCEPT !.cursor = Subscribe.cursor, !.since = now,
                                    !.lapsed = Subscribe.lapsed]
    /\ held' = FALSE
    /\ UNCHANGED <<latest, conn, attempt, connected, dispatched, first, skipped, ready,
                   maint, envVars>>

\* Where the server starts: at the cursor, exclusive or inclusive, or at the
\* oldest event it retains, or after the live tip.
StartsAt(s) ==
    IF run.cursor = 0 THEN s = now + 1
    ELSE s \in {Later(run.cursor, now - Retention), Later(run.cursor + 1, now - Retention)}

\* The dial took so long that a position within the window when it began may have
\* left the retention when it is over, by more than the rewind makes up for.
Outrun ==
    latest # 0 /\ ~run.lapsed /\ now - run.since > Rewind + (Retention - Window) + 1

\* The dial succeeds: Replaying behind a position, Live without one.  A gap that
\* was recorded ends where the server starts; one that was not recorded does, too.
DialSucceeds ==
    /\ run.pc = "dial"
    /\ \E s \in 0..(MaxTime + 1) :
         /\ StartsAt(s)
         /\ conn' = [up |-> TRUE, next |-> s, since |-> now]
         /\ LET gap == (latest + 1)..(s - 1)
            IN  /\ excused' = IF run.lapsed THEN excused \cup gap ELSE excused
                /\ outrun' = IF Outrun THEN outrun \cup gap ELSE outrun
    /\ state' = IF latest > 0 THEN "replaying" ELSE "live"
    /\ connected' = TRUE
    /\ run' = At("up")
    /\ UNCHANGED <<latest, attempt, dispatched, first, held, ready, maint, envVars>>

\* The dial fails, runs into its timeout or is cancelled with the context.
DialFails ==
    /\ run.pc = "dial"
    /\ run' = At("lost")
    /\ UNCHANGED <<latest, conn, state, attempt, connected, history, ready, maint,
                   envVars>>

\* Connected: readiness is granted before the first frame.
ReadyOnConnect ==
    /\ run.pc = "up"
    /\ ready' = TRUE
    /\ run' = At("read")
    /\ UNCHANGED <<latest, conn, state, attempt, connected, history, maint, envVars>>

\* The positions the connection has yet to deliver, oldest first.
Pending == {t \in conn.next..now : t \in Times /\ stream[t] # "none"}
Readable == conn.up /\ Pending # {}
NextFrame == CHOOSE t \in Pending : \A u \in Pending : t <= u

\* Mutant: Advance is called for malformed frames as well, as its comment says.
ReadMalformedAdvances ==
    /\ run.pc = "read" /\ Readable
    /\ stream[NextFrame] = "bad"
    /\ conn' = [conn EXCEPT !.next = NextFrame + 1]
    /\ latest' = Later(latest, NextFrame)
    /\ UNCHANGED <<run, state, attempt, connected, history, ready, maint, envVars>>

\* A malformed frame: counted and skipped; the cursor does not move.
ReadMalformed ==
    /\ run.pc = "read" /\ Readable
    /\ stream[NextFrame] = "bad"
    /\ conn' = [conn EXCEPT !.next = NextFrame + 1]
    /\ UNCHANGED <<latest, run, state, attempt, connected, history, ready, maint,
                   envVars>>

\* A frame that decodes goes to the dispatcher.
ReadFrame ==
    /\ run.pc = "read" /\ Readable
    /\ stream[NextFrame] = "ok"
    /\ conn' = [conn EXCEPT !.next = NextFrame + 1]
    /\ run' = [At("dispatch") EXCEPT !.frame = NextFrame]
    /\ UNCHANGED <<latest, state, attempt, connected, history, ready, maint, envVars>>

\* Mutant: the cursor takes the position to ask for next.
HandleFrameAhead ==
    /\ run.pc = "dispatch"
    /\ dispatched' = dispatched \cup {run.frame}
    /\ first' = IF first = 0 THEN run.frame ELSE first
    /\ latest' = Later(latest, run.frame + 1)
    /\ state' = IF state = "replaying" /\ now + 1 <= LiveThreshold + latest' THEN "live" ELSE state
    /\ run' = At("read")
    /\ UNCHANGED <<conn, attempt, connected, skipped, held, ready, maint, envVars>>

\* Dispatch returned, whether the event was accepted or not: the cursor advances
\* to it if it is newer, and Replaying becomes Live within the threshold.
HandleFrame ==
    /\ run.pc = "dispatch"
    /\ dispatched' = dispatched \cup {run.frame}
    /\ first' = IF first = 0 THEN run.frame ELSE first
    /\ latest' = Later(latest, run.frame)
    /\ state' = IF state = "replaying" /\ now - latest' <= LiveThreshold THEN "live" ELSE state
    /\ run' = At("read")
    /\ UNCHANGED <<conn, attempt, connected, skipped, held, ready, maint, envVars>>

\* connectAndRead returns on an error of Read: connected is cleared, then the
\* connection is closed.
LeaveConnection ==
    /\ run.pc = "read"
    /\ run' = At("lost")
    /\ conn' = NoConn
    /\ connected' = FALSE
    /\ held' = (now - conn.since > HealthyFor)
    /\ UNCHANGED <<latest, state, attempt, dispatched, first, skipped, ready, maint,
                   envVars>>

\* The peer or the network broke the connection, or a frame was too large.
ReadFails == LeaveConnection

\* Mutant: Read has no deadline of its own.
IdleTimeoutOnlyOnCancel == ~Readable /\ ctxDone /\ LeaveConnection

\* Nothing arrived within IdleTimeout.
IdleTimeout == ~Readable /\ LeaveConnection

\* Mutant: Read is not given the context.
ReadCancelledWhenIdle == ctxDone /\ ~Readable /\ LeaveConnection

\* The context was cancelled during Read.
ReadCancelled == ctxDone /\ LeaveConnection

\* Run returns once it looks at its context: after the connection, in the
\* backoff or at the top of the loop.
Return ==
    /\ ctxDone
    /\ run.pc \in {"lost", "backoff", "top"}
    /\ run' = RunAt("returned")
    /\ state' = "disconnected"
    /\ UNCHANGED <<latest, conn, attempt, connected, history, ready, maint, envVars>>

\* Mutant: the attempts only ever climb.
AttemptNever == IF attempt < MaxShift THEN attempt + 1 ELSE MaxShift

\* The number of this failure: a connection that held longer than HealthyFor,
\* counted from before its dial, starts the count anew.
Attempt ==
    IF now - run.since > HealthyFor \/ attempt = 0 THEN 1
    ELSE IF attempt < MaxShift THEN attempt + 1 ELSE MaxShift

\* The longest delay after a number of failures; the jitter takes any up to it.
LongestDelay(n) == IF 2 ^ n > BackoffMax THEN BackoffMax ELSE 2 ^ n

\* Mutant: readiness is left to the maintenance goroutine.
DisconnectedStaysReady ==
    /\ run.pc = "lost" /\ ~ctxDone
    /\ attempt' = Attempt
    /\ state' = "disconnected"
    /\ \E d \in 0..LongestDelay(attempt') :
         /\ now + d <= MaxTime
         /\ run' = [RunAt("backoff") EXCEPT !.until = now + d]
    /\ UNCHANGED <<latest, conn, connected, history, ready, maint, envVars>>

\* The connection is lost: one more attempt, not ready, and the backoff begins.
\* It ends while the clock runs (MaxTime).
Disconnected ==
    /\ run.pc = "lost" /\ ~ctxDone
    /\ attempt' = Attempt
    /\ state' = "disconnected"
    /\ ready' = FALSE
    /\ \E d \in 0..LongestDelay(attempt') :
         /\ now + d <= MaxTime
         /\ run' = [RunAt("backoff") EXCEPT !.until = now + d]
    /\ UNCHANGED <<latest, conn, connected, history, maint, envVars>>

\* The delay is over.
BackoffEnds ==
    /\ run.pc = "backoff" /\ now >= run.until
    /\ run' = RunAt("top")
    /\ UNCHANGED <<latest, conn, state, attempt, connected, history, ready, maint,
                   envVars>>

-----------------------------------------------------------------------------
(***************************************************************************)
(* The maintenance goroutine: maintenanceLoop and refreshLag.              *)
(***************************************************************************)

\* A tick: Commit, which is the business of Cursor, then the lag is read.
MaintTick ==
    /\ maint.pc = "idle"
    /\ maint' = IF latest = 0 THEN MaintIdle ELSE [pc |-> "check", lagging |-> Lag > MaxLag]
    /\ UNCHANGED <<runVars, ready, envVars>>

\* Mutant: the lag is published only while the stream is Replaying or quiet.
MaintCheckReading ==
    /\ maint.pc = "check"
    /\ maint' = IF connected /\ run.pc = "read" THEN [maint EXCEPT !.pc = "set"] ELSE MaintIdle
    /\ UNCHANGED <<runVars, ready, envVars>>

\* refreshLag looks whether there is a connection.
MaintCheck ==
    /\ maint.pc = "check"
    /\ maint' = IF connected THEN [maint EXCEPT !.pc = "set"] ELSE MaintIdle
    /\ UNCHANGED <<runVars, ready, envVars>>

\* refreshLag sets readiness to the verdict it reached.
MaintSet ==
    /\ maint.pc = "set"
    /\ ready' = ~maint.lagging
    /\ maint' = MaintIdle
    /\ UNCHANGED <<runVars, envVars>>

\* maintenanceLoop returns on the cancelled context.
MaintReturns ==
    /\ maint.pc = "idle" /\ ctxDone
    /\ maint' = [maint EXCEPT !.pc = "returned"]
    /\ UNCHANGED <<runVars, ready, envVars>>

-----------------------------------------------------------------------------
(***************************************************************************)
(* The environment: time, the server, the network, the process.            *)
(***************************************************************************)

\* Time passes and the server publishes an event, or none, at the new instant.
\* A dial does not outlast its timeout, nor the backoff its delay.
Tick ==
    /\ now < MaxTime
    /\ run.pc = "dial" => now - run.since < DialTimeout
    /\ run.pc = "backoff" => now < run.until
    /\ now' = now + 1
    /\ \E e \in {"none", "ok", "bad"} : stream' = [stream EXCEPT ![now + 1] = e]
    /\ UNCHANGED <<runVars, ready, maint, ctxDone, restarts, inherited>>

\* The connection goes half-open: no frame arrives any more, and no error.
HalfOpen ==
    /\ conn.up
    /\ conn' = [conn EXCEPT !.up = FALSE]
    /\ UNCHANGED <<latest, run, state, attempt, connected, history, ready, maint,
                   envVars>>

\* SIGTERM.
Cancel ==
    /\ ~ctxDone
    /\ ctxDone' = TRUE
    /\ UNCHANGED <<runVars, now, stream, restarts, inherited, ready, maint>>

\* main begins: it builds a new cursor and does not call Load, whatever the file holds.
NewProcess ==
    /\ restarts < MaxRestarts
    /\ restarts' = restarts + 1
    /\ latest' = 0
    /\ run' = RunAt("top") /\ conn' = NoConn
    /\ state' = "disconnected" /\ attempt' = 0 /\ connected' = FALSE
    /\ ready' = FALSE /\ maint' = MaintIdle /\ ctxDone' = FALSE
    /\ dispatched' = {} /\ first' = 0 /\ excused' = {} /\ outrun' = {} /\ held' = FALSE
    /\ UNCHANGED <<now, stream>>

\* The process is replaced in order: Run returned, and the final commit left the
\* position in the file (CommitedIsDurable of Cursor), if there was one.
Replaced ==
    /\ run.pc = "returned"
    /\ inherited' = latest
    /\ NewProcess

\* The process is replaced after it was killed, or after its final commit failed.
Killed ==
    /\ inherited' = 0
    /\ NewProcess

\* Both goroutines are gone; the process goes on to drain.
Terminated == run.pc = "returned" /\ maint.pc = "returned" /\ UNCHANGED vars

-----------------------------------------------------------------------------
Read == ReadMalformed \/ ReadFrame
Run == BeginDial \/ DialSucceeds \/ DialFails \/ ReadyOnConnect \/ Read \/ HandleFrame
         \/ ReadFails \/ IdleTimeout \/ ReadCancelled \/ Return \/ Disconnected \/ BackoffEnds
Maintenance == MaintTick \/ MaintCheck \/ MaintSet \/ MaintReturns

Restart == Replaced \/ Killed

Next == Run \/ Maintenance \/ Tick \/ HalfOpen \/ Cancel \/ Restart \/ Terminated

Spec == Init /\ [][Next]_vars

(***************************************************************************)
(* Fairness: timers fire, dials end one way or the other, the scheduler    *)
(* runs both goroutines.  Nothing is asked of the server, the network, a   *)
(* read error but the idle timeout, or the clock outside of a backoff.     *)
(* Dispatch returns (OfferReturns of Route), but ReadinessSpec asks not    *)
(* even that: a property that needs it says so (DispatchReturns).          *)
(***************************************************************************)
ReadinessSpec ==
    /\ Spec
    /\ WF_vars(BeginDial) /\ WF_vars(DialSucceeds \/ DialFails) /\ WF_vars(ReadyOnConnect)
    /\ WF_vars(IdleTimeout) /\ WF_vars(ReadCancelled)
    /\ WF_vars(Return) /\ WF_vars(Disconnected) /\ WF_vars(BackoffEnds)
    /\ WF_vars(run.pc = "backoff" /\ Tick)
    /\ WF_vars(MaintTick \/ MaintReturns) /\ WF_vars(MaintCheck) /\ WF_vars(MaintSet)

DispatchReturns == WF_vars(HandleFrame)

-----------------------------------------------------------------------------
States == {"disconnected", "connecting", "replaying", "live", "reconnecting"}

TypeOK ==
    /\ now \in Times
    /\ stream \in [Times -> {"none", "ok", "bad"}]
    /\ latest \in Times \cup {0}
    /\ run \in [pc : {"top", "dial", "up", "read", "dispatch", "lost", "backoff", "returned"},
                cursor : 0..MaxTime, since : 0..MaxTime, lapsed : BOOLEAN,
                frame : Times \cup {0}, until : 0..MaxTime]
    /\ conn \in [up : BOOLEAN, next : 0..(MaxTime + 1), since : 0..MaxTime]
    /\ state \in States
    /\ attempt \in 0..MaxShift /\ held \in BOOLEAN /\ connected \in BOOLEAN /\ ready \in BOOLEAN
    /\ maint \in [pc : {"idle", "check", "set", "returned"}, lagging : BOOLEAN]
    /\ ctxDone \in BOOLEAN /\ restarts \in 0..MaxRestarts /\ inherited \in Times \cup {0}
    /\ dispatched \subseteq Times /\ first \in Times \cup {0}
    /\ excused \subseteq Times /\ outrun \subseteq Times

\* The positions between the first one handled and the cursor that this process never
\* handed to the dispatcher, though they decode.
Missed == {t \in Times : /\ first # 0 /\ first < t /\ t <= latest
                         /\ stream[t] = "ok" /\ t \notin dispatched}

\* With the window checked, a process skips an event silently in one way only: the
\* dial took longer than the rewind and what the server retains beyond the window.
\* Everything else behind the cursor was dispatched or lies in a gap that was counted,
\* through any number of disconnects, half-open connections, replays and lapsed
\* windows (subscribeURL, connectAndRead, Advance).  NoSilentGap, below, drops outrun.
SilentGapNeedsSlowDial == Window > 0 => Missed \subseteq excused \cup outrun

\* The cursor is the newest position this process handed to the dispatcher: replayed
\* frames do not move it back, and a frame that was not dispatched does not move it,
\* a malformed one included (connectAndRead), whatever the comment of Advance says.
CursorIsNewestDispatched ==
    latest # 0 => latest \in dispatched /\ \A t \in dispatched : t <= latest

\* Brief blips of the past do not pin a healthy process at the maximum delay:
\* after a connection that was up longer than HealthyFor, the wait before the next
\* dial is at most the first step of the backoff (Run).
PromptRedial == run.pc = "backoff" /\ held => run.until - now <= LongestDelay(1)

-----------------------------------------------------------------------------
\* A half-open connection is given up, although it yields neither frame nor error.
HalfOpenIsRecycled == run.pc = "read" /\ ~conn.up ~> run.pc # "read"

\* A process that stays connected and behind, its read loop wedged or not, is
\* not ready in the end and stays so: readiness does not depend on reads.
LagFailsReadiness == <>[](connected /\ latest # 0 /\ Lag > MaxLag /\ ~ctxDone) => <>[]~ready

\* A process that in the end has no connection any more is not ready in the end,
\* although the maintenance goroutine may grant readiness on a check it made before
\* the connection was lost (refreshLag, Run).
DeadUpstreamFailsReadiness == <>[](~connected /\ ~ctxDone) => <>[]~ready

\* Run returns after SIGTERM, from the dial, the read, the dispatch or the backoff,
\* when dispatches return; a new process starts with a context of its own.
RunReturns == DispatchReturns => (ctxDone ~> run.pc = "returned" \/ ~ctxDone)

-----------------------------------------------------------------------------
(***************************************************************************)
(* What comments and tests say and the code does not do.                   *)
(***************************************************************************)

\* The comment of ReplayWindow says that a gap is measured and alerted rather than
\* swallowed: whatever lies behind the cursor and was not dispatched is in a gap that was
\* counted.
NoSilentGap == Missed \subseteq excused

\* main.go says that the position is committed on the way out so that a restart replays
\* a bounded overlap rather than opening a gap: what the new process has behind its
\* cursor, from the position it inherited in the file, it dispatched or counted as a gap.
RestartOpensNoGap ==
    inherited # 0 =>
        \A t \in Times :
            inherited < t /\ t <= latest /\ stream[t] = "ok" => t \in dispatched \cup excused
=============================================================================
