------------------------------- MODULE Route -------------------------------
(***************************************************************************)
(* One route of the router (internal/route/route.go): a bounded channel    *)
(* and the worker pool that drains it.                                     *)
(*                                                                         *)
(* Three kinds of goroutine meet here.  The ingest goroutine calls Offer   *)
(* with one event after the other, the workers receive events from the     *)
(* channel and run the handler on them with retries, and main cancels the  *)
(* context on SIGTERM, waits for the ingest goroutine to return and drains *)
(* the route.  The handler is any implementation of the Handler interface: *)
(* each call may return nil, a permanent error or a transient error, or    *)
(* panic.                                                                  *)
(*                                                                         *)
(* Events are numbered in the order in which they are offered.  A counter  *)
(* of the code (an obs.* metric) is the set of events it was incremented   *)
(* for.                                                                    *)
(***************************************************************************)
EXTENDS Naturals, Sequences, FiniteSets

CONSTANTS
    MaxEvents,      \* bound of the model: how many events are offered
    Buffer,         \* Config.Buffer: capacity of the channel
    Workers,        \* the goroutines of the pool (Config.Workers of them)
    MaxAttempts,    \* Config.MaxAttempts: handler calls per event
    Policy          \* Config.Policy: whatever is not "block" acts as "drop"

(***************************************************************************)
(* What withDefaults guarantees of a route's tuning, whatever the          *)
(* configuration file says.                                                *)
(***************************************************************************)
ASSUME RouteAssumption ==
    /\ MaxEvents \in Nat
    /\ Buffer \in Nat \ {0}
    /\ IsFiniteSet(Workers) /\ Workers # {}
    /\ MaxAttempts \in Nat \ {0}

Events   == 1..MaxEvents
Outcomes == {"ok", "permanent", "exhausted"}

VARIABLES
    ctxDone,    \* the process context is cancelled (SIGTERM arrived)
    next,       \* the event the ingest goroutine offers next
    reader,     \* the ingest goroutine: pc, event at hand, depth it read
    queue,      \* the channel
    closed,     \* the channel is closed
    worker,     \* per worker: pc, event at hand, attempt, depth it read
    calls,      \* handler calls made per event (handler_seconds)
    routed,     \* events_routed_total
    dropped,    \* events_dropped_total
    handled,    \* events_handled_total by terminal outcome
    panics,     \* handler_panics_total
    gauge,      \* route_queue_depth
    drain       \* where main is in Drain

vars == <<ctxDone, next, reader, queue, closed, worker, calls,
          routed, dropped, handled, panics, gauge, drain>>

readerVars  == <<next, reader, dropped, routed>>
workerVars  == <<worker, calls, handled, panics>>
processVars == <<ctxDone, closed, drain>>

\* The ingest goroutine between two events, and a worker waiting to receive.
ReaderAt(p) == [pc |-> p, ev |-> 0, depth |-> 0]
WorkerAt(p) == [pc |-> p, ev |-> 0, attempt |-> 0, depth |-> 0]

\* The channel after New and the pool after Start.
Init ==
    /\ ctxDone = FALSE
    /\ next = 1
    /\ reader = ReaderAt("idle")
    /\ queue = <<>>
    /\ closed = FALSE
    /\ worker = [w \in Workers |-> WorkerAt("receive")]
    /\ calls = [e \in Events |-> 0]
    /\ routed = {}
    /\ dropped = {}
    /\ handled = [o \in Outcomes |-> {}]
    /\ panics = {}
    /\ gauge = 0
    /\ drain = "no"

-----------------------------------------------------------------------------
(***************************************************************************)
(* Offer, run by the ingest goroutine.                                     *)
(***************************************************************************)

\* The ingest goroutine read a frame and calls Offer: it stands at the select.
Offer ==
    /\ reader.pc = "idle"
    /\ next <= MaxEvents
    /\ reader' = [pc |-> "select", ev |-> next, depth |-> 0]
    /\ next' = next + 1
    /\ UNCHANGED <<queue, routed, dropped, gauge, workerVars, processVars>>

\* Mutant: the bound of the buffer is not applied.
SendUnbounded ==
    /\ reader.pc = "select"
    /\ queue' = Append(queue, reader.ev)
    /\ reader' = [reader EXCEPT !.pc = "sent"]
    /\ UNCHANGED <<next, routed, dropped, gauge, workerVars, processVars>>

\* The send case of either select: the buffer has room.
Send ==
    /\ reader.pc = "select"
    /\ Len(queue) < Buffer
    /\ queue' = Append(queue, reader.ev)
    /\ reader' = [reader EXCEPT !.pc = "sent"]
    /\ UNCHANGED <<next, routed, dropped, gauge, workerVars, processVars>>

\* After the send: count the event, then read the depth for the gauge.
CountRouted ==
    /\ reader.pc = "sent"
    /\ routed' = routed \cup {reader.ev}
    /\ reader' = [reader EXCEPT !.pc = "gauge", !.depth = Len(queue)]
    /\ UNCHANGED <<next, queue, dropped, gauge, workerVars, processVars>>

\* The ingest goroutine stores the depth it read and Offer returns true.
SetDepthReader ==
    /\ reader.pc = "gauge"
    /\ gauge' = reader.depth
    /\ reader' = ReaderAt("idle")
    /\ UNCHANGED <<next, queue, routed, dropped, workerVars, processVars>>

\* Mutant: sheds with room left in the buffer.
ShedEventEarly ==
    /\ reader.pc = "select"
    /\ dropped' = dropped \cup {reader.ev}
    /\ reader' = ReaderAt("idle")
    /\ UNCHANGED <<next, queue, routed, gauge, workerVars, processVars>>

\* Offer sheds the event: it is counted as dropped and Offer returns false.
ShedEvent ==
    /\ reader.pc = "select"
    /\ Len(queue) = Buffer
    /\ dropped' = dropped \cup {reader.ev}
    /\ reader' = ReaderAt("idle")
    /\ UNCHANGED <<next, queue, routed, gauge, workerVars, processVars>>

\* The default case of the drop policy.
Shed == Policy # "block" /\ ShedEvent

\* Mutant: the wait of the block policy has no timer.
BlockTimeoutNever == ctxDone /\ Policy = "block" /\ ShedEvent

\* The timer case of the block policy.  A sender that waits is handed the
\* slot by the receive that frees it, so the timer only wins on a full buffer.
BlockTimeout == Policy = "block" /\ ShedEvent

\* The ctx.Done case of the block policy: Offer returns false, counting nothing.
OfferCancelled ==
    /\ reader.pc = "select"
    /\ Policy = "block"
    /\ ctxDone
    /\ reader' = ReaderAt("idle")
    /\ UNCHANGED <<next, queue, routed, dropped, gauge, workerVars, processVars>>

\* Ingestor.Run returns once the context is cancelled.
ReaderReturns ==
    /\ reader.pc = "idle"
    /\ ctxDone
    /\ reader' = ReaderAt("returned")
    /\ UNCHANGED <<next, queue, routed, dropped, gauge, workerVars, processVars>>

-----------------------------------------------------------------------------
(***************************************************************************)
(* The worker pool.                                                        *)
(***************************************************************************)

\* Mutant: the event stays in the buffer until it is settled.
ReceivePeek(w) ==
    /\ worker[w].pc = "receive"
    /\ queue # <<>>
    /\ worker' = [worker EXCEPT ![w] = [pc |-> "call", ev |-> Head(queue),
                                        attempt |-> 1, depth |-> 0]]
    /\ UNCHANGED <<queue, calls, handled, panics, gauge, readerVars, processVars>>

\* The worker loop receives the head of the channel and enters process.
Receive(w) ==
    /\ worker[w].pc = "receive"
    /\ queue # <<>>
    /\ worker' = [worker EXCEPT ![w] = [pc |-> "call", ev |-> Head(queue),
                                        attempt |-> 1, depth |-> 0]]
    /\ queue' = Tail(queue)
    /\ UNCHANGED <<calls, handled, panics, gauge, readerVars, processVars>>

\* The range over the channel ends: it is closed and empty.
WorkerExits(w) ==
    /\ worker[w].pc = "receive"
    /\ closed /\ queue = <<>>
    /\ worker' = [worker EXCEPT ![w] = WorkerAt("exited")]
    /\ UNCHANGED <<queue, calls, handled, panics, gauge, readerVars, processVars>>

\* process is over with the event; the worker reads the depth for the gauge.
LeaveProcess(w) ==
    worker' = [worker EXCEPT ![w] = [WorkerAt("gauge") EXCEPT !.depth = Len(queue)]]

CountCall(e) == calls' = [calls EXCEPT ![e] = @ + 1]
CountHandled(e, o) == handled' = [handled EXCEPT ![o] = @ \cup {e}]

\* The handler returned nil.
HandlerOk(w) ==
    /\ worker[w].pc = "call"
    /\ CountCall(worker[w].ev)
    /\ CountHandled(worker[w].ev, "ok")
    /\ LeaveProcess(w)
    /\ UNCHANGED <<queue, panics, gauge, readerVars, processVars>>

\* Mutant: no recover boundary, the panic ends the goroutine of the worker.
HandlerPermanentKills(w, panicked) ==
    /\ worker[w].pc = "call"
    /\ CountCall(worker[w].ev)
    /\ CountHandled(worker[w].ev, "permanent")
    /\ panics' = IF panicked THEN panics \cup {worker[w].ev} ELSE panics
    /\ IF panicked THEN worker' = [worker EXCEPT ![w] = WorkerAt("exited")]
                   ELSE LeaveProcess(w)
    /\ UNCHANGED <<queue, gauge, readerVars, processVars>>

\* The handler returned an error that wraps ErrPermanent, or panicked, which
\* callHandler recovers from and turns into such an error: dead-lettered.
HandlerPermanent(w, panicked) ==
    /\ worker[w].pc = "call"
    /\ CountCall(worker[w].ev)
    /\ CountHandled(worker[w].ev, "permanent")
    /\ panics' = IF panicked THEN panics \cup {worker[w].ev} ELSE panics
    /\ LeaveProcess(w)
    /\ UNCHANGED <<queue, gauge, readerVars, processVars>>

\* A transient error on the last attempt: retries exhausted, dead-lettered.
HandlerExhausted(w) ==
    /\ worker[w].pc = "call"
    /\ worker[w].attempt >= MaxAttempts
    /\ CountCall(worker[w].ev)
    /\ CountHandled(worker[w].ev, "exhausted")
    /\ LeaveProcess(w)
    /\ UNCHANGED <<queue, panics, gauge, readerVars, processVars>>

\* Mutant: one retry too many.
HandlerTransientOneMore(w) ==
    /\ worker[w].pc = "call"
    /\ worker[w].attempt <= MaxAttempts
    /\ CountCall(worker[w].ev)
    /\ worker' = [worker EXCEPT ![w].pc = "backoff"]
    /\ UNCHANGED <<queue, handled, panics, gauge, readerVars, processVars>>

\* A transient error with attempts left: the worker waits out the backoff.
HandlerTransient(w) ==
    /\ worker[w].pc = "call"
    /\ worker[w].attempt < MaxAttempts
    /\ CountCall(worker[w].ev)
    /\ worker' = [worker EXCEPT ![w].pc = "backoff"]
    /\ UNCHANGED <<queue, handled, panics, gauge, readerVars, processVars>>

\* The backoff elapsed: next attempt.
Retry(w) ==
    /\ worker[w].pc = "backoff"
    /\ worker' = [worker EXCEPT ![w].pc = "call", ![w].attempt = @ + 1]
    /\ UNCHANGED <<queue, calls, handled, panics, gauge, readerVars, processVars>>

\* Mutant: process gives up on the event when the backoff elapses.
AbandonRetryAnytime(w) ==
    /\ worker[w].pc = "backoff"
    /\ LeaveProcess(w)
    /\ UNCHANGED <<queue, calls, handled, panics, gauge, readerVars, processVars>>

\* The context was cancelled during the backoff: process returns with nothing
\* counted for the event.
AbandonRetry(w) ==
    /\ worker[w].pc = "backoff"
    /\ ctxDone
    /\ LeaveProcess(w)
    /\ UNCHANGED <<queue, calls, handled, panics, gauge, readerVars, processVars>>

\* The worker stores the depth it read and goes back to receive.
SetDepthWorker(w) ==
    /\ worker[w].pc = "gauge"
    /\ gauge' = worker[w].depth
    /\ worker' = [worker EXCEPT ![w] = WorkerAt("receive")]
    /\ UNCHANGED <<queue, calls, handled, panics, readerVars, processVars>>

-----------------------------------------------------------------------------
(***************************************************************************)
(* main: signal, drain.                                                    *)
(***************************************************************************)

\* SIGTERM cancels the context.
Cancel ==
    /\ ~ctxDone
    /\ ctxDone' = TRUE
    /\ UNCHANGED <<queue, closed, drain, gauge, readerVars, workerVars>>

\* Mutant: main drains on the signal, without waiting for the ingest goroutine.
DrainStartsOnSignal ==
    /\ ctxDone
    /\ drain = "no"
    /\ closed' = TRUE
    /\ drain' = "waiting"
    /\ UNCHANGED <<ctxDone, queue, gauge, readerVars, workerVars>>

\* main saw the ingest goroutine return and calls Drain, which closes the channel.
DrainStarts ==
    /\ reader.pc = "returned"
    /\ drain = "no"
    /\ closed' = TRUE
    /\ drain' = "waiting"
    /\ UNCHANGED <<ctxDone, queue, gauge, readerVars, workerVars>>

\* Mutant: the wait ends with the first worker.
DrainEndsEarly ==
    /\ drain = "waiting"
    /\ \E w \in Workers : worker[w].pc = "exited"
    /\ drain' = "drained"
    /\ UNCHANGED <<ctxDone, queue, closed, gauge, readerVars, workerVars>>

\* The wait group is done before the deadline: the route drained.
DrainEnds ==
    /\ drain = "waiting"
    /\ \A w \in Workers : worker[w].pc = "exited"
    /\ drain' = "drained"
    /\ UNCHANGED <<ctxDone, queue, closed, gauge, readerVars, workerVars>>

\* Mutant: the deadline is only looked at once the buffer is empty.
DrainTimesOutWhenEmpty ==
    /\ drain = "waiting"
    /\ queue = <<>>
    /\ \E w \in Workers : worker[w].pc # "exited"
    /\ drain' = "abandoned"
    /\ UNCHANGED <<ctxDone, queue, closed, gauge, readerVars, workerVars>>

\* The deadline passed with workers still running: buffered events are abandoned.
DrainTimesOut ==
    /\ drain = "waiting"
    /\ \E w \in Workers : worker[w].pc # "exited"
    /\ drain' = "abandoned"
    /\ UNCHANGED <<ctxDone, queue, closed, gauge, readerVars, workerVars>>

\* The process exits after the drain, whatever the workers are doing.
Terminated == drain \in {"drained", "abandoned"} /\ UNCHANGED vars

-----------------------------------------------------------------------------
Reader == Offer \/ Send \/ CountRouted \/ SetDepthReader \/ Shed
            \/ BlockTimeout \/ OfferCancelled \/ ReaderReturns

\* The steps in which the handler gives control back to process.
HandlerReturns(w) ==
    \/ HandlerOk(w)
    \/ \E panicked \in BOOLEAN : HandlerPermanent(w, panicked)
    \/ HandlerExhausted(w)
    \/ HandlerTransient(w)

\* The steps of a worker outside the handler.
WorkerLoop(w) ==
    Receive(w) \/ WorkerExits(w) \/ Retry(w) \/ AbandonRetry(w) \/ SetDepthWorker(w)

Main == Cancel \/ DrainStarts \/ DrainEnds \/ DrainTimesOut

Next == Reader \/ (\E w \in Workers : HandlerReturns(w) \/ WorkerLoop(w)) \/ Main \/ Terminated

Spec == Init /\ [][Next]_vars

(***************************************************************************)
(* Fairness.  The Go scheduler runs every runnable goroutine, and a timer  *)
(* that is set fires; a select with a ready case proceeds.  The handler is *)
(* the one piece nobody vouches for: it may never return, and SpecWedged   *)
(* asks nothing of it; a property that needs its calls to return says so   *)
(* (HandlersReturn).  SIGTERM need not arrive.                             *)
(***************************************************************************)
Select == Send \/ Shed \/ BlockTimeout \/ OfferCancelled

SpecWedged ==
    /\ Spec
    /\ WF_vars(Select) /\ WF_vars(CountRouted) /\ WF_vars(SetDepthReader)
    /\ WF_vars(ReaderReturns)
    /\ \A w \in Workers : WF_vars(WorkerLoop(w))
    /\ WF_vars(DrainStarts) /\ WF_vars(DrainEnds \/ DrainTimesOut)

HandlersReturn == \A w \in Workers : WF_vars(HandlerReturns(w))

-----------------------------------------------------------------------------
(***************************************************************************)
(* Where an event is.                                                      *)
(***************************************************************************)
InProcess(w) == worker[w].pc \in {"call", "backoff"}

Offering == IF reader.pc = "select" THEN {reader.ev} ELSE {}
Queued   == {queue[i] : i \in DOMAIN queue}
Held     == {worker[w].ev : w \in {v \in Workers : InProcess(v)}}
Settled  == UNION {handled[o] : o \in Outcomes}
InFlight == Queued \cup Held

\* The events Offer was called with that are nowhere any more.
Lost == {e \in Events : e < next} \ (Offering \cup dropped \cup InFlight \cup Settled)

\* The events whose send succeeded, counted yet or not.
Accepted == routed \cup (IF reader.pc = "sent" THEN {reader.ev} ELSE {})

TypeOK ==
    /\ ctxDone \in BOOLEAN
    /\ next \in 1..(MaxEvents + 1)
    /\ reader \in [pc : {"idle", "select", "sent", "gauge", "returned"},
                   ev : 0..MaxEvents, depth : 0..Buffer]
    /\ queue \in Seq(Events) /\ Len(queue) <= Buffer
    /\ closed \in BOOLEAN
    /\ worker \in [Workers -> [pc : {"receive", "call", "backoff", "gauge", "exited"},
                               ev : 0..MaxEvents, attempt : 0..MaxAttempts,
                               depth : 0..Buffer]]
    /\ calls \in [Events -> 0..MaxAttempts]
    /\ routed \subseteq Events
    /\ dropped \subseteq Events
    /\ handled \in [Outcomes -> SUBSET Events]
    /\ panics \subseteq Events
    /\ gauge \in 0..Buffer
    /\ drain \in {"no", "waiting", "drained", "abandoned"}

-----------------------------------------------------------------------------
(***************************************************************************)
(* Safety.                                                                 *)
(***************************************************************************)

\* No event is in two places: the channel holds it once, one worker at most
\* runs it, it has one terminal outcome, and a shed event is nowhere else.
\* What fails without it: an event handled twice, or counted as dropped and
\* handled (Offer, worker and process, across goroutines).
OnePlace ==
    /\ \A i, j \in DOMAIN queue : queue[i] = queue[j] => i = j
    /\ \A v, w \in Workers : InProcess(v) /\ InProcess(w) /\ worker[v].ev = worker[w].ev
                                => v = w
    /\ \A o, p \in Outcomes : o # p => handled[o] \cap handled[p] = {}
    /\ Queued \cap Held = {}
    /\ InFlight \cap Settled = {}
    /\ dropped \cap Accepted = {}
    /\ Accepted = InFlight \cup Settled \cup (Accepted \cap Lost)

\* While the process runs, no event disappears: whatever was offered is shed
\* and counted, buffered, with a worker, or settled.  After the signal an event
\* disappears in two ways only: the block policy withdraws an offer it never
\* accepted, or process returns from a backoff, with attempts of the event left.
NothingLost ==
    /\ Lost # {} => ctxDone
    /\ \A e \in Lost : IF e \in Accepted THEN calls[e] \in 1..(MaxAttempts - 1)
                                         ELSE Policy = "block" /\ calls[e] = 0

\* The retry budget: no event sees more than MaxAttempts calls, "exhausted" is
\* reported of exactly the events that used them all up on transient errors,
\* and a worker's attempt counter says how many calls its event has seen.
RetryBudget ==
    /\ \A e \in Events : calls[e] <= MaxAttempts
    /\ \A e \in handled["exhausted"] : calls[e] = MaxAttempts
    /\ \A e \in Settled : calls[e] >= 1
    /\ panics \subseteq handled["permanent"]
    /\ \A w \in Workers :
         /\ worker[w].pc = "call" => calls[worker[w].ev] = worker[w].attempt - 1
         /\ worker[w].pc = "backoff" => calls[worker[w].ev] = worker[w].attempt
    /\ \A e \in Events \ (Held \cup Settled \cup Lost) : calls[e] = 0

\* Nobody stands at a send when Drain closes the channel, or comes to one
\* afterwards: a send on a closed channel panics, outside the recover boundary.
NoSendOnClosed == closed => reader.pc = "returned"

\* Drain reports "route drained" only when no accepted event is left in the
\* buffer or with a worker: those not settled were cut short in a backoff.
DrainComplete ==
    drain = "drained" => InFlight = {} /\ routed \subseteq Settled \cup Lost

-----------------------------------------------------------------------------
(***************************************************************************)
(* The route keeps the promises of RouteLedger.                            *)
(***************************************************************************)
StatusOf(e) ==
    CASE e >= next \/ e \in Offering -> "new"
      [] e \in dropped               -> "refused"
      [] e \in Settled               -> "settled"
      [] e \in InFlight              -> "accepted"
      [] e \in Accepted \cap Lost     -> "abandoned"
      [] OTHER                       -> "withdrawn"

Ledger == INSTANCE RouteLedger
    WITH PoolSize <- Cardinality(Workers), cancelled <- ctxDone,
         status <- [e \in Events |-> StatusOf(e)]

\* Every step of the route is a step of the ledger: it sheds only when a full
\* buffer of accepted events is unsettled, in the order of the stream, and
\* neither takes back an outcome nor gives up an event before the signal.
LedgerSpec == Ledger!Spec

-----------------------------------------------------------------------------
(***************************************************************************)
(* The inductive invariant behind the safety properties (RouteProofs).     *)
(***************************************************************************)

\* From Offer to its return the event at hand is the last one numbered.
ReaderInv ==
    reader.pc \in {"select", "sent", "gauge"} => reader.ev \in Events /\ next = reader.ev + 1

\* A worker in process has an event, and in a backoff an attempt to spare.
WorkerInv ==
    \A w \in Workers :
        /\ InProcess(w) => worker[w].ev \in Events /\ worker[w].attempt >= 1
        /\ worker[w].pc = "backoff" => worker[w].attempt < MaxAttempts

\* What happened to an event happened after it was offered.
Past ==
    \A e \in InFlight \cup Settled \cup dropped \cup routed : e < next /\ e \notin Offering

\* The channel is closed by Drain and by nothing else, and a worker leaves only
\* a channel that is closed and empty.
DrainInv ==
    /\ closed <=> drain # "no"
    /\ \A w \in Workers : worker[w].pc = "exited" => closed /\ queue = <<>>
    /\ drain = "drained" => \A w \in Workers : worker[w].pc = "exited"

\* Every reachable state satisfies it and every step preserves it (IInv of
\* RouteProofs): together the parts say where each event is and what it cost.
IInv ==
    /\ TypeOK /\ ReaderInv /\ WorkerInv /\ Past /\ DrainInv
    /\ OnePlace /\ NothingLost /\ RetryBudget /\ NoSendOnClosed

-----------------------------------------------------------------------------
(***************************************************************************)
(* Liveness.                                                               *)
(***************************************************************************)

\* The ingest goroutine gets back from Offer under either policy, even when
\* every handler call hangs: one wedged route cannot stop the stream.
OfferReturns == reader.pc = "select" ~> reader.pc \in {"idle", "returned"}

\* After SIGTERM the ingest goroutine returns and Drain comes to an end, even
\* when every handler call hangs.
ShutdownCompletes == ctxDone ~> drain \in {"drained", "abandoned"}

\* When handler calls return, every buffered event leaves the buffer and the
\* workers, panics and transient errors notwithstanding, unless the process
\* shuts down and the drain deadline passes.
EventsSettle ==
    HandlersReturn =>
        \A e \in Events : e \in Queued ~> (e \notin InFlight \/ drain = "abandoned")
=============================================================================
