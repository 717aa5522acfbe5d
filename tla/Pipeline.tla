------------------------------ MODULE Pipeline ------------------------------
(***************************************************************************)
(* The whole process (cmd/router/main.go): one ingest goroutine that       *)
(* offers each event to the route its key resolves to, several routes with *)
(* a buffer and a worker pool each, and main, which on SIGTERM waits for   *)
(* the ingest goroutine, drains the routes one after the other, commits    *)
(* the cursor and stops the admin server, all within the grace period the  *)
(* deployment grants (deploy/deployment.yaml).                             *)
(*                                                                         *)
(* Route has the steps inside one route and Cursor those of a commit; here *)
(* an offer, a handled event and the final commit are one step each, and   *)
(* the periodic commits are left out.  The clock starts with the signal.   *)
(* A step takes no time unless it waits: for a timer, or for a handler     *)
(* that hangs.  A hang may end, so a slow handler is one that hangs for a  *)
(* while.                                                                  *)
(***************************************************************************)
EXTENDS Integers, Sequences, FiniteSets

CONSTANTS
    Routes,         \* the routes buildRoutes started
    NumEvents,      \* bound of the model: length of the stream
    Streams,        \* the streams considered: the route each event resolves to
    Policy,         \* Config.Policy of each route; whatever is not "block" acts as "drop"
    Buffer,         \* Config.Buffer of each route
    Workers,        \* Config.Workers of each route
    DrainTimeout,   \* shutdown_timeout, for each route
    AdminTimeout,   \* the bound of admin.Shutdown
    Grace           \* terminationGracePeriodSeconds

ASSUME PipelineAssumption ==
    /\ IsFiniteSet(Routes) /\ NumEvents \in Nat
    /\ Streams \subseteq [1..NumEvents -> Routes]
    /\ Buffer \in [Routes -> Nat \ {0}] /\ Workers \in [Routes -> Nat \ {0}]
    /\ {DrainTimeout, Grace} \subseteq Nat \ {0} /\ AdminTimeout \in Nat

Events  == 1..NumEvents

VARIABLES
    dest,       \* the route the router resolves each event to
    reader,     \* the ingest goroutine: "read", "offer", "waiting", "returned"
    latest,     \* the cursor: the events up to it were offered
    fate,       \* what became of each event
    queue,      \* Route.queue of each route
    busy,       \* the events the workers of each route hold
    stuck,      \* the events whose handler hangs
    ctxDone,    \* SIGTERM arrived
    now,        \* time since the signal
    main,       \* main: pc, the route it drains if any, since when, those it is done with
    expired,    \* the routes whose drain ran into its timeout
    killed,     \* SIGKILL
    file,       \* the position the final commit left in the file, 0 for none
    slow        \* history: the routes with a handler that hung while the clock advanced

vars == <<dest, reader, latest, fate, queue, busy, stuck, ctxDone, now, main, expired,
          killed, file, slow>>

routeVars    == <<queue, busy, stuck>>
readerVars   == <<reader, latest>>
shutdownVars == <<ctxDone, now, main, expired, killed, file, slow>>

Init ==
    /\ dest \in Streams
    /\ reader = "read" /\ latest = 0
    /\ fate = [e \in Events |-> "upstream"]
    /\ queue = [r \in Routes |-> <<>>]
    /\ busy = [r \in Routes |-> {}]
    /\ stuck = {}
    /\ ctxDone = FALSE /\ now = 0
    /\ main = [pc |-> "waiting", current |-> {}, since |-> 0, done |-> {}]
    /\ expired = {} /\ killed = FALSE /\ file = 0 /\ slow = {}

Alive == ~killed /\ main.pc # "exited"

-----------------------------------------------------------------------------
(***************************************************************************)
(* The ingest goroutine and the dispatcher.                                *)
(***************************************************************************)
Offered == latest + 1
Target  == dest[Offered]

\* Mutant: the slot a worker is about to free counts as taken.
FullEarly(r) == Len(queue[r]) + 1 >= Buffer[r]

Full(r) == Len(queue[r]) >= Buffer[r]

\* The next frame, which may have arrived before the signal: only Read looks at the context.
ReadNext ==
    /\ Alive /\ reader = "read"
    /\ latest < NumEvents
    /\ reader' = "offer"
    /\ UNCHANGED <<dest, latest, fate, routeVars, shutdownVars>>

\* Offer returned, whatever it returned: the cursor advances (D2).
OfferReturns(f) ==
    /\ fate' = [fate EXCEPT ![Offered] = f]
    /\ latest' = Offered
    /\ reader' = "read"

Accept ==
    /\ Alive /\ reader \in {"offer", "waiting"}
    /\ ~Full(Target)
    /\ queue' = [queue EXCEPT ![Target] = Append(@, Offered)]
    /\ OfferReturns("accepted")
    /\ UNCHANGED <<dest, busy, stuck, shutdownVars>>

\* Mutant: a full drop route makes the ingest goroutine wait as well.
ShedOnceSignalled ==
    /\ Alive /\ reader = "offer" /\ ctxDone
    /\ Policy[Target] # "block" /\ Full(Target)
    /\ OfferReturns("shed")
    /\ UNCHANGED <<dest, routeVars, shutdownVars>>

\* The drop policy, with the buffer full.
Shed ==
    /\ Alive /\ reader = "offer"
    /\ Policy[Target] # "block" /\ Full(Target)
    /\ OfferReturns("shed")
    /\ UNCHANGED <<dest, routeVars, shutdownVars>>

\* The block policy, with the buffer full: the one reader waits.
BeginWait ==
    /\ Alive /\ reader = "offer"
    /\ Policy[Target] = "block" /\ Full(Target)
    /\ reader' = "waiting"
    /\ UNCHANGED <<dest, latest, fate, routeVars, shutdownVars>>

\* BlockTimeout: shed and counted.  The receive that frees a slot hands it to the
\* offer that waits, so the timer only wins while the buffer is full.
WaitTimesOut ==
    /\ Alive /\ reader = "waiting" /\ Full(Target)
    /\ OfferReturns("shed")
    /\ UNCHANGED <<dest, routeVars, shutdownVars>>

\* The context ends the offer of a block route: refused, and not counted.
OfferCancelled ==
    /\ Alive /\ reader \in {"offer", "waiting"} /\ ctxDone
    /\ Policy[Target] = "block"
    /\ OfferReturns("refused")
    /\ UNCHANGED <<dest, routeVars, shutdownVars>>

\* Run returns between two frames, once the context is done.
ReaderReturns ==
    /\ Alive /\ reader = "read" /\ ctxDone
    /\ reader' = "returned"
    /\ UNCHANGED <<dest, latest, fate, routeVars, shutdownVars>>

-----------------------------------------------------------------------------
(***************************************************************************)
(* The routes.                                                             *)
(***************************************************************************)
\* Mutant: Start begins with worker 0 and stops after the last.
HasIdleWorkerMore(r) == Cardinality(busy[r]) <= Workers[r]

HasIdleWorker(r) == Cardinality(busy[r]) < Workers[r]

\* Mutant: the workers leave with the context instead of the closed channel.
CanReceiveUntilSignal(r) == queue[r] # <<>> /\ HasIdleWorker(r) /\ ~ctxDone

\* The loop of a worker: the channel has an event and a worker waits for one.
CanReceive(r) == queue[r] # <<>> /\ HasIdleWorker(r)

\* A worker of the route takes the oldest event, before and after the signal.
Receive(r) ==
    /\ Alive /\ CanReceive(r)
    /\ queue' = [queue EXCEPT ![r] = Tail(@)]
    /\ busy' = [busy EXCEPT ![r] = @ \cup {Head(queue[r])}]
    /\ UNCHANGED <<dest, readerVars, fate, stuck, shutdownVars>>

\* A worker is through with an event.
LeavesWorker(e, f) ==
    /\ Alive /\ e \in busy[dest[e]] \ stuck
    /\ busy' = [busy EXCEPT ![dest[e]] = @ \ {e}]
    /\ fate' = [fate EXCEPT ![e] = f]
    /\ UNCHANGED <<dest, readerVars, queue, stuck, shutdownVars>>

\* Handled, or dead-lettered.
Settle(e) == LeavesWorker(e, "settled")

\* The context ends the backoff before a retry: neither handled nor counted.
CutShort(e) == ctxDone /\ LeavesWorker(e, "cut")

\* The handler of an event hangs.
Hang(e) ==
    /\ Alive /\ e \in busy[dest[e]] \ stuck
    /\ stuck' = stuck \cup {e}
    /\ UNCHANGED <<dest, readerVars, fate, queue, busy, shutdownVars>>

\* It goes on.
Resume(e) ==
    /\ Alive /\ e \in stuck
    /\ stuck' = stuck \ {e}
    /\ UNCHANGED <<dest, readerVars, fate, queue, busy, shutdownVars>>

-----------------------------------------------------------------------------
(***************************************************************************)
(* main, from the signal on.                                               *)
(***************************************************************************)
Cancel ==
    /\ Alive /\ ~ctxDone
    /\ ctxDone' = TRUE
    /\ UNCHANGED <<dest, readerVars, fate, routeVars, now, main, expired, killed, file, slow>>

\* <-done: the ingest goroutine returned.
BeginShutdown ==
    /\ Alive /\ main.pc = "waiting" /\ reader = "returned"
    /\ main' = [main EXCEPT !.pc = "draining", !.since = now]
    /\ UNCHANGED <<dest, readerVars, fate, routeVars, ctxDone, now, expired, killed, file, slow>>

Undrained == Routes \ main.done

\* Drain closes the channel of the next route, in the order of the map: any.
BeginDrain(r) ==
    /\ Alive /\ main.pc = "draining" /\ main.current = {} /\ r \in Undrained
    /\ main' = [main EXCEPT !.current = {r}, !.since = now]
    /\ UNCHANGED <<dest, readerVars, fate, routeVars, ctxDone, now, expired, killed, file, slow>>

DoneWith(r) == [main EXCEPT !.current = {}, !.done = @ \cup {r}]
Drained(r)  == queue[r] = <<>> /\ busy[r] = {}

\* Mutant: a route is drained once its buffer is empty.
DrainEndsEarly(r) ==
    /\ Alive /\ r \in main.current /\ queue[r] = <<>>
    /\ main' = DoneWith(r)
    /\ UNCHANGED <<dest, readerVars, fate, routeVars, ctxDone, now, expired, killed, file, slow>>

\* All the workers of the route have returned.
DrainEnds(r) ==
    /\ Alive /\ r \in main.current /\ Drained(r)
    /\ main' = DoneWith(r)
    /\ UNCHANGED <<dest, readerVars, fate, routeVars, ctxDone, now, expired, killed, file, slow>>

\* Mutant: the workers and the buffer have a timeout each.
DeadlinePassedTwice == now - main.since >= 2 * DrainTimeout

\* time.After(timeout) in Drain: each route has the whole timeout.
DeadlinePassed == now - main.since >= DrainTimeout

\* The deadline: what the route still holds is abandoned.
DrainTimesOut(r) ==
    /\ Alive /\ r \in main.current /\ DeadlinePassed
    /\ main' = DoneWith(r)
    /\ expired' = expired \cup {r}
    /\ UNCHANGED <<dest, readerVars, fate, routeVars, ctxDone, now, killed, file, slow>>

\* The final commit, which may fail, and admin.Shutdown begins.
FinalCommit ==
    /\ Alive /\ main.pc = "draining" /\ Undrained = {}
    /\ file' \in {file, latest}
    /\ main' = [main EXCEPT !.pc = "admin", !.since = now]
    /\ UNCHANGED <<dest, readerVars, fate, routeVars, ctxDone, now, expired, killed, slow>>

\* admin.Shutdown returns, and run.
Exit ==
    /\ Alive /\ main.pc = "admin"
    /\ main' = [main EXCEPT !.pc = "exited"]
    /\ UNCHANGED <<dest, readerVars, fate, routeVars, ctxDone, now, expired, killed, file, slow>>

-----------------------------------------------------------------------------
(***************************************************************************)
(* The clock and the kubelet.                                              *)
(***************************************************************************)

\* A drain waits for nothing but its workers and its deadline.
DrainWaits == (\E r \in main.current : ~Drained(r)) /\ ~DeadlinePassed

\* admin.Shutdown may wait for requests, up to its deadline.
AdminWaits == main.pc = "admin" /\ now - main.since < AdminTimeout

\* The workers have nothing to do but what hangs.
WorkersWait ==
    \A r \in Routes : busy[r] \subseteq stuck /\ ~CanReceive(r)

\* Time passes while everybody waits.
Tick ==
    /\ Alive /\ ctxDone /\ now < Grace
    /\ WorkersWait /\ (DrainWaits \/ AdminWaits)
    /\ now' = now + 1
    /\ slow' = slow \cup {dest[e] : e \in stuck}
    /\ UNCHANGED <<dest, readerVars, fate, routeVars, ctxDone, main, expired, killed, file>>

\* The grace period is over.
Kill ==
    /\ Alive /\ ctxDone /\ now >= Grace
    /\ killed' = TRUE
    /\ UNCHANGED <<dest, readerVars, fate, routeVars, ctxDone, now, main, expired, file, slow>>

Over == ~Alive /\ UNCHANGED vars

-----------------------------------------------------------------------------
Reader == ReadNext \/ Accept \/ Shed \/ BeginWait \/ WaitTimesOut \/ OfferCancelled
            \/ ReaderReturns
Worker == \/ \E r \in Routes : Receive(r)
          \/ \E e \in Events : Settle(e) \/ CutShort(e) \/ Hang(e) \/ Resume(e)
Main   == \/ Cancel \/ BeginShutdown \/ FinalCommit \/ Exit
          \/ \E r \in Routes : BeginDrain(r) \/ DrainEnds(r) \/ DrainTimesOut(r)

Next == Reader \/ Worker \/ Main \/ Tick \/ Kill \/ Over

Spec == Init /\ [][Next]_vars

(***************************************************************************)
(* Fairness: frames arrive, timers fire, the scheduler runs every worker,  *)
(* and a handler that does not hang returns.  A hang need not end.         *)
(***************************************************************************)
FairSpec ==
    /\ Spec
    /\ WF_vars(ReadNext) /\ WF_vars(Accept \/ Shed \/ BeginWait) /\ WF_vars(WaitTimesOut)
    /\ \A r \in Routes : WF_vars(Receive(r))
    /\ \A e \in Events : WF_vars(Settle(e))

-----------------------------------------------------------------------------
Fates == {"upstream", "accepted", "shed", "refused", "settled", "cut"}

TypeOK ==
    /\ dest \in [Events -> Routes]
    /\ reader \in {"read", "offer", "waiting", "returned"} /\ latest \in 0..NumEvents
    /\ fate \in [Events -> Fates]
    /\ queue \in [Routes -> Seq(Events)] /\ busy \in [Routes -> SUBSET Events]
    /\ \A r \in Routes : Len(queue[r]) <= Buffer[r] /\ Cardinality(busy[r]) <= Workers[r]
    /\ stuck \subseteq Events
    /\ ctxDone \in BOOLEAN /\ now \in 0..Grace /\ killed \in BOOLEAN
    /\ main \in [pc : {"waiting", "draining", "admin", "exited"},
                 current : SUBSET Routes, since : 0..Grace, done : SUBSET Routes]
    /\ expired \subseteq Routes /\ slow \subseteq Routes /\ file \in 0..latest

\* The drains share the grace period, each with a timeout of its own: the process
\* is killed before its final commit only if the routes whose handlers were slow,
\* at one timeout each, use up the grace period between them.  With the values
\* deployed one slow route does not (main.go, run; deployment.yaml).
FinalCommitReached ==
    killed /\ main.pc # "admin" => Cardinality(slow) * DrainTimeout >= Grace

\* When the final commit is made, every event it covers is settled, was shed or
\* withdrawn, had its retry cut short, or belongs to a route whose drain expired.
CommitCoversSettled ==
    main.pc \in {"admin", "exited"} =>
        \A e \in 1..latest : fate[e] = "accepted" => dest[e] \in expired

\* A route whose handlers were never slow after the signal loses none of its
\* events to the slowness of the others, even if the process is killed.
HealthyRouteLosesNothing ==
    ~Alive => \A r \in Routes \ slow : Drained(r)

\* What became of an event, in the terms of the ledger of a route.
InLedger == [upstream |-> "new", accepted |-> "accepted", shed |-> "refused",
             refused |-> "withdrawn", settled |-> "settled", cut |-> "abandoned"]

LedgerStatus(r) == [e \in Events |-> IF dest[e] = r THEN InLedger[fate[e]] ELSE "elsewhere"]

Ledger(r) == INSTANCE RouteLedger WITH
    MaxEvents <- NumEvents, Buffer <- Buffer[r], PoolSize <- Workers[r], Policy <- Policy[r],
    cancelled <- ctxDone, status <- LedgerStatus(r)

\* Every route of the process keeps the promises that a route alone makes, behind the
\* one reader and through the drains one after the other: it refuses an event only
\* with a buffer full of its own events, and gives one up only after the signal.
RoutesKeepLedgers ==
    /\ \A r \in Routes : Ledger(r)!Init
    /\ [][\A r \in Routes : [Ledger(r)!Next]_(Ledger(r)!vars)]_vars

\* Isolation: without a shutdown, every event of a route whose handlers in the
\* end do not hang is read, and is shed or settled, whatever the handlers of the
\* other routes do, and whatever their policy.
HealthyRouteServed ==
    \A e \in Events :
        <>[](\A f \in stuck : dest[f] # dest[e]) => <>(fate[e] \in {"shed", "settled"} \/ ctxDone)
=============================================================================
