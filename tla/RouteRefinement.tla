-------------------------- MODULE RouteRefinement --------------------------
(***************************************************************************)
(* Every route implements RouteLedger, for every number of events, buffer, *)
(* finite pool, retry budget and policy.  The lemmas on how events move    *)
(* between sets (RouteProofs) say, action by action, whose status changes. *)
(***************************************************************************)
EXTENDS RouteProofs

-----------------------------------------------------------------------------
(***************************************************************************)
(* What a status says about an event.                                      *)
(***************************************************************************)
New == {e \in Events : e >= next \/ e \in Offering}

StatusMeans == \A e \in Events :
    /\ StatusOf(e) \in {"new", "accepted", "refused", "withdrawn", "settled", "abandoned"}
    /\ StatusOf(e) = "new"       <=> e \in New
    /\ StatusOf(e) = "refused"   <=> e \in dropped
    /\ StatusOf(e) = "settled"   <=> e \in Settled
    /\ StatusOf(e) = "accepted"  <=> e \in InFlight
    /\ StatusOf(e) = "abandoned" <=> e \in Accepted \cap Lost

\* No event has two statuses.
LEMMA StatusSets == IInv => StatusMeans
<1> SUFFICES ASSUME IInv, NEW e \in Events
             PROVE  /\ StatusOf(e) \in {"new", "accepted", "refused", "withdrawn", "settled",
                                        "abandoned"}
                    /\ StatusOf(e) = "new"       <=> e \in New
                    /\ StatusOf(e) = "refused"   <=> e \in dropped
                    /\ StatusOf(e) = "settled"   <=> e \in Settled
                    /\ StatusOf(e) = "accepted"  <=> e \in InFlight
                    /\ StatusOf(e) = "abandoned" <=> e \in Accepted \cap Lost
  BY DEF StatusMeans
<1>1. e \in Nat /\ next \in Nat
  BY RouteAssumption DEF IInv, TypeOK, Events
<1>2. e \in New <=> e >= next \/ e \in Offering
  BY DEF New
<1>3. e \in InFlight \cup Settled \cup dropped => e \notin New
  BY <1>1, <1>2 DEF IInv, Past
<1>4. /\ e \in dropped => e \notin InFlight /\ e \notin Settled
      /\ e \in InFlight => e \notin Settled
  BY DEF IInv, OnePlace
<1>5. e \in Lost => e \notin InFlight \cup Settled \cup dropped \cup New
  BY <1>1, <1>2 DEF Lost
<1>6. CASE e \in New
  <2>1. StatusOf(e) = "new"
    BY <1>2, <1>3, <1>5, <1>6 DEF StatusOf
  <2> QED
    BY <1>3, <1>5, <1>6, <2>1
<1>7. CASE e \in dropped
  <2>1. StatusOf(e) = "refused"
    BY <1>2, <1>3, <1>4, <1>5, <1>7 DEF StatusOf
  <2> QED
    BY <1>3, <1>4, <1>5, <1>7, <2>1
<1>8. CASE e \in Settled
  <2>1. StatusOf(e) = "settled"
    BY <1>2, <1>3, <1>4, <1>5, <1>8 DEF StatusOf
  <2> QED
    BY <1>3, <1>4, <1>5, <1>8, <2>1
<1>9. CASE e \in InFlight
  <2>1. StatusOf(e) = "accepted"
    BY <1>2, <1>3, <1>4, <1>5, <1>9 DEF StatusOf
  <2> QED
    BY <1>3, <1>4, <1>5, <1>9, <2>1
<1>10. CASE e \notin New \cup dropped \cup Settled \cup InFlight
  <2>1. CASE e \in Accepted \cap Lost
    <3>1. StatusOf(e) = "abandoned"
      BY <1>2, <1>10, <2>1 DEF StatusOf
    <3> QED
      BY <1>10, <2>1, <3>1
  <2>2. CASE e \notin Accepted \cap Lost
    <3>1. StatusOf(e) = "withdrawn"
      BY <1>2, <1>10, <2>2 DEF StatusOf
    <3> QED
      BY <1>10, <2>2, <3>1
  <2> QED
    BY <2>1, <2>2
<1> QED
  BY <1>6, <1>7, <1>8, <1>9, <1>10

\* An event that stays in its sets keeps its status.
LEMMA StatusStays ==
    ASSUME StatusMeans, StatusMeans', NEW e \in Events,
           e \in New' <=> e \in New, e \in dropped' <=> e \in dropped,
           e \in Settled' <=> e \in Settled, e \in InFlight' <=> e \in InFlight,
           e \in Accepted' \cap Lost' <=> e \in Accepted \cap Lost
    PROVE  StatusOf(e)' = StatusOf(e)
BY DEF StatusMeans

\* When no event moves between the sets of the statuses, the ledger stutters.
LEMMA Stutters ==
    ASSUME StatusMeans, StatusMeans', UNCHANGED <<New, dropped, Settled, InFlight, Accepted, Lost>>
    PROVE  \A e \in Events : StatusOf(e)' = StatusOf(e)
BY StatusStays

\* One event changes its status: a step of the ledger's Become.
LEMMA Becomes ==
    ASSUME NEW e \in Events, NEW from, NEW to, StatusOf(e) = from, StatusOf(e)' = to,
           \A f \in Events \ {e} : StatusOf(f)' = StatusOf(f), UNCHANGED ctxDone
    PROVE  Ledger!Become(e, from, to)
BY DEF Ledger!Become, Ledger!Events, Events

\* The events of a status, in the ledger.
LEMMA LedgerSets ==
    ASSUME StatusMeans
    PROVE  Ledger!With("new") = New /\ Ledger!With("accepted") = InFlight \cap Events
<1>1. \A e \in Events : [f \in Events |-> StatusOf(f)][e] = StatusOf(e)
  OBVIOUS
<1>2. Ledger!With("new") = {e \in Events : StatusOf(e) = "new"}
  BY <1>1 DEF Ledger!With, Ledger!Events, Events
<1>3. Ledger!With("accepted") = {e \in Events : StatusOf(e) = "accepted"}
  BY <1>1 DEF Ledger!With, Ledger!Events, Events
<1>4. New \subseteq Events
  BY DEF New
<1> QED
  BY <1>2, <1>3, <1>4 DEF StatusMeans

\* The ledger counts as the route does.
LEMMA LedgerCounts == \A S : Ledger!Cardinality(S) = Cardinality(S)
BY DEF Ledger!Cardinality, Cardinality

-----------------------------------------------------------------------------
(***************************************************************************)
(* The steps.                                                              *)
(***************************************************************************)

\* Both states of a step satisfy the invariant, so statuses mean the same in both.
LEMMA StepMeans ==
    IInv /\ [Next]_vars => IInv' /\ StatusMeans /\ StatusMeans'
<1>1. IInv /\ [Next]_vars => IInv'
  BY StepIInv
<1>2. IInv' => StatusMeans'
  BY StatusSets, PTL
<1> QED
  BY <1>1, <1>2, StatusSets

\* At the select the event at hand is the first of those without a fate.
LEMMA AtSelect ==
    ASSUME IInv, reader.pc = "select"
    PROVE  /\ reader.ev \in Events /\ next = reader.ev + 1 /\ Offering = {reader.ev}
           /\ New = {reader.ev} \cup {e \in Events : e >= next}
           /\ \A e \in New : reader.ev <= e
           /\ Accepted = routed
           /\ reader.ev \notin Queued \cup Held \cup Settled \cup dropped \cup Accepted
<1>1. reader.ev \in Events /\ next = reader.ev + 1 /\ Offering = {reader.ev} /\ Accepted = routed
  BY DEF IInv, ReaderInv, Offering, Accepted
<1>2. reader.ev \notin InFlight \cup Settled \cup dropped \cup routed
  BY <1>1 DEF IInv, Past
<1>3. New = {reader.ev} \cup {e \in Events : e >= next}
  BY <1>1 DEF New
<1>4. \A e \in New : reader.ev <= e
  BY <1>1, <1>3, RouteAssumption DEF Events
<1> QED
  BY <1>1, <1>2, <1>3, <1>4 DEF InFlight

\* When Offer is over without its event having been left behind, the event at the
\* select alone is no longer new.
LEMMA LeavesSelect ==
    ASSUME IInv, reader.pc = "select", next' = next, Offering' = {}
    PROVE  New' = New \ {reader.ev}
<1>1. reader.ev \in Nat /\ next = reader.ev + 1 /\ Events \subseteq Nat
  BY AtSelect, RouteAssumption DEF Events
<1>2. New' = {e \in Events : e >= next}
  BY DEF New
<1> QED
  BY <1>1, <1>2, AtSelect

\* Offer: the event is new before and after.
LEMMA OfferStutters ==
    ASSUME IInv, StatusMeans, StatusMeans', Offer
    PROVE  \A e \in Events : StatusOf(e)' = StatusOf(e)
<1>1. /\ Queued' = Queued /\ Held' = Held /\ Settled' = Settled
      /\ Offering = {} /\ Offering' = {next} /\ Accepted' = Accepted /\ Lost' = Lost
  BY OfferMoves
<1>2. next \in Nat /\ Events \subseteq Nat /\ next' = next + 1 /\ dropped' = dropped
  BY RouteAssumption DEF IInv, TypeOK, Events, Offer
<1>3. \A e \in Events : e >= next' \/ e \in Offering' <=> e >= next \/ e \in Offering
  BY <1>1, <1>2
<1>4. New' = New
  BY <1>3 DEF New
<1> QED
  BY <1>1, <1>2, <1>4, Stutters DEF InFlight

\* A send is an acceptance: there was room.
LEMMA SendAccepts ==
    ASSUME IInv, StatusMeans, StatusMeans', Send
    PROVE  Ledger!Accept(reader.ev)
<1>0. PICK e \in Events : e = reader.ev
  BY AtSelect DEF Send, ShedEvent, OfferCancelled
<1>1. /\ Queued' = Queued \cup {e} /\ Held' = Held /\ Settled' = Settled
      /\ Offering' = {} /\ Accepted' = Accepted \cup {e} /\ Lost' = Lost
  BY <1>0, SendMoves
<1>2. /\ reader.pc = "select" /\ next' = next /\ dropped' = dropped /\ Len(queue) < Buffer
      /\ ctxDone' = ctxDone
  BY <1>0 DEF Send, processVars
<1>3. New' = New \ {e} /\ e \in New /\ e \in Events
  BY <1>0, <1>1, <1>2, LeavesSelect, AtSelect
<1>4. e \notin Lost
  BY <1>0, <1>2, AtSelect DEF Lost
<1>5. StatusOf(e) = "new" /\ StatusOf(e)' = "accepted"
  BY <1>1, <1>3 DEF StatusMeans, InFlight
<1>6. \A f \in Events \ {e} : StatusOf(f)' = StatusOf(f)
  BY <1>1, <1>2, <1>3, StatusStays DEF InFlight
<1>7. Ledger!Become(e, "new", "accepted")
  BY <1>2, <1>3, <1>5, <1>6, Becomes
<1>8. Ledger!InTurn(e)
  BY <1>0, <1>2, LedgerSets, AtSelect DEF Ledger!InTurn
<1>9. Cardinality(Ledger!With("accepted")) < Buffer + Cardinality(Workers)
  <2>1. InFlight \cap Events = InFlight
    BY SetsInEvents DEF IInv, InFlight
  <2>2. Len(queue) \in Nat /\ Cardinality(Workers) \in Nat /\ Buffer \in Nat
    BY FS_CardinalityType, RouteAssumption DEF IInv, TypeOK
  <2>3. Cardinality(InFlight) < Buffer + Cardinality(Workers)
    BY <1>2, <2>2, InFlightCount
  <2> QED
    BY <2>1, <2>3, LedgerSets, Zenon
<1> QED
  BY <1>0, <1>7, <1>8, <1>9, LedgerCounts DEF Ledger!Accept

\* A shed is a refusal: the buffer was full of accepted events.
LEMMA ShedRefuses ==
    ASSUME IInv, StatusMeans, StatusMeans', ShedEvent
    PROVE  Ledger!Refuse(reader.ev)
<1>0. PICK e \in Events : e = reader.ev
  BY AtSelect DEF Send, ShedEvent, OfferCancelled
<1>1. /\ Queued' = Queued /\ Held' = Held /\ Settled' = Settled /\ Offering' = {}
      /\ Accepted' = Accepted /\ dropped' = dropped \cup {e} /\ Lost' = Lost
  BY <1>0, ShedMoves
<1>2. /\ reader.pc = "select" /\ next' = next /\ Len(queue) = Buffer /\ ctxDone' = ctxDone
  BY <1>0 DEF ShedEvent, processVars
<1>3. New' = New \ {e} /\ e \in New /\ e \in Events
  BY <1>0, <1>1, <1>2, LeavesSelect, AtSelect
<1>4. StatusOf(e) = "new" /\ StatusOf(e)' = "refused"
  BY <1>1, <1>3 DEF StatusMeans
<1>5. \A f \in Events \ {e} : StatusOf(f)' = StatusOf(f)
  BY <1>1, <1>3, StatusStays DEF InFlight
<1>6. Ledger!Become(e, "new", "refused")
  BY <1>2, <1>3, <1>4, <1>5, Becomes
<1>7. Ledger!InTurn(e)
  BY <1>0, <1>2, LedgerSets, AtSelect DEF Ledger!InTurn
<1>8. Cardinality(Ledger!With("accepted")) >= Buffer
  <2>1. InFlight \cap Events = InFlight
    BY SetsInEvents DEF IInv, InFlight
  <2>2. Cardinality(InFlight) >= Buffer
    BY <1>2, InFlightCount, RouteAssumption
  <2> QED
    BY <2>1, <2>2, LedgerSets, Zenon
<1> QED
  BY <1>0, <1>6, <1>7, <1>8, LedgerCounts DEF Ledger!Refuse

\* An offer the signal cancels is withdrawn.
LEMMA CancelledWithdraws ==
    ASSUME IInv, StatusMeans, StatusMeans', OfferCancelled
    PROVE  Ledger!Withdraw(reader.ev)
<1>0. PICK e \in Events : e = reader.ev
  BY AtSelect DEF Send, ShedEvent, OfferCancelled
<1>1. /\ Queued' = Queued /\ Held' = Held /\ Settled' = Settled /\ Offering' = {}
      /\ Accepted' = Accepted /\ Lost' \subseteq Lost \cup {e} /\ Lost \subseteq Lost'
  BY <1>0, OfferCancelledMoves
<1>2. /\ reader.pc = "select" /\ next' = next /\ dropped' = dropped /\ ctxDone' = ctxDone
      /\ ctxDone /\ Policy = "block"
  BY DEF OfferCancelled, processVars
<1>3. New' = New \ {e} /\ e \in New /\ e \in Events
  BY <1>0, <1>1, <1>2, LeavesSelect, AtSelect
<1>4. e \notin Queued \cup Held \cup Settled \cup dropped \cup Accepted
  BY <1>0, <1>2, AtSelect
<1>5. StatusOf(e) = "new" /\ StatusOf(e)' = "withdrawn"
  BY <1>1, <1>2, <1>3, <1>4 DEF StatusMeans, InFlight
<1>6. \A f \in Events \ {e} : StatusOf(f)' = StatusOf(f)
  BY <1>1, <1>2, <1>3, StatusStays DEF InFlight
<1>7. Ledger!Become(e, "new", "withdrawn")
  BY <1>2, <1>3, <1>5, <1>6, Becomes
<1>8. Ledger!InTurn(e)
  BY <1>0, <1>2, LedgerSets, AtSelect DEF Ledger!InTurn
<1> QED
  BY <1>0, <1>2, <1>7, <1>8 DEF Ledger!Withdraw

\* A terminal outcome settles the event of the worker.
LEMMA OutcomeSettles ==
    ASSUME IInv, StatusMeans, StatusMeans', NEW w \in Workers,
           \/ HandlerOk(w)
           \/ \E panicked \in BOOLEAN : HandlerPermanent(w, panicked)
           \/ HandlerExhausted(w)
    PROVE  Ledger!Settle(worker[w].ev)
<1>0. PICK ev \in Events : ev = worker[w].ev
  BY SetsInEvents DEF IInv, WorkerInv, InProcess, HandlerOk, HandlerPermanent, HandlerExhausted,
     AbandonRetry
<1>1. /\ worker[w].pc = "call" /\ LeaveProcess(w)
      /\ UNCHANGED <<queue, next, reader, dropped, routed, ctxDone>>
      /\ \E o \in Outcomes : CountHandled(ev, o)
  BY <1>0 DEF HandlerOk, HandlerPermanent, HandlerExhausted, readerVars, processVars, Outcomes
<1>2. PICK o \in Outcomes : CountHandled(ev, o)
  BY <1>1
<1>3. UNCHANGED <<queue, readerVars>>
  BY <1>1 DEF readerVars
<1>4. /\ Queued' = Queued /\ ev \in Held /\ Held' = Held \ {ev} /\ Settled' = Settled \cup {ev}
      /\ Offering' = Offering /\ Accepted' = Accepted /\ Lost' = Lost
  BY <1>1, <1>2, <1>3, <1>0, SettleMoves
<1>5. ev \in Events /\ ev \notin Queued
  BY <1>4, SetsInEvents DEF IInv, OnePlace
<1>6. New' = New
  BY <1>1, <1>4 DEF New
<1>7. StatusOf(ev) = "accepted" /\ StatusOf(ev)' = "settled"
  BY <1>4, <1>5 DEF StatusMeans, InFlight
<1>8. \A f \in Events \ {ev} : StatusOf(f)' = StatusOf(f)
  BY <1>1, <1>4, <1>6, StatusStays DEF InFlight
<1>9. Ledger!Become(ev, "accepted", "settled")
  BY <1>1, <1>5, <1>7, <1>8, Becomes
<1> QED
  BY <1>0, <1>9 DEF Ledger!Settle

\* A retry that the signal cuts short abandons the event of the worker.
LEMMA RetryAbandons ==
    ASSUME IInv, StatusMeans, StatusMeans', NEW w \in Workers, AbandonRetry(w)
    PROVE  Ledger!Abandon(worker[w].ev)
<1>0. PICK ev \in Events : ev = worker[w].ev
  BY SetsInEvents DEF IInv, WorkerInv, InProcess, HandlerOk, HandlerPermanent, HandlerExhausted,
     AbandonRetry
<1>1. /\ Queued' = Queued /\ ev \in Held /\ Held' = Held \ {ev}
      /\ Settled' = Settled /\ Offering' = Offering /\ Accepted' = Accepted
      /\ Lost' \subseteq Lost \cup {ev} /\ Lost \subseteq Lost'
  BY <1>0, AbandonMoves
<1>2. ctxDone /\ UNCHANGED <<next, dropped, ctxDone>>
  BY DEF AbandonRetry, readerVars, processVars
<1>3. ev \in Events /\ ev \notin Queued /\ ev \notin Settled /\ ev \in Accepted
  BY <1>1, SetsInEvents DEF IInv, OnePlace, InFlight
<1>4. New' = New
  BY <1>1, <1>2 DEF New
<1>5. ev \notin New /\ ev \notin dropped /\ ev < next
  BY <1>1, <1>3, RouteAssumption DEF IInv, TypeOK, Past, OnePlace, New, InFlight, Events
<1>6. ev \in Lost'
  BY <1>1, <1>2, <1>3, <1>5 DEF Lost, InFlight, New
<1>7. StatusOf(ev) = "accepted" /\ StatusOf(ev)' = "abandoned"
  BY <1>1, <1>3, <1>6 DEF StatusMeans, InFlight
<1>8. \A f \in Events \ {ev} : StatusOf(f)' = StatusOf(f)
  BY <1>1, <1>2, <1>4, StatusStays DEF InFlight
<1>9. Ledger!Become(ev, "accepted", "abandoned")
  BY <1>2, <1>3, <1>7, <1>8, Becomes
<1> QED
  BY <1>0, <1>2, <1>9 DEF Ledger!Abandon

\* The steps that leave every event where it is, or pass it on without a fate.
LEMMA QuietStutters ==
    ASSUME IInv, StatusMeans, StatusMeans',
           \/ CountRouted \/ SetDepthReader \/ ReaderReturns
           \/ \E w \in Workers : \/ Receive(w) \/ HandlerTransient(w) \/ Retry(w)
                                 \/ SetDepthWorker(w) \/ WorkerExits(w)
           \/ UNCHANGED <<queue, readerVars, workerVars>>
    PROVE  \A e \in Events : StatusOf(e)' = StatusOf(e)
<1>1. UNCHANGED <<next, dropped>>
  BY DEF CountRouted, SetDepthReader, ReaderReturns, Receive, HandlerTransient, Retry,
         SetDepthWorker, WorkerExits, readerVars
<1>2. CASE CountRouted \/ SetDepthReader \/ ReaderReturns
  <2>1. /\ InFlight' = InFlight /\ Settled' = Settled /\ Offering' = Offering
        /\ Accepted' = Accepted /\ Lost' = Lost
    BY <1>2, CountMoves DEF InFlight
  <2> QED
    BY <1>1, <2>1, Stutters DEF New
<1>3. ASSUME NEW w \in Workers, Receive(w)
      PROVE  \A e \in Events : StatusOf(e)' = StatusOf(e)
  <2>1. /\ InFlight' = InFlight /\ Settled' = Settled /\ Offering' = Offering
        /\ Accepted' = Accepted /\ Lost' = Lost
    BY <1>3, ReceiveMoves DEF InFlight
  <2> QED
    BY <1>1, <2>1, Stutters DEF New
<1>4. ASSUME NEW w \in Workers,
             HandlerTransient(w) \/ Retry(w) \/ SetDepthWorker(w) \/ WorkerExits(w)
      PROVE  \A e \in Events : StatusOf(e)' = StatusOf(e)
  <2>1. /\ InFlight' = InFlight /\ Settled' = Settled /\ Offering' = Offering
        /\ Accepted' = Accepted /\ Lost' = Lost
    BY <1>4, WorkerStays DEF InFlight
  <2> QED
    BY <1>1, <2>1, Stutters DEF New
<1>5. CASE UNCHANGED <<queue, readerVars, workerVars>>
  <2>1. /\ InFlight' = InFlight /\ Settled' = Settled /\ Offering' = Offering
        /\ Accepted' = Accepted /\ Lost' = Lost
    BY <1>5, MainMoves DEF InFlight
  <2> QED
    BY <1>1, <2>1, Stutters DEF New
<1> QED
  BY <1>2, <1>3, <1>4, <1>5

\* Every step of the route is a step of the ledger, or leaves it as it is.
LEMMA LedgerStep ==
    ASSUME IInv, StatusMeans, StatusMeans', [Next]_vars
    PROVE  [Ledger!Next]_Ledger!vars
<1>1. ASSUME \A e \in Events : StatusOf(e)' = StatusOf(e), UNCHANGED ctxDone
      PROVE  UNCHANGED Ledger!vars
  BY <1>1 DEF Ledger!vars
<1>2. ASSUME NEW e \in Events,
             \/ Ledger!Accept(e) \/ Ledger!Refuse(e) \/ Ledger!Withdraw(e)
             \/ Ledger!Settle(e) \/ Ledger!Abandon(e)
      PROVE  Ledger!Next
  BY <1>2 DEF Ledger!Next, Ledger!Events, Events
<1>3. CASE Reader
  <2>1. CASE Offer \/ CountRouted \/ SetDepthReader \/ ReaderReturns
    <3>1. \A e \in Events : StatusOf(e)' = StatusOf(e)
      BY <2>1, OfferStutters, QuietStutters
    <3>2. UNCHANGED ctxDone
      BY <2>1 DEF Offer, CountRouted, SetDepthReader, ReaderReturns, processVars
    <3> QED
      BY <1>1, <3>1, <3>2
  <2>2. CASE Send \/ ShedEvent \/ OfferCancelled
    <3>1. reader.ev \in Events
      BY <2>2, AtSelect DEF Send, ShedEvent, OfferCancelled
    <3>2. Ledger!Accept(reader.ev) \/ Ledger!Refuse(reader.ev) \/ Ledger!Withdraw(reader.ev)
      BY <2>2, SendAccepts, ShedRefuses, CancelledWithdraws
    <3> QED
      BY <3>1, <3>2 DEF Ledger!Next, Ledger!Events, Events
  <2> QED
    BY <1>3, <2>1, <2>2 DEF Reader, Shed, BlockTimeout
<1>4. ASSUME NEW w \in Workers, HandlerReturns(w) \/ WorkerLoop(w)
      PROVE  [Ledger!Next]_Ledger!vars
  <2>1. CASE \/ HandlerTransient(w) \/ Receive(w) \/ WorkerExits(w) \/ Retry(w)
             \/ SetDepthWorker(w)
    <3>1. \A e \in Events : StatusOf(e)' = StatusOf(e)
      BY <2>1, QuietStutters
    <3>2. UNCHANGED ctxDone
      BY <2>1 DEF HandlerTransient, Receive, WorkerExits, Retry, SetDepthWorker, processVars
    <3> QED
      BY <1>1, <3>1, <3>2
  <2>2. CASE \/ HandlerOk(w)
             \/ \E panicked \in BOOLEAN : HandlerPermanent(w, panicked)
             \/ HandlerExhausted(w)
    <3>1. worker[w].ev \in Events
      BY <2>2 DEF IInv, WorkerInv, InProcess, HandlerOk, HandlerPermanent, HandlerExhausted
    <3>2. Ledger!Settle(worker[w].ev)
      BY <2>2, OutcomeSettles
    <3> QED
      BY <3>1, <3>2 DEF Ledger!Next, Ledger!Events, Events
  <2>3. CASE AbandonRetry(w)
    <3>1. worker[w].ev \in Events
      BY <2>3 DEF IInv, WorkerInv, InProcess, AbandonRetry
    <3>2. Ledger!Abandon(worker[w].ev)
      BY <2>3, RetryAbandons
    <3> QED
      BY <3>1, <3>2 DEF Ledger!Next, Ledger!Events, Events
  <2> QED
    BY <1>4, <2>1, <2>2, <2>3 DEF HandlerReturns, WorkerLoop
<1>5. CASE Main \/ Terminated \/ UNCHANGED vars
  <2>1. UNCHANGED <<queue, readerVars, workerVars>>
    BY <1>5 DEF Main, Cancel, DrainStarts, DrainEnds, DrainTimesOut, Terminated, vars, readerVars,
                workerVars
  <2>2. \A e \in Events : StatusOf(e)' = StatusOf(e)
    BY <2>1, QuietStutters
  <2>3. ctxDone' = ctxDone \/ ctxDone' = TRUE
    BY <1>5 DEF Main, Cancel, DrainStarts, DrainEnds, DrainTimesOut, Terminated, vars
  <2>4. CASE ctxDone' = ctxDone
    BY <1>1, <2>2, <2>4
  <2>5. CASE ctxDone' = TRUE
    BY <2>2, <2>5 DEF Ledger!Next, Ledger!Cancel
  <2> QED
    BY <2>3, <2>4, <2>5
<1> QED
  BY <1>3, <1>4, <1>5 DEF Next

\* A new route has a new ledger.
LEMMA LedgerInit == Init => Ledger!Init
<1> SUFFICES ASSUME Init PROVE Ledger!Init
  OBVIOUS
<1>1. IInv
  BY InitIInv
<1>2. StatusMeans
  BY <1>1, StatusSets
<1>3. next = 1 /\ ctxDone = FALSE
  BY DEF Init
<1>4. \A e \in Events : e \in New
  BY <1>3, RouteAssumption DEF New, Events
<1>5. \A e \in Events : StatusOf(e) = "new"
  BY <1>2, <1>4 DEF StatusMeans
<1> QED
  BY <1>3, <1>5 DEF Ledger!Init, Ledger!Events, Events

\* A route accepts or refuses every event in turn, refuses only with a buffer full of
\* unsettled events, never changes a fate, and gives up an event only after the
\* signal (Offer, worker, process, Drain).
THEOREM RouteImplementsLedger == Spec => LedgerSpec
<1>1. Init => Ledger!Init
  BY LedgerInit
<1>2. IInv /\ [Next]_vars => [Ledger!Next]_Ledger!vars
  BY StepMeans, LedgerStep
<1> QED
  BY <1>1, <1>2, RouteInvariant, PTL DEF Spec, LedgerSpec, Ledger!Spec
=============================================================================
