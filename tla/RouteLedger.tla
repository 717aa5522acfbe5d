---------------------------- MODULE RouteLedger -----------------------------
(***************************************************************************)
(* What a route promises the rest of the router, without goroutines,       *)
(* channel or attempts: every event offered, one after the other, is       *)
(* accepted or refused, and every accepted event is settled.               *)
(*                                                                         *)
(*   - a refusal happens only while at least a buffer full of accepted     *)
(*     events is unsettled;                                                *)
(*   - at most a buffer full of them, and one per worker, ever is;         *)
(*   - a settled event stays settled, a refused one stays refused;         *)
(*   - only a cancelled route withdraws an offer or abandons an event.     *)
(*                                                                         *)
(* Of the stream some events resolve to other routes: those are elsewhere, *)
(* and nothing happens to them here.                                       *)
(***************************************************************************)
EXTENDS Naturals, FiniteSets

CONSTANTS
    MaxEvents,  \* bound of the model: how many events are offered
    Buffer,     \* capacity of the buffer
    PoolSize,   \* number of workers
    Policy      \* whatever is not "block" acts as "drop"

Events == 1..MaxEvents

VARIABLES
    cancelled,  \* the process context is cancelled
    status      \* what became of each event: "new", "accepted", "refused", "withdrawn",
                \* "settled", "abandoned", or "elsewhere"

vars == <<cancelled, status>>

With(s) == {e \in Events : status[e] = s}

Init ==
    /\ cancelled = FALSE
    /\ status \in [Events -> {"new", "elsewhere"}]

Become(e, from, to) ==
    /\ status[e] = from
    /\ status' = [status EXCEPT ![e] = to]
    /\ UNCHANGED cancelled

\* Events are offered in the order of the stream.
InTurn(e) == \A f \in With("new") : e <= f

Accept(e) ==
    /\ Become(e, "new", "accepted")
    /\ InTurn(e)
    /\ Cardinality(With("accepted")) < Buffer + PoolSize

Refuse(e) ==
    /\ Become(e, "new", "refused")
    /\ InTurn(e)
    /\ Cardinality(With("accepted")) >= Buffer

Withdraw(e) ==
    /\ Policy = "block" /\ cancelled
    /\ Become(e, "new", "withdrawn")
    /\ InTurn(e)

Settle(e) == Become(e, "accepted", "settled")

Abandon(e) == cancelled /\ Become(e, "accepted", "abandoned")

Cancel == cancelled' = TRUE /\ UNCHANGED status

Next ==
    \/ \E e \in Events : Accept(e) \/ Refuse(e) \/ Withdraw(e) \/ Settle(e) \/ Abandon(e)
    \/ Cancel

Spec == Init /\ [][Next]_vars
=============================================================================
