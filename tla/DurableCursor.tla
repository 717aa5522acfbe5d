--------------------------- MODULE DurableCursor ----------------------------
(***************************************************************************)
(* What the cursor promises the ingestor: a position in memory that only   *)
(* moves forward while the process lives, and a file that is always        *)
(* readable, never ahead of what was consumed and never moves back, so a   *)
(* restart from it replays an overlap and skips nothing.                   *)
(***************************************************************************)
EXTENDS Naturals

CONSTANT MaxTime    \* bound of the model: the last position of the stream

VARIABLES
    pos,    \* the newest position consumed; 0 when a process has none yet
    file    \* the position the file holds; 0 when there is no file

vars == <<pos, file>>

Init == pos = 0 /\ file = 0

\* The stream moved on.
Consume == /\ pos' \in (pos + 1)..MaxTime
           /\ UNCHANGED file

\* The file catches up with the position, or with an earlier one not yet passed.
Persist == /\ file' \in (file + 1)..pos
           /\ UNCHANGED pos

\* The process is gone, with all it had in memory.
Lose == pos' = 0 /\ UNCHANGED file

\* A new process picks up where the file says the last one was.
Resume == pos = 0 /\ pos' = file /\ UNCHANGED file

Next == Consume \/ Persist \/ Lose \/ Resume

Spec == Init /\ [][Next]_vars
=============================================================================
