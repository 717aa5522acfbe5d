------------------------------- MODULE Cursor -------------------------------
(***************************************************************************)
(* The stream position (internal/jetstream/cursor.go): held in memory by   *)
(* the process, persisted by Commit, which writes a temporary file and     *)
(* renames it over the cursor file, and read back by Load.                 *)
(*                                                                         *)
(* Commit is called by two goroutines that know nothing of each other: the *)
(* maintenance loop of the ingestor on its ticker, and main after the      *)
(* drain.  Both write the same temporary file.  The file system is the     *)
(* one of a POSIX system: a name is bound to an inode, opening an existing *)
(* file truncates its inode, an open file keeps its inode through a rename.*)
(* The page cache outlives the process, so a crash loses no write that was *)
(* made; there is no fsync, and loss of power is not modelled.             *)
(***************************************************************************)
EXTENDS Naturals, FiniteSets

CONSTANTS
    Committers,     \* the goroutines that call Commit: "maintenance", "main"
    Inodes,         \* inodes of the file system the cursor lives on
    None,           \* a name without a file
    MaxTime,        \* bound of the model: the last position of the stream
    MaxFaults,      \* bound of the model: system calls that fail
    MaxStops        \* bound of the model: crashes and shutdowns

\* An instance without "main" is a deployment whose processes only ever crash.
ASSUME CursorAssumption ==
    /\ "maintenance" \in Committers /\ Committers \subseteq {"maintenance", "main"}
    /\ IsFiniteSet(Inodes) /\ Cardinality(Inodes) >= 2 + Cardinality(Committers)
    /\ None \notin Inodes
    /\ MaxTime \in Nat /\ MaxFaults \in Nat /\ MaxStops \in Nat

VARIABLES
    mode,       \* the process: "running", "stopping" (reader gone), "gone"
    latest,     \* Cursor.latest
    commited,   \* Cursor.commited, spelt as in the code
    committer,  \* per goroutine: where it is in Commit, the value, the open file
    binding,    \* the inode each of the two file names is bound to
    content,    \* per inode: the position it holds, 0 when it is truncated
    peak,       \* history: the newest position any process consumed
    faults,     \* system calls that failed so far
    stops       \* crashes and shutdowns so far

vars == <<mode, latest, commited, committer, binding, content, peak, faults, stops>>

fileVars   == <<binding, content>>
memoryVars == <<latest, commited>>
boundVars  == <<faults, stops>>

At(p) == [pc |-> p, v |-> 0, ino |-> None]

Init ==
    /\ mode = "running"
    /\ latest = 0 /\ commited = 0
    /\ committer = [c \in Committers |-> At("idle")]
    /\ binding = [n \in {"path", "tmp"} |-> None]
    /\ content = [i \in Inodes |-> 0]
    /\ peak = 0
    /\ faults = 0 /\ stops = 0

\* What Load would return: 0 for a missing and for an unparseable file.
FilePosition == IF binding["path"] = None THEN 0 ELSE content[binding["path"]]

-----------------------------------------------------------------------------
\* Load at the start of a process: memory takes the position of the file.
Load ==
    /\ mode = "running" /\ latest = 0
    /\ \A c \in Committers : committer[c].pc = "idle"
    /\ FilePosition # 0
    /\ latest' = FilePosition
    /\ commited' = FilePosition
    /\ UNCHANGED <<mode, committer, fileVars, peak, boundVars>>

\* Mutant: Advance records the position to read next.
AdvancePast(t) ==
    /\ mode = "running"
    /\ latest = 0 => t >= peak
    /\ t > latest
    /\ latest' = t + 1
    /\ peak' = IF t > peak THEN t ELSE peak
    /\ UNCHANGED <<mode, commited, committer, fileVars, boundVars>>

\* Advance, called by the ingest goroutine alone: a position that is not newer
\* is ignored.  A process without a position reads from the live tip, so the
\* first one it sees is not older than any seen before.
Advance(t) ==
    /\ mode = "running"
    /\ latest = 0 => t >= peak
    /\ t > latest
    /\ latest' = t
    /\ peak' = IF t > peak THEN t ELSE peak
    /\ UNCHANGED <<mode, commited, committer, fileVars, boundVars>>

-----------------------------------------------------------------------------
(***************************************************************************)
(* Commit, one step per system call.                                       *)
(***************************************************************************)

\* The maintenance loop commits on a tick, and once more if a tick and the
\* cancelled context are ready together; main commits after the drain.
MayCommit(c) ==
    \/ c = "maintenance" /\ mode \in {"running", "stopping"}
    \/ c = "main" /\ mode = "stopping"

\* There is a new position: Commit takes it and sets out to write it.
BeginCommit(c) ==
    /\ MayCommit(c)
    /\ committer[c].pc = "idle"
    /\ latest # 0 /\ latest # commited
    /\ committer' = [committer EXCEPT ![c] = [At("open") EXCEPT !.v = latest]]
    /\ UNCHANGED <<mode, memoryVars, fileVars, peak, boundVars>>

\* Commit is over: the maintenance loop waits for the next tick, main is done.
Returned(c) == At(IF c = "main" THEN "done" ELSE "idle")

\* Nothing new to persist.
CommitNothing(c) ==
    /\ c = "main" /\ MayCommit(c)
    /\ committer[c].pc = "idle"
    /\ latest = 0 \/ latest = commited
    /\ committer' = [committer EXCEPT ![c] = Returned(c)]
    /\ UNCHANGED <<mode, memoryVars, fileVars, peak, boundVars>>

\* Mutant: the new value is written straight into the cursor file.
OpenPath(c) ==
    /\ committer[c].pc = "open"
    /\ \E i \in Inodes :
         /\ IF binding["path"] # None THEN i = binding["path"]
                                      ELSE \A b \in Committers : committer[b].ino # i
         /\ binding' = [binding EXCEPT !["path"] = i, !["tmp"] = i]
         /\ content' = [content EXCEPT ![i] = 0]
         /\ committer' = [committer EXCEPT ![c].pc = "write", ![c].ino = i]
    /\ UNCHANGED <<mode, memoryVars, peak, boundVars>>

\* WriteFile opens the temporary file: an existing one is truncated, a missing
\* one is created on an inode nothing refers to.
OpenTmp(c) ==
    /\ committer[c].pc = "open"
    /\ \E i \in Inodes :
         /\ IF binding["tmp"] # None THEN i = binding["tmp"]
            ELSE i # binding["path"] /\ \A b \in Committers : committer[b].ino # i
         /\ binding' = [binding EXCEPT !["tmp"] = i]
         /\ content' = [content EXCEPT ![i] = 0]
         /\ committer' = [committer EXCEPT ![c].pc = "write", ![c].ino = i]
    /\ UNCHANGED <<mode, memoryVars, peak, boundVars>>

\* WriteFile writes to the inode it opened, whatever name it has by now.
WriteTmp(c) ==
    /\ committer[c].pc = "write"
    /\ content' = [content EXCEPT ![committer[c].ino] = committer[c].v]
    /\ committer' = [committer EXCEPT ![c].pc = "rename", ![c].ino = None]
    /\ UNCHANGED <<mode, memoryVars, binding, peak, boundVars>>

\* Rename binds the cursor file's name to whatever the temporary name is bound to.
RenameTmp(c) ==
    /\ committer[c].pc = "rename"
    /\ binding["tmp"] # None
    /\ binding' = [path |-> binding["tmp"], tmp |-> None]
    /\ committer' = [committer EXCEPT ![c].pc = "store"]
    /\ UNCHANGED <<mode, memoryVars, content, peak, boundVars>>

\* Commit remembers what it persisted.
StoreCommited(c) ==
    /\ committer[c].pc = "store"
    /\ commited' = committer[c].v
    /\ committer' = [committer EXCEPT ![c] = Returned(c)]
    /\ UNCHANGED <<mode, latest, fileVars, peak, boundVars>>

\* The other goroutine renamed the temporary file away: Commit returns an error.
RenameFindsNothing(c) ==
    /\ committer[c].pc = "rename"
    /\ binding["tmp"] = None
    /\ committer' = [committer EXCEPT ![c] = Returned(c)]
    /\ UNCHANGED <<mode, memoryVars, fileVars, peak, boundVars>>

\* Mutant: an error of a system call is dropped and Commit carries on.
FaultIgnored(c) ==
    /\ faults < MaxFaults
    /\ committer[c].pc \in {"open", "write", "rename"}
    /\ faults' = faults + 1
    /\ committer' = [committer EXCEPT ![c].pc = "store", ![c].ino = None]
    /\ UNCHANGED <<mode, memoryVars, fileVars, peak, stops>>

\* MkdirAll, WriteFile or Rename fails: Commit returns the error at once.
Fault(c) ==
    /\ faults < MaxFaults
    /\ committer[c].pc \in {"open", "write", "rename"}
    /\ faults' = faults + 1
    /\ committer' = [committer EXCEPT ![c] = Returned(c)]
    /\ UNCHANGED <<mode, memoryVars, fileVars, peak, stops>>

\* The maintenance loop sees the cancelled context.
LoopReturns ==
    /\ mode = "stopping"
    /\ committer["maintenance"].pc = "idle"
    /\ committer' = [committer EXCEPT !["maintenance"] = At("done")]
    /\ UNCHANGED <<mode, memoryVars, fileVars, peak, boundVars>>

-----------------------------------------------------------------------------
\* SIGTERM: the ingest goroutine has returned and the routes are drained.
Stop ==
    /\ mode = "running" /\ "main" \in Committers /\ stops < MaxStops
    /\ mode' = "stopping"
    /\ stops' = stops + 1
    /\ UNCHANGED <<memoryVars, committer, fileVars, peak, faults>>

\* The process is gone, wherever its goroutines were.
Vanish ==
    /\ mode' = "gone"
    /\ latest' = 0 /\ commited' = 0
    /\ committer' = [c \in Committers |-> At("idle")]
    /\ UNCHANGED <<fileVars, peak, faults>>

\* main returns after its commit, without waiting for the maintenance loop.
Exit ==
    /\ mode = "stopping" /\ committer["main"].pc = "done"
    /\ Vanish
    /\ UNCHANGED stops

\* The process is killed.
Crash ==
    /\ mode \in {"running", "stopping"} /\ stops < MaxStops
    /\ Vanish
    /\ stops' = stops + 1

\* A new process: NewCursor.
Start ==
    /\ mode = "gone"
    /\ mode' = "running"
    /\ UNCHANGED <<memoryVars, committer, fileVars, peak, boundVars>>

-----------------------------------------------------------------------------
\* The steps of Commit that need no fault.
CommitStep(c) ==
    BeginCommit(c) \/ CommitNothing(c) \/ OpenTmp(c) \/ WriteTmp(c) \/ RenameTmp(c)
      \/ StoreCommited(c) \/ RenameFindsNothing(c)

Next ==
    \/ Load
    \/ \E t \in 1..MaxTime : Advance(t)
    \/ \E c \in Committers : CommitStep(c) \/ Fault(c)
    \/ LoopReturns \/ Stop \/ Exit \/ Crash \/ Start

Spec == Init /\ [][Next]_vars

\* The ticker keeps ticking and system calls return: the maintenance loop's
\* commits make progress.
FairSpec == Spec /\ WF_vars(CommitStep("maintenance"))

-----------------------------------------------------------------------------
TypeOK ==
    /\ mode \in {"running", "stopping", "gone"}
    /\ latest \in 0..MaxTime /\ commited \in 0..MaxTime
    /\ committer \in [Committers -> [pc : {"idle", "open", "write", "rename", "store", "done"},
                                     v : 0..MaxTime, ino : Inodes \cup {None}]]
    /\ binding \in [{"path", "tmp"} -> Inodes \cup {None}]
    /\ content \in [Inodes -> 0..MaxTime]
    /\ peak \in 0..MaxTime
    /\ faults \in 0..MaxFaults /\ stops \in 0..MaxStops

\* Neither file name nor an open file ever holds a position that no process
\* consumed: a restart from the file can replay events, and never skips any.
NeverAhead ==
    /\ latest <= peak /\ commited <= peak
    /\ \A i \in Inodes : content[i] <= peak
    /\ \A c \in Committers : committer[c].v <= peak

\* What the process believes persisted is in the file, or was superseded there:
\* a commit that failed is not taken for done and is tried again.
CommitedIsDurable == commited <= FilePosition

\* With one committer the file is the one DurableCursor promises: readable, never
\* ahead, never moving back, whatever call fails and wherever the process dies.
Durable == INSTANCE DurableCursor WITH pos <- latest, file <- FilePosition
DurableSpec == Durable!Spec

\* While the process runs and system calls stop failing, the file catches up
\* with the position, whatever an earlier process left behind.
FileCatchesUp == []<>(mode = "running" /\ latest # 0 => FilePosition = latest)

-----------------------------------------------------------------------------
(***************************************************************************)
(* What comments say and two committers break.                             *)
(***************************************************************************)

\* cursor.go: "a crash mid-write must not leave a truncated cursor file".
NeverTruncated == binding["path"] # None => FilePosition # 0
=============================================================================
