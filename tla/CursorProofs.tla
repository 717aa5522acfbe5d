---------------------------- MODULE CursorProofs ----------------------------
(***************************************************************************)
(* Proofs about Cursor: for both committers, that nothing is ever ahead of *)
(* what was consumed; for one committer, that the file is durable.         *)
(***************************************************************************)
EXTENDS Cursor, TLAPS

-----------------------------------------------------------------------------
(***************************************************************************)
(* Two committers: types and NeverAhead, inductive together.               *)
(***************************************************************************)
AheadInv == TypeOK /\ NeverAhead

\* The initial states.
LEMMA AheadInit == Init => AheadInv
BY CursorAssumption DEF Init, AheadInv, TypeOK, NeverAhead, At

\* The position a process would read from the file.
LEMMA FileType ==
    ASSUME AheadInv
    PROVE  FilePosition \in 0..MaxTime /\ FilePosition <= peak
BY CursorAssumption DEF AheadInv, TypeOK, NeverAhead, FilePosition

\* A goroutine in Commit, and what it may become.
Pcs      == {"idle", "open", "write", "rename", "store", "done"}
Rows     == [pc : Pcs, v : 0..MaxTime, ino : Inodes \cup {None}]

\* A step of one goroutine in Commit that takes no newer value keeps the rows.
LEMMA RowStep ==
    ASSUME AheadInv, NEW c \in Committers, NEW row \in Rows, row.v <= peak,
           committer' = [committer EXCEPT ![c] = row]
    PROVE  /\ committer' \in [Committers -> Rows]
           /\ \A b \in Committers : committer'[b].v <= peak
BY DEF AheadInv, TypeOK, NeverAhead, Rows, Pcs

\* Every step of a goroutine in Commit keeps both.
LEMMA CommitAhead ==
    ASSUME AheadInv, NEW c \in Committers, CommitStep(c) \/ Fault(c)
    PROVE  AheadInv'
<1> USE CursorAssumption
<1>1. /\ committer[c] \in Rows /\ committer[c].v <= peak /\ 0 <= peak /\ latest \in 0..MaxTime
      /\ latest <= peak
  BY DEF AheadInv, TypeOK, NeverAhead, Rows, Pcs
<1>2. At("idle") \in Rows /\ At("done") \in Rows /\ At("idle").v = 0 /\ At("done").v = 0
  BY DEF At, Rows, Pcs
<1>3. Returned(c) \in Rows /\ Returned(c).v = 0
  BY <1>2 DEF Returned
<1>4. ASSUME NEW row \in Rows, row.v <= peak, committer' = [committer EXCEPT ![c] = row],
             content' \in [Inodes -> 0..MaxTime], \A i \in Inodes : content'[i] <= peak,
             binding' \in [{"path", "tmp"} -> Inodes \cup {None}],
             commited' \in {commited, committer[c].v},
             UNCHANGED <<mode, latest, peak, stops>>, faults' \in 0..MaxFaults
      PROVE  AheadInv'
  BY <1>1, <1>4, RowStep DEF AheadInv, TypeOK, NeverAhead, Rows, Pcs
<1>5. UNCHANGED <<binding, content, commited>> =>
        /\ content' \in [Inodes -> 0..MaxTime] /\ \A i \in Inodes : content'[i] <= peak
        /\ binding' \in [{"path", "tmp"} -> Inodes \cup {None}]
        /\ commited' \in {commited, committer[c].v}
  BY DEF AheadInv, TypeOK, NeverAhead
<1>6. faults \in 0..MaxFaults
  BY DEF AheadInv, TypeOK
<1>7. CASE BeginCommit(c)
  <2> DEFINE row == [At("open") EXCEPT !.v = latest]
  <2>1. row \in Rows /\ row.v <= peak
    BY <1>1 DEF At, Rows, Pcs
  <2> QED
    BY <1>4, <1>5, <1>6, <1>7, <2>1 DEF BeginCommit, memoryVars, fileVars, boundVars
<1>8. CASE CommitNothing(c) \/ RenameFindsNothing(c) \/ Fault(c)
  <2>1. committer' = [committer EXCEPT ![c] = Returned(c)] /\ Returned(c).v <= peak
    BY <1>1, <1>3, <1>8 DEF CommitNothing, RenameFindsNothing, Fault
  <2>2. /\ UNCHANGED <<mode, latest, commited, binding, content, peak, stops>>
        /\ faults' \in 0..MaxFaults
    BY <1>6, <1>8 DEF CommitNothing, RenameFindsNothing, Fault, memoryVars, fileVars, boundVars
  <2> QED
    BY <1>3, <1>4, <1>5, <2>1, <2>2
<1>9. CASE OpenTmp(c)
  <2>1. PICK i \in Inodes :
          /\ binding' = [binding EXCEPT !["tmp"] = i]
          /\ content' = [content EXCEPT ![i] = 0]
          /\ committer' = [committer EXCEPT ![c].pc = "write", ![c].ino = i]
    BY <1>9 DEF OpenTmp
  <2> DEFINE row == [committer[c] EXCEPT !.pc = "write", !.ino = i]
  <2>2. committer' = [committer EXCEPT ![c] = row]
    BY <2>1 DEF AheadInv, TypeOK
  <2>3. row \in Rows /\ row.v <= peak
    BY <1>1 DEF Rows, Pcs
  <2>4. /\ content' \in [Inodes -> 0..MaxTime] /\ \A j \in Inodes : content'[j] <= peak
        /\ binding' \in [{"path", "tmp"} -> Inodes \cup {None}]
    BY <1>1, <2>1 DEF AheadInv, TypeOK, NeverAhead
  <2>5. UNCHANGED <<mode, latest, commited, peak, faults, stops>>
    BY <1>9 DEF OpenTmp, memoryVars, boundVars
  <2> QED
    BY <1>4, <1>6, <2>2, <2>3, <2>4, <2>5
<1>10. CASE WriteTmp(c)
  <2> DEFINE row == [committer[c] EXCEPT !.pc = "rename", !.ino = None]
  <2>2. committer' = [committer EXCEPT ![c] = row]
    BY <1>10 DEF WriteTmp, AheadInv, TypeOK
  <2>3. row \in Rows /\ row.v <= peak /\ committer[c].v \in 0..MaxTime
    BY <1>1 DEF Rows, Pcs
  <2>4. content' \in [Inodes -> 0..MaxTime] /\ \A j \in Inodes : content'[j] <= peak
    BY <1>1, <1>10, <2>3 DEF WriteTmp, AheadInv, TypeOK, NeverAhead
  <2>5. /\ UNCHANGED <<mode, latest, commited, binding, peak, faults, stops>>
        /\ binding \in [{"path", "tmp"} -> Inodes \cup {None}]
    BY <1>10 DEF WriteTmp, memoryVars, boundVars, AheadInv, TypeOK
  <2> QED
    BY <1>4, <1>6, <2>2, <2>3, <2>4, <2>5
<1>11. CASE RenameTmp(c)
  <2> DEFINE row == [committer[c] EXCEPT !.pc = "store"]
  <2>2. committer' = [committer EXCEPT ![c] = row]
    BY <1>11 DEF RenameTmp, AheadInv, TypeOK
  <2>3. row \in Rows /\ row.v <= peak
    BY <1>1 DEF Rows, Pcs
  <2>4. binding' \in [{"path", "tmp"} -> Inodes \cup {None}]
    <3>1. binding["tmp"] \in Inodes \cup {None}
      BY DEF AheadInv, TypeOK
    <3>2. binding' = [n \in {"path", "tmp"} |-> IF n = "path" THEN binding["tmp"] ELSE None]
      BY <1>11 DEF RenameTmp
    <3> QED
      BY <3>1, <3>2
  <2>5. UNCHANGED <<mode, latest, commited, content, peak, faults, stops>>
    BY <1>11 DEF RenameTmp, memoryVars, boundVars
  <2>6. content' \in [Inodes -> 0..MaxTime] /\ \A i \in Inodes : content'[i] <= peak
    BY <2>5 DEF AheadInv, TypeOK, NeverAhead
  <2> QED
    BY <1>4, <1>6, <2>2, <2>3, <2>4, <2>5, <2>6
<1>12. CASE StoreCommited(c)
  <2>1. committer' = [committer EXCEPT ![c] = Returned(c)] /\ Returned(c).v <= peak
    BY <1>1, <1>3, <1>12 DEF StoreCommited
  <2>2. /\ UNCHANGED <<mode, latest, binding, content, peak, stops, faults>>
        /\ commited' = committer[c].v
    BY <1>12 DEF StoreCommited, fileVars, boundVars
  <2>3. /\ content' \in [Inodes -> 0..MaxTime] /\ \A i \in Inodes : content'[i] <= peak
        /\ binding' \in [{"path", "tmp"} -> Inodes \cup {None}]
    BY <2>2 DEF AheadInv, TypeOK, NeverAhead
  <2> QED
    BY <1>3, <1>4, <1>6, <2>1, <2>2, <2>3
<1> QED
  BY <1>7, <1>8, <1>9, <1>10, <1>11, <1>12 DEF CommitStep

\* Advance and Load bring the position, and what was consumed, forward.
LEMMA MemoryAhead ==
    ASSUME AheadInv, Load \/ \E t \in 1..MaxTime : Advance(t)
    PROVE  AheadInv'
<1> USE CursorAssumption
<1>1. CASE Load
  BY <1>1, FileType DEF Load, AheadInv, TypeOK, NeverAhead, fileVars, boundVars
<1>2. ASSUME NEW t \in 1..MaxTime, Advance(t) PROVE AheadInv'
  <2>1. peak \in 0..MaxTime /\ peak <= peak' /\ peak' \in 0..MaxTime /\ latest' = t /\ t <= peak'
    BY <1>2 DEF Advance, AheadInv, TypeOK
  <2>2. UNCHANGED <<mode, commited, committer, binding, content, faults, stops>>
    BY <1>2 DEF Advance, fileVars, boundVars
  <2>3. TypeOK'
    BY <2>1, <2>2 DEF AheadInv, TypeOK
  <2>4. /\ commited \in 0..MaxTime /\ \A i \in Inodes : content[i] \in 0..MaxTime
        /\ \A c \in Committers : committer[c].v \in 0..MaxTime
    BY DEF AheadInv, TypeOK
  <2>5. NeverAhead'
    BY <2>1, <2>2, <2>4 DEF AheadInv, NeverAhead
  <2> QED
    BY <2>3, <2>5 DEF AheadInv
<1> QED
  BY <1>1, <1>2

\* A process that stops, dies or starts puts nothing ahead.
LEMMA ProcessAhead ==
    ASSUME AheadInv, LoopReturns \/ Stop \/ Exit \/ Crash \/ Start
    PROVE  AheadInv'
<1> USE CursorAssumption
<1>1. At("idle") \in Rows /\ At("done") \in Rows /\ At("idle").v = 0 /\ At("done").v = 0
      /\ peak \in 0..MaxTime
  BY DEF At, Rows, Pcs, AheadInv, TypeOK
<1>2. CASE LoopReturns
  <2>1. /\ committer' = [committer EXCEPT !["maintenance"] = At("done")]
        /\ UNCHANGED <<mode, latest, commited, binding, content, peak, faults, stops>>
    BY <1>2 DEF LoopReturns, memoryVars, fileVars, boundVars
  <2>2. /\ committer' \in [Committers -> Rows]
        /\ \A b \in Committers : committer'[b].v <= peak
    <3>1. "maintenance" \in Committers /\ At("done").v <= peak
      BY <1>1
    <3> HIDE CursorAssumption
    <3> QED
      BY <1>1, <2>1, <3>1, RowStep
  <2> QED
    BY <2>1, <2>2 DEF AheadInv, TypeOK, NeverAhead, Rows, Pcs
<1>3. CASE Stop \/ Start
  BY <1>3 DEF Stop, Start, AheadInv, TypeOK, NeverAhead, memoryVars, fileVars, boundVars
<1>4. CASE Exit \/ Crash
  <2>1. /\ mode' = "gone" /\ latest' = 0 /\ commited' = 0
        /\ committer' = [c \in Committers |-> At("idle")]
        /\ UNCHANGED <<binding, content, peak, faults>> /\ stops' \in 0..MaxStops
    BY <1>4 DEF Exit, Crash, Vanish, fileVars, AheadInv, TypeOK
  <2>2. /\ committer' \in [Committers -> Rows]
        /\ \A b \in Committers : committer'[b].v <= peak
    BY <1>1, <2>1
  <2> QED
    BY <1>1, <2>1, <2>2 DEF AheadInv, TypeOK, NeverAhead, Rows, Pcs
<1> QED
  BY <1>2, <1>3, <1>4

\* Every step keeps both.
LEMMA AheadStep == AheadInv /\ [Next]_vars => AheadInv'
<1> SUFFICES ASSUME AheadInv, [Next]_vars PROVE AheadInv'
  OBVIOUS
<1>1. CASE UNCHANGED vars
  BY <1>1 DEF vars, AheadInv, TypeOK, NeverAhead
<1> QED
  BY <1>1, CommitAhead, MemoryAhead, ProcessAhead DEF Next

\* Types and NeverAhead, for both committers (Cursor.Commit of main and of the
\* maintenance loop), any number of positions, faults and crashes.
THEOREM CursorTypes == Spec => []TypeOK
<1>1. AheadInv => TypeOK
  BY DEF AheadInv
<1> QED
  BY <1>1, AheadInit, AheadStep, PTL DEF Spec

\* NeverAhead: a restart from any file or half-written file skips nothing.
THEOREM CursorNeverAhead == Spec => []NeverAhead
<1>1. AheadInv => NeverAhead
  BY DEF AheadInv
<1> QED
  BY <1>1, AheadInit, AheadStep, PTL DEF Spec

-----------------------------------------------------------------------------
(***************************************************************************)
(* One committer: the file is the one DurableCursor promises.              *)
(***************************************************************************)
OneCommitter == Committers = {"maintenance"}

Committing == committer["maintenance"]

\* Where the only committer is, and what it has in hand.
Writing ==
    /\ mode \in {"running", "gone"}
    /\ latest = 0 => Committing.pc = "idle"
    /\ Committing.pc # "done"
    /\ latest # 0 => FilePosition <= latest
    /\ commited <= FilePosition
    /\ Committing.pc \in {"open", "write", "rename"} =>
         FilePosition <= Committing.v /\ Committing.v <= latest
    /\ Committing.pc = "write" => Committing.ino = binding["tmp"] /\ Committing.ino # None
    /\ Committing.pc = "rename" => binding["tmp"] # None /\ content[binding["tmp"]] = Committing.v
    /\ Committing.pc = "store" => Committing.v <= FilePosition
    /\ binding["tmp"] # None => binding["tmp"] # binding["path"]

DurableInv == AheadInv /\ Writing

\* The initial states.
LEMMA DurableInit ==
    ASSUME OneCommitter, Init
    PROVE  DurableInv /\ Durable!Init
<1>1. AheadInv
  BY AheadInit
<1>2. Committing = At("idle") /\ FilePosition = 0
  BY DEF OneCommitter, Init, Committing, FilePosition
<1>3. Writing
  BY <1>2 DEF Init, Writing, At
<1>4. Durable!Init
  BY <1>2 DEF Init, Durable!Init
<1> QED
  BY <1>1, <1>3, <1>4 DEF DurableInv

\* Every step of Commit keeps the file readable and behind the position, and is
\* a step of the abstract file or none.
LEMMA CommitDurable ==
    ASSUME OneCommitter, DurableInv, CommitStep("maintenance") \/ Fault("maintenance")
    PROVE  Writing' /\ (Durable!Persist \/ UNCHANGED <<latest, FilePosition>>)
<1> USE CursorAssumption DEF OneCommitter
<1>1. AheadInv /\ Writing /\ latest \in 0..MaxTime /\ commited \in 0..MaxTime
      /\ FilePosition \in 0..MaxTime /\ MaxTime \in Nat
  BY FileType DEF DurableInv, AheadInv, TypeOK
<1>2. /\ committer \in [{"maintenance"} -> Rows] /\ Committing \in Rows
      /\ binding["tmp"] \in Inodes \cup {None} /\ binding["path"] \in Inodes \cup {None}
      /\ binding \in [{"path", "tmp"} -> Inodes \cup {None}]
      /\ content \in [Inodes -> 0..MaxTime]
  BY <1>1 DEF AheadInv, TypeOK, Rows, Pcs, Committing
<1>3. Returned("maintenance") = At("idle")
  BY DEF Returned
<1>4. UNCHANGED <<binding, content>> => UNCHANGED FilePosition
  BY DEF FilePosition
<1>5. CASE BeginCommit("maintenance")
  <2>1. Committing' = [At("open") EXCEPT !.v = latest] /\ latest # 0
    BY <1>2, <1>5 DEF BeginCommit, Committing
  <2>2. UNCHANGED <<mode, latest, commited, binding, content>>
    BY <1>5 DEF BeginCommit, memoryVars, fileVars
  <2>3. Committing'.pc = "open" /\ Committing'.v = latest
    BY <2>1 DEF At
  <2> QED
    BY <1>1, <1>4, <2>1, <2>2, <2>3 DEF Writing
<1>6. CASE CommitNothing("maintenance")
  BY <1>6 DEF CommitNothing
<1>7. CASE RenameFindsNothing("maintenance") \/ Fault("maintenance")
  <2>1. UNCHANGED <<mode, latest, commited, binding, content>> /\ Committing' = At("idle")
    BY <1>2, <1>3, <1>7 DEF RenameFindsNothing, Fault, memoryVars, fileVars, Committing
  <2>2. Committing'.pc = "idle"
    BY <2>1 DEF At
  <2> QED
    BY <1>1, <1>4, <2>1, <2>2 DEF Writing
<1>8. CASE OpenTmp("maintenance")
  <2>1. PICK i \in Inodes :
          /\ IF binding["tmp"] # None THEN i = binding["tmp"]
             ELSE i # binding["path"] /\ \A b \in Committers : committer[b].ino # i
          /\ binding' = [binding EXCEPT !["tmp"] = i]
          /\ content' = [content EXCEPT ![i] = 0]
          /\ committer' = [committer EXCEPT !["maintenance"].pc = "write",
                                            !["maintenance"].ino = i]
    BY <1>8 DEF OpenTmp
  <2>2. i # binding["path"] /\ i # None
    BY <1>1, <2>1 DEF Writing
  <2>3. binding'["tmp"] = i /\ binding'["path"] = binding["path"]
    BY <1>2, <2>1
  <2>4. UNCHANGED FilePosition
    BY <1>2, <2>1, <2>2, <2>3 DEF FilePosition
  <2>5. Committing'.pc = "write" /\ Committing'.ino = i /\ Committing'.v = Committing.v
    BY <1>2, <2>1 DEF Committing, Rows
  <2>6. UNCHANGED <<mode, latest, commited>> /\ Committing.pc = "open"
    BY <1>8 DEF OpenTmp, memoryVars, Committing
  <2> QED
    BY <1>1, <2>2, <2>3, <2>4, <2>5, <2>6 DEF Writing
<1>9. CASE WriteTmp("maintenance")
  <2>1. /\ Committing.pc = "write" /\ Committing.ino = binding["tmp"] /\ Committing.ino # None
        /\ Committing.ino # binding["path"]
    BY <1>1, <1>9 DEF WriteTmp, Writing, Committing
  <2>2. UNCHANGED <<mode, latest, commited, binding>>
    BY <1>9 DEF WriteTmp, memoryVars
  <2>3. content' = [content EXCEPT ![Committing.ino] = Committing.v]
    BY <1>9 DEF WriteTmp, Committing
  <2>4. UNCHANGED FilePosition
    BY <1>2, <2>1, <2>2, <2>3 DEF FilePosition
  <2>5. Committing'.pc = "rename" /\ Committing'.v = Committing.v
    BY <1>2, <1>9 DEF WriteTmp, Committing, Rows
  <2>6. binding["tmp"] # None /\ content'[binding["tmp"]] = Committing.v
    BY <1>2, <2>1, <2>3
  <2> QED
    BY <1>1, <2>1, <2>2, <2>4, <2>5, <2>6 DEF Writing
<1>10. CASE RenameTmp("maintenance")
  <2>1. /\ Committing.pc = "rename" /\ binding["tmp"] # None
        /\ content[binding["tmp"]] = Committing.v
        /\ FilePosition <= Committing.v /\ Committing.v <= latest
    BY <1>1, <1>10 DEF RenameTmp, Writing, Committing
  <2>2. UNCHANGED <<mode, latest, commited, content>>
    BY <1>10 DEF RenameTmp, memoryVars
  <2>3. binding'["path"] = binding["tmp"] /\ binding'["tmp"] = None
    BY <1>10 DEF RenameTmp
  <2>4. FilePosition' = Committing.v
    BY <2>1, <2>2, <2>3 DEF FilePosition
  <2>5. Committing'.pc = "store" /\ Committing'.v = Committing.v /\ Committing.v \in 0..MaxTime
    BY <1>2, <1>10 DEF RenameTmp, Committing, Rows
  <2>6. Writing'
    BY <1>1, <2>1, <2>2, <2>3, <2>4, <2>5 DEF Writing
  <2>7. Durable!Persist \/ UNCHANGED <<latest, FilePosition>>
    BY <1>1, <2>1, <2>2, <2>4, <2>5 DEF Durable!Persist
  <2> QED
    BY <2>6, <2>7
<1>11. CASE StoreCommited("maintenance")
  <2>1. UNCHANGED <<mode, latest, binding, content>> /\ Committing' = At("idle")
        /\ commited' = Committing.v
        /\ Committing.pc = "store"
    BY <1>2, <1>3, <1>11 DEF StoreCommited, fileVars, Committing
  <2>2. Committing'.pc = "idle"
    BY <2>1 DEF At
  <2> QED
    BY <1>1, <1>4, <2>1, <2>2 DEF Writing
<1> QED
  BY <1>5, <1>6, <1>7, <1>8, <1>9, <1>10, <1>11 DEF CommitStep

\* So does every other step.
LEMMA OtherDurable ==
    ASSUME OneCommitter, DurableInv,
           \/ Load \/ \E t \in 1..MaxTime : Advance(t)
           \/ LoopReturns \/ Stop \/ Exit \/ Crash \/ Start
    PROVE  Writing' /\ (Durable!Next \/ UNCHANGED <<latest, FilePosition>>)
<1> USE CursorAssumption DEF OneCommitter
<1>1. AheadInv /\ Writing /\ latest \in 0..MaxTime /\ FilePosition \in 0..MaxTime
      /\ FilePosition <= peak /\ peak \in 0..MaxTime /\ commited \in 0..MaxTime
  BY FileType DEF DurableInv, AheadInv, TypeOK
<1>2. UNCHANGED <<binding, content>> => UNCHANGED FilePosition
  BY DEF FilePosition
<1>3. CASE Load
  <2>1. latest = 0 /\ latest' = FilePosition /\ commited' = FilePosition /\ Committing.pc = "idle"
    BY <1>3 DEF Load, Committing
  <2>2. UNCHANGED <<mode, committer, binding, content>>
    BY <1>3 DEF Load, fileVars
  <2> QED
    BY <1>1, <1>2, <2>1, <2>2 DEF Writing, Committing, Durable!Next, Durable!Resume
<1>4. ASSUME NEW t \in 1..MaxTime, Advance(t)
      PROVE  Writing' /\ (Durable!Next \/ UNCHANGED <<latest, FilePosition>>)
  <2>1. latest' = t /\ t > latest /\ (latest = 0 => t >= peak)
        /\ UNCHANGED <<mode, commited, committer, binding, content>>
    BY <1>4 DEF Advance, fileVars
  <2>2. FilePosition <= t
    BY <1>1, <2>1 DEF Writing
  <2>3. Committing.v \in 0..MaxTime
    BY <1>1 DEF AheadInv, TypeOK, Committing
  <2>4. Writing'
    BY <1>1, <1>2, <2>1, <2>2, <2>3 DEF Writing, Committing
  <2>5. Durable!Consume
    BY <1>1, <1>2, <2>1 DEF Durable!Consume
  <2> QED
    BY <2>4, <2>5 DEF Durable!Next
<1>5. CASE LoopReturns \/ Stop \/ Exit
  BY <1>1, <1>5 DEF LoopReturns, Stop, Exit, Writing
<1>6. CASE Crash
  <2>1. /\ mode' = "gone" /\ latest' = 0 /\ commited' = 0 /\ Committing' = At("idle")
        /\ UNCHANGED <<binding, content>>
    BY <1>6 DEF Crash, Vanish, fileVars, Committing
  <2>2. Committing'.pc = "idle"
    BY <2>1 DEF At
  <2> QED
    BY <1>1, <1>2, <2>1, <2>2 DEF Writing, Durable!Next, Durable!Lose
<1>7. CASE Start
  <2>1. mode' = "running" /\ UNCHANGED <<latest, commited, committer, binding, content>>
    BY <1>7 DEF Start, memoryVars, fileVars
  <2> QED
    BY <1>1, <1>2, <2>1 DEF Writing, Committing
<1> QED
  BY <1>3, <1>4, <1>5, <1>6, <1>7

\* Every step keeps the invariant and is a step of the abstract file.
LEMMA DurableStep ==
    ASSUME OneCommitter, DurableInv, [Next]_vars
    PROVE  DurableInv' /\ [Durable!Next]_(Durable!vars)
<1>1. AheadInv'
  BY AheadStep DEF DurableInv
<1>2. CASE UNCHANGED vars
  BY <1>1, <1>2 DEF vars, DurableInv, Writing, Committing, FilePosition, Durable!vars
<1>3. CASE Next
  <2>1. Writing' /\ (Durable!Next \/ UNCHANGED <<latest, FilePosition>>)
    BY <1>3, CommitDurable, OtherDurable DEF Next, OneCommitter, Durable!Next
  <2> QED
    BY <1>1, <2>1 DEF DurableInv, Durable!vars
<1> QED
  BY <1>2, <1>3

\* CommitedIsDurable, when the maintenance loop is the only committer.
THEOREM CursorCommited == OneCommitter => (Spec => []CommitedIsDurable)
<1> SUFFICES ASSUME OneCommitter PROVE Spec => []CommitedIsDurable
  OBVIOUS
<1>1. Init => DurableInv
  BY DurableInit
<1>2. DurableInv /\ [Next]_vars => DurableInv'
  BY DurableStep
<1>3. DurableInv => CommitedIsDurable
  BY DEF DurableInv, Writing, CommitedIsDurable
<1> QED
  BY <1>1, <1>2, <1>3, PTL DEF Spec

\* DurableSpec, when the maintenance loop is the only committer: the file is
\* readable, never ahead and never moves back, wherever the process dies.
THEOREM CursorDurable == OneCommitter => (Spec => DurableSpec)
<1> SUFFICES ASSUME OneCommitter PROVE Spec => DurableSpec
  OBVIOUS
<1>1. Init => DurableInv /\ Durable!Init
  BY DurableInit
<1>2. DurableInv /\ [Next]_vars => DurableInv' /\ [Durable!Next]_(Durable!vars)
  BY DurableStep
<1> QED
  BY <1>1, <1>2, PTL DEF Spec, DurableSpec, Durable!Spec
=============================================================================
