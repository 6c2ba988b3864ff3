------------------------ MODULE LineageJournalProofs ------------------------
(***************************************************************************)
(* Proofs about LineageJournal, for any executions, threads and bounds.    *)
(***************************************************************************)
EXTENDS LineageJournal, SequenceTheorems, WellFoundedInduction, TLAPS

USE DEF LineageJournalAssumption
USE LineageJournalAssumption

----------------------------------------------------------------------------
(* A process that starts on a damaged journal. *)

Places == {"idle", "ensure", "install", "write", "unwind", "replay"}

\* Whoever reads such a journal finds it damaged, and concludes so.
ClosedInv ==
    /\ pc \in [Threads -> Places]
    /\ \E S : snap \in [Threads -> S]
    /\ bornDamaged =>
           /\ Damaged
           /\ lstate # "HEALTHY"
           /\ \A t \in Threads : pc[t] \in {"install", "replay"} => snap[t].damaged

\* A thread that goes where it has nothing read keeps the others as they are.
LEMMA ClosedMove ==
    ASSUME ClosedInv, NEW t \in Threads, NEW to \in Places,
           pc' = [pc EXCEPT ![t] = to],
           bornDamaged' = bornDamaged,
           bornDamaged => Damaged' /\ lstate' # "HEALTHY",
           \/ to \notin {"install", "replay"} /\ snap' = snap
           \/ to \notin {"install", "replay"} /\ snap' = [snap EXCEPT ![t] = NoSnap]
           \/ snap' = [snap EXCEPT ![t] = ReadFile]
    PROVE  ClosedInv'
  <1>1. PICK S : snap \in [Threads -> S]
    BY DEF ClosedInv
  <1>2. snap' \in [Threads -> S \cup {NoSnap, ReadFile}]
    BY <1>1
  <1>3. ASSUME bornDamaged, NEW u \in Threads, pc'[u] \in {"install", "replay"}
        PROVE  snap'[u].damaged
    <2>1. Damaged = TRUE /\ ReadFile.damaged
      BY <1>3 DEF ClosedInv, ReadFile
    <2>2. CASE u = t
      BY <1>1, <1>3, <2>1, <2>2 DEF ClosedInv
    <2>3. CASE u # t
      BY <1>1, <1>3, <2>3 DEF ClosedInv
    <2>. QED  BY <2>2, <2>3
  <1>. QED  BY <1>2, <1>3 DEF ClosedInv

LEMMA ClosedRaise ==
    ASSUME ClosedInv, NEW t \in Threads, Raise(t), bornDamaged' = bornDamaged,
           bornDamaged => Damaged' /\ lstate' # "HEALTHY"
    PROVE  ClosedInv'
  <1>1. CASE Building(t)
    BY <1>1, ClosedMove DEF Raise, Places
  <1>2. CASE ~Building(t)
    BY <1>2, ClosedMove DEF Raise, Places
  <1>. QED  BY <1>1, <1>2

\* A new process has read nothing.
LEMMA ClosedRestart ==
    ASSUME Restart
    PROVE  ClosedInv'
  <1>1. snap' \in [Threads -> {NoSnap}]
    BY DEF Restart
  <1>2. pc' \in [Threads -> Places] /\ \A t \in Threads : pc'[t] = "idle"
    BY DEF Restart, Places
  <1>. QED  BY <1>1, <1>2 DEF Restart, ClosedInv

LEMMA ClosedInvStep == ClosedInv /\ [Next]_vars => ClosedInv'
  <1> SUFFICES ASSUME ClosedInv, [Next]_vars
               PROVE  ClosedInv'
    OBVIOUS
  <1>0. lines' = lines => Damaged' = Damaged
    BY DEF Damaged, Junk
  <1>1. ASSUME NEW t \in Threads, EnsureIndex(t)
        PROVE  ClosedInv'
    <2>1. UNCHANGED <<lines, lstate, bornDamaged>>
      BY <1>1 DEF EnsureIndex, fileVars, indexVars, boundVars
    <2>2. bornDamaged => Damaged' /\ lstate' # "HEALTHY"
      BY <1>0, <2>1 DEF ClosedInv
    <2>3. CASE Raise(t)
      BY <2>1, <2>2, <2>3, ClosedRaise
    <2>. QED  BY <1>1, <2>1, <2>2, <2>3, ClosedMove DEF EnsureIndex, Places
  <1>2. ASSUME NEW t \in Threads, InstallIndex(t)
        PROVE  ClosedInv'
    <2>1. UNCHANGED <<lines, bornDamaged>>
      BY <1>2 DEF InstallIndex, fileVars
    <2>2. bornDamaged => snap[t].damaged
      BY <1>2 DEF InstallIndex, ClosedInv
    <2>3. bornDamaged => Damaged' /\ lstate' # "HEALTHY"
      BY <1>0, <1>2, <2>1, <2>2 DEF ClosedInv, InstallIndex
    <2>4. CASE Raise(t)
      BY <2>1, <2>3, <2>4, ClosedRaise
    <2>. QED  BY <1>2, <2>1, <2>3, <2>4, ClosedMove DEF InstallIndex, Places
  <1>3. ASSUME NEW t \in Threads, AppendEvent(t)
        PROVE  ClosedInv'
    <2>1. bornDamaged' = bornDamaged /\ lstate' = lstate
      BY <1>3 DEF AppendEvent, indexVars
    <2>2. bornDamaged => UNCHANGED lines
      BY <1>3 DEF AppendEvent, ClosedInv, fileVars
    <2>3. bornDamaged => Damaged' /\ lstate' # "HEALTHY"
      BY <1>0, <2>1, <2>2 DEF ClosedInv
    <2>4. CASE Raise(t)
      BY <2>1, <2>3, <2>4, ClosedRaise
    <2>5. CASE Acknowledge(t)
      <3>1. CASE target[t] = "CREATED"
        BY <2>1, <2>3, <2>5, <3>1, ClosedMove DEF Acknowledge, Places
      <3>2. CASE target[t] # "CREATED"
        BY <2>1, <2>3, <2>5, <3>2, ClosedMove DEF Acknowledge, Places
      <3>. QED  BY <3>1, <3>2
    <2>. QED  BY <1>3, <2>4, <2>5 DEF AppendEvent
  <1>4. ASSUME NEW t \in Threads,
               \/ Return(t) \/ BeginReplay(t)
               \/ \E e \in Executions : BuildContract(t, e)
               \/ \E s \in States : Advance(t, s)
        PROVE  ClosedInv'
    <2>1. UNCHANGED <<lines, lstate, bornDamaged>>
      BY <1>4 DEF Return, BeginReplay, BuildContract, Advance, fileVars, indexVars, boundVars
    <2>2. bornDamaged => Damaged' /\ lstate' # "HEALTHY"
      BY <1>0, <2>1 DEF ClosedInv
    <2>. QED  BY <1>4, <2>1, <2>2, ClosedMove
              DEF Return, BeginReplay, BuildContract, Advance, Places
  <1>5. ASSUME NEW t \in Threads, EndReplay(t)
        PROVE  ClosedInv'
    <2>1. UNCHANGED <<lines, bornDamaged>>
      BY <1>5 DEF EndReplay, fileVars, boundVars
    <2>2. bornDamaged => snap[t].damaged
      BY <1>5 DEF EndReplay, ClosedInv
    <2>3. bornDamaged => Damaged' /\ lstate' # "HEALTHY"
      BY <1>0, <1>5, <2>1, <2>2 DEF ClosedInv, EndReplay
    <2>. QED  BY <1>5, <2>1, <2>3, ClosedMove DEF EndReplay, Places
  <1>6. ASSUME Crash \/ Repair \/ \E t \in Threads : CrashInWrite(t)
        PROVE  ClosedInv'
    BY <1>6, ClosedRestart DEF Crash, Repair, CrashInWrite
  <1>7. CASE UNCHANGED vars
    BY <1>0, <1>7 DEF ClosedInv, vars
  <1>. QED  BY <1>1, <1>2, <1>3, <1>4, <1>5, <1>6, <1>7 DEF Next

\* A process that starts on a damaged journal stays closed, for every
\* interleaving of the readers that conclude its state.
THEOREM DamagedStaysClosed == Spec => []DamagedJournalStaysClosed
  <1>1. Init => ClosedInv
    <2> SUFFICES ASSUME Init PROVE ClosedInv
      OBVIOUS
    <2>1. snap \in [Threads -> {NoSnap}]
      BY DEF Init
    <2>. QED  BY <2>1 DEF Init, ClosedInv, Places
  <1>2. ClosedInv => DamagedJournalStaysClosed
    BY DEF ClosedInv, DamagedJournalStaysClosed
  <1>. QED  BY <1>1, <1>2, ClosedInvStep, PTL DEF Spec

----------------------------------------------------------------------------
(* Types. *)

Lines == [id : Nat, prev : Nat, exec : Executions \cup {NoExecution}, state : States]
Indexes == [Executions -> Nat]
Held == [exec : Executions, history : Seq(States)]
Contracts == {NoContract} \cup Held
Snaps == [damaged : BOOLEAN, index : Indexes]

\* Where a thread appends or unwinds it has a contract.
AtWork == {"ensure", "install", "write", "unwind"}

FileOK == lines \in Seq(Lines) /\ open \in BOOLEAN /\ (open => lines # <<>>)

ThreadsOK ==
    /\ pc \in [Threads -> Places]
    /\ contract \in [Threads -> Contracts]
    /\ target \in [Threads -> States]
    /\ snap \in [Threads -> Snaps]
    /\ \A t \in Threads : pc[t] \in AtWork => contract[t].exec \in Executions

ModuleOK ==
    /\ lstate \in {"UNINITIALIZED", "HEALTHY", "WRITE_BLOCKED"}
    /\ loaded \in BOOLEAN
    /\ index \in Indexes

HistoryOK ==
    /\ issued \in SUBSET Executions
    /\ nextId \in Nat
    /\ safelyAcked \in SUBSET Nat
    /\ staleIndex \in BOOLEAN

TypeOK == FileOK /\ ThreadsOK /\ ModuleOK /\ HistoryOK

LEMMA LastExists ==
    ASSUME NEW n \in Nat, NEW S \in SUBSET (1..n), S # {}
    PROVE  \E i \in S : IsLast(i, S)
  <1> DEFINE T == {m \in Nat : \A k \in S : k <= m}
             R == OpToRel(<, Nat)
  <1>1. T \subseteq Nat /\ n \in T
    OBVIOUS
  <1>2. IsWellFoundedOn(R, Nat)
    BY NatLessThanWellFounded, Zenon
  <1>3. PICK m \in T : \A y \in T : <<y, m>> \notin R
    <2> HIDE DEF T, R
    <2>. QED  BY <1>1, <1>2, WFMin
  <1>4. \A y \in T : ~(y < m)
    BY <1>1, <1>3 DEF OpToRel
  <1>5. m \in S
    <2> SUFFICES ASSUME m \notin S PROVE FALSE
      OBVIOUS
    <2>1. PICK k \in S : TRUE
      OBVIOUS
    <2>2. m - 1 \in Nat /\ \A j \in S : j <= m - 1
      BY <2>1
    <2>. QED  BY <1>4, <2>2
  <1>. QED  BY <1>5 DEF IsLast

\* The last event of an execution that has one
LEMMA LastEventIs ==
    ASSUME TypeOK, NEW e \in Executions, EventsOf(e) # {}
    PROVE  \E i \in EventsOf(e) :
               /\ IsLast(i, EventsOf(e))
               /\ LastEvent(e) = lines[i]
               /\ i \in 1..Len(lines) /\ lines[i] \in Lines
  <1>1. EventsOf(e) \in SUBSET (1..Len(lines)) /\ Len(lines) \in Nat
    BY DEF EventsOf, Readable, TypeOK, FileOK, ThreadsOK, ModuleOK, HistoryOK
  <1>2. \E i \in EventsOf(e) : IsLast(i, EventsOf(e))
    BY <1>1, LastExists
  <1>3. PICK i : i = CHOOSE k \in EventsOf(e) : IsLast(k, EventsOf(e))
    OBVIOUS
  <1>4. i \in EventsOf(e) /\ IsLast(i, EventsOf(e))
    BY <1>2, <1>3
  <1>5. LastEvent(e) = lines[i]
    BY <1>3 DEF LastEvent
  <1>6. lines[i] \in Lines
    BY <1>1, <1>4, ElementOfSeq DEF TypeOK, FileOK, ThreadsOK, ModuleOK, HistoryOK
  <1>. QED  BY <1>1, <1>4, <1>5, <1>6

LEMMA RebuiltIndexType == TypeOK => RebuiltIndex \in Indexes
  <1> SUFFICES ASSUME TypeOK, NEW e \in Executions, EventsOf(e) # {}
               PROVE  LastEvent(e).id \in Nat
    BY DEF RebuiltIndex, Indexes
  <1>. QED  BY LastEventIs DEF Lines

LEMMA ReadFileType == TypeOK => ReadFile \in Snaps /\ NoSnap \in Snaps
  BY RebuiltIndexType DEF ReadFile, NoSnap, Snaps, Indexes, Damaged

LEMMA JunkType == Junk \in Lines
  BY DEF Junk, Lines, States

\* What writing leaves in the file
LEMMA FileType ==
    ASSUME lines \in Seq(Lines), open \in BOOLEAN, open => lines # <<>>, NEW r \in Lines,
           WriteLine(r) \/ WritePart \/ WriteAllButNewline(r)
    PROVE  lines' \in Seq(Lines) /\ open' \in BOOLEAN /\ (open' => lines' # <<>>)
  <1>1. ASSUME NEW s \in Seq(Lines), NEW x \in Lines
        PROVE  Append(s, x) \in Seq(Lines) /\ Append(s, x) # <<>>
    BY <1>1, AppendProperties
  <1>2. open => SubSeq(lines, 1, Len(lines) - 1) \in Seq(Lines)
    BY SubSeqProperties, LenProperties
  <1>. QED  BY <1>1, <1>2, JunkType DEF WriteLine, WritePart, WriteAllButNewline

LEMMA NewEventType ==
    ASSUME TypeOK, NEW t \in Threads, pc[t] = "write"
    PROVE  NewEvent(t) \in Lines
  <1>1. contract[t].exec \in Executions /\ target[t] \in States
    BY DEF TypeOK, FileOK, ThreadsOK, ModuleOK, HistoryOK, AtWork
  <1>2. index[contract[t].exec] \in Nat
    BY <1>1 DEF TypeOK, FileOK, ThreadsOK, ModuleOK, HistoryOK, Indexes
  <1>. QED  BY <1>1, <1>2 DEF NewEvent, Lines, TypeOK, FileOK, ThreadsOK, ModuleOK, HistoryOK

LEMMA ContractTypes ==
    /\ NoContract \in Contracts /\ NoContract.exec \notin Executions
    /\ \A e \in Executions : [exec |-> e, history |-> <<>>] \in Held
    /\ \A c \in Contracts : c = NoContract \/ c \in Held
    /\ \A c \in Held : c.exec \in Executions /\ c \in Contracts
    /\ \A c \in Held, s \in States :
           /\ [c EXCEPT !.history = Append(@, s)] \in Held
           /\ [c EXCEPT !.history = Append(@, s)].exec = c.exec
           /\ [c EXCEPT !.history = Append(@, s)].history = Append(c.history, s)
  <1>1. <<>> \in Seq(States)
    BY EmptySeq
  <1>2. \A h \in Seq(States), s \in States : Append(h, s) \in Seq(States)
    BY AppendProperties
  <1>3. ASSUME NEW c \in Held, NEW s \in States
        PROVE  /\ [c EXCEPT !.history = Append(@, s)] \in Held
               /\ [c EXCEPT !.history = Append(@, s)].exec = c.exec
               /\ [c EXCEPT !.history = Append(@, s)].history = Append(c.history, s)
    <2>1. c.history \in Seq(States) /\ c = [exec |-> c.exec, history |-> c.history]
          /\ c.exec \in Executions
      BY DEF Held
    <2>2. [c EXCEPT !.history = Append(@, s)]
            = [exec |-> c.exec, history |-> Append(c.history, s)]
      BY SMTT(20), <2>1
    <2>3. [exec |-> c.exec, history |-> Append(c.history, s)] \in Held
      BY <1>2, <2>1 DEF Held
    <2>. QED  BY <2>2, <2>3
  <1>4. NoContract.exec \notin Executions
    BY DEF NoContract
  <1>5. \A c \in Held : c.exec \in Executions /\ c \in Contracts
    BY DEF Held, Contracts
  <1>6. \A e \in Executions : [exec |-> e, history |-> <<>>] \in Held
    BY <1>1 DEF Held
  <1>7. NoContract \in Contracts /\ \A c \in Contracts : c = NoContract \/ c \in Held
    BY DEF Contracts
  <1>. QED  BY <1>3, <1>4, <1>5, <1>6, <1>7

LEMMA RaiseType ==
    ASSUME TypeOK, NEW t \in Threads, pc[t] \in AtWork, Raise(t)
    PROVE  ThreadsOK'
  <1>1. snap' \in [Threads -> Snaps] /\ target' \in [Threads -> States]
    BY ReadFileType DEF TypeOK, FileOK, ThreadsOK, ModuleOK, HistoryOK, Raise
  <1>2. CASE Building(t)
    BY <1>1, <1>2, ContractTypes DEF TypeOK, FileOK, ThreadsOK, ModuleOK, HistoryOK, Raise, Places, AtWork
  <1>3. CASE ~Building(t)
    <2>1. contract' = contract
      BY <1>3 DEF Raise, TypeOK, FileOK, ThreadsOK, ModuleOK, HistoryOK
    <2>. QED  BY <1>1, <1>3, <2>1 DEF TypeOK, FileOK, ThreadsOK, ModuleOK, HistoryOK, Raise, Places, AtWork
  <1>. QED  BY <1>2, <1>3

LEMMA AcknowledgeType ==
    ASSUME TypeOK, NEW t \in Threads, pc[t] = "write", Acknowledge(t)
    PROVE  ThreadsOK' /\ index' \in Indexes
  <1>1. contract[t] \in Held /\ target[t] \in States
        /\ contract[t].exec \in Executions
    BY ContractTypes DEF TypeOK, ThreadsOK, AtWork
  <1>2. PICK d \in Contracts : /\ d = [contract[t] EXCEPT !.history = Append(@, target[t])]
                              /\ d.exec = contract[t].exec
    BY <1>1, ContractTypes
  <1>3. contract' = [contract EXCEPT ![t] = d]
    BY <1>2 DEF Acknowledge
  <1>4. d.exec = contract[t].exec
    BY <1>2
  <1>5. target' \in [Threads -> States] /\ pc' \in [Threads -> Places]
        /\ \A u \in Threads \ {t} : pc'[u] = pc[u]
    BY DEF TypeOK, FileOK, ThreadsOK, ModuleOK, HistoryOK, Acknowledge, States, Places
  <1>6. index' \in Indexes
    BY <1>1 DEF TypeOK, FileOK, ThreadsOK, ModuleOK, HistoryOK, Acknowledge, UpdateIndex, Indexes
  <1>7. ASSUME NEW u \in Threads, pc'[u] \in AtWork
        PROVE  contract'[u].exec \in Executions
    <2>1. CASE u = t
      BY <1>1, <1>3, <1>4, <2>1 DEF TypeOK, FileOK, ThreadsOK, ModuleOK, HistoryOK
    <2>2. CASE u # t
      BY <1>3, <1>5, <1>7, <2>2 DEF TypeOK, FileOK, ThreadsOK, ModuleOK, HistoryOK
    <2>. QED  BY <2>1, <2>2
  <1>. QED  BY ZenonT(40), <1>3, <1>5, <1>6, <1>7 DEF TypeOK, FileOK, ThreadsOK, ModuleOK, HistoryOK, Acknowledge

LEMMA RestartType ==
    ASSUME TypeOK, Restart
    PROVE  /\ ThreadsOK' /\ index' \in Indexes /\ loaded' \in BOOLEAN
           /\ lstate' = "UNINITIALIZED" /\ staleIndex' = staleIndex
  BY ReadFileType, ContractTypes
     DEF TypeOK, ThreadsOK, ModuleOK, HistoryOK, Restart, Indexes, Places, AtWork

\* The steps that write
LEMMA AppendType ==
    ASSUME TypeOK, NEW t \in Threads, AppendEvent(t)
    PROVE  TypeOK'
  <1>0. pc[t] = "write" /\ pc[t] \in AtWork /\ UNCHANGED <<issued, staleIndex>>
    BY DEF AppendEvent, AtWork
  <1>1. \A r \in Lines : WriteLine(r) \/ WritePart \/ WriteAllButNewline(r) => FileOK'
    BY FileType DEF TypeOK, FileOK
  <1>2. NewEvent(t) \in Lines
    BY <1>0, NewEventType
  <1>3. FileOK'
    <2>1. CASE UNCHANGED fileVars
      BY <2>1 DEF fileVars, TypeOK, FileOK
    <2>2. CASE WriteLine(NewEvent(t)) \/ WritePart \/ WriteAllButNewline(NewEvent(t))
      BY <1>1, <1>2, <2>2
    <2>. QED  BY <2>1, <2>2 DEF AppendEvent
  <1>4. HistoryOK'
    <2>1. nextId' \in {nextId, nextId + 1} /\ safelyAcked' \in {safelyAcked, safelyAcked \cup {nextId}}
      BY DEF AppendEvent
    <2>. QED  BY <1>0, <2>1 DEF TypeOK, HistoryOK
  <1>5. CASE Raise(t) /\ UNCHANGED indexVars
    BY <1>0, <1>3, <1>4, <1>5, RaiseType DEF indexVars, TypeOK, ModuleOK
  <1>6. CASE Acknowledge(t) /\ UNCHANGED <<lstate, loaded>>
    BY <1>0, <1>3, <1>4, <1>6, AcknowledgeType DEF TypeOK, ModuleOK
  <1>. QED  BY <1>5, <1>6 DEF AppendEvent

LEMMA CrashInWriteType ==
    ASSUME TypeOK, NEW t \in Threads, CrashInWrite(t)
    PROVE  TypeOK'
  <1>1. NewEvent(t) \in Lines
    BY NewEventType DEF CrashInWrite
  <1>2. FileOK'
    <2>1. WriteLine(NewEvent(t)) \/ WritePart
      BY DEF CrashInWrite
    <2>. QED  BY <1>1, <2>1, FileType DEF TypeOK, FileOK
  <1>3. nextId' \in {nextId, nextId + 1} /\ UNCHANGED <<issued, safelyAcked>>
    BY DEF CrashInWrite
  <1>4. Restart
    BY DEF CrashInWrite
  <1>. QED  BY <1>2, <1>3, <1>4, RestartType DEF TypeOK, ModuleOK, HistoryOK

LEMMA RepairType ==
    ASSUME TypeOK, Repair
    PROVE  TypeOK'
  <1>1. PICK i \in 1..Len(lines) : lines' = SubSeq(lines, 1, i - 1)
    BY DEF Repair
  <1>2. lines' \in Seq(Lines)
    <2>1. \A k \in 1..(i - 1) : k \in 1..Len(lines)
      BY DEF TypeOK, FileOK
    <2>. QED  BY <1>1, <2>1, SubSeqProperties DEF TypeOK, FileOK
  <1>3. UNCHANGED <<issued, nextId, safelyAcked>> /\ Restart /\ open' = FALSE
    BY DEF Repair
  <1>. QED  BY <1>2, <1>3, RestartType DEF TypeOK, FileOK, ModuleOK, HistoryOK

LEMMA TypeOKStep == TypeOK /\ [Next]_vars => TypeOK'
  <1> SUFFICES ASSUME TypeOK, [Next]_vars
               PROVE  TypeOK'
    OBVIOUS
  <1> USE DEF TypeOK
  <1>1. ASSUME NEW t \in Threads, EnsureIndex(t)
        PROVE  TypeOK'
    <2>1. FileOK' /\ ModuleOK' /\ HistoryOK'
      BY <1>1 DEF EnsureIndex, fileVars, indexVars, boundVars, FileOK, ModuleOK, HistoryOK
    <2>2. CASE Raise(t)
      BY <1>1, <2>1, <2>2, RaiseType DEF EnsureIndex, AtWork
    <2>3. CASE ~Raise(t)
      BY <1>1, <2>1, <2>3, ReadFileType DEF EnsureIndex, ThreadsOK, Places, AtWork
    <2>. QED  BY <2>2, <2>3
  <1>2. ASSUME NEW t \in Threads, InstallIndex(t)
        PROVE  TypeOK'
    <2>1. FileOK' /\ HistoryOK'
      BY <1>2 DEF InstallIndex, fileVars, FileOK, HistoryOK
    <2>2. ModuleOK'
      BY <1>2 DEF InstallIndex, ModuleOK, ThreadsOK, Snaps
    <2>3. CASE snap[t].damaged
      BY <1>2, <2>1, <2>2, <2>3, RaiseType DEF InstallIndex, AtWork
    <2>4. CASE ~snap[t].damaged
      BY <1>2, <2>1, <2>2, <2>4, ReadFileType DEF InstallIndex, ThreadsOK, Places, AtWork
    <2>. QED  BY <2>3, <2>4
  <1>3. ASSUME NEW t \in Threads, NEW e \in Executions, BuildContract(t, e)
        PROVE  TypeOK'
    <2>0. [exec |-> e, history |-> <<>>] \in Contracts
      BY ContractTypes
    <2>1. PICK d \in Contracts : d = [exec |-> e, history |-> <<>>] /\ d.exec = e
      BY <2>0
    <2>2. contract' = [contract EXCEPT ![t] = d] /\ d.exec = e
      BY <1>3, <2>1 DEF BuildContract
    <2>3. ThreadsOK'
      BY <1>3, <2>2 DEF BuildContract, ThreadsOK, Places, AtWork, States
    <2>. QED  BY <1>3, <2>3 DEF BuildContract, fileVars, indexVars, boundVars,
                               FileOK, ModuleOK, HistoryOK
  <1>4. ASSUME NEW t \in Threads, NEW s \in States, Advance(t, s)
        PROVE  TypeOK'
    <2>1. contract[t].exec \in Executions
      BY <1>4, ContractTypes DEF Advance, ThreadsOK
    <2>2. ThreadsOK'
      BY <1>4, <2>1 DEF Advance, ThreadsOK, Places, AtWork
    <2>. QED  BY <1>4, <2>2 DEF Advance, fileVars, indexVars, boundVars,
                               FileOK, ModuleOK, HistoryOK
  <1>5. ASSUME NEW t \in Threads, Return(t) \/ BeginReplay(t)
        PROVE  TypeOK'
    <2>1. CASE Return(t)
      <3>1. ThreadsOK'
        BY <2>1, ContractTypes DEF Return, ThreadsOK, Places, AtWork
      <3>. QED  BY <2>1, <3>1 DEF Return, fileVars, indexVars, boundVars,
                                  FileOK, ModuleOK, HistoryOK
    <2>2. CASE BeginReplay(t)
      <3>1. ThreadsOK'
        BY <2>2, ReadFileType DEF BeginReplay, ThreadsOK, Places, AtWork
      <3>. QED  BY <2>2, <3>1 DEF BeginReplay, fileVars, indexVars, boundVars,
                                  FileOK, ModuleOK, HistoryOK
    <2>. QED  BY <1>5, <2>1, <2>2
  <1>6. ASSUME NEW t \in Threads, EndReplay(t)
        PROVE  TypeOK'
    <2>1. ThreadsOK'
      BY <1>6, ReadFileType DEF EndReplay, ThreadsOK, Places, AtWork
    <2>. QED  BY <1>6, <2>1 DEF EndReplay, fileVars, boundVars, FileOK, ModuleOK, HistoryOK
  <1>7. CASE Crash
    BY <1>7, RestartType DEF Crash, fileVars, FileOK, ModuleOK, HistoryOK
  <1>8. CASE UNCHANGED vars
    BY <1>8 DEF vars, FileOK, ThreadsOK, ModuleOK, HistoryOK
  <1>. QED  BY <1>1, <1>2, <1>3, <1>4, <1>5, <1>6, <1>7, <1>8, AppendType,
               CrashInWriteType, RepairType DEF Next

\* Every variable keeps its type, and a thread that appends has a contract.
THEOREM TypeCorrect == Spec => []TypeOK
  <1>1. Init => TypeOK
    <2> SUFFICES ASSUME Init PROVE TypeOK
      OBVIOUS
    <2>1. FileOK
      BY EmptySeq DEF Init, FileOK
    <2>2. NoSnap \in Snaps
      BY DEF Snaps, NoSnap, Indexes
    <2>3. ThreadsOK
      BY <2>2, ContractTypes DEF Init, ThreadsOK, Places, AtWork, States
    <2>4. ModuleOK /\ HistoryOK
      BY DEF Init, ModuleOK, HistoryOK, Indexes
    <2>. QED  BY <2>1, <2>3, <2>4 DEF TypeOK
  <1>. QED  BY <1>1, TypeOKStep, PTL DEF Spec

----------------------------------------------------------------------------
(* What is in the file stays readable. *)

\* A write only touches the unfinished line at the end, if there is one.
LEMMA WriteKeepsLines ==
    ASSUME TypeOK, NEW r \in Lines, WriteLine(r) \/ WritePart \/ WriteAllButNewline(r)
    PROVE  /\ Len(lines') = IF open THEN Len(lines) ELSE Len(lines) + 1
           /\ \A i \in 1..Len(lines) : (open => i < Len(lines)) => lines'[i] = lines[i]
           /\ open => Len(lines) > 0 /\ lines'[Len(lines)] = Junk
           /\ ~open => lines'[Len(lines) + 1] = IF WritePart THEN Junk ELSE r
           /\ open' => lines'[Len(lines')] = Junk \/ (~open /\ ~WriteLine(r))
  <1> USE DEF TypeOK, FileOK
  <1>1. CASE open
    <2> DEFINE s == SubSeq(lines, 1, Len(lines) - 1)
    <2>1. Len(lines) \in Nat /\ Len(lines) > 0
      BY <1>1, EmptySeq, LenProperties
    <2>2. PICK n \in Nat : n = Len(lines) - 1
      BY <2>1
    <2>3a. /\ s \in Seq(Lines) /\ Len(s) = n
          /\ \A i \in 1..n : s[i] = lines[i]
      <3>1. s = SubSeq(lines, 1, n)
        BY <2>2
      <3>2. \A i \in 1..n : lines[i] \in Lines
        BY <2>1, <2>2, ElementOfSeq
      <3> HIDE DEF s
      <3>3. /\ s \in Seq(Lines)
            /\ Len(s) = IF 1 <= n THEN n - 1 + 1 ELSE 0
            /\ \A i \in 1..(n - 1 + 1) : s[i] = lines[1 + i - 1]
        BY <3>1, <3>2, SubSeqProperties
      <3>4. n - 1 + 1 = n /\ (\A i \in 1..n : 1 + i - 1 = i)
        OBVIOUS
      <3>. QED  BY <3>3, <3>4
    <2>3. lines' = Append(s, Junk)
      BY <1>1 DEF WriteLine, WritePart, WriteAllButNewline
    <2>4. /\ Len(lines') = Len(lines)
          /\ \A i \in 1..(Len(lines) - 1) : lines'[i] = lines[i]
          /\ lines'[Len(lines)] = Junk
      <3> HIDE DEF s
      <3>. QED  BY <2>1, <2>2, <2>3a, <2>3, JunkType, AppendProperties
    <2>. QED  BY <1>1, <2>1, <2>4
  <1>2. CASE ~open
    <2>1. PICK x \in Lines : /\ lines' = Append(lines, x)
                             /\ x = IF WritePart THEN Junk ELSE r
                             /\ open' => x = Junk \/ ~WriteLine(r)
      <3>1. CASE WritePart
        BY <1>2, <3>1, JunkType DEF WritePart
      <3>2. CASE ~WritePart
        BY <1>2, <3>2 DEF WriteLine, WriteAllButNewline
      <3>. QED  BY <3>1, <3>2
    <2>2. /\ Len(lines') = Len(lines) + 1 /\ lines'[Len(lines) + 1] = x
          /\ \A i \in 1..Len(lines) : lines'[i] = lines[i]
      BY <2>1, AppendProperties
    <2>3. Len(lines) \in Nat
      BY LenProperties
    <2>. QED  BY <1>2, <2>1, <2>2, <2>3
  <1>. QED  BY <1>1, <1>2

Whole == {i \in Readable : open => i < Len(lines)}

LEMMA WriteKeepsWhole ==
    ASSUME TypeOK, NEW r \in Lines, WriteLine(r) \/ WritePart \/ WriteAllButNewline(r),
           NEW i \in Whole
    PROVE  i \in Whole' /\ lines'[i] = lines[i]
  <1>1. /\ i \in 1..Len(lines) /\ (open => i < Len(lines))
        /\ \A k \in 1..i : lines[k] # Junk
    BY DEF Whole, Readable
  <1>2. Len(lines) \in Nat
    BY LenProperties DEF TypeOK, FileOK
  <1>3. \A k \in 1..i : lines'[k] = lines[k]
    BY <1>1, <1>2, WriteKeepsLines
  <1>4. Len(lines') \in Nat /\ i \in 1..Len(lines') /\ (open' => i < Len(lines'))
    <2>1. CASE open
      BY <1>1, <1>2, <2>1, WriteKeepsLines
    <2>2. CASE ~open
      BY <1>1, <1>2, <2>2, WriteKeepsLines
    <2>. QED  BY <2>1, <2>2
  <1>5. i \in Readable'
    BY <1>1, <1>3, <1>4 DEF Readable, Junk
  <1>. QED  BY <1>1, <1>2, <1>3, <1>4, <1>5 DEF Whole

\* The operator keeps the readable lines, all of them and nothing else.
LEMMA RepairKeepsReadable ==
    ASSUME TypeOK, Repair
    PROVE  /\ Readable' = Readable /\ ~Damaged' /\ ~open'
           /\ \A i \in Readable : lines'[i] = lines[i]
           /\ Readable = 1..Len(lines')
  <1>1. PICK n \in 1..Len(lines) : /\ lines[n] = Junk /\ n - 1 \in Readable \cup {0}
                                   /\ lines' = SubSeq(lines, 1, n - 1)
    BY DEF Repair
  <1>2. Len(lines) \in Nat
    BY LenProperties DEF TypeOK, FileOK
  <1>3. \A k \in 1..(n - 1) : lines[k] # Junk
    BY <1>1 DEF Readable
  <1>4. Readable = 1..(n - 1)
    BY <1>1, <1>2, <1>3 DEF Readable
  <1>5. Len(lines') = n - 1 /\ \A i \in 1..(n - 1) : lines'[i] = lines[i]
    <2>1. \A i \in 1..(n - 1) : lines[i] \in Lines
      BY <1>1, <1>2, ElementOfSeq DEF TypeOK, FileOK
    <2>2. /\ Len(lines') = IF 1 <= n - 1 THEN (n - 1) - 1 + 1 ELSE 0
          /\ \A i \in 1..((n - 1) - 1 + 1) : lines'[i] = lines[1 + i - 1]
      BY <1>1, <2>1, SubSeqProperties
    <2>. QED  BY <1>1, <1>2, <2>2
  <1>6. \A k \in 1..(n - 1) : lines'[k] # Junk
    BY <1>3, <1>5
  <1>7. Readable' = 1..(n - 1) /\ ~Damaged'
    <2>1. Len(lines') = n - 1 /\ n - 1 \in Nat /\ Junk' = Junk
      BY <1>1, <1>2, <1>5 DEF Junk
    <2>. QED  BY <1>6, <2>1 DEF Readable, Damaged
  <1>. QED  BY <1>4, <1>5, <1>7 DEF Repair

\* An acknowledged event is readable, and no write can reach its line.
AckedInv == \A id \in safelyAcked : \E i \in Whole : lines[i].id = id

LEMMA AckedInvStep == TypeOK /\ AckedInv /\ [Next]_vars => AckedInv'
  <1> SUFFICES ASSUME TypeOK, AckedInv, [Next]_vars
               PROVE  AckedInv'
    OBVIOUS
  <1>1. ASSUME UNCHANGED <<lines, open, safelyAcked>>
        PROVE  AckedInv'
    <2>1. Whole' = Whole
      BY <1>1 DEF Whole, Readable, Junk
    <2>. QED  BY <1>1, <2>1 DEF AckedInv
  <1>2. ASSUME NEW t \in Threads, AppendEvent(t)
        PROVE  AckedInv'
    <2>0. NewEvent(t) \in Lines
      BY <1>2, NewEventType DEF AppendEvent
    <2>1. CASE UNCHANGED <<fileVars, safelyAcked>>
      BY <1>1, <2>1 DEF fileVars
    <2>2. CASE /\ WriteLine(NewEvent(t)) \/ WritePart \/ WriteAllButNewline(NewEvent(t))
               /\ UNCHANGED safelyAcked
      BY <2>0, <2>2, WriteKeepsWhole DEF AckedInv
    <2>3. CASE /\ WriteLine(NewEvent(t))
               /\ safelyAcked' = IF Damaged' THEN safelyAcked ELSE safelyAcked \cup {nextId}
      <3>1. ASSUME ~Damaged'
            PROVE  \E i \in Whole' : lines'[i].id = nextId
        <4>1. Len(lines) \in Nat /\ NewEvent(t).id = nextId
          BY LenProperties DEF TypeOK, FileOK, NewEvent
        <4>2. ~open
          BY <3>1, <2>0, <2>3, <4>1, WriteKeepsLines DEF Damaged, Junk
        <4>3. ~WritePart
          BY <2>3 DEF WriteLine, WritePart
        <4>4. Len(lines') = Len(lines) + 1 /\ lines'[Len(lines) + 1] = NewEvent(t)
          BY <2>0, <2>3, <4>2, <4>3, WriteKeepsLines
        <4>5. Len(lines) + 1 \in Readable' /\ ~open'
          BY <2>3, <3>1, <4>1, <4>4 DEF Readable, Damaged, Junk, WriteLine
        <4>. QED  BY <4>1, <4>4, <4>5 DEF Whole
      <3>. QED  BY <2>0, <2>3, <3>1, WriteKeepsWhole DEF AckedInv
    <2>. QED  BY <1>2, <2>1, <2>2, <2>3 DEF AppendEvent
  <1>3. ASSUME NEW t \in Threads, CrashInWrite(t)
        PROVE  AckedInv'
    <2>1. NewEvent(t) \in Lines
      BY <1>3, NewEventType DEF CrashInWrite
    <2>2. (WriteLine(NewEvent(t)) \/ WritePart) /\ UNCHANGED safelyAcked
      BY <1>3 DEF CrashInWrite
    <2>. QED  BY <2>1, <2>2, WriteKeepsWhole DEF AckedInv
  <1>4. CASE Repair
    <2>1. Whole \subseteq Whole'
      BY <1>4, RepairKeepsReadable DEF Whole
    <2>2. UNCHANGED safelyAcked /\ \A i \in Whole : lines'[i] = lines[i]
      BY <1>4, RepairKeepsReadable DEF Repair, Whole
    <2>. QED  BY <2>1, <2>2 DEF AckedInv
  <1>5. CASE Crash
    BY <1>1, <1>5 DEF Crash, fileVars
  <1>6. ASSUME NEW t \in Threads,
               \/ EnsureIndex(t) \/ InstallIndex(t) \/ Return(t) \/ BeginReplay(t)
               \/ EndReplay(t) \/ \E e \in Executions : BuildContract(t, e)
               \/ \E s \in States : Advance(t, s)
        PROVE  AckedInv'
    BY <1>1, <1>6 DEF EnsureIndex, InstallIndex, Return, BeginReplay, EndReplay,
                      BuildContract, Advance, fileVars
  <1>7. CASE UNCHANGED vars
    BY <1>1, <1>7 DEF vars
  <1>. QED  BY <1>2, <1>3, <1>4, <1>5, <1>6, <1>7 DEF Next

\* No torn write, no line glued to one, no crash and no repair takes an event
\* away that was acknowledged while the journal was readable.
THEOREM AcknowledgedSurvive == Spec => []AcknowledgedEventsSurvive
  <1>1. Init => AckedInv
    BY DEF Init, AckedInv
  <1>2. AckedInv => AcknowledgedEventsSurvive
    BY DEF AckedInv, AcknowledgedEventsSurvive, Whole
  <1>. QED  BY <1>1, <1>2, AckedInvStep, TypeCorrect, PTL DEF Spec

----------------------------------------------------------------------------
(* What the journal says of an execution. *)

\* What is readable decides it.
LEMMA SameReadable ==
    ASSUME TypeOK, Readable' = Readable, \A i \in Readable : lines'[i] = lines[i]
    PROVE  /\ \A e \in Executions : EventsOf(e)' = EventsOf(e)
           /\ Recorded' = Recorded /\ RebuiltIndex' = RebuiltIndex
           /\ EveryLineageReplays => EveryLineageReplays'
  <1>1. ASSUME NEW e \in Executions
        PROVE  EventsOf(e)' = EventsOf(e)
    BY DEF EventsOf
  <1>2. ASSUME NEW e \in Executions, EventsOf(e) # {}
        PROVE  LastEvent(e)' = LastEvent(e)
    <2>1. PICK k \in EventsOf(e) : IsLast(k, EventsOf(e))
      BY <1>2, LastEventIs
    <2>2. PICK i : i = CHOOSE j \in EventsOf(e) : IsLast(j, EventsOf(e))
      OBVIOUS
    <2>3. i \in EventsOf(e)
      BY <2>1, <2>2
    <2>4. LastEvent(e) = lines[i]
      BY <2>2 DEF LastEvent
    <2>5. LastEvent(e)' = lines'[i]
      BY <1>1, <2>2 DEF LastEvent, IsLast
    <2>. QED  BY <2>3, <2>4, <2>5 DEF EventsOf
  <1>3. Recorded' = Recorded /\ RebuiltIndex' = RebuiltIndex
    BY <1>1, <1>2 DEF Recorded, RebuiltIndex
  <1>4. ASSUME NEW e \in Executions, ReplayAccepts(e)
        PROVE  ReplayAccepts(e)'
    <2>1. EventsOf(e)' = EventsOf(e) /\ \A i \in EventsOf(e) : lines'[i] = lines[i]
      BY <1>1 DEF EventsOf
    <2>2. \A i \in EventsOf(e) : {k \in EventsOf(e) : k < i} \subseteq EventsOf(e)
      OBVIOUS
    <2>. QED  BY <1>4, <2>1, <2>2 DEF ReplayAccepts
  <1>. QED  BY <1>1, <1>3, <1>4 DEF EveryLineageReplays

\* A write on a damaged journal, or of part of a line, adds nothing readable.
LEMMA DamageHides ==
    ASSUME TypeOK, open => Damaged, NEW r \in Lines,
           WriteLine(r) \/ WritePart, Damaged \/ WritePart
    PROVE  Damaged' /\ Readable' = Readable /\ \A i \in Readable : lines'[i] = lines[i]
  <1>1. Len(lines) \in Nat
    BY LenProperties DEF TypeOK, FileOK
  <1>2. /\ Len(lines') = IF open THEN Len(lines) ELSE Len(lines) + 1
        /\ \A i \in 1..Len(lines) : (open => i < Len(lines)) => lines'[i] = lines[i]
        /\ open => Len(lines) > 0 /\ lines'[Len(lines)] = Junk
        /\ ~open => lines'[Len(lines) + 1] = IF WritePart THEN Junk ELSE r
    BY WriteKeepsLines
  <1>3. PICK j \in 1..(Len(lines) + 1) :
             /\ Damaged => j <= Len(lines) /\ lines[j] = Junk
             /\ ~Damaged => j = Len(lines) + 1
    BY <1>1 DEF Damaged
  <1>4. Readable \subseteq Whole
    BY <1>1, <1>3 DEF Whole, Readable
  <1>5. Readable \subseteq Readable' /\ \A i \in Readable : lines'[i] = lines[i]
    BY <1>4, WriteKeepsWhole DEF Whole
  <1>6. Damaged'
    <2>1. CASE open
      BY <1>1, <1>2, <2>1 DEF Damaged, Junk
    <2>2. CASE ~open /\ Damaged
      BY <1>1, <1>2, <1>3, <2>2 DEF Damaged, Junk
    <2>3. CASE ~open /\ ~Damaged
      BY <1>1, <1>2, <2>3 DEF Damaged, Junk
    <2>. QED  BY <2>1, <2>2, <2>3
  <1>7. ASSUME NEW i \in Readable'
        PROVE  i \in Readable
    <2>1. i \in 1..Len(lines') /\ \A k \in 1..i : lines'[k] # Junk
      BY <1>7 DEF Readable, Junk
    <2>2. i \in 1..Len(lines) /\ (open => i < Len(lines))
      <3>1. CASE open
        BY <1>1, <1>2, <2>1, <3>1
      <3>2. CASE ~open /\ Damaged
        BY <1>1, <1>2, <1>3, <2>1, <3>2
      <3>3. CASE ~open /\ ~Damaged
        BY <1>1, <1>2, <2>1, <3>3
      <3>. QED  BY <3>1, <3>2, <3>3
    <2>3. \A k \in 1..i : lines[k] # Junk
      BY <1>1, <1>2, <2>1, <2>2
    <2>. QED  BY <2>2, <2>3 DEF Readable
  <1>. QED  BY <1>5, <1>6, <1>7

\* A whole line at the end of an undamaged journal is the last of its execution.
LEMMA WriteAppends ==
    ASSUME TypeOK, ~Damaged, ~open, NEW r \in Lines, r.exec \in Executions, WriteLine(r)
    PROVE  /\ ~Damaged' /\ ~open'
           /\ Recorded' = [Recorded EXCEPT ![r.exec] = r.state]
           /\ RebuiltIndex' = [RebuiltIndex EXCEPT ![r.exec] = r.id]
           /\ \A e \in Executions :
                 /\ EventsOf(e)' = EventsOf(e) \cup (IF e = r.exec THEN {Len(lines) + 1} ELSE {})
                 /\ \A i \in EventsOf(e) : i < Len(lines) + 1
           /\ \A i \in 1..Len(lines) : lines'[i] = lines[i]
           /\ lines'[Len(lines) + 1] = r
  <1> DEFINE n == Len(lines) + 1
  <1>1. Len(lines) \in Nat
    BY LenProperties DEF TypeOK, FileOK
  <1>2. ~WritePart /\ ~open'
    BY DEF WriteLine, WritePart
  <1>3. /\ Len(lines') = n /\ lines'[n] = r
        /\ \A i \in 1..Len(lines) : lines'[i] = lines[i]
    BY <1>2, WriteKeepsLines
  <1>4. \A k \in 1..n : lines'[k] # Junk
    BY <1>1, <1>3 DEF Damaged, Junk
  <1>5. ~Damaged' /\ Readable' = 1..n /\ Readable = 1..Len(lines)
    BY <1>1, <1>3, <1>4 DEF Damaged, Readable, Junk
  <1>6. ASSUME NEW e \in Executions
        PROVE  /\ EventsOf(e)' = EventsOf(e) \cup (IF e = r.exec THEN {n} ELSE {})
               /\ EventsOf(e) \in SUBSET (1..Len(lines))
    BY <1>1, <1>3, <1>5 DEF EventsOf
  <1>7. LastEvent(r.exec)' = r /\ EventsOf(r.exec)' # {}
    <2>1. IsLast(n, EventsOf(r.exec)')
      BY <1>1, <1>6 DEF IsLast
    <2>2. \A i \in EventsOf(r.exec)' : IsLast(i, EventsOf(r.exec)') => i = n
      BY SMTT(20), <1>1, <1>6 DEF IsLast
    <2>3. PICK i : i = CHOOSE j \in EventsOf(r.exec)' : IsLast(j, EventsOf(r.exec)')
      OBVIOUS
    <2>4. i = n
      BY <1>6, <2>1, <2>2, <2>3
    <2>5. LastEvent(r.exec)' = lines'[i]
      BY <2>3 DEF LastEvent, IsLast
    <2>. QED  BY <1>3, <1>6, <2>4, <2>5
  <1>8. ASSUME NEW e \in Executions, e # r.exec, EventsOf(e) # {}
        PROVE  LastEvent(e)' = LastEvent(e)
    <2>0. EventsOf(e)' = EventsOf(e)
      BY <1>6, <1>8
    <2>1. PICK k \in EventsOf(e) : IsLast(k, EventsOf(e))
      BY <1>8, LastEventIs
    <2>2. PICK i : i = CHOOSE j \in EventsOf(e) : IsLast(j, EventsOf(e))
      OBVIOUS
    <2>3. i \in EventsOf(e)
      BY <2>1, <2>2
    <2>4. LastEvent(e) = lines[i]
      BY <2>2 DEF LastEvent
    <2>5. LastEvent(e)' = lines'[i]
      BY <2>0, <2>2 DEF LastEvent, IsLast
    <2>. QED  BY <1>3, <1>6, <2>3, <2>4, <2>5
  <1>9. Recorded' = [Recorded EXCEPT ![r.exec] = r.state]
    BY <1>6, <1>7, <1>8 DEF Recorded
  <1>10. RebuiltIndex' = [RebuiltIndex EXCEPT ![r.exec] = r.id]
    BY <1>6, <1>7, <1>8 DEF RebuiltIndex
  <1>. QED  BY <1>1, <1>2, <1>3, <1>5, <1>6, <1>9, <1>10

----------------------------------------------------------------------------
(* What the threads hold. *)

Appending == {"ensure", "install", "write"}

\* A thread appends what may come next, nobody else has its execution, and
\* only a build has a contract without a state.
ContractInv ==
    /\ \A t \in Threads : contract[t] # NoContract =>
          /\ contract[t].exec \in issued
          /\ contract[t].history = <<>> => pc[t] \in Appending
          /\ pc[t] \in Appending => IF contract[t].history = <<>>
                                    THEN target[t] = "CREATED"
                                    ELSE target[t] \in Legal[Current(contract[t])]
    /\ \A t, u \in Threads :
          /\ t # u /\ contract[t] # NoContract /\ contract[u] # NoContract
          => contract[t].exec # contract[u].exec

LEMMA ContractRaise ==
    ASSUME TypeOK, ContractInv, NEW t \in Threads, pc[t] \in Appending, Raise(t),
           issued' = issued
    PROVE  /\ ContractInv'
           /\ \A u \in Threads : contract'[u] \in {contract[u], NoContract}
           /\ pc'[t] \notin Appending /\ \A u \in Threads \ {t} : pc'[u] = pc[u]
  <1>1. CASE Building(t)
    <2>1. /\ contract' = [contract EXCEPT ![t] = NoContract]
          /\ pc' = [pc EXCEPT ![t] = "idle"] /\ target' = target
      BY <1>1 DEF Raise
    <2>2. /\ contract'[t] = NoContract /\ pc'[t] = "idle"
          /\ \A u \in Threads \ {t} : contract'[u] = contract[u] /\ pc'[u] = pc[u]
      BY <2>1 DEF TypeOK, ThreadsOK
    <2>. QED  BY <2>1, <2>2 DEF ContractInv, Current, Appending
  <1>2. CASE ~Building(t)
    <2>1. contract' = contract /\ pc' = [pc EXCEPT ![t] = "unwind"] /\ target' = target
      BY <1>2 DEF Raise, TypeOK, ThreadsOK
    <2>2. pc'[t] = "unwind" /\ \A u \in Threads \ {t} : pc'[u] = pc[u]
      BY <2>1 DEF TypeOK, ThreadsOK
    <2>3. contract[t] # NoContract => contract[t].history # <<>>
      BY <1>2 DEF Building, ContractInv
    <2>. QED  BY <2>1, <2>2, <2>3 DEF ContractInv, Current, Appending
  <1>. QED  BY <1>1, <1>2

LEMMA Acknowledged ==
    ASSUME TypeOK, ContractInv, NEW t \in Threads, pc[t] = "write", Acknowledge(t)
    PROVE  /\ contract[t] \in Held /\ contract'[t] \in Held
           /\ contract'[t].exec = contract[t].exec
           /\ contract'[t].history # <<>> /\ Current(contract'[t]) = target[t]
           /\ \A u \in Threads \ {t} : contract'[u] = contract[u] /\ pc'[u] = pc[u]
                                       /\ target'[u] = target[u]
           /\ IF target[t] = "CREATED" THEN pc'[t] = "ensure" /\ target'[t] = "APPROVED"
                                       ELSE pc'[t] = "idle"
  <1>1. contract[t] \in Held /\ target[t] \in States
    BY ContractTypes DEF TypeOK, ThreadsOK, AtWork
  <1>2. PICK d \in Held : /\ d = [contract[t] EXCEPT !.history = Append(@, target[t])]
                          /\ d.exec = contract[t].exec
                          /\ d.history = Append(contract[t].history, target[t])
    BY <1>1, ContractTypes
  <1>3. contract' = [contract EXCEPT ![t] = d]
    BY <1>2 DEF Acknowledge
  <1>4. contract'[t] = d /\ \A u \in Threads \ {t} : contract'[u] = contract[u]
    BY <1>3 DEF TypeOK, ThreadsOK
  <1>5. d.history # <<>> /\ d.history[Len(d.history)] = target[t]
    <2>1. contract[t].history \in Seq(States)
      BY <1>1 DEF Held
    <2>. QED  BY <1>1, <1>2, <2>1, AppendProperties
  <1>6. /\ \A u \in Threads \ {t} : pc'[u] = pc[u] /\ target'[u] = target[u]
        /\ IF target[t] = "CREATED" THEN pc'[t] = "ensure" /\ target'[t] = "APPROVED"
                                    ELSE pc'[t] = "idle"
    BY DEF TypeOK, ThreadsOK, Acknowledge
  <1>. QED  BY <1>1, <1>2, <1>4, <1>5, <1>6 DEF Current

LEMMA ContractAcknowledge ==
    ASSUME TypeOK, ContractInv, NEW t \in Threads, pc[t] = "write", Acknowledge(t),
           issued' = issued
    PROVE  ContractInv'
  <1>1. contract[t] # NoContract /\ contract'[t] # NoContract
    BY Acknowledged, ContractTypes
  <1>2. "APPROVED" \in Legal["CREATED"]
    BY DEF Legal, States
  <1>3. contract[t].exec \in issued
    BY <1>1 DEF ContractInv
  <1>4. /\ contract'[t].exec = contract[t].exec /\ contract'[t].history # <<>>
        /\ Current(contract'[t]) = target[t]
        /\ \A u \in Threads \ {t} : contract'[u] = contract[u] /\ pc'[u] = pc[u]
                                    /\ target'[u] = target[u]
        /\ pc'[t] \in Appending => target[t] = "CREATED" /\ target'[t] = "APPROVED"
    BY Acknowledged DEF Appending
  <1>5. \A u \in Threads : Current(contract[u])' = Current(contract'[u])
    BY DEF Current
  <1>6. ASSUME NEW u \in Threads, contract'[u] # NoContract
        PROVE  /\ contract'[u].exec \in issued'
               /\ contract'[u].history = <<>> => pc'[u] \in Appending
               /\ pc'[u] \in Appending => IF contract'[u].history = <<>>
                                          THEN target'[u] = "CREATED"
                                          ELSE target'[u] \in Legal[Current(contract'[u])]
    <2>1. CASE u = t
      BY <1>2, <1>3, <1>4, <2>1
    <2>2. CASE u # t
      BY <1>4, <1>6, <2>2 DEF ContractInv
    <2>. QED  BY <2>1, <2>2
  <1>7. ASSUME NEW u \in Threads, NEW v \in Threads, u # v,
               contract'[u] # NoContract, contract'[v] # NoContract
        PROVE  contract'[u].exec # contract'[v].exec
    BY <1>1, <1>4, <1>7 DEF ContractInv
  <1>. QED  BY <1>6, <1>7 DEF ContractInv, Current, NoContract

LEMMA ContractInvStep == TypeOK /\ ContractInv /\ [Next]_vars => ContractInv'
  <1> SUFFICES ASSUME TypeOK, ContractInv, [Next]_vars
               PROVE  ContractInv'
    OBVIOUS
  <1>1. ASSUME NEW t \in Threads, EnsureIndex(t) \/ InstallIndex(t)
        PROVE  ContractInv'
    <2>0. pc[t] \in Appending /\ issued' = issued
      BY <1>1 DEF EnsureIndex, InstallIndex, Appending
    <2>1. CASE Raise(t)
      BY <2>0, <2>1, ContractRaise
    <2>2. CASE ~Raise(t)
      <3>1. UNCHANGED <<contract, target>>
        BY <1>1, <2>2 DEF EnsureIndex, InstallIndex
      <3>2. PICK to \in Appending : pc' = [pc EXCEPT ![t] = to]
        BY <1>1, <2>2 DEF EnsureIndex, InstallIndex, Appending
      <3>3. \A u \in Threads : pc'[u] \in Appending <=> pc[u] \in Appending
        BY <2>0, <3>2 DEF TypeOK, ThreadsOK
      <3>. QED  BY <2>0, <3>1, <3>3 DEF ContractInv, Current
    <2>. QED  BY <2>1, <2>2
  <1>2. ASSUME NEW t \in Threads, AppendEvent(t)
        PROVE  ContractInv'
    <2>0. pc[t] = "write" /\ pc[t] \in Appending /\ issued' = issued
      BY <1>2 DEF AppendEvent, Appending
    <2>1. Raise(t) \/ Acknowledge(t)
      BY <1>2 DEF AppendEvent
    <2>. QED  BY <2>0, <2>1, ContractRaise, ContractAcknowledge
  <1>3. ASSUME NEW t \in Threads, NEW e \in Executions, BuildContract(t, e)
        PROVE  ContractInv'
    <2>1. PICK d \in Contracts : d = [exec |-> e, history |-> <<>>]
                                 /\ d.exec = e /\ d.history = <<>>
      <3>1. [exec |-> e, history |-> <<>>] \in Contracts
        BY ContractTypes
      <3>. QED  BY <3>1
    <2>2. /\ contract'[t] = d /\ pc'[t] = "ensure" /\ target'[t] = "CREATED"
          /\ \A u \in Threads \ {t} : contract'[u] = contract[u] /\ pc'[u] = pc[u]
                                      /\ target'[u] = target[u]
      BY <1>3, <2>1 DEF BuildContract, TypeOK, ThreadsOK
    <2>3. e \notin issued /\ issued' = issued \cup {e}
      BY <1>3 DEF BuildContract
    <2>. QED  BY <2>1, <2>2, <2>3 DEF ContractInv, Current, Appending
  <1>4. ASSUME NEW t \in Threads, NEW s \in States, Advance(t, s)
        PROVE  ContractInv'
    <2>1. /\ UNCHANGED <<contract, issued>> /\ pc'[t] = "ensure" /\ target'[t] = s
          /\ \A u \in Threads \ {t} : pc'[u] = pc[u] /\ target'[u] = target[u]
      BY <1>4 DEF Advance, TypeOK, ThreadsOK
    <2>2. contract[t] # NoContract /\ s \in Legal[Current(contract[t])] /\ pc[t] \notin Appending
      BY <1>4 DEF Advance, MayAdvance, Appending
    <2>. QED  BY <2>1, <2>2 DEF ContractInv, Current, Appending
  <1>5. ASSUME NEW t \in Threads, Return(t) \/ BeginReplay(t) \/ EndReplay(t)
        PROVE  ContractInv'
    <2>1. /\ UNCHANGED <<target, issued>> /\ pc'[t] \notin Appending /\ pc[t] \notin Appending
          /\ contract'[t] \in {contract[t], NoContract}
          /\ \A u \in Threads \ {t} : pc'[u] = pc[u] /\ contract'[u] = contract[u]
      BY <1>5 DEF Return, BeginReplay, EndReplay, TypeOK, ThreadsOK, Appending
    <2>. QED  BY <2>1 DEF ContractInv, Current
  <1>6. ASSUME Restart
        PROVE  ContractInv'
    <2>1. \A t \in Threads : contract'[t] = NoContract
      BY <1>6 DEF Restart
    <2>. QED  BY <2>1 DEF ContractInv, NoContract
  <1>7. CASE UNCHANGED vars
    BY <1>7 DEF vars, ContractInv, Current
  <1>. QED  BY <1>1, <1>2, <1>3, <1>4, <1>5, <1>6, <1>7 DEF Next, Crash, Repair, CrashInWrite

LEMMA ContractInvAlways == Spec => [](TypeOK /\ ContractInv)
  <1>1. Init => ContractInv
    BY DEF Init, ContractInv
  <1>. QED  BY <1>1, ContractInvStep, TypeCorrect, PTL DEF Spec

----------------------------------------------------------------------------
(* What the index and the threads know of the journal. *)

\* The last state of the execution of t, as t knows it
Known(t) == IF contract[t].history = <<>> THEN "NONE" ELSE Current(contract[t])

\* The journal is damaged wherever a write could glue to a line, and where a
\* reading found it so; until it is, memory follows it.
SyncInv ==
    /\ open => Damaged
    /\ \A t \in Threads : pc[t] = "install" /\ snap[t].damaged => Damaged
    /\ \A e \in Executions \ issued : Recorded[e] = "NONE"
    /\ ~Damaged =>
          /\ \A t \in Threads : pc[t] = "write" => loaded
          /\ loaded /\ ~staleIndex => index = RebuiltIndex
          /\ \A t \in Threads :
                contract[t] # NoContract => Recorded[contract[t].exec] = Known(t)

JournalInv == SyncInv /\ OnlyStaleIndexBreaksLineage

LEMMA RecordedIs ==
    ASSUME TypeOK, NEW e \in Executions
    PROVE  \/ EventsOf(e) = {} /\ Recorded[e] = "NONE" /\ RebuiltIndex[e] = 0
           \/ \E k \in EventsOf(e) : /\ IsLast(k, EventsOf(e))
                                     /\ Recorded[e] = lines[k].state
                                     /\ RebuiltIndex[e] = lines[k].id
                                     /\ Recorded[e] \in States
  BY LastEventIs DEF Recorded, RebuiltIndex, Lines

\* What a thread appends to an undamaged journal is legal there, and chained
\* unless the index was stale.
LEMMA LegalAppend ==
    ASSUME TypeOK, ContractInv, JournalInv, ~Damaged, NEW t \in Threads, pc[t] = "write",
           WriteLine(NewEvent(t)), staleIndex' = staleIndex
    PROVE  /\ contract[t].exec \in Executions /\ contract[t].exec \in issued
           /\ target[t] \in States
           /\ IF Recorded[contract[t].exec] = "NONE"
              THEN target[t] = "CREATED"
              ELSE target[t] \in Legal[Recorded[contract[t].exec]]
           /\ ~Damaged' /\ ~open'
           /\ Recorded' = [Recorded EXCEPT ![contract[t].exec] = target[t]]
           /\ RebuiltIndex' = [RebuiltIndex EXCEPT ![contract[t].exec] = nextId]
           /\ OnlyStaleIndexBreaksLineage'
  <1> DEFINE e == contract[t].exec
             r == NewEvent(t)
             n == Len(lines) + 1
  <1>1. e \in Executions /\ contract[t] \in Held /\ contract[t] # NoContract
        /\ target[t] \in States
    BY ContractTypes DEF TypeOK, ThreadsOK, AtWork
  <1>2. r \in Lines /\ r.exec = e /\ r.state = target[t] /\ r.id = nextId
        /\ r.prev = index[e]
    BY NewEventType DEF NewEvent
  <1>3. /\ ~Damaged' /\ ~open'
        /\ Recorded' = [Recorded EXCEPT ![e] = target[t]]
        /\ RebuiltIndex' = [RebuiltIndex EXCEPT ![e] = nextId]
        /\ \A x \in Executions :
              /\ EventsOf(x)' = EventsOf(x) \cup (IF x = e THEN {n} ELSE {})
              /\ \A i \in EventsOf(x) : i < n
        /\ \A i \in 1..Len(lines) : lines'[i] = lines[i]
        /\ lines'[n] = r
    <2>1. ~open
      BY DEF JournalInv, SyncInv
    <2> HIDE DEF e, r
    <2>. QED  BY <1>1, <1>2, <2>1, WriteAppends DEF r
  <1>4. Known(t) \in States \cup {"NONE"}
        /\ (Known(t) = "NONE" <=> contract[t].history = <<>>)
        /\ (Known(t) # "NONE" => Known(t) = Current(contract[t]))
    <2>1. contract[t].history \in Seq(States)
      BY <1>1 DEF Held
    <2>2. contract[t].history # <<>> => Current(contract[t]) \in States
      BY <2>1, LenProperties, ElementOfSeq, EmptySeq DEF Current
    <2>. QED  BY <2>2 DEF Known, States
  <1>5. Recorded[e] = Known(t) /\ loaded
    BY <1>1 DEF JournalInv, SyncInv
  <1>6. IF Recorded[e] = "NONE" THEN target[t] = "CREATED"
                                ELSE target[t] \in Legal[Recorded[e]]
    BY <1>1, <1>4, <1>5 DEF ContractInv, Appending
  <1>7. ASSUME ~staleIndex, NEW x \in Executions
        PROVE  ReplayAccepts(x)'
    <2>0. ReplayAccepts(x) /\ index = RebuiltIndex
      BY <1>5, <1>7 DEF JournalInv, SyncInv, OnlyStaleIndexBreaksLineage, EveryLineageReplays
    <2>1. EventsOf(x) \subseteq 1..Len(lines)
      BY DEF EventsOf, Readable
    <2> DEFINE Before(i) == {k \in EventsOf(x)' : k < i}
               Good(i) == \/ Before(i) = {} /\ lines'[i].state = "CREATED"
                          \/ \E k \in Before(i) : /\ IsLast(k, Before(i))
                                                  /\ lines'[i].prev = lines'[k].id
                                                  /\ lines'[i].state \in Legal[lines'[k].state]
    <2>2. ASSUME NEW i \in EventsOf(x)
          PROVE  Good(i)
      <3>0. Len(lines) \in Nat
        BY LenProperties DEF TypeOK, FileOK
      <3>1. Before(i) = {k \in EventsOf(x) : k < i}
        <4>1. i \in Nat /\ i < n /\ n \in Nat
          BY <1>3, <2>1, <2>2, <3>0
        <4>2. EventsOf(x)' = EventsOf(x) \cup (IF x = e THEN {n} ELSE {})
          BY <1>3
        <4>3. \A k : k \in EventsOf(x)' /\ k < i <=> k \in EventsOf(x) /\ k < i
          <5> HIDE DEF e, n
          <5>1. i \in Nat /\ n \in Nat /\ ~(n < i)
            BY <4>1
          <5>. QED  BY <4>2, <5>1
        <4>. QED  BY <4>3
      <3>2. \/ Before(i) = {} /\ lines[i].state = "CREATED"
            \/ \E k \in Before(i) : /\ IsLast(k, Before(i))
                                    /\ lines[i].prev = lines[k].id
                                    /\ lines[i].state \in Legal[lines[k].state]
        BY <2>0, <2>2, <3>1 DEF ReplayAccepts
      <3>3. i \in 1..Len(lines) /\ Before(i) \subseteq 1..Len(lines)
        BY <2>1, <3>1
      <3> HIDE DEF Before
      <3>. QED  BY <1>3, <3>2, <3>3
    <2>3. ASSUME x = e
          PROVE  Good(n)
      <3>0. Len(lines) \in Nat
        BY LenProperties DEF TypeOK, FileOK
      <3>1. Before(n) = EventsOf(x)
        BY <1>1, <1>3, <2>1, <2>3, <3>0
      <3>2. CASE Recorded[e] = "NONE"
        <4>1. EventsOf(x) = {}
          BY <1>1, <2>3, <3>2, RecordedIs DEF States
        <4>. QED  BY <1>2, <1>3, <1>6, <3>1, <3>2, <4>1
      <3>3. CASE Recorded[e] # "NONE"
        <4>1. PICK k \in EventsOf(x) : /\ IsLast(k, EventsOf(x))
                                       /\ Recorded[e] = lines[k].state
                                       /\ RebuiltIndex[e] = lines[k].id
          BY <1>1, <2>3, <3>3, RecordedIs
        <4>2. lines'[k] = lines[k]
          BY <1>3, <2>1, <4>1
        <4> HIDE DEF Before, e, r
        <4>. QED  BY <1>2, <1>3, <1>6, <2>0, <3>1, <3>3, <4>1, <4>2
      <3>. QED  BY <3>2, <3>3
    <2>4. \A i \in EventsOf(x)' : Good(i)
      <3>1. EventsOf(x)' = EventsOf(x) \cup (IF x = e THEN {n} ELSE {})
        BY <1>3
      <3> HIDE DEF Good, e, n
      <3>. QED  BY <2>2, <2>3, <3>1
    <2>. QED  BY <2>4 DEF ReplayAccepts, IsLast
  <1>8. OnlyStaleIndexBreaksLineage'
    BY <1>7 DEF OnlyStaleIndexBreaksLineage, EveryLineageReplays
  <1>. QED  BY <1>1, <1>3, <1>6, <1>8 DEF ContractInv

LEMMA SameFile ==
    ASSUME TypeOK, UNCHANGED <<lines, open>>
    PROVE  /\ Damaged' = Damaged /\ Recorded' = Recorded /\ RebuiltIndex' = RebuiltIndex
           /\ EveryLineageReplays => EveryLineageReplays'
  <1>1. Readable' = Readable /\ Damaged' = Damaged
    BY DEF Readable, Damaged, Junk
  <1>. QED  BY <1>1, SameReadable

\* A step that reads the file, or takes or leaves a contract
LEMMA JournalMove ==
    ASSUME TypeOK, JournalInv, NEW t \in Threads,
           UNCHANGED <<lines, open, staleIndex>>,
           ~Damaged => UNCHANGED <<loaded, index>>,
           issued \subseteq issued',
           \A u \in Threads : contract'[u] # NoContract =>
               \/ contract'[u] = contract[u]
               \/ Recorded[contract'[u].exec] = "NONE" /\ contract'[u].history = <<>>,
           \A u \in Threads \ {t} : pc'[u] = pc[u] /\ snap'[u] = snap[u],
           pc'[t] = "write" => loaded,
           pc'[t] = "install" => snap'[t].damaged = Damaged
    PROVE  JournalInv'
  <1>1. /\ Damaged' = Damaged /\ Recorded' = Recorded /\ RebuiltIndex' = RebuiltIndex
        /\ EveryLineageReplays => EveryLineageReplays'
    BY SameFile
  <1>2. OnlyStaleIndexBreaksLineage'
    BY <1>1 DEF JournalInv, OnlyStaleIndexBreaksLineage
  <1>3. \A u \in Threads : pc'[u] = "install" /\ snap'[u].damaged => Damaged'
    BY <1>1 DEF JournalInv, SyncInv
  <1>4. \A e \in Executions \ issued' : Recorded'[e] = "NONE"
    BY <1>1 DEF JournalInv, SyncInv
  <1>5. ASSUME ~Damaged'
        PROVE  /\ \A u \in Threads : pc'[u] = "write" => loaded'
               /\ loaded' /\ ~staleIndex' => index' = RebuiltIndex'
    BY <1>1, <1>5 DEF JournalInv, SyncInv
  <1>6. ASSUME ~Damaged', NEW u \in Threads, contract'[u] # NoContract
        PROVE  Recorded'[contract'[u].exec] = Known(u)'
    <2>1. CASE contract'[u] = contract[u]
      BY <1>1, <1>6, <2>1 DEF JournalInv, SyncInv, Known, Current
    <2>2. CASE Recorded[contract'[u].exec] = "NONE" /\ contract'[u].history = <<>>
      BY <1>1, <2>2 DEF Known
    <2>. QED  BY <1>6, <2>1, <2>2
  <1>. QED  BY <1>1, <1>2, <1>3, <1>4, <1>5, <1>6 DEF JournalInv, SyncInv, NoContract

LEMMA JournalRestart ==
    ASSUME Restart, open' => Damaged', OnlyStaleIndexBreaksLineage',
           \A e \in Executions \ issued' : Recorded'[e] = "NONE"
    PROVE  JournalInv'
  <1>1. /\ \A t \in Threads : pc'[t] = "idle" /\ contract'[t] = NoContract
        /\ loaded' = FALSE
    BY DEF Restart
  <1>. QED  BY <1>1 DEF JournalInv, SyncInv, NoContract

\* A write that adds nothing readable
LEMMA JournalHides ==
    ASSUME TypeOK, JournalInv, NEW r \in Lines, WriteLine(r) \/ WritePart,
           Damaged \/ WritePart, UNCHANGED <<issued, staleIndex>>
    PROVE  JournalInv' /\ Recorded' = Recorded
  <1>1. Damaged' /\ Readable' = Readable /\ \A i \in Readable : lines'[i] = lines[i]
    BY DamageHides DEF JournalInv, SyncInv
  <1>2. Recorded' = Recorded /\ (EveryLineageReplays => EveryLineageReplays')
    BY <1>1, SameReadable
  <1>. QED  BY <1>1, <1>2 DEF JournalInv, SyncInv, OnlyStaleIndexBreaksLineage

LEMMA JournalRaise ==
    ASSUME TypeOK, ContractInv, JournalInv, NEW t \in Threads, pc[t] \in Appending, Raise(t),
           UNCHANGED <<lines, open, staleIndex, issued>>,
           ~Damaged => UNCHANGED <<loaded, index>>
    PROVE  JournalInv'
  <1>1. /\ \A u \in Threads : contract'[u] \in {contract[u], NoContract}
        /\ pc'[t] \notin Appending /\ \A u \in Threads \ {t} : pc'[u] = pc[u]
    BY ContractRaise
  <1>2. \A u \in Threads \ {t} : snap'[u] = snap[u]
    BY DEF Raise, TypeOK, ThreadsOK
  <1>. QED  BY <1>1, <1>2, JournalMove DEF Appending

LEMMA JournalAppend ==
    ASSUME TypeOK, ContractInv, JournalInv, ~LateFailures, NEW t \in Threads, AppendEvent(t)
    PROVE  JournalInv'
  <1>0. /\ pc[t] = "write" /\ pc[t] \in Appending /\ UNCHANGED <<issued, staleIndex>>
        /\ NewEvent(t) \in Lines
    BY NewEventType DEF AppendEvent, Appending
  <1>1. CASE Raise(t) /\ UNCHANGED <<fileVars, indexVars>>
    BY <1>0, <1>1, JournalRaise DEF fileVars, indexVars
  <1>2. CASE WritePart
    BY <1>0, <1>2, JournalHides
  <1>3. CASE WriteLine(NewEvent(t)) /\ Damaged
    BY <1>0, <1>3, JournalHides
  <1>4. CASE WriteLine(NewEvent(t)) /\ ~Damaged /\ Acknowledge(t) /\ UNCHANGED loaded
    <2> DEFINE e == contract[t].exec
    <2>1. /\ e \in Executions /\ e \in issued
          /\ ~Damaged' /\ ~open'
          /\ Recorded' = [Recorded EXCEPT ![e] = target[t]]
          /\ RebuiltIndex' = [RebuiltIndex EXCEPT ![e] = nextId]
          /\ OnlyStaleIndexBreaksLineage'
      BY <1>0, <1>4, LegalAppend
    <2>2. index' = [index EXCEPT ![e] = nextId]
      BY <1>4 DEF Acknowledge, UpdateIndex
    <2>3. /\ contract[t] \in Held /\ contract[t] # NoContract
          /\ contract'[t].exec = e
          /\ contract'[t].history # <<>> /\ Current(contract'[t]) = target[t]
          /\ \A u \in Threads \ {t} : contract'[u] = contract[u] /\ pc'[u] = pc[u]
          /\ pc'[t] \in {"ensure", "idle"}
      BY <1>0, <1>4, Acknowledged, ContractTypes
    <2>4. loaded /\ loaded' = loaded
      BY <1>0, <1>4 DEF JournalInv, SyncInv
    <2>5. loaded' /\ ~staleIndex' => index' = RebuiltIndex'
      BY <1>0, <1>4, <2>1, <2>2, <2>4 DEF JournalInv, SyncInv
    <2>6. \A x \in Executions \ issued' : Recorded'[x] = "NONE"
      BY <1>0, <2>1 DEF JournalInv, SyncInv, Recorded
    <2>7. ASSUME NEW u \in Threads, contract'[u] # NoContract
          PROVE  Recorded'[contract'[u].exec] = Known(u)'
      <3>1. CASE u = t
        BY <2>1, <2>3, <3>1 DEF Known, Current, Recorded
      <3>2. CASE u # t
        <4>1. contract'[u] = contract[u] /\ contract[u].exec # e
          BY <2>3, <2>7, <3>2 DEF ContractInv
        <4>2. Known(u)' = Known(u) /\ Recorded[contract[u].exec] = Known(u)
          BY <1>4, <2>7, <4>1 DEF JournalInv, SyncInv, Known, Current
        <4>3. contract[u].exec \in Executions
          BY <2>7, <4>1, ContractTypes DEF TypeOK, ThreadsOK
        <4>. QED  BY <2>1, <4>1, <4>2, <4>3 DEF Recorded
      <3>. QED  BY <3>1, <3>2
    <2>8. \A u \in Threads : pc'[u] = "install" => ~snap'[u].damaged
      <3>1. snap' = snap
        BY <1>4 DEF Acknowledge
      <3>2. \A u \in Threads : pc'[u] = "install" => pc[u] = "install"
        BY <2>3
      <3>. QED  BY <1>4, <3>1, <3>2 DEF JournalInv, SyncInv
    <2>. QED  BY <2>1, <2>4, <2>5, <2>6, <2>7, <2>8 DEF JournalInv, SyncInv, NoContract
  <1>. QED  BY <1>0, <1>1, <1>2, <1>3, <1>4 DEF AppendEvent, fileVars

LEMMA JournalCrash ==
    ASSUME TypeOK, ContractInv, JournalInv, NEW t \in Threads, CrashInWrite(t)
    PROVE  JournalInv'
  <1>0. /\ pc[t] = "write" /\ UNCHANGED <<issued, staleIndex>> /\ Restart
        /\ NewEvent(t) \in Lines
    BY NewEventType DEF CrashInWrite, Restart
  <1>1. CASE WritePart \/ (WriteLine(NewEvent(t)) /\ Damaged)
    BY <1>0, <1>1, JournalHides
  <1>2. CASE WriteLine(NewEvent(t)) /\ ~Damaged
    <2>1. /\ contract[t].exec \in Executions /\ contract[t].exec \in issued
          /\ ~open' /\ OnlyStaleIndexBreaksLineage'
          /\ Recorded' = [Recorded EXCEPT ![contract[t].exec] = target[t]]
      BY <1>0, <1>2, LegalAppend
    <2>2. \A x \in Executions \ issued' : Recorded'[x] = "NONE"
      BY <1>0, <2>1 DEF JournalInv, SyncInv, Recorded
    <2>. QED  BY <1>0, <2>1, <2>2, JournalRestart
  <1>. QED  BY <1>1, <1>2 DEF CrashInWrite

LEMMA JournalRepair ==
    ASSUME TypeOK, JournalInv, Repair
    PROVE  JournalInv' /\ Recorded' = Recorded
  <1>1. /\ Readable' = Readable /\ ~open'
        /\ \A i \in Readable : lines'[i] = lines[i]
    BY RepairKeepsReadable
  <1>2. Recorded' = Recorded /\ (EveryLineageReplays => EveryLineageReplays')
    BY <1>1, SameReadable
  <1>3. Restart /\ UNCHANGED <<issued, staleIndex>>
    BY DEF Repair, Restart
  <1>4. OnlyStaleIndexBreaksLineage' /\ \A e \in Executions \ issued' : Recorded'[e] = "NONE"
    BY <1>2, <1>3 DEF JournalInv, SyncInv, OnlyStaleIndexBreaksLineage
  <1>. QED  BY <1>1, <1>2, <1>3, <1>4, JournalRestart

LEMMA JournalInvStep ==
    ASSUME ~LateFailures
    PROVE  TypeOK /\ ContractInv /\ JournalInv /\ [Next]_vars => JournalInv'
  <1> SUFFICES ASSUME TypeOK, ContractInv, JournalInv, [Next]_vars
               PROVE  JournalInv'
    OBVIOUS
  <1>1. ASSUME NEW t \in Threads, EnsureIndex(t)
        PROVE  JournalInv'
    <2>0. /\ pc[t] \in Appending
          /\ UNCHANGED <<lines, open, loaded, index, issued, staleIndex>>
      BY <1>1 DEF EnsureIndex, Appending, fileVars, indexVars, boundVars
    <2>1. CASE Raise(t)
      BY <2>0, <2>1, JournalRaise
    <2>2. CASE ~Raise(t)
      <3>1. /\ contract' = contract
            /\ \A u \in Threads \ {t} : pc'[u] = pc[u] /\ snap'[u] = snap[u]
            /\ pc'[t] = "write" => loaded
            /\ pc'[t] = "install" => snap'[t].damaged = Damaged
        BY <1>1, <2>2 DEF EnsureIndex, TypeOK, ThreadsOK, ReadFile
      <3>. QED  BY <2>0, <3>1, JournalMove
    <2>. QED  BY <2>1, <2>2
  <1>2. ASSUME NEW t \in Threads, InstallIndex(t)
        PROVE  JournalInv'
    <2>0. pc[t] = "install" /\ pc[t] \in Appending /\ UNCHANGED <<lines, open, issued>>
      BY <1>2 DEF InstallIndex, Appending, fileVars
    <2>1. CASE snap[t].damaged
      <3>1. Damaged /\ staleIndex' = staleIndex
        BY <1>2, <2>0, <2>1 DEF InstallIndex, JournalInv, SyncInv, TypeOK, HistoryOK
      <3>. QED  BY <1>2, <2>0, <2>1, <3>1, JournalRaise DEF InstallIndex
    <2>2. CASE ~snap[t].damaged
      <3>1. /\ Damaged' = Damaged /\ Recorded' = Recorded /\ RebuiltIndex' = RebuiltIndex
            /\ EveryLineageReplays => EveryLineageReplays'
        BY <2>0, SameFile
      <3>2. /\ loaded' = TRUE /\ index' = snap[t].index /\ contract' = contract
            /\ staleIndex' = (staleIndex \/ snap[t].index # RebuiltIndex)
            /\ pc'[t] = "write"
            /\ \A u \in Threads \ {t} : pc'[u] = pc[u] /\ snap'[u] = snap[u]
        BY <1>2, <2>2 DEF InstallIndex, TypeOK, ThreadsOK
      <3>3. \A u \in Threads : Known(u)' = Known(u)
        BY <3>2 DEF Known, Current
      <3>. QED  BY <2>0, <3>1, <3>2, <3>3
                DEF JournalInv, SyncInv, OnlyStaleIndexBreaksLineage, NoContract
    <2>. QED  BY <2>1, <2>2
  <1>3. ASSUME NEW t \in Threads, NEW e \in Executions, BuildContract(t, e)
        PROVE  JournalInv'
    <2>1. PICK d \in Contracts : d = [exec |-> e, history |-> <<>>]
                                 /\ d.exec = e /\ d.history = <<>>
      <3>1. [exec |-> e, history |-> <<>>] \in Contracts
        BY ContractTypes
      <3>. QED  BY <3>1
    <2>2. /\ contract'[t] = d /\ pc'[t] = "ensure" /\ snap' = snap
          /\ \A u \in Threads \ {t} : contract'[u] = contract[u] /\ pc'[u] = pc[u]
          /\ UNCHANGED <<lines, open, loaded, index, staleIndex>>
          /\ issued \subseteq issued'
      BY <1>3, <2>1 DEF BuildContract, TypeOK, ThreadsOK, fileVars, indexVars, boundVars
    <2>3. Recorded[e] = "NONE"
      BY <1>3 DEF BuildContract, JournalInv, SyncInv
    <2>4. \A u \in Threads : contract'[u] # NoContract =>
               \/ contract'[u] = contract[u]
               \/ Recorded[contract'[u].exec] = "NONE" /\ contract'[u].history = <<>>
      BY <2>1, <2>2, <2>3
    <2>. QED  BY <2>2, <2>4, JournalMove
  <1>4. ASSUME NEW t \in Threads,
               \/ \E s \in States : Advance(t, s)
               \/ Return(t) \/ BeginReplay(t) \/ EndReplay(t)
        PROVE  JournalInv'
    <2>1. /\ UNCHANGED <<lines, open, loaded, index, staleIndex, issued>>
          /\ \A u \in Threads : contract'[u] \in {contract[u], NoContract}
          /\ \A u \in Threads \ {t} : pc'[u] = pc[u] /\ snap'[u] = snap[u]
          /\ pc'[t] \notin {"write", "install"}
      BY <1>4 DEF Advance, Return, BeginReplay, EndReplay, TypeOK, ThreadsOK, fileVars,
                  indexVars, boundVars
    <2>. QED  BY <2>1, JournalMove
  <1>5. CASE Crash
    <2>1. UNCHANGED <<lines, open, issued, staleIndex>> /\ Restart
      BY <1>5 DEF Crash, Restart, fileVars
    <2>2. /\ Damaged' = Damaged /\ Recorded' = Recorded
          /\ EveryLineageReplays => EveryLineageReplays'
      BY <2>1, SameFile
    <2>. QED  BY <2>1, <2>2, JournalRestart DEF JournalInv, SyncInv, OnlyStaleIndexBreaksLineage
  <1>6. CASE UNCHANGED vars
    <2>1. /\ Damaged' = Damaged /\ Recorded' = Recorded /\ RebuiltIndex' = RebuiltIndex
          /\ EveryLineageReplays => EveryLineageReplays'
      BY <1>6, SameFile DEF vars
    <2>2. UNCHANGED <<open, pc, snap, issued, loaded, staleIndex, index, contract>>
      BY <1>6 DEF vars
    <2>3. \A u \in Threads : Known(u)' = Known(u)
      BY <2>2 DEF Known, Current
    <2>. QED  BY <2>1, <2>2, <2>3
              DEF JournalInv, SyncInv, OnlyStaleIndexBreaksLineage, NoContract
  <1>. QED  BY <1>1, <1>2, <1>3, <1>4, <1>5, <1>6, JournalAppend, JournalCrash, JournalRepair
            DEF Next

LEMMA InitEmpty ==
    ASSUME Init
    PROVE  JournalInv /\ Recorded = [e \in Executions |-> "NONE"]
  <1>1. Len(lines) = 0
    BY EmptySeq DEF Init
  <1>2. ~Damaged /\ \A e \in Executions : EventsOf(e) = {}
    BY <1>1 DEF Damaged, EventsOf, Readable
  <1>3. Recorded = [e \in Executions |-> "NONE"]
    BY <1>2 DEF Recorded
  <1>4. \A t \in Threads : pc[t] = "idle" /\ contract[t] = NoContract
    BY DEF Init
  <1>. QED  BY <1>2, <1>3, <1>4 DEF Init, JournalInv, SyncInv, OnlyStaleIndexBreaksLineage,
               EveryLineageReplays, ReplayAccepts

LEMMA JournalInvAlways == ~LateFailures => (Spec => [](TypeOK /\ ContractInv /\ JournalInv))
  <1> SUFFICES ASSUME ~LateFailures
               PROVE  Spec => [](TypeOK /\ ContractInv /\ JournalInv)
    OBVIOUS
  <1>1. Init => JournalInv
    BY InitEmpty
  <1>2. TypeOK /\ ContractInv /\ JournalInv /\ [Next]_vars => JournalInv'
    BY JournalInvStep
  <1>. QED  BY <1>1, <1>2, ContractInvAlways, PTL DEF Spec

\* Whatever the threads, the failures and the crashes, the service can replay
\* every lineage it wrote until an index is installed that the journal has
\* outgrown, if no append fails after its line is in the file.
THEOREM LineagesReplay == ~LateFailures => (Spec => []OnlyStaleIndexBreaksLineage)
  BY JournalInvAlways, PTL DEF JournalInv

----------------------------------------------------------------------------
(* The life cycle. *)

LEMMA LegalIsAbstract ==
    /\ States = Abstract!States /\ "CREATED" \in Abstract!Legal["NONE"]
    /\ \A s \in States : Legal[s] = Abstract!Legal[s]
  BY DEF States, Legal, Abstract!States, Abstract!Legal

\* A step that writes a whole event on an undamaged journal is a transition.
LEMMA WriteIsRecord ==
    ASSUME TypeOK, ContractInv, JournalInv, ~Damaged, NEW t \in Threads, pc[t] = "write",
           WriteLine(NewEvent(t)), staleIndex' = staleIndex
    PROVE  Abstract!Next
  <1> DEFINE e == contract[t].exec
  <1>1. /\ e \in Executions /\ target[t] \in States
        /\ IF Recorded[e] = "NONE" THEN target[t] = "CREATED"
                                   ELSE target[t] \in Legal[Recorded[e]]
        /\ Recorded' = [Recorded EXCEPT ![e] = target[t]]
    BY LegalAppend
  <1>2. Recorded[e] \in States \cup {"NONE"}
    BY <1>1, RecordedIs
  <1>3. Abstract!Record(e, target[t])
    BY <1>1, <1>2, LegalIsAbstract DEF Abstract!Record
  <1>. QED  BY <1>1, <1>3, LegalIsAbstract DEF Abstract!Next

LEMMA JournalStepIsRecord ==
    ASSUME ~LateFailures
    PROVE  TypeOK /\ ContractInv /\ JournalInv /\ [Next]_vars => [Abstract!Next]_Recorded
  <1> SUFFICES ASSUME TypeOK, ContractInv, JournalInv, [Next]_vars
               PROVE  Abstract!Next \/ Recorded' = Recorded
    OBVIOUS
  <1>1. UNCHANGED <<lines, open>> => Recorded' = Recorded
    BY SameFile
  <1>2. ASSUME NEW t \in Threads, AppendEvent(t) \/ CrashInWrite(t)
        PROVE  Abstract!Next \/ Recorded' = Recorded
    <2>0. /\ pc[t] = "write" /\ UNCHANGED <<issued, staleIndex>>
          /\ NewEvent(t) \in Lines
      BY <1>2, NewEventType DEF AppendEvent, CrashInWrite, Restart
    <2>1. CASE WritePart \/ (WriteLine(NewEvent(t)) /\ Damaged)
      BY <2>0, <2>1, JournalHides
    <2>2. CASE WriteLine(NewEvent(t)) /\ ~Damaged
      BY <2>0, <2>2, WriteIsRecord
    <2>. QED  BY <1>1, <1>2, <2>1, <2>2 DEF AppendEvent, CrashInWrite, fileVars
  <1>3. CASE Repair
    BY <1>3, JournalRepair
  <1>. QED  BY <1>1, <1>2, <1>3
            DEF Next, EnsureIndex, InstallIndex, Return, BeginReplay, EndReplay, BuildContract,
                Advance, Crash, fileVars, vars

\* Every step of the journal, a crash, a torn write and a repair among them,
\* takes one execution one legal transition further, or none.
THEOREM JournalIsLifecycle == ~LateFailures => (Spec => ImplementsExecutionLifecycle)
  <1> SUFFICES ASSUME ~LateFailures
               PROVE  Spec => ImplementsExecutionLifecycle
    OBVIOUS
  <1>1. Init => Abstract!Init
    BY InitEmpty DEF Abstract!Init
  <1>2. TypeOK /\ ContractInv /\ JournalInv /\ [Next]_vars => [Abstract!Next]_Recorded
    BY JournalStepIsRecord
  <1>3. Spec => [](TypeOK /\ ContractInv /\ JournalInv)
    BY JournalInvAlways
  <1>. QED  BY <1>1, <1>2, <1>3, PTL DEF Spec, Abstract!Spec, ImplementsExecutionLifecycle
=============================================================================
