--------------------------- MODULE LineageJournal ---------------------------
(***************************************************************************)
(* The execution lineage: contracts advance through their life cycle       *)
(* (contracts/execution_contract.py) and every transition is appended to a *)
(* shared, per-execution hash-chained journal                              *)
(* (control_plane/core/execution_lineage.py).                              *)
(*                                                                         *)
(* Request threads of one process build and advance contracts, others      *)
(* replay lineages.  An append runs under _LINEAGE_LOCK, but the index it  *)
(* chains from is loaded, and the journal read, without it.                *)
(*                                                                         *)
(* The file is a sequence of lines, each a record or Junk.  Every reader   *)
(* raises at the first Junk line, so only the records before it are        *)
(* readable.                                                               *)
(***************************************************************************)
EXTENDS Integers, Sequences

CONSTANTS
    Executions,     \* execution ids (fresh uuids)
    Threads,        \* request threads of the process
    NoExecution,    \* the execution of a thread without a contract
    MaxEvents,      \* bound: events ever built
    MaxTears,       \* bound: writes that leave part of a line
    MaxCrashes,     \* bound: crashes of the process
    LateFailures    \* may an append raise after its whole line is in the file?

ASSUME LineageJournalAssumption ==
    /\ NoExecution \notin Executions
    /\ MaxEvents \in Nat
    /\ MaxTears \in Nat
    /\ MaxCrashes \in Nat
    /\ LateFailures \in BOOLEAN

VARIABLES
    \* the journal file
    lines,       \* records and Junk, oldest first
    open,        \* the last line has no newline yet
    \* module state of execution_lineage.py
    lstate,      \* _LINEAGE_STATE
    loaded,      \* _LINEAGE_INDEX_LOADED
    index,       \* _LINEAGE_INDEX
    \* request threads
    pc,
    contract,    \* the frozen contract a thread holds
    target,      \* the state whose event it is appending
    snap,        \* what its reading of the journal returned
    \* history, read by the properties and the bounds only
    issued,      \* executions that have been created
    nextId,      \* identity (trace hash) of the next event
    safelyAcked, \* events acknowledged while the file had no Junk
    tears, crashes,
    bornDamaged, \* the file had Junk when this process started
    staleIndex   \* an index was installed that lacked events of the file

fileVars   == <<lines, open>>
indexVars  == <<lstate, loaded, index>>
threadVars == <<pc, contract, target, snap>>
boundVars  == <<tears, crashes, bornDamaged, staleIndex>>
vars == <<lines, open, lstate, loaded, index, pc, contract, target, snap,
          issued, nextId, safelyAcked, tears, crashes, bornDamaged,
          staleIndex>>

----------------------------------------------------------------------------
(* Contracts. *)

States == {"CREATED", "APPROVED", "EXECUTED", "COMPLETED", "FAILED"}

\* LEGAL_STATE_TRANSITIONS, which SemanticFSM.ALLOWED_TRANSITIONS repeats.
Legal ==
    [s \in States |->
        CASE s = "CREATED"  -> {"APPROVED", "FAILED"}
          [] s = "APPROVED" -> {"EXECUTED", "FAILED"}
          [] s = "EXECUTED" -> {"COMPLETED", "FAILED"}
          [] OTHER          -> {}]
Terminal == {"COMPLETED", "FAILED"}

\* SEMANTIC_PREREQUISITES, which SemanticFSM.TRANSITION_PREREQUISITES repeats.
Prerequisites ==
    [s \in States |->
        CASE s = "CREATED"   -> {}
          [] s = "EXECUTED"  -> {"CREATED", "APPROVED"}
          [] s = "COMPLETED" -> {"CREATED", "APPROVED", "EXECUTED"}
          [] OTHER           -> {"CREATED"}]

\* A contract is its execution and its execution_state_history.
NoContract == [exec |-> NoExecution, history |-> <<>>]
Current(c) == c.history[Len(c.history)]
Passed(c) == {c.history[i] : i \in 1..Len(c.history)}

\* Mutant: only the target's prerequisites are checked.
PrerequisitesOnly(c, s) == Prerequisites[s] \subseteq Passed(c)

\* Every check of advance_execution_state: the terminal lock, the legal
\* transitions, and the prerequisites in the history of this copy.
MayAdvance(c, s) ==
    /\ Current(c) \in Terminal => s = Current(c)
    /\ s \in Legal[Current(c)]
    /\ Prerequisites[s] \subseteq Passed(c)

----------------------------------------------------------------------------
(* The file. *)

\* A line has an `id` for the trace hash of its event, `prev` for its parent
\* hash, the execution and the state.
Junk == [id |-> 0, prev |-> 0, exec |-> NoExecution, state |-> "CREATED"]

Damaged == \E i \in 1..Len(lines) : lines[i] = Junk

\* The lines a reader gets through before it raises, or all of them.
Readable == {i \in 1..Len(lines) : \A k \in 1..i : lines[k] # Junk}
EventsOf(e) == {i \in Readable : lines[i].exec = e}
IsLast(i, S) == i \in S /\ \A k \in S : k <= i
LastEvent(e) == LET S == EventsOf(e) IN lines[CHOOSE i \in S : IsLast(i, S)]

\* _rebuild_index, of an undamaged file
RebuiltIndex ==
    [e \in Executions |->
        IF EventsOf(e) = {} THEN 0 ELSE LastEvent(e).id]

NoSnap == [damaged |-> FALSE, index |-> [e \in Executions |-> 0]]

\* Mutant: undecodable lines are skipped.
ReadFileSkippingJunk == [damaged |-> FALSE, index |-> RebuiltIndex]

\* _read_events: the whole journal, or the exception of its first bad line.
ReadFile == [damaged |-> Damaged,
             index |-> IF Damaged THEN [e \in Executions |-> 0]
                                  ELSE RebuiltIndex]

\* Mutant: the append truncates the file first (mode "w").
WriteLineTruncating(r) == lines' = <<r>> /\ open' = FALSE

\* Bytes written after an unterminated line join it: Junk.
WriteLine(r) ==
    /\ lines' = IF open THEN Append(SubSeq(lines, 1, Len(lines) - 1), Junk)
                        ELSE Append(lines, r)
    /\ open' = FALSE
WritePart ==
    /\ lines' = IF open THEN Append(SubSeq(lines, 1, Len(lines) - 1), Junk)
                        ELSE Append(lines, Junk)
    /\ open' = TRUE
WriteAllButNewline(r) ==
    /\ lines' = IF open THEN Append(SubSeq(lines, 1, Len(lines) - 1), Junk)
                        ELSE Append(lines, r)
    /\ open' = TRUE

----------------------------------------------------------------------------
(* append_lineage_event *)

\* Building: the contract is not returned to the caller yet.
Building(t) == target[t] \in {"CREATED", "APPROVED"}

\* An append that raises leaves a frozen contract as it was, for its caller
\* to unwind; a build that raises returns none.
Raise(t) ==
    /\ pc' = [pc EXCEPT ![t] = IF Building(t) THEN "idle" ELSE "unwind"]
    /\ contract' = [contract EXCEPT ![t] = IF Building(t) THEN NoContract
                                                         ELSE @]
    /\ snap' = [snap EXCEPT ![t] = NoSnap]
    /\ UNCHANGED target

\* _ensure_index_loaded, up to the end of the reading loop.  No lock is held.
EnsureIndex(t) ==
    /\ pc[t] = "ensure"
    /\ \/ /\ lstate = "WRITE_BLOCKED"
          /\ Raise(t)
       \/ /\ lstate = "HEALTHY" /\ loaded
          /\ pc' = [pc EXCEPT ![t] = "write"]
          /\ UNCHANGED <<contract, target, snap>>
       \/ /\ lstate # "WRITE_BLOCKED"
          /\ ~(lstate = "HEALTHY" /\ loaded)
          /\ pc' = [pc EXCEPT ![t] = "install"]
          /\ snap' = [snap EXCEPT ![t] = ReadFile]
          /\ UNCHANGED <<contract, target>>
    /\ UNCHANGED <<fileVars, indexVars, issued, nextId, safelyAcked, boundVars>>

\* The rest of it: the state and the index of what was read.
InstallIndex(t) ==
    /\ pc[t] = "install"
    /\ loaded' = ~snap[t].damaged
    /\ index' = snap[t].index
    /\ IF snap[t].damaged
       THEN /\ lstate' = "WRITE_BLOCKED"
            /\ Raise(t)
       ELSE /\ lstate' = "HEALTHY"
            /\ pc' = [pc EXCEPT ![t] = "write"]
            /\ snap' = [snap EXCEPT ![t] = NoSnap]
            /\ UNCHANGED <<contract, target>>
    /\ staleIndex' = \/ staleIndex
                     \/ (~snap[t].damaged /\ snap[t].index # RebuiltIndex)
    /\ UNCHANGED <<fileVars, issued, nextId, safelyAcked, tears, crashes,
                   bornDamaged>>

NewEvent(t) == [id |-> nextId, prev |-> index[contract[t].exec],
                exec |-> contract[t].exec, state |-> target[t]]

\* Mutant: the index is not updated.
KeepIndex(t) == index' = index

UpdateIndex(t) == index' = [index EXCEPT ![contract[t].exec] = nextId]

\* The event is on disk: the new copy of the contract has one more state, and
\* a build goes on from CREATED to APPROVED.
Acknowledge(t) ==
    /\ UpdateIndex(t)
    /\ contract' = [contract EXCEPT ![t].history = Append(@, target[t])]
    /\ pc' = [pc EXCEPT ![t] =
                 IF target[t] = "CREATED" THEN "ensure" ELSE "idle"]
    /\ target' = [target EXCEPT ![t] =
                     IF @ = "CREATED" THEN "APPROVED" ELSE @]
    /\ UNCHANGED snap

\* The critical section of append_lineage_event.
AppendEvent(t) ==
    /\ pc[t] = "write"
    /\ \/ \* the journal is blocked, or signing or opening it raises
          /\ Raise(t)
          /\ UNCHANGED <<fileVars, indexVars, nextId, safelyAcked, tears>>
       \/ \* written, flushed, fsynced
          /\ lstate = "HEALTHY"
          /\ nextId <= MaxEvents
          /\ WriteLine(NewEvent(t))
          /\ nextId' = nextId + 1
          /\ safelyAcked' = IF Damaged' THEN safelyAcked
                                        ELSE safelyAcked \cup {nextId}
          /\ Acknowledge(t)
          /\ UNCHANGED <<lstate, loaded, tears>>
       \/ \* the write raises and leaves part of the line
          /\ lstate = "HEALTHY"
          /\ tears < MaxTears
          /\ WritePart
          /\ tears' = tears + 1
          /\ Raise(t)
          /\ UNCHANGED <<indexVars, nextId, safelyAcked>>
       \/ \* the write or the fsync raises with the record in the file
          /\ LateFailures
          /\ lstate = "HEALTHY"
          /\ nextId <= MaxEvents
          /\ WriteLine(NewEvent(t)) \/ WriteAllButNewline(NewEvent(t))
          /\ nextId' = nextId + 1
          /\ Raise(t)
          /\ UNCHANGED <<indexVars, safelyAcked, tears>>
    /\ UNCHANGED <<issued, crashes, bornDamaged, staleIndex>>

----------------------------------------------------------------------------
(* The callers. *)

\* build_execution_contract: the CREATED and then the APPROVED event.
BuildContract(t, e) ==
    /\ pc[t] = "idle" /\ contract[t] = NoContract
    /\ e \notin issued
    /\ issued' = issued \cup {e}
    /\ contract' = [contract EXCEPT ![t] = [exec |-> e, history |-> <<>>]]
    /\ target' = [target EXCEPT ![t] = "CREATED"]
    /\ pc' = [pc EXCEPT ![t] = "ensure"]
    /\ UNCHANGED <<fileVars, indexVars, snap, nextId, safelyAcked, boundVars>>

\* advance_execution_state.  A caller that saw it raise only asks for FAILED.
Advance(t, s) ==
    /\ pc[t] = "idle" \/ (pc[t] = "unwind" /\ s = "FAILED")
    /\ contract[t] # NoContract
    /\ MayAdvance(contract[t], s)
    /\ target' = [target EXCEPT ![t] = s]
    /\ pc' = [pc EXCEPT ![t] = "ensure"]
    /\ UNCHANGED <<fileVars, indexVars, contract, snap, issued, nextId,
                   safelyAcked, boundVars>>

\* The caller returns and its contract is gone.
Return(t) ==
    /\ pc[t] \in {"idle", "unwind"} /\ contract[t] # NoContract
    /\ contract' = [contract EXCEPT ![t] = NoContract]
    /\ pc' = [pc EXCEPT ![t] = "idle"]
    /\ UNCHANGED <<fileVars, indexVars, target, snap, issued, nextId,
                   safelyAcked, boundVars>>

\* replay_execution_lineage, for GET /api/lineage/{id}: the reading loop ...
BeginReplay(t) ==
    /\ pc[t] = "idle" /\ contract[t] = NoContract
    /\ pc' = [pc EXCEPT ![t] = "replay"]
    /\ snap' = [snap EXCEPT ![t] = ReadFile]
    /\ UNCHANGED <<fileVars, indexVars, contract, target, issued, nextId,
                   safelyAcked, boundVars>>

\* ... and the journal state it concludes.
EndReplay(t) ==
    /\ pc[t] = "replay"
    /\ lstate' = IF snap[t].damaged THEN "WRITE_BLOCKED" ELSE "HEALTHY"
    /\ pc' = [pc EXCEPT ![t] = "idle"]
    /\ snap' = [snap EXCEPT ![t] = NoSnap]
    /\ UNCHANGED <<fileVars, loaded, index, contract, target, issued, nextId,
                   safelyAcked, boundVars>>

----------------------------------------------------------------------------
(* The process. *)

\* A new process: nothing in memory survives.
Restart ==
    /\ lstate' = "UNINITIALIZED"
    /\ loaded' = FALSE
    /\ index' = [e \in Executions |-> 0]
    /\ pc' = [t \in Threads |-> "idle"]
    /\ contract' = [t \in Threads |-> NoContract]
    /\ snap' = [t \in Threads |-> NoSnap]
    /\ UNCHANGED <<target, staleIndex>>
    /\ bornDamaged' = Damaged'

Crash ==
    /\ crashes < MaxCrashes
    /\ crashes' = crashes + 1
    /\ UNCHANGED <<fileVars, issued, nextId, safelyAcked, tears>>
    /\ Restart

\* The process dies in the middle of a write, or right after it.
CrashInWrite(t) ==
    /\ pc[t] = "write" /\ lstate = "HEALTHY"
    /\ crashes < MaxCrashes
    /\ crashes' = crashes + 1
    /\ \/ /\ nextId <= MaxEvents
          /\ WriteLine(NewEvent(t))
          /\ nextId' = nextId + 1
          /\ UNCHANGED tears
       \/ /\ tears < MaxTears
          /\ WritePart
          /\ tears' = tears + 1
          /\ UNCHANGED nextId
    /\ Restart
    /\ UNCHANGED <<issued, safelyAcked>>

\* The operator keeps the readable lines and restarts the service.
Repair ==
    /\ \E i \in 1..Len(lines) :
          /\ lines[i] = Junk /\ i - 1 \in Readable \cup {0}
          /\ lines' = SubSeq(lines, 1, i - 1)
    /\ open' = FALSE
    /\ Restart
    /\ UNCHANGED <<issued, nextId, safelyAcked, tears, crashes>>

Init ==
    /\ lines = <<>> /\ open = FALSE
    /\ lstate = "UNINITIALIZED" /\ loaded = FALSE
    /\ index = [e \in Executions |-> 0]
    /\ pc = [t \in Threads |-> "idle"]
    /\ contract = [t \in Threads |-> NoContract]
    /\ target = [t \in Threads |-> "CREATED"]
    /\ snap = [t \in Threads |-> NoSnap]
    /\ issued = {} /\ nextId = 1 /\ safelyAcked = {}
    /\ tears = 0 /\ crashes = 0 /\ bornDamaged = FALSE
    /\ staleIndex = FALSE

Next ==
    \/ \E t \in Threads :
          \/ EnsureIndex(t) \/ InstallIndex(t) \/ AppendEvent(t)
          \/ Return(t) \/ BeginReplay(t) \/ EndReplay(t) \/ CrashInWrite(t)
          \/ \E e \in Executions : BuildContract(t, e)
          \/ \E s \in States : Advance(t, s)
    \/ Crash
    \/ Repair

Spec == Init /\ [][Next]_vars

----------------------------------------------------------------------------
(* Properties. *)

\* replay_execution_lineage of an undamaged journal: consecutive events of
\* the execution chain, they start with CREATED and each follows legally.
ReplayAccepts(e) ==
    \A i \in EventsOf(e) :
        LET before == {k \in EventsOf(e) : k < i}
        IN  \/ before = {} /\ lines[i].state = "CREATED"
            \/ \E k \in before :
                  /\ IsLast(k, before)
                  /\ lines[i].prev = lines[k].id
                  /\ lines[i].state \in Legal[lines[k].state]

\* The lineage the service wrote is one its own replay accepts.
EveryLineageReplays == \A e \in Executions : ReplayAccepts(e)

\* Whatever the threads, failures and crashes, only an index installed from a
\* reading the journal has outgrown can make a lineage that does not replay.
OnlyStaleIndexBreaksLineage == ~staleIndex => EveryLineageReplays

\* An event that was acknowledged while the journal was readable is readable
\* for ever: no torn write, no line glued to one, no crash and no repair
\* takes it away.
AcknowledgedEventsSurvive ==
    \A id \in safelyAcked : \E i \in Readable : lines[i].id = id

\* A process that starts on a damaged journal never leaves the fail-closed
\* states, so it appends nothing, however its threads interleave.
DamagedJournalStaysClosed == bornDamaged => lstate # "HEALTHY"

\* No event of an execution follows a terminal one.
TerminalIsFinal ==
    \A e \in Executions : \A i, k \in EventsOf(e) :
        i < k => lines[i].state \notin Terminal

\* The last readable event of each execution goes through the life cycle of
\* ExecutionLifecycle.
Recorded ==
    [e \in Executions |->
        IF EventsOf(e) = {} THEN "NONE" ELSE LastEvent(e).state]

Abstract == INSTANCE ExecutionLifecycle WITH recorded <- Recorded

\* Every step of the journal is a legal transition of one execution, or none.
ImplementsExecutionLifecycle == Abstract!Spec
=============================================================================
