----------------------------- MODULE EvidenceLog -----------------------------
(***************************************************************************)
(* The append-only execution journal (persistence/append_only_log.py), the *)
(* replay index and the snapshots derived from it                          *)
(* (persistence/replay_index.py), as a RegistryManager holds them            *)
(* (core/registry_manager.py), and the recovery that verifies one          *)
(* execution against all of them (deployment/recovery_validator.py).       *)
(*                                                                         *)
(* Every log object keeps the last sequence number and hash of each        *)
(* execution in memory from its construction and never looks at the file   *)
(* again; several objects write one file.  A write that fails leaves part  *)
(* of a line, to which the next line of any object is glued.  Hashes are   *)
(* identities; that they cannot be forged is assumed.                      *)
(***************************************************************************)
EXTENDS Integers, FiniteSets, Sequences

CONSTANTS
    Managers,    \* RegistryManager objects, each with its log and its index
    Executions,
    Signed,      \* executions whose writers sign their events
    NoExecution,
    MaxEvents,   \* bound: identities given to events
    MaxTroubles, \* bound: writes that fail
    MaxDerived   \* bound: index updates and snapshots

VARIABLES
    lines,     \* the lines of the journal
    fragment,  \* the last line lacks its newline
    known,     \* [manager][execution]: its _execution_sequences and _execution_last_hashes
    replay,    \* [manager]: the index in its memory
    index,     \* the index file
    snapshots, \* the snapshot registry file: the latest of each execution
    checking,  \* what a validation that rebuilds an index entry has read
    \* history and bounds
    acked,     \* [execution]: the events append returned, in that order
    late,      \* events whose append raised although their line was complete
    blind,     \* executions appended to by an object that did not know them all
    nextId, troubles, derived

logVars    == <<lines, fragment, known>>
indexVars  == <<replay, index, snapshots>>
boundVars  == <<nextId, troubles, derived>>
vars == <<logVars, indexVars, checking, acked, late, blind, boundVars>>

NoHash   == 0   \* the empty previous_hash of a first event
NoEntry  == [count |-> 0, last |-> NoHash]
NoIndex  == [e \in Executions |-> NoEntry]   \* also what an unreadable file loads as
Nobody   == [seq |-> 0, last |-> NoHash]
Junk     == [exec |-> NoExecution, seq |-> 0, id |-> 0, prev |-> NoHash]
NotChecking == [exec |-> NoExecution, events |-> {}, index |-> NoIndex]

\* get_execution_events: the readable events of an execution.
EventsOf(e) == {lines[i] : i \in {j \in DOMAIN lines : lines[j].exec = e}}
LastOf(E) == CHOOSE x \in E : \A y \in E : y.seq <= x.seq
Ids(E) == {x.id : x \in E}

----------------------------------------------------------------------------
\* AppendOnlyLog

\* _rebuild_from_journal: the greatest sequence, the hash of the last line.
Rebuilt == [e \in Executions |->
    LET mine == {i \in DOMAIN lines : lines[i].exec = e}
        final == CHOOSE i \in mine : \A j \in mine : j <= i
    IN  IF mine = {} THEN Nobody
        ELSE [seq |-> LastOf(EventsOf(e)).seq, last |-> lines[final].id]]

NewEvent(m, e) == [exec |-> e, seq |-> known[m][e].seq + 1, id |-> nextId,
                   prev |-> known[m][e].last]

\* open(.., 'a') and one write: a fragment swallows the line that follows it.
Written(line) == IF fragment THEN [lines EXCEPT ![Len(lines)] = Junk]
                 ELSE Append(lines, line)

\* It has not seen the newest event: its number is lower, or it has given the
\* same one to another event.
Behind(m, e) == /\ acked[e] # <<>>
                /\ LET newest == acked[e][Len(acked[e])]
                   IN  \/ known[m][e].seq < newest.seq
                       \/ known[m][e].seq = newest.seq /\ known[m][e].last # newest.id

Blindly(m, e) == blind \cup {x \in {e} : Behind(m, x)}

AppendEvent(m, e) ==
    /\ nextId <= MaxEvents
    /\ lines' = Written(NewEvent(m, e)) /\ fragment' = FALSE
    /\ known' = [known EXCEPT ![m][e] = [seq |-> @.seq + 1, last |-> nextId]]
    /\ acked' = [acked EXCEPT ![e] = Append(@, NewEvent(m, e))]
    /\ blind' = Blindly(m, e)
    /\ nextId' = nextId + 1
    /\ UNCHANGED <<indexVars, checking, late, troubles, derived>>

\* A write that fails leaves part of the line, or all of it but its newline; on
\* a fragment either is lost.
LeaveFragment(m, e) ==
    /\ fragment' = TRUE
    /\ \/ lines' = Written(Junk) /\ UNCHANGED <<late, blind, nextId>>
       \/ /\ ~fragment
          /\ lines' = Written(NewEvent(m, e)) /\ nextId' = nextId + 1
          /\ late' = late \cup {NewEvent(m, e)} /\ blind' = Blindly(m, e)

\* The write raises (the disk is full); the maps in memory are as before.
AppendFails(m, e) ==
    /\ nextId <= MaxEvents
    /\ troubles < MaxTroubles /\ troubles' = troubles + 1
    /\ LeaveFragment(m, e)
    /\ UNCHANGED <<known, indexVars, checking, acked, derived>>

\* The process of a manager dies and a new manager is made: both caches are
\* read from the files.
Restart(m) ==
    /\ known' = [known EXCEPT ![m] = Rebuilt]
    /\ replay' = [replay EXCEPT ![m] = index]
    /\ UNCHANGED <<lines, fragment, index, snapshots, checking, acked, late, blind, boundVars>>

----------------------------------------------------------------------------
\* ReplayIndex and SnapshotRegistry

EntryFor(E) == [count |-> Cardinality(E), last |-> LastOf(E).id]

\* update_execution from the events of the journal: the whole map in memory
\* replaces the file; a failing save leaves a file that loads as nothing.
UpdateIndex(m, e) ==
    /\ EventsOf(e) # {}
    /\ derived < MaxDerived /\ derived' = derived + 1
    /\ replay' = [replay EXCEPT ![m][e] = EntryFor(EventsOf(e))]
    /\ \/ index' = replay'[m] /\ UNCHANGED troubles
       \/ /\ troubles < MaxTroubles /\ troubles' = troubles + 1
          /\ index' = NoIndex
    /\ UNCHANGED <<logVars, snapshots, checking, acked, late, blind, nextId>>

\* register_snapshot with the state hash of the events so far, by a registry
\* object of its own.
RegisterSnapshot(e) ==
    /\ EventsOf(e) # {}
    /\ derived < MaxDerived /\ derived' = derived + 1
    /\ \/ /\ snapshots' = [snapshots EXCEPT ![e] = Ids(EventsOf(e))]
          /\ UNCHANGED troubles
       \/ /\ troubles < MaxTroubles /\ troubles' = troubles + 1
          /\ snapshots' = [x \in Executions |-> {}]
    /\ UNCHANGED <<logVars, replay, index, checking, acked, late, blind, nextId>>

----------------------------------------------------------------------------
\* RecoveryValidator.validate

\* HashLineageVerifier.verify_sequence_continuity: no number twice.
SequenceOk(E) == \A x, y \in E : x.seq = y.seq => x = y

\* Mutant: a chain is accepted wherever it starts.
ChainFromAnywhere(E) == \A x \in E :
    LET before == {y \in E : y.seq < x.seq}
    IN  before # {} => x.prev = LastOf(before).id

\* verify_hash_chain: the first names nothing, each other the one before it.
ChainOk(E) == \A x \in E :
    LET before == {y \in E : y.seq < x.seq}
    IN  x.prev = IF before = {} THEN NoHash ELSE LastOf(before).id

\* verify_execution_lineage, which the proof scripts use: the events are those
\* of the execution, in their order and, as lines that can be read, as they
\* were written.
LineageValid(E) == SequenceOk(E) /\ ChainOk(E)

\* A recovery asks for the signatures of the writers as well.
Verifies(e, E) == SequenceOk(E) /\ ChainOk(E) /\ e \in Signed

\* The search for a gap starts at the first event there is.
GapIn(E) == \E x \in E : /\ \E y \in E : y.seq < x.seq
                         /\ ~\E y \in E : y.seq = x.seq - 1

\* LegitimacyDoctrine.compute
Legitimacy(sigValid, traceValid, schemaValid, deps) ==
    IF ~sigValid \/ ~traceValid \/ ~schemaValid THEN "ILLEGITIMATE"
    ELSE IF deps \in {"MISSING_DB_INDEX", "PARTIAL_REPLAY_GAP"} THEN "LEGITIMATE_AMBIGUOUS"
    ELSE IF deps = "RL_UNAVAILABLE" THEN "LEGITIMATE_DEGRADED"
    ELSE "LEGITIMATE_VALID"

\* Mutant: a gap counts as forgery as well.
BrokenIsForged(E) == Legitimacy(TRUE, FALSE, TRUE, "ALL_AVAILABLE")

\* A gap or a repeated number is an incomplete replay, any other failure forgery.
BrokenLegitimacy(E) ==
    IF GapIn(E) \/ ~SequenceOk(E)
    THEN Legitimacy(TRUE, TRUE, TRUE, "PARTIAL_REPLAY_GAP")
    ELSE Legitimacy(TRUE, FALSE, TRUE, "ALL_AVAILABLE")

IndexFailures(entry, E) ==
    (IF entry.count # Cardinality(E) THEN {"replay_index_event_count_mismatch"} ELSE {})
    \cup (IF entry.last # LastOf(E).id THEN {"replay_index_last_hash_mismatch"} ELSE {})

SnapshotFailures(e, E) ==
    IF snapshots[e] \notin {{}, Ids(E)} THEN {"state_hash_mismatch"} ELSE {}

\* The failures of a recovery; a missing entry of the index is none, it is rebuilt.
Failures(e) == LET E == EventsOf(e) IN
    IF E = {} THEN {"journal_missing_or_empty"}
    ELSE IF ~Verifies(e, E) THEN {"hash_verification_failed"}
    ELSE (IF index[e] = NoEntry THEN {} ELSE IndexFailures(index[e], E))
         \cup SnapshotFailures(e, E)

Ready(e) == Failures(e) = {}

LegitimacyOf(e) ==
    IF EventsOf(e) # {} /\ ~Verifies(e, EventsOf(e)) THEN BrokenLegitimacy(EventsOf(e))
    ELSE Legitimacy(TRUE, TRUE, TRUE,
                    IF Ready(e) THEN "ALL_AVAILABLE" ELSE "MISSING_DB_INDEX")

\* A recovery of an execution that verifies and has no entry rebuilds it in
\* the index it has loaded ...
LoadForRebuild(e) ==
    /\ checking = NotChecking
    /\ EventsOf(e) # {} /\ Verifies(e, EventsOf(e))
    /\ index[e] = NoEntry
    /\ checking' = [exec |-> e, events |-> EventsOf(e), index |-> index]
    /\ UNCHANGED <<logVars, indexVars, acked, late, blind, boundVars>>

\* ... and saves all of it; a failing save is a missing index.
Rebuild ==
    /\ checking # NotChecking
    /\ \/ /\ index' = [checking.index EXCEPT ![checking.exec] = EntryFor(checking.events)]
          /\ UNCHANGED troubles
       \/ /\ troubles < MaxTroubles /\ troubles' = troubles + 1
          /\ index' = NoIndex
    /\ checking' = NotChecking
    /\ UNCHANGED <<logVars, replay, snapshots, acked, late, blind,
                   nextId, derived>>

----------------------------------------------------------------------------

Init ==
    /\ lines = <<>> /\ fragment = FALSE
    /\ known = [m \in Managers |-> [e \in Executions |-> Nobody]]
    /\ replay = [m \in Managers |-> NoIndex]
    /\ index = NoIndex
    /\ snapshots = [e \in Executions |-> {}]
    /\ checking = NotChecking
    /\ acked = [e \in Executions |-> <<>>]
    /\ late = {} /\ blind = {} /\ nextId = 1 /\ troubles = 0 /\ derived = 0

Next ==
    \/ \E m \in Managers :
        \/ \E e \in Executions : AppendEvent(m, e) \/ AppendFails(m, e) \/ UpdateIndex(m, e)
        \/ Restart(m)
    \/ \E e \in Executions : RegisterSnapshot(e) \/ LoadForRebuild(e)
    \/ Rebuild

Spec == Init /\ [][Next]_vars

----------------------------------------------------------------------------
\* Properties

Acked(e) == {acked[e][i] : i \in DOMAIN acked[e]}
Late(e) == {x \in late : x.exec = e}
Lost(e) == (Acked(e) \cup Late(e)) \ EventsOf(e)

\* "Missing events detected" (hash_lineage_verifier.py): an execution that a
\* recovery calls READY, or the verifier VALID, lacks no acknowledged event
\* before its last one.
\* False when a log object is made anew after an acknowledged line was glued to
\* a fragment, or when two objects write one execution.
NothingMissing(e) ==
    Ready(e) \/ LineageValid(EventsOf(e)) =>
        \A x \in Acked(e) \ EventsOf(e) : \A y \in EventsOf(e) : x.seq > y.seq

\* It lacks none unless an object that did not know the missing event has
\* appended to it since: any other leaves a chain that shows the loss.
OnlyBlindAppendsHideLosses == \A e \in Executions \ blind : NothingMissing(e)

\* Damage is told from forgery: of an execution whose events are signed a
\* recovery says ILLEGITIMATE only when its first event was lost (the search
\* for gaps starts behind it), or an object that did not know all of it wrote.
HonestDamageIsNotForgery ==
    \A e \in Signed \ blind :
        LegitimacyOf(e) = "ILLEGITIMATE" => \E x \in Lost(e) : x.prev = NoHash

=============================================================================
