----------------------------- MODULE AgentMemory -----------------------------
(***************************************************************************)
(* The short-term memory of an agent (core/agent_memory.py) as the runtime *)
(* uses it: governance blocks go into a bounded deque, an orderly shutdown *)
(* writes the memory to a file and the next start loads it.  The runtime   *)
(* remembers nothing else: its observations name no application, so the    *)
(* state of one is never stored.  A decision is its number.                *)
(*                                                                         *)
(* The snapshot carries the decisions and the statistics; loading it takes *)
(* the decisions only.                                                     *)
(***************************************************************************)
EXTENDS Integers, Sequences, SequencesExt

CONSTANTS
    Capacity,     \* max_decisions
    MaxBlocks,    \* bound: decisions over all lives
    MaxLives      \* bound: starts of the agent

VARIABLES
    alive,      \* the agent runs
    decisions,  \* decision_memory, oldest first
    seen,       \* total_decisions_seen
    snapshot,   \* memory_snapshot_<agent>.json: absent, torn, or what it holds
    lives,      \* starts so far
    \* history
    blocked,    \* decisions blocked so far
    lost        \* decisions an end that was not orderly took

memoryVars == <<alive, decisions, seen, snapshot, lives, blocked, lost>>

Absent == [state |-> "absent", decisions |-> <<>>]
Torn == [state |-> "torn", decisions |-> <<>>]

\* Mutant: a full memory takes no more.
RememberWhileRoom(d) ==
    IF Len(decisions) < Capacity THEN Append(decisions, d) ELSE decisions

\* remember_decision: deque(maxlen) drops the oldest
Remember(d) ==
    IF Len(decisions) < Capacity THEN Append(decisions, d) ELSE Append(Tail(decisions), d)

\* A decision is blocked by governance: the only call of the runtime.
Block ==
    /\ alive /\ blocked < MaxBlocks /\ blocked' = blocked + 1
    /\ decisions' = Remember(blocked')
    /\ seen' = seen + 1
    /\ UNCHANGED <<alive, snapshot, lives, lost>>

\* What a start finds: load_memory_snapshot, or a fresh memory if that fails
Recovered == snapshot.decisions

\* AgentRuntime.__init__
StartAgent ==
    /\ ~alive /\ lives < MaxLives /\ lives' = lives + 1
    /\ alive' = TRUE
    /\ decisions' = Recovered /\ seen' = 0
    /\ UNCHANGED <<snapshot, blocked, lost>>

\* The decisions the file does not have when the agent ends over it
Unsaved(file) == ToSet(decisions) \ ToSet(file.decisions)

EndOver(file) ==
    /\ alive /\ alive' = FALSE
    /\ snapshot' = file
    /\ lost' = lost \cup Unsaved(file)
    /\ UNCHANGED <<decisions, seen, lives, blocked>>

\* shutdown: to_json, when the state of the agent could be saved before
ShutDown == EndOver([state |-> "saved", decisions |-> decisions])

\* A crash, or the state could not be saved: the older file stays.
Crash == EndOver(snapshot)

\* The file was opened for writing and the dump did not finish.
SaveTears == EndOver(Torn)

\* get_memory_stats, decisions_evicted: negative after a start from a file,
\* whose decisions are not counted as seen
Evicted == seen - Len(decisions)

MemoryInit ==
    /\ alive = FALSE /\ decisions = <<>> /\ seen = 0 /\ snapshot = Absent
    /\ lives = 0 /\ blocked = 0 /\ lost = {}

MemoryNext == Block \/ StartAgent \/ ShutDown \/ Crash \/ SaveTears

MemorySpec == MemoryInit /\ [][MemoryNext]_memoryVars

----------------------------------------------------------------------------
(* Properties *)

\* What a running agent remembers is the newest decisions of this start and the
\* earlier ones: of as many as fit, it lacks those an end that was not orderly
\* took.  Its statistics count no eviction that did not happen.
OnlyDisorderForgets ==
    alive => /\ \A d \in 1..blocked : blocked - d < Capacity => d \in ToSet(decisions) \cup lost
             /\ Evicted > 0 => blocked > Capacity
=============================================================================
