---------------------------- MODULE LineageReplay ----------------------------
(***************************************************************************)
(* What a replay says of the lineage of one execution.                     *)
(*                                                                         *)
(* advance_execution_state lets a copy of the contract advance when three  *)
(* validators agree: the legal transitions (contracts/                     *)
(* execution_contract.py), the prerequisites (contracts/                   *)
(* semantic_transition_validator.py) and the semantic guard (security/     *)
(* semantic_guard_engine.py).  Each step appends an event with the time of *)
(* the wall clock and a signature by the key of the process.  A replay     *)
(* verifies signatures and times (security/lineage_verifier.py), then the  *)
(* history by the guard, then the legal transitions again.                 *)
(*                                                                         *)
(* Copies are frozen values: whoever holds an older one can advance it     *)
(* again.  How events are chained and written is in LineageJournal.        *)
(***************************************************************************)
EXTENDS Integers, Sequences

CONSTANTS
    SigningKeys, \* values of LINEAGE_SIGNING_KEY
    Skew,        \* MAX_CLOCK_SKEW_SECONDS
    MaxClock,    \* bound: the wall clock
    MaxLineage,  \* bound: events
    MaxSetbacks  \* bound: adjustments of the clock, and restarts

VARIABLES
    clock,     \* the wall clock
    key,       \* the key of the process
    events,    \* the events of the execution in the journal
    copies,    \* the histories of the contracts that callers hold
    building,  \* a build has recorded its first event
    \* history
    latest,    \* what the clock read at most since the lineage began
    disordered,\* an event was recorded when the clock read less than that
    forked,    \* an older copy was advanced
    setbacks

vars == <<clock, key, events, copies, building, latest, disordered, forked, setbacks>>

States == {"CREATED", "APPROVED", "EXECUTED", "COMPLETED", "FAILED"}
Last(h) == h[Len(h)]
Reached(h) == {h[i] : i \in DOMAIN h}

----------------------------------------------------------------------------
(* contracts/execution_contract.py and semantic_transition_validator.py *)

\* LEGAL_STATE_TRANSITIONS
Legal == [CREATED   |-> {"APPROVED", "FAILED"},
          APPROVED  |-> {"EXECUTED", "FAILED"},
          EXECUTED  |-> {"COMPLETED", "FAILED"},
          COMPLETED |-> {},
          FAILED    |-> {}]

\* SEMANTIC_PREREQUISITES
Prerequisites == [CREATED   |-> {},
                  APPROVED  |-> {"CREATED"},
                  EXECUTED  |-> {"CREATED", "APPROVED"},
                  COMPLETED |-> {"CREATED", "APPROVED", "EXECUTED"},
                  FAILED    |-> {"CREATED"}]

----------------------------------------------------------------------------
(* security/semantic_guard_engine.py *)

\* SemanticFSM.ALLOWED_TRANSITIONS
Allowed == [CREATED   |-> {"APPROVED", "FAILED"},
            APPROVED  |-> {"EXECUTING", "FAILED"},
            EXECUTING |-> {"COMPLETED", "FAILED"},
            COMPLETED |-> {},
            FAILED    |-> {}]

\* SemanticFSM.TRANSITION_PREREQUISITES
Required == [CREATED   |-> {},
             APPROVED  |-> {"CREATED"},
             EXECUTING |-> {"CREATED", "APPROVED"},
             COMPLETED |-> {"CREATED", "APPROVED", "EXECUTING"},
             FAILED    |-> {"CREATED"}]
Lookup(table, s, otherwise) == IF s \in DOMAIN table THEN table[s] ELSE otherwise
TerminalStates == {"COMPLETED", "FAILED"}

\* _validate_terminal_state_lock, of the contract and of the guard alike
Unlocked(now, next) == now \in TerminalStates => next = now

\* _check_prerequisites: nothing is missing of what the state requires.
Prepared(past, next) == Lookup(Required, next, {}) \subseteq Reached(past)

\* _normalize_state
Normal(s) == IF s = "EXECUTED" THEN "EXECUTING" ELSE s
Normalised(h) == [i \in DOMAIN h |-> Normal(h[i])]

\* _check_governance_coupling: the governance state is looked up as it is, and
\* a state that is not in the table is below all others.
Coupled(g, next) ==
    LET rank == [CREATED |-> 0, APPROVED |-> 1, EXECUTING |-> 2, COMPLETED |-> 3, FAILED |-> 3]
    IN  Lookup(rank, g, -1) >= Lookup(rank, next, 3) - 1

\* validate_transition
GuardAccepts(h, s, g) ==
    LET past == Normalised(h)
        next == Normal(s)
    IN  /\ Unlocked(Last(past), next)
        /\ Prepared(past, next)
        /\ next \in Lookup(Allowed, Last(past), {})
        /\ g # "none" => Coupled(g, next)

\* validate_state_history, of the replayed events themselves
HistoryAccepted(h) ==
    LET past == Normalised(h)
    IN  /\ past # <<>> /\ past[1] = "CREATED"
        /\ \A i \in 1..Len(past) - 1 :
              /\ Prepared(SubSeq(past, 1, i), past[i + 1])
              /\ past[i + 1] \in Lookup(Allowed, past[i], {})

----------------------------------------------------------------------------
(* Replay *)

StatesOf(log) == [i \in DOMAIN log |-> log[i].state]

\* _check_lineage_consistency: no state of the history is hidden from the events.
Consistent(h, log) == Reached(Normalised(h)) \subseteq Reached(Normalised(StatesOf(log)))

\* Mutant: the future begins at once.
VerifiesWithoutSkew(log) ==
    /\ log[1].state = "CREATED"
    /\ \A i \in DOMAIN log :
          /\ log[i].key = key
          /\ log[i].at <= clock
          /\ i > 1 => log[i - 1].at <= log[i].at

\* verify_replay_chain: each event is signed by the key, none is older than the
\* one before, and none is too far in the future.
ChainVerifies(log) ==
    /\ log[1].state = "CREATED"
    /\ \A i \in DOMAIN log :
          /\ log[i].key = key
          /\ log[i].at <= clock + Skew
          /\ i > 1 => log[i - 1].at <= log[i].at

\* The loop of replay_execution_lineage
Walks(h) ==
    /\ h[1] = "CREATED"
    /\ \A i \in 1..Len(h) - 1 : h[i + 1] \in Legal[h[i]] /\ h[i] \notin TerminalStates

\* replay_execution_lineage
ReplayAccepts(log) ==
    /\ log # <<>>
    /\ ChainVerifies(log)
    /\ HistoryAccepted(StatesOf(log)) /\ Consistent(StatesOf(log), log)
    /\ Walks(StatesOf(log))

\* What the check of event i would say.  The signature comes first, then the
\* future, then the order.
Complaint(log, i) ==
    IF log[i].key # key THEN "INVALID_SIGNATURE"
    ELSE IF log[i].at > clock + Skew THEN "TIMESTAMP_IN_FUTURE"
    ELSE IF i > 1 /\ log[i - 1].at > log[i].at THEN "NON_DETERMINISTIC_ORDER"
    ELSE "none"

\* The error that ends replay_execution_lineage: the first complaint of the
\* chain, the report of the guard, or an illegal transition.
ReplayError(log) ==
    LET bad == {i \in DOMAIN log : Complaint(log, i) # "none"}
    IN  IF log = <<>> THEN "EXECUTION_NOT_FOUND"
        ELSE IF log[1].state # "CREATED" THEN "MUST_START_WITH_CREATED"
        ELSE IF bad # {} THEN Complaint(log, CHOOSE i \in bad : \A j \in bad : i <= j)
        ELSE IF ~HistoryAccepted(StatesOf(log)) THEN "SEMANTIC VIOLATION"
        ELSE IF ~Walks(StatesOf(log)) THEN "ILLEGAL"
        ELSE "none"

\* api_verify_lineage looks for words in the message of the error: "signature"
\* and "timestamp" are about the hashes, "illegal" is about the transitions.
VerifyAnswer(log) ==
    LET error == ReplayError(log)
    IN  [valid |-> error = "none",
         hash  |-> error \notin {"EXECUTION_NOT_FOUND", "INVALID_SIGNATURE", "TIMESTAMP_IN_FUTURE"},
         fsm   |-> error \notin {"EXECUTION_NOT_FOUND", "ILLEGAL"}]

----------------------------------------------------------------------------

\* append_lineage_event
Event(s) == [state |-> s, at |-> clock, key |-> key]
AppendEvent(s) ==
    /\ events' = Append(events, Event(s))
    /\ disordered' = (disordered \/ clock < latest)

\* build_execution_contract: two events, the clock may move between them.
Build ==
    /\ events = <<>>
    /\ events' = <<Event("CREATED")>>
    /\ building' = TRUE
    /\ UNCHANGED <<clock, key, copies, latest, disordered, forked, setbacks>>
Approve ==
    /\ building /\ building' = FALSE
    /\ AppendEvent("APPROVED")
    /\ copies' = {<<"CREATED", "APPROVED">>}
    /\ UNCHANGED <<clock, key, latest, forked, setbacks>>

\* The lock and the three validators of advance_execution_state
MayAdvance(h, s, g) ==
    /\ Unlocked(Last(h), s)
    /\ s \in Legal[Last(h)]
    /\ Prerequisites[s] \subseteq Reached(h)
    /\ GuardAccepts(h, s, g)

\* advance_execution_state of one copy
Advance(h, s, g) ==
    /\ Len(events) < MaxLineage
    /\ MayAdvance(h, s, g)
    /\ AppendEvent(s)
    /\ copies' = copies \cup {Append(h, s)}
    /\ forked' = (forked \/ Len(h) # Len(events))
    /\ UNCHANGED <<clock, key, building, latest, setbacks>>

Tick ==
    /\ clock < MaxClock /\ clock' = clock + 1
    /\ latest' = IF latest < clock' THEN clock' ELSE latest
    /\ UNCHANGED <<key, events, copies, building, disordered, forked, setbacks>>

\* The clock is adjusted; what was written keeps its time.
SetClockBack(t) ==
    /\ setbacks < MaxSetbacks /\ setbacks' = setbacks + 1
    /\ t < clock /\ clock' = t
    /\ latest' = IF events = <<>> THEN t ELSE latest
    /\ UNCHANGED <<key, events, copies, building, disordered, forked>>

\* A restart, with another key perhaps.  The contracts are lost.
Restart(k) ==
    /\ setbacks < MaxSetbacks /\ setbacks' = setbacks + 1
    /\ key' = k /\ copies' = {} /\ building' = FALSE
    /\ UNCHANGED <<clock, events, latest, disordered, forked>>

Init ==
    /\ clock \in 0..MaxClock /\ key \in SigningKeys
    /\ events = <<>> /\ copies = {}
    /\ building = FALSE
    /\ latest = clock /\ disordered = FALSE /\ forked = FALSE /\ setbacks = 0

Next ==
    \/ Build \/ Approve \/ Tick
    \/ \E h \in copies, s \in States, g \in States \cup {"none"} : Advance(h, s, g)
    \/ \E t \in 0..MaxClock : SetClockBack(t)
    \/ \E k \in SigningKeys : Restart(k)

Spec == Init /\ [][Next]_vars

----------------------------------------------------------------------------
(* Properties *)

Replaced == \E i \in DOMAIN events : events[i].key # key

\* The service can replay what it wrote: a lineage is rejected only while the
\* clock is behind what it read by more than the allowance, if an event was
\* recorded while it was behind at all, a copy was advanced twice, or the key
\* was replaced.  A smaller adjustment between two events does no harm, and a
\* larger one no lasting harm, if nothing is recorded before it is made up for.
\* The verification says that the hashes fail only for the key and for a clock
\* that is so far behind, and never that the transitions do: what is illegal
\* is refused by the guard, in words the verification does not look for.
HonestLineagesReplay ==
    LET answer == VerifyAnswer(events)
        behind == latest - clock > Skew
    IN  events # <<>> =>
           /\ ReplayAccepts(events) \/ behind \/ disordered \/ forked \/ Replaced
           /\ answer.valid = ReplayAccepts(events)
           /\ answer.hash \/ behind \/ Replaced
           /\ answer.fsm

=============================================================================
