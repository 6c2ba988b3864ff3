-------------------------- MODULE ActionGovernance --------------------------
(***************************************************************************)
(* The cooldowns and repetition limits of actions                          *)
(* (control_plane/core/action_governance.py).  Evaluations share no lock:  *)
(* each loads governance_state.json for its cooldown check, loads it again *)
(* for its repetition check, and, once the policy engine admitted the      *)
(* action, adds the action to what it loaded last and writes the file over *)
(* in place.  A file that does not parse is loaded as no history at all,   *)
(* and errors of the append-only log (EvidenceLog) and of the save are     *)
(* swallowed.                                                              *)
(*                                                                         *)
(* Four callers evaluate.  execute_action of the API ("api") has an        *)
(* ExecutionContract in its context, which json cannot write; the intake   *)
(* and the orchestrator's contract path ("contract") and its older path    *)
(* ("direct") have plain contexts.  These make an ActionGovernance for     *)
(* every evaluation.  The agent runtime ("agent") keeps one and evaluates  *)
(* one action at a time.                                                   *)
(***************************************************************************)
EXTENDS Integers, Sequences, FiniteSets

CONSTANTS
    Evaluations,   \* evaluations in progress together, one thread each
    Kinds,         \* the callers
    Actions,       \* action names
    Exempt,        \* noop and abstain: neither cooldown nor repetition limit
    Cooldown,      \* cooldown period of the other actions
    Limit,         \* repetition_limit
    Window,        \* repetition_window
    HistoryLength, \* maxlen of the history
    MaxTime,       \* bound: the clock
    MaxGranted,    \* bound: actions admitted
    MaxTroubles    \* bound: overlaps, saves that fail, crashes

ASSUME ActionGovernanceAssumption ==
    /\ Kinds \subseteq {"api", "contract", "direct", "agent"}
    /\ Exempt \subseteq Actions
    /\ {Cooldown, Window, MaxTime, MaxGranted, MaxTroubles} \subseteq Nat
    /\ {Limit, HistoryLength} \subseteq Nat \ {0}
    /\ Limit <= HistoryLength

VARIABLES
    now,        \* the clock, 1 at the start
    file,       \* governance_state.json
    eval,       \* the evaluation of each thread, or Idle
    \* history, read by the properties and the bounds only
    granted,    \* the actions admitted, in the order their evaluations ended
    causes,     \* what has happened that the checks do not cover
    troubles

vars == <<now, file, eval, granted, causes, troubles>>

----------------------------------------------------------------------------
(* The state of the governance. *)

Nothing == [last |-> [a \in Actions |-> 0], history |-> <<>>]

\* governance_state.json does not exist, does not parse, or holds a state.
Absent  == [kind |-> "absent", state |-> Nothing]
Torn    == [kind |-> "torn", state |-> Nothing]
Json(s) == [kind |-> "json", state |-> s]

\* A deque keeps the last HistoryLength records.
Pushed(h, r) ==
    LET longer == Append(h, r)
    IN  IF Len(longer) <= HistoryLength THEN longer ELSE Tail(longer)

Remembering(s, r) ==
    [last |-> [s.last EXCEPT ![r.action] = r.at], history |-> Pushed(s.history, r)]

\* began is current_time, stamp the time the action is recorded with, mem
\* _last_execution and _action_history.
\* pc is "cooldown", "repetition", "admit", "open" or "dump".
Idle == [pc |-> "idle"]

\* An evaluation at its next place, with what it recorded and remembers.
GoneTo(place, e, t, s) ==
    [eval EXCEPT ![e] = [pc |-> place, kind |-> @.kind, action |-> @.action,
                         began |-> @.began, stamp |-> t, mem |-> s]]

Busy == {e \in Evaluations : eval[e] # Idle}
At(e, place) == eval[e].pc = place

Trouble == troubles < MaxTroubles /\ troubles' = troubles + 1

----------------------------------------------------------------------------

\* evaluate_action or evaluate_contract of an eligible action: the environment
\* allows it, a restart or a scaling names its application, a rollback has a
\* version to go back to.
Begin(e, k, a) ==
    /\ eval[e] = Idle
    /\ Len(granted) + Cardinality(Busy) < MaxGranted
    /\ k = "agent" => \A d \in Busy : eval[d].kind # "agent"
    /\ eval' = [eval EXCEPT ![e] =
          [pc |-> "cooldown", kind |-> k, action |-> a, began |-> now,
           stamp |-> 0, mem |-> Nothing]]
    /\ \/ Busy = {} /\ UNCHANGED <<causes, troubles>>
       \/ Busy # {} /\ Trouble /\ causes' = causes \cup {"overlap"}
    /\ UNCHANGED <<now, file, granted>>

\* _load_state, then on to the next place, or out with a refusal.
LoadAndGo(e, blocked, place) ==
    /\ eval' = IF blocked THEN [eval EXCEPT ![e] = Idle]
                           ELSE GoneTo(place, e, 0, file.state)
    /\ causes' = causes \cup (IF file.kind = "torn" THEN {"torn"} ELSE {})
    /\ UNCHANGED <<now, file, granted, troubles>>

\* Mutant: the time of the last execution itself is never on cooldown.
OnCooldownAfter(e) ==
    LET last == file.state.last[eval[e].action]
    IN  /\ eval[e].action \notin Exempt
        /\ last # 0
        /\ eval[e].began - last \in 1..(Cooldown - 1)

OnCooldown(e) ==
    LET last == file.state.last[eval[e].action]
    IN  /\ eval[e].action \notin Exempt
        /\ last # 0
        /\ eval[e].began - last < Cooldown

\* _check_cooldown
CheckCooldown(e) ==
    /\ At(e, "cooldown")
    /\ LoadAndGo(e, OnCooldown(e), "repetition")

\* The records of its action inside the window of an evaluation.
Recent(e, h) == {i \in 1..Len(h) : /\ h[i].action = eval[e].action
                                   /\ h[i].at > eval[e].began - Window}

\* Mutant: the limit itself is still allowed.
RepeatedPastLimit(e) ==
    /\ eval[e].action \notin Exempt
    /\ Cardinality(Recent(e, file.state.history)) > Limit

RepeatedTooOften(e) ==
    /\ eval[e].action \notin Exempt
    /\ Cardinality(Recent(e, file.state.history)) >= Limit

\* _check_repetition
CheckRepetition(e) ==
    /\ At(e, "repetition")
    /\ LoadAndGo(e, RepeatedTooOften(e), "admit")

\* The policy engine denies the action.
Deny(e) ==
    /\ At(e, "admit")
    /\ eval' = [eval EXCEPT ![e] = Idle]
    /\ UNCHANGED <<now, file, granted, causes, troubles>>

\* The history is full, and of more than the action of the evaluation.
PushesOthersOut(e) ==
    LET h == eval[e].mem.history
    IN  /\ Len(h) = HistoryLength
        /\ \E i \in 1..Len(h) : h[i].action # eval[e].action

\* _record_action, in memory.
\* evaluate_action records the time it began, evaluate_contract the present one.
Record(e) ==
    LET t == IF eval[e].kind \in {"agent", "direct"} THEN eval[e].began
                                                     ELSE now
        r == [action |-> eval[e].action, at |-> t]
    IN  /\ At(e, "admit")
        /\ eval' = GoneTo("open", e, t, Remembering(eval[e].mem, r))
        /\ causes' = causes \cup
              (IF PushesOthersOut(e) THEN {"evicted"} ELSE {})
        /\ UNCHANGED <<now, file, granted, troubles>>

\* The caller is told that the action is allowed.
Grant(e) ==
    /\ granted' = Append(granted,
                         [action |-> eval[e].action, at |-> eval[e].stamp])
    /\ eval' = [eval EXCEPT ![e] = Idle]
    /\ UNCHANGED <<now>>

\* _save_state: open(state_path, "w") empties the file ...
OpenState(e) ==
    /\ At(e, "open")
    /\ file' = Torn
    /\ eval' = GoneTo("dump", e, eval[e].stamp, eval[e].mem)
    /\ UNCHANGED <<now, granted, causes, troubles>>

\* ... or fails, which is swallowed ...
OpenStateFails(e) ==
    /\ At(e, "open")
    /\ Trouble
    /\ causes' = causes \cup {"unsaved"}
    /\ Grant(e)
    /\ UNCHANGED file

Alone(e) == file.kind = "torn" /\ \A d \in Evaluations : At(d, "dump") => d = e

\* ... and json.dump writes it, up to the first thing it cannot write.  Next
\* to the bytes of another writer it replaces them, or mixes with them.
DumpState(e) ==
    /\ At(e, "dump")
    /\ \/ /\ eval[e].kind # "api"
          /\ file' \in {Json(eval[e].mem)} \cup
                       (IF Alone(e) THEN {} ELSE {Torn})
          /\ UNCHANGED troubles
       \/ /\ eval[e].kind = "api"
          /\ file' = Torn
          /\ UNCHANGED troubles
       \/ /\ Trouble
          /\ file' = Torn
    /\ Grant(e)
    /\ UNCHANGED causes

\* The process of an evaluation dies, and its action is never executed.
Crash(e) ==
    /\ eval[e] # Idle
    /\ Trouble
    /\ eval' = [eval EXCEPT ![e] = Idle]
    /\ UNCHANGED <<now, file, granted, causes>>

Tick ==
    /\ now < MaxTime
    /\ now' = now + 1
    /\ UNCHANGED <<file, eval, granted, causes, troubles>>

Init ==
    /\ now = 1
    /\ file = Absent
    /\ eval = [e \in Evaluations |-> Idle]
    /\ granted = <<>> /\ causes = {} /\ troubles = 0

Next ==
    \/ \E e \in Evaluations :
          \/ \E k \in Kinds, a \in Actions : Begin(e, k, a)
          \/ CheckCooldown(e) \/ CheckRepetition(e) \/ Deny(e) \/ Record(e)
          \/ OpenState(e) \/ OpenStateFails(e) \/ DumpState(e) \/ Crash(e)
    \/ Tick

Spec == Init /\ [][Next]_vars

----------------------------------------------------------------------------
(* Properties. *)

Distance(i, j) == LET d == granted[i].at - granted[j].at
                  IN  IF d < 0 THEN -d ELSE d

\* Two admissions of one action are a cooldown apart.
CooldownRespected ==
    \A i, j \in 1..Len(granted) :
        i # j /\ granted[i].action = granted[j].action
              /\ granted[i].action \notin Exempt
        => Distance(i, j) >= Cooldown

\* The cooldown holds over any number of callers, instances and restarts, as
\* long as no two evaluations overlap and no state is lost: what one instance
\* admits, the next one knows.
OnlyOverlapOrLossBreaksCooldown ==
    causes \cap {"overlap", "torn", "unsaved"} = {} => CooldownRespected

\* In the window that ends with an admission, its action is admitted at most
\* Limit times.
RepetitionBounded ==
    \A i \in 1..Len(granted) : granted[i].action \notin Exempt =>
        Cardinality({j \in 1..Len(granted) :
            /\ granted[j].action = granted[i].action
            /\ granted[j].at \in (granted[i].at - Window + 1)..granted[i].at})
        <= Limit

\* The repetition limit holds as long as no evaluations overlap, no state is
\* lost, and no records of other actions pushed the records of the action out
\* of the history.
OnlyCausesBreakRepetition == causes = {} => RepetitionBounded

=============================================================================
