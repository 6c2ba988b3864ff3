-------------------------- MODULE SafeOrchestrator --------------------------
(***************************************************************************)
(* The orchestrator that executes the decisions of the remote decision     *)
(* service (control_plane/core/rl_orchestrator_safe.py), its two entries   *)
(* -- execute_action and the runtime pipe (core/runtime_rl_pipe.py) -- and *)
(* the manual freezes of applications it respects                          *)
(* (control_plane/app_override_manager.py).                                *)
(*                                                                         *)
(* A request is charged to the governance twice: evaluate_contract when    *)
(* its decision is accepted, evaluate_action as the last gate.  Between    *)
(* the two an execution contract is built, whose CREATED and APPROVED      *)
(* events are in the lineage from then on.  The charges are in             *)
(* governance_state.json, which every evaluation of the backend loads,     *)
(* changes and writes over without a lock (core/action_governance.py).     *)
(* The demo gates never refuse: the module that would switch them on is    *)
(* not in the repository.                                                  *)
(***************************************************************************)
EXTENDS Integers, Sequences, FiniteSets

CONSTANTS
    Requests,    \* requests in progress, one thread each
    Others,      \* other threads that evaluate actions: API, intake, agents
    Operators,   \* threads that set and clear freezes
    Apps,
    Envs,        \* environments among dev, stage, prod
    Wanted,      \* actions requested
    Cooldown,    \* cooldown period of every action but noop
    MaxReplicas, \* max_replicas; min_replicas is 1
    MaxTime,     \* bound: the clock
    Budgets,     \* bound: pairs of operations on the freezes and other evaluations
    MaxTroubles  \* bound: writes that fail

VARIABLES
    now,       \* the clock, 1 at the start
    env,       \* environment of the orchestrators
    emergency, \* EMERGENCY_FREEZE_ENABLED of the process
    charged,   \* governance_state.json: when each action was last recorded
    evaluation,\* [thread]: where its evaluation stands, or Resting
    store,     \* app_overrides.json: until when each application is frozen
    operator,  \* what each operator is about
    request,   \* [request]: where it stands
    lineage,   \* [request]: the states recorded of its execution
    replicas,  \* [app]: simulated replicas of the orchestrator that is shared
    \* history
    promised,  \* until when each application was said to be frozen
    causes,    \* what has happened that the checks do not cover
    outside,   \* what is left of the budget
    troubles

fixed == <<env, emergency>>
governanceVars == <<charged, evaluation>>
freezeVars == <<store, operator, promised, outside>>
vars == <<now, fixed, governanceVars, freezeVars, request, lineage, replicas, causes, troubles>>

SafeActions == {"noop", "restart", "scale_up", "scale_down", "rollback"}
Ungoverned == {"noop"}
ActionMap == [index \in 0..4 |-> <<"noop", "restart", "scale_up", "scale_down", "rollback">>[index + 1]]

\* _eligibility_rules of the governance, by its environment.
Eligible ==
    [dev   |-> SafeActions,
     stage |-> SafeActions \ {"rollback"},
     prod  |-> {"noop", "restart"}]

\* safety_rules: what is_action_safe of the orchestrator accepts.
Safe ==
    [dev   |-> SafeActions \ {"rollback"},
     stage |-> {"noop", "restart"},
     prod  |-> {"noop", "restart"}]

Torn == [a \in Apps |-> 0]  \* what a store that does not parse is read as
Whole(freeze) == [torn |-> FALSE, until |-> freeze]
Waiting == [pc |-> "idle"]

NoCharge == [action \in SafeActions |-> 0]
TornState == [torn |-> TRUE, last |-> NoCharge]
Kept(last) == [torn |-> FALSE, last |-> last]
Resting == [pc |-> "resting"]
Evaluators == Requests \cup Others

Trouble(cause) == /\ troubles < MaxTroubles
                  /\ troubles' = troubles + 1
                  /\ causes' = causes \cup {cause}

\* One operation less of the first or of the second kind.
Outside(kind) == outside[kind] > 0 /\ outside' = [outside EXCEPT ![kind] = @ - 1]

----------------------------------------------------------------------------
(* AppOverrideManager *)

\* set_temporary_freeze and clear_freeze read the store ...
ReadStore(o, a, until) ==
    /\ operator[o].pc = "idle"
    /\ Outside(1)
    /\ until = 0 => store.until[a] # 0
    /\ operator' = [operator EXCEPT ![o] =
          [pc |-> "open", app |-> a, until |-> until, read |-> store.until]]
    /\ causes' = causes
          \cup (IF \E p \in Operators : operator[p].pc # "idle" THEN {"overlap"} ELSE {})
          \cup (IF store.torn THEN {"torn"} ELSE {})
    /\ UNCHANGED <<now, fixed, governanceVars, store, request, lineage, replicas, promised, troubles>>

\* ... change it in memory, empty the file ...
OpenStore(o) ==
    /\ operator[o].pc = "open"
    /\ store' = [torn |-> TRUE, until |-> Torn]
    /\ operator' = [operator EXCEPT ![o].pc = "write"]
    /\ UNCHANGED <<now, fixed, governanceVars, request, lineage, replicas, promised, causes, outside, troubles>>

\* Mutant: the changed application is all that is written.
WriteOne(o) ==
    /\ operator[o].pc = "write"
    /\ store' = Whole([Torn EXCEPT ![operator[o].app] = operator[o].until])
    /\ promised' = [promised EXCEPT ![operator[o].app] = operator[o].until]
    /\ operator' = [operator EXCEPT ![o] = Waiting]
    /\ UNCHANGED <<now, fixed, governanceVars, request, lineage, replicas, causes, outside, troubles>>

\* ... and write all of it.
WriteStore(o) ==
    /\ operator[o].pc = "write"
    /\ store' = Whole([operator[o].read EXCEPT ![operator[o].app] = operator[o].until])
    /\ promised' = [promised EXCEPT ![operator[o].app] = operator[o].until]
    /\ operator' = [operator EXCEPT ![o] = Waiting]
    /\ UNCHANGED <<now, fixed, governanceVars, request, lineage, replicas, causes, outside, troubles>>

\* The write fails or the process dies with the file empty.
WriteStoreFails(o) ==
    /\ operator[o].pc = "write"
    /\ Trouble("torn")
    /\ operator' = [operator EXCEPT ![o] = Waiting]
    /\ UNCHANGED <<now, fixed, governanceVars, store, request, lineage, replicas, promised, outside>>

\* get_app_override
Frozen(a) == store.until[a] > now

----------------------------------------------------------------------------
(* ActionGovernance: way tells evaluate_contract, evaluate_action ("direct") *)
(* and evaluate_contract with a context that json cannot write ("api").      *)

\* current_time is taken.
BeginEvaluation(e, way, action) ==
    /\ evaluation[e] = Resting
    /\ evaluation' = [evaluation EXCEPT ![e] =
          [pc |-> "cooldown", way |-> way, action |-> action, began |-> now,
           stamp |-> 0, read |-> TornState]]

Cool(action, began) == \/ action \in Ungoverned
                       \/ charged.last[action] = 0
                       \/ began - charged.last[action] >= Cooldown

Lost == IF charged.torn THEN {"lost"} ELSE {}
Raced(e) == IF charged # evaluation[e].read THEN {"raced"} ELSE {}
Loaded(e, place) ==
    [evaluation EXCEPT ![e] = [@ EXCEPT !.pc = place, !.read = charged]]

\* Mutant: the last gate knows that the action is its own.
CheckCooldownOnce(e) ==
    /\ evaluation[e].pc = "cooldown"
    /\ evaluation[e].way = "direct" \/ Cool(evaluation[e].action, evaluation[e].began)
    /\ evaluation' = Loaded(e, "repetition")
    /\ causes' = causes \cup Lost
    /\ UNCHANGED <<now, fixed, charged, freezeVars, request, lineage, replicas, troubles>>

\* _check_cooldown, in the state it loads.
CheckCooldown(e) ==
    /\ evaluation[e].pc = "cooldown"
    /\ Cool(evaluation[e].action, evaluation[e].began)
    /\ evaluation' = Loaded(e, "repetition")
    /\ causes' = causes \cup Lost
    /\ UNCHANGED <<now, fixed, charged, freezeVars, request, lineage, replicas, troubles>>

\* _check_repetition loads it again.
CheckRepetition(e) ==
    /\ evaluation[e].pc = "repetition"
    /\ evaluation' = Loaded(e, "admit")
    /\ causes' = causes \cup Lost \cup Raced(e)
    /\ UNCHANGED <<now, fixed, charged, freezeVars, request, lineage, replicas, troubles>>

\* _record_action: the policy engine admitted the action.
RecordAction(e) ==
    /\ evaluation[e].pc = "admit"
    /\ evaluation' = [evaluation EXCEPT ![e] =
          [@ EXCEPT !.pc = "open",
                    !.stamp = IF evaluation[e].way = "direct" THEN evaluation[e].began ELSE now]]
    /\ UNCHANGED <<now, fixed, charged, freezeVars, request, lineage, replicas, causes, troubles>>

\* _save_state empties the file ...
OpenState(e) ==
    /\ evaluation[e].pc = "open"
    /\ evaluation' = [evaluation EXCEPT ![e] = [@ EXCEPT !.pc = "dump"]]
    /\ charged' = TornState
    /\ causes' = causes \cup Raced(e)
    /\ UNCHANGED <<now, fixed, freezeVars, request, lineage, replicas, troubles>>

\* The caller goes on: a request to its contract or to its action.
Admit(e) ==
    /\ evaluation' = [evaluation EXCEPT ![e] = Resting]
    /\ request' = IF e \notin Requests THEN request ELSE [request EXCEPT ![e] =
          IF @.pc = "evaluate" THEN [@ EXCEPT !.pc = "build", !.first = evaluation[e].stamp]
                               ELSE [@ EXCEPT !.pc = "execute", !.second = evaluation[e].began]]
    /\ UNCHANGED <<now, fixed, freezeVars, lineage, replicas>>

Alone(e) == charged.torn /\ \A d \in Evaluators : evaluation[d].pc = "dump" => d = e

\* ... and writes what was loaded with the new time, or mixes it with what
\* another evaluation writes ...
DumpState(e) ==
    /\ evaluation[e].pc = "dump"
    /\ charged' \in
          (IF evaluation[e].way = "api" THEN {}
           ELSE {Kept([evaluation[e].read.last EXCEPT ![evaluation[e].action] =
                       evaluation[e].stamp])})
          \cup (IF evaluation[e].way # "api" /\ Alone(e) THEN {} ELSE {TornState})
    /\ Admit(e)
    /\ UNCHANGED <<causes, troubles>>

\* ... or fails before or after it emptied the file, and is forgotten.
SaveFails(e) ==
    /\ evaluation[e].pc \in {"open", "dump"}
    /\ Trouble("unsaved")
    /\ charged' = IF evaluation[e].pc = "open" THEN charged ELSE TornState
    /\ Admit(e)

Evaluate(e) ==
    \/ CheckCooldown(e) \/ CheckRepetition(e) \/ RecordAction(e)
    \/ OpenState(e) \/ DumpState(e) \/ SaveFails(e)

\* Another caller begins an evaluation ...
BeginElsewhere(o) ==
    /\ \E way \in {"contract", "direct", "api"}, action \in Wanted \cap SafeActions :
          BeginEvaluation(o, way, action)
    /\ Outside(2)
    /\ UNCHANGED <<now, fixed, charged, store, operator, promised, request, lineage, replicas,
                   causes, troubles>>

\* ... and is refused or dies in it.
EndElsewhere(o) ==
    /\ evaluation[o] # Resting
    /\ evaluation' = [evaluation EXCEPT ![o] = Resting]
    /\ UNCHANGED <<now, fixed, charged, freezeVars, request, lineage, replicas, causes, troubles>>

----------------------------------------------------------------------------
(* SafeOrchestrator *)

None == [pc |-> "none"]
Ended(r, answer) == [request EXCEPT ![r] = [@ EXCEPT !.pc = "ended", !.answer = answer]]

\* The governance refuses, or the policy engine, the emergency freeze or the
\* environment at the gates.
Refuse(r) ==
    /\ request[r].pc \in {"evaluate", "gates"}
    /\ evaluation[r].pc \notin {"open", "dump"}
    /\ request' = Ended(r, "refused")
    /\ evaluation' = [evaluation EXCEPT ![r] = Resting]
    /\ UNCHANGED <<now, fixed, charged, freezeVars, lineage, replicas, causes, troubles>>

NewRequest(kind, a, action) ==
    [pc |-> "evaluate", kind |-> kind, app |-> a, action |-> action, first |-> 0,
     second |-> 0, frozen |-> promised[a] > now, ran |-> FALSE, answer |-> "none"]

\* execute_action: only noop passes a frozen application.
ExecuteAction(r, a, action) ==
    /\ request[r] = None
    /\ request' = [request EXCEPT ![r] =
          IF Frozen(a) /\ action # "noop"
          THEN [NewRequest("direct", a, action) EXCEPT !.pc = "ended", !.answer = "refused"]
          ELSE NewRequest("direct", a, action)]
    /\ causes' = causes \cup (IF store.torn THEN {"torn"} ELSE {})
    /\ UNCHANGED <<now, fixed, governanceVars, freezeVars, lineage, replicas, troubles>>

\* validate_and_execute: an action by its number, of which 5 is none.
ValidateAndExecute(r, a, index) ==
    IF index \in DOMAIN ActionMap THEN ExecuteAction(r, a, ActionMap[index])
    ELSE /\ request[r] = None
         /\ request' = [request EXCEPT ![r] =
               [NewRequest("direct", a, "noop") EXCEPT !.pc = "ended", !.answer = "refused"]]
         /\ UNCHANGED <<now, fixed, governanceVars, freezeVars, lineage, replicas, causes, troubles>>

\* pipe_runtime_event: a valid event, a decision of the remote service, and
\* straight to execute_decision_contract.  The client's own fallback has no
\* "version", which the contract needs, and is refused.
PipeRuntimeEvent(r, a, action) ==
    /\ request[r] = None
    /\ request' = [request EXCEPT ![r] =
          IF action = "fallback"
          THEN [NewRequest("pipe", a, "noop") EXCEPT !.pc = "ended", !.answer = "refused"]
          ELSE NewRequest("pipe", a, action)]
    /\ UNCHANGED <<now, fixed, governanceVars, freezeVars, lineage, replicas, causes, troubles>>

\* evaluate_contract of an eligible action.
EvaluateContract(r) ==
    /\ request[r].pc = "evaluate" /\ request[r].action \in Eligible[env]
    /\ BeginEvaluation(r, "contract", request[r].action)
    /\ UNCHANGED <<now, fixed, charged, freezeVars, request, lineage, replicas, causes, troubles>>

\* build_execution_contract: both events are appended, or, when the journal
\* refuses one, the error reaches the caller.
BuildContract(r) ==
    /\ request[r].pc = "build"
    /\ \/ /\ lineage' = [lineage EXCEPT ![r] = <<"CREATED", "APPROVED">>]
          /\ request' = [request EXCEPT ![r].pc = "gates"]
          /\ UNCHANGED <<causes, troubles>>
       \/ /\ Trouble("lineage")
          /\ lineage' \in {lineage, [lineage EXCEPT ![r] = <<"CREATED">>]}
          /\ request' = Ended(r, "raised")
    /\ UNCHANGED <<now, fixed, governanceVars, freezeVars, replicas>>

\* The environment allows the action and no emergency stops it.  The two demo
\* gates, which would also look at the source of the request, are open.
GatesOpen(action) == action \in Safe[env] /\ (emergency => action = "noop")

\* Past the other gates the governance evaluates the action once more.
PassGates(r) ==
    /\ request[r].pc = "gates"
    /\ GatesOpen(request[r].action) /\ request[r].action \in Eligible[env]
    /\ BeginEvaluation(r, "direct", request[r].action)
    /\ UNCHANGED <<now, fixed, charged, freezeVars, request, lineage, replicas, causes, troubles>>

\* _scale_up_service, _scale_down_service; the other actions leave it.
Scaled(action, n) ==
    CASE action = "scale_up"   -> IF n >= MaxReplicas THEN n ELSE n + 1
      [] action = "scale_down" -> IF n <= 1 THEN n ELSE n - 1
      [] OTHER                 -> n

\* Nothing to scale, or a restart whose failure is simulated.
Fails(action, n) == \/ action \in {"scale_up", "scale_down"} /\ Scaled(action, n) = n
                    \/ action = "restart"

\* The action runs.  A pipe has an orchestrator of its own, with one replica.
Run(r) ==
    LET a == request[r].app
        n == IF request[r].kind = "pipe" THEN 1 ELSE replicas[a]
        action == request[r].action
    IN  /\ request[r].pc = "execute"
        /\ replicas' = IF request[r].kind = "pipe" THEN replicas
                       ELSE [replicas EXCEPT ![a] = Scaled(action, n)]
        /\ \/ /\ action \notin {"scale_up", "scale_down"} \/ ~Fails(action, n)
              /\ request' = [request EXCEPT ![r] =
                    [@ EXCEPT !.pc = "record", !.ran = TRUE, !.answer = "success"]]
           \/ /\ Fails(action, n)
              /\ request' = [request EXCEPT ![r] =
                    [@ EXCEPT !.pc = "record", !.ran = TRUE, !.answer = "failure"]]
        /\ UNCHANGED <<now, fixed, governanceVars, freezeVars, lineage, causes, troubles>>

Outcome(r) == IF request[r].answer = "success" THEN "COMPLETED" ELSE "FAILED"

\* advance_execution_state to EXECUTED and to its outcome; an error of the
\* lineage turns the answer into a failure.
RecordOutcome(r) ==
    /\ request[r].pc = "record"
    /\ \/ /\ lineage' = [lineage EXCEPT ![r] = @ \o <<"EXECUTED", Outcome(r)>>]
          /\ request' = [request EXCEPT ![r].pc = "ended"]
          /\ UNCHANGED <<causes, troubles>>
       \/ /\ Trouble("lineage")
          /\ lineage' \in {lineage, [lineage EXCEPT ![r] = Append(@, "EXECUTED")]}
          /\ request' = Ended(r, "failure")
    /\ UNCHANGED <<now, fixed, governanceVars, freezeVars, replicas>>

\* The caller has its answer; its thread takes another request, whose
\* execution is a new one.
Leave(r) ==
    /\ request[r].pc = "ended"
    /\ request' = [request EXCEPT ![r] = None]
    /\ lineage' = [lineage EXCEPT ![r] = <<>>]
    /\ UNCHANGED <<now, fixed, governanceVars, freezeVars, replicas, causes, troubles>>

----------------------------------------------------------------------------

Tick ==
    /\ now < MaxTime /\ now' = now + 1
    /\ UNCHANGED <<fixed, governanceVars, freezeVars, request, lineage, replicas, causes, troubles>>

Init ==
    /\ now = 1 /\ env \in Envs /\ emergency \in BOOLEAN
    /\ charged = Kept(NoCharge)
    /\ evaluation = [e \in Evaluators |-> Resting]
    /\ store = Whole(Torn) /\ operator = [o \in Operators |-> Waiting]
    /\ request = [r \in Requests |-> None]
    /\ lineage = [r \in Requests |-> <<>>]
    /\ replicas = [a \in Apps |-> 1]
    /\ promised = Torn /\ causes = {} /\ outside \in Budgets /\ troubles = 0

Serve(r) ==
    \/ \E a \in Apps, action \in Wanted : ExecuteAction(r, a, action)
    \/ \E a \in Apps, index \in {2, 5} : ValidateAndExecute(r, a, index)
    \/ \E a \in Apps, action \in Wanted \cup {"fallback"} : PipeRuntimeEvent(r, a, action)
    \/ EvaluateContract(r) \/ BuildContract(r) \/ Refuse(r) \/ PassGates(r)
    \/ Run(r) \/ RecordOutcome(r) \/ Leave(r)

Operate(o) ==
    \/ \E a \in Apps, until \in {0, now + 1} : ReadStore(o, a, until)
    \/ OpenStore(o) \/ WriteStore(o) \/ WriteStoreFails(o)

Next ==
    \/ \E r \in Requests : Serve(r)
    \/ \E e \in Evaluators : Evaluate(e)
    \/ \E o \in Others : BeginElsewhere(o) \/ EndElsewhere(o)
    \/ \E o \in Operators : Operate(o)
    \/ Tick

Spec == Init /\ [][Next]_vars

----------------------------------------------------------------------------
(* Properties *)

Requested == {r \in Requests : request[r] # None}

\* The orchestrator executes an action other than noop only when the cooldown
\* of the action passed between the two evaluations of the one request: the
\* request is refused by its own charge.  Other evaluations of the same and of
\* other actions do not change that, in any order, unless a save failed
\* ("unsaved"), the state was loaded while it did not parse ("lost"), or an
\* evaluation saved over what another had saved since it loaded ("raced").
OnlyDelayOrLossRunsGovernedActions ==
    \A r \in Requested :
        request[r].ran /\ request[r].action \notin Ungoverned
        => \/ request[r].second - request[r].first >= Cooldown
           \/ causes \cap {"unsaved", "lost", "raced"} # {}

\* execute_action leaves an application alone from the moment its freeze was
\* acknowledged to the moment it ends, unless two operators overlapped or the
\* store was read or left half written.  The pipe makes no such promise.
FrozenAppsAreLeftAlone ==
    \A r \in Requested :
        /\ request[r].kind = "direct" /\ request[r].frozen
        /\ request[r].ran /\ request[r].action # "noop"
        => causes \cap {"overlap", "torn"} # {}

=============================================================================
