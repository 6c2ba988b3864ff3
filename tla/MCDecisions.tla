----------------------------- MODULE MCDecisions ------------------------------
(***************************************************************************)
(* What decides whether an action is taken, for TLC: the action governance,*)
(* the policy engine, the remote decision service, the safe orchestrator   *)
(* with the manual freezes, the record of deployed applications, and the   *)
(* circuit breaker.  A behaviour is one of any of them: machine says which,*)
(* and the variables of the others stay off.                               *)
(***************************************************************************)
EXTENDS ActionGovernance, TLC

CONSTANTS
    \* PolicyEngine
    Versions, Supported, Ids, Keys, Approvers, Trusted, PolicyActions, PolicyEnvs, Definitions,
    Conditions, DownFlags, MaxDeploys, MaxIssues, MaxEdits,
    \* SafeOrchestrator
    SafeRequests, OtherEvaluators, FreezableApps, Envs, Wanted, MaxReplicas, MaxSafeTime, Budgets,
    \* AppOrchestrator
    AppNames, MaxOperations, MaxCrashes,
    \* RemoteBrain
    Patience, BrainCooldown, Gates, MaxBrainTime, MaxCalls,
    \* CircuitBreaker
    Threshold, Recovery, Attempts, FailureWindow, Escalation, MaxRecent, MaxBreakerTime,
    MaxBreakerCalls,
    Off   \* value of the variables of what does not run

VARIABLES
    machine,
    engine, held, answer, served, foreign, deploys, issues, edits,
    safeNow, env, emergency, charged, evaluation, freezeStore, operator, safeRequest, lineage, replicas,
    promised, safeCauses, outside, safeTroubles,
    appFile, copies, saving, operations, crashes, answered, overlapped, damaged,
    brainTime, failures, lastFailure, calls, asked, feedback, streak, failedAt, early,
    brainOverlapped,
    breakerTime, breaker, failureCount, successCount, failureAt, call, begun, tracked, opened,
    fresh, left, tooEarly, hasty, together, given

\* The environments the rules of the safe orchestrator name; any other gets noop alone.
ASSUME EnvironmentsAssumption == Envs \subseteq {"dev", "stage", "prod"}

\* A thread serves a request of the orchestrator or evaluates for another caller.
ASSUME EvaluatorsAssumption == SafeRequests \cap OtherEvaluators = {}

\* Names by which AppOrchestrator tells that there is no application
ASSUME AppNamesAssumption == AppNames \cap {"nothing", "loaded"} = {}

\* _cooldown_period of rl_remote_client.py, recovery_timeout of resilience.py
ASSUME PeriodsAssumption == BrainCooldown \in Nat /\ Recovery \in Nat

\* The tracker of resilience.py keeps 100 failures and escalates at 5.
ASSUME TrackerAssumption ==
    MaxRecent \in Nat \ {0} /\ Escalation \in Nat /\ Escalation <= MaxRecent
    /\ FailureWindow \in Nat

TermsOf(rules, list, rows, actions, envs) ==
    [rules |-> rules, list |-> list, rows |-> rows, actions |-> actions, envs |-> envs]

\* For Definitions: one policy that lists what it permits, and one with a table by environment
SmallDefinitions ==
    {TermsOf("list", {"noop"}, [dev |-> {"noop", "restart"}], {}, {}),
     TermsOf("table", {}, [dev |-> {"noop", "restart"}, prod |-> {"noop"}],
             {"noop", "restart"}, {"dev", "prod"})}

\* For Budgets: two operations on the freezes, or two other evaluations
SmallBudgets == {<<2, 0>>, <<0, 2>>}

Policy == INSTANCE PolicyEngine WITH Actions <- PolicyActions, Envs <- PolicyEnvs

Safe == INSTANCE SafeOrchestrator WITH
    Requests <- SafeRequests, Others <- OtherEvaluators, Operators <- Evaluations, Apps <- FreezableApps,
    MaxTime <- MaxSafeTime, now <- safeNow, store <- freezeStore,
    request <- safeRequest, causes <- safeCauses, troubles <- safeTroubles

Apps == INSTANCE AppOrchestrator WITH Operators <- Evaluations, Apps <- AppNames

Brain == INSTANCE RemoteBrain WITH
    Callers <- Evaluations, Cooldown <- BrainCooldown, MaxTime <- MaxBrainTime,
    time <- brainTime, overlapped <- brainOverlapped

Breaker == INSTANCE CircuitBreaker WITH
    Threads <- Evaluations, Window <- FailureWindow, MaxTime <- MaxBreakerTime,
    MaxCalls <- MaxBreakerCalls, time <- breakerTime, state <- breaker,
    lastFailure <- failureAt, failures <- tracked, early <- tooEarly, overlapped <- together

policyVars == <<engine, held, answer, served, foreign, deploys, issues, edits>>
safeVars == <<safeNow, env, emergency, charged, evaluation, freezeStore, operator,
              safeRequest, lineage, replicas, promised, safeCauses, outside, safeTroubles>>
appVars == <<appFile, copies, saving, operations, crashes, answered, overlapped, damaged>>
brainVars == <<brainTime, failures, lastFailure, calls, asked, feedback, streak, failedAt,
               early, brainOverlapped>>
breakerVars == <<breakerTime, breaker, failureCount, successCount, failureAt, call, begun,
                 tracked, opened, fresh, left, tooEarly, hasty, together, given>>

PolicyOff ==
    /\ engine = Off /\ held = Off /\ answer = Off /\ served = Off
    /\ foreign = Off /\ deploys = Off /\ issues = Off /\ edits = Off
SafeOff ==
    /\ safeNow = Off /\ env = Off /\ emergency = Off /\ charged = Off /\ evaluation = Off
    /\ freezeStore = Off /\ operator = Off /\ safeRequest = Off /\ lineage = Off /\ replicas = Off
    /\ promised = Off /\ safeCauses = Off /\ outside = Off /\ safeTroubles = Off
AppsOff ==
    /\ appFile = Off /\ copies = Off /\ saving = Off /\ operations = Off /\ crashes = Off
    /\ answered = Off /\ overlapped = Off /\ damaged = Off
BrainOff ==
    /\ brainTime = Off /\ failures = Off /\ lastFailure = Off /\ calls = Off /\ asked = Off
    /\ feedback = Off /\ streak = Off /\ failedAt = Off /\ early = Off
    /\ brainOverlapped = Off
BreakerOff ==
    /\ breakerTime = Off /\ breaker = Off /\ failureCount = Off /\ successCount = Off
    /\ failureAt = Off /\ call = Off /\ begun = Off /\ tracked = Off /\ opened = Off
    /\ fresh = Off /\ left = Off /\ tooEarly = Off /\ hasty = Off /\ together = Off
    /\ given = Off

DecisionsInit ==
    /\ machine \in {"governance", "policy", "orchestrator", "apps", "brain", "breaker"}
    /\ Init
    /\ IF machine = "policy" THEN Policy!Init ELSE PolicyOff
    /\ IF machine = "orchestrator" THEN Safe!Init ELSE SafeOff
    /\ IF machine = "apps" THEN Apps!OrchestratorInit ELSE AppsOff
    /\ IF machine = "brain" THEN Brain!BrainInit ELSE BrainOff
    /\ IF machine = "breaker" THEN Breaker!BreakerInit ELSE BreakerOff

DecisionsNext ==
    /\ UNCHANGED machine
    /\ \/ machine = "governance" /\ Next
          /\ UNCHANGED <<policyVars, safeVars, appVars, brainVars, breakerVars>>
       \/ machine = "policy" /\ Policy!Next
          /\ UNCHANGED <<vars, safeVars, appVars, brainVars, breakerVars>>
       \/ machine = "orchestrator" /\ Safe!Next
          /\ UNCHANGED <<vars, policyVars, appVars, brainVars, breakerVars>>
       \/ machine = "apps" /\ Apps!OrchestratorNext
          /\ UNCHANGED <<vars, policyVars, safeVars, brainVars, breakerVars>>
       \/ machine = "brain" /\ Brain!BrainNext
          /\ UNCHANGED <<vars, policyVars, safeVars, appVars, breakerVars>>
       \/ machine = "breaker" /\ Breaker!BreakerNext
          /\ UNCHANGED <<vars, policyVars, safeVars, appVars, brainVars>>

allVars == <<machine, vars, policyVars, safeVars, appVars, brainVars,
             breakerVars>>
DecisionsSpec == DecisionsInit /\ [][DecisionsNext]_allVars

\* Threads are interchangeable, and so are the applications that are frozen.
DecisionsSymmetry == Permutations(Evaluations) \cup Permutations(FreezableApps)

-----------------------------------------------------------------------------
(* The properties of the instances, stated in their modules *)

\* PolicyEngine: the engine approves what its definition forbids only after
\* other constraints were signed or the definition changed without its
\* version (DeterministicPolicyEngine._verify_governance_contract).
OnlySilentRedefinitionWidens == machine = "policy" => Policy!OnlySilentRedefinitionWidens

\* SafeOrchestrator: the guard executes an action other than noop only when
\* the cooldown passed between the two evaluations of the one request, or a
\* state of the governance was not saved, not read, or saved over
\* (execute_decision_contract, rl_orchestrator_safe.py, action_governance.py).
OnlyDelayOrLossRunsGovernedActions == machine = "orchestrator" => Safe!OnlyDelayOrLossRunsGovernedActions

\* SafeOrchestrator: execute_action leaves an application alone from the
\* moment its freeze was acknowledged until it ends, unless two operators
\* overlapped or the store was half written (AppOverrideManager).
FrozenAppsAreLeftAlone == machine = "orchestrator" => Safe!FrozenAppsAreLeftAlone

\* AppOrchestrator: as long as no operator had the file loaded while another
\* did, the file holds every record that was answered, and an unfinished save
\* stays unfinished (AppOrchestrator).
OnlyOverlapForgetsApps == machine = "apps" => Apps!OnlyOverlapForgetsApps

\* RemoteBrain: a service that failed so often is left alone, unless two callers
\* were at it at once (RLRemoteClient.decide).
\* CircuitBreaker: an open breaker lets nothing through before its time and
\* closes after two successes, unless calls overlap (CircuitBreaker.call).
OnlyOverlapDefeatsGuards ==
    /\ machine = "brain" => Brain!OnlyOverlapWakesBrain
    /\ machine = "breaker" => Breaker!OnlyOverlapTricksBreaker
=============================================================================
