---------------------------- MODULE PolicyEngine ----------------------------
(***************************************************************************)
(* The deterministic policy engine (deterministic_policy_engine.py): it    *)
(* signs governance contracts and admits requests that carry one, checking *)
(* the request, the contract, the decision and the execution contract in a *)
(* fixed order, and judges each verdict by the legitimacy doctrine         *)
(* (legitimacy_doctrine.py).                                               *)
(*                                                                         *)
(* An engine is built with an identity, a version, a key and a definition. *)
(* Contracts outlive it: they are held by callers across deployments, and  *)
(* a caller may change what it holds.  A signature is the key with the     *)
(* material that was signed.                                               *)
(***************************************************************************)
EXTENDS Integers, Sequences, FiniteSets

CONSTANTS
    Versions,    \* policy versions
    Supported,   \* versions a decision contract may have
    Ids,         \* policy identities
    Keys,        \* signing keys
    Approvers,   \* names that approve or sign
    Trusted,     \* those the engine trusts
    Actions,
    Envs,        \* environments of requests, "dev" among them
    Definitions, \* policy definitions, also the constraints of contracts
    Conditions,  \* DependencyCondition
    DownFlags,   \* sets of validity flags that a caller reports as false
    MaxDeploys,  \* bound: engines that replace the first
    MaxIssues,   \* bound: contracts built
    MaxEdits     \* bound: changes of held contracts

VARIABLES
    engine,    \* the engine that answers
    held,      \* the contract that callers present
    answer,    \* the last admission, until its caller has it
    \* history
    served,    \* the versions of all engines so far, with their definitions
    foreign,   \* a contract was built with other constraints than the definition
    deploys, issues, edits

vars == <<engine, held, answer, served, foreign, deploys, issues, edits>>

Terms(e) == <<e.version, e.definition>>
Engines == [id : Ids, version : Versions, key : Keys, definition : Definitions]

----------------------------------------------------------------------------
(* Contracts *)

\* _canonical_contract_material
Material(approver, signer, terms, immutable) ==
    [id |-> engine.id, version |-> engine.version, approver |-> approver,
     signer |-> signer, terms |-> terms, immutable |-> immutable]

NoContract == [kind |-> "none"]
Signed(key, m) == [kind |-> "contract", m |-> m, signature |-> [key |-> key, of |-> m]]

\* build_governance_contract: with the constraints of the caller, or its own.
Issue ==
    /\ issues < MaxIssues /\ issues' = issues + 1
    /\ \E approver, signer \in Approvers, terms \in Definitions, immutable \in BOOLEAN :
          held' = Signed(engine.key, Material(approver, signer, terms, immutable))
    /\ foreign' = (foreign \/ held'.m.terms # engine.definition)
    /\ UNCHANGED <<engine, answer, served, deploys, edits>>

\* The contract is a value in the hands of its callers.
Edit ==
    /\ held.kind = "contract"
    /\ edits < MaxEdits /\ edits' = edits + 1
    /\ \/ \E terms \in Definitions : held' = [held EXCEPT !.m.terms = terms]
       \/ \E a \in Approvers : held' = [held EXCEPT !.m.approver = a]
       \/ \E v \in Versions : held' = [held EXCEPT !.m.version = v]
       \/ held' = [held EXCEPT !.m.immutable = ~@]
       \/ held' = [held EXCEPT !.signature.key = "none"]
    /\ UNCHANGED <<engine, answer, served, foreign, deploys, issues>>

\* A new process with another configuration.
Deploy ==
    /\ deploys < MaxDeploys /\ deploys' = deploys + 1
    /\ engine' \in Engines \ {engine}
    /\ served' = served \cup {Terms(engine')}
    /\ answer' = [kind |-> "none"]
    /\ UNCHANGED <<held, foreign, issues, edits>>

----------------------------------------------------------------------------
(* LegitimacyDoctrine.compute *)

Legitimacy(sig, trace, schema, condition) ==
    IF ~sig \/ ~trace \/ ~schema THEN "ILLEGITIMATE"
    ELSE CASE condition \in {"MISSING_DB_INDEX", "PARTIAL_REPLAY_GAP"} -> "LEGITIMATE_AMBIGUOUS"
           [] condition = "RL_UNAVAILABLE" -> "LEGITIMATE_DEGRADED"
           [] OTHER -> "LEGITIMATE_VALID"

----------------------------------------------------------------------------
(* Admission *)

\* eligibility_rules is absent, a list, or a table by environment: the row of
\* an unknown environment is that of dev, and an empty row permits everything.
Row(terms, env) == terms.rows[IF env \in DOMAIN terms.rows THEN env ELSE "dev"]
RulesPermit(terms, env, a) ==
    CASE terms.rules = "none"  -> TRUE
      [] terms.rules = "list"  -> a \in terms.list
      [] terms.rules = "table" -> Row(terms, env) = {} \/ a \in Row(terms, env)

\* allowed_actions and allowed_environments permit everything when empty.
ListPermits(list, x) == list = {} \/ x \in list

\* _coerce_decision_contract; one that does not validate raises another error.
DecisionChecks(r) == <<
    [bad |-> r.decision.kind = "none",      code |-> "POLICY_MISSING",     state |-> "GOVERNANCE_REQUIRED"],
    [bad |-> r.decision.kind = "malformed", code |-> "CONTRACT_VIOLATION", state |-> "POLICY_REJECTED"] >>

\* admit, before the contract is looked at
RequestChecks(r) == <<
    [bad |-> held.kind = "none", code |-> "POLICY_MISSING",          state |-> "GOVERNANCE_REQUIRED"],
    [bad |-> ~r.versionsAgree,   code |-> "POLICY_VERSION_MISMATCH", state |-> "POLICY_VERSION_MISMATCH"] >>

\* Mutant: the constraints are not part of what is signed.
UnsignedTermsChecks(m) == <<
    [bad |-> ~m.immutable,                code |-> "CONTRACT_VIOLATION",  state |-> "POLICY_REJECTED"],
    [bad |-> m.id # engine.id,            code |-> "GOVERNANCE_REJECTED", state |-> "POLICY_REJECTED"],
    [bad |-> m.version # engine.version,  code |-> "POLICY_VERSION_MISMATCH", state |-> "POLICY_VERSION_MISMATCH"],
    [bad |-> [held.signature EXCEPT !.of.terms = m.terms] # [key |-> engine.key, of |-> m],
                                          code |-> "INVALID_SIGNATURE",   state |-> "POLICY_SIGNATURE_INVALID"],
    [bad |-> {m.approver, m.signer} \cap Trusted = {},
                                          code |-> "GOVERNANCE_REJECTED", state |-> "POLICY_REJECTED"] >>

\* _verify_governance_contract: whose contract it is ...
OriginChecks(m) == <<
    [bad |-> held.signature.key = "none", code |-> "INVALID_SIGNATURE",   state |-> "POLICY_SIGNATURE_INVALID"],
    [bad |-> ~m.immutable,                code |-> "CONTRACT_VIOLATION",  state |-> "POLICY_REJECTED"],
    [bad |-> m.id # engine.id,            code |-> "GOVERNANCE_REJECTED", state |-> "POLICY_REJECTED"],
    [bad |-> m.version # engine.version,  code |-> "POLICY_VERSION_MISMATCH", state |-> "POLICY_VERSION_MISMATCH"],
    [bad |-> m.approver \notin Trusted,   code |-> "GOVERNANCE_REJECTED", state |-> "POLICY_REJECTED"],
    [bad |-> held.signature # [key |-> engine.key, of |-> m],
                                          code |-> "INVALID_SIGNATURE",   state |-> "POLICY_SIGNATURE_INVALID"],
    [bad |-> m.signer \notin Trusted,     code |-> "GOVERNANCE_REJECTED", state |-> "POLICY_REJECTED"] >>

\* ... and what it permits.
TermChecks(r) == LET terms == held.m.terms  a == r.decision.action IN <<
    [bad |-> r.decision.version # engine.version,
                                          code |-> "POLICY_VERSION_MISMATCH", state |-> "POLICY_VERSION_MISMATCH"],
    [bad |-> ~RulesPermit(terms, r.env, a),  code |-> "EXECUTION_NOT_PERMITTED", state |-> "EXECUTION_DENIED"],
    [bad |-> ~ListPermits(terms.actions, a), code |-> "EXECUTION_NOT_PERMITTED", state |-> "EXECUTION_DENIED"],
    [bad |-> ~ListPermits(terms.envs, r.env), code |-> "EXECUTION_NOT_PERMITTED", state |-> "EXECUTION_DENIED"] >>

ContractChecks(r) == OriginChecks(held.m) \o TermChecks(r)

\* _verify_execution_contract: its hash does not match, or it is of another
\* decision or version.
ExecutionChecks(r) == LET x == r.execution IN <<
    [bad |-> x.kind = "broken",   code |-> "CONTRACT_VIOLATION",      state |-> "POLICY_REJECTED"],
    [bad |-> x.kind = "contract" /\ x.action # r.decision.action,
                                  code |-> "CONTRACT_VIOLATION",      state |-> "POLICY_REJECTED"],
    [bad |-> x.kind = "contract" /\ x.version # engine.version,
                                  code |-> "POLICY_VERSION_MISMATCH", state |-> "POLICY_VERSION_MISMATCH"] >>

\* The first group that fails ends the admission, and its first failure is it.
Fails(checks) == \E i \in DOMAIN checks : checks[i].bad
First(checks) == checks[CHOOSE i \in DOMAIN checks :
                          checks[i].bad /\ \A k \in 1..i - 1 : ~checks[k].bad]

Verdict(allowed, code, state, sig, trace, schema, condition) ==
    [allowed |-> allowed, code |-> code, state |-> state, sig |-> sig, trace |-> trace,
     schema |-> schema, legitimacy |-> Legitimacy(sig, trace, schema, condition)]

\* A flag of the caller that is down.
EarlyVerdict(r) ==
    LET sig == r.down \cap {"sig", "nonce"} = {}
        trace == "trace" \notin r.down
        schema == "schema" \notin r.down
        code == IF ~sig THEN "INVALID_SIGNATURE"
                ELSE IF ~trace THEN "CONTRACT_VIOLATION" ELSE "POLICY_VERSION_MISMATCH"
        state == IF ~sig THEN "POLICY_SIGNATURE_INVALID"
                 ELSE IF ~trace THEN "POLICY_REJECTED" ELSE "POLICY_VERSION_MISMATCH"
    IN  Verdict(FALSE, code, state, sig, trace, schema, r.condition)

\* A DeterministicExecutionRejection
Rejection(f, r) ==
    Verdict(FALSE, f.code, f.state, f.code # "INVALID_SIGNATURE", TRUE,
            f.state # "POLICY_VERSION_MISMATCH", r.condition)

\* Any other exception, and the two checks of admit itself
SchemaFailure(f, r) == Verdict(FALSE, f.code, f.state, TRUE, TRUE, FALSE, r.condition)

\* admit
Admission(r) ==
    IF r.down # {} THEN EarlyVerdict(r)
    ELSE CASE r.decision.kind = "none" -> Rejection(First(DecisionChecks(r)), r)
           [] r.decision.kind = "malformed" -> SchemaFailure(First(DecisionChecks(r)), r)
           [] r.decision.kind = "decision" /\ Fails(RequestChecks(r)) ->
                SchemaFailure(First(RequestChecks(r)), r)
           [] OTHER ->
            IF Fails(ContractChecks(r)) THEN Rejection(First(ContractChecks(r)), r)
            ELSE IF ~Fails(ExecutionChecks(r))
            THEN Verdict(TRUE, "none", "POLICY_APPROVED", TRUE, TRUE, TRUE, r.condition)
            ELSE IF r.execution.kind = "broken"
            THEN SchemaFailure(First(ExecutionChecks(r)), r)
            ELSE Rejection(First(ExecutionChecks(r)), r)

Decisions == [kind : {"none", "malformed"}]
             \cup [kind : {"decision"}, action : Actions, version : Supported]
Executions == [kind : {"none", "broken"}]
              \cup [kind : {"contract"}, action : Actions, version : Supported]
Requests == [down : DownFlags, decision : Decisions, execution : Executions,
             versionsAgree : BOOLEAN, env : Envs, condition : Conditions]

\* The verdict is logged, then returned; enforce raises it when it is a refusal.
Admit(r) ==
    /\ answer.kind = "none"
    /\ answer' = [kind |-> "verdict", verdict |-> Admission(r), env |-> r.env,
                  action |-> IF r.decision.kind = "decision" THEN r.decision.action ELSE "none"]
    /\ UNCHANGED <<engine, held, served, foreign, deploys, issues, edits>>

\* The log cannot be written: the caller has an exception instead.
AdmitRaises ==
    /\ answer.kind = "none"
    /\ answer' = [kind |-> "raised"]
    /\ UNCHANGED <<engine, held, served, foreign, deploys, issues, edits>>

Deliver ==
    /\ answer.kind # "none"
    /\ answer' = [kind |-> "none"]
    /\ UNCHANGED <<engine, held, served, foreign, deploys, issues, edits>>

----------------------------------------------------------------------------

Init ==
    /\ engine \in Engines
    /\ held = NoContract
    /\ answer = [kind |-> "none"]
    /\ served = {Terms(engine)} /\ foreign = FALSE
    /\ deploys = 0 /\ issues = 0 /\ edits = 0

Next ==
    \/ Deploy \/ Deliver
    \/ answer.kind = "none" /\ (Issue \/ Edit \/ AdmitRaises)
    \/ \E r \in Requests : Admit(r)

Spec == Init /\ [][Next]_vars

----------------------------------------------------------------------------
(* Properties *)

\* Two engines had different definitions under one version.
Redefined == \E x, y \in served : x[1] = y[1] /\ x[2] # y[2]

Approved == answer.kind = "verdict" /\ answer.verdict.allowed

\* The engine never looks at its own definition again, only at the constraints
\* of the contract: it approves what the definition in force forbids only
\* after a caller had other constraints signed, or after the definition was
\* changed without a new version.
OnlySilentRedefinitionWidens ==
    Approved /\ ~RulesPermit(engine.definition, answer.env, answer.action)
    => Redefined \/ foreign

=============================================================================
