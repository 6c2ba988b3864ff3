# Verification of the Pravah control plane

TLA+ models of the parts of `bhiv-pravah` that decide, record and execute
actions on services, the TLC runs that check them on small instances, and
proofs, checked by TLAPS, of theorems about them for every instance. Paths
below are relative to `src/pravah-bhiv/backend/` unless they start with
`pravah-bhiv/`.

`PROJECT.json` lists the components, the runs, for every definition the lines
of code it stands for, and the hazards of the code with the properties that
cover them.

## 1. The system

Pravah watches services, decides on an action (restart, scale up, noop, ...),
lets a governance layer admit or refuse it, and executes it through a separate
executor service. Evidence of every step goes to append-only files. Three
processes matter:

- the **control plane API**, FastAPI (`control_plane/backend/app/main.py`):
  synchronous handlers on a pool of threads; one process under
  `pravah-bhiv/render.yaml`, two by default under `docker-compose.yml:153-156`;
- the **executor**, Flask (`reliability-controller2-main/executer/app.py`):
  one process, a thread per request;
- the **agent** (`agent_runtime.py`), alone or inside the Flask API of
  `control_plane/api/agent_api.py`, where a daemon thread runs its loop and the
  handlers of requests share the one runtime object. That API runs in two to four
  worker processes (`Procfile`, `start_render.sh`, `docker-compose.yml:91`), each
  with a runtime of its own.

They talk over HTTP (the API posts to the executor with a timeout of three
seconds) and through files that several modules read and write. There is no
database, and no lock is shared between processes. Around them stand an
observer that polls the services, a pool of deployment workers, a React
dashboard, and tools that operators start by hand.

### 1.1 Inventory

The column *Model* names the module of section 3.

| Component | State | What is hard | What makes it correct | Model |
|---|---|---|---|---|
| **Monitored links** `main.py`, `persistence/monitored_links_journal.py` | journal of signed, chained records; links and events in memory; links in flight; a lock | two critical sections around an unlocked enrichment; torn writes, failed rollbacks, crashes | memory shows what the journal says, committed records are never lost, one chain, nothing left in flight | `MonitoredLinks` |
| **Execution lineage and contracts** `core/execution_lineage.py`, `contracts/*.py` | journal; index of last hashes; state HEALTHY/.../WRITE_BLOCKED | the index is loaded and replaced outside the lock; a write may raise after its line is in the file | legal transitions; a damaged journal stays closed; acknowledged events survive | `LineageJournal` |
| **Replay of a lineage** `security/lineage_verifier.py`, `semantic_guard_engine.py` | none; reads events with times and signatures | clocks set back, keys replaced, two copies of one contract | the service can replay what it wrote | `LineageReplay` |
| **Execution boundary** `main.py` `execute_action`, executor `app.py` | the contract of a call; the executor's cooldowns and traces | two processes that see each other's failures as silence | lineage, answer and effect agree | `ExecuteAction` |
| **Single-use traces** `security/trace_consumption.py` | a set in memory, a file replaced through one temporary file | no lock on a threaded server | an action runs once per trace; an unreadable store fails closed | `TraceRegistry` |
| **Nonces, signatures** `security/nonce_store.py`, `signing.py`, `core_hooks/service_auth.py` | a copy of the file in every worker process | redelivery, restarts, clocks, two workers | a signed request is accepted once | `ServiceRequests` |
| **Action governance** `core/action_governance.py` | `governance_state.json`, overwritten in place | read-modify-write by independent instances; swallowed errors | cooldowns and repetition limits hold across callers and restarts | `ActionGovernance` |
| **Append-only log, index, snapshots, recovery** `persistence/*.py`, `deployment/recovery_validator.py`, `core/registry_manager.py` | journal; last numbers and hashes per object; index and snapshot files | several objects with copies of their own; torn lines that glue | a verified execution lacks nothing; damage is told from forgery | `EvidenceLog` |
| **Policy engine, doctrine** `security/deterministic_policy_engine.py`, `legitimacy_doctrine.py` | identity, version, key, definition; contracts held by callers | engines replaced under their version, contracts changed after signing | nothing is approved that the definition in force forbids | `PolicyEngine` |
| **Safe orchestrator, freezes** `core/rl_orchestrator_safe.py`, `app_override_manager.py` | clock, governance state, lineage, freeze file | one request charged twice, in a file that other evaluations overwrite; operators that overwrite each other | governed actions keep their cooldown; frozen applications are left alone | `SafeOrchestrator` |
| **Remote decision service** `core/rl_remote_client.py`, `runtime_rl_pipe.py` | failures in a row, time of the last | threads share both without a lock | a failing service is left to rest | `RemoteBrain` |
| **Group 4 intake** `decision_translation/*.py` | file of action requests | search and append are two steps; a torn line | one record per request | `ActionRequests` |
| **Agent runtime** `agent_runtime.py`, `core/agent_state.py` | ten-state machine, lock, last decision, saved state; a copy of the consumed traces in every worker | early ends and exceptions; shutdown without the lock; restarts; workers that do not see each other's traces | cycles do not mix, own answers, every event answered | `AgentRuntime` |
| **Agent memory** `core/agent_memory.py` | bounded deque and its snapshot | deaths between snapshots | the newest decisions of all lives, as many as fit | `AgentMemory` |
| **Perception, uptime monitor** `core/perception*.py`, `agents/uptime_monitor.py` | lines read, timeline of statuses | emission and row are two steps | a status in the timeline was emitted | `AgentSenses` |
| **Observer** `observer_server.py` | statuses and newest events, a pool of workers | two critical sections per probe | status and event agree | `ObserverServer` |
| **Agent mail** `core/mcp_*.py` | inbox and board, JSON lists | unlocked rewrites by bridge, marker, agents; publications that raise in the middle of a batch | mail is kept, and published once | `MessageBridge` |
| **Event buses** `core/redis_event_bus.py`, `sovereign_bus.py`, `event_bus.py` | subscriptions, kept messages, a listener thread | dictionaries and lists changed while they are gone through | the listener lives, no message is lost or repeated | `RedisBus`, `SovereignBus` |
| **Deployment workers, event emission** `agents/multi_deploy_agent.py`, `core/guaranteed_events.py` | queue with pills, four sinks | stop and start with threads still at work; sinks that fail | queued work is taken | `DeployWorkers` |
| **Evidence bundles** `api/agent_api.py`, `registry_manager.py` | one JSON file | one temporary name for all; a second writer in place | a published bundle can be read back | `EvidenceStore` |
| **Control plane API: events, history, overrides** `api/agent_api.py`, `multi_app_control_plane.py` | `decision_history.jsonl`, freezes | three steps of which each may fail; readers with and without tolerance | nothing runs that is not in the history | `ControlPlaneApi` |
| **Runtime ingestion, dashboard** `main.py`, `core/trace_logger.py` | one global stage of the trace; states of the services | the stage is shared by all ingests; readers without a lock | "executed" is never said of what was not; one moment is shown | `RuntimeIngest`, `LinkFigures` |
| **VANA page** `pravah-bhiv/frontend/src/app/vana/page.tsx` | reducer, pipelines in progress | answers that come for an earlier selection | what is shown is about what is selected | `VanaControlCenter` |
| **Capabilities, execution rights** `capabilities/*.py` | a file per capability | found missing and written in two steps | a capability stays as registered; only the registered is authorized | `CapabilityRegistry` |
| **Metrics files** `core/metrics_collector.py`, `monitoring/runtime_poller.py` | CSV files with a header | creation in two steps by several processes | rows stay, summaries count them | `MetricsFiles` |
| **Application orchestrator** `orchestrator/app_orchestrator.py` | a file of applications, a copy in each process | copies saved whole | no deployed application is forgotten | `AppOrchestrator` |
| **Circuit breaker, retry, tracker** `core/resilience.py` | state, counters, window of failures | threads that pass together, half-open phases | opens, rests, closes after successes | `CircuitBreaker` |
| legacy executor; startup and readiness validators; watchdog and monitor; scaling scripts; decision arbitrator; self-restraint; onboarding tools; machine learning; loggers, schemas, settings; stability helpers; integration bridge; other pages, scripts, tests | | | | none (section 8) |

### 1.2 How the parts interact

```
 client -> API: ingest/remove link -> MonitoredLinks journal
                readers            <- LinkFigures (dashboard, /metrics)
 client -> API: runtime-ingest     -> RuntimeIngest: stage, decision
             ' execute_action
               | authorize              -> CapabilityRegistry
               | build/advance contract -> LineageJournal, LineageReplay
               | evaluate               -> ActionGovernance (state file, log)
               | POST, 3 s timeout      -> executor: cooldown, TraceRegistry, docker
               ' advance contract       -> LineageJournal
 page   -> API: VanaControlCenter  -> ActionRequests (/vana/execute)
 event  -> agent: AgentSenses, cycle under the lock
               | RemoteBrain -> SafeOrchestrator -> ActionGovernance, freezes
               | PolicyEngine, TraceRegistry, executer.guard (ServiceRequests)
               ' AgentMemory, ControlPlaneApi history, EvidenceLog
 peers  -> agent API: ControlPlaneApi (events), EvidenceStore (bundles)
 pools  : ObserverServer, DeployWorkers (events -> RedisBus, MetricsFiles)
```

`ExecuteAction` composes the API with the executor and uses the abstract life
cycle of the lineage; `LineageJournal` shows that the journal provides that
life cycle. `AgentRuntime` has the copies that its workers keep of the registry
of traces; `TraceRegistry` looks inside the save of one. Governance is a choice of the callers in
`ExecuteAction` and `AgentRuntime`; `ActionGovernance` models it with all its
callers. `SafeOrchestrator` composes the two governance evaluations of one
request with its lineage, the freezes, the clock, and the state file that other
evaluations load and write over.

## 2. Plan

Done, most important behaviour first: the records (links, lineage, replay, log),
the boundary to the executor, what guards it (traces, nonces, governance,
policy), the agent with its memory and its senses, then the parts around them.
Proofs: every safety property of the passing runs is a theorem (section 7). The
records and the boundary came first, each in a proof module of its own; the
composite modules followed whole, since what one part needs (facts about
sequences, about the ends of a history, about counting) the next needs again.

Abstract specifications: the durable set of links (`DurableLinkSet`) and the
life cycle of an execution (`ExecutionLifecycle`), each implemented by a
detailed module, which is proved. Worth stating next: a single-use set, for
traces and nonces without overlap; an exactly-once repository, for the intake;
a register of one writer, for the files that are rewritten whole (bundles,
freezes, applications, mail), whose refinement could start from the invariants of
section 7.

No module has a RECURSIVE operator, all have one action per operation, so that
they can be proved about as they are.

## 3. The models

Conventions. A mutated form of a definition ("Mutant:" in its comment) stands
before it; it is no part of the specification, and shows with which plausible
bug the properties would fail. Variables under "history" are read only by
properties and bounds. Signatures and hashes are identities (`id`, `prev`):
that they cannot be forged is assumed, that chains are followed is checked.

Parts that share no state are checked side by side: a composite MC module has a
variable `machine` that says which of its parts a behaviour is about, and the
variables of the others have the value `Off`. The state space of a run is then
the sum of those of its parts, every part is explored in all its behaviours,
and nothing is said of parts together that do not interact. `MCRecords`
(journal, replay, log, intake, capabilities, metrics, two buses), `MCRequests`
(traces, nonces, evidence, events, page, workers, runtime, links), `MCDecisions`
(governance, policy, orchestrator, apps, brain, breaker) and `MCAgents`
(agent, memory, senses, observer, mail) are of this kind, and restate
each property of an instance as `machine = "..." => Instance!Property`.

### 3.1 MonitoredLinks

The `/ingest-link` and `/remove-link` handlers over the journal.

- *State.* `journal` and `tail` are the file: readable records, then a
  terminated line, a line without newline, or junk. `monitored`, `events`,
  `inFlight` are `_INGESTED_LINKS` (with `_LINK_METADATA`), `_LINK_EVENTS`,
  `_IN_FLIGHT_INGESTIONS`; `lock` is `_INGESTION_LOCK`.
- *Actions.* `IngestBegin`, `IngestEnrich`, `IngestAppend`, `IngestPublish`,
  `IngestRelease` follow the handler from its first critical section over the
  unlocked enrichment to the second one; `RemoveAppend` and `RemovePublish` the
  other handler. An append replays the file for its last signature (and may
  truncate a torn tail by that), may leave any prefix of its line, and then
  truncates back to the old size, which may fail as well.
  `StartupReplay` recovers, truncating a torn tail; `StartupRefused` raises;
  `Crash` kills the process between any two steps or in the middle of a write.
- *Abstract specification.* `DurableLinkSet`: a set on disk, a set that is
  visible, one change between them, and a restart that shows what is on disk.

### 3.2 LineageJournal and ExecutionLifecycle

Threads build and advance contracts (`BuildContract`, `Advance`), each append
going through `EnsureIndex`, `InstallIndex` (the unlocked load of the index)
and `AppendEvent` (under `_LINEAGE_LOCK`); `BeginReplay` and `EndReplay` are a
reader, whose verdict on the file is installed when it is already old. A line
may be torn, or be complete although the write raises (`LateFailures`). `Crash`,
`CrashInWrite`, `Restart` and an operator's `Repair` complete it.

The checks of a transition (terminal lock, legal transitions, prerequisites)
read the history of the caller's frozen copy, as in the code, never the
journal. `ExecutionLifecycle` is the table of legal transitions as a
specification.

### 3.3 ExecuteAction

One action per step of `execute_action`: `RecordCreated`, `RecordApproved`,
`Evaluate`, `Send`, `TimeOut` or `Receive`, `RecordExecuted`, `RecordCompleted`,
and the ways out (`RecordFailed`, `RecordCompletionFailed`, `Unwind`). Every
record may find the journal blocked, or raise with nothing, a part, all but the
newline or the whole of its line in the file. No failure is rolled back: a line
written after an open one joins it, and behind such a line events are
acknowledged that no reader reaches. `lineage` is what readers see of each
execution, `kept` what would remain if the open line were lost; the caller's
frozen copy is where the call is. The executor admits
(`Admit`: cooldown), consumes the trace (`Consume`) and runs the action and
answers (`Run`). Time is the `TimeOut` action, possible at any moment, since the
executor owes no answer within three seconds. Both processes may die.

### 3.4 TraceRegistry

`is_trace_consumed`, `consume_trace` and the action as the executor's handlers
call them. The save is four steps on inodes: opening truncates the temporary
file another handler may be writing, and `os.replace` moves the file under an
open handle (`handle` says whether it now writes the temporary file, the store
or a lost inode). Saves may fail at each step; the rollback restores the
handler's snapshot, whatever others added since.

### 3.5 ActionGovernance

An evaluation loads the state file for its cooldown check, loads it again for
its repetition check, and once admitted writes it over in place: `OpenState`
empties it, `DumpState` fills it. Four kinds of callers: the API handler, whose
context holds an object JSON cannot write; the intake and the contract path;
the orchestrator's older path; the agent, which keeps one instance and evaluates
one action at a time. The records the governance appends to its log are those of
`EvidenceLog`, whose errors it swallows. `causes` collects what has happened
that the code does not guard against: evaluations that overlapped, a state torn
or not saved, and records pushed out of the bounded history.

### 3.6 AgentRuntime

The cycle of `_execute_agent_loop` with its early ends and exceptions, driven by
the thread of `run()` and the handlers of `handle_external_event` under
`_loop_lock`; `Signal`, the shutdown that takes no lock (`Shutdown`, `Stop`,
`Save`), and `Restart` with or without a saved state. What the decision
provider, the governance and the executer answer is a choice.

The workers of the API share `trace_consumption.json`. `copies` is what each has
loaded of it, once in its life, and looks in from then on; `store` is the file,
which each writes whole with its copy and the new trace (`Keep`), through one
temporary file that two of them may write at once, so that it may also be torn or
be the copy of the other. One worker is modelled as above. Of the others there is
what matters to the first: they accept a trace they do not know, execute it or
not, consume it, and die (`AcceptElsewhere` to `RestartElsewhere`). `missed` are
the traces that were accepted where another worker had them in hand or on record,
or whose record was written over. A store that does not parse raises in every
worker that has yet to load it. The 24 hours after which a trace is forgotten are
left out.

### 3.7 EvidenceLog

Several log objects on one journal. Each knows the last number and hash of
every execution from its construction (`known`) and never looks again, so
`AppendEvent` numbers and chains from a copy. `AppendFails` leaves part of a
line, to which the next is glued, or a whole line whose append raised. The
index and the snapshots are files derived from what one object holds
(`UpdateIndex`, `RegisterSnapshot`, `LoadForRebuild`, `Rebuild`). `Failures`,
`Ready` and `LegitimacyOf` are the recovery (`RecoveryValidator.validate`):
sequence gaps, chain, index, snapshot and the verdict of the doctrine;
`LineageValid` is the verification of the lineage alone.

`blind` is where the premise of `OnlyBlindAppendsHideLosses` is. An object is
behind an execution when its copy is not that of the newest event, be it the
number or the hash: two objects can hold the same number and different hashes.
And a line that is left whole by a failed write of an object that is behind
counts as an append by it, since the next line closes it. An earlier form of the
model compared only the numbers and forgave the failed write; the invariant was
not inductive for that reason, and `MaxTroubles` 1 was too small for a run to show
it.

### 3.8 LineageReplay

One execution as the three validators of an advance see it, and as a replay
sees it afterwards: `Advance` takes any copy of the contract that a caller
still holds, `SetClockBack` and `Restart` change the time and the key of later
events. `ReplayAccepts` and `VerifyAnswer` are the replay and the endpoint that
reports its outcome. The verifier allows a future of `Skew`, and no decrease from
one event to the next: `latest` is the latest time the clock ever showed, and
`disordered` says that an event was recorded while the clock was behind it. A clock
that is set back between events alone is harmless as long as it is behind by no
more than the allowance, which is what `HonestLineagesReplay` asserts.

### 3.9 Requests: ActionRequests, ServiceRequests, EvidenceStore, ControlPlaneApi

`ActionRequests` follows a POST of the intake through translation, governance,
abstention or lineage, search and append; a torn line makes every later search
that reaches it fail. `ServiceRequests` gives each worker process a copy of the
nonces, loaded when first used and saved whole; a request may be delivered
again at any later time, to any worker. `EvidenceStore` follows a publication
through the temporary file all share, with the registry manager as a second
writer that writes in place. `ControlPlaneApi` follows an event from its row to
its signal, and a decision of the agent to its row (`Tell`); `Timeline` and
`Metrics` are the two readers of the history, one of which skips a line it
cannot parse where the other gives up; `Override` is the panel of freezes.

### 3.10 What decides: PolicyEngine, SafeOrchestrator, RemoteBrain, CircuitBreaker, AppOrchestrator

`PolicyEngine` admits requests by the checks of the code in their order; the
engine may be replaced (`Deploy`) and a contract issued or changed by who holds
it (`Issue`, `Edit`). `SafeOrchestrator` serves a request by `execute_action` or
by the runtime pipe. Each of its two evaluations takes the time, loads the
governance state for the cooldown, loads it again for the repetitions, is
recorded, empties the file and fills it, in steps of their own, between those of
other evaluations of the API, the intake and the agents (`Others`); operators set
and clear freezes by rewriting the file. `RemoteBrain` is the client of the remote service with its rest after
failures, both ways to ask it and the feedback. `CircuitBreaker` is the breaker
with the retry around it and the tracker beside it. `AppOrchestrator` is a state
file of which every process saves its own copy.

### 3.11 Around the agent: AgentMemory, AgentSenses, ObserverServer, MessageBridge

`AgentMemory` is the deque over several lives with its snapshot, `AgentSenses`
the lines of the onboarding file and the first status of a start, emitted to
every sink and then written. `ObserverServer` is the poller with its pool, the
driver of the synthetic data set and the events that services push.
`MessageBridge` is the inbox, to which agents add letters that the bridge publishes
and marks, and the board, to which they add notes that another agent marks around
and the adapter publishes; whoever writes one of them rewrites it whole. A
publication may raise: the bridge then has not written its marks, and the adapter
has not moved the time of its last check (`PublishNoteFails`), so that what was
published before is published again. A note that raises at every check is found at
every check, and those that come after it in the file wait behind it. Who writes
in a behaviour is a bound, `Parties`.

### 3.12 Messages and files: RedisBus, SovereignBus, DeployWorkers, MetricsFiles, CapabilityRegistry

`RedisBus` has the subscriptions of the process and of the server, one or more
listener threads, and messages that the server sends once for each pattern. A
subscription that Redis refuses leaves its callback registered and starts no
listener (`SubscribeFails`), and a listener is promised only when some
subscription went through.
`SovereignBus` calls its subscribers itself and is a publisher and subscriber of
the event bus, which without Redis keeps messages and hands them over in a thread
that copies the list when it begins, after `subscribe` may have returned: what is
published in between comes twice. `DeployWorkers` has the queue with its pills, the threads of
every start, and the four sinks of an event. `MetricsFiles` creates a file in
two steps after looking for it, `CapabilityRegistry` registers one in the same
way and asks it, with the evidence of its mapping, for every authorization.

### 3.13 What is shown: RuntimeIngest, LinkFigures, VanaControlCenter

`RuntimeIngest` has the one stage of the trace logger that every ingest moves,
the decision, the outcomes of `execute_action` and the dashboard that shows the
services row by row. The call executes, blocks, raises for want of a contract,
or returns `False` with the request in the executor's hands, which then runs the
action or has run it: the ingest is told "blocked" all the same. `LinkFigures` is the list and the metadata of the links as the readers
see them, which iterate without the lock over a list that an ingest extends in
place and a removal replaces. `VanaControlCenter` is the reducer of the page
with the pipelines that still wait for answers.

## 4. What the runs show

| Run | Result | What it asks |
|---|---|---|
| `links_service` | holds | 2 links, 2 threads, 4 records, 1 crash: `CommittedRecordsSurvive`, `JournalIsOneChain`, `EveryRecordMatters`; the service implements `DurableLinkSet`; in-flight ingestions end (`InFlightEnds`) |
| `links_newline` | violated | `CommittedRecordsSurvive` when a torn write can lose exactly the newline |
| `lineage_service` | holds | `MCRecords`. Journal, 2 executions, 2 threads, 5 events, a torn write, a crash, repairs: `OnlyStaleIndexBreaksLineage`, `AcknowledgedEventsSurvive`, `DamagedJournalStaysClosed`, `ImplementsExecutionLifecycle`. Replay with two keys and a clock set back: `HonestLineagesReplay`. Log with two objects: `OnlyBlindAppendsHideLosses`, `HonestDamageIsNotForgery`. Intake, capabilities and metrics: `OnlyOverlapSpoilsFiles`. Buses: `OnlyCausesDisturbTheBuses`. |
| `lineage_terminal` | violated | `TerminalIsFinal` when an append raises after its line is written |
| `execute_boundary` | holds | 2 calls, 1 service, 2 failing appends (late, torn or without effect) or 1 and a crash, a journal that readers block and unblock: `RecordedExecutionsHappened`, `AnswerAgreesWithLineage`, `OneActionPerCooldown`, `EveryCallReturns` |
| `execute_unreachable` | violated | `UnreachableMeansNotExecuted`: the comment at the handler of the exception |
| `execute_stranded` | violated | `NoStrandedContracts`: no contract is left in a state that is not terminal |
| `trace_service` | holds | `MCRequests`. Traces, 2 threads, 4 requests, 2 failures, 2 crashes: `OnlyOverlapReusesTraces`, `OnlyOverlapTearsStore`. Nonces of two workers: `OnlyStaleCopiesAcceptTwice`. Bundles: `OnlyOverlapLosesEvidence`. History: `EventsRunOnlyRecorded`. Page: `OnlyOverlapMixesObservations`. Ingestion, dashboard, links: `OnlyOverlapSpoilsAnswers`. Deployment pool: `OnlyPoisonedPoolsStarve`. |
| `trace_reuse` | violated | `SingleUse`: a trace is never executed twice |
| `governance_service` | holds | `MCDecisions`. Governance, 2 evaluations, 4 kinds of callers, 4 admissions, 1 trouble: `OnlyOverlapOrLossBreaksCooldown`, `OnlyCausesBreakRepetition`. Policy: `OnlySilentRedefinitionWidens`. Orchestrator, a request beside two evaluations of other callers or two operations on freezes: `OnlyDelayOrLossRunsGovernedActions`, `FrozenAppsAreLeftAlone`. Apps: `OnlyOverlapForgetsApps`. Remote service, breaker: `OnlyOverlapDefeatsGuards`. |
| `governance_api` | violated | `CooldownRespected` by API requests one after another, with no failure |
| `agent_service` | holds | `MCAgents`. run() thread, 1 trace, a signal, 1 trouble, and 2 requests at one worker or none beside another worker: `IdleBetweenCycles`, `OnlyUnconsumedTracesRepeat`, `OnlySilentCyclesAnswerStale`, `EveryEventAnswered`. Memory over 3 lives: `OnlyDisorderForgets`. Senses and observer: `StatusesMatchEvents`. Inbox, 2 letters, or board, 2 notes: `OnlyCausesMishandleMail`. |

A property whose name begins with *Only* says what the code guarantees and
names the circumstances in which it does not: often the very race of the hazard
that refers to it. It does not say that this hazard is met, but that nothing else
does the damage, and so how far the hazard reaches; where the damage contradicts a
sentence of the repository, a run of its own shows it (section 4.1). Each of the
circumstances arises in the run. `DamagedJournalStaysClosed` and
`HonestLineagesReplay` have such premises too.

### 4.1 The violated claims

Each of the six runs checks one sentence of the repository and finds it false.

- *Torn-EOF recovery applies only to uncommitted fragments* (`links_newline`).
  A write that loses only its newline leaves a record the replay accepts. The
  next append is glued to it, returns after its fsync, and the next replay
  truncates the line with the committed record.
- *Transitions out of terminal states are impossible* (`lineage_terminal`). The
  terminal lock reads the caller's copy. When fsync raises after the line
  COMPLETED is in the file, the copy is still EXECUTED, and FAILED follows.
- *Executor was not reached* (`execute_unreachable`). The caught
  `RequestException` includes the timeout of the read; the executor then acts
  on a contract that was closed as FAILED.
- *Contracts are never abandoned in intermediate states* (`execute_stranded`).
  An append of APPROVED that raises leaves a CREATED execution and no contract;
  the outer handler reads a variable that is not bound.
- *A trace can never be executed more than once* (`trace_reuse`). Lookup and
  consumption are two calls without a lock, and the answer of the second is
  ignored.
- *Cooldown violations are blocked* (`governance_api`). The context of the API
  holds an object JSON cannot write; the dump stops in the middle of the state
  file, the error is swallowed, and the next load forgets all cooldowns.

### 4.2 Met while modelling, without a run of their own

Lineage, log and boundary:

- `OnlyStaleIndexBreaksLineage` needs its premise: two first appends of a
  process can load the index without the lock, and the slower one installs an
  index that lacks the other's event; the chain then forks.
- A reader that began before the damage sets WRITE_BLOCKED back to HEALTHY
  (`core/execution_lineage.py:89`); `DamagedJournalStaysClosed` is therefore
  about a process that starts on a damaged journal.
- A crash between two lineage events leaves an execution APPROVED or EXECUTED,
  and nothing resumes or closes it at the next start.
- The verify endpoint derives its flags from words of the error
  (`HonestLineagesReplay`): a chain that breaks, events out of order and
  refusals of the guard match none of them, so it answers not valid with both
  flags true. `/api/lineage/{id}?state=` gives the last filtered event as the
  final state.
- `verify_execution_lineage` is called by scripts only; the recovery uses its
  sequence and chain checks, and the search for gaps starts behind the first
  event, whose loss it takes for a forgery.
- `OneActionPerCooldown` excludes services for which two handlers passed the
  check of the cooldown (executor `app.py:242`) before either set it (`:271`).

Decisions:

- A governed action that `execute_action` of the safe orchestrator accepts is
  charged by `evaluate_contract` and then refused by `evaluate_action` for that
  very charge, unless the cooldown passes in between; its lineage stays APPROVED.
- Of two evaluations that load `governance_state.json` before either saves it, the
  later save erases the charge of the earlier. The orchestrator's second gate then
  finds no charge and lets the action run at once
  (`OnlyDelayOrLossRunsGovernedActions`, cause `raced`).
- `decision_engine` compares with the literal 90 while the configuration says
  `CPU_SCALE_UP_THRESHOLD = 95`; a load of 0.95 is a share for runtime-ingest
  and `int(0.95)` for process-runtime, which scales down where the other would
  scale up.
- The fallback of the remote client has no `version`, so both pipe functions
  refuse it with a KeyError, and the lines under "PROOF: Explicitly log if we hit
  a fallback" are not reached. A service that answers 200 with something else
  than JSON is never left to rest.
- The half-open breaker keeps the success of an earlier half-open phase, lets
  any number of threads pass, and counts calls begun before it opened.
- `degraded_runtime_doctrine.md` has HALTED for ambiguous conditions that the
  engine admits.

Agent:

- An orderly shutdown saves SHUTTING_DOWN, which has no transition; an agent
  restarted under its id cannot run a cycle until an external event forces the
  machine to IDLE.
- `_last_decision` is not reset by a cycle that ends without a decision, so the
  answer to an event can be the decision of an earlier one
  (`OnlySilentCyclesAnswerStale` says when).
- The memory only ever holds blocked decisions, so the status reports a success
  rate of 0 % and a safety rate of 100 %, and the result of an action names no
  application, so the state of none is remembered.
- The perception adapters name two types they do not import: no perception is
  built (`AgentSenses`).
- A note put on the board while the adapter checks is never published: the time
  of the check is taken at its end. A note whose publication raises ends the check
  before that time is taken: the notes before it are published again at every
  check, and those behind it wait.
- One trace posted to two workers of the agent API is executed by both: each looks
  in the copy it loaded once, and what one saves the other overwrites
  (`OnlyUnconsumedTracesRepeat`, `missed`).

Records and pages:

- Rows of ecosystem events say `execution_success` before the signal is
  handed over, carry neither state nor event type and so never count as failures
  in the score of `/metrics`; a crash that was recovered counts as a recovery
  only. One line that does not parse makes the score unavailable, while the
  dashboard skips it.
- Signals of the history carry no execution contract, which `executer.guard`
  demands: they are queued in `logs/sarathi/signals.jsonl`.
- The freeze button of the control plane page sends `freeze`; the API accepts
  `set_freeze` and `clear_freeze`.
- Links of one domain share a name, and only the first has a row on the
  dashboard. A link removed and added again can be shown with the status of the
  one and the score of the other. `/metrics` divides by zero when the last link
  is removed between its check and its division.
- A capability may be registered under an id of VANA and is then listed twice; a
  file that was left half written makes every discovery raise and its id
  unregistrable. A metrics file whose creator was killed stays without a header.
- The listener of the Redis bus ends without a word when a pattern is subscribed
  while it hands out a message; a publish swallows its errors, which
  `redis_stability.py` takes for a working connection.

## 5. Bounds

Every bound is a constant used in a guard.

- *Two* threads, calls, evaluations, processes or requests: every hazard listed
  is a race of two, over one shared file or lock. A third adds schedules, not
  kinds of conflicts: each conflicting step reads or writes one shared object.
  Three where the third has a role: links of which one shares a name, messages
  whose places move, jobs of which one is refused.
- Which of several parties act in one behaviour, where all together are too many.
  `Budgets`: two other evaluations or two operations on the freezes beside the one
  request of the orchestrator, its gates being apart from the freezes. `Deployments`:
  two requests at one worker, or its `run()` thread beside another worker, which has
  requests of its own. `Parties`: those who write in the inbox or those who write on
  the board, which share nothing.
- *Two* links, executions, applications, traces: what happens to one must not
  touch the other. One where the question is about contention for it.
- `MaxRecords` 4, `MaxEvents` 5 events: enough for ingest, remove and ingest of
  one link next to another's record, and for one whole life cycle next to the
  beginning of a second.
- `MaxEvents` 2 for the event feeds of links and of the observer, `Capacity` 2 of
  the memory, `Keep` 1 of decisions: they overflow.
- `HistoryLength` 2, `Limit` 2, `Window` 3, `Cooldown` 1 scale down 100, 3,
  300 s and 60 s and keep their order: the cooldown is shorter than the window,
  and the limit of a window fits in the history. The limit equals the history
  length, so that one foreign record evicts what the limit needs.
- `Ttl` 2, `Age` 1, `Drift` 1, `MaxTime` 3: a nonce lives longer than the
  window of its request, and the clock passes both. In the replay `Skew` 1 and
  `MaxClock` 2 let the clock go back by less and by more than the allowance.
- `Patience` 2 and `Cooldown` 2 with `MaxTime` 4, `Threshold` 2 and `Recovery` 1
  with `MaxTime` 3: a service rests and is asked again, a breaker opens, half-opens,
  fails and opens again.
- Failures and crashes: one or two each, at any step. Two in the trace registry,
  where a crash can follow a failed save and follow another crash, and where
  failures of two kinds matter together (bundles, history, starts, inbox); one in
  others, where every failure is followed by all behaviour without failure.
  `MaxTroubles` bounds the sum of several kinds, and `MaxFailures` of `ExecuteAction`
  that of failing appends and crashes. Two in the log, where two lines
  left by failed writes meet (section 3.7).
- `MaxStarts` 2 of the deployment pool: the pills of one stop meet one later
  start.
- Symmetry (threads and executions of the journal, subscribers of the sovereign bus,
  evaluations, frozen applications, calls) is used only in `lineage_service`,
  `governance_service`, `execute_unreachable` and `execute_stranded`, which check no
  liveness.
- `CHECK_DEADLOCK FALSE` where the system stops: all calls returned, all
  requests handled, or the bound on them is reached. The runs of `MonitoredLinks`
  and `lineage_terminal` check it: there the process can always act.

## 6. Fairness

- `links_service`: weak fairness of a handler's steps (threads run), strong of
  those that take `_INGESTION_LOCK` (others hold it in between, but each
  for a bounded time, and a waiter is not passed over for ever), weak of
  `StartupReplay` (a supervisor restarts the process: `restart: unless-stopped`
  in `docker-compose.yml`). Clients need not call; crashes are bounded.
- `execute_boundary`: weak fairness of the backend's steps. The timeout makes
  `TimeOut` possible as long as the call waits. Nothing is assumed of the
  executor.
- `trace_service`: weak fairness of each worker thread of the deployment pool,
  whose wait for the queue has a limit of one second. Nothing is assumed of
  those who submit, stop and start.
- `agent_service`: weak fairness of the steps of a cycle and of the loop, strong
  of acquiring `_loop_lock`. The loop sleeps without the lock between cycles, so
  a waiter finds it free again and again.

The other runs check safety and assume no fairness.

## 7. What is proved

### 7.1 Monitored links

`MonitoredLinksProofs` proves about `MonitoredLinks`, for any set of links, of
threads and any bounds:

| Theorem | Statement |
|---|---|
| `TypeCorrect` | `Spec => []TypeOK` |
| `CommittedAreDurable` | `~NewlineCanBeLost => (Spec => []CommittedRecordsSurvive)` |
| `RecordsMatter` | `~NewlineCanBeLost => (Spec => EveryRecordMatters)` |
| `JournalNeverForks` | `~NewlineCanBeLost => (Spec => []JournalIsOneChain)` |
| `DurableBeforeVisible` | `~NewlineCanBeLost => (Spec => []MemoryFollowsJournal)` |
| `ServiceIsDurableLinkSet` | `~NewlineCanBeLost => (Spec => ImplementsDurableLinkSet)` |

The assumption says that a torn write does not lose exactly the final newline;
without it `CommittedRecordsSurvive` is false (`links_newline`). The only other
assumptions are those on the constants, `MonitoredLinksAssumption`.

The argument has four layers, each an inductive invariant on top of the one
below.

1. `TypeInv` adds to `TypeOK` that a handler at work has a link.
2. `JournalInv` adds that no readable record lacks its newline, that record
   identities are below `nextId`, and with them the chain and the committed
   records. It is needed because `CommittedRecordsSurvive` alone is not
   preserved by an append: the tail must be known for the line not to be glued
   to another. `JournalGrows` says that every step leaves the journal or appends
   one new record to it.
3. `MemoryInv` adds who holds the lock in which step (`LockInv`) and that the
   change a handler is about to publish is the one it wrote (`PendingInv`):
   a link about to be published is active in the journal, one about to be
   withdrawn is not. Without them nothing relates the record in the journal to
   the link a handler publishes. With them `RecordsMatter` follows: the check of a
   handler read memory, and what it decided is still so of the journal when the
   record is written, unless a failed rollback has put them apart.
4. The refinement: `StepImplements` takes each action to a step of
   `DurableLinkSet` or a stutter, from `MemoryInv` and the lemma `ActiveAppend`,
   which says how one record changes the set of active links.

### 7.2 Traces

`TraceRegistryProofs` proves about `TraceRegistry`, for any traces and threads
and any bounds:

| Theorem | Statement |
|---|---|
| `TypeCorrect` | `Spec => []TypeOK` |
| `TornStoreClosed` | `Spec => TornStoreStaysClosed` |
| `SingleUseAlone` | `Spec => []OnlyOverlapReusesTraces` |
| `StoreNeverTorn` | `Spec => []OnlyOverlapTearsStore` |
| `ConsumedBeforeRun` | `Spec => []DurableBeforeRun` |
| `MemoryMatchesStore` | `Spec => []MemoryIsStore` |

The first two hold of every behaviour. `TypeInv` adds that a handler at work has
a trace, that only a writing handler holds a file, and that before the store is
loaded memory is empty and nobody is at work; the last of these is what makes a
torn store final.

The others say what holds until two requests are in hand together, the premise
that `trace_reuse` shows to be needed. Their invariant, `AloneInv`, says that at
most one handler is at work (`Alone`), and what memory, store and temporary file
hold at each of its steps (`WorkInv`). "A trace is run once" is not inductive:
one must know that what was run is in the store (`StoreInv`), that the store and
its snapshot agree while a save is in progress, so that neither the rollback nor
a crash forgets a trace, and that the trace in hand has not been run.

### 7.3 The execution boundary

`ExecuteActionProofs` proves about `ExecuteAction`, for any calls, services and
bounds, every property the run `execute_boundary` checks and what these rest on:

| Theorem | Statement |
|---|---|
| `TypeCorrect` | `Spec => []TypeOK` |
| `ExecutionsHappened` | `Spec => []RecordedExecutionsHappened` |
| `OnlyAdmittedRun` | `Spec => []OnlyAdmittedActionsRun` |
| `AnswersAgree` | `Spec => []AnswerAgreesWithLineage` |
| `CooldownHolds` | `Spec => []OneActionPerCooldown` |
| `BoundaryIsLifecycle` | `~LateFailures => (Spec => ImplementsExecutionLifecycle)` |

The invariant `BoundaryInv` is about one call at a time: where it is determines
the last event of its execution (`LineageAt`, unless an append was late or went
behind a torn line), the code it will return (`CodeAt`, `AnswerOf`,
`SuccessOf`), and what the executor may hold of it (`EffectOf`). What is said of
the last readable event is said of `kept` too, since another call's append can
take an open line away (`JournalFrame`). `EffectOf` relates the two processes: the backend learns of a success only from an
answer, so an answer of success must imply the effect even after the backend or
the executor died, and a call refused before it was sent must stay unknown to
the executor. The steps of one call preserve the invariant of the others
(`OtherCalls`). The refinement follows from `LineageAt`: each append is legal
because of where the call is, not because anything checks the journal; that is
also why it needs `~LateFailures`, as in 7.4: a COMPLETED whose `fsync` raised is
followed by FAILED.
`CooldownInv` says that a handler admitted for a service keeps it free of a
cooldown until it sets its own, unless another was admitted beside it.

### 7.4 The lineage

`LineageJournalProofs` proves about `LineageJournal`, for any executions,
threads and bounds, every property the run `lineage_service` checks of it:

| Theorem | Statement |
|---|---|
| `TypeCorrect` | `Spec => []TypeOK` |
| `DamagedStaysClosed` | `Spec => []DamagedJournalStaysClosed` |
| `AcknowledgedSurvive` | `Spec => []AcknowledgedEventsSurvive` |
| `LineagesReplay` | `~LateFailures => (Spec => []OnlyStaleIndexBreaksLineage)` |
| `JournalIsLifecycle` | `~LateFailures => (Spec => ImplementsExecutionLifecycle)` |

The premise says that no append raises after its line is in the file; without it
the last is false (`lineage_terminal`). The first three need no premise.

- `ClosedInv`: whoever read a journal that was damaged when the process started
  has found it damaged, whatever the others concluded meanwhile. That is what
  keeps a late `EndReplay` from opening it again.
- `AckedInv`: an acknowledged event is not on the unfinished line at the end.
  "It is readable" alone is not inductive: the next write would replace the line
  it shares.
- `ContractInv`: a thread appends what may come next for its frozen copy, and
  nobody else holds its execution. `SyncInv`: until the journal is damaged the
  copy of each thread ends with the last event of its execution, and the index,
  unless a stale one was installed, with the last hash; where it is damaged
  nothing more becomes readable (`DamageHides`). Together they make each append
  legal and chained (`LegalAppend`), although nothing checks the journal. The
  refinement needs the same facts without the index.

### 7.5 The agent

`AgentsProofs` proves about `AgentRuntime` and about the other parts of
`MCAgents`, for any requests, traces, services, statuses and mail:

| Theorem | Statement |
|---|---|
| `TypeCorrect` | `Spec => []TypeOK` |
| `CyclesExclude` | `Spec => []LockInv` |
| `CyclesEndIdle` | `Spec => []IdleBetweenCycles` |
| `TracesRunOnce` | `Spec => []OnlyUnconsumedTracesRepeat` |
| `AnswersAreOwn` | `Spec => []OnlySilentCyclesAnswerStale` |
| `DecisionsRemembered` | `AgentsSpec => []OnlyDisorderForgets` |
| `StatusesMatch` | `AgentsSpec => []StatusesMatchEvents` |
| `MailHandled` | `AgentsSpec => []OnlyCausesMishandleMail` |

- The first five are of `AgentRuntime` and rest on `LockInv`: `_loop_lock` is with
  the one thread inside a cycle, at every way a cycle can end or raise. With it, a
  request at the end of its cycle finds its own decision unless the cycle left
  none (`DecisionInv`).
- Traces (`TraceInv`): of a trace that is neither unconsumed nor missed, one worker
  at a time has it in hand; it was executed at most once, and not before the worker
  that has it in hand executes it; and once it was executed it is in the file, or that
  worker is about to put it there (`RunInv`).
  The lemmas say how a worker accepts it (`AcceptsFresh`), executes it
  (`ExecutesOnce`), saves it (`ConsumesOnce`) and lets go of it (`LetsGo`), whichever
  worker it is.
- Memory: the deque and its snapshot are each in the order of the decisions, and
  the one that will be read next holds the newest but for those of a bad end.
- Senses: until the first status is in the timeline every emission beyond one is
  that of a failed start. Observer: one probe works on a service, and the newest
  event of a service has its status, but for a probe that has shown a status and
  has yet to record it. The two critical sections make that exception necessary.
- Mail (`MailInv`): a file no two have written together has one writer, whose copy
  lacks nothing of the file; what that writer publishes it marks in the copy it
  is about to write (`LettersInv`); a note is published once by the check that finds
  it, unless a check that had published it broke off (`NotesInv`); what a check of the
  board passes over is excused by a note that was being written (`CheckedInv`).

### 7.6 What decides

`DecisionsProofs` proves about the parts of `MCDecisions`, governance first:

| Theorem | Statement |
|---|---|
| `GovernanceTypeCorrect` | `Spec => []GovernanceTypeOK` |
| `CooldownHolds` | `Spec => []OnlyOverlapOrLossBreaksCooldown` |
| `RepetitionHolds` | `Spec => []OnlyCausesBreakRepetition` |
| `RedefinitionWidens` | `DecisionsSpec => []OnlySilentRedefinitionWidens` |
| `GovernedActionsWait` | `DecisionsSpec => []OnlyDelayOrLossRunsGovernedActions` |
| `FreezesHold` | `DecisionsSpec => []FrozenAppsAreLeftAlone` |
| `AppsRemembered` | `DecisionsSpec => []OnlyOverlapForgetsApps` |
| `GuardsHold` | `DecisionsSpec => []OnlyOverlapDefeatsGuards` |

- `CooldownInv`: as long as evaluations take turns and every state is saved, the
  state file covers all admissions (`Known`), and an evaluation that passed the
  cooldown check passed it against every admission there is (`CooledDown`). That
  the admitted are apart is not inductive without either.
- `RepetitionInv`: the history in the file is the end of the admissions, all of
  them or as many as it holds, so that what the check counts is what the property
  counts. Where records of other actions were pushed out, that is not so, and the
  property has its cause.
- Policy: admission needs every part of the contract to pass its check, and the
  signed terms were those of some engine under the version signed with them,
  unless they are foreign (`SignedInv`). What is admitted and forbidden by the
  definition in force was therefore signed under a redefinition of its version.
- Orchestrator: as long as no evaluation saved over another, none failed to save and
  none loaded half a file, the charge of a request that is under way is in the file,
  in what an evaluation about to save has loaded, or in what the one evaluation that
  has emptied the file will write (`ChargesSound`, `EvaluationSound`), so the second
  gate opens only after the cooldown. The freeze file is what operators were
  promised, or the one operator at work is writing it (`StoreInv`).
- Guards: the remote client's counter is the number of failures in a row, one behind while a
  failure is being added (`CountsAgree`); what a lone call found out about the
  breaker holds until it acts on it (`OneCall`).

### 7.7 Requests

`RequestsProofs` proves about the parts of `MCRequests`:

| Theorem | Statement |
|---|---|
| `RepeatsRefused` | `RequestsSpec => []OnlyStaleCopiesAcceptTwice` |
| `EvidenceKept` | `RequestsSpec => []OnlyOverlapLosesEvidence` |
| `RecordedBeforeRun` | `RequestsSpec => []EventsRunOnlyRecorded` |
| `PageAboutSelection` | `RequestsSpec => []OnlyOverlapMixesObservations` |
| `AnswersHold` | `RequestsSpec => []OnlyOverlapSpoilsAnswers` |

- Nonces: what a copy still holds the file holds from the same time, and a request
  that could be accepted once more is in the file from a time when it was
  accepted. That needs `Ttl >= 2 * Age`: a request may be early by the window and
  come back late by it.
- Bundles: one publication is in progress, and at each of its stages its file is
  what it says (`BundleGoesOn`, `RegistryGoesOn`); the temporary file is not the
  store.
- History: the runs of an event are counted against its rows, and the hidden rows,
  with one more while a line is unfinished, are at most the failing writes. The
  bound alone is not inductive, because a failing write hides a row only when the
  next one is written.
- Page: one pipeline waits, for what is selected, and a stage shows an answer only
  after the ones before it.
- Ingestion: an ingest that nothing overlapped finds the stage where it left it
  (`OnTrack`). Links: a link that a reader goes through is listed or its removal
  was noted (`ThereOrNoted`), a link that is there throughout has a row or its turn
  comes (`ShownOrNext`), and a sum of n response times lies between n times the
  least and n times the greatest of them, whence the average does.

### 7.8 Records

`RecordsProofs` proves about the parts of `MCRecords` other than the journal,
which has section 7.4:

| Theorem | Statement |
|---|---|
| `HonestReplays` | `RecordsSpec => []HonestLineagesReplay` |
| `LossesShow` | `RecordsSpec => []OnlyBlindAppendsHideLosses` |
| `DamageIsNoForgery` | `RecordsSpec => []HonestDamageIsNotForgery` |
| `FilesKept` | `RecordsSpec => []OnlyOverlapSpoilsFiles` |
| `BusesHold` | `RecordsSpec => []OnlyCausesDisturbTheBuses` |

- Replay: the copies callers hold are beginnings of the lineage, each event is one
  the guard allows after those before it, none is later than the latest time the clock
  showed, and times ascend unless an event was recorded while the clock was behind
  that time. The verifier recomputes exactly these, so an honest lineage passes, and
  one that is refused is refused for an event recorded then, a clock that is behind by
  more than the allowance, or a key.
- Log (`LogInv`): for an execution nobody appended to blindly, every object's copy
  is some event of it (`Names`), the acknowledged events follow each other or leave
  out a number (`Succeeds`), and the readable lines are acknowledged, but for a
  last one whose newline is missing (`LinesHold`). A loss therefore shows as a gap
  or a chain that breaks, and damage without a first event or a signature is told
  from forgery.
- Intake: of an observation that one delivery at a time searched for, one delivery
  may append, and only while there is no record (`OneRequest`). Capabilities: the
  same for an id, and half a file has its writer. Metrics: one process creates a
  file while nobody has come by it (`CreationHolds`), and what a summary has
  counted and has yet to count is the recorded rows (`SummaryHolds`).
- Buses: an event that one pattern matches has one copy, on the wire, with the
  listener, or as one call (`CalledOnce`); a subscriber gets a message by at most
  two of three ways, and by two only where Redis brings it as well or its publication
  met the subscription before the thread had copied the kept messages (`WaysHold`).

### 7.9 Assumptions and the shape of the proofs

The constants of each detailed module have its assumption
(`MonitoredLinksAssumption` and so on): bounds are natural numbers, the value
for "none" is none of the values. Those of the composite modules, named where
the constants are declared, add what the code fixes:

- `MCDecisions`: environments are the three of the code, names of applications are
  none of the two words for "none", periods are natural numbers, and the tracker
  escalates at no more failures than it keeps (5 and 100).
- `MCAgents`: the memory and the feed hold at least one entry; statuses are those
  of a probe; letters and notes are apart.
- `MCRequests`: a nonce is kept for at least twice the window of a request (3600 s
  and 300 s); the API and the registry manager publish under references of their own;
  events and pipelines are finite; response times are not negative.
- `MCRecords`: signed executions are logged ones; times are natural numbers; the
  files of the metrics are listed once, and a measurement adds a row at least;
  callbacks are finite.

The parts of a composite module share no variable but `machine`, which no step
changes. Lemmas `PartsStart` and `PartsStep` of each proof module say so, and a
theorem about a part is `machine = "..." => Invariant` over the composite
specification. What is proved of `LineageJournal` and of `TraceRegistry` in their
own modules holds of the composites because these extend them: every behaviour of
the composite is one of the journal (`JournalRuns`), of the registry
(`RegistryRuns`), of the governance, of the agent, at work or at rest.

What cannot be had by induction over data is had where possible in another way:
a non-empty set of numbers has a least element, by the well-foundedness of the
naturals, which gives the first event that breaks a chain and the greatest of
some response times.

### 7.10 Only model-checked

The liveness properties (`InFlightEnds`, `EveryCallReturns`,
`EveryEventAnswered`, `OnlyPoisonedPoolsStarve`), which need fairness and
ENABLED and are out of the prover's reach; and the six violated claims, of which
a behaviour is the evidence. The theorems with a premise (`~NewlineCanBeLost`,
`~LateFailures`) say nothing of configurations without it.

Some theorems are about formulas that no run checks, because TLC has nothing to
add to them: the five `TypeCorrect`, `GovernanceTypeCorrect`, `CyclesExclude`,
`DurableBeforeVisible`, `OnlyAdmittedRun`, `BoundaryIsLifecycle`,
`TornStoreClosed`, `ConsumedBeforeRun` and `MemoryMatchesStore`.

## 8. What is not modelled

- The components without a module in section 1.1; `PROJECT.json` gives the
  reason of each. Most are imported by no service, or change no state.
- Timestamps, where no decision reads them. The replay of a lineage and the
  windows of governance, nonces and breakers read them and have a clock.
- The legacy executor (`control_plane/executor/executor.py`). Its `execute` calls
  `log_event` with a keyword that `core/trace_logger.py:51` does not accept (`:57`),
  before it reaches its table of locks: every call raises, and no lock is ever taken.
- The expiry of traces after 24 hours, in the executor's registry and in the copies
  of the agent's workers: what it removes is taken to be too old to be presented.
- Readers in another process that see half of a line of a lineage while it is
  written.
- Several processes of the control plane API. `pravah-bhiv/render.yaml` starts
  one, and what its handlers share in memory (the lock and the list of
  `MonitoredLinks`, the index of `LineageJournal`, the stage of `RuntimeIngest`) is of
  one process. `docker-compose.yml:153-156` starts two unless `UVICORN_WORKERS` says
  otherwise: nothing is claimed of the journals that two workers append to, whose
  locks do not exclude each other. The workers of the agent API, which the
  repository always starts in numbers, are modelled where they share a file: nonces
  (`ServiceRequests`) and traces (`AgentRuntime`). `AgentSenses` is about the start of
  one process.
- Authentication and signatures beyond "accepted or not" and, where a key can be
  replaced or a contract changed, "by which key" and "of what".
- The content of actions, metrics and perceptions, beyond what a decision or a
  property tells apart.
- The history of states that the agent saves with its state, and the store of
  ecosystem evidence that the backend keeps in memory only.
- Parts of modelled files that have no caller: `validate_execution_state_history`,
  `execute_safe_action`, `ReplayIndex.rebuild_from_events` (which does nothing),
  `add_alert`, `add_onboarding_request`.

## 9. Running

`tlc -config <cfg> <module>` for each row of the runs in `PROJECT.json`, and
`tlapm` of each `*Proofs.tla` for the proofs. The longest runs
(`governance_service`, `lineage_service`, `agent_service`, `trace_service`) take
two to three minutes on two workers, and reach 0.5 to 1.8 million states.
`RecordsProofs` takes about ten minutes to prove from nothing, the others one to
five.
