------------------------------ MODULE MCRequests ------------------------------
(***************************************************************************)
(* What guards and records the requests of the platform, for TLC: the      *)
(* registry of single-use traces, the nonces of signed service requests,   *)
(* the evidence store and the events of the control plane API, the pipeline*)
(* of the dashboard, the pool that deployments are handed to, the runtime  *)
(* reports of the backend and what it shows of its links.  They share no   *)
(* state, so a behaviour is one of any of them: machine says which, and    *)
(* the variables of the others stay off.                                   *)
(***************************************************************************)
EXTENDS TraceRegistry, TLC

CONSTANTS
    Ttl, Age, Drift, MaxTime, MaxServiceTroubles,         \* of ServiceRequests
    Bundles, ByRegistry, MaxStoreTroubles,                \* of EvidenceStore
    Events, Decisions, Recoveries, Crashes, Apps,         \* of ControlPlaneApi
    MaxApiFailures, MaxPosts, MaxPanel,
    Regions, Custom, MaxPipelines,                        \* of VanaControlCenter
    Agents, Jobs, Kinds, MaxStarts,                       \* of DeployWorkers
    Calls, ServiceOf, Env, Loads, Keep,                   \* of RuntimeIngest
    MaxTraceFailures, MaxDecisions,
    Links, NameOf, Reported, ResponseOf, MaxIngests,      \* of LinkFigures
    Off    \* value of the variables of what does not run

\* NonceStore.ttl is 3600 seconds, MAX_SERVICE_REQUEST_AGE_SECONDS is 300: a
\* nonce is kept for as long as its request can be young enough, either way.
ASSUME NoncesAssumption ==
    /\ {Ttl, Age, Drift, MaxTime} \subseteq Nat
    /\ Ttl >= 2 * Age

\* The API and the registry manager publish under references of their own.
ASSUME EvidenceAssumption ==
    /\ Bundles \cap ByRegistry = {}
    /\ "none" \notin Bundles \cup ByRegistry

ASSUME EventsAssumption == IsFiniteSet(Events) /\ IsFiniteSet(Decisions)

ASSUME PipelinesAssumption == MaxPipelines \in Nat

\* avg_response_time is a duration.
ASSUME LinksAssumption == ResponseOf \in [Links -> Nat]

\* Values of the configuration: calls of two services under different loads,
\* two links of one domain, and response times whose average is not whole.
ServicesReported == [i1 |-> "s1", i2 |-> "s2"]
LoadsAsked == {[cpu |-> 95, memory |-> 50], [cpu |-> 50, memory |-> 50]}
DomainNames == [l1 |-> "n1", l2 |-> "n1", l3 |-> "n2"]
ResponseTimes == [l1 |-> 1, l2 |-> 2, l3 |-> 4]

VARIABLES
    machine,
    serviceTime, nonceStore, savedNonces, signedRequests, acceptedRequests, stale,
    shaken,
    evidenceFile, temp, files, saving, published, overlappedSaves, registryDied, troubles,
    history, rowOpen, rowSpoiled, told, publishing, ran, rows, accepted, frozen, panel,
    writeFailures, posts, asked,
    selected, shown, pipelines, started, overlapped,
    env, broken, running, starts, owed, queue, unfinished, place, held, events, jobRows,
    acceptedJobs, finished, poisoned,
    lastStage, lastLine, disorder, ingestAt, ingestWriting, ingestRan, confirmed, unanswered,
    unbuilt, ingestAnswer, overlappedIngests, unlogged, runtimeState, decisions, decided, dashboard,
    listed, metadata, changing, ingests, linkPage, figures

Service == INSTANCE ServiceRequests WITH
    Workers <- Threads, Nonces <- Traces, MaxTroubles <- MaxServiceTroubles,
    time <- serviceTime,
    store <- nonceStore, saved <- savedNonces, requests <- signedRequests,
    accepted <- acceptedRequests

Evidence == INSTANCE EvidenceStore WITH
    MaxTroubles <- MaxStoreTroubles, evidence <- evidenceFile,
    overlapped <- overlappedSaves

Api == INSTANCE ControlPlaneApi WITH
    MaxFailures <- MaxApiFailures, open <- rowOpen, spoiled <- rowSpoiled,
    failures <- writeFailures

Page == INSTANCE VanaControlCenter

Workers == INSTANCE DeployWorkers WITH
    rows <- jobRows, accepted <- acceptedJobs

Runtime == INSTANCE RuntimeIngest WITH
    MaxFailures <- MaxTraceFailures, at <- ingestAt, writing <- ingestWriting, ran <- ingestRan, answer <- ingestAnswer,
    overlapped <- overlappedIngests, state <- runtimeState

Figures == INSTANCE LinkFigures WITH
    page <- linkPage

serviceVars == <<serviceTime, nonceStore, savedNonces, signedRequests, acceptedRequests,
                 stale, shaken>>
evidenceVars == <<evidenceFile, temp, files, saving, published, overlappedSaves,
                  registryDied, troubles>>
apiVars == <<history, rowOpen, rowSpoiled, told, publishing, ran, rows, accepted, frozen,
             panel, writeFailures, posts, asked>>
pageVars == <<selected, shown, pipelines, started, overlapped>>
workersVars == <<env, broken, running, starts, owed, queue, unfinished, place, held, events,
                 jobRows, acceptedJobs, finished, poisoned>>
runtimeVars == <<lastStage, lastLine, disorder, ingestAt, ingestWriting, ingestRan,
                 confirmed, unanswered, unbuilt, ingestAnswer, overlappedIngests, unlogged,
                 runtimeState, decisions, decided, dashboard>>
figureVars == <<listed, metadata, changing, ingests, linkPage, figures>>

ServiceOff ==
    /\ serviceTime = Off /\ nonceStore = Off /\ savedNonces = Off /\ signedRequests = Off
    /\ acceptedRequests = Off /\ stale = Off /\ shaken = Off
EvidenceOff ==
    /\ evidenceFile = Off /\ temp = Off /\ files = Off /\ saving = Off /\ published = Off
    /\ overlappedSaves = Off /\ registryDied = Off /\ troubles = Off
ApiOff ==
    /\ history = Off /\ rowOpen = Off /\ rowSpoiled = Off /\ told = Off
    /\ publishing = Off /\ ran = Off /\ rows = Off /\ accepted = Off
    /\ frozen = Off /\ panel = Off /\ writeFailures = Off /\ posts = Off /\ asked = Off
PageOff ==
    /\ selected = Off /\ shown = Off /\ pipelines = Off /\ started = Off /\ overlapped = Off
WorkersOff ==
    /\ env = Off /\ broken = Off /\ running = Off /\ starts = Off /\ owed = Off
    /\ queue = Off /\ unfinished = Off /\ place = Off /\ held = Off /\ events = Off
    /\ jobRows = Off /\ acceptedJobs = Off /\ finished = Off /\ poisoned = Off
RuntimeOff ==
    /\ lastStage = Off /\ lastLine = Off /\ disorder = Off /\ ingestAt = Off
    /\ ingestWriting = Off /\ ingestRan = Off /\ confirmed = Off /\ unanswered = Off
    /\ unbuilt = Off /\ ingestAnswer = Off
    /\ overlappedIngests = Off /\ unlogged = Off /\ runtimeState = Off
    /\ decisions = Off /\ decided = Off /\ dashboard = Off
FiguresOff ==
    /\ listed = Off /\ metadata = Off /\ changing = Off /\ ingests = Off
    /\ linkPage = Off /\ figures = Off

RequestsInit ==
    /\ machine \in {"traces", "nonces", "evidence", "events", "page", "workers", "runtime",
                    "links"}
    /\ Init
    /\ IF machine = "nonces" THEN Service!Init ELSE ServiceOff
    /\ IF machine = "evidence" THEN Evidence!StoreInit ELSE EvidenceOff
    /\ IF machine = "events" THEN Api!ApiInit ELSE ApiOff
    /\ IF machine = "page" THEN Page!PageInit ELSE PageOff
    /\ IF machine = "workers" THEN Workers!Init ELSE WorkersOff
    /\ IF machine = "runtime" THEN Runtime!RuntimeInit ELSE RuntimeOff
    /\ IF machine = "links" THEN Figures!FiguresInit ELSE FiguresOff

RequestsNext ==
    /\ UNCHANGED machine
    /\ \/ machine = "traces" /\ Next
          /\ UNCHANGED <<serviceVars, evidenceVars, apiVars, pageVars, workersVars, runtimeVars,
                         figureVars>>
       \/ machine = "nonces" /\ Service!Next
          /\ UNCHANGED <<vars, evidenceVars, apiVars, pageVars, workersVars, runtimeVars,
                         figureVars>>
       \/ machine = "evidence" /\ Evidence!StoreNext
          /\ UNCHANGED <<vars, serviceVars, apiVars, pageVars, workersVars, runtimeVars,
                         figureVars>>
       \/ machine = "events" /\ Api!ApiNext
          /\ UNCHANGED <<vars, serviceVars, evidenceVars, pageVars, workersVars, runtimeVars,
                         figureVars>>
       \/ machine = "page" /\ Page!PageNext
          /\ UNCHANGED <<vars, serviceVars, evidenceVars, apiVars, workersVars, runtimeVars,
                         figureVars>>
       \/ machine = "workers" /\ Workers!Next
          /\ UNCHANGED <<vars, serviceVars, evidenceVars, apiVars, pageVars, runtimeVars,
                         figureVars>>
       \/ machine = "runtime" /\ Runtime!RuntimeNext
          /\ UNCHANGED <<vars, serviceVars, evidenceVars, apiVars, pageVars, workersVars,
                         figureVars>>
       \/ machine = "links" /\ Figures!FiguresNext
          /\ UNCHANGED <<vars, serviceVars, evidenceVars, apiVars, pageVars, workersVars,
                         runtimeVars>>

allVars == <<machine, vars, serviceVars, evidenceVars, apiVars, pageVars, workersVars,
             runtimeVars, figureVars>>
\* The waits of a worker have a limit.
RequestsSpec ==
    /\ RequestsInit /\ [][RequestsNext]_allVars
    /\ \A t \in Workers!WorkerThreads : WF_workersVars(machine = "workers" /\ Workers!Loop(t))

-----------------------------------------------------------------------------
(* The properties of the instances, stated in their modules *)

\* ServiceRequests: a request that is delivered again is not accepted again,
\* unless a worker has a copy of the nonces that lacks some of the file
\* (NonceStore.check_and_store, verify_service_auth).
OnlyStaleCopiesAcceptTwice == machine = "nonces" => Service!OnlyStaleCopiesAcceptTwice

\* EvidenceStore: every bundle that was answered with a reference can be read
\* back, unless two publications overlapped or the registry manager died
\* while it wrote in place (save_evidence_bundle).
OnlyOverlapLosesEvidence == machine = "evidence" => Evidence!OnlyOverlapLosesEvidence

\* ControlPlaneApi: an event is not executed more often than the history has
\* rows of it, a failing write hides the row of at most one accepted event, and
\* the metrics have a score of every row unless a write failed
\* (append_decision_history, get_decision_history, prometheus_metrics).
EventsRunOnlyRecorded == machine = "events" => Api!EventsRunOnlyRecorded

\* VanaControlCenter: every answer on the page is about the selected
\* observation, unless a region was selected while an earlier pipeline waited
\* (pipelineReducer, runPipeline).
OnlyOverlapMixesObservations == machine = "page" => Page!OnlyOverlapMixesObservations

\* RuntimeIngest: what was executed is answered so, and the dashboard shows one
\* moment, unless another ingest or decision came in between, the trace file
\* could not be written, or execute_action gave up on the executor.  LinkFigures: the dashboard has a row for every link that
\* is monitored throughout, and the figures are those of the links there are,
\* unless links were added or removed meanwhile (runtime_ingest, log_event,
\* _build_live_dashboard_payload, _calculate_aggregate_metrics).
OnlyOverlapSpoilsAnswers ==
    /\ machine = "runtime" =>
          Runtime!OnlyOverlapHidesExecutions /\ Runtime!DashboardIsOneMoment
    /\ machine = "links" =>
          Figures!LinkRowsAreWhole /\ Figures!OnlyChangesSpoilFigures

\* DeployWorkers: a queued job is taken unless the pool is stopped, or was
\* started over the pills of an earlier stop (MultiDeployAgent._worker).
Starving(j) == machine = "workers" /\ Workers!Starving(j)
OnlyPoisonedPoolsStarve ==
    \A j \in Jobs : Starving(j) ~> ~Starving(j)
=============================================================================
