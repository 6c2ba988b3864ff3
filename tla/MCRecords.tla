------------------------------ MODULE MCRecords ------------------------------
(***************************************************************************)
(* The records and messages of the platform for TLC: the lineage journal,  *)
(* the replay of a lineage, the evidence log, the repository of action     *)
(* requests, the registry of capabilities, the files of the metrics, and   *)
(* the two event buses.  They share no state, so a behaviour is one of any *)
(* of them: machine says which, and the variables of the others stay off.  *)
(***************************************************************************)
EXTENDS LineageJournal, FiniteSets, TLC

CONSTANTS
    Keys, ClockSkew, LastTime, LongestLineage, MaxSetbacks,         \* of LineageReplay
    Logged, SignedOnes, MaxLogged, MaxTroubles, MaxDerived,         \* of EvidenceLog
    MaxPosts, MaxRequestTears,                                      \* of ActionRequests
    CapabilityIds, VanaIds, Specifications, Verified, Asked,        \* of CapabilityRegistry
    EvidenceLengths, MaxKilled,
    MetricFiles, RowsOf, MaxRows, MaxKills,                         \* of MetricsFiles
    Callbacks, Patterned, Matched, Published, MaxListeners,         \* of RedisBus
    SovMessages, SovSubscribers, SovChannels,                       \* of SovereignBus
    Off    \* value of the variables of what does not run

ASSUME LogAssumption == NoExecution \notin Logged /\ SignedOnes \subseteq Logged

\* MAX_CLOCK_SKEW_SECONDS and the times of the clock are seconds.
ASSUME ClockAssumption == ClockSkew \in Nat /\ LastTime \in Nat

\* Processes are none of the contents a capability file has without them.
ASSUME AdminsAssumption == {"nothing", "half"} \cap Threads = {}

\* A measurement adds rows to one or more of the files; none is listed twice.
MetricNames == {MetricFiles[i] : i \in DOMAIN MetricFiles}
ASSUME MetricsAssumption ==
    /\ MetricFiles \in Seq(MetricNames) \ {<<>>}
    /\ \A i, j \in DOMAIN MetricFiles : MetricFiles[i] = MetricFiles[j] => i = j
    /\ \A what \in DOMAIN RowsOf : RowsOf[what] \in Seq(MetricNames) \ {<<>>}

ASSUME CallbacksAssumption == IsFiniteSet(Callbacks)

\* Values of the configuration.
RightSpec == [f \in {"registry_version", "registry_kind", "capability_id",
                     "capability_name", "capability_type", "owner", "maturity", "status",
                     "runtime", "produces"} |-> "right"]
SpecsRegistered == {RightSpec, [RightSpec EXCEPT !["status"] = "wrong"]}
MappingsVerified ==
    [governed |-> [source_id |-> "governance", allowed_actions |-> {"restart"},
                   status |-> "VERIFIED", line |-> 2]]
TwoFiles == <<"latency", "deploys">>
RowsMeasured == [deploy |-> <<"latency", "deploys">>, operation |-> <<"latency">>]
PatternsSubscribed == [c1 |-> "*", c2 |-> "issue*"]
PatternsMatched == {<<"*", "issue">>, <<"*", "deploy">>, <<"issue*", "issue">>}
ChannelsUsed == [m1 |-> "a", m2 |-> "b", m3 |-> "a"] @@ [s \in SovSubscribers |-> "a"]

\* Threads, executions and the subscribers of one channel are interchangeable.
Symmetry ==
    Permutations(Threads) \cup Permutations(Executions) \cup Permutations(SovSubscribers)

VARIABLES
    machine,
    clock, key, events, copies, building, latest, disordered, forked, setbacks,
    logLines, fragment, known, replay, logIndex, snapshots, checking, acked, late, blind,
    logNextId, troubles, derived,
    repository, unended, delivery, noops, abstentions, overlapped, posts,
    repositoryTears,
    capabilities, admins, registered, together, killed, evidence, ask,
    metricsFile, process, taken, recorded, shared, kills, summary,
    redisConnected, redisHistory, redisSubscribers, redisServer, redisWire,
    redisRunning, redisListeners, redisSubscribing, redisCalls, redisStopped,
    redisBroken, redisRaced, redisLate,
    sovRedis, sovLogged, sovKept, sovPublishing, sovSubscribed, sovTold, sovSent,
    sovReplay, sovDelivered, sovEarly, sovRemoved

Replay == INSTANCE LineageReplay WITH
    SigningKeys <- Keys, Skew <- ClockSkew, MaxClock <- LastTime, MaxLineage <- LongestLineage

Log == INSTANCE EvidenceLog WITH
    Managers <- Threads, Executions <- Logged, Signed <- SignedOnes, MaxEvents <- MaxLogged,
    lines <- logLines, index <- logIndex, nextId <- logNextId

Intake == INSTANCE ActionRequests WITH
    Deliveries <- Threads, Observations <- Executions, Stranger <- NoExecution,
    MaxTears <- MaxRequestTears, lines <- repository, tears <- repositoryTears

Capability == INSTANCE CapabilityRegistry WITH
    Ids <- CapabilityIds, Vana <- VanaIds, Admins <- Threads, Specs <- Specifications,
    Mappings <- Verified, Actions <- Asked, Lengths <- EvidenceLengths,
    MaxCrashes <- MaxKilled, files <- capabilities, told <- registered

Metrics == INSTANCE MetricsFiles WITH
    Processes <- Threads, Files <- MetricFiles, FilesOf <- RowsOf, file <- metricsFile

Redis == INSTANCE RedisBus WITH
    PatternOf <- Patterned, Matching <- Matched, Events <- Published,
    connected <- redisConnected, history <- redisHistory,
    subscribers <- redisSubscribers, server <- redisServer, wire <- redisWire,
    running <- redisRunning, listeners <- redisListeners,
    subscribing <- redisSubscribing, calls <- redisCalls, stopped <- redisStopped,
    broken <- redisBroken, raced <- redisRaced, late <- redisLate

Sovereign == INSTANCE SovereignBus WITH
    Messages <- SovMessages, Subscribers <- SovSubscribers, ChannelOf <- SovChannels,
    redis <- sovRedis, logged <- sovLogged, kept <- sovKept,
    publishing <- sovPublishing, subscribed <- sovSubscribed, told <- sovTold,
    sent <- sovSent, replay <- sovReplay, delivered <- sovDelivered, early <- sovEarly,
    removed <- sovRemoved

replayVars == <<clock, key, events, copies, building, latest, disordered, forked, setbacks>>
logVars == <<logLines, fragment, known, replay, logIndex, snapshots, checking, acked, late,
             blind, logNextId, troubles, derived>>
intakeVars == <<repository, unended, delivery, noops, abstentions, overlapped,
                posts, repositoryTears>>
capabilityVars == <<capabilities, admins, registered, together, killed, evidence, ask>>
metricsVars == <<metricsFile, process, taken, recorded, shared, kills, summary>>

redisVars == <<redisConnected, redisHistory, redisSubscribers, redisServer, redisWire,
               redisRunning, redisListeners, redisSubscribing, redisCalls, redisStopped,
               redisBroken, redisRaced, redisLate>>
sovVars == <<sovRedis, sovLogged, sovKept, sovPublishing, sovSubscribed, sovTold,
             sovSent, sovReplay, sovDelivered, sovEarly, sovRemoved>>
otherVars == <<redisVars, sovVars, capabilityVars, metricsVars>>

ReplayOff ==
    /\ clock = Off /\ key = Off /\ events = Off /\ copies = Off /\ building = Off
    /\ latest = Off /\ disordered = Off /\ forked = Off /\ setbacks = Off
LogOff ==
    /\ logLines = Off /\ fragment = Off /\ known = Off /\ replay = Off /\ logIndex = Off
    /\ snapshots = Off /\ checking = Off /\ acked = Off /\ late = Off /\ blind = Off
    /\ logNextId = Off /\ troubles = Off /\ derived = Off
IntakeOff ==
    /\ repository = Off /\ unended = Off /\ delivery = Off /\ noops = Off /\ abstentions = Off
    /\ overlapped = Off /\ posts = Off /\ repositoryTears = Off
CapabilitiesOff ==
    /\ capabilities = Off /\ admins = Off /\ registered = Off /\ together = Off
    /\ killed = Off /\ evidence = Off /\ ask = Off
MetricsOff ==
    /\ metricsFile = Off /\ process = Off /\ taken = Off /\ recorded = Off
    /\ shared = Off /\ kills = Off /\ summary = Off

RedisOff ==
    /\ redisConnected = Off /\ redisHistory = Off /\ redisSubscribers = Off
    /\ redisServer = Off /\ redisWire = Off /\ redisRunning = Off
    /\ redisListeners = Off /\ redisSubscribing = Off /\ redisCalls = Off
    /\ redisStopped = Off /\ redisBroken = Off /\ redisRaced = Off /\ redisLate = Off
SovereignOff ==
    /\ sovRedis = Off /\ sovLogged = Off /\ sovKept = Off /\ sovPublishing = Off
    /\ sovSubscribed = Off /\ sovTold = Off /\ sovSent = Off /\ sovReplay = Off
    /\ sovDelivered = Off /\ sovEarly = Off /\ sovRemoved = Off

RecordsInit ==
    /\ machine \in {"journal", "replay", "log", "intake", "redis", "sovereign",
                    "capabilities", "metrics"}
    /\ Init
    /\ IF machine = "replay" THEN Replay!Init ELSE ReplayOff
    /\ IF machine = "log" THEN Log!Init ELSE LogOff
    /\ IF machine = "intake" THEN Intake!Init ELSE IntakeOff
    /\ IF machine = "capabilities" THEN Capability!CapabilitiesInit ELSE CapabilitiesOff
    /\ IF machine = "metrics" THEN Metrics!MetricsInit ELSE MetricsOff
    /\ IF machine = "redis" THEN Redis!BusInit ELSE RedisOff
    /\ IF machine = "sovereign" THEN Sovereign!SovereignInit ELSE SovereignOff

RecordsNext ==
    /\ UNCHANGED machine
    /\ \/ /\ machine \in {"journal", "replay", "log", "intake"} /\ UNCHANGED otherVars
          /\ \/ machine = "journal" /\ Next /\ UNCHANGED <<replayVars, logVars, intakeVars>>
             \/ machine = "replay" /\ Replay!Next /\ UNCHANGED <<vars, logVars, intakeVars>>
             \/ machine = "log" /\ Log!Next /\ UNCHANGED <<vars, replayVars, intakeVars>>
             \/ machine = "intake" /\ Intake!Next /\ UNCHANGED <<vars, replayVars, logVars>>
       \/ /\ UNCHANGED <<vars, replayVars, logVars, intakeVars>>
          /\ \/ machine = "redis" /\ Redis!BusNext 
                /\ UNCHANGED <<sovVars, capabilityVars, metricsVars>>
             \/ machine = "sovereign" /\ Sovereign!SovereignNext
                /\ UNCHANGED <<redisVars, capabilityVars, metricsVars>>
             \/ machine = "capabilities" /\ Capability!CapabilitiesNext
                /\ UNCHANGED <<redisVars, sovVars, metricsVars>>
             \/ machine = "metrics" /\ Metrics!MetricsNext
                /\ UNCHANGED <<redisVars, sovVars, capabilityVars>>

allVars == <<machine, vars, replayVars, logVars, intakeVars, otherVars>>
RecordsSpec == RecordsInit /\ [][RecordsNext]_allVars

-----------------------------------------------------------------------------
(* The properties of the instances, stated in their modules *)

\* LineageReplay: the service can replay what it wrote; a lineage is rejected
\* only while the clock is behind by more than the allowance, or after it was
\* behind when an event was recorded, a copy was advanced twice, or the key was
\* replaced (replay_execution_lineage).
HonestLineagesReplay == machine = "replay" => Replay!HonestLineagesReplay

\* EvidenceLog: an execution whose chain verifies lacks no acknowledged event,
\* unless an object that did not know the missing one has appended since
\* (AppendOnlyLog.append, HashLineageVerifier).
OnlyBlindAppendsHideLosses == machine = "log" => Log!OnlyBlindAppendsHideLosses

\* EvidenceLog: a recovery calls honest damage a forgery only when the first
\* event was lost or an object wrote that did not know all of them
\* (RecoveryValidator).
HonestDamageIsNotForgery == machine = "log" => Log!HonestDamageIsNotForgery

\* ActionRequests: a request has one record, unless two of its deliveries
\* searched before either appended (ActionRequestRecorder.record).
\* CapabilityRegistry: a capability stays as it was registered, unless two
\* processes found it unregistered at once, and what is authorized is of a
\* registered one (register_capability, authorize_execution).  MetricsFiles: a
\* row stays, and summaries count it, unless its file was being created by
\* another process (MetricsCollector).
OnlyOverlapSpoilsFiles ==
    /\ machine = "intake" => Intake!OnlyOverlapRepeatsRequests
    /\ machine = "capabilities" =>
          Capability!OnlyOverlapSpoilsCapabilities /\ Capability!AuthorizedIsRegistered
    /\ machine = "metrics" =>
          Metrics!OnlyLateCreationLosesRows /\ Metrics!SummaryCountsRows

\* RedisBus and SovereignBus: a connected bus has one listener, a kept message is
\* not lost, and a callback is called once per message, except for the causes
\* named there (RedisEventBus, SovereignBus, EventBus.process_messages).
OnlyCausesDisturbTheBuses ==
    /\ machine = "redis" => Redis!OnlyCausesSilenceTheBus
    /\ machine = "sovereign" => Sovereign!OnlyCausesLoseOrRepeat
=============================================================================
