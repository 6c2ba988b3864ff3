---------------------------- MODULE ObserverServer ----------------------------
(***************************************************************************)
(* The observer (observer_server.py).  A thread polls all services in      *)
(* cycles: a pool of workers probes them, and the next cycle begins when   *)
(* every probe of this one has ended.  A probe shows the status of its     *)
(* service and then records it as an event, in two critical sections; the  *)
(* newest events are kept.  A second thread drives a synthetic data set    *)
(* through four requests and records an event of each, and services push   *)
(* events of their own under any name.                                     *)
(***************************************************************************)
EXTENDS Naturals, Sequences, FiniteSets, SequencesExt

CONSTANTS
    Services,     \* the polled services
    Statuses,     \* "healthy", "degraded", "unreachable", "timeout", "error"
    PoolSize,     \* workers of the pool
    MaxEvents,    \* MAX_EVENTS
    MaxPolls,     \* bound: cycles
    MaxPushed     \* bound: events pushed by services

VARIABLES
    services,   \* observation_store["services"]: the status shown of each
    feed,       \* observation_store["events"]
    polls,      \* observation_store["poll_count"]
    cycle,      \* number of the cycle of the poller
    waiting,    \* services without a worker in this cycle
    probes,     \* probes in progress
    request,    \* of the synthetic data set, 1..4
    pushed

observerVars == <<services, feed, polls, cycle, waiting, probes, request, pushed>>

Unseen == "not checked"
Lifecycle == <<"masterdb-validation", "masterdb-registration", "masterdb-certification", "masterdb-audit">>

\* The newest of them
Keep(events) == SubSeq(events, Len(events) - MaxEvents + 1, Len(events))

\* _record_event
Recorded(event) ==
    LET events == Append(feed, event) IN IF Len(events) > MaxEvents THEN Keep(events) ELSE events

\* Mutant: the probes of the last cycle are not waited for.
BeginCycleAtOnce ==
    /\ cycle < MaxPolls /\ cycle' = cycle + 1
    /\ waiting' = Services
    /\ polls' = cycle
    /\ UNCHANGED <<services, feed, probes, request, pushed>>

\* _poll_loop: all probes of the last cycle have ended
BeginCycle ==
    /\ waiting = {} /\ probes = {}
    /\ cycle < MaxPolls /\ cycle' = cycle + 1
    /\ waiting' = Services
    /\ polls' = cycle
    /\ UNCHANGED <<services, feed, probes, request, pushed>>

\* A worker of the pool asks the service.
BeginProbe(s) ==
    /\ s \in waiting /\ waiting' = waiting \ {s}
    /\ Cardinality(probes) < PoolSize
    /\ probes' = probes \cup {[service |-> s, cycle |-> cycle, status |-> Unseen]}
    /\ UNCHANGED <<services, feed, polls, cycle, request, pushed>>

\* _probe_service: the answer, or its failure, is shown
Show(p, status) ==
    /\ p \in probes /\ p.status = Unseen
    /\ services' = [services EXCEPT ![p.service] = status]
    /\ probes' = (probes \ {p}) \cup {[p EXCEPT !.status = status]}
    /\ UNCHANGED <<feed, polls, cycle, waiting, request, pushed>>

\* _probe_service: and recorded
Record(p) ==
    /\ p \in probes /\ p.status # Unseen
    /\ probes' = probes \ {p}
    /\ feed' = Recorded([by |-> "probe", service |-> p.service, status |-> p.status])
    /\ UNCHANGED <<services, polls, cycle, waiting, request, pushed>>

\* _masterdb_lifecycle_loop: the next request is made whatever this one gave
Drive(status) ==
    /\ pushed < MaxPushed /\ pushed' = pushed + 1
    /\ status \in {"healthy", "error"}
    /\ feed' = Recorded([by |-> "driver", service |-> Lifecycle[request], status |-> status])
    /\ request' = (request % 4) + 1
    /\ UNCHANGED <<services, polls, cycle, waiting, probes>>

\* ingest_event
Ingest(s, status) ==
    /\ pushed < MaxPushed /\ pushed' = pushed + 1
    /\ feed' = Recorded([by |-> "service", service |-> s, status |-> status])
    /\ UNCHANGED <<services, polls, cycle, waiting, probes, request>>

ObserverInit ==
    /\ services = [s \in Services |-> Unseen] /\ feed = <<>>
    /\ polls = 0 /\ cycle = 0 /\ waiting = {} /\ probes = {}
    /\ request = 1 /\ pushed = 0

ObserverNext ==
    \/ BeginCycle
    \/ \E s \in Services : BeginProbe(s)
    \/ \E p \in probes, status \in Statuses : Show(p, status)
    \/ \E p \in probes : Record(p)
    \/ \E status \in Statuses : Drive(status)
    \/ \E s \in Services, status \in Statuses : Ingest(s, status)

ObserverSpec == ObserverInit /\ [][ObserverNext]_observerVars

----------------------------------------------------------------------------
(* Properties *)

Recording(s) == \E p \in probes : p.service = s /\ p.status # Unseen
ProbedAt(s) == {i \in 1..Len(feed) : feed[i].by = "probe" /\ feed[i].service = s}

\* The status shown of a service is that of the newest event a probe of it
\* recorded, as long as the feed reaches back to it: the two are written apart,
\* by many workers, and only the probe at work may be between them.
FeedAgreesWithStatus ==
    \A s \in Services : ~Recording(s) /\ ProbedAt(s) # {} =>
        LET i == CHOOSE k \in ProbedAt(s) : \A l \in ProbedAt(s) : l <= k
        IN  feed[i].status = services[s]
=============================================================================
