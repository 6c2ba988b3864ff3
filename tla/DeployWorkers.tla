---------------------------- MODULE DeployWorkers ----------------------------
(***************************************************************************)
(* The pool of deployment workers (agents/multi_deploy_agent.py) and the   *)
(* emission of an event for each piece of work (core/guaranteed_events.py).*)
(*                                                                         *)
(* Work is submitted to a queue.Queue and taken by threads, one for each   *)
(* deploy agent and start of the pool.  Stopping the pool clears running   *)
(* and puts one None, a pill, for each agent; the join of a thread gives   *)
(* up after a second, so a thread that is at work outlives the stop, and a *)
(* pill that no thread took stays in the queue.                            *)
(*                                                                         *)
(* An event goes to four sinks, each tried whatever the others did; the    *)
(* error that names those that failed is printed by the worker.  Three of  *)
(* the sinks are imported as core.*, which the containers cannot import.   *)
(***************************************************************************)
EXTENDS Naturals, FiniteSets, Sequences, SequencesExt

CONSTANTS
    Agents,    \* deploy_agents
    Jobs,      \* submitted pairs of a data set and an action
    Kinds,     \* actions a job may ask for
    MaxStarts  \* bound: how often the pool is started

VARIABLES
    env,        \* environment of the agent
    broken,     \* sinks that fail
    running,
    starts,     \* how often the pool was started
    owed,       \* pills stop_workers has yet to put
    queue,      \* work_queue
    unfinished, \* work_queue.unfinished_tasks
    place,      \* [thread]: where it is in its loop
    held,       \* [thread]: the job it took, or NoJob
    events,     \* [sink]: jobs it got the event of
    rows,       \* [job]: its rows in the logs of the agents
    \* history
    accepted,   \* jobs submit_deployment answered True for
    finished,   \* jobs a worker finished, in order or by an error
    poisoned    \* the pool was started over pills of an earlier stop

vars == <<env, broken, running, starts, owed, queue, unfinished, place, held, events, rows,
          accepted, finished, poisoned>>
queueVars == <<queue, unfinished>>
poolVars == <<running, starts, owed, poisoned>>
setting == <<env, broken>>

WorkerThreads == Agents \X (1..MaxStarts)
Sinks == <<"redis", "csv", "metrics", "rl">>
CoreSinks == {"redis", "metrics", "rl"}   \* need the import of core.*
Pill == "pill"
NoJob == "none"

Blocked == {"scale_up", "scale_down", "restore_previous_version", "adjust_thresholds"}
Whitelist == {"noop", "restart", "retry_deployment"}

\* validate_prod_action; the global list of blocked actions is one of them
Valid(kind) ==
    /\ kind # "drop_database"
    /\ env = "prod" => kind \notin Blocked /\ kind \in Whitelist

Put(seq, x) == Append(seq, x)

\* submit_deployment: a refused job is only reported.
Submit(j, kind) ==
    /\ j \notin accepted
    /\ Valid(kind)
    /\ queue' = Put(queue, j) /\ unfinished' = unfinished + 1
    /\ accepted' = accepted \cup {j}
    /\ UNCHANGED <<setting, poolVars, place, held, events, rows, finished>>

\* start_workers: a new thread for each agent, beside those still at work
Start ==
    /\ ~running /\ owed = 0 /\ starts < MaxStarts
    /\ running' = TRUE /\ starts' = starts + 1
    /\ place' = [t \in WorkerThreads |-> IF t[2] = starts' THEN "test" ELSE place[t]]
    /\ poisoned' = (poisoned \/ Pill \in ToSet(queue))
    /\ UNCHANGED <<setting, owed, queueVars, held, events, rows, accepted, finished>>

\* stop_workers: running is cleared, then the pills are put.
Stop ==
    /\ running
    /\ running' = FALSE /\ owed' = Cardinality(Agents)
    /\ UNCHANGED <<setting, starts, poisoned, queueVars, place, held, events, rows, accepted, finished>>

PutPill ==
    /\ owed > 0 /\ owed' = owed - 1
    /\ queue' = Put(queue, Pill) /\ unfinished' = unfinished + 1
    /\ UNCHANGED <<setting, running, starts, poisoned, place, held, events, rows, accepted, finished>>

Goto(t, at, to) == place[t] = at /\ place' = [place EXCEPT ![t] = to]

\* while self.running
Test(t) ==
    /\ Goto(t, "test", IF running THEN "get" ELSE "done")
    /\ UNCHANGED <<setting, poolVars, queueVars, held, events, rows, accepted, finished>>

\* queue.Empty: nothing came for a second
Timeout(t) ==
    /\ queue = <<>>
    /\ Goto(t, "get", "test")
    /\ UNCHANGED <<setting, poolVars, queueVars, held, events, rows, accepted, finished>>

\* A pill ends the thread that takes it.
TakePill(t) ==
    /\ queue # <<>> /\ Head(queue) = Pill
    /\ Goto(t, "get", "done")
    /\ queue' = Tail(queue) /\ unfinished' = unfinished - 1
    /\ UNCHANGED <<setting, poolVars, held, events, rows, accepted, finished>>

TakeJob(t) ==
    /\ queue # <<>> /\ Head(queue) # Pill
    /\ Goto(t, "get", "work")
    /\ held' = [held EXCEPT ![t] = Head(queue)]
    /\ queue' = Tail(queue)
    /\ UNCHANGED <<setting, poolVars, unfinished, events, rows, accepted, finished>>

\* The deployment, or the time the action takes.
Work(t) ==
    /\ Goto(t, "work", "emit")
    /\ UNCHANGED <<setting, poolVars, queueVars, held, events, rows, accepted, finished>>

\* emit_runtime_event: the sinks the event reaches
Reached(broke) == ToSet(Sinks) \ broke

\* The error of the emission, if any, is printed and the job goes on.
Emit(t) ==
    /\ Goto(t, "emit", "log")
    /\ events' = [s \in ToSet(Sinks) |-> IF s \in Reached(broken) THEN events[s] \cup {held[t]}
                                         ELSE events[s]]
    /\ UNCHANGED <<setting, poolVars, queueVars, held, rows, accepted, finished>>

\* task_done, and back to the loop
Finish(t) ==
    /\ finished' = finished \cup {held[t]}
    /\ held' = [held EXCEPT ![t] = NoJob]
    /\ unfinished' = unfinished - 1

\* log_deployment: the row, then the event and the metrics of the agent
Log(t) ==
    /\ Goto(t, "log", "test")
    /\ rows' = [rows EXCEPT ![held[t]] = @ + 1]
    /\ Finish(t)
    /\ UNCHANGED <<setting, poolVars, queue, events, accepted>>

\* Mutant: the error leaves the loop.
RaiseEnds(t) ==
    /\ Goto(t, "work", "done") \/ Goto(t, "log", "done")
    /\ Finish(t) /\ rows' = rows
    /\ UNCHANGED <<setting, poolVars, queue, events, accepted>>

\* except Exception: the work failed, or the log did before its row or after it;
\* the job is counted as done and not tried again.
Raise(t) ==
    /\ \/ Goto(t, "work", "test") /\ rows' = rows
       \/ Goto(t, "log", "test") /\ rows' \in {rows, [rows EXCEPT ![held[t]] = @ + 1]}
    /\ Finish(t)
    /\ UNCHANGED <<setting, poolVars, queue, events, accepted>>

Init ==
    /\ env \in {"dev", "prod"}
    /\ broken \in {{}, CoreSinks, ToSet(Sinks)}
    /\ running = FALSE /\ starts = 0 /\ owed = 0 /\ poisoned = FALSE
    /\ queue = <<>> /\ unfinished = 0
    /\ place = [t \in WorkerThreads |-> "unborn"] /\ held = [t \in WorkerThreads |-> NoJob]
    /\ events = [s \in ToSet(Sinks) |-> {}] /\ rows = [j \in Jobs |-> 0]
    /\ accepted = {} /\ finished = {}

\* The steps of a thread
Loop(t) ==
    \/ Test(t) \/ Timeout(t) \/ TakePill(t) \/ TakeJob(t)
    \/ Work(t) \/ Emit(t) \/ Log(t) \/ Raise(t)

Next ==
    \/ \E j \in Jobs, k \in Kinds : Submit(j, k)
    \/ Start \/ Stop \/ PutPill
    \/ \E t \in WorkerThreads : Loop(t)

\* A thread that can go on does: its waits all have a time limit.
Spec == Init /\ [][Next]_vars /\ \A t \in WorkerThreads : WF_vars(Loop(t))

----------------------------------------------------------------------------
(* Properties *)

Starving(j) == j \in ToSet(queue) /\ running /\ ~poisoned

\* A queued job is taken unless the pool is stopped; only a pool that was started
\* over the pills of an earlier stop lets it wait for ever.
OnlyPoisonedPoolsStarve ==
    \A j \in Jobs : Starving(j) ~> ~Starving(j)
=============================================================================
