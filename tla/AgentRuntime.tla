---------------------------- MODULE AgentRuntime ----------------------------
(***************************************************************************)
(* The agent runtime (agent_runtime.py, control_plane/core/agent_state.py).*)
(* The thread of run() and the handlers of external events take turns,     *)
(* under _loop_lock, to drive one state machine through a cycle of sense,  *)
(* validate, decide, enforce, act, observe and explain.  A cycle may end   *)
(* early at most of its steps, and a step may raise.  The signal handler   *)
(* and the shutdown of the run() thread do not take the lock.              *)
(*                                                                         *)
(* A request is one call of handle_external_event.  The decision provider, *)
(* the governance and the executer are choices.                            *)
(*                                                                         *)
(* The API runs in several worker processes, each with such a runtime.     *)
(* They share the file of consumed traces (security/trace_consumption.py), *)
(* of which each keeps the copy it loaded first and which each writes      *)
(* whole.  One worker is modelled as above; of the others there is what    *)
(* they do to this file and to the traces.                                 *)
(***************************************************************************)
EXTENDS Naturals, FiniteSets

CONSTANTS
    Requests,    \* external events, one handler thread each
    Loop,        \* the thread of run()
    Traces,
    NoTrace,     \* an observation without trace_id, or no observation
    Elsewhere,   \* other worker processes
    Deployments, \* bound: pairs of the requests that come and the workers that run
    MaxTroubles  \* bound: trace stores and explanations that fail, restarts

ASSUME AgentRuntimeAssumption ==
    /\ Loop \notin Requests
    /\ NoTrace \notin Traces
    /\ "here" \notin Elsewhere
    /\ Deployments \subseteq (SUBSET Requests) \X (SUBSET Elsewhere)
    /\ MaxTroubles \in Nat

VARIABLES
    state,    \* _current_state
    lock,     \* the threads that hold _loop_lock
    flag,     \* _shutdown_requested
    last,     \* _last_decision: what it says, and of whose cycle
    pc, obs,  \* where each thread is, and the trace it observed
    saved,    \* the state in agent_state_<id>.json, or "none"
    copies,   \* [process]: its consumed_traces, as far as it is loaded
    store,    \* trace_consumption.json
    away,     \* [other worker]: where its cycle is, and the trace it has
    answer,   \* what the caller of each request got
    \* history and bounds
    executed,   \* how often the executer was called for each trace
    unconsumed, \* traces executed whose consumption did not happen
    missed,     \* traces consumed or in hand where some worker does not see it
    silent,     \* requests whose cycle left no decision of its own
    clean,      \* the process started in IDLE
    troubles

machineVars == <<state, last, flag, lock>>
registryVars == <<copies, store, away>>
durableVars == <<saved, registryVars>>
histVars    == <<executed, unconsumed, missed, silent, clean>>
vars == <<machineVars, pc, obs, durableVars, answer, histVars, troubles>>

----------------------------------------------------------------------------
(* The state machine and the lock. *)

Threads == Requests \cup {Loop}

Valid ==
    [idle              |-> {"observing", "shutting_down"},
     observing         |-> {"validating", "idle", "blocked"},
     validating        |-> {"deciding", "idle", "blocked"},
     deciding          |-> {"enforcing", "blocked"},
     enforcing         |-> {"acting", "idle", "blocked"},
     acting            |-> {"observing_results", "blocked"},
     observing_results |-> {"explaining", "blocked"},
     explaining        |-> {"idle", "blocked"},
     blocked           |-> {"idle", "shutting_down"},
     shutting_down     |-> {}]

States == DOMAIN Valid

Nobody == [says |-> "nothing", of |-> NoTrace]
Failed == [says |-> "failure", of |-> NoTrace]
Decision(what, t) == [says |-> what, of |-> t]

At(t, place) == pc[t] = place
GoTo(t, place) == pc' = [pc EXCEPT ![t] = place]

Trouble == troubles < MaxTroubles /\ troubles' = troubles + 1
Silent(t) == silent' = silent \cup ({t} \cap Requests)

\* Mutant: the lock is taken and released without a with statement.
RaiseHoldingLock(t) ==
    GoTo(t, IF t = Loop THEN "shutdown" ELSE "raised") /\ UNCHANGED lock

\* An exception leaves the cycle.  The with statement of run() releases the
\* lock and the finally clause shuts down; a handler has a finally of its own.
Raise(t) ==
    IF t = Loop THEN GoTo(t, "shutdown") /\ lock' = lock \ {t}
                ELSE GoTo(t, "raised") /\ UNCHANGED lock

\* transition_to raises ValueError if the transition is not valid.
CanTransition(s) == s \in Valid[state]

TransitionFails(t, s) ==
    /\ ~CanTransition(s)
    /\ Raise(t)
    /\ UNCHANGED <<state, flag, last, obs, durableVars, answer, histVars,
                   troubles>>

\* A step that is nothing but a transition.
Transition(t, from, s, to) ==
    /\ At(t, from)
    /\ \/ TransitionFails(t, s)
       \/ /\ CanTransition(s)
          /\ state' = s
          /\ GoTo(t, to)
          /\ UNCHANGED <<lock, flag, last, obs, durableVars, answer, histVars,
                         troubles>>

----------------------------------------------------------------------------
(* The registry of consumed traces. *)

Here == "here"   \* the worker that is modelled as a whole
Processes == Elsewhere \cup {Here}

NotLoaded == [loaded |-> FALSE, set |-> {}]
Loaded(S) == [loaded |-> TRUE, set |-> S]
Torn      == [torn |-> TRUE, set |-> {}]
Whole(S)  == [torn |-> FALSE, set |-> S]
Resting   == [at |-> "rest", trace |-> NoTrace]
Absent    == [at |-> "absent", trace |-> NoTrace]

\* get_trace_registry loads the file once in the life of a process.
Readable(p) == copies[p].loaded \/ ~store.torn
Held(p)     == IF copies[p].loaded THEN copies[p].set ELSE store.set
Loads(p)    == copies' = [copies EXCEPT ![p] = Loaded(Held(p))]

\* The traces each process has accepted, and those it has executed since.
Consuming(p) == IF p = Here THEN {obs[t] : t \in {u \in Threads : At(u, "consume")}}
                ELSE IF away[p].at = "consume" THEN {away[p].trace} ELSE {}
InHand(p) ==
    IF p = Here
    THEN {obs[t] : t \in {u \in Threads :
                  pc[u] \in {"decide", "enforce", "judge", "act", "execute", "consume"}}}
    ELSE {away[p].trace}

\* Process p accepts x, which is not in its copy.
Accepts(p, x) ==
    LET inHand == UNION {InHand(q) : q \in Processes \ {p}}
    IN  missed' = missed \cup ({x} \cap Traces \cap (store.set \cup inHand))

\* consume: the copy with x is written whole through the one temporary file,
\* which another process may write at the same time: then the file may be torn,
\* or be the copy of the other ...
Keep(p, x) ==
    LET copy(q, y) == Whole(Held(q) \cup (y \cap Traces))
        others == {q \in Processes \ {p} : Consuming(q) # {}}
    IN  /\ copies' = [copies EXCEPT ![p] = Loaded(Held(p) \cup ({x} \cap Traces))]
        /\ store' \in {copy(p, {x})} \cup {copy(q, Consuming(q)) : q \in others}
                       \cup (IF others = {} THEN {} ELSE {Torn})
        /\ missed' = missed \cup ((store.set \cup ({x} \cap Traces)) \ store'.set)
        /\ UNCHANGED <<unconsumed, troubles>>

\* ... or it raises, and the copy is as before.  What p wrote may be in a file
\* that another process had moved to its place unfinished.
KeepFails(p, x) ==
    /\ Trouble
    /\ \/ UNCHANGED store
       \/ store.torn /\ store' = Whole(Held(p) \cup ({x} \cap Traces))
    /\ unconsumed' = unconsumed \cup ({x} \cap Traces)
    /\ UNCHANGED <<copies, missed>>

----------------------------------------------------------------------------
(* The cycle. *)

\* Taking the lock, for a request with the trace x.
Acquire(t) ==
    /\ At(t, "wait")
    /\ lock = {}
    /\ IF flag /\ t # Loop
       THEN /\ GoTo(t, "done")
            /\ answer' = [answer EXCEPT ![t] = Failed]
            /\ UNCHANGED <<lock, obs>>
       ELSE /\ GoTo(t, "sense")
            /\ lock' = {t}
            /\ \E x \in Traces :
                  obs' = [obs EXCEPT ![t] = IF t = Loop THEN NoTrace ELSE x]
            /\ UNCHANGED answer
    /\ UNCHANGED <<state, flag, last, durableVars, histVars, troubles>>

\* The first step of _execute_agent_loop with a manual observation.
SenseRequest(r) ==
    /\ At(r, "sense") /\ r # Loop
    /\ state' = IF state = "idle" THEN "observing" ELSE state
    /\ GoTo(r, "validate")
    /\ UNCHANGED <<flag, last, lock, obs, durableVars, answer, histVars,
                   troubles>>

\* _sense: an observation, nothing, or an error.
Sense ==
    /\ At(Loop, "sense")
    /\ \/ TransitionFails(Loop, "observing")
       \/ /\ CanTransition("observing")
          /\ \/ /\ state' = "observing"
                /\ \E x \in Traces \cup {NoTrace} : obs' = [obs EXCEPT ![Loop] = x]
                /\ GoTo(Loop, "validate")
             \/ /\ state' \in {"observing", "blocked"}
                /\ GoTo(Loop, "end")
                /\ UNCHANGED obs
          /\ UNCHANGED <<flag, last, lock, durableVars, answer, histVars,
                         troubles>>

\* Mutant: the trace is not looked up.
ValidateNothing(t) == Transition(t, "validate", "validating", "decide")

\* The trace is looked up: there is none or it is new, it was consumed, or the
\* registry cannot be loaded.
Validate(t) ==
    /\ At(t, "validate")
    /\ \/ TransitionFails(t, "validating")
       \/ /\ CanTransition("validating")
          /\ state' = "validating"
          /\ \/ /\ obs[t] = NoTrace
                /\ GoTo(t, "decide")
                /\ UNCHANGED <<lock, last, copies, missed, troubles>>
             \/ /\ obs[t] # NoTrace /\ Readable(Here) /\ Loads(Here)
                /\ obs[t] \notin Held(Here)
                /\ Accepts(Here, obs[t])
                /\ GoTo(t, "decide")
                /\ UNCHANGED <<lock, last, troubles>>
             \/ /\ obs[t] # NoTrace /\ Readable(Here) /\ Loads(Here)
                /\ obs[t] \in Held(Here)
                /\ last' = Decision("error", t)
                /\ GoTo(t, "end")
                /\ UNCHANGED <<lock, missed, troubles>>
             \/ /\ obs[t] # NoTrace /\ ~copies[Here].loaded
                /\ IF store.torn THEN UNCHANGED troubles ELSE Trouble
                /\ Raise(t)
                /\ UNCHANGED <<last, copies, missed>>
          /\ UNCHANGED <<flag, obs, saved, store, away, answer, executed, unconsumed,
                         silent, clean>>

\* _decide: a provider that fails gives a decision too, an invalid one.
Decide(t) == Transition(t, "decide", "deciding", "enforce")

\* _enforce, up to the verdict ...
Enforce(t) == Transition(t, "enforce", "enforcing", "judge")

\* Mutant: a block is not made visible.
JudgeQuietly(t) ==
    /\ At(t, "judge")
    /\ \/ GoTo(t, "act") /\ UNCHANGED state
       \/ CanTransition("blocked") /\ state' = "blocked" /\ GoTo(t, "end")
    /\ UNCHANGED <<flag, lock, last, obs, durableVars, answer, histVars,
                   troubles>>

\* ... which is allowed, blocked, or an error; that BLOCKED cannot be entered
\* is an error, too.
Judge(t) ==
    /\ At(t, "judge")
    /\ \/ /\ GoTo(t, "act")
          /\ UNCHANGED <<state, last, silent>>
       \/ /\ CanTransition("blocked")
          /\ state' = "blocked"
          /\ last' = Decision("noop", t)
          /\ GoTo(t, "end")
          /\ UNCHANGED silent
       \/ /\ Silent(t)
          /\ state' \in {state} \cup ({"blocked"} \cap Valid[state])
          /\ GoTo(t, "end")
          /\ UNCHANGED last
    /\ UNCHANGED <<flag, lock, obs, durableVars, answer, executed, unconsumed,
                   missed, clean, troubles>>

Act(t) == Transition(t, "act", "acting", "execute")

\* _act, up to execute(): done, or failed, which it always is without trace.
Execute(t) ==
    /\ At(t, "execute")
    /\ \/ /\ obs[t] # NoTrace
          /\ executed' = [executed EXCEPT ![obs[t]] = @ + 1]
          /\ GoTo(t, "consume")
       \/ /\ GoTo(t, "observe")
          /\ UNCHANGED executed
    /\ UNCHANGED <<machineVars, obs, durableVars, answer, unconsumed, missed,
                   silent, clean, troubles>>

\* consume_trace, whose exception makes the execution a failed one.
Consume(t) ==
    /\ At(t, "consume")
    /\ GoTo(t, "observe")
    /\ Keep(Here, obs[t]) \/ KeepFails(Here, obs[t])
    /\ UNCHANGED <<machineVars, obs, saved, away, answer, executed, silent, clean>>

Observe(t) == Transition(t, "observe", "observing_results", "explain")

\* _explain keeps the decision, unless its logging raises.
Explain(t) ==
    /\ At(t, "explain")
    /\ \/ TransitionFails(t, "explaining")
       \/ /\ CanTransition("explaining")
          /\ state' = "explaining"
          /\ GoTo(t, "end")
          /\ \/ last' = Decision("decision", t) /\ UNCHANGED <<silent, troubles>>
             \/ Trouble /\ Silent(t) /\ UNCHANGED last
          /\ UNCHANGED <<flag, lock, obs, durableVars, answer, executed,
                         unconsumed, missed, clean>>

----------------------------------------------------------------------------
(* The ends of a cycle, the shutdown and the restart. *)

\* Mutant: run() does not return to idle.
SleepAnyhow ==
    /\ At(Loop, "end")
    /\ GoTo(Loop, "sleep")
    /\ lock' = {}
    /\ UNCHANGED <<state, flag, last, obs, durableVars, answer, histVars,
                   troubles>>

\* run() returns to idle, releases the lock and sleeps.  The ends of its cycles
\* are in states that may return to idle: run() does not force it.
EndLoop ==
    /\ At(Loop, "end")
    /\ CanTransition("idle")
    /\ state' = "idle"
    /\ GoTo(Loop, "sleep")
    /\ lock' = {}
    /\ obs' = [obs EXCEPT ![Loop] = NoTrace]
    /\ UNCHANGED <<flag, last, durableVars, answer, histVars, troubles>>

\* handle_external_event forces IDLE, and returns _last_decision or raises.
EndRequest(r) ==
    /\ r # Loop
    /\ At(r, "end") \/ At(r, "raised")
    /\ state' = "idle"
    /\ lock' = {}
    /\ GoTo(r, "done")
    /\ answer' = [answer EXCEPT ![r] =
          IF At(r, "raised") \/ last = Nobody THEN Failed ELSE last]
    /\ obs' = [obs EXCEPT ![r] = NoTrace]
    /\ UNCHANGED <<flag, last, durableVars, histVars, troubles>>

\* while not self._shutdown_requested
WakeUp ==
    /\ At(Loop, "sleep")
    /\ GoTo(Loop, IF flag THEN "shutdown" ELSE "wait")
    /\ UNCHANGED <<machineVars, obs, durableVars, answer, histVars, troubles>>

\* _shutdown tries the transition without the lock: it looks ...
Shutdown ==
    /\ At(Loop, "shutdown")
    /\ GoTo(Loop, IF CanTransition("shutting_down") THEN "stop" ELSE "save")
    /\ UNCHANGED <<machineVars, obs, durableVars, answer, histVars, troubles>>

\* ... and assigns, over what a handler did between.
Stop ==
    /\ At(Loop, "stop")
    /\ state' = "shutting_down"
    /\ GoTo(Loop, "save")
    /\ UNCHANGED <<flag, last, lock, obs, durableVars, answer, histVars,
                   troubles>>

\* save_to_file
Save ==
    /\ At(Loop, "save")
    /\ saved' = state
    /\ GoTo(Loop, "dead")
    /\ UNCHANGED <<machineVars, obs, registryVars, answer, histVars, troubles>>

\* _signal_handler
Signal ==
    /\ flag' = TRUE
    /\ UNCHANGED <<state, last, lock, pc, obs, durableVars, answer, histVars,
                   troubles>>

\* load_from_file, or IDLE if there is no file of this agent or it cannot be read
Recovered == {"idle"} \cup ({saved} \cap States)

\* The process ends, or is killed, and starts again: with the agent id it had
\* it recovers the saved state, with a generated one it is IDLE.
Restart ==
    /\ Trouble
    /\ state' \in Recovered
    /\ clean' = (state' = "idle")
    /\ lock' = {} /\ flag' = FALSE /\ last' = Nobody
    /\ pc' = [t \in Threads |-> IF t = Loop THEN "sleep"
                                ELSE IF At(t, "wait") THEN "wait" ELSE "done"]
    /\ obs' = [t \in Threads |-> NoTrace]
    /\ answer' = [r \in Requests |-> IF At(r, "wait") \/ At(r, "done")
                                     THEN answer[r] ELSE Failed]
    /\ copies' = [copies EXCEPT ![Here] = NotLoaded]
    /\ unconsumed' = unconsumed \cup Consuming(Here)
    /\ UNCHANGED <<saved, store, away, executed, missed, silent>>

----------------------------------------------------------------------------
(* The other workers: each has a lock and a cycle of its own. *)

ownVars == <<machineVars, pc, obs, saved, answer, silent, clean>>

\* A trace, or NoTrace for one that comes only there, is looked up and new.
AcceptElsewhere(w, x) ==
    /\ away[w] = Resting
    /\ Readable(w) /\ Loads(w) /\ x \notin Held(w)
    /\ Accepts(w, x)
    /\ away' = [away EXCEPT ![w] = [at |-> "act", trace |-> x]]
    /\ UNCHANGED <<ownVars, store, executed, unconsumed, troubles>>

\* The cycle ends without an execution.
EndElsewhere(w) ==
    /\ away[w].at = "act"
    /\ away' = [away EXCEPT ![w] = Resting]
    /\ UNCHANGED <<ownVars, copies, store, executed, unconsumed, missed, troubles>>

ExecuteElsewhere(w) ==
    /\ away[w].at = "act"
    /\ away' = [away EXCEPT ![w] = [at |-> "consume", trace |-> @.trace]]
    /\ executed' = [x \in Traces |-> IF x = away[w].trace THEN executed[x] + 1 ELSE executed[x]]
    /\ UNCHANGED <<ownVars, copies, store, unconsumed, missed, troubles>>

ConsumeElsewhere(w) ==
    /\ away[w].at = "consume"
    /\ Keep(w, away[w].trace) \/ KeepFails(w, away[w].trace)
    /\ away' = [away EXCEPT ![w] = Resting]
    /\ UNCHANGED <<ownVars, executed>>

RestartElsewhere(w) ==
    /\ away[w] # Absent /\ Trouble
    /\ away' = [away EXCEPT ![w] = Resting]
    /\ copies' = [copies EXCEPT ![w] = NotLoaded]
    /\ unconsumed' = unconsumed \cup (Consuming(w) \cap Traces)
    /\ UNCHANGED <<ownVars, store, executed, missed>>

----------------------------------------------------------------------------

Init ==
    /\ state = "idle" /\ lock = {} /\ flag = FALSE /\ last = Nobody
    /\ \E d \in Deployments :
          /\ pc = [t \in Threads |-> IF t = Loop THEN "sleep"
                                     ELSE IF t \in d[1] THEN "wait" ELSE "done"]
          /\ away = [w \in Elsewhere |-> IF w \in d[2] THEN Resting ELSE Absent]
    /\ obs = [t \in Threads |-> NoTrace]
    /\ saved = "none" /\ store = Whole({})
    /\ copies = [p \in Processes |-> NotLoaded]
    /\ answer = [r \in Requests |-> Nobody]
    /\ executed = [x \in Traces |-> 0] /\ unconsumed = {} /\ missed = {}
    /\ silent = {} /\ clean = TRUE /\ troubles = 0

Step(t) ==
    \/ SenseRequest(t) \/ Validate(t) \/ Decide(t) \/ Enforce(t) \/ Judge(t)
    \/ Act(t) \/ Execute(t) \/ Consume(t) \/ Observe(t) \/ Explain(t)
    \/ EndRequest(t)

LoopStep == Sense \/ EndLoop \/ WakeUp \/ Shutdown \/ Stop \/ Save

StepElsewhere(w) ==
    \/ \E x \in Traces \cup {NoTrace} : AcceptElsewhere(w, x)
    \/ EndElsewhere(w) \/ ExecuteElsewhere(w) \/ ConsumeElsewhere(w) \/ RestartElsewhere(w)

Next ==
    \/ \E t \in Threads : Acquire(t) \/ Step(t)
    \/ LoopStep \/ Signal \/ Restart
    \/ \E w \in Elsewhere : StepElsewhere(w)

Spec == Init /\ [][Next]_vars

----------------------------------------------------------------------------
(* Properties. *)

\* However a cycle ends, whoever drove it, the machine is IDLE when the lock is
\* free: the next cycle never starts in the middle of another.  This takes a
\* start in IDLE and a run() that is not on its way out.
IdleBetweenCycles ==
    clean /\ lock = {} /\ pc[Loop] \in {"sleep", "wait"} => state = "idle"

\* A trace is executed twice only if an execution of it was not followed by
\* its consumption, by a failing store or the death of the process, or if a
\* worker could not see the other: it accepted what another had in hand or had
\* recorded after it loaded its copy, or a worker wrote its copy over the record.
\* Handlers and the run() thread of one worker do not execute a trace they race
\* for, nor do two workers of which the second starts after the first consumed.
OnlyUnconsumedTracesRepeat ==
    \A x \in Traces \ (unconsumed \cup missed) : executed[x] <= 1

\* A caller gets the decision of its own event, a failure, or, only if the
\* cycle of its event left none, the decision of an earlier event.
OnlySilentCyclesAnswerStale ==
    \A r \in Requests \ silent :
        answer[r].says \in {"error", "noop", "decision"} => answer[r].of = r
=============================================================================
