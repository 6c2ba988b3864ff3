---------------------------- MODULE RuntimeIngest ----------------------------
(***************************************************************************)
(* POST /control-plane/runtime-ingest, POST /process-runtime and the live  *)
(* dashboard of the backend (backend/app/main.py), with the trace logger   *)
(* (core/trace_logger.py) and the decision engine.  FastAPI runs the       *)
(* handlers on threads of its pool.  The logger keeps the stage of THE     *)
(* trace in one global variable: every ingest resets it and advances it,   *)
(* and a stage that is not the next one is an exception, also after the    *)
(* action was executed.                                                    *)
(***************************************************************************)
EXTENDS Naturals, Sequences, FiniteSets

CONSTANTS
    Calls,        \* ingest requests
    ServiceOf,    \* the service each of them reports
    Env,          \* ENVIRONMENT, normalised
    Loads,        \* [cpu, memory] POST /process-runtime is asked with, whole percents
    Keep,         \* _RECENT_DECISIONS.maxlen
    MaxFailures,  \* bound: failing writes of the trace file
    MaxDecisions  \* bound: requests to /process-runtime

VARIABLES
    lastStage,   \* trace_logger._last_stage
    lastLine,    \* stage of the last line of trace_log.jsonl
    disorder,    \* a line that does not follow the one before it was written
    at,          \* where each call is
    writing,     \* calls that write the stage they are at
    ran,         \* calls whose action was executed
    confirmed,   \* calls whose execute_action returned True
    unanswered,  \* calls it returned False to with the request in the executor's hands
    unbuilt,     \* calls it raised to, for want of a contract
    answer,      \* calls: "none", "executed", "blocked", "raised"
    overlapped,  \* calls that were in flight together with another
    unlogged,    \* calls whose write of the trace file failed
    state,       \* INGESTED_RUNTIME_STATE: the last report of each service
    decisions,   \* _RECENT_DECISIONS, newest first
    decided,     \* requests to /process-runtime
    dashboard    \* GET /live-dashboard being built, or its answer

effectVars == <<ran, confirmed, unanswered, unbuilt>>
ingestVars == <<lastStage, lastLine, disorder, at, writing, effectVars, answer, overlapped,
                unlogged>>
shownVars == <<state, decisions, decided, dashboard>>
runtimeVars == <<ingestVars, shownVars>>

Flow == <<"detection", "payload_emitted", "action_received", "execution_result",
          "verification">>
Stages == {Flow[i] : i \in 1..Len(Flow)}
Follows(s, before) == \E i \in 1..(Len(Flow) - 1) : before = Flow[i] /\ s = Flow[i + 1]

\* log_event accepts any stage after a reset and after the last one.
InOrder(s) == lastStage \in {"none", "verification"} \/ Follows(s, lastStage)

-----------------------------------------------------------------------------
(* The decision *)

Scope == CASE Env = "DEV" -> {"noop", "scale_up", "scale_down", "restart"}
           [] Env = "STAGE" -> {"noop", "scale_up", "scale_down"}
           [] OTHER -> {"noop", "restart"}

Decide(cpu, memory) ==
    LET selected == CASE cpu >= 90 -> "scale_up"
                      [] cpu < 30 -> "scale_down"
                      [] OTHER -> IF memory > 85 THEN "scale_up" ELSE "noop"
    IN IF selected \in Scope THEN selected ELSE "noop"

-----------------------------------------------------------------------------
(* One ingest: between any two of its steps other calls take theirs *)

InFlight == {i \in Calls : at[i] \notin {"idle", "done"}}

Go(i, place) == at' = [at EXCEPT ![i] = place]
Answered(i, what) == Go(i, "done") /\ answer' = [answer EXCEPT ![i] = what]

Overlaps(i) == IF InFlight = {} THEN overlapped ELSE overlapped \cup InFlight \cup {i}

\* Mutant: the stage of the trace before is kept.
ReceiveOnly(i) ==
    /\ at[i] = "idle" /\ Go(i, "detection") /\ overlapped' = Overlaps(i)
    /\ UNCHANGED <<lastStage, lastLine, disorder, writing, effectVars, answer, unlogged, shownVars>>

Receive(i) ==
    /\ at[i] = "idle" /\ Go(i, "detection")
    /\ lastStage' = "none"   \* reset_trace
    /\ overlapped' = Overlaps(i)
    /\ UNCHANGED <<lastLine, disorder, writing, effectVars, answer, unlogged, shownVars>>

\* log_event: the stage is checked, set, and then written.  A stage out of
\* order and a failing write are an exception, an HTTP 500.
CheckStage(i, s) ==
    /\ at[i] = s /\ i \notin writing
    /\ IF InOrder(s)
       THEN writing' = writing \cup {i} /\ UNCHANGED <<at, answer>>
       ELSE Answered(i, "raised") /\ UNCHANGED writing
    /\ UNCHANGED <<lastStage, lastLine, disorder, effectVars, overlapped, unlogged, shownVars>>

After(s) == CASE s = "detection" -> "decide"
              [] s = "payload_emitted" -> "action_received"
              [] s = "action_received" -> "execute"
              [] s = "execution_result" -> "verification"
              [] s = "verification" -> "ensure"

WriteStage(i, s) ==
    /\ at[i] = s /\ i \in writing /\ writing' = writing \ {i}
    /\ lastStage' = s
    /\ lastLine' = s
    /\ disorder' = (disorder \/ ~(s = "detection" \/ Follows(s, lastLine)))
    /\ Go(i, After(s))
    /\ UNCHANGED <<effectVars, answer, overlapped, unlogged, shownVars>>

WriteFails(i, s) ==
    /\ at[i] = s /\ i \in writing /\ writing' = writing \ {i}
    /\ Cardinality(unlogged) < MaxFailures
    /\ lastStage' = s
    /\ unlogged' = unlogged \cup {i}
    /\ Answered(i, "raised")
    /\ UNCHANGED <<lastLine, disorder, effectVars, overlapped, shownVars>>

\* The report replaces the one kept of its service
StoreState(i) ==
    /\ at[i] = "decide" /\ Go(i, "payload_emitted")
    /\ state' = [s \in DOMAIN state \cup {ServiceOf[i]} |->
                    IF s = ServiceOf[i] THEN i ELSE state[s]]
    /\ dashboard' = [dashboard EXCEPT !.disturbed = @ \/ ServiceOf[i] \notin DOMAIN state]
    /\ UNCHANGED <<lastStage, lastLine, disorder, writing, effectVars, answer, overlapped,
                   unlogged, decisions, decided>>

\* execute_action executes, blocks, or gives up on what the executor has: an
\* answer that does not come in time or is not one, or an event that cannot be
\* recorded (module ExecuteAction says when).  It raises if the contract cannot
\* be recorded, before anything is sent.
Execute(i) ==
    /\ at[i] = "execute"
    /\ \/ /\ Go(i, "execution_result")
          /\ ran' = ran \cup {i} /\ confirmed' = confirmed \cup {i}
          /\ UNCHANGED <<unanswered, unbuilt, answer>>
       \/ /\ Go(i, "execution_result")
          /\ UNCHANGED <<effectVars, answer>>
       \/ /\ Go(i, "execution_result")
          /\ ran' \in {ran, ran \cup {i}} /\ unanswered' = unanswered \cup {i}
          /\ UNCHANGED <<confirmed, unbuilt, answer>>
       \/ /\ Answered(i, "raised")
          /\ unbuilt' = unbuilt \cup {i}
          /\ UNCHANGED <<ran, confirmed, unanswered>>
    /\ UNCHANGED <<lastStage, lastLine, disorder, writing, overlapped, unlogged, shownVars>>

\* The executor goes on with what the backend gave up.
RunsLate(i) ==
    /\ i \in unanswered \ ran
    /\ ran' = ran \cup {i}
    /\ UNCHANGED <<lastStage, lastLine, disorder, at, writing, confirmed, unanswered, unbuilt,
                   answer, overlapped, unlogged, shownVars>>

\* ensure_complete_trace, then the answer
Finish(i) ==
    /\ at[i] = "ensure"
    /\ Answered(i, IF lastStage # "verification" THEN "raised"
                   ELSE IF i \in confirmed THEN "executed" ELSE "blocked")
    /\ UNCHANGED <<lastStage, lastLine, disorder, writing, effectVars, overlapped, unlogged,
                   shownVars>>

-----------------------------------------------------------------------------
(* What is shown of it *)

\* POST /process-runtime decides and remembers; an ingest does not remember.
ProcessRuntime(load) ==
    /\ decided < MaxDecisions /\ decided' = decided + 1
    /\ LET action == Decide(load.cpu, load.memory)
           newer == <<action>> \o decisions
       IN decisions' = SubSeq(newer, 1, IF Len(newer) < Keep THEN Len(newer) ELSE Keep)
    /\ dashboard' = [dashboard EXCEPT !.disturbed = TRUE]
    /\ UNCHANGED <<ingestVars, state>>

NoDashboard == [phase |-> "idle", size |-> 0, rows |-> <<>>, disturbed |-> FALSE]
LastAction == IF decisions = <<>> THEN "noop" ELSE decisions[1]

AskDashboard ==
    /\ dashboard.phase # "rows"
    /\ dashboard' = [NoDashboard EXCEPT !.phase = "rows", !.size = Cardinality(DOMAIN state)]
    /\ UNCHANGED <<ingestVars, state, decisions, decided>>

\* A row per service, with the last action of all of them; Python refuses to
\* go on when the dictionary has grown.
ShowRow ==
    /\ dashboard.phase = "rows"
    /\ dashboard' =
        IF Cardinality(DOMAIN state) # dashboard.size
        THEN [dashboard EXCEPT !.phase = "raised"]
        ELSE IF Len(dashboard.rows) = dashboard.size
        THEN [dashboard EXCEPT !.phase = "answered"]
        ELSE [dashboard EXCEPT !.rows = Append(@, LastAction)]
    /\ UNCHANGED <<ingestVars, state, decisions, decided>>

-----------------------------------------------------------------------------
RuntimeInit ==
    /\ lastStage = "none" /\ lastLine = "verification" /\ disorder = FALSE
    /\ at = [i \in Calls |-> "idle"] /\ answer = [i \in Calls |-> "none"]
    /\ writing = {} /\ overlapped = {} /\ unlogged = {}
    /\ ran = {} /\ confirmed = {} /\ unanswered = {} /\ unbuilt = {}
    /\ state = <<>> /\ decisions = <<>> /\ decided = 0 /\ dashboard = NoDashboard

RuntimeNext ==
    \/ \E i \in Calls :
        \/ Receive(i) \/ StoreState(i) \/ Execute(i) \/ RunsLate(i) \/ Finish(i)
        \/ \E s \in Stages : CheckStage(i, s) \/ WriteStage(i, s) \/ WriteFails(i, s)
    \/ \E load \in Loads : ProcessRuntime(load)
    \/ AskDashboard \/ ShowRow

RuntimeSpec == RuntimeInit /\ [][RuntimeNext]_runtimeVars

-----------------------------------------------------------------------------
\* What an ingest is told of its action: "executed" only of one that was, and
\* "blocked" of one that was, then or later, only if the backend gave up on the
\* executor's answer or could not record it.  An exception after the report was
\* taken in means that another ingest moved the stage of its trace, that the
\* trace file could not be written, or that no contract was built, and then
\* nothing is ever executed.  Only overlapping ingests leave lines in the trace
\* file that do not follow each other (trace_logger.log_event,
\* main.runtime_ingest, main.execute_action).
OnlyOverlapHidesExecutions ==
    /\ \A i \in Calls : at[i] = "done" =>
        /\ answer[i] = "executed" => i \in ran
        /\ answer[i] = "blocked" /\ i \in ran => i \in unanswered
        /\ answer[i] = "raised" => i \in overlapped \cup unlogged \cup unbuilt
        /\ i \in unbuilt => i \notin ran
    /\ disorder => overlapped # {}

\* The dashboard shows one moment: all services with one last action, and an
\* exception only when a service was first reported while it was built
\* (main._build_live_dashboard_payload).
DashboardIsOneMoment ==
    ~dashboard.disturbed =>
        /\ dashboard.phase # "raised"
        /\ \A j, k \in 1..Len(dashboard.rows) : dashboard.rows[j] = dashboard.rows[k]
=============================================================================
