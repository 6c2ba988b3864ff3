--------------------------- MODULE ControlPlaneApi ---------------------------
(***************************************************************************)
(* The decision history of the control plane (control_plane/api/           *)
(* agent_api.py and multi_app_control_plane.py).  An ecosystem event is    *)
(* first a row of the history and then a signal handed to the executer; a  *)
(* publisher that got no answer publishes again.  The agent adds a row for *)
(* each decision.  The dashboard reads the rows it can parse, and /metrics *)
(* counts a score from them.  The override panel of the dashboard sets and *)
(* clears freezes.                                                         *)
(***************************************************************************)
EXTENDS Integers, FiniteSets, FiniteSetsExt

CONSTANTS
    Events,       \* ecosystem events
    Decisions,    \* decisions of the agent
    Recoveries,   \* rows whose action is "scale_up", "heal" or "restart"
    Crashes,      \* decisions about a crash
    Apps,         \* applications of the override panel
    MaxFailures,  \* bound: failing writes and crashes
    MaxPosts,     \* bound: publications of events
    MaxPanel      \* bound: requests of the panel

VARIABLES
    history,    \* lines of decision_history.jsonl that can be parsed, per row
    open,       \* the last line of the file has no end
    spoiled,    \* a line cannot be parsed
    publishing, \* events: "no", "posted", "recorded"
    ran,        \* signals executed or queued, per event
    rows,       \* rows written whole
    told,       \* decisions of which a row was written or failed
    accepted,   \* events answered with success
    frozen,     \* applications with an active freeze
    panel,      \* last request of the panel and its answer
    failures, posts, asked

fileVars == <<history, open, spoiled, rows>>
eventVars == <<fileVars, publishing, ran, told, accepted, posts, failures>>
panelVars == <<frozen, panel, asked>>
apiVars == <<eventVars, panelVars>>

Publishing(e, stage) == publishing' = [publishing EXCEPT ![e] = stage]

-----------------------------------------------------------------------------
(* append_decision_history: the row *)

\* A row is written behind an unfinished one on the same line, which then no
\* reader can parse ...
WriteRow(r) ==
    /\ history' = (IF open THEN history ELSE [history EXCEPT ![r] = @ + 1])
    /\ rows' = [rows EXCEPT ![r] = @ + 1]
    /\ open' = FALSE /\ UNCHANGED spoiled

\* ... and a write that fails may leave the beginning of a row.
RowFails ==
    /\ failures < MaxFailures /\ failures' = failures + 1
    /\ open' \in {open, TRUE} /\ spoiled' = (spoiled \/ open')
    /\ UNCHANGED <<history, rows>>

-----------------------------------------------------------------------------
(* POST /pravah/events *)

Post(e) ==
    /\ publishing[e] = "no" /\ posts < MaxPosts /\ posts' = posts + 1
    /\ Publishing(e, "posted")
    /\ UNCHANGED <<fileVars, ran, told, accepted, failures, panelVars>>

\* Mutant: the signal is executed before the row is written.
SignalFirst(e) ==
    /\ publishing[e] = "posted" /\ ran' = [ran EXCEPT ![e] = @ + 1]
    /\ Publishing(e, "recorded")
    /\ UNCHANGED <<fileVars, told, accepted, posts, failures, panelVars>>

Record(e) ==
    /\ publishing[e] = "posted" /\ Publishing(e, "recorded")
    /\ WriteRow(e)
    /\ UNCHANGED <<ran, told, accepted, posts, failures, panelVars>>

\* The event is refused.
RecordFails(e) ==
    /\ publishing[e] = "posted" /\ Publishing(e, "no")
    /\ RowFails
    /\ UNCHANGED <<ran, told, accepted, posts, panelVars>>

\* The signal is executed, or queued, or lost; the event is answered
Signal(e) ==
    /\ publishing[e] = "recorded"
    /\ ran' \in {ran, [ran EXCEPT ![e] = @ + 1]}
    /\ accepted' = accepted \cup {e}
    /\ Publishing(e, "no")
    /\ UNCHANGED <<fileVars, told, posts, failures, panelVars>>

\* The process ends: nobody is answered
Crash ==
    /\ \E e \in Events : publishing[e] # "no"
    /\ failures < MaxFailures /\ failures' = failures + 1
    /\ publishing' = [e \in Events |-> "no"]
    /\ UNCHANGED <<fileVars, ran, told, accepted, posts, panelVars>>

-----------------------------------------------------------------------------
(* The agent and the readers *)

\* AgentRuntime._act tells of its decision; that its row could not be written
\* is a warning.  Without a trace id there is no signal.
Tell(d) ==
    /\ told' = told \cup {d} /\ d \notin told
    /\ \/ WriteRow(d) /\ UNCHANGED failures
       \/ RowFails
    /\ UNCHANGED <<publishing, ran, accepted, posts, panelVars>>

\* _read_history skips the lines it cannot parse.
Timeline == {r \in Events \cup Decisions : history[r] > 0}

\* A recovery counts as such whatever it was about; a row of an event is never
\* a failure, as it has neither a state nor an event type.
Score(lines) ==
    LET recoveries == MapThenSumSet(LAMBDA r : lines[r], Recoveries)
        crashes == MapThenSumSet(LAMBDA r : lines[r], Crashes \ Recoveries)
        raw == 100 - 2 * crashes + 3 * recoveries
    IN  IF raw > 100 THEN 100 ELSE IF raw < 0 THEN 0 ELSE raw

Unavailable == [status |-> "unavailable", score |-> 0]

\* /metrics gives up at the first line it cannot parse.
Metrics == IF spoiled THEN Unavailable ELSE [status |-> "available", score |-> Score(history)]

-----------------------------------------------------------------------------
(* POST /api/control-plane/override *)

OverrideActions == {"set_freeze", "clear_freeze"}   \* VALID_OVERRIDE_ACTIONS
PanelActions == {"freeze", "clear_freeze"}

\* The panel sends one of its two actions; the API validates and applies it
Override(app, action) ==
    /\ asked < MaxPanel /\ asked' = asked + 1
    /\ panel' = [app |-> app, action |-> action,
                 answer |-> IF action \in OverrideActions THEN "success" ELSE "error"]
    /\ frozen' = CASE action = "set_freeze" -> frozen \cup {app}
                   [] action = "clear_freeze" -> frozen \ {app}
                   [] OTHER -> frozen
    /\ UNCHANGED eventVars

-----------------------------------------------------------------------------
ApiInit ==
    /\ history = [r \in Events \cup Decisions |-> 0] /\ rows = history
    /\ open = FALSE /\ spoiled = FALSE /\ told = {}
    /\ publishing = [e \in Events |-> "no"]
    /\ ran = [e \in Events |-> 0]
    /\ accepted = {} /\ posts = 0 /\ failures = 0
    /\ frozen \in SUBSET Apps
    /\ panel = [app |-> "none", action |-> "none", answer |-> "none"] /\ asked = 0

ApiNext ==
    \/ \E e \in Events : Post(e) \/ Record(e) \/ RecordFails(e) \/ Signal(e)
    \/ \E app \in Apps, action \in PanelActions : Override(app, action)
    \/ \E d \in Decisions : Tell(d)
    \/ Crash

ApiSpec == ApiInit /\ [][ApiNext]_apiVars

-----------------------------------------------------------------------------
\* No event is executed more often than the history has rows of it: an event
\* refused because its row could not be written never ran, whatever failed
\* and however often it was published; a write that fails half way hides at
\* most one row that was written, from the timeline of the dashboard; and the
\* metrics have a score of every such row, unless a write failed
\* (MultiAppControlPlane.append_decision_history, agent_api.shakti_events,
\* agent_api.prometheus_metrics).
EventsRunOnlyRecorded ==
    /\ \A e \in Events : ran[e] <= rows[e]
    /\ Cardinality(accepted \ Timeline) <= failures
    /\ IF Metrics.status = "available" THEN Metrics.score = Score(rows) ELSE failures > 0
=============================================================================
