----------------------------- MODULE AgentSenses -----------------------------
(***************************************************************************)
(* What an agent perceives (core/perception.py, perception_adapters.py)    *)
(* and the uptime monitor it creates (agents/uptime_monitor.py).           *)
(*                                                                         *)
(* The adapters name PerceptionType and PerceptionPriority, which they do  *)
(* not import: no perception is ever built.  The adapters of events and of *)
(* health swallow that error.  The adapter of the onboarding file stops at *)
(* the first new line that holds a request and leaves it new; lines before *)
(* it that hold none are marked as read.  Nothing adds a system alert.     *)
(*                                                                         *)
(* The monitor reads the last status of its timeline; if there is none it  *)
(* first emits an event to every sink, each tried whatever the others did, *)
(* and then writes the row.  An error of the emission ends the start.      *)
(***************************************************************************)
EXTENDS Naturals, Sequences, FiniteSets

CONSTANTS
    EventSinks,     \* sinks of emit_runtime_event
    MaxLines,       \* bound: lines of the onboarding file
    MaxBadStarts,   \* bound: starts that fail or crash
    MaxEnds         \* bound: ends of a running agent

VARIABLES
    stage,      \* of the process: "down", "emitting", "writing" or "up"
    lines,      \* onboarding_requests.jsonl: the kinds of its lines
    read,       \* processed_lines
    history,    \* perception_history: numbers of lines
    timeline,   \* statuses in the timeline file
    emitted,    \* [sink]: events of the monitor it got
    \* history
    badStarts,  \* starts that failed or crashed
    ends        \* ends of a running agent

sensesVars == <<stage, lines, read, history, timeline, emitted, badStarts, ends>>

LineKinds == {"request", "no_app_id", "not_json", "blank"}

\* Another process adds a line; a test that reads the file may write any.
AddLine(kind) ==
    /\ Len(lines) < MaxLines
    /\ lines' = Append(lines, kind)
    /\ UNCHANGED <<stage, read, history, timeline, emitted, badStarts, ends>>

\* _get_initial_status
NoStatusYet == timeline = <<>>

\* UptimeMonitor.__init__, of a new process that has read no line
StartMonitor ==
    /\ stage = "down"
    /\ stage' = IF NoStatusYet THEN "emitting" ELSE "up"
    /\ read' = {} /\ history' = <<>>
    /\ UNCHANGED <<lines, timeline, emitted, badStarts, ends>>

\* emit_restart_event: those that do not fail get the event.  The error is
\* raised again, and the agent does not start.
EmitStatus(failing) ==
    /\ stage = "emitting"
    /\ failing # {} => badStarts < MaxBadStarts
    /\ emitted' = [s \in EventSinks |-> IF s \in failing THEN emitted[s] ELSE emitted[s] + 1]
    /\ stage' = IF failing = {} THEN "writing" ELSE "down"
    /\ badStarts' = IF failing = {} THEN badStarts ELSE badStarts + 1
    /\ UNCHANGED <<lines, read, history, timeline, ends>>

\* update_status: the row of the timeline
WriteStatus ==
    /\ stage = "writing" /\ stage' = "up"
    /\ timeline' = Append(timeline, "UP")
    /\ UNCHANGED <<lines, read, history, emitted, badStarts, ends>>

\* The process ends in its start.
EndInStart ==
    /\ stage \in {"emitting", "writing"} /\ stage' = "down"
    /\ badStarts < MaxBadStarts /\ badStarts' = badStarts + 1
    /\ UNCHANGED <<lines, read, history, timeline, emitted, ends>>

EndProcess ==
    /\ stage = "up" /\ stage' = "down"
    /\ ends < MaxEnds /\ ends' = ends + 1
    /\ UNCHANGED <<lines, read, history, timeline, emitted, badStarts>>

NewLines == (1..Len(lines)) \ read
NewRequests == {i \in NewLines : lines[i] = "request"}

\* OnboardingInputAdapter.perceive: new lines before the first new request
ReadNow == {i \in NewLines : \A r \in NewRequests : i < r}

\* PerceptionLayer.perceive: no adapter returns a perception.
Perceive ==
    /\ stage = "up"
    /\ read' = read \cup ReadNow
    /\ UNCHANGED <<stage, lines, history, timeline, emitted, badStarts, ends>>

SensesInit ==
    /\ stage = "down" /\ lines = <<>> /\ read = {} /\ history = <<>>
    /\ timeline = <<>> /\ emitted = [s \in EventSinks |-> 0] /\ badStarts = 0 /\ ends = 0

SensesNext ==
    \/ \E k \in LineKinds : AddLine(k)
    \/ StartMonitor \/ WriteStatus \/ EndInStart \/ EndProcess \/ Perceive
    \/ \E f \in SUBSET EventSinks : EmitStatus(f)

SensesSpec == SensesInit /\ [][SensesNext]_sensesVars

----------------------------------------------------------------------------
(* Properties *)

\* A status in the timeline was emitted to every sink; and a sink gets the event
\* of one status again only for a start that failed between the two or crashed.
StatusesAreEmitted ==
    \A s \in EventSinks : /\ emitted[s] >= Len(timeline)
                          /\ emitted[s] <= 1 + badStarts

=============================================================================
