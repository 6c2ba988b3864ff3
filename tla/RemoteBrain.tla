------------------------------ MODULE RemoteBrain ------------------------------
(***************************************************************************)
(* The remote decision service as the platform asks it:                    *)
(* core/rl_remote_client.py and the pipe in front of it,                   *)
(* core/runtime_rl_pipe.py.  There is one pipe per environment, shared by  *)
(* the threads of a process.  After a number of failures in a row the      *)
(* client lets the service rest; the count and the time of the last        *)
(* failure are two attributes that every thread reads and writes.          *)
(***************************************************************************)
EXTENDS Naturals

CONSTANTS
    Callers,
    Patience,  \* _max_failures
    Cooldown,  \* _cooldown_period
    Gates,     \* autonomy gates: "decisions", "learning" or both
    MaxTime,   \* bound: the clock
    MaxCalls   \* bound: decisions asked for

VARIABLES
    time,
    failures,     \* _consecutive_failures
    lastFailure,  \* _last_failure_time
    calls,        \* where each caller is, and what it was answered
    asked,        \* decisions asked for so far
    feedback,     \* where the outcome of the last decision got
    streak,       \* calls that failed since one succeeded or the rest was over
    failedAt,     \* when the last of them failed
    early,        \* the service was called while it rested
    overlapped    \* two callers were at the service at once

brainVars == <<time, failures, lastFailure, calls, asked, feedback, streak, failedAt, early,
               overlapped>>

NoCall == [at |-> "idle", seen |-> 0, kind |-> "none", answer |-> "none"]
Busy == {c \in Callers : calls[c].at \notin {"idle", "answered"}}

-----------------------------------------------------------------------------
(* RuntimeRLPipe *)

Asking(c, kind) ==
    /\ c \notin Busy
    /\ asked < MaxCalls /\ asked' = asked + 1
    /\ calls' = [calls EXCEPT ![c] = [NoCall EXCEPT !.at = "breaker", !.kind = kind]]
    /\ overlapped' = (overlapped \/ Busy # {})

\* get_decision: an event that is not valid, and a closed gate, are a noop.
GetDecision(c) ==
    /\ \/ "decisions" \in Gates /\ Asking(c, "query")
       \/ /\ c \notin Busy /\ calls' = [calls EXCEPT ![c] = [NoCall EXCEPT !.at = "answered",
                                                    !.kind = "query", !.answer = "noop"]]
          /\ UNCHANGED <<asked, overlapped>>
    /\ UNCHANGED <<time, failures, lastFailure, feedback, streak, failedAt, early>>

\* pipe_runtime_event: the gate is not looked at.
PipeEvent(c) ==
    /\ Asking(c, "pipe")
    /\ UNCHANGED <<time, failures, lastFailure, feedback, streak, failedAt, early>>

\* The contract needs a version: a fallback has none, so it is refused, and
\* the lines that would log it as a fallback are not reached.  What is not
\* refused is returned, or handed to the guard (module SafeOrchestrator).
Outcome(versioned) == IF versioned THEN "decided" ELSE "refused"

-----------------------------------------------------------------------------
(* RLRemoteClient.decide *)

\* Mutant: one failure more than the limit is waited for.
RestingLater == failures > Patience

Resting == failures >= Patience
Rested == time - lastFailure >= Cooldown

ReallyResting == streak >= Patience /\ time - failedAt < Cooldown

Fallback(c) ==
    /\ calls[c].at = "breaker" /\ Resting /\ ~Rested
    /\ calls' = [calls EXCEPT ![c].at = "answered", ![c].answer = Outcome(FALSE)]
    /\ UNCHANGED <<time, failures, lastFailure, asked, feedback, streak, failedAt, early,
                   overlapped>>

CallService(c) ==
    /\ calls[c].at = "breaker" /\ (Resting => Rested)
    /\ calls' = [calls EXCEPT ![c].at = "service"]
    /\ failures' = IF Resting THEN 0 ELSE failures
    /\ early' = (early \/ ReallyResting)
    /\ streak' = IF streak >= Patience THEN 0 ELSE streak
    /\ UNCHANGED <<time, lastFailure, asked, feedback, failedAt, overlapped>>

\* Status 200: the count is reset before the body is decoded.
Success(c) ==
    /\ calls[c].at = "service"
    /\ failures' = 0
    /\ \/ /\ \E versioned \in BOOLEAN :
                calls' = [calls EXCEPT ![c].at = "answered", ![c].answer = Outcome(versioned)]
          /\ streak' = 0 /\ UNCHANGED failedAt
       \/ calls' = [calls EXCEPT ![c].at = "count"]   \* it is not JSON
          /\ streak' = 1 /\ failedAt' = time
    /\ UNCHANGED <<time, lastFailure, asked, feedback, early, overlapped>>

\* Another status, a timeout, no connection
Failure(c) ==
    /\ calls[c].at = "service"
    /\ calls' = [calls EXCEPT ![c].at = "count"]
    /\ streak' = streak + 1 /\ failedAt' = time
    /\ UNCHANGED <<time, failures, lastFailure, asked, feedback, early, overlapped>>

\* _track_failure: the count is read, written, and then the time.
ReadCount(c) ==
    /\ calls[c].at = "count"
    /\ calls' = [calls EXCEPT ![c].at = "add", ![c].seen = failures]
    /\ UNCHANGED <<time, failures, lastFailure, asked, feedback, streak, failedAt, early,
                   overlapped>>

WriteCount(c) ==
    /\ calls[c].at = "add"
    /\ calls' = [calls EXCEPT ![c].at = "time", ![c].seen = 0]
    /\ failures' = calls[c].seen + 1
    /\ UNCHANGED <<time, lastFailure, asked, feedback, streak, failedAt, early, overlapped>>

WriteTime(c) ==
    /\ calls[c].at = "time"
    /\ calls' = [calls EXCEPT ![c].at = "answered", ![c].answer = Outcome(FALSE)]
    /\ lastFailure' = time
    /\ UNCHANGED <<time, failures, asked, feedback, streak, failedAt, early, overlapped>>

-----------------------------------------------------------------------------
(* send_execution_feedback *)

\* The outcome goes into the local file, and then to the service when learning
\* is on; that it does not get there is an answer, and not counted.
SendFeedback(c) ==
    /\ calls[c].at = "answered"
    /\ calls' = [calls EXCEPT ![c] = NoCall]
    /\ feedback' \in {"logged"} \cup (IF "learning" \in Gates THEN {"delivered"} ELSE {})
    /\ UNCHANGED <<time, failures, lastFailure, asked, streak, failedAt, early, overlapped>>

\* The steps of a call but the wait for the service take no time to speak of.
Tick ==
    /\ time < MaxTime /\ time' = time + 1
    /\ \A c \in Callers : calls[c].at \in {"idle", "answered", "service"}
    /\ UNCHANGED <<failures, lastFailure, calls, asked, feedback, streak, failedAt, early,
                   overlapped>>

BrainInit ==
    /\ time = Cooldown /\ failures = 0 /\ lastFailure = 0 /\ asked = 0
    /\ calls = [c \in Callers |-> NoCall] /\ feedback = "none"
    /\ streak = 0 /\ failedAt = 0 /\ early = FALSE /\ overlapped = FALSE

BrainNext ==
    \/ Tick
    \/ \E c \in Callers :
        \/ GetDecision(c) \/ PipeEvent(c) \/ Fallback(c) \/ CallService(c)
        \/ Success(c) \/ Failure(c) \/ ReadCount(c) \/ WriteCount(c) \/ WriteTime(c)
        \/ SendFeedback(c)

BrainSpec == BrainInit /\ [][BrainNext]_brainVars

-----------------------------------------------------------------------------
\* After so many failures in a row the service is left alone until the
\* cooldown is over, unless two callers were at it at once: then a count can
\* be lost, a late answer can reset it, and between the count and its time
\* the rest can seem to be over (RLRemoteClient.decide, _track_failure).
OnlyOverlapWakesBrain == early => overlapped
=============================================================================
