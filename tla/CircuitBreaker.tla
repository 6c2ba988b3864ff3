---------------------------- MODULE CircuitBreaker -----------------------------
(***************************************************************************)
(* The circuit breaker of core/resilience.py with the retry decorator      *)
(* around it and the tracker of failures beside it.  One breaker object    *)
(* guards a function for all threads of a process, without a lock: a call  *)
(* looks at the state, and later changes a state that may be another.      *)
(***************************************************************************)
EXTENDS Naturals, Sequences, FiniteSets

CONSTANTS
    Threads,
    Threshold,   \* failure_threshold
    Recovery,    \* recovery_timeout
    Attempts,    \* max_attempts of the retry
    Window,      \* window_seconds
    Escalation,  \* escalation_threshold
    MaxRecent,   \* max_recent_failures
    MaxTime,     \* bound: the clock
    MaxCalls     \* bound: calls of the guarded function

VARIABLES
    time, state, failureCount, successCount,
    lastFailure,   \* last_failure_time, 0 for None
    call,          \* where each thread is, with its attempt and what it read
    begun,         \* calls of the guarded function so far
    failures,      \* of the tracker: times, the oldest first
    opened,        \* the failure that opened the breaker last, 0 when it is not open
    fresh,         \* successes since the breaker was half open
    left,          \* successes it had counted when it was
    early, hasty,  \* it let a call through, or closed, before its time
    overlapped,    \* two calls were at the breaker at once
    given          \* times of all calls that were given up

breakerVars == <<time, state, failureCount, successCount, lastFailure, call, begun, failures,
                 opened, fresh, left, early, hasty, overlapped, given>>
ghostVars == <<opened, fresh, left, early, hasty, overlapped, given>>

Away == [at |-> "away", attempt |-> 0, seen |-> 0]
\* Between two attempts nothing is at the breaker.
AtBreaker == {t \in Threads : call[t].at \notin {"away", "wait"}}
Go(t, at) == call' = [call EXCEPT ![t].at = at]

-----------------------------------------------------------------------------
(* retry *)

\* Every attempt is a call of the breaker; that it is open is an exception
\* like any other, and waited for.
Arrive(t) ==
    /\ call[t].at \in {"away", "wait"}
    /\ begun < MaxCalls /\ begun' = begun + 1
    /\ call' = [call EXCEPT ![t] = [Away EXCEPT !.at = "check", !.attempt = call[t].attempt + 1]]
    /\ overlapped' = (overlapped \/ AtBreaker # {})
    /\ UNCHANGED <<time, state, failureCount, successCount, lastFailure, failures,
                   opened, fresh, left, early, hasty, given>>

Again(t) ==
    /\ call[t].at = "failed"
    /\ Go(t, IF call[t].attempt < Attempts THEN "wait" ELSE "raised")
    /\ UNCHANGED <<time, state, failureCount, successCount, lastFailure, begun, failures,
                   ghostVars>>

-----------------------------------------------------------------------------
(* CircuitBreaker.call *)

ShouldAttemptReset == lastFailure # 0 /\ time - lastFailure >= Recovery

Check(t) ==
    /\ call[t].at = "check"
    /\ Go(t, IF state # "open" THEN "run" ELSE IF ShouldAttemptReset THEN "halve" ELSE "failed")
    /\ UNCHANGED <<time, state, failureCount, successCount, lastFailure, begun, failures,
                   ghostVars>>

Halve(t) ==
    /\ call[t].at = "halve"
    /\ Go(t, "run") /\ state' = "half"
    /\ early' = (early \/ (opened # 0 /\ time - opened < Recovery))
    /\ opened' = 0 /\ fresh' = 0 /\ left' = successCount
    /\ UNCHANGED <<time, failureCount, successCount, lastFailure, begun, failures, hasty,
                   overlapped, given>>

\* _on_success
Succeed(t) ==
    /\ call[t].at = "run"
    /\ IF state = "half"
       THEN /\ call' = [call EXCEPT ![t].at = "tally", ![t].seen = successCount]
            /\ fresh' = fresh + 1 /\ UNCHANGED failureCount
       ELSE /\ call' = [call EXCEPT ![t] = Away] /\ UNCHANGED fresh
            /\ failureCount' = IF failureCount = 0 THEN 0 ELSE failureCount - 1
    /\ UNCHANGED <<time, state, successCount, lastFailure, begun, failures,
                   opened, left, early, hasty, overlapped, given>>

\* Mutant: one success closes it.
TallyOnce(t) ==
    /\ call[t].at = "tally" /\ call' = [call EXCEPT ![t] = Away]
    /\ state' = "closed" /\ failureCount' = 0 /\ successCount' = 0
    /\ hasty' = (hasty \/ fresh < 2) /\ opened' = 0
    /\ UNCHANGED <<time, lastFailure, begun, failures, fresh, left, early, overlapped, given>>

Tally(t) ==
    /\ call[t].at = "tally" /\ call' = [call EXCEPT ![t] = Away]
    /\ IF call[t].seen + 1 >= 2
       THEN /\ state' = "closed" /\ failureCount' = 0 /\ successCount' = 0
            /\ hasty' = (hasty \/ (fresh < 2 /\ left = 0)) /\ opened' = 0
       ELSE successCount' = call[t].seen + 1 /\ UNCHANGED <<state, failureCount, hasty, opened>>
    /\ UNCHANGED <<time, lastFailure, begun, failures, fresh, left, early, overlapped, given>>

\* _on_failure: the successes counted so far stay counted.
Fail(t) ==
    /\ call[t].at = "run"
    /\ call' = [call EXCEPT ![t].at = "count", ![t].seen = failureCount]
    /\ UNCHANGED <<time, state, failureCount, successCount, lastFailure, begun, failures,
                   ghostVars>>

CountFailure(t) ==
    /\ call[t].at = "count" /\ call' = [call EXCEPT ![t].at = "judge", ![t].seen = 0]
    /\ failureCount' = call[t].seen + 1 /\ lastFailure' = time
    /\ UNCHANGED <<time, state, successCount, begun, failures, ghostVars>>

Judge(t) ==
    /\ call[t].at = "judge" /\ Go(t, "failed")
    /\ IF state = "half" \/ failureCount >= Threshold
       THEN state' = "open" /\ opened' = time
       ELSE UNCHANGED <<state, opened>>
    /\ UNCHANGED <<time, failureCount, successCount, lastFailure, begun, failures,
                   fresh, left, early, hasty, overlapped, given>>

-----------------------------------------------------------------------------
(* FailureTracker: the caller records what it gave up *)

RecordFailure(t) ==
    /\ call[t].at = "raised"
    /\ failures' = Append(failures, time) /\ given' = Append(given, time)
    /\ IF Len(failures) + 1 > MaxRecent THEN Go(t, "trim") ELSE call' = [call EXCEPT ![t] = Away]
    /\ UNCHANGED <<time, state, failureCount, successCount, lastFailure, begun,
                   opened, fresh, left, early, hasty, overlapped>>

Trim(t) ==
    /\ call[t].at = "trim" /\ call' = [call EXCEPT ![t] = Away]
    /\ failures' = SubSeq(failures, Len(failures) - MaxRecent + 1, Len(failures))
    /\ UNCHANGED <<time, state, failureCount, successCount, lastFailure, begun, ghostVars>>

FailureRate(times) == Cardinality({i \in 1..Len(times) : times[i] + Window > time})
ShouldEscalate == FailureRate(failures) >= Escalation

\* Only the function and the wait take time to speak of.
Tick ==
    /\ time < MaxTime /\ time' = time + 1
    /\ \A t \in Threads : call[t].at \in {"away", "wait", "run"}
    /\ UNCHANGED <<state, failureCount, successCount, lastFailure, call, begun, failures,
                   ghostVars>>

BreakerInit ==
    /\ time = 1 /\ state = "closed" /\ failureCount = 0 /\ successCount = 0
    /\ lastFailure = 0 /\ call = [t \in Threads |-> Away] /\ begun = 0 /\ failures = <<>>
    /\ opened = 0 /\ fresh = 0 /\ left = 0
    /\ early = FALSE /\ hasty = FALSE /\ overlapped = FALSE /\ given = <<>>

BreakerNext ==
    \/ Tick
    \/ \E t \in Threads :
        \/ Arrive(t) \/ Again(t) \/ Check(t) \/ Halve(t) \/ Succeed(t) \/ Tally(t)
        \/ Fail(t) \/ CountFailure(t) \/ Judge(t) \/ RecordFailure(t) \/ Trim(t)

BreakerSpec == BreakerInit /\ [][BreakerNext]_breakerVars

-----------------------------------------------------------------------------
\* An open breaker lets nothing through until the recovery is over, and it
\* closes after two successes, of which an earlier half-open phase that ended
\* in a failure may have left the first; the failures of the window escalate
\* when there are so many.  Calls that overlap can break each of these
\* (CircuitBreaker.call, FailureTracker.should_escalate).
OnlyOverlapTricksBreaker ==
    overlapped \/ /\ ~early /\ ~hasty
                  /\ ShouldEscalate <=> FailureRate(given) >= Escalation
=============================================================================
