---------------------------- MODULE ExecuteAction ----------------------------
(***************************************************************************)
(* One call of execute_action (control_plane/backend/app/main.py): build   *)
(* and approve a contract, ask governance, post the action to the executor *)
(* service with a three second timeout, check its answer, and bring the    *)
(* contract to COMPLETED or FAILED.  The other side is /execute-action of  *)
(* reliability-controller2-main/executer/app.py, a threaded Flask server.  *)
(*                                                                         *)
(* A request posted once is handled once, but not when its caller thinks:  *)
(* the handler of a call that timed out goes on.  Lineage events are       *)
(* appended to the file LineageJournal describes: an append raises with    *)
(* nothing, a part or the whole of its line in the file, nobody rolls it   *)
(* back, and the next line joins what was left open.                       *)
(***************************************************************************)
EXTENDS Integers

CONSTANTS
    Calls,          \* calls of execute_action, each with a fresh execution
    Services,       \* services the actions are for
    NoService,
    MaxFailures,    \* bound: appends that raise though the journal is healthy,
                    \* and crashes
    MaxCrashes,     \* bound: crashes of the backend and of the executor
    LateFailures,   \* may an append raise after its whole line is in the file?
    JournalMayBlock \* may some reader find the journal damaged?

ASSUME ExecuteActionAssumption ==
    /\ NoService \notin Services
    /\ MaxFailures \in Nat
    /\ MaxCrashes \in Nat
    /\ LateFailures \in BOOLEAN
    /\ JournalMayBlock \in BOOLEAN

VARIABLES
    \* the backend
    pc,        \* where each call is
    service,   \* the service it acts on
    code,      \* the rejection_code it will return, or "ok"
    admitted,  \* calls that governance let through
    \* the lineage
    lineage,   \* the last readable event of each call's execution
    kept,      \* the same, of the lines that end in a newline
    tail,      \* the file's end: "whole", a record left "open", or "torn"
    blocked,   \* WRITE_BLOCKED
    late,      \* history: calls with an event in the file whose append raised
    unread,    \* history: calls with an acknowledged event nobody can read
    \* the executor
    handler,   \* the handler of each posted request
    reply,     \* what it answered
    ran,       \* outcome of execute_real_action for the request
    cooling,   \* services in cooldown
    window,    \* history: requests accepted in the present cooldown of each
    overlap,   \* history: services two handlers ever admitted together
    \* bounds
    failures, crashes

backendVars  == <<pc, service, code, admitted>>
lineageVars  == <<lineage, kept, tail, blocked, late, unread>>
historyVars  == <<window, overlap>>
executorVars == <<handler, reply, ran, cooling, window, overlap>>
vars == <<pc, service, code, admitted, lineage, kept, tail, blocked, late,
          unread, handler, reply, ran, cooling, window, overlap, failures,
          crashes>>

States == {"CREATED", "APPROVED", "EXECUTED", "COMPLETED", "FAILED"}
Terminal == {"COMPLETED", "FAILED"}

----------------------------------------------------------------------------
(* The backend. *)

GoTo(c, place) == pc' = [pc EXCEPT ![c] = place]
Return(c, result) ==
    /\ pc' = [pc EXCEPT ![c] = "done"]
    /\ code' = [code EXCEPT ![c] = result]

\* Every reader raises at the first line that is no record: once the file is
\* torn what is appended is not read.  A line joins one that was left open.
Readable(c, s) ==
    lineage' = IF tail = "whole" THEN [lineage EXCEPT ![c] = s] ELSE kept
WriteLine(c, s) ==
    /\ Readable(c, s)
    /\ kept' = lineage'
    /\ tail' = IF tail = "whole" THEN "whole" ELSE "torn"
WriteAllButNewline(c, s) ==
    /\ Readable(c, s)
    /\ tail' = IF tail = "whole" THEN "open" ELSE "torn"
    /\ UNCHANGED kept
WritePart == lineage' = kept /\ tail' = "torn" /\ UNCHANGED kept

\* An append that returns: the caller's copy moves on.
Recorded(c, s) ==
    /\ ~blocked
    /\ WriteLine(c, s)
    /\ unread' = IF tail = "whole" THEN unread ELSE unread \cup {c}
    /\ UNCHANGED <<late, failures>>

\* An append that raises, from the opening of the file to its fsync.
NotRecorded(c, s) ==
    /\ ~blocked
    /\ failures + crashes < MaxFailures
    /\ failures' = failures + 1
    /\ \/ UNCHANGED <<lineage, kept, tail, late>>
       \/ WritePart /\ UNCHANGED late
       \/ /\ LateFailures
          /\ WriteLine(c, s) \/ WriteAllButNewline(c, s)
          /\ late' = late \cup {c}
    /\ UNCHANGED unread

Refused ==
    /\ blocked
    /\ UNCHANGED <<lineage, kept, tail, late, unread, failures>>

RecordStep == UNCHANGED <<service, admitted, blocked, executorVars, crashes>>

\* authorize_execution
Call(c, s) ==
    /\ pc[c] = "idle"
    /\ service' = [service EXCEPT ![c] = s]
    /\ \/ Return(c, "not_permitted")
       \/ GoTo(c, "create") /\ UNCHANGED code
    /\ UNCHANGED <<admitted, lineageVars, executorVars, failures, crashes>>

\* build_execution_contract.  When it raises there is no contract: the outer
\* handler reads an unbound current_contract, and that exception escapes.
RecordCreated(c) ==
    /\ pc[c] = "create"
    /\ \/ Recorded(c, "CREATED") /\ GoTo(c, "approve") /\ UNCHANGED code
       \/ (NotRecorded(c, "CREATED") \/ Refused) /\ Return(c, "raised")
    /\ RecordStep

RecordApproved(c) ==
    /\ pc[c] = "approve"
    /\ \/ Recorded(c, "APPROVED") /\ GoTo(c, "evaluate") /\ UNCHANGED code
       \/ (NotRecorded(c, "APPROVED") \/ Refused) /\ Return(c, "raised")
    /\ RecordStep

\* governance.evaluate_contract blocks, lets through, or raises.
Evaluate(c) ==
    /\ pc[c] = "evaluate"
    /\ \/ /\ GoTo(c, "fail")
          /\ code' = [code EXCEPT ![c] = "rejected"]
          /\ UNCHANGED admitted
       \/ /\ GoTo(c, "send")
          /\ admitted' = admitted \cup {c}
          /\ UNCHANGED code
       \/ GoTo(c, "unwind") /\ UNCHANGED <<code, admitted>>
    /\ UNCHANGED <<service, lineageVars, executorVars, failures, crashes>>

\* Sign the headers and post, or fail to.
Send(c) ==
    /\ pc[c] = "send"
    /\ \/ /\ GoTo(c, "wait")
          /\ handler' = [handler EXCEPT ![c] = "queued"]
          /\ UNCHANGED code
       \/ /\ GoTo(c, "fail")
          /\ code' = [code EXCEPT ![c] = "unreachable"]
          /\ UNCHANGED handler
       \/ GoTo(c, "unwind") /\ UNCHANGED <<code, handler>>
    /\ UNCHANGED <<service, admitted, lineageVars, reply, ran, cooling,
                   historyVars, failures, crashes>>

\* Mutant: no timeout.
WaitForEver(c) == pc[c] = "wait" /\ UNCHANGED vars

\* requests.post raises: three seconds passed, or the connection was reset.
TimeOut(c) ==
    /\ pc[c] = "wait"
    /\ GoTo(c, "fail")
    /\ code' = [code EXCEPT ![c] = "unreachable"]
    /\ UNCHANGED <<service, admitted, lineageVars, executorVars, failures,
                   crashes>>

\* Mutant: any answer with the identity of the request is a success.
AcceptAnyStatus(c) ==
    /\ pc[c] = "wait" /\ handler[c] = "replied"
    /\ IF reply[c] = "malformed"
       THEN GoTo(c, "fail") /\ code' = [code EXCEPT ![c] = "malformed"]
       ELSE GoTo(c, "execute") /\ UNCHANGED code
    /\ UNCHANGED <<service, admitted, lineageVars, executorVars, failures,
                   crashes>>

\* The checks of the response: JSON, HTTP status, identity, status.
Receive(c) ==
    /\ pc[c] = "wait" /\ handler[c] = "replied"
    /\ \/ /\ reply[c] = "success"
          /\ GoTo(c, "execute")
          /\ UNCHANGED code
       \/ /\ reply[c] = "malformed"
          /\ GoTo(c, "fail")
          /\ code' = [code EXCEPT ![c] = "malformed"]
       \/ /\ reply[c] \in {"refused", "failed"}
          /\ GoTo(c, "fail")
          /\ code' = [code EXCEPT ![c] = "execution_failed"]
    /\ UNCHANGED <<service, admitted, lineageVars, executorVars, failures,
                   crashes>>

\* The FAILED transitions of the branches.
RecordFailed(c) ==
    /\ pc[c] = "fail"
    /\ \/ Recorded(c, "FAILED") /\ Return(c, code[c])
       \/ NotRecorded(c, "FAILED") /\ GoTo(c, "unwind") /\ UNCHANGED code
       \/ Refused /\ Return(c, "corruption")
    /\ RecordStep

\* The outer exception handler: FAILED once more, then give up.
Unwind(c) ==
    /\ pc[c] = "unwind"
    /\ \/ Recorded(c, "FAILED") /\ Return(c, "exception")
       \/ NotRecorded(c, "FAILED") /\ Return(c, "exception")
       \/ Refused /\ Return(c, "corruption")
    /\ RecordStep

RecordExecuted(c) ==
    /\ pc[c] = "execute"
    /\ \/ Recorded(c, "EXECUTED") /\ GoTo(c, "complete") /\ UNCHANGED code
       \/ NotRecorded(c, "EXECUTED") /\ GoTo(c, "unwind") /\ UNCHANGED code
       \/ Refused /\ Return(c, "corruption")
    /\ RecordStep

\* Mutant: a failure to record COMPLETED is ignored.
CompleteAnyway(c) ==
    /\ pc[c] = "complete"
    /\ \/ Recorded(c, "COMPLETED") /\ Return(c, "ok")
       \/ NotRecorded(c, "COMPLETED") /\ Return(c, "ok")
       \/ Refused /\ Return(c, "corruption")
    /\ RecordStep

RecordCompleted(c) ==
    /\ pc[c] = "complete"
    /\ \/ Recorded(c, "COMPLETED") /\ Return(c, "ok")
       \/ NotRecorded(c, "COMPLETED") /\ GoTo(c, "abandon") /\ UNCHANGED code
       \/ Refused /\ Return(c, "corruption")
    /\ RecordStep

\* The completion failed: FAILED, or a warning in the log.
RecordCompletionFailed(c) ==
    /\ pc[c] = "abandon"
    /\ Recorded(c, "FAILED") \/ NotRecorded(c, "FAILED") \/ Refused
    /\ Return(c, "completion_failed")
    /\ RecordStep

----------------------------------------------------------------------------
(* The executor. *)

Reply(c, kind) ==
    /\ handler' = [handler EXCEPT ![c] = "replied"]
    /\ reply' = [reply EXCEPT ![c] = kind]

\* Two handlers of a service passed the check of its cooldown.
Overlapping(s) ==
    \E c, d \in Calls :
        /\ c # d
        /\ handler[c] = "admitted" /\ handler[d] = "admitted"
        /\ service[c] = s /\ service[d] = s

\* Authentication and validation may refuse; so does an active cooldown.
Admit(c) ==
    /\ handler[c] = "queued"
    /\ \/ Reply(c, "refused")
       \/ /\ service[c] \notin cooling
          /\ handler' = [handler EXCEPT ![c] = "admitted"]
          /\ UNCHANGED reply
    /\ UNCHANGED <<backendVars, lineageVars, ran, cooling, window, failures,
                   crashes>>
    /\ overlap' = overlap \cup {s \in Services : Overlapping(s)'}

\* Mutant: the cooldown is not set.
ConsumeOnly(c) ==
    /\ handler[c] = "admitted"
    /\ \/ Reply(c, "malformed") /\ UNCHANGED <<cooling, window>>
       \/ /\ handler' = [handler EXCEPT ![c] = "accepted"]
          /\ window' = [window EXCEPT ![service[c]] = @ \cup {c}]
          /\ UNCHANGED <<cooling, reply>>
    /\ UNCHANGED <<backendVars, lineageVars, ran, overlap, failures, crashes>>

\* consume_trace may raise (an HTTP 500 without JSON); then the cooldown.
Consume(c) ==
    /\ handler[c] = "admitted"
    /\ \/ Reply(c, "malformed") /\ UNCHANGED <<cooling, window>>
       \/ /\ handler' = [handler EXCEPT ![c] = "accepted"]
          /\ cooling' = cooling \cup {service[c]}
          /\ window' = [window EXCEPT ![service[c]] = @ \cup {c}]
          /\ UNCHANGED reply
    /\ UNCHANGED <<backendVars, lineageVars, ran, overlap, failures, crashes>>

\* execute_real_action, verify_deployment and the answer.
Run(c) ==
    /\ handler[c] = "accepted"
    /\ \E outcome \in {"success", "failed"} :
          /\ ran' = [ran EXCEPT ![c] = outcome]
          /\ Reply(c, outcome)
    /\ UNCHANGED <<backendVars, lineageVars, cooling, historyVars, failures,
                   crashes>>

\* Ten seconds passed since the cooldown of the service was set.
CooldownOver(s) ==
    /\ s \in cooling
    /\ cooling' = cooling \ {s}
    /\ window' = [window EXCEPT ![s] = {}]
    /\ UNCHANGED <<backendVars, lineageVars, handler, reply, ran, overlap,
                   failures, crashes>>

----------------------------------------------------------------------------
(* Failures of the environment. *)

\* Some reader of the journal reaches a damaged line, which another process
\* may have left; or one whose reading is older concludes that it is healthy.
JournalBlocks ==
    /\ JournalMayBlock
    /\ blocked' = ~blocked
    /\ UNCHANGED <<backendVars, lineage, kept, tail, late, unread,
                   executorVars, failures, crashes>>

BackendCrash ==
    /\ crashes < MaxCrashes /\ failures + crashes < MaxFailures
    /\ crashes' = crashes + 1
    /\ pc' = [c \in Calls |-> IF pc[c] \in {"idle", "done"} THEN pc[c]
                                                            ELSE "dead"]
    /\ UNCHANGED <<service, code, admitted, lineageVars, executorVars,
                   failures>>

\* The cooldowns are a dict in memory; requests in progress are lost, with
\* or without their effect.
ExecutorCrash ==
    /\ crashes < MaxCrashes /\ failures + crashes < MaxFailures
    /\ crashes' = crashes + 1
    /\ handler' = [c \in Calls |-> IF handler[c] = "none" THEN "none"
                                                          ELSE "gone"]
    /\ \E S \in SUBSET {c \in Calls : handler[c] = "accepted"} :
          ran' = [c \in Calls |-> IF c \in S THEN "success" ELSE ran[c]]
    /\ cooling' = {}
    /\ window' = [s \in Services |-> {}]
    /\ UNCHANGED <<backendVars, lineageVars, reply, overlap, failures>>

Init ==
    /\ pc = [c \in Calls |-> "idle"]
    /\ service = [c \in Calls |-> NoService]
    /\ code = [c \in Calls |-> "none"]
    /\ admitted = {}
    /\ lineage = [c \in Calls |-> "NONE"] /\ kept = lineage
    /\ tail = "whole" /\ blocked = FALSE
    /\ late = {} /\ unread = {}
    /\ handler = [c \in Calls |-> "none"]
    /\ reply = [c \in Calls |-> "none"]
    /\ ran = [c \in Calls |-> "no"]
    /\ cooling = {} /\ window = [s \in Services |-> {}]
    /\ overlap = {}
    /\ failures = 0 /\ crashes = 0

Backend(c) ==
    \/ RecordCreated(c) \/ RecordApproved(c) \/ Evaluate(c) \/ Send(c)
    \/ TimeOut(c) \/ Receive(c) \/ RecordFailed(c) \/ Unwind(c)
    \/ RecordExecuted(c) \/ RecordCompleted(c) \/ RecordCompletionFailed(c)

Executor(c) == Admit(c) \/ Consume(c) \/ Run(c)

Next ==
    \/ \E c \in Calls, s \in Services : Call(c, s)
    \/ \E c \in Calls : Backend(c) \/ Executor(c)
    \/ \E s \in Services : CooldownOver(s)
    \/ JournalBlocks
    \/ BackendCrash
    \/ ExecutorCrash

Spec == Init /\ [][Next]_vars

\* A call that started runs on; its wait ends by the timeout.  Nothing is
\* assumed of the executor.
Fairness == \A c \in Calls : WF_vars(Backend(c))

FairSpec == Spec /\ Fairness

----------------------------------------------------------------------------
(* Properties. *)

Codes == {"none", "ok", "not_permitted", "raised", "rejected", "unreachable",
          "malformed", "execution_failed", "exception", "corruption",
          "completion_failed"}

\* Every variable has its type.
TypeOK ==
    /\ pc \in [Calls -> {"idle", "create", "approve", "evaluate", "send",
                         "wait", "execute", "complete", "abandon", "fail",
                         "unwind", "done", "dead"}]
    /\ service \in [Calls -> Services \cup {NoService}]
    /\ code \in [Calls -> Codes]
    /\ admitted \in SUBSET Calls
    /\ lineage \in [Calls -> States \cup {"NONE"}]
    /\ kept \in [Calls -> States \cup {"NONE"}]
    /\ tail \in {"whole", "open", "torn"}
    /\ blocked \in BOOLEAN
    /\ late \in SUBSET Calls /\ unread \in SUBSET Calls
    /\ handler \in [Calls -> {"none", "queued", "admitted", "accepted",
                              "replied", "gone"}]
    /\ reply \in [Calls -> {"none", "refused", "malformed", "success",
                            "failed"}]
    /\ ran \in [Calls -> {"no", "success", "failed"}]
    /\ cooling \in SUBSET Services
    /\ window \in [Services -> SUBSET Calls]
    /\ overlap \in SUBSET Services
    /\ failures \in 0..MaxFailures
    /\ crashes \in 0..MaxCrashes

\* The lineage says EXECUTED or COMPLETED only of an action that the executor
\* ran successfully.
RecordedExecutionsHappened ==
    \A c \in Calls :
        lineage[c] \in {"EXECUTED", "COMPLETED"} => ran[c] = "success"

\* An action runs only when its contract was approved, in lines that can be
\* read unless the file was torn, and governance let it through; a call
\* answered "rejected", "raised" or "not permitted" never has an effect, now
\* or later.
OnlyAdmittedActionsRun ==
    \A c \in Calls :
        /\ handler[c] # "none" \/ ran[c] # "no" =>
              /\ c \in admitted
              /\ lineage[c] \in {"NONE", "CREATED"} => c \in unread
        /\ pc[c] = "done" /\ code[c] \in {"rejected", "raised", "not_permitted"}
              => handler[c] = "none" /\ ran[c] = "no"

\* A call that returned success ran its action, and its lineage is COMPLETED
\* unless its events were acknowledged behind a torn line.  A COMPLETED
\* lineage is that of a call that returned success, or of one that was told
\* its completion failed although the event is in the file.
AnswerAgreesWithLineage ==
    \A c \in Calls : pc[c] = "done" =>
        /\ code[c] = "ok" =>
              /\ ran[c] = "success"
              /\ lineage[c] = "COMPLETED" \/ c \in unread
        /\ lineage[c] = "COMPLETED" =>
              code[c] = "ok" \/ (code[c] = "completion_failed" /\ c \in late)

\* The handler takes the readable lineage of every execution through the life
\* cycle, unless an append raises with its line in the file.
Abstract == INSTANCE ExecutionLifecycle
    WITH Executions <- Calls, recorded <- lineage
ImplementsExecutionLifecycle == Abstract!Spec

\* Every call returns (or dies with the backend), even if the executor never
\* answers.
EveryCallReturns ==
    \A c \in Calls : pc[c] # "idle" ~> pc[c] \in {"done", "dead"}

\* The executor accepts one request per service and cooldown, unless two
\* handlers passed the check of the cooldown before either set it.
OneActionPerCooldown ==
    \A s \in Services \ overlap : \A c, d \in window[s] : c = d

\* "Network connection failure: executor was not reached": a call answered
\* EXECUTOR_UNREACHABLE has no effect.
UnreachableMeansNotExecuted ==
    \A c \in Calls : pc[c] = "done" /\ code[c] = "unreachable" => ran[c] = "no"

\* A call that returned left a terminal contract, or none, unless the
\* journal is corrupted.
NoStrandedContracts ==
    \A c \in Calls :
        pc[c] = "done" /\ ~blocked => lineage[c] \in Terminal \cup {"NONE"}
=============================================================================
