------------------------ MODULE ExecuteActionProofs ------------------------
(***************************************************************************)
(* Proofs about ExecuteAction, for every set of calls and services and     *)
(* every bound.  They rest on one invariant of each call: where it is says *)
(* what its answer and the executor may hold and, unless an append of it   *)
(* was late or went behind a torn line, what its lineage is.               *)
(***************************************************************************)
EXTENDS ExecuteAction, TLAPS

USE DEF ExecuteActionAssumption
USE ExecuteActionAssumption

----------------------------------------------------------------------------
(* Type correctness. *)

\* A call that began is for a service.
HasService == \A c \in Calls : pc[c] # "idle" => service[c] \in Services

\* Nothing is posted for a call that did not begin.
IdleIsUnsent == \A c \in Calls : pc[c] = "idle" => handler[c] = "none"

TypeInv == TypeOK /\ HasService /\ IdleIsUnsent

\* The steps that append an event, and the backend's other steps.
RecordEvent(c) ==
    \/ RecordCreated(c) \/ RecordApproved(c) \/ RecordFailed(c) \/ Unwind(c)
    \/ RecordExecuted(c) \/ RecordCompleted(c) \/ RecordCompletionFailed(c)

\* What an append of event s may do to the file, and to what readers see.
JournalStep(c, s) ==
    \/ UNCHANGED <<lineage, kept, tail, late, unread>>
    \/ WritePart /\ UNCHANGED <<late, unread>>
    \/ /\ WriteLine(c, s)
       /\ unread' = IF tail = "whole" THEN unread ELSE unread \cup {c}
       /\ UNCHANGED late
    \/ /\ LateFailures
       /\ WriteLine(c, s) \/ WriteAllButNewline(c, s)
       /\ late' = late \cup {c}
       /\ UNCHANGED unread

LEMMA JournalTypes ==
    ASSUME TypeOK, NEW c \in Calls, NEW s \in States, JournalStep(c, s)
    PROVE  /\ lineage' \in [Calls -> States \cup {"NONE"}]
           /\ kept' \in [Calls -> States \cup {"NONE"}]
           /\ tail' \in {"whole", "open", "torn"}
           /\ late' \in SUBSET Calls /\ unread' \in SUBSET Calls
  <1>1. lineage' \in [Calls -> States \cup {"NONE"}]
    BY DEF TypeOK, JournalStep, WritePart, WriteLine, WriteAllButNewline,
           Readable
  <1>. QED  BY <1>1 DEF TypeOK, JournalStep, WritePart, WriteLine,
                        WriteAllButNewline

\* An append moves a call that began, and touches nothing of the executor.
LEMMA AppendFrame ==
    ASSUME TypeOK, NEW c \in Calls, RecordEvent(c)
    PROVE  /\ pc[c] # "idle"
           /\ UNCHANGED <<service, admitted, blocked, handler, reply, ran,
                          cooling, window, overlap, crashes>>
           /\ failures' \in 0..MaxFailures
           /\ \E place \in {"approve", "evaluate", "complete", "abandon",
                            "unwind", "done"} :
                  pc' = [pc EXCEPT ![c] = place]
           /\ \/ code' = code
              \/ \E result \in Codes : code' = [code EXCEPT ![c] = result]
           /\ \E s \in States : JournalStep(c, s)
  <1>1. code[c] \in Codes
    BY DEF TypeOK
  <1> USE DEF TypeOK, GoTo, Return, RecordStep, executorVars, historyVars,
              Recorded, NotRecorded, Refused, JournalStep, Codes, States
  <1>2. CASE RecordCreated(c)
    BY <1>2 DEF RecordCreated
  <1>3. CASE RecordApproved(c)
    BY <1>3 DEF RecordApproved
  <1>4. CASE RecordFailed(c)
    BY <1>1, <1>4 DEF RecordFailed
  <1>5. CASE Unwind(c)
    BY <1>5 DEF Unwind
  <1>6. CASE RecordExecuted(c)
    BY <1>6 DEF RecordExecuted
  <1>7. CASE RecordCompleted(c)
    BY <1>7 DEF RecordCompleted
  <1>8. CASE RecordCompletionFailed(c)
    BY <1>8 DEF RecordCompletionFailed
  <1>. QED  BY <1>2, <1>3, <1>4, <1>5, <1>6, <1>7, <1>8 DEF RecordEvent

LEMMA TypeInvStep == TypeInv /\ [Next]_vars => TypeInv'
  <1> SUFFICES ASSUME TypeInv, [Next]_vars
               PROVE  TypeInv'
    OBVIOUS
  <1> USE DEF TypeInv, TypeOK, HasService, IdleIsUnsent, GoTo, Return, Reply,
              lineageVars, backendVars, historyVars, executorVars
  <1>1. ASSUME NEW c \in Calls, NEW s \in Services, Call(c, s)
        PROVE  TypeInv'
    BY <1>1 DEF Call, Codes
  <1>2. ASSUME NEW c \in Calls, RecordEvent(c)
        PROVE  TypeInv'
    <2>1. PICK place \in {"approve", "evaluate", "complete", "abandon",
                          "unwind", "done"} : pc' = [pc EXCEPT ![c] = place]
      BY <1>2, AppendFrame
    <2>2. code' \in [Calls -> Codes]
      BY <1>2, AppendFrame
    <2>3. /\ lineage' \in [Calls -> States \cup {"NONE"}]
          /\ kept' \in [Calls -> States \cup {"NONE"}]
          /\ tail' \in {"whole", "open", "torn"}
          /\ late' \in SUBSET Calls /\ unread' \in SUBSET Calls
      BY <1>2, AppendFrame, JournalTypes
    <2>4. /\ pc[c] # "idle"
          /\ UNCHANGED <<service, admitted, blocked, handler, reply, ran,
                         cooling, window, overlap, crashes>>
          /\ failures' \in 0..MaxFailures
      BY <1>2, AppendFrame
    <2>5. TypeOK'
      BY <2>1, <2>2, <2>3, <2>4
    <2>6. HasService' /\ IdleIsUnsent'
      BY <2>1, <2>4
    <2>. QED  BY <2>5, <2>6
  <1>3. ASSUME NEW c \in Calls, Evaluate(c)
        PROVE  TypeInv'
    BY <1>3 DEF Evaluate, Codes
  <1>4. ASSUME NEW c \in Calls, Send(c)
        PROVE  TypeInv'
    BY <1>4 DEF Send, Codes
  <1>5. ASSUME NEW c \in Calls, TimeOut(c)
        PROVE  TypeInv'
    BY <1>5 DEF TimeOut, Codes
  <1>6. ASSUME NEW c \in Calls, Receive(c)
        PROVE  TypeInv'
    BY <1>6 DEF Receive, Codes
  <1>7. ASSUME NEW c \in Calls, Admit(c)
        PROVE  TypeInv'
    <2>1. overlap' \in SUBSET Services
      BY <1>7 DEF Admit
    <2>. QED  BY <1>7, <2>1 DEF Admit
  <1>8. ASSUME NEW c \in Calls, Consume(c)
        PROVE  TypeInv'
    BY <1>8 DEF Consume
  <1>9. ASSUME NEW c \in Calls, Run(c)
        PROVE  TypeInv'
    BY <1>9 DEF Run
  <1>10. ASSUME NEW s \in Services, CooldownOver(s)
         PROVE  TypeInv'
    BY <1>10 DEF CooldownOver
  <1>11. CASE JournalBlocks
    BY <1>11 DEF JournalBlocks
  <1>12. CASE BackendCrash
    BY <1>12 DEF BackendCrash
  <1>13. CASE ExecutorCrash
    BY <1>13 DEF ExecutorCrash
  <1>14. CASE UNCHANGED vars
    BY <1>14 DEF vars
  <1>. QED  BY <1>1, <1>2, <1>3, <1>4, <1>5, <1>6, <1>7, <1>8, <1>9, <1>10,
               <1>11, <1>12, <1>13, <1>14
            DEF Next, Backend, Executor, RecordEvent

LEMMA TypeInvAlways == Spec => []TypeInv
  <1>1. Init => TypeInv
    <2> SUFFICES ASSUME Init PROVE TypeInv
      OBVIOUS
    <2>1. /\ service \in [Calls -> Services \cup {NoService}]
          /\ lineage \in [Calls -> States \cup {"NONE"}]
          /\ kept \in [Calls -> States \cup {"NONE"}]
          /\ tail \in {"whole", "open", "torn"}
          /\ late \in SUBSET Calls /\ unread \in SUBSET Calls
          /\ code \in [Calls -> Codes]
          /\ window \in [Services -> SUBSET Calls]
          /\ blocked \in BOOLEAN
      BY DEF Init, Codes
    <2>2. /\ pc \in [Calls -> {"idle"}]
          /\ handler \in [Calls -> {"none"}]
          /\ reply \in [Calls -> {"none"}]
          /\ ran \in [Calls -> {"no"}]
      BY DEF Init
    <2>3. TypeOK
      BY <2>1, <2>2 DEF Init, TypeOK
    <2>. QED  BY <2>2, <2>3 DEF TypeInv, HasService, IdleIsUnsent
  <1>. QED  BY <1>1, TypeInvStep, PTL DEF Spec

\* Every variable keeps its type, whatever fails or times out.
THEOREM TypeCorrect == Spec => []TypeOK
  <1>1. TypeInv => TypeOK
    BY DEF TypeInv
  <1>. QED  BY <1>1, TypeInvAlways, PTL

----------------------------------------------------------------------------
(* Lineage, answer and effect of one call. *)

\* Calls that have not been sent.
Unsent == {"idle", "create", "approve", "evaluate", "send"}

\* The file: only a record left open can still be lost, and nothing is
\* acknowledged behind a whole line and yet unreadable.
JournalInv ==
    /\ tail # "open" => lineage = kept
    /\ tail = "whole" => unread = {}
    /\ ~LateFailures => late = {} /\ tail # "open"

\* Where a call is says which event of its execution is the last, e, unless
\* one was late or unreadable.
LineageAt(c, e) ==
    /\ pc[c] \in {"idle", "create"} => e = "NONE"
    /\ c \notin late \cup unread =>
          /\ pc[c] = "approve" => e = "CREATED"
          /\ pc[c] \in {"evaluate", "send", "wait", "execute", "fail", "unwind"}
                => e = "APPROVED"
          /\ pc[c] \in {"complete", "abandon"} => e = "EXECUTED"

\* A call whose append was late is on its way out.
LateIsUnwinding(c) ==
    c \in late => pc[c] \in {"unwind", "abandon", "done", "dead"}

\* The codes a call carries to its FAILED event.
CodeAt(c) ==
    pc[c] = "fail" =>
        code[c] \in {"rejected", "unreachable", "malformed", "execution_failed"}

\* The executor knows of a call only what governance let through, has run it
\* only if it answered or died, and answers success only of a success.
EffectOf(c) ==
    /\ pc[c] \in Unsent => handler[c] = "none"
    /\ pc[c] = "send" => c \in admitted
    /\ pc[c] = "fail" /\ code[c] = "rejected" => handler[c] = "none"
    /\ handler[c] = "none" => ran[c] = "no"
    /\ handler[c] # "none" => c \in admitted
    /\ ran[c] # "no" \/ reply[c] # "none" => handler[c] \in {"replied", "gone"}
    /\ reply[c] = "success" => ran[c] = "success"
    /\ pc[c] \in {"execute", "complete", "abandon"} => ran[c] = "success"

\* The last event e of a call and what the executor did.
EventOf(c, e) ==
    /\ e \in {"EXECUTED", "COMPLETED"} => ran[c] = "success"
    /\ handler[c] # "none" /\ e \in {"NONE", "CREATED"} => c \in unread

\* COMPLETED is the event of a call that returned success, or late.
CompletedOf(c, e) ==
    e = "COMPLETED" =>
        /\ pc[c] \in {"abandon", "done", "dead"}
        /\ pc[c] = "abandon" => c \in late
        /\ pc[c] = "done" =>
              code[c] = "ok" \/ (code[c] = "completion_failed" /\ c \in late)

\* The answer of a call that returned.
AnswerOf(c) ==
    pc[c] = "done" =>
        /\ code[c] = "ok" => ran[c] = "success"
        /\ code[c] \in {"rejected", "raised", "not_permitted"} =>
              handler[c] = "none"
SuccessOf(c, e) ==
    pc[c] = "done" /\ code[c] = "ok" => e = "COMPLETED" \/ c \in unread

\* What holds of the last readable event, and of the one that remains if the
\* line left open is lost.
LastEventInv(c, e) ==
    LineageAt(c, e) /\ EventOf(c, e) /\ CompletedOf(c, e) /\ SuccessOf(c, e)

CallInv(c) ==
    /\ LastEventInv(c, lineage[c])
    /\ LastEventInv(c, kept[c])
    /\ LateIsUnwinding(c) /\ CodeAt(c) /\ EffectOf(c) /\ AnswerOf(c)
BoundaryInv == TypeInv /\ JournalInv /\ \A c \in Calls : CallInv(c)

\* An append of one call can only take back what others left open.
LEMMA JournalFrame ==
    ASSUME TypeOK, JournalInv, NEW c \in Calls, NEW s \in States,
           JournalStep(c, s)
    PROVE  /\ JournalInv'
           /\ \A d \in Calls \ {c} :
                 /\ lineage'[d] \in {lineage[d], kept[d]}
                 /\ kept'[d] \in {lineage[d], kept[d]}
                 /\ d \in late' <=> d \in late
                 /\ d \in unread' <=> d \in unread
  <1> USE DEF TypeOK, JournalInv, JournalStep, WritePart, WriteLine,
              WriteAllButNewline, Readable
  <1>1. JournalInv'
    OBVIOUS
  <1>2. ASSUME NEW d \in Calls \ {c}
        PROVE  /\ lineage'[d] \in {lineage[d], kept[d]}
               /\ kept'[d] \in {lineage[d], kept[d]}
               /\ d \in late' <=> d \in late
               /\ d \in unread' <=> d \in unread
    OBVIOUS
  <1>. QED  BY <1>1, <1>2

\* A step of one call leaves the others as they were.
LEMMA OtherCalls ==
    ASSUME TypeInv, JournalInv, NEW c \in Calls, NEW d \in Calls, d # c,
           CallInv(d),
           \/ \E s \in Services : Call(c, s)
           \/ Backend(c) \/ Executor(c)
    PROVE  CallInv(d)'
  <1> USE DEF TypeInv, TypeOK, GoTo, Return, Reply, lineageVars, backendVars,
              historyVars, executorVars
  <1>1. /\ pc'[d] = pc[d] /\ code'[d] = code[d]
        /\ handler'[d] = handler[d] /\ reply'[d] = reply[d]
        /\ ran'[d] = ran[d] /\ (d \in admitted' <=> d \in admitted)
        /\ lineage'[d] \in {lineage[d], kept[d]}
        /\ kept'[d] \in {lineage[d], kept[d]}
        /\ d \in late' <=> d \in late
        /\ d \in unread' <=> d \in unread
    <2>1. CASE \E s \in Services : Call(c, s)
      BY <2>1 DEF Call
    <2>2. CASE RecordEvent(c)
      <3>1. PICK s \in States : JournalStep(c, s)
        BY <2>2, AppendFrame
      <3>2. /\ lineage'[d] \in {lineage[d], kept[d]}
            /\ kept'[d] \in {lineage[d], kept[d]}
            /\ d \in late' <=> d \in late
            /\ d \in unread' <=> d \in unread
        BY <3>1, JournalFrame
      <3>. QED  BY <2>2, <3>2, AppendFrame
    <2>3. CASE Evaluate(c)
      BY <2>3 DEF Evaluate
    <2>4. CASE Send(c)
      BY <2>4 DEF Send
    <2>5. CASE TimeOut(c) \/ Receive(c)
      BY <2>5 DEF TimeOut, Receive
    <2>6. CASE Admit(c)
      BY <2>6 DEF Admit
    <2>7. CASE Consume(c)
      BY <2>7 DEF Consume
    <2>8. CASE Run(c)
      BY <2>8 DEF Run
    <2>. QED  BY <2>1, <2>2, <2>3, <2>4, <2>5, <2>6, <2>7, <2>8
              DEF Backend, Executor, RecordEvent
  <1>. QED  BY <1>1 DEF CallInv, LastEventInv, LineageAt, EventOf, CompletedOf,
                        SuccessOf, LateIsUnwinding, CodeAt, EffectOf, AnswerOf, Unsent

\* The events a call appends.
LEMMA RecordEventInv ==
    ASSUME TypeInv, JournalInv, NEW c \in Calls, CallInv(c), RecordEvent(c)
    PROVE  CallInv(c)'
  <1>1. /\ UNCHANGED <<admitted, handler, reply, ran>>
        /\ pc \in [Calls -> {"idle", "create", "approve", "evaluate", "send",
                            "wait", "execute", "complete", "abandon", "fail",
                            "unwind", "done", "dead"}]
        /\ code \in [Calls -> Codes]
        /\ lineage \in [Calls -> States \cup {"NONE"}]
        /\ kept \in [Calls -> States \cup {"NONE"}]
    BY AppendFrame DEF TypeInv, TypeOK
  <1> USE DEF GoTo, Return, Recorded, NotRecorded, Refused, WriteLine,
              WritePart, WriteAllButNewline, Readable, JournalInv,
              CallInv, LastEventInv, LineageAt, EventOf, CompletedOf,
              SuccessOf, LateIsUnwinding, CodeAt, EffectOf, AnswerOf, Unsent
  <1>2. CASE RecordCreated(c)
    BY <1>1, <1>2 DEF RecordCreated
  <1>3. CASE RecordApproved(c)
    BY <1>1, <1>3 DEF RecordApproved
  <1>4. CASE RecordFailed(c)
    BY <1>1, <1>4 DEF RecordFailed
  <1>5. CASE Unwind(c)
    BY <1>1, <1>5 DEF Unwind
  <1>6. CASE RecordExecuted(c)
    BY <1>1, <1>6 DEF RecordExecuted
  <1>7. CASE RecordCompleted(c)
    BY <1>1, <1>7 DEF RecordCompleted
  <1>8. CASE RecordCompletionFailed(c)
    BY <1>1, <1>8 DEF RecordCompletionFailed
  <1>. QED  BY <1>2, <1>3, <1>4, <1>5, <1>6, <1>7, <1>8 DEF RecordEvent

\* The other steps of a call and of the handler of its request.
LEMMA CallStepInv ==
    ASSUME TypeInv, NEW c \in Calls, CallInv(c),
           \/ \E s \in Services : Call(c, s)
           \/ Evaluate(c) \/ Send(c) \/ TimeOut(c) \/ Receive(c)
           \/ Executor(c)
    PROVE  CallInv(c)'
  <1> USE DEF TypeInv, TypeOK, GoTo, Return, Reply, lineageVars, backendVars,
              historyVars, executorVars,
              CallInv, LastEventInv, LineageAt, EventOf, CompletedOf,
              SuccessOf, LateIsUnwinding, CodeAt, EffectOf, AnswerOf, Unsent
  <1>1. CASE \E s \in Services : Call(c, s)
    BY <1>1 DEF Call
  <1>2. CASE Evaluate(c)
    BY <1>2 DEF Evaluate
  <1>3. CASE Send(c)
    BY <1>3 DEF Send
  <1>4. CASE TimeOut(c)
    BY <1>4 DEF TimeOut
  <1>5. CASE Receive(c)
    BY <1>5 DEF Receive
  <1>6. CASE Admit(c)
    BY <1>6 DEF Admit
  <1>7. CASE Consume(c)
    BY <1>7 DEF Consume
  <1>8. CASE Run(c)
    BY <1>8 DEF Run
  <1>. QED  BY <1>1, <1>2, <1>3, <1>4, <1>5, <1>6, <1>7, <1>8 DEF Executor

\* Neither crash changes the lineage or an answer.
LEMMA EnvironmentInv ==
    ASSUME TypeInv, NEW c \in Calls, CallInv(c),
           \/ \E s \in Services : CooldownOver(s)
           \/ JournalBlocks \/ BackendCrash \/ ExecutorCrash
           \/ UNCHANGED vars
    PROVE  CallInv(c)'
  <1> USE DEF TypeInv, TypeOK, lineageVars, backendVars, historyVars,
              executorVars,
              CallInv, LastEventInv, LineageAt, EventOf, CompletedOf,
              SuccessOf, LateIsUnwinding, CodeAt, EffectOf, AnswerOf, Unsent
  <1>1. CASE \E s \in Services : CooldownOver(s)
    BY <1>1 DEF CooldownOver
  <1>2. CASE JournalBlocks
    BY <1>2 DEF JournalBlocks
  <1>3. CASE BackendCrash
    BY <1>3 DEF BackendCrash
  <1>4. CASE ExecutorCrash
    BY <1>4 DEF ExecutorCrash
  <1>5. CASE UNCHANGED vars
    BY <1>5 DEF vars
  <1>. QED  BY <1>1, <1>2, <1>3, <1>4, <1>5

\* Only appends touch the file.
LEMMA JournalInvStep ==
    ASSUME TypeInv, JournalInv, [Next]_vars
    PROVE  JournalInv'
  <1>1. ASSUME NEW c \in Calls, RecordEvent(c)
        PROVE  JournalInv'
    <2>1. PICK s \in States : JournalStep(c, s)
      BY <1>1, AppendFrame DEF TypeInv
    <2>. QED  BY <2>1, JournalFrame DEF TypeInv
  <1>2. ASSUME UNCHANGED <<lineage, kept, tail, late, unread>>
        PROVE  JournalInv'
    BY <1>2 DEF JournalInv
  <1>. QED  BY <1>1, <1>2
            DEF Next, vars, Backend, Executor, RecordEvent, Call, Evaluate,
                Send, TimeOut, Receive, Admit, Consume, Run, CooldownOver,
                JournalBlocks, BackendCrash, ExecutorCrash, lineageVars

LEMMA BoundaryInvAlways == Spec => []BoundaryInv
  <1>1. Init /\ TypeInv => BoundaryInv
    BY DEF Init, BoundaryInv, JournalInv, CallInv, LastEventInv, LineageAt,
           EventOf, CompletedOf, SuccessOf, LateIsUnwinding, CodeAt, EffectOf,
           AnswerOf, Unsent
  <1>2. BoundaryInv /\ [Next]_vars => BoundaryInv'
    <2> SUFFICES ASSUME BoundaryInv, [Next]_vars, NEW d \in Calls
                 PROVE  CallInv(d)'
      BY TypeInvStep, JournalInvStep DEF BoundaryInv
    <2>1. TypeInv /\ JournalInv /\ CallInv(d)
      BY DEF BoundaryInv
    <2>2. ASSUME NEW c \in Calls,
                 \/ \E s \in Services : Call(c, s)
                 \/ Backend(c) \/ Executor(c)
          PROVE  CallInv(d)'
      <3>1. CASE d = c
        BY <2>1, <2>2, <3>1, RecordEventInv, CallStepInv
           DEF Backend, RecordEvent
      <3>. QED  BY <2>1, <2>2, <3>1, OtherCalls
    <2>. QED  BY <2>1, <2>2, EnvironmentInv DEF Next
  <1>. QED  BY <1>1, <1>2, TypeInvAlways, PTL DEF Spec

\* The lineage says EXECUTED or COMPLETED only of an action that the executor
\* ran successfully, whatever is lost or late.
THEOREM ExecutionsHappened == Spec => []RecordedExecutionsHappened
  <1>1. BoundaryInv => RecordedExecutionsHappened
    BY DEF BoundaryInv, CallInv, LastEventInv, EventOf,
           RecordedExecutionsHappened
  <1>. QED  BY <1>1, BoundaryInvAlways, PTL

\* Nothing runs that was not approved and admitted, and a refused call never
\* takes effect.
THEOREM OnlyAdmittedRun == Spec => []OnlyAdmittedActionsRun
  <1>1. BoundaryInv => OnlyAdmittedActionsRun
    BY DEF BoundaryInv, CallInv, LastEventInv, EventOf, EffectOf, AnswerOf,
           OnlyAdmittedActionsRun
  <1>. QED  BY <1>1, BoundaryInvAlways, PTL

\* A call that returned success ran its action and is COMPLETED, unless its
\* events are behind a torn line; a COMPLETED lineage is that of such a call,
\* or of one whose completion was late.
THEOREM AnswersAgree == Spec => []AnswerAgreesWithLineage
  <1>1. BoundaryInv => AnswerAgreesWithLineage
    BY DEF BoundaryInv, CallInv, LastEventInv, CompletedOf, AnswerOf,
           SuccessOf, AnswerAgreesWithLineage
  <1>. QED  BY <1>1, BoundaryInvAlways, PTL

----------------------------------------------------------------------------
(* One action per service and cooldown. *)

\* A handler admitted for a service found no cooldown, and there is none until
\* it is done, unless another was admitted beside it.  What was accepted since
\* the last cooldown ended is covered by a cooldown.
CooldownInv ==
    \A s \in Services :
        /\ Overlapping(s) => s \in overlap
        /\ s \notin overlap => \A c \in Calls :
              handler[c] = "admitted" /\ service[c] = s => s \notin cooling
        /\ s \notin cooling => window[s] = {}
        /\ s \notin overlap => \A c, d \in window[s] : c = d

LEMMA CooldownInvStep ==
    ASSUME TypeInv, CooldownInv, [Next]_vars
    PROVE  CooldownInv'
  <1> USE DEF TypeInv, TypeOK, IdleIsUnsent, GoTo, Return, Reply, lineageVars,
              backendVars, historyVars, executorVars, CooldownInv, Overlapping
  <1>1. ASSUME NEW c \in Calls, NEW s \in Services, Call(c, s)
        PROVE  CooldownInv'
    BY <1>1 DEF Call
  <1>2. ASSUME NEW c \in Calls, RecordEvent(c)
        PROVE  CooldownInv'
    BY <1>2, AppendFrame
  <1>3. ASSUME NEW c \in Calls, Evaluate(c) \/ TimeOut(c) \/ Receive(c)
        PROVE  CooldownInv'
    BY <1>3 DEF Evaluate, TimeOut, Receive
  <1>4. ASSUME NEW c \in Calls, Send(c)
        PROVE  CooldownInv'
    BY <1>4 DEF Send
  <1>5. ASSUME NEW c \in Calls, Admit(c)
        PROVE  CooldownInv'
    BY <1>5 DEF Admit
  <1>6. ASSUME NEW c \in Calls, Consume(c)
        PROVE  CooldownInv'
    BY <1>6 DEF Consume
  <1>7. ASSUME NEW c \in Calls, Run(c)
        PROVE  CooldownInv'
    BY <1>7 DEF Run
  <1>8. ASSUME NEW s \in Services, CooldownOver(s)
        PROVE  CooldownInv'
    BY <1>8 DEF CooldownOver
  <1>9. CASE JournalBlocks \/ BackendCrash
    BY <1>9 DEF JournalBlocks, BackendCrash
  <1>10. CASE ExecutorCrash
    BY <1>10 DEF ExecutorCrash
  <1>11. CASE UNCHANGED vars
    BY <1>11 DEF vars
  <1>. QED  BY <1>1, <1>2, <1>3, <1>4, <1>5, <1>6, <1>7, <1>8, <1>9, <1>10,
               <1>11
            DEF Next, Backend, Executor, RecordEvent

\* The executor accepts one request per service and cooldown, unless two
\* handlers passed the check of the cooldown before either set it.
THEOREM CooldownHolds == Spec => []OneActionPerCooldown
  <1>1. Init => CooldownInv
    BY DEF Init, CooldownInv, Overlapping
  <1>2. CooldownInv => OneActionPerCooldown
    BY DEF CooldownInv, OneActionPerCooldown
  <1>. QED  BY <1>1, <1>2, CooldownInvStep, TypeInvAlways, PTL DEF Spec

----------------------------------------------------------------------------
(* The life cycle. *)

\* The transitions execute_action makes are legal ones.
LEMMA LegalTransitions ==
    /\ "CREATED" \in Abstract!Legal["NONE"]
    /\ "APPROVED" \in Abstract!Legal["CREATED"]
    /\ {"EXECUTED", "FAILED"} \subseteq Abstract!Legal["APPROVED"]
    /\ {"COMPLETED", "FAILED"} \subseteq Abstract!Legal["EXECUTED"]
  BY DEF Abstract!Legal, Abstract!States

\* An append that does not raise late is a legal transition of the execution
\* of its call, or none.
LEMMA RecordEventImplements ==
    ASSUME ~LateFailures, BoundaryInv, NEW c \in Calls, RecordEvent(c)
    PROVE  Abstract!Next \/ UNCHANGED lineage
  <1>1. CASE tail = "whole"
    <2>1. LineageAt(c, lineage[c]) /\ c \notin late \cup unread
      BY <1>1 DEF BoundaryInv, JournalInv, CallInv, LastEventInv
    <2>2. lineage = kept
      BY <1>1 DEF BoundaryInv, JournalInv
    <2>3. \/ UNCHANGED lineage
          \/ \E s \in Abstract!Legal[lineage[c]] :
                /\ s \in Abstract!States
                /\ lineage' = [lineage EXCEPT ![c] = s]
      BY <1>1, <2>1, <2>2, LegalTransitions
         DEF LineageAt, RecordEvent, RecordCreated, RecordApproved,
             RecordFailed, Unwind, RecordExecuted, RecordCompleted,
             RecordCompletionFailed, Recorded, NotRecorded, Refused, WriteLine,
             WritePart, WriteAllButNewline, Readable, Abstract!States
    <2>. QED  BY <2>3 DEF Abstract!Next, Abstract!Record
  <1>2. CASE tail # "whole"
    <2>1. lineage = kept
      BY <1>2 DEF BoundaryInv, JournalInv
    <2>2. PICK s \in States : JournalStep(c, s)
      BY AppendFrame DEF BoundaryInv, TypeInv
    <2>. QED  BY <1>2, <2>1, <2>2
              DEF JournalStep, WriteLine, WritePart, WriteAllButNewline,
                  Readable
  <1>. QED  BY <1>1, <1>2

\* execute_action takes every execution through the life cycle of contracts,
\* one legal transition at a time, whatever is torn or crashes, unless an
\* append may raise with its whole line in the file.
THEOREM BoundaryIsLifecycle ==
    ~LateFailures => (Spec => ImplementsExecutionLifecycle)
  <1> SUFFICES ASSUME ~LateFailures
               PROVE  Spec => ImplementsExecutionLifecycle
    OBVIOUS
  <1>1. Init => Abstract!Init
    BY DEF Init, Abstract!Init
  <1>2. BoundaryInv /\ [Next]_vars => [Abstract!Next]_lineage
    <2> SUFFICES ASSUME BoundaryInv, [Next]_vars
                 PROVE  Abstract!Next \/ UNCHANGED lineage
      OBVIOUS
    <2>1. ASSUME NEW c \in Calls, RecordEvent(c)
          PROVE  Abstract!Next \/ UNCHANGED lineage
      BY <2>1, RecordEventImplements
    <2>. QED  BY <2>1
              DEF Next, vars, Backend, Executor, RecordEvent, Call, Evaluate,
                  Send, TimeOut, Receive, Admit, Consume, Run, CooldownOver,
                  JournalBlocks, BackendCrash, ExecutorCrash, lineageVars
  <1>. QED  BY <1>1, <1>2, BoundaryInvAlways, PTL
            DEF Spec, Abstract!Spec, ImplementsExecutionLifecycle
=============================================================================
