------------------------ MODULE TraceRegistryProofs ------------------------
(***************************************************************************)
(* Proofs about TraceRegistry, for every set of traces and threads and     *)
(* every bound.  They rest on one invariant: while no two requests were    *)
(* ever in hand together, at most one thread is at work, and where it is   *)
(* determines how memory, store and temporary file differ.                 *)
(***************************************************************************)
EXTENDS TraceRegistry, TLAPS

USE DEF TraceRegistryAssumption
USE TraceRegistryAssumption

----------------------------------------------------------------------------
(* Type correctness. *)

\* A handler at work has a trace.
HasTrace == \A t \in Threads : pc[t] # "idle" => trace[t] \in Traces

\* Before the store is loaded nothing is in memory and nobody is at work.
UnloadedIsIdle ==
    registry = "none" => mem = {} /\ \A t \in Threads : pc[t] = "idle"

\* Only a handler that is writing has a file open.
OnlyWritersHold == \A t \in Threads : pc[t] # "write" => handle[t] = "none"

TypeInv == TypeOK /\ HasTrace /\ UnloadedIsIdle /\ OnlyWritersHold

\* What is consumed is a set of traces, loaded or not.
LEMMA ConsumedType == ASSUME TypeOK PROVE Consumed \in SUBSET Traces
  <1>1. store.set \in SUBSET Traces
    BY DEF TypeOK, Contents, Absent, Torn, Json
  <1>. QED  BY <1>1 DEF TypeOK, Consumed

\* Each kind of content is one.
LEMMA ContentKinds ==
    /\ Absent \in Contents /\ Torn \in Contents
    /\ \A S \in SUBSET Traces : Json(S) \in Contents
  BY DEF Contents

LEMMA TypeInvStep == TypeInv /\ [Next]_vars => TypeInv'
  <1> SUFFICES ASSUME TypeInv, [Next]_vars
               PROVE  TypeInv'
    OBVIOUS
  <1> USE DEF TypeInv, TypeOK, HasTrace, UnloadedIsIdle, OnlyWritersHold,
              GoTo, fileVars, histVars, boundVars
  <1>1. ASSUME NEW t \in Threads, NEW x \in Traces, Check(t, x)
        PROVE  TypeInv'
    <2>1. Consumed \in SUBSET Traces
      BY ConsumedType
    <2>2. CASE Raises /\ UNCHANGED <<registry, mem, pc, trace, overlap>>
      BY <1>1, <2>2 DEF Check
    <2>3. CASE /\ ~Raises /\ registry' = "loaded" /\ mem' = Consumed
               /\ IF x \in Consumed
                  THEN UNCHANGED <<pc, trace, overlap>>
                  ELSE Accept(t, x)
      <3>1. /\ requests' \in 0..MaxRequests
            /\ UNCHANGED <<store, tmp, pre, handle, failures, crashes, runs>>
        BY <1>1, <2>3 DEF Check, Accept
      <3>2. CASE x \in Consumed
        BY <2>1, <2>3, <3>1, <3>2
      <3>3. CASE Accept(t, x)
        BY <1>1, <2>1, <2>3, <3>1, <3>3 DEF Accept, Check
      <3>. QED  BY <2>3, <3>2, <3>3
    <2>. QED  BY <1>1, <2>2, <2>3 DEF Check
  <1>2. ASSUME NEW t \in Threads, Consume(t)
        PROVE  TypeInv'
    BY <1>2 DEF Consume
  <1>3. ASSUME NEW t \in Threads, OpenTemp(t)
        PROVE  TypeInv'
    BY <1>3, ContentKinds DEF OpenTemp
  <1>4. ASSUME NEW t \in Threads, WriteTemp(t)
        PROVE  TypeInv'
    <2>1. Json(mem) \in Contents
      BY ContentKinds
    <2>2. Overwritten(tmp, Json(mem)) \cup Overwritten(store, Json(mem))
              \subseteq Contents
      BY <2>1, ContentKinds DEF Overwritten
    <2>3. store' \in Contents /\ tmp' \in Contents
      BY <1>4, <2>2 DEF WriteTemp
    <2>. QED  BY <1>4, <2>3 DEF WriteTemp
  <1>5. ASSUME NEW t \in Threads, Replace(t)
        PROVE  TypeInv'
    <2>1. CASE tmp = Absent
      BY <1>5, <2>1 DEF Replace
    <2>2. CASE tmp # Absent /\ Replaced /\ GoTo(t, "run")
      <3>1. /\ store' \in Contents /\ tmp' \in Contents
            /\ handle' \in [Threads -> {"none", "tmp", "store", "lost"}]
            /\ \A u \in Threads : handle[u] = "none" => handle'[u] = "none"
        BY <2>2, ContentKinds DEF Replaced
      <3>. QED  BY <1>5, <2>2, <3>1 DEF Replace
    <2>. QED  BY <1>5, <2>1, <2>2 DEF Replace
  <1>6. ASSUME NEW t \in Threads, SaveFails(t)
        PROVE  TypeInv'
    BY <1>6 DEF SaveFails
  <1>7. ASSUME NEW t \in Threads, RollBack(t)
        PROVE  TypeInv'
    BY <1>7, ContentKinds DEF RollBack, RestoreSnapshot
  <1>8. ASSUME NEW t \in Threads, Run(t)
        PROVE  TypeInv'
    BY <1>8 DEF Run
  <1>9. CASE Crash
    BY <1>9 DEF Crash
  <1>10. CASE UNCHANGED vars
    BY <1>10 DEF vars
  <1>. QED  BY <1>1, <1>2, <1>3, <1>4, <1>5, <1>6, <1>7, <1>8, <1>9, <1>10
            DEF Next

LEMMA TypeInvAlways == Spec => []TypeInv
  <1>1. Init => TypeInv
    <2> SUFFICES ASSUME Init PROVE TypeInv
      OBVIOUS
    <2>1. /\ pre \in [Threads -> SUBSET Traces]
          /\ trace \in [Threads -> Traces \cup {NoTrace}]
          /\ runs \in [Traces -> Nat]
      BY DEF Init
    <2>2. /\ pc \in [Threads -> {"idle"}]
          /\ handle \in [Threads -> {"none"}]
          /\ \A t \in Threads : trace[t] = NoTrace
      BY DEF Init
    <2>3. overlap \in BOOLEAN
      BY DEF Init
    <2>4. TypeOK
      BY <2>1, <2>2, <2>3, ContentKinds DEF Init, TypeOK
    <2>. QED  BY <2>4 DEF Init, TypeInv, HasTrace, UnloadedIsIdle,
                          OnlyWritersHold
  <1>. QED  BY <1>1, TypeInvStep, PTL DEF Spec

\* Every variable keeps its type, and a handler between two requests holds
\* neither a file nor a trace, whatever failed.
THEOREM TypeCorrect == Spec => []TypeOK
  <1>1. TypeInv => TypeOK
    BY DEF TypeInv
  <1>. QED  BY <1>1, TypeInvAlways, PTL

\* _load_store fails closed: on a torn store no step of any handler, and no
\* restart, changes memory, files or what has been run.
THEOREM TornStoreClosed == Spec => TornStoreStaysClosed
  <1>1. TypeInv /\ [Next]_vars =>
            [registry = "none" /\ store = Torn =>
                 UNCHANGED <<registry, mem, store, tmp, runs>>]_vars
    <2> SUFFICES ASSUME TypeInv, Next, registry = "none", store = Torn
                 PROVE  UNCHANGED <<registry, mem, store, tmp, runs>>
      OBVIOUS
    <2>1. \A t \in Threads : pc[t] = "idle"
      BY DEF TypeInv, UnloadedIsIdle
    <2>2. mem = {}
      BY DEF TypeInv, UnloadedIsIdle
    <2>3. ASSUME NEW t \in Threads, NEW x \in Traces, Check(t, x)
          PROVE  UNCHANGED <<registry, mem, store, tmp, runs>>
      BY <2>3 DEF Check, Raises, fileVars
    <2>4. CASE Crash
      BY <2>2, <2>4 DEF Crash, fileVars, histVars
    <2>. QED  BY <2>1, <2>3, <2>4 DEF Next, Consume, OpenTemp, WriteTemp,
                 Replace, SaveFails, RollBack, Run
  <1>. QED  BY <1>1, TypeInvAlways, PTL DEF Spec, TornStoreStaysClosed

----------------------------------------------------------------------------
(* Single use, without requests in hand together. *)

\* At most one handler is at work.
Alone == \A t, u \in Threads : pc[t] # "idle" /\ pc[u] # "idle" => t = u

\* Where the one handler is says what memory and files hold.  Its trace is in
\* the store when it runs, and has not been run while it is at work.
WorkInv(t) ==
    /\ pc[t] \in {"consume", "run"} => mem = store.set
    /\ pc[t] = "consume" => trace[t] \notin store.set
    /\ pc[t] \in {"open", "write", "replace"} =>
          mem = store.set \cup {trace[t]}
    /\ pc[t] \in {"open", "write", "replace", "rollback"} =>
          pre[t] = store.set
    /\ pc[t] = "write" => tmp = Torn /\ handle[t] = "tmp"
    /\ pc[t] = "replace" => tmp = Json(mem)
    /\ pc[t] = "run" => trace[t] \in store.set
    /\ pc[t] # "idle" => runs[trace[t]] = 0

\* What was run is in the store, which is readable, and was run once.
StoreInv ==
    /\ store # Torn
    /\ \A x \in Traces : runs[x] <= 1
    /\ \A x \in Traces : runs[x] # 0 => x \in store.set
    /\ registry = "loaded" /\ (\A t \in Threads : pc[t] = "idle") =>
          mem = store.set

AloneInv == Alone /\ StoreInv /\ \A t \in Threads : WorkInv(t)

\* Kinds of content differ.
LEMMA ContentsDiffer ==
    /\ Absent # Torn /\ Absent.set = {}
    /\ \A S : Json(S) # Torn /\ Json(S) # Absent /\ Json(S).set = S
  BY DEF Absent, Torn, Json

\* A trace that is accepted is not in the store: it has not been run.
LEMMA CheckAlone ==
    ASSUME TypeInv, AloneInv, NEW t \in Threads, NEW x \in Traces,
           Check(t, x), ~overlap'
    PROVE  AloneInv'
  <1>1. /\ pc[t] = "idle" /\ UNCHANGED <<store, tmp, pre, handle, runs>>
        /\ ~overlap
    BY DEF Check, Accept, fileVars, TypeInv, TypeOK
  <1>2. (\A u \in Threads : pc[u] = "idle") => Consumed = store.set
    BY DEF Consumed, AloneInv, StoreInv, TypeInv, TypeOK
  <1>3. registry # "loaded" => \A u \in Threads : pc[u] = "idle"
    BY DEF TypeInv, TypeOK, UnloadedIsIdle
  <1>4. CASE UNCHANGED <<registry, mem, pc, trace, overlap>>
    BY <1>1, <1>4 DEF AloneInv, Alone, StoreInv, WorkInv
  <1>5. CASE /\ registry' = "loaded" /\ mem' = Consumed
             /\ x \in Consumed /\ UNCHANGED <<pc, trace, overlap>>
    <2>1. CASE \A u \in Threads : pc[u] = "idle"
      BY <1>1, <1>2, <1>5, <2>1 DEF AloneInv, Alone, StoreInv, WorkInv
    <2>2. CASE registry = "loaded"
      <3>1. mem' = mem
        BY <1>5, <2>2 DEF Consumed
      <3>. QED  BY <1>1, <1>5, <2>2, <3>1
                DEF AloneInv, Alone, StoreInv, WorkInv
    <2>. QED  BY <1>3, <2>1, <2>2
  <1>6. CASE /\ registry' = "loaded" /\ mem' = Consumed
             /\ x \notin Consumed /\ Accept(t, x)
    <2>1. \A u \in Threads : pc[u] = "idle"
      BY <1>6 DEF Accept
    <2>2. /\ pc' = [pc EXCEPT ![t] = "consume"]
          /\ trace' = [trace EXCEPT ![t] = x]
      BY <1>6 DEF Accept, GoTo
    <2>3. /\ x \notin store.set /\ mem' = store.set /\ runs[x] = 0
      BY <1>2, <1>6, <2>1 DEF AloneInv, StoreInv
    <2>4. /\ pc'[t] = "consume" /\ trace'[t] = x
          /\ \A u \in Threads \ {t} : pc'[u] = "idle"
      BY <2>1, <2>2 DEF TypeInv, TypeOK
    <2>5. Alone' /\ \A u \in Threads : WorkInv(u)'
      BY <1>1, <2>3, <2>4 DEF Alone, WorkInv
    <2>6. StoreInv'
      BY <1>1, <2>4 DEF AloneInv, StoreInv
    <2>. QED  BY <2>5, <2>6 DEF AloneInv
  <1>. QED  BY <1>4, <1>5, <1>6 DEF Check

\* The steps of the one handler at work.
LEMMA HandlerAlone ==
    ASSUME TypeInv, AloneInv, NEW t \in Threads,
           \/ Consume(t) \/ OpenTemp(t) \/ WriteTemp(t) \/ Replace(t)
           \/ SaveFails(t) \/ RollBack(t) \/ Run(t)
    PROVE  AloneInv'
  <1>1. pc[t] # "idle" /\ \A u \in Threads \ {t} : pc[u] = "idle"
    BY DEF AloneInv, Alone, Consume, OpenTemp, WriteTemp, Replace, SaveFails,
           RollBack, Run
  <1>2. registry = "loaded" /\ trace[t] \in Traces
    BY <1>1 DEF TypeInv, TypeOK, UnloadedIsIdle, HasTrace
  <1>3. \A u \in Threads \ {t} : pc'[u] = "idle"
    BY <1>1 DEF TypeInv, TypeOK, GoTo, Consume, OpenTemp, WriteTemp, Replace,
                SaveFails, RollBack, Run
  <1>4. Alone' /\ \A u \in Threads \ {t} : WorkInv(u)'
    BY <1>3 DEF Alone, WorkInv
  <1>5. /\ pc \in [Threads -> {"idle", "consume", "open", "write", "replace",
                               "rollback", "run"}]
        /\ pre \in [Threads -> SUBSET Traces]
        /\ handle \in [Threads -> {"none", "tmp", "store", "lost"}]
        /\ runs \in [Traces -> Nat]
    BY DEF TypeInv, TypeOK
  <1>6. WorkInv(t) /\ StoreInv
    BY DEF AloneInv
  <1>7. SUFFICES WorkInv(t)' /\ StoreInv'
    BY <1>4 DEF AloneInv
  <1>8. CASE Consume(t)
    BY <1>2, <1>3, <1>5, <1>6, <1>8
       DEF Consume, WorkInv, StoreInv, GoTo, fileVars, histVars, boundVars
  <1>9. CASE OpenTemp(t)
    BY <1>2, <1>3, <1>5, <1>6, <1>9
       DEF OpenTemp, WorkInv, StoreInv, GoTo, histVars, boundVars
  <1>10. CASE WriteTemp(t)
    <2>1. tmp' = Json(mem) /\ store' = store
      BY <1>6, <1>10 DEF WriteTemp, WorkInv, Overwritten
    <2>. QED  BY <1>2, <1>3, <1>5, <1>6, <1>10, <2>1
              DEF WriteTemp, WorkInv, StoreInv, GoTo, histVars, boundVars
  <1>11. CASE Replace(t)
    <2>1. tmp = Json(mem) /\ tmp # Absent /\ tmp # Torn /\ tmp.set = mem
      BY <1>6, <1>11, ContentsDiffer DEF Replace, WorkInv
    <2>2. store' = tmp /\ pc' = [pc EXCEPT ![t] = "run"]
      BY <1>11, <2>1 DEF Replace, Replaced, GoTo
    <2>3. UNCHANGED <<mem, registry, trace, pre, runs>>
      BY <1>11 DEF Replace, histVars
    <2>4. mem = store.set \cup {trace[t]}
      BY <1>6, <1>11 DEF Replace, WorkInv
    <2>. QED  BY <1>1, <1>5, <1>6, <2>1, <2>2, <2>3, <2>4 DEF WorkInv, StoreInv
  <1>12. CASE SaveFails(t)
    BY <1>2, <1>3, <1>5, <1>6, <1>12
       DEF SaveFails, WorkInv, StoreInv, GoTo, fileVars, histVars
  <1>13. CASE RollBack(t)
    BY <1>2, <1>3, <1>5, <1>6, <1>13
       DEF RollBack, RestoreSnapshot, WorkInv, StoreInv, GoTo, histVars,
           boundVars
  <1>14. CASE Run(t)
    <2>1. runs[trace[t]] = 0 /\ runs' = [runs EXCEPT ![trace[t]] = @ + 1]
      BY <1>1, <1>6, <1>14 DEF Run, WorkInv
    <2>. QED  BY <1>2, <1>3, <1>5, <1>6, <1>14, <2>1
              DEF Run, WorkInv, StoreInv, GoTo, fileVars, boundVars
  <1>. QED  BY <1>8, <1>9, <1>10, <1>11, <1>12, <1>13, <1>14

SingleUseInv == TypeInv /\ (~overlap => AloneInv)

LEMMA SingleUseInvAlways == Spec => []SingleUseInv
  <1>1. Init /\ TypeInv => SingleUseInv
    BY ContentsDiffer
       DEF Init, SingleUseInv, AloneInv, Alone, StoreInv, WorkInv
  <1>2. SingleUseInv /\ [Next]_vars => SingleUseInv'
    <2> SUFFICES ASSUME SingleUseInv, [Next]_vars, ~overlap'
                 PROVE  AloneInv'
      BY TypeInvStep DEF SingleUseInv
    <2>1. ~overlap /\ TypeInv /\ AloneInv
      BY DEF SingleUseInv, TypeInv, TypeOK, Next, vars, Check, Accept, Consume,
             OpenTemp, WriteTemp, Replace, SaveFails, RollBack, Run, Crash,
             histVars
    <2>2. ASSUME NEW t \in Threads, NEW x \in Traces, Check(t, x)
          PROVE  AloneInv'
      BY <2>1, <2>2, CheckAlone
    <2>3. CASE Crash
      BY <2>1, <2>3 DEF Crash, AloneInv, Alone, StoreInv, WorkInv, fileVars,
                        histVars
    <2>4. CASE UNCHANGED vars
      BY <2>1, <2>4 DEF vars, AloneInv, Alone, StoreInv, WorkInv
    <2>. QED  BY <2>1, <2>2, <2>3, <2>4, HandlerAlone DEF Next
  <1>. QED  BY <1>1, <1>2, TypeInvAlways, PTL DEF Spec

\* No crash, failing save or rollback lets a trace be run twice: only requests
\* in hand together do.
THEOREM SingleUseAlone == Spec => []OnlyOverlapReusesTraces
  <1>1. SingleUseInv => OnlyOverlapReusesTraces
    BY DEF SingleUseInv, AloneInv, StoreInv, OnlyOverlapReusesTraces, SingleUse
  <1>. QED  BY <1>1, SingleUseInvAlways, PTL

\* The store is always readable, unless requests were in hand together: the
\* temporary file takes every torn write.
THEOREM StoreNeverTorn == Spec => []OnlyOverlapTearsStore
  <1>1. SingleUseInv => OnlyOverlapTearsStore
    BY DEF SingleUseInv, AloneInv, StoreInv, OnlyOverlapTearsStore
  <1>. QED  BY <1>1, SingleUseInvAlways, PTL

\* A trace is on disk before its action runs.
THEOREM ConsumedBeforeRun == Spec => []DurableBeforeRun
  <1>1. SingleUseInv => DurableBeforeRun
    BY DEF SingleUseInv, AloneInv, WorkInv, DurableBeforeRun
  <1>. QED  BY <1>1, SingleUseInvAlways, PTL

\* Between requests, memory is what a restart would load.
THEOREM MemoryMatchesStore == Spec => []MemoryIsStore
  <1>1. SingleUseInv => MemoryIsStore
    BY DEF SingleUseInv, AloneInv, StoreInv, MemoryIsStore
  <1>. QED  BY <1>1, SingleUseInvAlways, PTL
=============================================================================
