---------------------------- MODULE TraceRegistry ----------------------------
(***************************************************************************)
(* The registry that makes a trace single-use                              *)
(* (security/trace_consumption.py), as the executor's handlers use it:     *)
(* is_trace_consumed, then consume_trace, whose answer is ignored, then    *)
(* the action.  Consuming adds the trace to a set in memory and saves the  *)
(* set through one temporary file and os.replace; when the save raises the *)
(* set of before is put back.  There is no lock.                           *)
(*                                                                         *)
(* A file is what its inode contains: opening the temporary file truncates *)
(* the inode another handler may be writing, and os.replace moves it under *)
(* the writer.                                                             *)
(***************************************************************************)
EXTENDS Integers, FiniteSets

CONSTANTS
    Traces,      \* trace ids of the requests
    Threads,     \* handler threads of the executor
    NoTrace,
    MaxRequests, \* bound: requests handled
    MaxFailures, \* bound: saves that fail for want of a disk
    MaxCrashes   \* bound: crashes of the executor

ASSUME TraceRegistryAssumption ==
    /\ NoTrace \notin Traces
    /\ MaxRequests \in Nat
    /\ MaxFailures \in Nat
    /\ MaxCrashes \in Nat

VARIABLES
    mem,       \* consumed_traces
    registry,  \* "none" until the first use, "loaded"
    store,     \* the content of the store file
    tmp,       \* the content of the temporary file
    pc,
    trace,     \* the trace of the request a thread handles
    pre,       \* its snapshot of consumed_traces
    handle,    \* the file its open handle writes: "tmp", "store" or "lost"
    \* history, read by the properties and the bounds only
    runs,      \* how often the action of a trace was run
    overlap,   \* did two handlers ever have requests in hand together?
    requests, failures, crashes  \* bounds

fileVars  == <<store, tmp>>
histVars  == <<runs, overlap>>
boundVars == <<requests, failures, crashes>>
vars == <<mem, registry, store, tmp, pc, trace, pre, handle, runs, overlap,
          requests, failures, crashes>>

\* What a file holds: nothing, because it does not exist; bytes that are not
\* JSON, because they are none, too few or of two writers; or a set of traces.
Absent  == [kind |-> "absent", set |-> {}]
Torn    == [kind |-> "torn", set |-> {}]
Json(S) == [kind |-> "json", set |-> S]
Contents == {Absent, Torn} \cup {Json(S) : S \in SUBSET Traces}

GoTo(t, place) == pc' = [pc EXCEPT ![t] = place]

----------------------------------------------------------------------------

\* get_trace_registry loads the store once; an unreadable store raises, and
\* the next request tries again.
Raises == registry = "none" /\ store = Torn
Consumed == IF registry = "loaded" THEN mem ELSE store.set

\* The trace is not consumed yet: the handler goes on with it.
Accept(t, x) ==
    /\ GoTo(t, "consume")
    /\ trace' = [trace EXCEPT ![t] = x]
    /\ overlap' = (overlap \/ \E u \in Threads : pc[u] # "idle")

\* Mutant: consumed traces are not looked up.
CheckNothing(t, x) ==
    /\ pc[t] = "idle"
    /\ requests < MaxRequests
    /\ requests' = requests + 1
    /\ ~Raises
    /\ registry' = "loaded" /\ mem' = Consumed
    /\ Accept(t, x)
    /\ UNCHANGED <<fileVars, pre, handle, runs, failures, crashes>>

\* A request with trace x: is_trace_consumed.
Check(t, x) ==
    /\ pc[t] = "idle"
    /\ requests < MaxRequests
    /\ requests' = requests + 1
    /\ \/ Raises /\ UNCHANGED <<registry, mem, pc, trace, overlap>>
       \/ /\ ~Raises
          /\ registry' = "loaded"
          /\ mem' = Consumed
          /\ IF x \in Consumed
             THEN UNCHANGED <<pc, trace, overlap>>
             ELSE Accept(t, x)
    /\ UNCHANGED <<fileVars, pre, handle, runs, failures, crashes>>

\* consume: snapshot, look again, add.  When another handler was first it
\* returns False, and the action runs all the same.
Consume(t) ==
    /\ pc[t] = "consume"
    /\ IF trace[t] \in mem
       THEN GoTo(t, "run") /\ UNCHANGED <<mem, pre>>
       ELSE /\ pre' = [pre EXCEPT ![t] = mem]
            /\ mem' = mem \cup {trace[t]}
            /\ GoTo(t, "open")
    /\ UNCHANGED <<registry, fileVars, trace, handle, histVars, boundVars>>

\* Mutant: the store is overwritten in place.
OpenStore(t) ==
    /\ pc[t] = "open"
    /\ tmp' = Json(mem) /\ store' = Torn
    /\ handle' = [handle EXCEPT ![t] = "tmp"]
    /\ GoTo(t, "write")
    /\ UNCHANGED <<mem, registry, trace, pre, histVars, boundVars>>

\* _save_store: open(temp_file, "w") creates or truncates ...
OpenTemp(t) ==
    /\ pc[t] = "open"
    /\ tmp' = Torn
    /\ handle' = [handle EXCEPT ![t] = "tmp"]
    /\ GoTo(t, "write")
    /\ UNCHANGED <<mem, registry, store, trace, pre, histVars, boundVars>>

\* Bytes written over those of another writer replace them, or mix.
Overwritten(old, new) == IF old = Torn THEN {new} ELSE {new, Torn}

\* ... json.dump of the set as it is now, flush, fsync, close ...
WriteTemp(t) ==
    /\ pc[t] = "write"
    /\ \/ /\ handle[t] = "tmp"
          /\ tmp' \in Overwritten(tmp, Json(mem))
          /\ UNCHANGED store
       \/ /\ handle[t] = "store"
          /\ store' \in Overwritten(store, Json(mem))
          /\ UNCHANGED tmp
       \/ handle[t] = "lost" /\ UNCHANGED fileVars
    /\ handle' = [handle EXCEPT ![t] = "none"]
    /\ GoTo(t, "replace")
    /\ UNCHANGED <<mem, registry, trace, pre, histVars, boundVars>>

\* os.replace of a file whose inode is `content`: handles follow the inode.
Replaced ==
    /\ store' = tmp
    /\ tmp' = Absent
    /\ handle' = [t \in Threads |->
          CASE handle[t] = "tmp" -> "store"
            [] handle[t] = "store" -> "lost"
            [] OTHER -> handle[t]]

\* ... and the rename.  It raises when another handler took the file.
Replace(t) ==
    /\ pc[t] = "replace"
    /\ \/ tmp = Absent /\ GoTo(t, "rollback") /\ UNCHANGED <<fileVars, handle>>
       \/ tmp # Absent /\ Replaced /\ GoTo(t, "run")
    /\ UNCHANGED <<mem, registry, trace, pre, histVars, boundVars>>

\* Opening, writing, syncing or renaming fails.
SaveFails(t) ==
    /\ pc[t] \in {"open", "write", "replace"}
    /\ failures < MaxFailures
    /\ failures' = failures + 1
    /\ handle' = [handle EXCEPT ![t] = "none"]
    /\ GoTo(t, "rollback")
    /\ UNCHANGED <<mem, registry, fileVars, trace, pre, histVars,
                   requests, crashes>>

RestoreSnapshot(t) == mem' = pre[t]

\* The temporary file is removed, the snapshot put back, and the request
\* answered with an error.
RollBack(t) ==
    /\ pc[t] = "rollback"
    /\ tmp' = Absent
    /\ handle' = [u \in Threads |-> IF handle[u] = "tmp" THEN "lost"
                                                         ELSE handle[u]]
    /\ RestoreSnapshot(t)
    /\ GoTo(t, "idle")
    /\ trace' = [trace EXCEPT ![t] = NoTrace]
    /\ UNCHANGED <<registry, store, pre, histVars, boundVars>>

\* execute_real_action
Run(t) ==
    /\ pc[t] = "run"
    /\ runs' = [runs EXCEPT ![trace[t]] = @ + 1]
    /\ GoTo(t, "idle")
    /\ trace' = [trace EXCEPT ![t] = NoTrace]
    /\ UNCHANGED <<mem, registry, fileVars, pre, handle, overlap, boundVars>>

\* The executor dies and comes back; a write in progress stays torn.
Crash ==
    /\ crashes < MaxCrashes
    /\ crashes' = crashes + 1
    /\ mem' = {} /\ registry' = "none"
    /\ pc' = [t \in Threads |-> "idle"]
    /\ trace' = [t \in Threads |-> NoTrace]
    /\ handle' = [t \in Threads |-> "none"]
    /\ UNCHANGED <<fileVars, pre, histVars, requests, failures>>

Init ==
    /\ mem = {} /\ registry = "none"
    /\ store = Absent /\ tmp = Absent
    /\ pc = [t \in Threads |-> "idle"]
    /\ trace = [t \in Threads |-> NoTrace]
    /\ pre = [t \in Threads |-> {}]
    /\ handle = [t \in Threads |-> "none"]
    /\ runs = [x \in Traces |-> 0] /\ overlap = FALSE
    /\ requests = 0 /\ failures = 0 /\ crashes = 0

Next ==
    \/ \E t \in Threads, x \in Traces : Check(t, x)
    \/ \E t \in Threads :
          \/ Consume(t) \/ OpenTemp(t) \/ WriteTemp(t) \/ Replace(t)
          \/ SaveFails(t) \/ RollBack(t) \/ Run(t)
    \/ Crash

Spec == Init /\ [][Next]_vars

----------------------------------------------------------------------------
(* Properties. *)

\* Every variable has its type, and a handler that is between requests holds
\* no file and no trace.
TypeOK ==
    /\ mem \in SUBSET Traces
    /\ registry \in {"none", "loaded"}
    /\ store \in Contents
    /\ tmp \in Contents
    /\ pc \in [Threads -> {"idle", "consume", "open", "write", "replace",
                           "rollback", "run"}]
    /\ trace \in [Threads -> Traces \cup {NoTrace}]
    /\ pre \in [Threads -> SUBSET Traces]
    /\ handle \in [Threads -> {"none", "tmp", "store", "lost"}]
    /\ runs \in [Traces -> Nat]
    /\ overlap \in BOOLEAN
    /\ requests \in 0..MaxRequests
    /\ failures \in 0..MaxFailures
    /\ crashes \in 0..MaxCrashes
    /\ \A t \in Threads : pc[t] = "idle" => /\ trace[t] = NoTrace
                                            /\ handle[t] = "none"

\* The action of a trace is run once, whatever fails and however often the
\* request comes again.
SingleUse == \A x \in Traces : runs[x] <= 1

\* Requests in hand at the same time are the only way to run a trace twice:
\* no crash, failed save or rollback is.
OnlyOverlapReusesTraces == ~overlap => SingleUse

\* Requests in hand at the same time are the only way to tear the store: a
\* crash in the middle of a save, or a failing one, leaves it readable.
OnlyOverlapTearsStore == ~overlap => store # Torn

\* A trace is on disk before its action runs, so a restart cannot forget it.
DurableBeforeRun ==
    ~overlap => \A t \in Threads :
                    pc[t] = "run" => trace[t] \in store.set

\* A failed request burns nothing: between requests, memory is the store.
MemoryIsStore ==
    ~overlap /\ registry = "loaded" /\ (\A t \in Threads : pc[t] = "idle") =>
        mem = store.set

\* _load_store fails closed: an executor that starts on a store torn by the
\* handlers of the one before runs nothing, and nothing it does to a request
\* makes the store readable again.
TornStoreStaysClosed ==
    [][registry = "none" /\ store = Torn =>
           UNCHANGED <<registry, mem, store, tmp, runs>>]_vars
=============================================================================
