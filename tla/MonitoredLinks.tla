--------------------------- MODULE MonitoredLinks ---------------------------
(***************************************************************************)
(* The monitored-links service of the control plane: the /ingest-link and  *)
(* /remove-link handlers (backend/app/main.py) over the signed, hash       *)
(* chained, append-only journal (persistence/monitored_links_journal.py).  *)
(*                                                                         *)
(* FastAPI runs the handlers on a thread pool, so Threads run them         *)
(* concurrently in one process.  A handler holds _INGESTION_LOCK from the  *)
(* journal append to the update of the in-memory list; the process may die *)
(* between the two, or in the middle of the write.                         *)
(*                                                                         *)
(* The journal file is a sequence of readable records followed by a tail:  *)
(*   "newline"     the file is empty or its last line is terminated,       *)
(*   "no_newline"  the last readable record lacks its final newline,       *)
(*   "junk"        undecodable bytes follow the readable records.          *)
(***************************************************************************)
EXTENDS Integers, Sequences

CONSTANTS
    Links,            \* the links clients ask to monitor
    Threads,          \* the handler threads of the server
    NoThread,         \* the owner of the free lock
    NoLink,           \* the request of an idle thread
    MaxEvents,        \* deque(maxlen=20) of the link events
    MaxRecords,       \* bound: records the process ever builds
    MaxCrashes,       \* bound: crashes of the process
    NewlineCanBeLost  \* may a torn write lose exactly the final newline?

ASSUME MonitoredLinksAssumption ==
    /\ NoThread \notin Threads
    /\ NoLink \notin Links
    /\ MaxEvents \in Nat
    /\ MaxRecords \in Nat
    /\ MaxCrashes \in Nat
    /\ NewlineCanBeLost \in BOOLEAN

VARIABLES
    \* the journal file
    journal,        \* readable records, oldest first
    tail,           \* what follows them
    \* the server process
    server,         \* "up", "down", or "refused" when startup raised
    monitored,      \* links of _INGESTED_LINKS (and keys of _LINK_METADATA)
    events,         \* _LINK_EVENTS, newest first
    inFlight,       \* _IN_FLIGHT_INGESTIONS
    lock,           \* owner of _INGESTION_LOCK
    pc,             \* where each handler is
    req,            \* the link each handler works on
    \* history, read by the properties and the bounds only
    nextId,         \* identity of the next signed record
    committed,      \* records whose fsync returned to the handler
    rollbackFailed, \* a failed write left bytes behind since startup
    crashes

fileVars    == <<journal, tail>>
memVars     == <<monitored, events, inFlight>>
threadVars  == <<lock, pc, req>>
historyVars == <<nextId, committed, rollbackFailed, crashes>>
vars == <<journal, tail, server, monitored, events, inFlight, lock, pc, req,
          nextId, committed, rollbackFailed, crashes>>

EventTypes == {"LINK_INGESTED", "LINK_REMOVED"}

\* `id` stands for the signature of a record, `prev` for its previous_hash.
Record == [id : 1..MaxRecords, prev : 0..MaxRecords,
           type : EventTypes, link : Links]
GENESIS == 0

Event == [type : EventTypes, link : Links]

----------------------------------------------------------------------------
(* The journal. *)

LastSignature(j) == IF j = <<>> THEN GENESIS ELSE j[Len(j)].id

\* Every record names the signature of its predecessor.
ChainOK(j) ==
    \A i \in 1..Len(j) :
        j[i].prev = IF i = 1 THEN GENESIS ELSE j[i - 1].id

\* replay_monitored_links raises: a broken chain, or undecodable bytes with
\* nothing valid before them (valid_byte_offset = 0).
ReplayRefuses == ~ChainOK(journal) \/ (tail = "junk" /\ journal = <<>>)

\* A successful replay truncates an undecodable tail.
RecoveredTail == IF tail = "junk" THEN "newline" ELSE tail

\* The links a replay finds active: the last record about them is an ingest.
ActiveIn(j, l) ==
    \E i \in 1..Len(j) :
        /\ j[i].link = l
        /\ j[i].type = "LINK_INGESTED"
        /\ \A k \in (i + 1)..Len(j) : j[k].link # l
Active(j) == {l \in Links : ActiveIn(j, l)}

\* The newest MaxEvents records as events, newest first.
RecentEvents(j) ==
    [i \in 1..(IF Len(j) < MaxEvents THEN Len(j) ELSE MaxEvents) |->
        [type |-> j[Len(j) - i + 1].type, link |-> j[Len(j) - i + 1].link]]

\* deque.appendleft with maxlen
PushEvent(type, l) ==
    LET pushed == <<[type |-> type, link |-> l]>> \o events
    IN  IF Len(pushed) > MaxEvents THEN SubSeq(pushed, 1, MaxEvents)
                                   ELSE pushed

\* Mutant: chains to the last record signed, committed or not.
ChainToLastSigned(type, l) ==
    [id |-> nextId, prev |-> nextId - 1, type |-> type, link |-> l]

\* _get_last_signature and the payload of a record.
NewRecord(type, l) ==
    [id |-> nextId, prev |-> LastSignature(journal), type |-> type, link |-> l]

----------------------------------------------------------------------------
(* The write of one line.  What reaches the file of a write that does not  *)
(* return is a prefix of the line: nothing, part of the record, the record *)
(* without its newline, or the line.  Bytes that follow a record without   *)
(* newline share its line, and the two are no longer decodable.            *)

Prefixes == {"nothing", "part", "line"}
            \cup (IF NewlineCanBeLost THEN {"record"} ELSE {})

LeaveInFile(prefix, r) ==
    \/ /\ prefix = "nothing"
       /\ journal' = journal
       /\ tail' = RecoveredTail
    \/ /\ prefix # "nothing"
       /\ RecoveredTail = "no_newline"
       /\ journal' = SubSeq(journal, 1, Len(journal) - 1)
       /\ tail' = "junk"
    \/ /\ prefix = "part"
       /\ RecoveredTail = "newline"
       /\ journal' = journal
       /\ tail' = "junk"
    \/ /\ prefix \in {"record", "line"}
       /\ RecoveredTail = "newline"
       /\ journal' = Append(journal, r)
       /\ tail' = IF prefix = "line" THEN "newline" ELSE "no_newline"

\* Mutant: the rollback unlinks the file whatever its initial size.
RollBackUnlinks == journal' = <<>> /\ tail' = "newline"

\* Truncate to the size the file had, or unlink the file that was not there.
RollBack == journal' = journal /\ tail' = RecoveredTail

Die ==
    /\ server' = "down"
    /\ monitored' = {}
    /\ events' = <<>>
    /\ inFlight' = {}
    /\ lock' = NoThread
    /\ pc' = [t \in Threads |-> "idle"]
    /\ req' = [t \in Threads |-> NoLink]
    /\ rollbackFailed' = FALSE

\* append_link_ingested and append_link_removed, called with _INGESTION_LOCK
\* held.  The handler continues at `done` when the append returned, and at
\* `failed` when it raised.
AppendRecord(t, type, l, done, failed) ==
    LET r == NewRecord(type, l)
        Raise == /\ lock' = NoThread
                 /\ pc' = [pc EXCEPT ![t] = failed]
                 /\ req' = [req EXCEPT ![t] = IF failed = "idle"
                                              THEN NoLink ELSE l]
    IN  \/ \* the existing journal is refused, or its tail cannot be truncated
           /\ ReplayRefuses \/ tail = "junk"
           /\ Raise
           /\ UNCHANGED <<fileVars, server, memVars, historyVars>>
        \/ \* signing, or the write, raises; the rollback restores the file
           /\ ~ReplayRefuses
           /\ RollBack
           /\ Raise
           /\ UNCHANGED <<server, memVars, historyVars>>
        \/ \* the write raises, and the rollback raises too
           /\ ~ReplayRefuses
           /\ nextId <= MaxRecords
           /\ \E prefix \in Prefixes \ {"nothing"} : LeaveInFile(prefix, r)
           /\ nextId' = nextId + 1
           /\ rollbackFailed' = TRUE
           /\ Raise
           /\ UNCHANGED <<server, memVars, committed, crashes>>
        \/ \* written, flushed and fsynced
           /\ ~ReplayRefuses
           /\ nextId <= MaxRecords
           /\ LeaveInFile("line", r)
           /\ nextId' = nextId + 1
           /\ committed' = committed \cup {r.id}
           /\ lock' = t
           /\ pc' = [pc EXCEPT ![t] = done]
           /\ req' = [req EXCEPT ![t] = l]
           /\ UNCHANGED <<server, memVars, rollbackFailed, crashes>>
        \/ \* the process dies before the append returns
           /\ ~ReplayRefuses
           /\ nextId <= MaxRecords
           /\ crashes < MaxCrashes
           /\ \E prefix \in Prefixes : LeaveInFile(prefix, r)
           /\ nextId' = nextId + 1
           /\ crashes' = crashes + 1
           /\ Die
           /\ UNCHANGED committed

----------------------------------------------------------------------------
(* POST /ingest-link *)

\* First critical section.  A link that is monitored or in flight is
\* answered at once and changes nothing.
IngestBegin(t, l) ==
    /\ server = "up" /\ lock = NoThread /\ pc[t] = "idle"
    /\ l \notin monitored
    /\ l \notin inFlight
    /\ inFlight' = inFlight \cup {l}
    /\ pc' = [pc EXCEPT ![t] = "enrich"]
    /\ req' = [req EXCEPT ![t] = l]
    /\ UNCHANGED <<fileVars, server, monitored, events, lock, historyVars>>

\* _generate_link_metadata, outside the lock: network calls that may raise.
IngestEnrich(t) ==
    /\ pc[t] = "enrich"
    /\ \E next \in {"append", "release"} : pc' = [pc EXCEPT ![t] = next]
    /\ UNCHANGED <<fileVars, server, memVars, lock, req, historyVars>>

\* Second critical section: look again, persist first.
IngestAppend(t) ==
    /\ pc[t] = "append" /\ lock = NoThread
    /\ IF req[t] \in monitored
       THEN /\ pc' = [pc EXCEPT ![t] = "release"]
            /\ UNCHANGED <<fileVars, server, memVars, lock, req, historyVars>>
       ELSE AppendRecord(t, "LINK_INGESTED", req[t], "publish", "release")

\* Then expose the link in memory.
IngestPublish(t) ==
    /\ pc[t] = "publish" /\ lock = t
    /\ monitored' = monitored \cup {req[t]}
    /\ events' = PushEvent("LINK_INGESTED", req[t])
    /\ lock' = NoThread
    /\ pc' = [pc EXCEPT ![t] = "release"]
    /\ UNCHANGED <<fileVars, server, inFlight, req, historyVars>>

\* Mutant: the handler returns without its finally clause.
ReturnInFlight(t) ==
    /\ pc[t] = "release" /\ lock = NoThread
    /\ pc' = [pc EXCEPT ![t] = "idle"]
    /\ req' = [req EXCEPT ![t] = NoLink]
    /\ UNCHANGED <<fileVars, server, memVars, lock, historyVars>>

\* The finally clause of ingest_link.
IngestRelease(t) ==
    /\ pc[t] = "release" /\ lock = NoThread
    /\ inFlight' = inFlight \ {req[t]}
    /\ pc' = [pc EXCEPT ![t] = "idle"]
    /\ req' = [req EXCEPT ![t] = NoLink]
    /\ UNCHANGED <<fileVars, server, monitored, events, lock, historyVars>>

(* POST /remove-link: one critical section. *)

\* Mutant: removes links it does not monitor.
RemoveAnything(t, l) ==
    /\ server = "up" /\ lock = NoThread /\ pc[t] = "idle"
    /\ AppendRecord(t, "LINK_REMOVED", l, "unpublish", "idle")

RemoveAppend(t, l) ==
    /\ server = "up" /\ lock = NoThread /\ pc[t] = "idle"
    /\ l \in monitored
    /\ AppendRecord(t, "LINK_REMOVED", l, "unpublish", "idle")

\* Mutant: the link stays in memory.
RemoveOnDiskOnly(t) ==
    /\ pc[t] = "unpublish" /\ lock = t
    /\ events' = PushEvent("LINK_REMOVED", req[t])
    /\ lock' = NoThread
    /\ pc' = [pc EXCEPT ![t] = "idle"]
    /\ req' = [req EXCEPT ![t] = NoLink]
    /\ UNCHANGED <<fileVars, server, monitored, inFlight, historyVars>>

\* The second half of remove_link, after the append returned.
RemovePublish(t) ==
    /\ pc[t] = "unpublish" /\ lock = t
    /\ monitored' = monitored \ {req[t]}
    /\ events' = PushEvent("LINK_REMOVED", req[t])
    /\ lock' = NoThread
    /\ pc' = [pc EXCEPT ![t] = "idle"]
    /\ req' = [req EXCEPT ![t] = NoLink]
    /\ UNCHANGED <<fileVars, server, inFlight, historyVars>>

----------------------------------------------------------------------------
(* The process. *)

Crash ==
    /\ server = "up"
    /\ crashes < MaxCrashes
    /\ crashes' = crashes + 1
    /\ Die
    /\ UNCHANGED <<fileVars, nextId, committed>>

\* startup_event replays the journal ...
StartupReplay ==
    /\ server # "up"
    /\ ~ReplayRefuses
    /\ server' = "up"
    /\ tail' = RecoveredTail
    /\ monitored' = Active(journal)
    /\ events' = RecentEvents(journal)
    /\ UNCHANGED <<journal, inFlight, threadVars, historyVars>>

\* ... or raises: the journal is refused, or its tail cannot be truncated.
StartupRefused ==
    /\ server # "up"
    /\ ReplayRefuses \/ tail = "junk"
    /\ server' = "refused"
    /\ UNCHANGED <<fileVars, memVars, threadVars, historyVars>>

\* The file does not exist before the first append: nothing to replay.
Init ==
    /\ journal = <<>> /\ tail = "newline"
    /\ server = "down"
    /\ monitored = {} /\ events = <<>> /\ inFlight = {}
    /\ lock = NoThread
    /\ pc = [t \in Threads |-> "idle"]
    /\ req = [t \in Threads |-> NoLink]
    /\ nextId = 1 /\ committed = {} /\ rollbackFailed = FALSE /\ crashes = 0

Handler(t) ==
    \/ IngestEnrich(t)
    \/ IngestAppend(t)
    \/ IngestPublish(t)
    \/ IngestRelease(t)
    \/ RemovePublish(t)

Next ==
    \/ \E t \in Threads, l \in Links : IngestBegin(t, l) \/ RemoveAppend(t, l)
    \/ \E t \in Threads : Handler(t)
    \/ Crash
    \/ StartupReplay
    \/ StartupRefused

Spec == Init /\ [][Next]_vars

\* A started handler runs on, a thread that waits for _INGESTION_LOCK gets it
\* (strong fairness: others take it in between), and the supervisor restarts
\* the process.  Clients need not call, and nothing need crash.
Fairness ==
    /\ \A t \in Threads :
          /\ WF_vars(IngestEnrich(t)) /\ WF_vars(IngestPublish(t))
          /\ WF_vars(RemovePublish(t))
          /\ SF_vars(IngestAppend(t)) /\ SF_vars(IngestRelease(t))
    /\ WF_vars(StartupReplay)

FairSpec == Spec /\ Fairness

----------------------------------------------------------------------------
(* Properties. *)

PCs == {"idle", "enrich", "append", "publish", "release", "unpublish"}

\* Every variable has its type, and the event feed never outgrows its deque.
TypeOK ==
    /\ journal \in Seq(Record)
    /\ tail \in {"newline", "no_newline", "junk"}
    /\ server \in {"up", "down", "refused"}
    /\ monitored \in SUBSET Links
    /\ events \in Seq(Event) /\ Len(events) <= MaxEvents
    /\ inFlight \in SUBSET Links
    /\ lock \in Threads \cup {NoThread}
    /\ pc \in [Threads -> PCs]
    /\ req \in [Threads -> Links \cup {NoLink}]
    /\ nextId \in 1..(MaxRecords + 1)
    /\ committed \in SUBSET (1..MaxRecords)
    /\ rollbackFailed \in BOOLEAN
    /\ crashes \in 0..MaxCrashes

\* What the API serves from memory is what a restart would recover, but for
\* the one change whose handler still holds the lock between its append and
\* its publication ("durable before visible").  A rollback that failed voids
\* the agreement until the next startup.
MemoryFollowsJournal ==
    server = "up" /\ ~rollbackFailed =>
        /\ lock = NoThread => monitored = Active(journal)
        /\ \A t \in Threads :
              /\ lock = t /\ pc[t] = "publish" =>
                    monitored = Active(journal) \ {req[t]}
              /\ lock = t /\ pc[t] = "unpublish" =>
                    monitored = Active(journal) \cup {req[t]}

\* A record whose append returned to the handler is readable for ever:
\* no later torn write, rollback, crash or tail truncation takes it away.
CommittedRecordsSurvive ==
    \A id \in committed : \E i \in 1..Len(journal) : journal[i].id = id

\* The readable records always form one unforked hash chain, so a replay is
\* never refused for its chain.
JournalIsOneChain == ChainOK(journal)

\* A record is only ever appended when it changes the set of active links:
\* no link is ingested twice or removed twice in the journal, whatever the
\* interleaving of the handlers and wherever the process died.
EveryRecordMatters ==
    [][Len(journal') > Len(journal) /\ ~rollbackFailed /\ ~rollbackFailed' =>
          Active(journal') # Active(journal)]_vars

\* An ingestion in flight ends, by its own return or with the process.
InFlightEnds ==
    \A l \in Links : l \in inFlight ~> l \notin inFlight

\* The service implements the abstract durable set: the set on disk is the
\* set a replay of the journal would recover.
Abstract == INSTANCE DurableLinkSet
    WITH durable <- Active(journal), visible <- monitored,
         up <- (server = "up"), diverged <- rollbackFailed

\* The handlers, the crashes and the recovery of the real journal are steps
\* of the abstract durable set.
ImplementsDurableLinkSet == Abstract!Spec
=============================================================================
