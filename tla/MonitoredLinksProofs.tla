------------------------ MODULE MonitoredLinksProofs ------------------------
(***************************************************************************)
(* Proofs about MonitoredLinks, for every set of links and threads and     *)
(* every bound.  Type correctness and the ownership of in-flight links     *)
(* hold as they stand.  That committed records survive and that memory     *)
(* follows the journal are proved under the assumption that a torn write   *)
(* never loses exactly the final newline (~NewlineCanBeLost); the run      *)
(* links_newline shows that the assumption is needed.                      *)
(***************************************************************************)
EXTENDS MonitoredLinks, TLAPS

USE DEF MonitoredLinksAssumption
USE MonitoredLinksAssumption

----------------------------------------------------------------------------
(* Type correctness. *)

LEMMA RecordType ==
    ASSUME TypeOK, NEW type \in EventTypes, NEW l \in Links,
           nextId <= MaxRecords
    PROVE  NewRecord(type, l) \in Record
  <1>1. nextId \in 1..MaxRecords
    BY DEF TypeOK
  <1>2. LastSignature(journal) \in 0..MaxRecords
    <2>1. CASE journal = <<>>
      BY <2>1 DEF LastSignature, GENESIS
    <2>2. CASE journal # <<>>
      <3>1. journal \in Seq(Record) /\ Len(journal) \in 1..Len(journal)
        BY <2>2 DEF TypeOK
      <3>2. journal[Len(journal)] \in Record
        BY <3>1
      <3>. QED  BY <2>2, <3>2 DEF LastSignature, Record
    <2>. QED  BY <2>1, <2>2
  <1>. QED  BY <1>1, <1>2 DEF NewRecord, Record

\* Whatever prefix of a line a write leaves, the file keeps its type.
LEMMA LeaveInFileType ==
    ASSUME TypeOK, ~ReplayRefuses, NEW prefix \in Prefixes, NEW r \in Record,
           LeaveInFile(prefix, r)
    PROVE  /\ journal' \in Seq(Record)
           /\ tail' \in {"newline", "no_newline", "junk"}
  <1>1. journal \in Seq(Record) /\ tail \in {"newline", "no_newline", "junk"}
    BY DEF TypeOK
  <1>2. RecoveredTail \in {"newline", "no_newline"}
    BY <1>1 DEF RecoveredTail
  <1>3. SubSeq(journal, 1, Len(journal) - 1) \in Seq(Record)
    BY <1>1
  <1>. QED  BY <1>1, <1>2, <1>3 DEF LeaveInFile

LEMMA PushEventType ==
    ASSUME TypeOK, NEW type \in EventTypes, NEW l \in Links
    PROVE  /\ PushEvent(type, l) \in Seq(Event)
           /\ Len(PushEvent(type, l)) <= MaxEvents
  <1> DEFINE pushed == <<[type |-> type, link |-> l]>> \o events
  <1>1. pushed \in Seq(Event) /\ Len(pushed) \in Nat
    BY DEF TypeOK, Event
  <1>2. PushEvent(type, l) = IF Len(pushed) > MaxEvents
                             THEN SubSeq(pushed, 1, MaxEvents) ELSE pushed
    BY DEF PushEvent
  <1> HIDE DEF pushed
  <1>3. CASE Len(pushed) > MaxEvents
    <2>1. SubSeq(pushed, 1, MaxEvents) \in Seq(Event)
      BY <1>1, <1>3
    <2>2. Len(SubSeq(pushed, 1, MaxEvents)) = MaxEvents
      BY <1>1, <1>3
    <2>. QED  BY <1>2, <1>3, <2>1, <2>2
  <1>4. CASE ~(Len(pushed) > MaxEvents)
    BY <1>1, <1>2, <1>4
  <1>. QED  BY <1>3, <1>4

LEMMA RecentEventsType ==
    ASSUME TypeOK
    PROVE  /\ RecentEvents(journal) \in Seq(Event)
           /\ Len(RecentEvents(journal)) <= MaxEvents
  <1> DEFINE n == IF Len(journal) < MaxEvents THEN Len(journal) ELSE MaxEvents
             e(i) == [type |-> journal[Len(journal) - i + 1].type,
                      link |-> journal[Len(journal) - i + 1].link]
  <1>1. journal \in Seq(Record) /\ Len(journal) \in Nat
    BY DEF TypeOK
  <1>2. n \in Nat /\ n <= Len(journal) /\ n <= MaxEvents
    BY <1>1
  <1>3. ASSUME NEW i \in 1..n  PROVE e(i) \in Event
    <2>1. Len(journal) - i + 1 \in 1..Len(journal)
      BY <1>1, <1>2
    <2>2. journal[Len(journal) - i + 1] \in Record
      BY <1>1, <2>1
    <2>. QED  BY <2>2 DEF Record, Event
  <1>4. RecentEvents(journal) = [i \in 1..n |-> e(i)]
    BY DEF RecentEvents
  <1> HIDE DEF n, e
  <1>5. [i \in 1..n |-> e(i)] \in Seq(Event)
    BY <1>2, <1>3
  <1>6. Len([i \in 1..n |-> e(i)]) = n
    BY <1>2
  <1>. QED  BY <1>2, <1>4, <1>5, <1>6

LEMMA DieType ==
    ASSUME Die
    PROVE  /\ server' \in {"up", "down", "refused"}
           /\ monitored' \in SUBSET Links
           /\ events' \in Seq(Event) /\ Len(events') <= MaxEvents
           /\ inFlight' \in SUBSET Links
           /\ lock' \in Threads \cup {NoThread}
           /\ pc' \in [Threads -> PCs]
           /\ req' \in [Threads -> Links \cup {NoLink}]
           /\ rollbackFailed' \in BOOLEAN
  <1>1. <<>> \in Seq(Event) /\ Len(<<>>) <= MaxEvents
    OBVIOUS
  <1>. QED  BY <1>1 DEF Die, PCs

LEMMA AppendRecordType ==
    ASSUME TypeOK, NEW t \in Threads, NEW type \in EventTypes, NEW l \in Links,
           NEW done \in PCs, NEW failed \in PCs,
           AppendRecord(t, type, l, done, failed)
    PROVE  TypeOK'
  <1> DEFINE r == NewRecord(type, l)
             Raise == /\ lock' = NoThread
                      /\ pc' = [pc EXCEPT ![t] = failed]
                      /\ req' = [req EXCEPT ![t] = IF failed = "idle"
                                                   THEN NoLink ELSE l]
             RaiseType == /\ lock' \in Threads \cup {NoThread}
                          /\ pc' \in [Threads -> PCs]
                          /\ req' \in [Threads -> Links \cup {NoLink}]
  <1>1. Raise => RaiseType
    BY DEF TypeOK
  <1>2. nextId <= MaxRecords => r \in Record
    BY RecordType
  <1>3. CASE /\ ReplayRefuses \/ tail = "junk"
             /\ Raise
             /\ UNCHANGED <<fileVars, server, memVars, historyVars>>
    BY <1>1, <1>3 DEF TypeOK, fileVars, memVars, historyVars
  <1>4. CASE /\ ~ReplayRefuses
             /\ RollBack
             /\ Raise
             /\ UNCHANGED <<server, memVars, historyVars>>
    BY <1>1, <1>4 DEF TypeOK, RollBack, RecoveredTail, memVars, historyVars
  <1>5. CASE /\ ~ReplayRefuses
             /\ nextId <= MaxRecords
             /\ \E prefix \in Prefixes \ {"nothing"} : LeaveInFile(prefix, r)
             /\ nextId' = nextId + 1
             /\ rollbackFailed' = TRUE
             /\ Raise
             /\ UNCHANGED <<server, memVars, committed, crashes>>
    <2>1. /\ journal' \in Seq(Record)
          /\ tail' \in {"newline", "no_newline", "junk"}
      BY <1>2, <1>5, LeaveInFileType
    <2>2. nextId' \in 1..(MaxRecords + 1)
      BY <1>5 DEF TypeOK
    <2> HIDE DEF r, Raise
    <2>. QED  BY <1>1, <1>5, <2>1, <2>2 DEF TypeOK, memVars
  <1>6. CASE /\ ~ReplayRefuses
             /\ nextId <= MaxRecords
             /\ LeaveInFile("line", r)
             /\ nextId' = nextId + 1
             /\ committed' = committed \cup {r.id}
             /\ lock' = t
             /\ pc' = [pc EXCEPT ![t] = done]
             /\ req' = [req EXCEPT ![t] = l]
             /\ UNCHANGED <<server, memVars, rollbackFailed, crashes>>
    <2>1. "line" \in Prefixes
      BY DEF Prefixes
    <2>2. /\ journal' \in Seq(Record)
          /\ tail' \in {"newline", "no_newline", "junk"}
      BY <1>2, <1>6, <2>1, LeaveInFileType
    <2>3. nextId' \in 1..(MaxRecords + 1)
      BY <1>6 DEF TypeOK
    <2>4. committed' \in SUBSET (1..MaxRecords)
      BY <1>2, <1>6 DEF TypeOK, Record
    <2>5. /\ lock' \in Threads \cup {NoThread}
          /\ pc' \in [Threads -> PCs]
          /\ req' \in [Threads -> Links \cup {NoLink}]
      BY <1>6 DEF TypeOK
    <2> HIDE DEF r
    <2>. QED  BY <1>6, <2>2, <2>3, <2>4, <2>5 DEF TypeOK, memVars
  <1>7. CASE /\ ~ReplayRefuses
             /\ nextId <= MaxRecords
             /\ crashes < MaxCrashes
             /\ \E prefix \in Prefixes : LeaveInFile(prefix, r)
             /\ nextId' = nextId + 1
             /\ crashes' = crashes + 1
             /\ Die
             /\ UNCHANGED committed
    <2>1. /\ journal' \in Seq(Record)
          /\ tail' \in {"newline", "no_newline", "junk"}
      BY <1>2, <1>7, LeaveInFileType
    <2>2. /\ nextId' \in 1..(MaxRecords + 1)
          /\ crashes' \in 0..MaxCrashes
      BY <1>7 DEF TypeOK
    <2> HIDE DEF r
    <2>. QED  BY <1>7, <2>1, <2>2, DieType DEF TypeOK
  <1>. QED  BY <1>3, <1>4, <1>5, <1>6, <1>7 DEF AppendRecord

\* A handler that runs has a link to work on.
HandlerHasLink == \A t \in Threads : pc[t] # "idle" => req[t] \in Links

LEMMA AppendRecordHasLink ==
    ASSUME TypeOK, HandlerHasLink, NEW t \in Threads, NEW type \in EventTypes,
           NEW l \in Links, NEW done \in PCs, NEW failed \in PCs,
           AppendRecord(t, type, l, done, failed)
    PROVE  HandlerHasLink'
  <1>1. \/ UNCHANGED <<pc, req>>
        \/ /\ pc' = [u \in Threads |-> "idle"]
        \/ /\ pc' = [pc EXCEPT ![t] = failed]
           /\ req' = [req EXCEPT ![t] = IF failed = "idle" THEN NoLink ELSE l]
        \/ /\ pc' = [pc EXCEPT ![t] = done]
           /\ req' = [req EXCEPT ![t] = l]
    BY DEF AppendRecord, Die
  <1>. QED  BY <1>1 DEF HandlerHasLink, TypeOK

TypeInv == TypeOK /\ HandlerHasLink

LEMMA TypeInvStep == TypeInv /\ [Next]_vars => TypeInv'
  <1> SUFFICES ASSUME TypeInv, [Next]_vars
               PROVE  TypeInv'
    OBVIOUS
  <1> USE DEF TypeInv
  <1>1. ASSUME NEW t \in Threads, NEW l \in Links, IngestBegin(t, l)
        PROVE  TypeInv'
    BY <1>1 DEF TypeOK, HandlerHasLink, IngestBegin, PCs, fileVars, historyVars
  <1>2. ASSUME NEW t \in Threads, NEW l \in Links, RemoveAppend(t, l)
        PROVE  TypeInv'
    BY <1>2, AppendRecordType, AppendRecordHasLink
       DEF RemoveAppend, PCs, EventTypes
  <1>3. ASSUME NEW t \in Threads, IngestEnrich(t)
        PROVE  TypeInv'
    BY <1>3 DEF TypeOK, HandlerHasLink, IngestEnrich, PCs, fileVars, memVars,
                historyVars
  <1>4. ASSUME NEW t \in Threads, IngestAppend(t)
        PROVE  TypeInv'
    <2>1. CASE req[t] \in monitored
      BY <1>4, <2>1
         DEF TypeOK, HandlerHasLink, IngestAppend, PCs, fileVars, memVars,
             historyVars
    <2>2. CASE req[t] \notin monitored
      <3>1. req[t] \in Links
        BY <1>4 DEF IngestAppend, HandlerHasLink
      <3>. QED  BY <1>4, <2>2, <3>1, AppendRecordType, AppendRecordHasLink
                DEF IngestAppend, PCs, EventTypes
    <2>. QED  BY <2>1, <2>2
  <1>5. ASSUME NEW t \in Threads, IngestPublish(t)
        PROVE  TypeInv'
    <2>1. req[t] \in Links
      BY <1>5 DEF IngestPublish, HandlerHasLink
    <2>2. /\ PushEvent("LINK_INGESTED", req[t]) \in Seq(Event)
          /\ Len(PushEvent("LINK_INGESTED", req[t])) <= MaxEvents
      BY <2>1, PushEventType DEF EventTypes
    <2>. QED  BY <1>5, <2>1, <2>2
              DEF TypeOK, HandlerHasLink, IngestPublish, PCs, fileVars,
                  historyVars
  <1>6. ASSUME NEW t \in Threads, IngestRelease(t)
        PROVE  TypeInv'
    BY <1>6 DEF TypeOK, HandlerHasLink, IngestRelease, PCs, fileVars,
                historyVars
  <1>7. ASSUME NEW t \in Threads, RemovePublish(t)
        PROVE  TypeInv'
    <2>1. req[t] \in Links
      BY <1>7 DEF RemovePublish, HandlerHasLink
    <2>2. /\ PushEvent("LINK_REMOVED", req[t]) \in Seq(Event)
          /\ Len(PushEvent("LINK_REMOVED", req[t])) <= MaxEvents
      BY <2>1, PushEventType DEF EventTypes
    <2>. QED  BY <1>7, <2>1, <2>2
              DEF TypeOK, HandlerHasLink, RemovePublish, PCs, fileVars,
                  historyVars
  <1>8. CASE Crash
    <2>1. HandlerHasLink'
      BY <1>8 DEF HandlerHasLink, Crash, Die
    <2>2. Die
      BY <1>8 DEF Crash
    <2>. QED  BY <1>8, <2>1, <2>2, DieType DEF TypeOK, Crash, fileVars
  <1>9. CASE StartupReplay
    <2>1. Active(journal) \in SUBSET Links
      BY DEF Active
    <2>. QED  BY <1>9, <2>1, RecentEventsType
              DEF TypeOK, HandlerHasLink, StartupReplay, RecoveredTail,
                  threadVars, historyVars
  <1>10. CASE StartupRefused
    BY <1>10 DEF TypeOK, HandlerHasLink, StartupRefused, fileVars, memVars,
                 threadVars, historyVars
  <1>11. CASE UNCHANGED vars
    BY <1>11 DEF TypeOK, HandlerHasLink, vars
  <1>. QED  BY <1>1, <1>2, <1>3, <1>4, <1>5, <1>6, <1>7, <1>8, <1>9, <1>10,
               <1>11 DEF Next, Handler

LEMMA TypeInvAlways == Spec => []TypeInv
  <1>1. <<>> \in Seq(Event) /\ Len(<<>>) <= MaxEvents /\ <<>> \in Seq(Record)
    OBVIOUS
  <1>2. Init => TypeInv
    <2>. SUFFICES ASSUME Init PROVE TypeInv
      OBVIOUS
    <2>1. /\ pc \in [Threads -> PCs]
          /\ req \in [Threads -> Links \cup {NoLink}]
      BY DEF Init, PCs
    <2>2. /\ nextId \in 1..(MaxRecords + 1)
          /\ crashes \in 0..MaxCrashes
          /\ committed \in SUBSET (1..MaxRecords)
      BY DEF Init
    <2>3. /\ journal \in Seq(Record)
          /\ events \in Seq(Event) /\ Len(events) <= MaxEvents
      BY <1>1 DEF Init
    <2>4. HandlerHasLink
      BY DEF Init, HandlerHasLink
    <2>. QED  BY <2>1, <2>2, <2>3, <2>4 DEF Init, TypeInv, TypeOK
  <1>. QED  BY <1>2, TypeInvStep, PTL DEF Spec

\* Every variable keeps its type, and the event feed its bound.
THEOREM TypeCorrect == Spec => []TypeOK
  <1>1. TypeInv => TypeOK
    BY DEF TypeInv
  <1>. QED  BY <1>1, TypeInvAlways, PTL

----------------------------------------------------------------------------
(* The journal only grows, by whole records. *)

LEMMA ActiveAppend ==
    ASSUME NEW j \in Seq(Record), NEW r \in Record
    PROVE  Active(Append(j, r)) = IF r.type = "LINK_INGESTED"
                                  THEN Active(j) \cup {r.link}
                                  ELSE Active(j) \ {r.link}
  <1> DEFINE jr == Append(j, r)
  <1>1. /\ Len(jr) = Len(j) + 1 /\ Len(j) \in Nat
        /\ \A i \in 1..Len(j) : jr[i] = j[i]
        /\ jr[Len(j) + 1] = r
    OBVIOUS
  <1>2. r.type \in EventTypes /\ r.link \in Links
    BY DEF Record
  <1> HIDE DEF jr
  <1>3. ASSUME NEW l \in Links, l # r.link
        PROVE  ActiveIn(jr, l) <=> ActiveIn(j, l)
    <2>1. ASSUME ActiveIn(j, l) PROVE ActiveIn(jr, l)
      <3>1. PICK i \in 1..Len(j) : /\ j[i].link = l
                                   /\ j[i].type = "LINK_INGESTED"
                                   /\ \A k \in (i + 1)..Len(j) : j[k].link # l
        BY <2>1 DEF ActiveIn
      <3>2. i \in 1..Len(jr) /\ jr[i].link = l /\ jr[i].type = "LINK_INGESTED"
        BY <1>1, <3>1
      <3>3. ASSUME NEW k \in (i + 1)..Len(jr) PROVE jr[k].link # l
        BY <1>1, <1>3, <3>1
      <3>. QED  BY <3>2, <3>3 DEF ActiveIn
    <2>2. ASSUME ActiveIn(jr, l) PROVE ActiveIn(j, l)
      <3>1. PICK i \in 1..Len(jr) : /\ jr[i].link = l
                                    /\ jr[i].type = "LINK_INGESTED"
                                    /\ \A k \in (i + 1)..Len(jr) : jr[k].link # l
        BY <2>2 DEF ActiveIn
      <3>2. i \in 1..Len(j)
        BY <1>1, <1>3, <3>1
      <3>3. ASSUME NEW k \in (i + 1)..Len(j) PROVE j[k].link # l
        BY <1>1, <3>1, <3>2
      <3>. QED  BY <1>1, <3>1, <3>2, <3>3 DEF ActiveIn
    <2>. QED  BY <2>1, <2>2
  <1>4. ActiveIn(jr, r.link) <=> r.type = "LINK_INGESTED"
    <2>1. ASSUME ActiveIn(jr, r.link) PROVE r.type = "LINK_INGESTED"
      <3>1. PICK i \in 1..Len(jr) :
                /\ jr[i].link = r.link
                /\ jr[i].type = "LINK_INGESTED"
                /\ \A k \in (i + 1)..Len(jr) : jr[k].link # r.link
        BY <2>1 DEF ActiveIn
      <3>2. i = Len(jr)
        BY <1>1, <3>1
      <3>. QED  BY <1>1, <3>1, <3>2
    <2>2. ASSUME r.type = "LINK_INGESTED" PROVE ActiveIn(jr, r.link)
      <3>1. /\ Len(jr) \in 1..Len(jr) /\ jr[Len(jr)] = r
            /\ (Len(jr) + 1)..Len(jr) = {}
        BY <1>1
      <3>. QED  BY <2>2, <3>1 DEF ActiveIn
    <2>. QED  BY <2>1, <2>2
  <1>5. Active(jr) = IF r.type = "LINK_INGESTED" THEN Active(j) \cup {r.link}
                                                 ELSE Active(j) \ {r.link}
    BY <1>2, <1>3, <1>4 DEF Active
  <1>. QED  BY <1>5 DEF jr

Appends(type, l) == /\ journal' = Append(journal, NewRecord(type, l))
                    /\ nextId <= MaxRecords
                    /\ nextId' = nextId + 1

\* What one append does to the file when no newline can be lost.
LEMMA AppendRecordFile ==
    ASSUME ~NewlineCanBeLost, TypeOK, tail # "no_newline",
           NEW t \in Threads, NEW type \in EventTypes, NEW l \in Links,
           NEW done \in PCs, NEW failed \in PCs,
           AppendRecord(t, type, l, done, failed)
    PROVE  /\ tail' # "no_newline"
           /\ \/ /\ journal' = journal /\ committed' = committed
                 /\ nextId' \in {nextId, nextId + 1}
              \/ /\ Appends(type, l)
                 /\ committed' \subseteq committed \cup {nextId}
  <1> DEFINE r == NewRecord(type, l)
  <1>1. RecoveredTail = "newline"
    BY DEF RecoveredTail, TypeOK
  <1>2. Prefixes = {"nothing", "part", "line"}
    BY DEF Prefixes
  <1>3. ASSUME NEW prefix \in Prefixes, LeaveInFile(prefix, r)
        PROVE  /\ tail' # "no_newline"
               /\ journal' = journal \/ journal' = Append(journal, r)
    BY <1>1, <1>2, <1>3 DEF LeaveInFile
  <1>4. ASSUME LeaveInFile("line", r)
        PROVE  tail' # "no_newline" /\ journal' = Append(journal, r)
    BY <1>1, <1>4 DEF LeaveInFile
  <1>5. r.id = nextId
    BY DEF NewRecord
  <1> HIDE DEF r
  <1>. QED  BY <1>1, <1>3, <1>4, <1>5
            DEF AppendRecord, Appends, RollBack, fileVars, historyVars, r

\* What any step does to the file.
LEMMA JournalGrows ==
    ASSUME ~NewlineCanBeLost, TypeInv, tail # "no_newline", [Next]_vars
    PROVE  /\ tail' # "no_newline"
           /\ \/ /\ journal' = journal /\ committed' = committed
                 /\ nextId' \in {nextId, nextId + 1}
              \/ /\ \E type \in EventTypes, l \in Links : Appends(type, l)
                 /\ committed' \subseteq committed \cup {nextId}
  <1> USE DEF TypeInv
  <1>1. ASSUME NEW t \in Threads, NEW l \in Links, RemoveAppend(t, l)
        PROVE  /\ tail' # "no_newline"
               /\ \/ /\ journal' = journal /\ committed' = committed
                     /\ nextId' \in {nextId, nextId + 1}
                  \/ /\ \E type \in EventTypes, k \in Links : Appends(type, k)
                     /\ committed' \subseteq committed \cup {nextId}
    <2>1. {"LINK_REMOVED"} \subseteq EventTypes /\ {"unpublish", "idle"} \subseteq PCs
      BY DEF EventTypes, PCs
    <2>. QED  BY <1>1, <2>1, AppendRecordFile DEF RemoveAppend
  <1>2. ASSUME NEW t \in Threads, IngestAppend(t)
        PROVE  /\ tail' # "no_newline"
               /\ \/ /\ journal' = journal /\ committed' = committed
                     /\ nextId' \in {nextId, nextId + 1}
                  \/ /\ \E type \in EventTypes, k \in Links : Appends(type, k)
                     /\ committed' \subseteq committed \cup {nextId}
    <2>1. {"LINK_INGESTED"} \subseteq EventTypes /\ {"publish", "release"} \subseteq PCs
      BY DEF EventTypes, PCs
    <2>2. req[t] \in Links
      BY <1>2 DEF IngestAppend, HandlerHasLink
    <2>3. CASE req[t] \in monitored
      BY <1>2, <2>3 DEF IngestAppend, fileVars, historyVars
    <2>4. CASE req[t] \notin monitored
      BY <1>2, <2>1, <2>2, <2>4, AppendRecordFile DEF IngestAppend
    <2>. QED  BY <2>3, <2>4
  <1>3. ASSUME \/ \E t \in Threads, l \in Links : IngestBegin(t, l)
               \/ \E t \in Threads : \/ IngestEnrich(t) \/ IngestPublish(t)
                                      \/ IngestRelease(t) \/ RemovePublish(t)
               \/ Crash \/ StartupReplay \/ StartupRefused \/ UNCHANGED vars
        PROVE  /\ tail' # "no_newline"
               /\ journal' = journal /\ committed' = committed /\ nextId' = nextId
    BY <1>3 DEF IngestBegin, IngestEnrich, IngestPublish, IngestRelease,
                RemovePublish, Crash, StartupReplay, StartupRefused,
                RecoveredTail, fileVars, historyVars, vars
  <1>. QED  BY <1>1, <1>2, <1>3 DEF Next, Handler

LEMMA RecordIds ==
    ASSUME NEW j \in Seq(Record)
    PROVE  \A i \in 1..Len(j) : j[i].id \in Nat
  <1> TAKE i \in 1..Len(j)
  <1>1. j[i] \in Record
    OBVIOUS
  <1>. QED  BY <1>1 DEF Record

\* The inductive invariant about the file.
JournalInv ==
    /\ TypeInv
    /\ tail # "no_newline"
    /\ \A i \in 1..Len(journal) : journal[i].id < nextId
    /\ JournalIsOneChain
    /\ CommittedRecordsSurvive

LEMMA JournalInvStep ==
    ASSUME ~NewlineCanBeLost, JournalInv, [Next]_vars
    PROVE  JournalInv'
  <1>1. TypeInv' /\ tail' # "no_newline"
    BY TypeInvStep, JournalGrows DEF JournalInv
  <1>2. journal \in Seq(Record) /\ nextId \in Nat /\ Len(journal) \in Nat
    BY DEF JournalInv, TypeInv, TypeOK
  <1>3. CASE /\ journal' = journal /\ committed' = committed
             /\ nextId' \in {nextId, nextId + 1}
    <2>1. \A i \in 1..Len(journal) : journal[i].id \in Nat
      BY <1>2, RecordIds
    <2>2. \A i \in 1..Len(journal) : journal[i].id < nextId'
      <3>. TAKE i \in 1..Len(journal)
      <3>1. journal[i].id < nextId /\ journal[i].id \in Nat
        BY <2>1 DEF JournalInv
      <3>2. nextId' = nextId \/ nextId' = nextId + 1
        BY <1>3
      <3> HIDE DEF JournalInv
      <3>3. ASSUME NEW x \in Nat, x < nextId PROVE x < nextId'
        BY <1>2, <3>2, <3>3
      <3>. QED  BY <3>1, <3>3
    <2>3. JournalIsOneChain' /\ CommittedRecordsSurvive'
      BY <1>3 DEF JournalInv, JournalIsOneChain, ChainOK,
                  CommittedRecordsSurvive
    <2>. QED  BY <1>1, <1>3, <2>2, <2>3 DEF JournalInv
  <1>4. ASSUME NEW type \in EventTypes, NEW l \in Links, Appends(type, l),
               committed' \subseteq committed \cup {nextId}
        PROVE  JournalInv'
    <2> DEFINE r == NewRecord(type, l)
    <2>1. r \in Record
      BY <1>4, RecordType DEF JournalInv, TypeInv, Appends
    <2>2. r.id = nextId /\ r.prev = LastSignature(journal)
      BY DEF NewRecord
    <2>3. /\ Len(journal') = Len(journal) + 1
          /\ \A i \in 1..Len(journal) : journal'[i] = journal[i]
          /\ journal'[Len(journal) + 1] = r
          /\ nextId' = nextId + 1
      <3>1. journal' = Append(journal, r) /\ nextId' = nextId + 1
        BY <1>4 DEF Appends
      <3> HIDE DEF r
      <3>. QED  BY <1>2, <2>1, <3>1
    <2> HIDE DEF r
    <2>4. \A i \in 1..Len(journal) : journal[i].id \in Nat
      BY <1>2, RecordIds
    <2>5. \A i \in 1..Len(journal') : journal'[i].id < nextId'
      <3>. TAKE i \in 1..Len(journal')
      <3>1. CASE i = Len(journal) + 1
        BY <1>2, <2>2, <2>3, <3>1
      <3>2. CASE i \in 1..Len(journal)
        <4>1. journal[i].id < nextId
          BY <3>2 DEF JournalInv
        <4>. QED  BY <1>2, <2>3, <2>4, <3>2, <4>1
      <3>. QED  BY <1>2, <2>3, <3>1, <3>2
    <2>6. JournalIsOneChain'
      <3> SUFFICES ASSUME NEW i \in 1..Len(journal')
                   PROVE  journal'[i].prev = IF i = 1 THEN GENESIS
                                             ELSE journal'[i - 1].id
        BY DEF JournalIsOneChain, ChainOK
      <3>1. CASE i \in 1..Len(journal)
        <4>1. journal[i].prev = IF i = 1 THEN GENESIS ELSE journal[i - 1].id
          BY <3>1 DEF JournalInv, JournalIsOneChain, ChainOK
        <4>2. i # 1 => i - 1 \in 1..Len(journal)
          BY <1>2, <3>1
        <4>. QED  BY <2>3, <3>1, <4>1, <4>2
      <3>2. CASE i = Len(journal) + 1
        <4>1. CASE journal = <<>>
          BY <2>2, <2>3, <3>2, <4>1 DEF LastSignature
        <4>2. CASE journal # <<>>
          <5>1. Len(journal) \in 1..Len(journal)
            BY <1>2, <4>2
          <5>. QED  BY <1>2, <2>2, <2>3, <3>2, <4>2, <5>1 DEF LastSignature
        <4>. QED  BY <4>1, <4>2
      <3>. QED  BY <1>2, <2>3, <3>1, <3>2
    <2>7. CommittedRecordsSurvive'
      <3> SUFFICES ASSUME NEW id \in committed'
                   PROVE  \E i \in 1..Len(journal') : journal'[i].id = id
        BY DEF CommittedRecordsSurvive
      <3>1. CASE id = nextId
        BY <1>2, <2>2, <2>3, <3>1
      <3>2. CASE id \in committed
        <4>1. PICK i \in 1..Len(journal) : journal[i].id = id
          BY <3>2 DEF JournalInv, CommittedRecordsSurvive
        <4>. QED  BY <1>2, <2>3, <4>1
      <3>. QED  BY <1>4, <3>1, <3>2
    <2>. QED  BY <1>1, <2>5, <2>6, <2>7 DEF JournalInv
  <1>. QED
    <2>1. tail # "no_newline" /\ TypeInv
      BY DEF JournalInv
    <2>. QED  BY <1>3, <1>4, <2>1, JournalGrows

LEMMA JournalInvAlways == ~NewlineCanBeLost => (Spec => []JournalInv)
  <1> SUFFICES ASSUME ~NewlineCanBeLost
               PROVE  Spec => []JournalInv
    OBVIOUS
  <1>1. Init /\ TypeInv => JournalInv
    BY DEF Init, JournalInv, JournalIsOneChain, ChainOK,
           CommittedRecordsSurvive
  <1>2. JournalInv /\ [Next]_vars => JournalInv'
    BY JournalInvStep
  <1>. QED  BY <1>1, <1>2, TypeInvAlways, PTL DEF Spec

\* Unless a torn write can lose exactly a newline, a record whose append
\* returned stays readable for ever, across crashes, failed rollbacks and
\* tail truncations.
THEOREM CommittedAreDurable ==
    ~NewlineCanBeLost => (Spec => []CommittedRecordsSurvive)
  <1>1. JournalInv => CommittedRecordsSurvive
    BY DEF JournalInv
  <1>. QED  BY <1>1, JournalInvAlways, PTL

\* Under the same assumption the journal never forks: no replay is ever
\* refused for its chain.
THEOREM JournalNeverForks ==
    ~NewlineCanBeLost => (Spec => []JournalIsOneChain)
  <1>1. JournalInv => JournalIsOneChain
    BY DEF JournalInv
  <1>. QED  BY <1>1, JournalInvAlways, PTL

----------------------------------------------------------------------------
(* Memory follows the journal. *)

\* A handler is between its append and its publication exactly while it holds
\* the lock, and no handler outlives the process.
LockInv ==
    /\ \A t \in Threads : pc[t] \in {"publish", "unpublish"} <=> lock = t
    /\ server # "up" => \A t \in Threads : pc[t] = "idle"

\* The change a handler is about to publish is the one in the journal.
PendingInv ==
    server = "up" /\ ~rollbackFailed =>
        \A t \in Threads :
            /\ pc[t] = "publish" => req[t] \in Active(journal)
            /\ pc[t] = "unpublish" => req[t] \notin Active(journal)

MemoryInv == JournalInv /\ LockInv /\ PendingInv /\ MemoryFollowsJournal

LEMMA AppendRecordMemory ==
    ASSUME ~NewlineCanBeLost, MemoryInv,
           NEW t \in Threads, NEW type \in EventTypes, NEW l \in Links,
           NEW done \in {"publish", "unpublish"}, NEW failed \in {"release", "idle"},
           server = "up", lock = NoThread, pc[t] \in {"idle", "append"},
           AppendRecord(t, type, l, done, failed),
           done = "publish" => type = "LINK_INGESTED" /\ l \notin monitored,
           done = "unpublish" => type = "LINK_REMOVED" /\ l \in monitored
    PROVE  LockInv' /\ PendingInv' /\ MemoryFollowsJournal'
  <1> DEFINE r == NewRecord(type, l)
  <1>1. /\ TypeOK /\ tail # "no_newline" /\ pc \in [Threads -> PCs]
        /\ req \in [Threads -> Links \cup {NoLink}]
        /\ journal \in Seq(Record)
    BY DEF MemoryInv, JournalInv, TypeInv, TypeOK
  <1>2. \A u \in Threads : pc[u] \notin {"publish", "unpublish"}
    BY DEF MemoryInv, LockInv
  <1>3. CASE /\ lock' = NoThread
             /\ pc' = [pc EXCEPT ![t] = failed]
             /\ server' = server
             /\ monitored' = monitored
             /\ \/ journal' = journal /\ rollbackFailed' = rollbackFailed
                \/ rollbackFailed' = TRUE
    BY <1>1, <1>2, <1>3
       DEF MemoryInv, LockInv, PendingInv, MemoryFollowsJournal
  <1>4. CASE Die
    BY <1>1, <1>4 DEF Die, LockInv, PendingInv, MemoryFollowsJournal
  <1>5. CASE /\ nextId <= MaxRecords
             /\ LeaveInFile("line", r)
             /\ lock' = t
             /\ pc' = [pc EXCEPT ![t] = done]
             /\ req' = [req EXCEPT ![t] = l]
             /\ UNCHANGED <<server, monitored, rollbackFailed>>
    <2>1. journal' = Append(journal, r)
      BY <1>1, <1>5 DEF LeaveInFile, RecoveredTail, TypeOK
    <2>2. r \in Record /\ r.type = type /\ r.link = l
      <3>1. r \in Record
        BY <1>1, <1>5, RecordType
      <3>. QED  BY <3>1 DEF NewRecord
    <2> HIDE DEF r
    <2>3. Active(journal') = IF type = "LINK_INGESTED"
                             THEN Active(journal) \cup {l}
                             ELSE Active(journal) \ {l}
      BY <1>1, <2>1, <2>2, ActiveAppend
    <2>4. LockInv'
      BY <1>1, <1>2, <1>5 DEF MemoryInv, LockInv
    <2>5. ~rollbackFailed => monitored = Active(journal)
      BY DEF MemoryInv, MemoryFollowsJournal
    <2>6. pc'[t] = done /\ req'[t] = l
      BY <1>1, <1>5
    <2>7. \A u \in Threads \ {t} : pc'[u] \notin {"publish", "unpublish"}
      BY <1>1, <1>2, <1>5
    <2>8. PendingInv'
      BY <1>5, <2>3, <2>5, <2>6, <2>7 DEF PendingInv
    <2>9. MemoryFollowsJournal'
      BY <1>5, <2>3, <2>5, <2>6, <2>7 DEF MemoryFollowsJournal
    <2>. QED  BY <2>4, <2>8, <2>9
  <1>. QED
    <2> HIDE DEF r
    <2>. QED  BY <1>3, <1>4, <1>5
              DEF AppendRecord, RollBack, fileVars, memVars, historyVars, r

LEMMA MemoryInvStep ==
    ASSUME ~NewlineCanBeLost, MemoryInv, [Next]_vars
    PROVE  MemoryInv'
  <1> DEFINE Goal == LockInv' /\ PendingInv' /\ MemoryFollowsJournal'
  <1>1. JournalInv'
    BY JournalInvStep DEF MemoryInv
  <1>2. /\ pc \in [Threads -> PCs] /\ req \in [Threads -> Links \cup {NoLink}]
        /\ HandlerHasLink
    BY DEF MemoryInv, JournalInv, TypeInv, TypeOK
  <1> USE DEF LockInv, PendingInv, MemoryFollowsJournal
  <1>3. ASSUME NEW t \in Threads, NEW l \in Links, IngestBegin(t, l)
        PROVE  Goal
    BY <1>2, <1>3 DEF MemoryInv, IngestBegin, fileVars, historyVars
  <1>4. ASSUME NEW t \in Threads, NEW l \in Links, RemoveAppend(t, l)
        PROVE  Goal
    <2>1. "LINK_REMOVED" \in EventTypes
      BY DEF EventTypes
    <2> HIDE DEF LockInv, PendingInv, MemoryFollowsJournal
    <2>. QED  BY <1>4, <2>1, AppendRecordMemory DEF RemoveAppend
  <1>5. ASSUME NEW t \in Threads, IngestEnrich(t)
        PROVE  Goal
    BY <1>2, <1>5 DEF MemoryInv, IngestEnrich, fileVars, memVars, historyVars
  <1>6. ASSUME NEW t \in Threads, IngestAppend(t)
        PROVE  Goal
    <2>1. CASE req[t] \in monitored
      BY <1>2, <1>6, <2>1
         DEF MemoryInv, IngestAppend, fileVars, memVars, historyVars
    <2>2. CASE req[t] \notin monitored
      <3>1. "LINK_INGESTED" \in EventTypes
        BY DEF EventTypes
      <3>2. req[t] \in Links
        BY <1>2, <1>6 DEF IngestAppend, HandlerHasLink
      <3>3. server = "up"
        BY <1>6 DEF IngestAppend, MemoryInv
      <3> HIDE DEF LockInv, PendingInv, MemoryFollowsJournal
      <3>. QED  BY <1>6, <2>2, <3>1, <3>2, <3>3, AppendRecordMemory
                DEF IngestAppend
    <2>. QED  BY <2>1, <2>2
  <1>7. ASSUME NEW t \in Threads, IngestPublish(t)
        PROVE  Goal
    <2>1. \A u \in Threads \ {t} : pc[u] \notin {"publish", "unpublish"}
      BY <1>7 DEF MemoryInv, IngestPublish
    <2>. QED  BY <1>2, <1>7, <2>1
              DEF MemoryInv, IngestPublish, fileVars, historyVars
  <1>8. ASSUME NEW t \in Threads, IngestRelease(t)
        PROVE  Goal
    BY <1>2, <1>8 DEF MemoryInv, IngestRelease, fileVars, historyVars
  <1>9. ASSUME NEW t \in Threads, RemovePublish(t)
        PROVE  Goal
    <2>1. \A u \in Threads \ {t} : pc[u] \notin {"publish", "unpublish"}
      BY <1>9 DEF MemoryInv, RemovePublish
    <2>. QED  BY <1>2, <1>9, <2>1
              DEF MemoryInv, RemovePublish, fileVars, historyVars
  <1>10. ASSUME Crash PROVE Goal
    BY <1>10 DEF Crash, Die
  <1>11. ASSUME StartupReplay PROVE Goal
    BY <1>2, <1>11 DEF MemoryInv, StartupReplay, threadVars, historyVars
  <1>12. ASSUME StartupRefused PROVE Goal
    BY <1>2, <1>12
       DEF MemoryInv, StartupRefused, threadVars, fileVars, memVars, historyVars
  <1>13. ASSUME UNCHANGED vars PROVE Goal
    BY <1>13 DEF MemoryInv, vars
  <1>14. Goal
    <2> HIDE DEF Goal
    <2>. QED  BY <1>3, <1>4, <1>5, <1>6, <1>7, <1>8, <1>9, <1>10, <1>11,
                 <1>12, <1>13 DEF Next, Handler
  <1> HIDE DEF LockInv, PendingInv, MemoryFollowsJournal
  <1>. QED  BY <1>1, <1>14 DEF MemoryInv

LEMMA MemoryInvAlways ==
    ~NewlineCanBeLost => (Spec => []MemoryInv)
  <1> SUFFICES ASSUME ~NewlineCanBeLost
               PROVE  Spec => []MemoryInv
    OBVIOUS
  <1>1. Init => LockInv /\ PendingInv /\ MemoryFollowsJournal
    BY DEF Init, LockInv, PendingInv, MemoryFollowsJournal
  <1>2. LockInv /\ PendingInv /\ MemoryFollowsJournal /\ JournalInv => MemoryInv
    BY DEF MemoryInv
  <1>3. MemoryInv /\ [Next]_vars => MemoryInv'
    BY MemoryInvStep
  <1>. QED  BY <1>1, <1>2, <1>3, JournalInvAlways, PTL DEF Spec

\* "Durable before visible": at every moment of every interleaving the links
\* in memory are those a restart would recover, but for the one change a
\* handler has journalled and not yet published.
THEOREM DurableBeforeVisible ==
    ~NewlineCanBeLost => (Spec => []MemoryFollowsJournal)
  <1>1. MemoryInv => MemoryFollowsJournal
    BY DEF MemoryInv
  <1>. QED  BY <1>1, MemoryInvAlways, PTL

\* An append that changes the file, while memory is what the journal says,
\* changes the set of active links.
LEMMA AppendRecordMatters ==
    ASSUME ~NewlineCanBeLost, MemoryInv, ~rollbackFailed,
           NEW t \in Threads, NEW type \in EventTypes, NEW l \in Links,
           NEW done \in PCs, NEW failed \in PCs,
           server = "up", lock = NoThread,
           type = "LINK_INGESTED" <=> l \notin monitored,
           AppendRecord(t, type, l, done, failed)
    PROVE  journal' = journal \/ Active(journal') # Active(journal)
  <1>1. TypeOK /\ tail # "no_newline" /\ journal \in Seq(Record)
    BY DEF MemoryInv, JournalInv, TypeInv, TypeOK
  <1>2. monitored = Active(journal)
    BY DEF MemoryInv, MemoryFollowsJournal
  <1>3. CASE Appends(type, l)
    <2>1. NewRecord(type, l) \in Record /\ journal' = Append(journal, NewRecord(type, l))
      BY <1>1, <1>3, RecordType DEF Appends
    <2>2. NewRecord(type, l).type = type /\ NewRecord(type, l).link = l
      BY DEF NewRecord
    <2>3. Active(journal') = IF type = "LINK_INGESTED" THEN Active(journal) \cup {l}
                                                       ELSE Active(journal) \ {l}
      BY <1>1, <2>1, <2>2, ActiveAppend
    <2>. QED  BY <1>2, <2>3
  <1>4. journal' = journal \/ Appends(type, l)
    BY <1>1, AppendRecordFile
  <1>. QED  BY <1>3, <1>4

\* No link is ingested twice or removed twice in the journal: a record is only
\* ever appended when it changes the set of active links, unless the rollback of
\* a failed write failed (append_link_ingested, append_link_removed).
THEOREM RecordsMatter == ~NewlineCanBeLost => (Spec => EveryRecordMatters)
  <1> DEFINE A == Len(journal') > Len(journal) /\ ~rollbackFailed /\ ~rollbackFailed' =>
                      Active(journal') # Active(journal)
  <1>1. ASSUME ~NewlineCanBeLost, MemoryInv, [Next]_vars
        PROVE  A
    <2>1. TypeOK /\ HandlerHasLink /\ LockInv /\ Len(journal) \in Nat
      BY <1>1 DEF MemoryInv, JournalInv, TypeInv, TypeOK
    <2>2. \A t \in Threads : pc[t] # "idle" => server = "up" /\ req[t] \in Links
      BY <2>1 DEF LockInv, HandlerHasLink
    <2>3. /\ {"publish", "release", "unpublish", "idle"} \subseteq PCs
          /\ {"LINK_INGESTED", "LINK_REMOVED"} \subseteq EventTypes
      BY DEF PCs, EventTypes
    <2>4. ASSUME NEW t \in Threads, NEW l \in Links, RemoveAppend(t, l), ~rollbackFailed
          PROVE  journal' = journal \/ Active(journal') # Active(journal)
      BY <1>1, <2>3, <2>4, AppendRecordMatters DEF RemoveAppend
    <2>5. ASSUME NEW t \in Threads, IngestAppend(t), ~rollbackFailed
          PROVE  journal' = journal \/ Active(journal') # Active(journal)
      <3>1. lock = NoThread /\ server = "up" /\ req[t] \in Links
        BY <2>2, <2>5 DEF IngestAppend
      <3>2. CASE req[t] \in monitored
        BY <2>5, <3>2 DEF IngestAppend, fileVars
      <3>3. CASE req[t] \notin monitored
        <4>1. AppendRecord(t, "LINK_INGESTED", req[t], "publish", "release")
          BY <2>5, <3>3 DEF IngestAppend
        <4>. QED  BY <1>1, <2>3, <2>5, <3>1, <3>3, <4>1, AppendRecordMatters
      <3>. QED  BY <3>2, <3>3
    <2>6. ASSUME NEW t \in Threads,
                 \/ \E l \in Links : IngestBegin(t, l)
                 \/ IngestEnrich(t) \/ IngestPublish(t) \/ IngestRelease(t) \/ RemovePublish(t)
          PROVE  journal' = journal
      BY <2>6 DEF IngestBegin, IngestEnrich, IngestPublish, IngestRelease, RemovePublish, fileVars
    <2>7. ASSUME Crash \/ StartupReplay \/ StartupRefused \/ UNCHANGED vars
          PROVE  journal' = journal
      BY <2>7 DEF Crash, StartupReplay, StartupRefused, vars, fileVars
    <2>8. ~rollbackFailed => journal' = journal \/ Active(journal') # Active(journal)
      BY <1>1, <2>4, <2>5, <2>6, <2>7 DEF Next, Handler
    <2>. QED  BY <2>1, <2>8
  <1>2. SUFFICES ASSUME ~NewlineCanBeLost PROVE Spec => [][A]_vars
    BY DEF EveryRecordMatters, A
  <1>3. MemoryInv /\ [Next]_vars => [A]_vars
    BY <1>1, <1>2
  <1>. HIDE DEF A
  <1>. QED  BY <1>3, <1>2, MemoryInvAlways, PTL DEF Spec

----------------------------------------------------------------------------
(* Every step is a step of DurableLinkSet. *)

LEMMA AppendRecordImplements ==
    ASSUME ~NewlineCanBeLost, MemoryInv,
           NEW t \in Threads, NEW type \in EventTypes, NEW l \in Links,
           NEW done \in PCs, NEW failed \in PCs,
           server = "up", lock = NoThread,
           AppendRecord(t, type, l, done, failed)
    PROVE  Abstract!Next \/ UNCHANGED Abstract!abstractVars
  <1> DEFINE r == NewRecord(type, l)
  <1>1. /\ TypeOK /\ tail # "no_newline" /\ journal \in Seq(Record)
    BY DEF MemoryInv, JournalInv, TypeInv, TypeOK
  <1>2. rollbackFailed \/ monitored = Active(journal)
    BY DEF MemoryInv, MemoryFollowsJournal
  <1>3. nextId <= MaxRecords =>
            Active(Append(journal, r)) \in Abstract!Changes(Active(journal))
    <2>1. SUFFICES ASSUME nextId <= MaxRecords
                   PROVE  Active(Append(journal, r))
                            \in Abstract!Changes(Active(journal))
      OBVIOUS
    <2>2. r \in Record
      BY <1>1, <2>1, RecordType
    <2>3. r.link \in Links
      BY <2>2 DEF Record
    <2> HIDE DEF r
    <2>. QED  BY <1>1, <2>2, <2>3, ActiveAppend DEF Abstract!Changes
  <1>4. ASSUME nextId <= MaxRecords, NEW prefix \in Prefixes,
               LeaveInFile(prefix, r)
        PROVE  Active(journal') \in Abstract!Changes(Active(journal))
                                    \cup {Active(journal)}
    <2>1. journal' = journal \/ journal' = Append(journal, r)
      BY <1>1, <1>4 DEF LeaveInFile, RecoveredTail, TypeOK
    <2> HIDE DEF r
    <2>. QED  BY <1>3, <1>4, <2>1
  <1>5. ASSUME nextId <= MaxRecords, LeaveInFile("line", r)
        PROVE  Active(journal') \in Abstract!Changes(Active(journal))
    <2>1. journal' = Append(journal, r)
      BY <1>1, <1>5 DEF LeaveInFile, RecoveredTail, TypeOK
    <2> HIDE DEF r
    <2>. QED  BY <1>3, <1>5, <2>1
  <1> HIDE DEF r
  <1>6. CASE /\ journal' = journal
             /\ UNCHANGED <<server, monitored, rollbackFailed>>
    BY <1>6 DEF Abstract!abstractVars
  <1>7. CASE /\ nextId <= MaxRecords
             /\ \E prefix \in Prefixes \ {"nothing"} : LeaveInFile(prefix, r)
             /\ rollbackFailed' = TRUE
             /\ UNCHANGED <<server, monitored>>
    <2>1. Active(journal') \in Abstract!Changes(Active(journal))
                               \cup {Active(journal)}
      BY <1>4, <1>7
    <2>. QED  BY <1>2, <1>7, <2>1 DEF Abstract!Next, Abstract!Diverge
  <1>8. CASE /\ nextId <= MaxRecords
             /\ LeaveInFile("line", r)
             /\ UNCHANGED <<server, monitored, rollbackFailed>>
    <2>1. Active(journal') \in Abstract!Changes(Active(journal))
      BY <1>5, <1>8
    <2>. QED  BY <1>2, <1>8, <2>1 DEF Abstract!Next, Abstract!Persist
  <1>9. CASE /\ nextId <= MaxRecords
             /\ \E prefix \in Prefixes : LeaveInFile(prefix, r)
             /\ Die
    <2>1. Active(journal') \in Abstract!Changes(Active(journal))
                               \cup {Active(journal)}
      BY <1>4, <1>9
    <2>. QED  BY <1>2, <1>9, <2>1 DEF Die, Abstract!Next, Abstract!Crash
  <1>. QED  BY <1>6, <1>7, <1>8, <1>9
            DEF AppendRecord, RollBack, fileVars, memVars, historyVars, r

LEMMA StepImplements ==
    ASSUME ~NewlineCanBeLost, MemoryInv, [Next]_vars
    PROVE  Abstract!Next \/ UNCHANGED Abstract!abstractVars
  <1> DEFINE Goal == Abstract!Next \/ UNCHANGED Abstract!abstractVars
  <1>1. HandlerHasLink /\ TypeOK
    BY DEF MemoryInv, JournalInv, TypeInv
  <1>2. \A t \in Threads : pc[t] # "idle" => server = "up"
    BY DEF MemoryInv, LockInv
  <1>3. ASSUME NEW t \in Threads, NEW l \in Links, IngestBegin(t, l)
        PROVE  Goal
    BY <1>3 DEF IngestBegin, Abstract!abstractVars, fileVars, historyVars
  <1>4. ASSUME NEW t \in Threads, NEW l \in Links, RemoveAppend(t, l)
        PROVE  Goal
    <2>1. "LINK_REMOVED" \in EventTypes /\ {"idle", "unpublish"} \subseteq PCs
      BY DEF EventTypes, PCs
    <2>. QED  BY <1>4, <2>1, AppendRecordImplements DEF RemoveAppend
  <1>5. ASSUME NEW t \in Threads, IngestEnrich(t) \/ IngestRelease(t)
        PROVE  Goal
    BY <1>5 DEF IngestEnrich, IngestRelease, Abstract!abstractVars, fileVars,
                memVars, historyVars
  <1>6. ASSUME NEW t \in Threads, IngestAppend(t)
        PROVE  Goal
    <2>1. /\ "LINK_INGESTED" \in EventTypes
          /\ {"publish", "release"} \subseteq PCs
          /\ req[t] \in Links /\ server = "up"
      BY <1>1, <1>2, <1>6 DEF EventTypes, PCs, IngestAppend, HandlerHasLink
    <2>2. CASE req[t] \in monitored
      BY <1>6, <2>2 DEF IngestAppend, Abstract!abstractVars, fileVars, memVars,
                        historyVars
    <2>3. CASE req[t] \notin monitored
      BY <1>6, <2>1, <2>3, AppendRecordImplements DEF IngestAppend
    <2>. QED  BY <2>2, <2>3
  <1>7. ASSUME NEW t \in Threads, IngestPublish(t) \/ RemovePublish(t)
        PROVE  Goal
    <2>1. /\ req[t] \in Links /\ server = "up" /\ lock = t
          /\ UNCHANGED <<journal, server, rollbackFailed>>
      BY <1>1, <1>2, <1>7 DEF IngestPublish, RemovePublish, HandlerHasLink,
                              fileVars, historyVars
    <2>2. monitored' \in Abstract!Changes(monitored)
      BY <1>7, <2>1 DEF IngestPublish, RemovePublish, Abstract!Changes
    <2>3. ~rollbackFailed => monitored' = Active(journal)
      <3>1. CASE IngestPublish(t)
        BY <2>1, <3>1
           DEF IngestPublish, MemoryInv, MemoryFollowsJournal, PendingInv
      <3>2. CASE RemovePublish(t)
        BY <2>1, <3>2
           DEF RemovePublish, MemoryInv, MemoryFollowsJournal, PendingInv
      <3>. QED  BY <1>7, <3>1, <3>2
    <2>. QED  BY <2>1, <2>2, <2>3 DEF Abstract!Next, Abstract!Publish
  <1>8. ASSUME Crash PROVE Goal
    BY <1>8 DEF Crash, Die, fileVars, Abstract!Next, Abstract!Crash
  <1>9. ASSUME StartupReplay PROVE Goal
    BY <1>9 DEF StartupReplay, historyVars, Abstract!Next, Abstract!Recover
  <1>10. ASSUME StartupRefused PROVE Goal
    BY <1>10 DEF StartupRefused, fileVars, memVars, historyVars,
                 Abstract!abstractVars
  <1>11. ASSUME UNCHANGED vars PROVE Goal
    BY <1>11 DEF vars, Abstract!abstractVars
  <1> HIDE DEF Goal
  <1>12. Goal
    BY <1>3, <1>4, <1>5, <1>6, <1>7, <1>8, <1>9, <1>10, <1>11
       DEF Next, Handler
  <1>. QED  BY <1>12 DEF Goal

\* The service implements the durable set it promises: the journal, the
\* handlers, the crashes and the recovery only make its steps.
THEOREM ServiceIsDurableLinkSet ==
    ~NewlineCanBeLost => (Spec => ImplementsDurableLinkSet)
  <1> SUFFICES ASSUME ~NewlineCanBeLost
               PROVE  Spec => Abstract!Spec
    BY DEF ImplementsDurableLinkSet
  <1>1. Init => Abstract!Init
    BY DEF Init, Abstract!Init, Active, ActiveIn
  <1>2. MemoryInv /\ [Next]_vars => [Abstract!Next]_Abstract!abstractVars
    BY StepImplements
  <1>. QED  BY <1>1, <1>2, MemoryInvAlways, PTL DEF Spec, Abstract!Spec
=============================================================================
