---------------------------- MODULE RecordsProofs ----------------------------
(***************************************************************************)
(* Proofs about the parts that MCRecords puts beside the lineage journal,  *)
(* for any sets of keys, executions, capabilities, files, callbacks and    *)
(* messages and any bounds.  Each part has an inductive invariant of its   *)
(* own; the parts share no state, so the theorems about RecordsSpec follow *)
(* from those invariants one by one.                                       *)
(***************************************************************************)
EXTENDS MCRecords, SequenceTheorems, FiniteSetTheorems, WellFoundedInduction, TLAPS

----------------------------------------------------------------------------
(* The registry of capabilities. *)

Contents == Threads \cup {"nothing", "half"}
AdminStates == [at : {"idle", "absent", "write"}, id : CapabilityIds \cup {"none"}]
Asks == [at : {"idle", "found", "answered"}, id : CapabilityIds \cup {"none"},
         action : Asked \cup {"none"},
         answer : {"none", "authorized", "CAPABILITY_NOT_FOUND", "MAPPING_NOT_FOUND", "raised"}]

\* Process a is registering id.
Registers(a, id) == admins[a].at # "idle" /\ admins[a].id = id

CapabilityTypes ==
    /\ capabilities \in [CapabilityIds -> Contents]
    /\ registered \in [CapabilityIds -> Threads \cup {"nothing"}]
    /\ admins \in [Threads -> AdminStates]
    /\ ask \in Asks
    /\ \A a \in Threads : admins[a].at # "idle" => admins[a].id \in CapabilityIds

\* An id that was never found unregistered twice is registered by one process at
\* most, and by none when it was registered before; its file stays.
OneRegisters ==
    \A id \in CapabilityIds \ together :
        /\ \A a, b \in Threads : Registers(a, id) /\ Registers(b, id) => a = b
        /\ \A a \in Threads : Registers(a, id) => registered[id] = "nothing"
        /\ registered[id] # "nothing" => capabilities[id] = registered[id]

\* Half a file has its writer, and a whole one was reported.
HalvesHaveWriters ==
    /\ killed = {} /\ together = {} =>
          \A id \in CapabilityIds : capabilities[id] = "half" =>
              \E a \in Threads : admins[a].at = "write" /\ admins[a].id = id
    /\ \A id \in CapabilityIds : capabilities[id] \in Threads => registered[id] # "nothing"

\* A capability that was found is one.
Registered(id) == id \in VanaIds \cup {i \in CapabilityIds : registered[i] # "nothing"}
FoundIsRegistered ==
    /\ ask.at = "found" => Registered(ask.id) /\ ask.answer = "none"
    /\ ask.at = "idle" => ask.answer = "none"
    /\ ask.answer = "authorized" =>
          Capability!Permitted(ask.id, ask.action) /\ Registered(ask.id)

CapabilityInv == CapabilityTypes /\ OneRegisters /\ HalvesHaveWriters /\ FoundIsRegistered

LEMMA CapabilityInvInit == Capability!CapabilitiesInit => CapabilityInv
<1>. SUFFICES ASSUME Capability!CapabilitiesInit PROVE CapabilityInv
  OBVIOUS
<1>1. CapabilityTypes
  BY DEF CapabilityTypes, Capability!CapabilitiesInit, Capability!Nothing, Capability!Idle,
         Capability!NoAsk, Contents, AdminStates, Asks
<1>2. OneRegisters /\ HalvesHaveWriters
  BY AdminsAssumption DEF OneRegisters, HalvesHaveWriters, Registers,
     Capability!CapabilitiesInit, Capability!Nothing, Capability!Idle
<1>3. FoundIsRegistered
  BY DEF FoundIsRegistered, Capability!CapabilitiesInit, Capability!NoAsk
<1>. QED  BY <1>1, <1>2, <1>3 DEF CapabilityInv

\* Another process than a is at id.
LEMMA BeyondRegisters ==
    ASSUME CapabilityTypes, NEW a \in Threads, NEW id \in CapabilityIds
    PROVE  Capability!Beyond(a, id) <=> \E b \in Threads \ {a} : Registers(b, id)
<1>1. \A b \in Threads : admins[b] \in AdminStates
  BY DEF CapabilityTypes
<1>2. \A b \in Threads : /\ admins[b].at \in {"idle", "absent", "write"}
                         /\ admins[b] = [at |-> admins[b].at, id |-> admins[b].id]
  BY <1>1 DEF AdminStates
<1>3. ASSUME NEW b \in Threads
      PROVE  (\/ admins[b] = [at |-> "absent", id |-> id]
              \/ admins[b] = [at |-> "write", id |-> id]) <=> Registers(b, id)
  <2>. DEFINE mine == admins[b]
  <2>1. /\ mine.at \in {"idle", "absent", "write"}
        /\ mine = [at |-> mine.at, id |-> mine.id]
    BY <1>2
  <2>. HIDE DEF mine
  <2>2. (\/ mine = [at |-> "absent", id |-> id]
         \/ mine = [at |-> "write", id |-> id]) <=> mine.at # "idle" /\ mine.id = id
    BY <2>1
  <2>. QED  BY <2>2 DEF Registers, mine
<1>. QED  BY <1>3 DEF Capability!Beyond

LEMMA RegisterKeeps ==
    ASSUME CapabilityInv, NEW a \in Threads, NEW id \in CapabilityIds,
           NEW spec \in Specifications, Capability!Register(a, id, spec)
    PROVE  CapabilityInv'
<1>. USE DEF CapabilityInv
<1>1. /\ capabilities' = capabilities /\ registered' = registered /\ ask' = ask
      /\ killed' = killed /\ evidence' = evidence /\ UNCHANGED ask
      /\ admins[a] = [at |-> "idle", id |-> "none"]
      /\ admins' = [admins EXCEPT ![a] = [at |-> "absent", id |-> id]]
      /\ together' = together \cup {i \in {id} : Capability!Beyond(a, id)}
      /\ capabilities[id] = "nothing"
  BY DEF Capability!Register, Capability!Idle, Capability!Unregistered, Capability!Nothing
<1>2. CapabilityTypes'
  BY <1>1 DEF CapabilityTypes, AdminStates
<1>3. \A b \in Threads \ {a} : admins'[b] = admins[b]
  BY <1>1 DEF CapabilityTypes
<1>4. admins'[a].at = "absent" /\ admins'[a].id = id
  BY <1>1 DEF CapabilityTypes
<1>5. OneRegisters'
  <2>. SUFFICES ASSUME NEW j \in CapabilityIds, j \notin together'
                PROVE  /\ \A b, c \in Threads : Registers(b, j)' /\ Registers(c, j)' => b = c
                       /\ \A b \in Threads : Registers(b, j)' => registered'[j] = "nothing"
                       /\ registered'[j] # "nothing" => capabilities'[j] = registered'[j]
    BY DEF OneRegisters
  <2>1. j \notin together
    BY <1>1
  <2>2. j = id => \A b \in Threads \ {a} : ~Registers(b, id)
    BY <1>1, BeyondRegisters
  <2>3. registered[id] = "nothing" \/ id \in together
    BY <1>1, AdminsAssumption DEF OneRegisters
  <2>. QED  BY <1>1, <1>3, <1>4, <2>1, <2>2, <2>3 DEF OneRegisters, Registers
<1>6. HalvesHaveWriters'
  <2>1. \A b \in Threads : admins[b].at = "write" => b # a
    BY <1>1
  <2>2. together' = {} => together = {}
    BY <1>1
  <2>. QED  BY <1>1, <1>3, <2>1, <2>2 DEF HalvesHaveWriters
<1>7. FoundIsRegistered'
  BY <1>1 DEF FoundIsRegistered, Registered, Capability!Permitted, Capability!ValidMapping
<1>. QED  BY <1>2, <1>5, <1>6, <1>7

LEMMA OpenFileKeeps ==
    ASSUME CapabilityInv, NEW a \in Threads, Capability!OpenFile(a)
    PROVE  CapabilityInv'
<1>. USE DEF CapabilityInv
<1>1. /\ registered' = registered /\ ask' = ask /\ together' = together
      /\ killed' = killed /\ evidence' = evidence
      /\ admins[a].at = "absent" /\ admins' = [admins EXCEPT ![a].at = "write"]
      /\ capabilities' = [capabilities EXCEPT ![admins[a].id] = "half"]
  BY DEF Capability!OpenFile, Capability!Half
<1>2. admins[a].id \in CapabilityIds /\ admins[a] \in AdminStates
  BY <1>1 DEF CapabilityTypes
<1>3. /\ admins'[a].at = "write" /\ admins'[a].id = admins[a].id
      /\ \A b \in Threads \ {a} : admins'[b] = admins[b]
      /\ admins' \in [Threads -> AdminStates]
  BY <1>1, <1>2 DEF CapabilityTypes, AdminStates
<1>4. CapabilityTypes'
  BY <1>1, <1>2, <1>3 DEF CapabilityTypes, Contents
<1>5. \A id \in CapabilityIds \ {admins[a].id} : capabilities'[id] = capabilities[id]
  BY <1>1, <1>2 DEF CapabilityTypes
<1>6. capabilities'[admins[a].id] = "half"
  BY <1>1, <1>2 DEF CapabilityTypes
<1>7. \A b \in Threads, id \in CapabilityIds : Registers(b, id)' <=> Registers(b, id)
  BY <1>1, <1>3 DEF Registers
<1>8. OneRegisters'
  <2>1. admins[a].id \in together \/ registered[admins[a].id] = "nothing"
    BY <1>1, <1>2 DEF OneRegisters, Registers
  <2>. QED  BY <1>1, <1>5, <1>7, <2>1 DEF OneRegisters
<1>9. HalvesHaveWriters'
  <2>1. \A b \in Threads : admins[b].at = "write" => b # a
    BY <1>1
  <2>2. "half" \notin Threads
    BY AdminsAssumption
  <2>. QED  BY <1>1, <1>3, <1>5, <1>6, <2>1, <2>2 DEF HalvesHaveWriters
<1>10. FoundIsRegistered'
  BY <1>1 DEF FoundIsRegistered, Registered, Capability!Permitted, Capability!ValidMapping
<1>. QED  BY <1>4, <1>8, <1>9, <1>10

LEMMA WriteSpecKeeps ==
    ASSUME CapabilityInv, NEW a \in Threads, Capability!WriteSpec(a)
    PROVE  CapabilityInv'
<1>. USE DEF CapabilityInv
<1>. DEFINE mine == admins[a].id
<1>1. /\ ask' = ask /\ together' = together /\ killed' = killed /\ evidence' = evidence
      /\ admins[a].at = "write"
      /\ admins' = [admins EXCEPT ![a] = [at |-> "idle", id |-> "none"]]
      /\ registered' = [registered EXCEPT ![mine] = a]
  BY DEF Capability!WriteSpec, Capability!Idle, Capability!Writing
<1>2. PICK content \in {a} \cup {h \in {"half"} : Capability!Beyond(a, mine)} :
        capabilities' = [capabilities EXCEPT ![mine] = content]
  BY DEF Capability!WriteSpec, Capability!Half
<1>3. mine \in CapabilityIds
  BY <1>1 DEF CapabilityTypes
<1>4. content = a \/ (content = "half" /\ \E b \in Threads \ {a} : Registers(b, mine))
  BY <1>2, <1>3, BeyondRegisters
<1>5. /\ capabilities'[mine] = content /\ registered'[mine] = a
      /\ \A id \in CapabilityIds \ {mine} : /\ capabilities'[id] = capabilities[id]
                                            /\ registered'[id] = registered[id]
  BY <1>1, <1>2, <1>3 DEF CapabilityTypes
<1>6. /\ admins'[a].at = "idle"
      /\ \A b \in Threads \ {a} : admins'[b] = admins[b]
  BY <1>1 DEF CapabilityTypes
<1>7. CapabilityTypes'
  <2>1. content \in Contents
    BY <1>4 DEF Contents
  <2>2. [at |-> "idle", id |-> "none"] \in AdminStates
    BY DEF AdminStates
  <2>3. admins' \in [Threads -> AdminStates]
    BY <1>1, <2>2 DEF CapabilityTypes
  <2>4. /\ capabilities' \in [CapabilityIds -> Contents]
        /\ registered' \in [CapabilityIds -> Threads \cup {"nothing"}]
    BY <1>1, <1>2, <1>3, <2>1 DEF CapabilityTypes
  <2>. QED  BY <1>1, <1>6, <2>3, <2>4 DEF CapabilityTypes
<1>8. a # "nothing" /\ a # "half"
  BY AdminsAssumption
<1>9. mine \in together \/ \A b \in Threads \ {a} : ~Registers(b, mine)
  BY <1>1, <1>3 DEF OneRegisters, Registers
<1>10. OneRegisters'
  <2>. SUFFICES ASSUME NEW id \in CapabilityIds \ together
                PROVE  /\ \A b, c \in Threads : Registers(b, id)' /\ Registers(c, id)' => b = c
                       /\ \A b \in Threads : Registers(b, id)' => registered'[id] = "nothing"
                       /\ registered'[id] # "nothing" => capabilities'[id] = registered'[id]
    BY <1>1 DEF OneRegisters
  <2>1. \A b \in Threads : Registers(b, id)' => Registers(b, id) /\ b # a
    BY <1>6 DEF Registers
  <2>2. CASE id = mine
    BY <1>4, <1>5, <1>9, <2>1, <2>2
  <2>3. CASE id # mine
    BY <1>5, <2>1, <2>3 DEF OneRegisters
  <2>. QED  BY <2>2, <2>3
<1>11. HalvesHaveWriters'
  <2>1. ASSUME killed = {}, together = {}, NEW id \in CapabilityIds, capabilities'[id] = "half"
        PROVE  \E b \in Threads : admins'[b].at = "write" /\ admins'[b].id = id
    <3>1. id # mine
      BY <1>4, <1>5, <1>8, <1>9, <2>1
    <3>2. PICK b \in Threads : admins[b].at = "write" /\ admins[b].id = id
      BY <1>5, <2>1, <3>1 DEF HalvesHaveWriters
    <3>. QED  BY <1>6, <3>1, <3>2
  <2>2. \A id \in CapabilityIds : capabilities'[id] \in Threads => registered'[id] # "nothing"
    BY <1>5, <1>8 DEF HalvesHaveWriters
  <2>. QED  BY <1>1, <2>1, <2>2 DEF HalvesHaveWriters
<1>12. FoundIsRegistered'
  <2>1. \A id \in CapabilityIds : registered[id] # "nothing" => registered'[id] # "nothing"
    BY <1>5, <1>8
  <2>. QED  BY <1>1, <2>1 DEF FoundIsRegistered, Registered, Capability!Permitted,
                 Capability!ValidMapping
<1>. QED  BY <1>7, <1>10, <1>11, <1>12

LEMMA KillRegistrarKeeps ==
    ASSUME CapabilityInv, NEW a \in Threads, Capability!Kill(a)
    PROVE  CapabilityInv'
<1>. USE DEF CapabilityInv
<1>1. /\ ask' = ask /\ together' = together /\ evidence' = evidence
      /\ capabilities' = capabilities /\ registered' = registered
      /\ admins' = [admins EXCEPT ![a] = [at |-> "idle", id |-> "none"]]
      /\ killed' # {}
  BY DEF Capability!Kill, Capability!Idle
<1>2. /\ admins'[a].at = "idle"
      /\ \A b \in Threads \ {a} : admins'[b] = admins[b]
  BY <1>1 DEF CapabilityTypes
<1>3. CapabilityTypes'
  BY <1>1 DEF CapabilityTypes, AdminStates
<1>4. OneRegisters' /\ HalvesHaveWriters'
  BY <1>1, <1>2 DEF OneRegisters, HalvesHaveWriters, Registers
<1>5. FoundIsRegistered'
  BY <1>1 DEF FoundIsRegistered, Registered, Capability!Permitted, Capability!ValidMapping
<1>. QED  BY <1>3, <1>4, <1>5

LEMMA AskKeeps ==
    ASSUME CapabilityInv,
           \/ \E id \in CapabilityIds, action \in Asked : Capability!Ask(id, action)
           \/ Capability!Authorize \/ Capability!NextAsk \/ Capability!Deploy
    PROVE  CapabilityInv'
<1>. USE DEF CapabilityInv
<1>1. UNCHANGED <<capabilities, admins, registered, together, killed>>
  BY DEF Capability!Ask, Capability!Authorize, Capability!NextAsk, Capability!Deploy
<1>2. OneRegisters' /\ HalvesHaveWriters'
  BY <1>1 DEF OneRegisters, HalvesHaveWriters, Registers
<1>3. ASSUME NEW id \in CapabilityIds, NEW action \in Asked, Capability!Ask(id, action)
      PROVE  ask' \in Asks /\ FoundIsRegistered'
  <2>1. Capability!Lookup(id) = "found" => Registered(id)
    <3>1. capabilities[id] \in Contents
      BY DEF CapabilityTypes
    <3>. QED  BY <3>1 DEF Capability!Lookup, Capability!Half, Capability!Nothing, Registered,
                  HalvesHaveWriters, Contents
  <2>2. CASE Capability!Lookup(id) = "found"
    <3>1. ask' = [at |-> "found", id |-> id, action |-> action, answer |-> "none"]
      BY <1>3, <2>2 DEF Capability!Ask, Capability!NoAsk
    <3>. QED  BY <1>1, <2>1, <2>2, <3>1 DEF Asks, FoundIsRegistered, Registered
  <2>3. CASE Capability!Lookup(id) # "found"
    <3>1. PICK said \in {"CAPABILITY_NOT_FOUND", "raised"} :
            ask' = [at |-> "answered", id |-> id, action |-> "none", answer |-> said]
      BY <1>3, <2>3 DEF Capability!Ask, Capability!NoAsk
    <3>. QED  BY <3>1 DEF Asks, FoundIsRegistered
  <2>. QED  BY <2>2, <2>3
<1>4. ASSUME Capability!Authorize PROVE ask' \in Asks /\ FoundIsRegistered'
  <2>. DEFINE said == IF Capability!Permitted(ask.id, ask.action) THEN "authorized"
                      ELSE "MAPPING_NOT_FOUND"
  <2>1. ask \in Asks /\ ask.at = "found" /\ Registered(ask.id)
    BY <1>4 DEF CapabilityTypes, FoundIsRegistered, Capability!Authorize
  <2>2. ask' = [at |-> "answered", id |-> ask.id, action |-> ask.action, answer |-> said]
    BY <1>4, <2>1 DEF Capability!Authorize, Asks
  <2>3. evidence' = evidence /\ said \in {"authorized", "MAPPING_NOT_FOUND"}
    BY <1>4 DEF Capability!Authorize
  <2>4. said = "authorized" => Capability!Permitted(ask.id, ask.action)
    OBVIOUS
  <2>. HIDE DEF said
  <2>5. ask' \in Asks
    BY <2>1, <2>2, <2>3 DEF Asks
  <2>6. Capability!Permitted(ask.id, ask.action)' <=> Capability!Permitted(ask.id, ask.action)
    BY <2>2, <2>3 DEF Capability!Permitted, Capability!ValidMapping
  <2>7. Registered(ask.id)'
    BY <1>1, <2>1, <2>2 DEF Registered
  <2>. QED  BY <2>2, <2>3, <2>4, <2>5, <2>6, <2>7 DEF FoundIsRegistered
<1>5. ASSUME Capability!NextAsk PROVE ask' \in Asks /\ FoundIsRegistered'
  BY <1>5 DEF Capability!NextAsk, Capability!NoAsk, Asks, FoundIsRegistered
<1>6. ASSUME Capability!Deploy PROVE ask' \in Asks /\ FoundIsRegistered'
  <2>1. CASE ask.at = "answered"
    BY <1>6, <2>1 DEF Capability!Deploy, Capability!NoAsk, Asks, FoundIsRegistered
  <2>2. CASE ask.at # "answered"
    <3>1. ask' = ask /\ ask \in Asks /\ ask.answer = "none"
      BY <1>6, <2>2 DEF Capability!Deploy, FoundIsRegistered, CapabilityTypes, Asks
    <3>. QED  BY <1>1, <2>2, <3>1 DEF FoundIsRegistered, Registered
  <2>. QED  BY <2>1, <2>2
<1>7. ask' \in Asks /\ FoundIsRegistered'
  BY <1>3, <1>4, <1>5, <1>6
<1>8. CapabilityTypes'
  BY <1>1, <1>7 DEF CapabilityTypes
<1>. QED  BY <1>2, <1>7, <1>8

LEMMA CapabilityInvStep ==
    CapabilityInv /\ [Capability!CapabilitiesNext]_capabilityVars => CapabilityInv'
<1>1. ASSUME CapabilityInv, UNCHANGED capabilityVars PROVE CapabilityInv'
  <2>1. UNCHANGED <<capabilities, admins, registered, together, killed, evidence, ask>>
    BY <1>1 DEF capabilityVars
  <2>2. CapabilityTypes' /\ OneRegisters' /\ HalvesHaveWriters'
    BY <1>1, <2>1 DEF CapabilityInv, CapabilityTypes, OneRegisters, HalvesHaveWriters, Registers
  <2>3. FoundIsRegistered'
    BY <1>1, <2>1 DEF CapabilityInv, FoundIsRegistered, Registered, Capability!Permitted,
       Capability!ValidMapping
  <2>. QED  BY <2>2, <2>3 DEF CapabilityInv
<1>2. ASSUME CapabilityInv, Capability!CapabilitiesNext PROVE CapabilityInv'
  BY <1>2, RegisterKeeps, OpenFileKeeps, WriteSpecKeeps, KillRegistrarKeeps, AskKeeps
     DEF Capability!CapabilitiesNext
<1>. QED  BY <1>1, <1>2

LEMMA CapabilityInvShows ==
    CapabilityInv =>
        Capability!OnlyOverlapSpoilsCapabilities /\ Capability!AuthorizedIsRegistered
<1>. SUFFICES ASSUME CapabilityInv
              PROVE  /\ Capability!OnlyOverlapSpoilsCapabilities
                     /\ Capability!AuthorizedIsRegistered
  OBVIOUS
<1>1. \A id \in CapabilityIds \ together :
        registered[id] # "nothing" => capabilities[id] = registered[id]
  BY DEF CapabilityInv, OneRegisters
<1>2. Capability!DiscoverRaises => Capability!Writing # {} \/ killed # {} \/ together # {}
  BY DEF CapabilityInv, HalvesHaveWriters, Capability!DiscoverRaises, Capability!Writing,
     Capability!Half
<1>3. \A id \in CapabilityIds : Capability!Shown(id) > 1 => id \in VanaIds
  BY DEF Capability!Shown
<1>4. Capability!AuthorizedIsRegistered
  BY DEF CapabilityInv, FoundIsRegistered, Registered, Capability!AuthorizedIsRegistered,
     Capability!Nothing
<1>. QED  BY <1>1, <1>2, <1>3, <1>4
          DEF Capability!OnlyOverlapSpoilsCapabilities, Capability!Nothing

----------------------------------------------------------------------------
(* The repository of action requests. *)

Observed == Executions \cup {NoExecution}
Requests == [obs : Observed]
Rulings == {"abstention", "action_request_eligible"}
Stages == {"govern", "abstain", "verify", "search", "append", "failed"}
Deliveries == {[pc |-> "idle"]} \cup [pc : {"failed"}, obs : Observed]
              \cup [pc : Stages, kind : Rulings, obs : Observed]

RequestTypes ==
    /\ repository \in Seq(Requests)
    /\ unended => repository # <<>>
    /\ delivery \in [Threads -> Deliveries]

\* Delivery d searched for a record of o in vain and has yet to append it.
Appends(d, o) == delivery[d].pc = "append" /\ delivery[d].obs = o

\* Of an observation that was searched by one delivery at a time, one appends,
\* and only while there is no record.
OneRequest ==
    \A o \in Executions \ overlapped :
        /\ \A c, d \in Threads : Appends(c, o) /\ Appends(d, o) => c = d
        /\ (\E d \in Threads : Appends(d, o)) => \A i \in DOMAIN repository : repository[i].obs # o
        /\ \A i, j \in DOMAIN repository :
              repository[i].obs = o /\ repository[j].obs = o => i = j

IntakeInv == RequestTypes /\ OneRequest

LEMMA IntakeInvInit == Intake!Init => IntakeInv
<1>. SUFFICES ASSUME Intake!Init PROVE IntakeInv
  OBVIOUS
<1>1. /\ repository = <<>> /\ unended = FALSE
      /\ delivery = [d \in Threads |-> [pc |-> "idle"]]
  BY DEF Intake!Init, Intake!Idle
<1>2. RequestTypes
  BY <1>1 DEF RequestTypes, Deliveries
<1>3. OneRequest
  BY <1>1 DEF OneRequest, Appends
<1>. QED  BY <1>2, <1>3 DEF IntakeInv

\* A delivery at a place keeps its observation when it moves on.
LEMMA DeliveryMoves ==
    ASSUME NEW d \in Deliveries, d.pc # "idle", NEW p \in Stages, d.pc # "failed"
    PROVE  /\ [d EXCEPT !.pc = p] \in Deliveries
           /\ [d EXCEPT !.pc = p].pc = p /\ [d EXCEPT !.pc = p].obs = d.obs
           /\ d.obs \in Observed
<1>1. d \in [pc : Stages, kind : Rulings, obs : Observed]
  BY DEF Deliveries
<1>. QED  BY <1>1 DEF Deliveries

\* What keeps the files and who appends to them keeps the invariant.
LEMMA NoAppendKeeps ==
    ASSUME IntakeInv, UNCHANGED <<repository, unended, overlapped>>,
           delivery' \in [Threads -> Deliveries],
           \A d \in Threads, o \in Executions : Appends(d, o)' => Appends(d, o)
    PROVE  IntakeInv'
<1>1. RequestTypes'
  BY DEF IntakeInv, RequestTypes
<1>2. OneRequest'
  BY DEF IntakeInv, OneRequest
<1>. QED  BY <1>1, <1>2 DEF IntakeInv

LEMMA PostKeeps ==
    ASSUME IntakeInv, NEW d \in Threads, NEW o \in Observed, NEW ruling, NEW eligible, NEW abstain,
           Intake!Post(d, o, ruling, eligible, abstain)
    PROVE  IntakeInv'
<1>1. UNCHANGED <<repository, unended, overlapped>>
  BY DEF Intake!Post, Intake!files
<1>2. PICK new \in Deliveries :
        delivery' = [delivery EXCEPT ![d] = new] /\ new.pc # "append"
  <2>. DEFINE kind == Intake!Translate(ruling, eligible, abstain)
  <2>1. kind \in Rulings \cup {"error"}
    BY DEF Intake!Translate, Rulings
  <2>2. delivery' = [delivery EXCEPT ![d] =
            IF kind = "error" THEN [pc |-> "failed", obs |-> o]
            ELSE [pc |-> "govern", kind |-> kind, obs |-> o]]
    BY DEF Intake!Post
  <2>. HIDE DEF kind
  <2>3. CASE kind = "error"
    <3>1. [pc |-> "failed", obs |-> o] \in Deliveries
      BY DEF Deliveries
    <3>. QED  BY <2>2, <2>3, <3>1
  <2>4. CASE kind # "error"
    <3>1. [pc |-> "govern", kind |-> kind, obs |-> o] \in Deliveries
      BY <2>1, <2>4 DEF Deliveries, Stages
    <3>. QED  BY <2>2, <2>4, <3>1
  <2>. QED  BY <2>3, <2>4
<1>3. delivery \in [Threads -> Deliveries]
  BY DEF IntakeInv, RequestTypes
<1>4. \A c \in Threads, x \in Executions : Appends(c, x)' => Appends(c, x)
  BY <1>2, <1>3 DEF Appends
<1>. QED  BY <1>1, <1>2, <1>3, <1>4, NoAppendKeeps

LEMMA MoveKeeps ==
    ASSUME IntakeInv, NEW d \in Threads,
           \/ Intake!Govern(d) \/ Intake!Abstain(d) \/ Intake!VerifyLineage(d)
           \/ Intake!Fail(d)
    PROVE  IntakeInv'
<1>1. UNCHANGED <<repository, unended, overlapped>>
  BY DEF Intake!Govern, Intake!Abstain, Intake!VerifyLineage, Intake!Fail, Intake!files
<1>2. delivery \in [Threads -> Deliveries] /\ delivery[d] \in Deliveries
  BY DEF IntakeInv, RequestTypes
<1>3. \E new \in Deliveries : delivery' = [delivery EXCEPT ![d] = new] /\ new.pc # "append"
  <2>1. CASE Intake!Abstain(d) \/ Intake!Fail(d)
    BY <2>1 DEF Intake!Abstain, Intake!Fail, Intake!Idle, Deliveries
  <2>2. CASE Intake!Govern(d) \/ Intake!VerifyLineage(d)
    <3>1. PICK p \in {"abstain", "verify", "search", "failed"} :
            /\ delivery' = [delivery EXCEPT ![d].pc = p]
            /\ delivery[d].pc \in {"govern", "verify"}
      BY <2>2 DEF Intake!Govern, Intake!VerifyLineage
    <3>2. p \in Stages /\ delivery[d].pc # "idle" /\ delivery[d].pc # "failed"
      BY <3>1 DEF Stages
    <3>3. /\ [delivery[d] EXCEPT !.pc = p] \in Deliveries
          /\ [delivery[d] EXCEPT !.pc = p].pc = p
      BY <1>2, <3>2, DeliveryMoves
    <3>. QED  BY <3>1, <3>3
  <2>. QED  BY <2>1, <2>2
<1>4. PICK new \in Deliveries : delivery' = [delivery EXCEPT ![d] = new] /\ new.pc # "append"
  BY <1>3
<1>5. \A c \in Threads, x \in Executions : Appends(c, x)' => Appends(c, x)
  BY <1>2, <1>4 DEF Appends
<1>. QED  BY <1>1, <1>2, <1>4, <1>5, NoAppendKeeps

LEMMA SearchKeeps ==
    ASSUME IntakeInv, NEW d \in Threads, Intake!Search(d)
    PROVE  IntakeInv'
<1>. PICK o : o = delivery[d].obs
  OBVIOUS
<1>. DEFINE found == Intake!Retrieve(o)
<1>1. delivery \in [Threads -> Deliveries] /\ delivery[d] \in Deliveries
  BY DEF IntakeInv, RequestTypes
<1>2. delivery[d].pc = "search" /\ UNCHANGED <<repository, unended>>
  BY DEF Intake!Search, Intake!files
<1>3. CASE found # "none"
  <2>1. found \in {"raises", "found"}
    BY <1>3 DEF Intake!Retrieve
  <2>2. overlapped' = overlapped
    BY <1>3 DEF Intake!Search
  <2>3. \E new \in Deliveries : delivery' = [delivery EXCEPT ![d] = new] /\ new.pc # "append"
    <3>1. CASE found = "found"
      <4>1. delivery' = [delivery EXCEPT ![d] = [pc |-> "idle"]]
        BY <3>1 DEF Intake!Search, Intake!Idle
      <4>2. [pc |-> "idle"] \in Deliveries
        BY DEF Deliveries
      <4>. QED  BY <4>1, <4>2
    <3>2. CASE found = "raises"
      <4>1. delivery' = [delivery EXCEPT ![d] = [delivery[d] EXCEPT !.pc = "failed"]]
        BY <3>2 DEF Intake!Search
      <4>2. /\ [delivery[d] EXCEPT !.pc = "failed"] \in Deliveries
            /\ [delivery[d] EXCEPT !.pc = "failed"].pc = "failed"
        BY <1>1, <1>2, DeliveryMoves DEF Stages
      <4>. QED  BY <4>1, <4>2
    <3>. QED  BY <2>1, <3>1, <3>2
  <2>4. PICK new \in Deliveries : delivery' = [delivery EXCEPT ![d] = new] /\ new.pc # "append"
    BY <2>3
  <2>5. \A c \in Threads, x \in Executions : Appends(c, x)' => Appends(c, x)
    BY <1>1, <2>4 DEF Appends
  <2>. QED  BY <1>1, <1>2, <2>2, <2>4, <2>5, NoAppendKeeps
<1>4. CASE found = "none"
  <2>1. \A i \in DOMAIN repository : repository[i].obs # o
    <3>1. Intake!Places(o) = {}
      BY <1>4 DEF Intake!Retrieve
    <3>. QED  BY <3>1 DEF Intake!Places
  <2>2. delivery' = [delivery EXCEPT ![d] = [delivery[d] EXCEPT !.pc = "append"]]
    BY <1>4 DEF Intake!Search
  <2>3. overlapped' = IF Intake!Busy(o) # {} THEN overlapped \cup {o} ELSE overlapped
    BY <1>4 DEF Intake!Search
  <2>. HIDE DEF found
  <2>4. /\ [delivery[d] EXCEPT !.pc = "append"] \in Deliveries
        /\ [delivery[d] EXCEPT !.pc = "append"].pc = "append"
        /\ [delivery[d] EXCEPT !.pc = "append"].obs = o
    BY <1>1, <1>2, DeliveryMoves DEF Stages
  <2>5. /\ delivery' \in [Threads -> Deliveries]
        /\ delivery'[d].pc = "append" /\ delivery'[d].obs = o
        /\ \A c \in Threads \ {d} : delivery'[c] = delivery[c]
    BY <1>1, <2>2, <2>4
  <2>6. RequestTypes'
    BY <1>2, <2>5 DEF IntakeInv, RequestTypes
  <2>7. o \in overlapped' \/ \A c \in Threads : ~Appends(c, o)
    BY <2>3 DEF Intake!Busy, Appends
  <2>8. \A c \in Threads, x \in Executions \ {o} : Appends(c, x)' => Appends(c, x)
    BY <2>5 DEF Appends
  <2>9. \A c \in Threads : Appends(c, o)' => c = d \/ Appends(c, o)
    BY <2>5 DEF Appends
  <2>10. \A x \in Executions \ overlapped' : x \notin overlapped
    BY <2>3
  <2>11. OneRequest'
    <3>. SUFFICES ASSUME NEW x \in Executions \ overlapped'
                  PROVE  /\ \A b, c \in Threads : Appends(b, x)' /\ Appends(c, x)' => b = c
                         /\ (\E c \in Threads : Appends(c, x)') =>
                                \A i \in DOMAIN repository : repository[i].obs # x
                         /\ \A i, j \in DOMAIN repository :
                               repository[i].obs = x /\ repository[j].obs = x => i = j
      BY <1>2 DEF OneRequest
    <3>1. CASE x = o
      BY <2>1, <2>7, <2>9, <3>1
    <3>2. CASE x # o
      BY <2>8, <2>10, <3>2 DEF IntakeInv, OneRequest
    <3>. QED  BY <3>1, <3>2
  <2>. QED  BY <2>6, <2>11 DEF IntakeInv
<1>. QED  BY <1>3, <1>4

\* A write adds its record at the end, or spoils the last line instead.
LEMMA WrittenSays ==
    ASSUME RequestTypes, NEW record \in Requests
    PROVE  /\ Intake!Written(record) \in Seq(Requests) \ {<<>>}
           /\ \A i \in DOMAIN Intake!Written(record) :
                 \/ Intake!Written(record)[i].obs = NoExecution
                 \/ i \in DOMAIN repository /\ Intake!Written(record)[i] = repository[i]
                 \/ i = Len(repository) + 1 /\ Intake!Written(record)[i] = record
<1>. DEFINE junk == [obs |-> NoExecution]
<1>1. repository \in Seq(Requests) /\ junk \in Requests
  BY DEF RequestTypes, Requests, Observed
<1>2. CASE unended
  <2>1. Intake!Written(record) = [repository EXCEPT ![Len(repository)] = junk]
    BY <1>2 DEF Intake!Written, Intake!Junk
  <2>2. repository # <<>>
    BY <1>2 DEF RequestTypes
  <2>. QED  BY <1>1, <2>1, <2>2
<1>3. CASE ~unended
  <2>1. Intake!Written(record) = Append(repository, record)
    BY <1>3 DEF Intake!Written
  <2>. QED  BY <1>1, <2>1
<1>. QED  BY <1>2, <1>3

LEMMA AppendKeeps ==
    ASSUME IntakeInv, NEW d \in Threads, Intake!AppendRecord(d) \/ Intake!AppendFails(d)
    PROVE  IntakeInv'
<1>. DEFINE o == delivery[d].obs
            mine == [obs |-> o]
            junk == [obs |-> NoExecution]
<1>1. /\ delivery \in [Threads -> Deliveries] /\ delivery[d] \in Deliveries
      /\ RequestTypes /\ repository \in Seq(Requests)
  BY DEF IntakeInv, RequestTypes
<1>2. delivery[d].pc = "append" /\ overlapped' = overlapped
  BY DEF Intake!AppendRecord, Intake!AppendFails
<1>3. o \in Observed
  BY <1>1, <1>2, DeliveryMoves DEF Stages
<1>4. PICK record \in {mine, junk} : repository' = Intake!Written(record)
  BY DEF Intake!AppendRecord, Intake!AppendFails, Intake!Junk
<1>5. record \in Requests /\ record.obs \in {o, NoExecution}
  BY <1>3, <1>4 DEF Requests, Observed
<1>6. /\ repository' \in Seq(Requests) \ {<<>>}
      /\ \A i \in DOMAIN repository' :
            \/ repository'[i].obs = NoExecution
            \/ i \in DOMAIN repository /\ repository'[i] = repository[i]
            \/ i = Len(repository) + 1 /\ repository'[i].obs = o
  BY <1>1, <1>4, <1>5, WrittenSays
<1>7. \E new \in Deliveries : delivery' = [delivery EXCEPT ![d] = new] /\ new.pc # "append"
  <2>1. CASE Intake!AppendRecord(d)
    <3>1. delivery' = [delivery EXCEPT ![d] = [pc |-> "idle"]]
      BY <2>1 DEF Intake!AppendRecord, Intake!Idle
    <3>2. [pc |-> "idle"] \in Deliveries
      BY DEF Deliveries
    <3>. QED  BY <3>1, <3>2
  <2>2. CASE Intake!AppendFails(d)
    <3>1. delivery' = [delivery EXCEPT ![d].pc = "failed"]
      BY <2>2 DEF Intake!AppendFails
    <3>2. /\ [delivery[d] EXCEPT !.pc = "failed"] \in Deliveries
          /\ [delivery[d] EXCEPT !.pc = "failed"].pc = "failed"
      BY <1>1, <1>2, DeliveryMoves DEF Stages
    <3>. QED  BY <3>1, <3>2
  <2>. QED  BY <2>1, <2>2
<1>. HIDE DEF o, mine, junk
<1>8. PICK new \in Deliveries : delivery' = [delivery EXCEPT ![d] = new] /\ new.pc # "append"
  BY <1>7
<1>9. /\ delivery' \in [Threads -> Deliveries]
      /\ \A c \in Threads, x \in Executions : Appends(c, x)' => c # d /\ Appends(c, x)
  BY <1>1, <1>8 DEF Appends
<1>10. RequestTypes'
  BY <1>6, <1>9 DEF RequestTypes
<1>11. OneRequest'
  <2>. SUFFICES ASSUME NEW x \in Executions \ overlapped
                PROVE  /\ \A b, c \in Threads : Appends(b, x)' /\ Appends(c, x)' => b = c
                       /\ (\E c \in Threads : Appends(c, x)') =>
                              \A i \in DOMAIN repository' : repository'[i].obs # x
                       /\ \A i, j \in DOMAIN repository' :
                             repository'[i].obs = x /\ repository'[j].obs = x => i = j
    BY <1>2 DEF OneRequest
  <2>1. x # NoExecution
    BY LineageJournalAssumption
  <2>2. /\ \A b, c \in Threads : Appends(b, x) /\ Appends(c, x) => b = c
        /\ (\E c \in Threads : Appends(c, x)) =>
               \A i \in DOMAIN repository : repository[i].obs # x
        /\ \A i, j \in DOMAIN repository :
               repository[i].obs = x /\ repository[j].obs = x => i = j
    BY DEF IntakeInv, OneRequest
  <2>3. CASE x = o
    <3>1. Appends(d, x)
      BY <1>2, <2>3 DEF Appends, o
    <3>2. \A c \in Threads : ~Appends(c, x)'
      BY <1>9, <2>2, <3>1
    <3>3. \A i \in DOMAIN repository' : repository'[i].obs = x => i = Len(repository) + 1
      BY <1>6, <2>1, <2>2, <3>1
    <3>. QED  BY <3>2, <3>3
  <2>4. CASE x # o
    <3>1. \A i \in DOMAIN repository' : repository'[i].obs = x =>
              i \in DOMAIN repository /\ repository[i].obs = x
      BY <1>6, <2>1, <2>4
    <3>. QED  BY <1>9, <2>2, <3>1
  <2>. QED  BY <2>3, <2>4
<1>. QED  BY <1>10, <1>11 DEF IntakeInv

LEMMA IntakeInvStep == IntakeInv /\ [Intake!Next]_intakeVars => IntakeInv'
<1>1. ASSUME IntakeInv, UNCHANGED intakeVars PROVE IntakeInv'
  <2>1. UNCHANGED <<repository, unended, overlapped, delivery>>
    BY <1>1 DEF intakeVars
  <2>. QED  BY <1>1, <2>1 DEF IntakeInv, RequestTypes, OneRequest, Appends
<1>2. ASSUME IntakeInv, Intake!Next PROVE IntakeInv'
  <2>1. PICK d \in Threads :
          \/ \E o \in Observed, ruling \in Intake!Rulings, eligible, abstain \in BOOLEAN :
                Intake!Post(d, o, ruling, eligible, abstain)
          \/ Intake!Process(d)
    BY <1>2 DEF Intake!Next, Observed
  <2>2. CASE Intake!Process(d)
    BY <1>2, <2>2, MoveKeeps, SearchKeeps, AppendKeeps DEF Intake!Process
  <2>. QED  BY <1>2, <2>1, <2>2, PostKeeps
<1>. QED  BY <1>1, <1>2

LEMMA IntakeInvShows == IntakeInv => Intake!OnlyOverlapRepeatsRequests
<1>. SUFFICES ASSUME IntakeInv, NEW o \in Executions \ overlapped
              PROVE  Cardinality(Intake!RecordsOf(o)) <= 1
  BY DEF Intake!OnlyOverlapRepeatsRequests, Intake!Cardinality, Cardinality
<1>1. \A i, j \in Intake!RecordsOf(o) : i = j
  BY DEF IntakeInv, OneRequest, Intake!RecordsOf
<1>2. CASE Intake!RecordsOf(o) = {}
  BY <1>2, FS_EmptySet
<1>3. CASE Intake!RecordsOf(o) # {}
  <2>1. PICK i : Intake!RecordsOf(o) = {i}
    BY <1>1, <1>3
  <2>2. Cardinality({i}) = 1
    BY FS_Singleton
  <2>. QED  BY <2>1, <2>2
<1>. QED  BY <1>2, <1>3

----------------------------------------------------------------------------
(* The bus over Redis. *)

BusPatterns == {Patterned[c] : c \in Callbacks}
BusKnown == {p \in BusPatterns : redisSubscribers[p] # {}}
ListenerStates == [at : {"wait", "dispatch", "ending", "ended"}, event : Published \cup {"none"},
                   left : SUBSET BusPatterns, size : Nat]
SubscribingStates == {"no", "registered", "subscribed", "starting", "done", "refused"}

BusTypes ==
    /\ redisConnected \in BOOLEAN /\ redisRunning \in BOOLEAN
    /\ redisSubscribers \in [BusPatterns -> SUBSET Callbacks]
    /\ redisWire \in Seq(Published)
    /\ redisListeners \in Seq(ListenerStates)
    /\ redisSubscribing \in [Callbacks -> SubscribingStates]
    /\ redisCalls \in [Callbacks -> [Published -> Nat]]

\* A callback is under its own pattern, which it is from its registration on,
\* and the server knows no pattern that the process does not.
PatternsKnown ==
    /\ \A p \in BusPatterns : \A c \in redisSubscribers[p] : p = Patterned[c]
    /\ \A c \in Callbacks :
          redisSubscribing[c] # "no" => c \in redisSubscribers[Patterned[c]]
    /\ redisServer \subseteq BusKnown

\* Nothing happened that ends a listener, or starts two.
Quiet == redisConnected /\ ~(redisStopped \/ redisBroken \/ redisLate \/ redisRaced)
Starting == {c \in Callbacks : redisSubscribing[c] = "starting"}

\* Until a callback is subscribed there is no listener, then one, and a pass over
\* the patterns began with those there are.
OneListens ==
    /\ Quiet =>
          \/ /\ redisListeners = <<>> /\ redisRunning = FALSE
             /\ \A c \in Callbacks : redisSubscribing[c] # "done"
             /\ \A c, d \in Starting : c = d
          \/ /\ Len(redisListeners) = 1 /\ redisRunning = TRUE
             /\ redisListeners[1].at \in {"wait", "dispatch"}
             /\ Starting = {}
    /\ redisLate \in BOOLEAN
    /\ ~redisLate => \A t \in DOMAIN redisListeners :
          redisListeners[t].at = "dispatch" => redisListeners[t].size = Cardinality(BusKnown)

\* No pattern but that of c matches e.
Alone(c, e) == \A p \in BusKnown \ {Patterned[c]} : ~Redis!Matches(p, e)

\* Listener t is going to hand e to c.
Holds(t, c, e) == /\ redisListeners[t].at = "dispatch" /\ redisListeners[t].event = e
                  /\ Patterned[c] \in redisListeners[t].left
Called(c, e) == redisCalls[c][e] > 0

\* What is on the wire or handed out was published; of an event that one pattern
\* matches there is one copy, on the wire or with a listener, or one call.
CalledOnce ==
    /\ \A i \in DOMAIN redisWire : redisWire[i] \in redisHistory
    /\ \A t \in DOMAIN redisListeners :
          redisListeners[t].at = "dispatch" => redisListeners[t].event \in redisHistory
    /\ \A c \in Callbacks, e \in Published :
          /\ Called(c, e) => e \in redisHistory
          /\ Alone(c, e) =>
                /\ redisCalls[c][e] <= 1
                /\ \A i, j \in DOMAIN redisWire : redisWire[i] = e /\ redisWire[j] = e => i = j
                /\ (\E i \in DOMAIN redisWire : redisWire[i] = e) =>
                       /\ ~Called(c, e)
                       /\ \A t \in DOMAIN redisListeners : ~Holds(t, c, e)
                /\ \A t, u \in DOMAIN redisListeners :
                       Holds(t, c, e) => ~Called(c, e) /\ (Holds(u, c, e) => t = u)

BusInv == BusTypes /\ PatternsKnown /\ OneListens /\ CalledOnce

LEMMA RedisCardinality == \A S : Redis!Cardinality(S) = Cardinality(S)
BY Zenon DEF Redis!Cardinality, Cardinality

LEMMA RedisSets ==
    /\ Redis!Patterns = BusPatterns /\ Redis!Known = BusKnown
    /\ Redis!Idle = [at |-> "wait", event |-> "none", left |-> {}, size |-> 0]
BY DEF Redis!Patterns, BusPatterns, Redis!Known, BusKnown, Redis!Idle

LEMMA PatternsFinite ==
    /\ IsFiniteSet(BusPatterns) /\ IsFiniteSet(BusKnown)
    /\ Cardinality(BusKnown) \in Nat
<1>1. IsFiniteSet(BusPatterns)
  <2>. DEFINE own == [c \in Callbacks |-> Patterned[c]]
  <2>1. own \in Surjection(Callbacks, BusPatterns)
    BY DEF Surjection, BusPatterns
  <2>. QED  BY <2>1, CallbacksAssumption, FS_Surjection
<1>2. BusKnown \subseteq BusPatterns
  BY DEF BusKnown
<1>3. IsFiniteSet(BusKnown)
  BY <1>1, <1>2, FS_Subset
<1>. QED  BY <1>1, <1>3, FS_CardinalityType

LEMMA BusInvInit == Redis!BusInit => BusInv
<1>. SUFFICES ASSUME Redis!BusInit PROVE BusInv
  OBVIOUS
<1>1. /\ redisConnected \in BOOLEAN /\ redisRunning = FALSE
      /\ redisSubscribers = [p \in BusPatterns |-> {}]
      /\ redisWire = <<>> /\ redisListeners = <<>> /\ redisServer = {}
      /\ redisSubscribing = [c \in Callbacks |-> "no"]
      /\ redisCalls = [c \in Callbacks |-> [e \in Published |-> 0]]
      /\ redisLate = FALSE
  BY RedisSets DEF Redis!BusInit
<1>2. BusTypes
  <2>1. <<>> \in Seq(Published) /\ <<>> \in Seq(ListenerStates)
    OBVIOUS
  <2>2. redisSubscribers \in [BusPatterns -> SUBSET Callbacks]
    BY <1>1
  <2>3. redisSubscribing \in [Callbacks -> SubscribingStates]
    BY <1>1 DEF SubscribingStates
  <2>4. redisCalls \in [Callbacks -> [Published -> Nat]]
    BY <1>1
  <2>. QED  BY <1>1, <2>1, <2>2, <2>3, <2>4 DEF BusTypes
<1>3. PatternsKnown
  BY <1>1 DEF PatternsKnown
<1>4. OneListens
  <2>1. Starting = {} /\ DOMAIN redisListeners = {}
    BY <1>1 DEF Starting
  <2>. QED  BY <1>1, <2>1 DEF OneListens
<1>5. CalledOnce
  BY <1>1 DEF CalledOnce, Called
<1>. QED  BY <1>2, <1>3, <1>4, <1>5 DEF BusInv

\* What leaves the messages and calls alone, and hands nothing new to anybody,
\* keeps that each is called once.
LEMMA NothingHanded ==
    ASSUME CalledOnce, UNCHANGED <<redisHistory, redisWire, redisCalls>>,
           BusKnown \subseteq BusKnown',
           \A t \in DOMAIN redisListeners' : redisListeners'[t].at = "dispatch" =>
               /\ t \in DOMAIN redisListeners
               /\ redisListeners[t].at = "dispatch"
               /\ redisListeners'[t].event = redisListeners[t].event
               /\ redisListeners'[t].left \subseteq redisListeners[t].left
    PROVE  CalledOnce'
<1>1. \A c \in Callbacks, e \in Published : Alone(c, e)' => Alone(c, e)
  BY DEF Alone, Redis!Matches
<1>2. \A c \in Callbacks, e \in Published : Called(c, e)' <=> Called(c, e)
  BY DEF Called
<1>3. \A c \in Callbacks, e \in Published : \A t \in DOMAIN redisListeners' :
          Holds(t, c, e)' => t \in DOMAIN redisListeners /\ Holds(t, c, e)
  BY DEF Holds
<1>4. \A i \in DOMAIN redisWire' : redisWire'[i] \in redisHistory'
  BY DEF CalledOnce
<1>5. \A t \in DOMAIN redisListeners' :
          redisListeners'[t].at = "dispatch" => redisListeners'[t].event \in redisHistory'
  BY DEF CalledOnce
<1>6. ASSUME NEW c \in Callbacks, NEW e \in Published
      PROVE  /\ Called(c, e)' => e \in redisHistory'
             /\ Alone(c, e)' =>
                  /\ redisCalls'[c][e] <= 1
                  /\ \A i, j \in DOMAIN redisWire' :
                         redisWire'[i] = e /\ redisWire'[j] = e => i = j
                  /\ (\E i \in DOMAIN redisWire' : redisWire'[i] = e) =>
                         /\ ~Called(c, e)'
                         /\ \A t \in DOMAIN redisListeners' : ~Holds(t, c, e)'
                  /\ \A t, u \in DOMAIN redisListeners' :
                         Holds(t, c, e)' => ~Called(c, e)' /\ (Holds(u, c, e)' => t = u)
  BY <1>1, <1>2, <1>3 DEF CalledOnce
<1>. QED  BY <1>4, <1>5, <1>6 DEF CalledOnce

LEMMA PublishKeeps ==
    ASSUME BusInv, NEW e \in Published, Redis!Publish(e) \/ Redis!PublishFails(e)
    PROVE  BusInv'
<1>. USE DEF BusInv
<1>1. /\ e \notin redisHistory /\ redisHistory' = redisHistory \cup {e}
      /\ UNCHANGED <<redisConnected, redisSubscribers, redisServer, redisRunning,
                     redisListeners, redisSubscribing, redisCalls, redisStopped, redisBroken,
                     redisLate, redisRaced>>
  BY DEF Redis!Publish, Redis!PublishFails
<1>2. BusKnown' = BusKnown /\ Starting' = Starting
  BY <1>1 DEF BusKnown, Starting
<1>. DEFINE copies_ == Redis!Copies(e)
<1>3. /\ copies_ \in Seq(Published)
      /\ \A i \in DOMAIN copies_ : copies_[i] = e
      /\ \A c \in Callbacks : Alone(c, e) => Len(copies_) <= 1
  <2>. DEFINE S == {p \in redisServer : Redis!Matches(p, e)}
  <2>1. S \subseteq BusKnown /\ IsFiniteSet(S) /\ Cardinality(S) \in Nat
    <3>1. S \subseteq BusKnown
      BY DEF PatternsKnown
    <3>. QED  BY <3>1, PatternsFinite, FS_Subset, FS_CardinalityType
  <2>2. copies_ = [i \in 1..Cardinality(S) |-> e]
    BY RedisCardinality DEF Redis!Copies
  <2>3. ASSUME NEW c \in Callbacks, Alone(c, e) PROVE Cardinality(S) <= 1
    <3>1. S \subseteq {Patterned[c]}
      BY <2>1, <2>3 DEF Alone
    <3>2. IsFiniteSet({Patterned[c]}) /\ Cardinality({Patterned[c]}) = 1
      BY FS_Singleton
    <3>. QED  BY <3>1, <3>2, FS_Subset
  <2>. HIDE DEF S
  <2>4. copies_ \in Seq(Published) /\ Len(copies_) = Cardinality(S)
    BY <2>1, <2>2
  <2>. QED  BY <2>1, <2>2, <2>3, <2>4
<1>4. \/ redisWire' = redisWire
      \/ redisWire' = redisWire \o copies_
  BY DEF Redis!Publish, Redis!PublishFails
<1>5. redisWire \in Seq(Published)
  BY DEF BusTypes
<1>. HIDE DEF copies_
<1>6. /\ redisWire' \in Seq(Published)
      /\ \A i \in DOMAIN redisWire' :
            \/ i \in DOMAIN redisWire /\ redisWire'[i] = redisWire[i]
            \/ redisWire'[i] = e /\ i > Len(redisWire)
                  /\ i <= Len(redisWire) + Len(copies_)
  <2>1. CASE redisWire' = redisWire
    BY <1>5, <2>1
  <2>2. CASE redisWire' = redisWire \o copies_
    <3>1. /\ redisWire' \in Seq(Published)
          /\ Len(redisWire') = Len(redisWire) + Len(copies_)
          /\ \A i \in 1..Len(redisWire) + Len(copies_) : redisWire'[i] =
                IF i <= Len(redisWire) THEN redisWire[i] ELSE copies_[i - Len(redisWire)]
      BY <1>3, <1>5, <2>2, ConcatProperties
    <3>2. Len(redisWire) \in Nat /\ Len(copies_) \in Nat
          /\ DOMAIN redisWire = 1..Len(redisWire) /\ DOMAIN copies_ = 1..Len(copies_)
          /\ DOMAIN redisWire' = 1..Len(redisWire')
      BY <1>3, <1>5, <3>1
    <3>3. ASSUME NEW i \in DOMAIN redisWire'
          PROVE  \/ i \in DOMAIN redisWire /\ redisWire'[i] = redisWire[i]
                 \/ /\ redisWire'[i] = e /\ i > Len(redisWire)
                    /\ i <= Len(redisWire) + Len(copies_)
      <4>1. i \in 1..Len(redisWire) + Len(copies_) /\ i \in Nat
        BY <3>1, <3>2
      <4>2. CASE i <= Len(redisWire)
        BY <3>1, <3>2, <4>1, <4>2
      <4>3. CASE i > Len(redisWire)
        <5>1. i - Len(redisWire) \in DOMAIN copies_
          BY <3>2, <4>1, <4>3
        <5>2. redisWire'[i] = copies_[i - Len(redisWire)]
          BY <3>1, <3>2, <4>1, <4>3
        <5>. QED  BY <1>3, <4>1, <4>3, <5>1, <5>2
      <4>. QED  BY <3>2, <4>1, <4>2, <4>3
    <3>. QED  BY <3>1, <3>3
  <2>. QED  BY <1>4, <2>1, <2>2
<1>7. BusTypes'
  BY <1>1, <1>6 DEF BusTypes
<1>8. PatternsKnown'
  BY <1>1, <1>2 DEF PatternsKnown
<1>9. OneListens'
  BY <1>1, <1>2 DEF OneListens, Quiet
<1>10. CalledOnce'
  <2>1. \A c \in Callbacks, x \in Published :
           /\ Alone(c, x)' <=> Alone(c, x)
           /\ Called(c, x)' <=> Called(c, x)
           /\ \A t \in DOMAIN redisListeners : Holds(t, c, x)' <=> Holds(t, c, x)
    BY <1>1, <1>2 DEF Alone, Called, Holds, Redis!Matches
  <2>2. \A i \in DOMAIN redisWire' : redisWire'[i] \in redisHistory'
    BY <1>1, <1>6 DEF CalledOnce
  <2>3. \A t \in DOMAIN redisListeners' :
          redisListeners'[t].at = "dispatch" => redisListeners'[t].event \in redisHistory'
    BY <1>1 DEF CalledOnce
  <2>4. \A c \in Callbacks : /\ ~Called(c, e)
                             /\ \A t \in DOMAIN redisListeners : ~Holds(t, c, e)
    BY <1>1 DEF CalledOnce, Holds
  <2>5. \A i \in DOMAIN redisWire : redisWire[i] # e
    BY <1>1 DEF CalledOnce
  <2>6. Len(redisWire) \in Nat /\ Len(copies_) \in Nat
    BY <1>3, <1>5
  <2>7. ASSUME NEW c \in Callbacks, NEW x \in Published
        PROVE  /\ Called(c, x)' => x \in redisHistory'
               /\ Alone(c, x)' =>
                  /\ redisCalls'[c][x] <= 1
                  /\ \A i, j \in DOMAIN redisWire' :
                         redisWire'[i] = x /\ redisWire'[j] = x => i = j
                  /\ (\E i \in DOMAIN redisWire' : redisWire'[i] = x) =>
                         /\ ~Called(c, x)'
                         /\ \A t \in DOMAIN redisListeners' : ~Holds(t, c, x)'
                  /\ \A t, u \in DOMAIN redisListeners' :
                         Holds(t, c, x)' => ~Called(c, x)' /\ (Holds(u, c, x)' => t = u)
    <3>1. CASE x # e
      <4>1. \A i \in DOMAIN redisWire' : redisWire'[i] = x =>
               i \in DOMAIN redisWire /\ redisWire[i] = x
        BY <1>6, <3>1
      <4>. QED  BY <1>1, <2>1, <4>1 DEF CalledOnce
    <3>2. CASE x = e
      <4>1. Alone(c, x) => \A i, j \in DOMAIN redisWire' :
                redisWire'[i] = x /\ redisWire'[j] = x => i = j
        <5>. SUFFICES ASSUME Alone(c, x), NEW i \in DOMAIN redisWire', NEW j \in DOMAIN redisWire',
                             redisWire'[i] = x, redisWire'[j] = x
                      PROVE  i = j
          OBVIOUS
        <5>1. Len(copies_) <= 1
          BY <1>3, <3>2
        <5>2. i \in Nat /\ j \in Nat
          BY <1>6
        <5>. QED  BY <1>6, <2>5, <2>6, <3>2, <5>1, <5>2
      <4>2. Alone(c, x) => redisCalls'[c][x] <= 1
        BY <1>1 DEF CalledOnce
      <4>. QED  BY <1>1, <2>1, <2>4, <3>2, <4>1, <4>2
    <3>. QED  BY <3>1, <3>2
  <2>. QED  BY <2>2, <2>3, <2>7 DEF CalledOnce
<1>. QED  BY <1>7, <1>8, <1>9, <1>10

LEMMA RegisterCallbackKeeps ==
    ASSUME BusInv, NEW c \in Callbacks, Redis!Register(c)
    PROVE  BusInv'
<1>. USE DEF BusInv
<1>. DEFINE mine == Patterned[c]
<1>1. /\ redisSubscribing[c] = "no"
      /\ redisSubscribers' = [redisSubscribers EXCEPT ![mine] = @ \cup {c}]
      /\ redisSubscribing' = [redisSubscribing EXCEPT
              ![c] = IF redisConnected THEN "registered" ELSE "done"]
      /\ UNCHANGED <<redisConnected, redisHistory, redisServer, redisWire, redisRunning,
                     redisListeners, redisCalls, redisStopped, redisBroken, redisRaced>>
  BY DEF Redis!Register, Redis!Step
<1>2. redisLate' = (redisLate \/ (Redis!Dispatching # {} /\ mine \notin BusKnown))
  BY RedisSets DEF Redis!Register
<1>3. mine \in BusPatterns
  BY DEF BusPatterns
<1>4. /\ redisSubscribers' \in [BusPatterns -> SUBSET Callbacks]
      /\ redisSubscribers'[mine] = redisSubscribers[mine] \cup {c}
      /\ \A p \in BusPatterns \ {mine} : redisSubscribers'[p] = redisSubscribers[p]
  BY <1>1, <1>3 DEF BusTypes
<1>5. BusKnown' = BusKnown \cup {mine}
  BY <1>3, <1>4 DEF BusKnown
<1>6. /\ redisSubscribing' \in [Callbacks -> SubscribingStates]
      /\ redisSubscribing'[c] = (IF redisConnected THEN "registered" ELSE "done")
      /\ \A d \in Callbacks \ {c} : redisSubscribing'[d] = redisSubscribing[d]
  BY <1>1 DEF BusTypes, SubscribingStates
<1>7. BusTypes'
  BY <1>1, <1>4, <1>6 DEF BusTypes
<1>8. PatternsKnown'
  BY <1>1, <1>4, <1>5, <1>6 DEF PatternsKnown, BusPatterns
<1>9. OneListens'
  <2>1. Starting' = Starting
    BY <1>1, <1>6 DEF Starting
  <2>2. Quiet' => Quiet /\ redisSubscribing'[c] = "registered"
    BY <1>1, <1>2, <1>6 DEF Quiet, OneListens
  <2>3. ~redisLate' => ~redisLate /\ (mine \in BusKnown \/
             \A t \in DOMAIN redisListeners : redisListeners[t].at # "dispatch")
    BY <1>2 DEF Redis!Dispatching, Redis!Alive
  <2>4. redisLate' \in BOOLEAN
    BY <1>2 DEF OneListens
  <2>5. ~redisLate' => \A t \in DOMAIN redisListeners' :
          redisListeners'[t].at = "dispatch" => redisListeners'[t].size = Cardinality(BusKnown)'
    <3>1. mine \in BusKnown => BusKnown' = BusKnown
      BY <1>5
    <3>. QED  BY <1>1, <2>3, <3>1 DEF OneListens
  <2>6. Quiet' =>
          \/ /\ redisListeners' = <<>> /\ redisRunning' = FALSE
             /\ \A d \in Callbacks : redisSubscribing'[d] # "done"
             /\ \A d, b \in Starting' : d = b
          \/ /\ Len(redisListeners') = 1 /\ redisRunning' = TRUE
             /\ redisListeners'[1].at \in {"wait", "dispatch"}
             /\ Starting' = {}
    BY <1>1, <1>6, <2>1, <2>2 DEF OneListens
  <2>. QED  BY <2>4, <2>5, <2>6 DEF OneListens
<1>10. CalledOnce'
  BY <1>1, <1>5, NothingHanded
<1>. QED  BY <1>7, <1>8, <1>9, <1>10

LEMMA SubscribeKeeps ==
    ASSUME BusInv, NEW c \in Callbacks,
           Redis!SubscribeAtServer(c) \/ Redis!SubscribeFails(c) \/ Redis!CheckFlag(c)
    PROVE  BusInv'
<1>. USE DEF BusInv
<1>1. /\ UNCHANGED <<redisConnected, redisHistory, redisSubscribers, redisWire, redisRunning,
                     redisListeners, redisCalls, redisStopped, redisBroken, redisLate>>
      /\ redisSubscribing[c] \in {"registered", "subscribed"}
  BY DEF Redis!SubscribeAtServer, Redis!SubscribeFails, Redis!CheckFlag
<1>2. PICK new \in SubscribingStates \ {"no"} :
        redisSubscribing' = [redisSubscribing EXCEPT ![c] = new]
  BY DEF Redis!SubscribeAtServer, Redis!SubscribeFails, Redis!CheckFlag, Redis!Step,
         SubscribingStates
<1>3. /\ redisSubscribing' \in [Callbacks -> SubscribingStates]
      /\ redisSubscribing'[c] = new
      /\ \A d \in Callbacks \ {c} : redisSubscribing'[d] = redisSubscribing[d]
  BY <1>2 DEF BusTypes
<1>4. BusKnown' = BusKnown
  BY <1>1 DEF BusKnown
<1>5. BusTypes'
  BY <1>1, <1>3 DEF BusTypes
<1>6. PatternsKnown'
  <2>1. Patterned[c] \in BusKnown
    BY <1>1 DEF PatternsKnown, BusKnown, BusPatterns
  <2>2. redisServer' \subseteq redisServer \cup {Patterned[c]}
    BY DEF Redis!SubscribeAtServer, Redis!SubscribeFails, Redis!CheckFlag
  <2>. QED  BY <1>1, <1>3, <1>4, <2>1, <2>2 DEF PatternsKnown
<1>7. OneListens'
  <2>1. CASE Redis!SubscribeAtServer(c) \/ Redis!SubscribeFails(c)
    <3>1. redisRaced' = redisRaced /\ redisSubscribing'[c] \in {"subscribed", "refused"}
      BY <2>1 DEF Redis!SubscribeAtServer, Redis!SubscribeFails, Redis!Step, BusTypes
    <3>0. redisSubscribing[c] = "registered"
      BY <2>1 DEF Redis!SubscribeAtServer, Redis!SubscribeFails
    <3>2. Starting' = Starting
      BY <1>1, <1>3, <3>0, <3>1 DEF Starting
    <3>3. Quiet' <=> Quiet
      BY <1>1, <3>1 DEF Quiet
    <3>. QED  BY <1>1, <1>3, <1>4, <3>1, <3>2, <3>3 DEF OneListens
  <2>2. CASE Redis!CheckFlag(c)
    <3>1. /\ redisRaced' = (redisRaced \/ (~redisRunning /\ Starting # {}))
          /\ redisSubscribing'[c] = IF redisRunning THEN "done" ELSE "starting"
      BY <2>2 DEF Redis!CheckFlag, Redis!Step, BusTypes, Starting
    <3>2. Quiet' => Quiet /\ (redisRunning \/ Starting = {})
      BY <1>1, <3>1 DEF Quiet
    <3>3. CASE redisRunning
      <4>1. Starting' = Starting
        BY <1>1, <1>3, <3>1, <3>3 DEF Starting
      <4>. QED  BY <1>1, <1>4, <3>2, <3>3, <4>1 DEF OneListens
    <3>4. CASE ~redisRunning
      <4>1. Starting = {} => Starting' = {c}
        BY <1>3, <3>1, <3>4 DEF Starting
      <4>. QED  BY <1>1, <1>3, <1>4, <3>1, <3>2, <3>4, <4>1 DEF OneListens
    <3>. QED  BY <3>3, <3>4
  <2>. QED  BY <2>1, <2>2
<1>8. CalledOnce'
  BY <1>1, <1>4, NothingHanded
<1>. QED  BY <1>5, <1>6, <1>7, <1>8

LEMMA StartListenerKeeps ==
    ASSUME BusInv, NEW c \in Callbacks, Redis!StartListener(c)
    PROVE  BusInv'
<1>. USE DEF BusInv
<1>. DEFINE idle == [at |-> "wait", event |-> "none", left |-> {}, size |-> 0]
<1>1. /\ UNCHANGED <<redisConnected, redisHistory, redisSubscribers, redisServer, redisWire,
                     redisCalls, redisStopped, redisBroken, redisLate, redisRaced>>
      /\ redisSubscribing[c] = "starting" /\ redisRunning' = TRUE
      /\ redisSubscribing' = [redisSubscribing EXCEPT ![c] = "done"]
      /\ redisListeners' = Append(redisListeners, idle)
  BY RedisSets DEF Redis!StartListener, Redis!Step
<1>2. /\ redisSubscribing' \in [Callbacks -> SubscribingStates]
      /\ redisSubscribing'[c] = "done"
      /\ \A d \in Callbacks \ {c} : redisSubscribing'[d] = redisSubscribing[d]
  BY <1>1 DEF BusTypes, SubscribingStates
<1>3. BusKnown' = BusKnown
  BY <1>1 DEF BusKnown
<1>4. redisListeners \in Seq(ListenerStates) /\ idle \in ListenerStates /\ idle.at = "wait"
  BY DEF BusTypes, ListenerStates
<1>. HIDE DEF idle
<1>5. /\ redisListeners' \in Seq(ListenerStates)
      /\ \A t \in DOMAIN redisListeners' :
            \/ t \in DOMAIN redisListeners /\ redisListeners'[t] = redisListeners[t]
            \/ redisListeners'[t] = idle
  BY <1>1, <1>4
<1>6. BusTypes'
  BY <1>1, <1>2, <1>5 DEF BusTypes
<1>7. PatternsKnown'
  BY <1>1, <1>2, <1>3 DEF PatternsKnown
<1>8. OneListens'
  <2>1. Quiet' => Quiet
    BY <1>1 DEF Quiet
  <2>2. Quiet' => redisListeners = <<>> /\ \A d \in Starting : d = c
    BY <1>1, <2>1 DEF OneListens, Starting
  <2>3. Quiet' => Starting' = {}
    BY <1>2, <2>2 DEF Starting
  <2>4. Quiet' => Len(redisListeners') = 1 /\ redisListeners'[1] = idle
    BY <1>1, <1>4, <2>2
  <2>. QED  BY <1>1, <1>3, <1>4, <1>5, <2>3, <2>4 DEF OneListens
<1>9. CalledOnce'
  BY <1>1, <1>3, <1>4, <1>5, NothingHanded
<1>. QED  BY <1>6, <1>7, <1>8, <1>9

LEMMA StopKeeps == ASSUME BusInv, Redis!Stop PROVE BusInv'
<1>. USE DEF BusInv
<1>1. /\ UNCHANGED <<redisConnected, redisHistory, redisSubscribers, redisListeners,
                     redisSubscribing, redisCalls, redisBroken, redisLate, redisRaced>>
      /\ redisStopped' = TRUE /\ redisRunning' = FALSE /\ redisServer' = {}
      /\ redisWire' = <<>>
  BY DEF Redis!Stop
<1>2. BusKnown' = BusKnown
  BY <1>1 DEF BusKnown
<1>3. BusTypes' /\ PatternsKnown'
  <2>1. BusTypes'
    BY <1>1, EmptySeq DEF BusTypes
  <2>2. PatternsKnown'
    BY <1>1, <1>2 DEF PatternsKnown
  <2>. QED  BY <2>1, <2>2
<1>5. OneListens'
  <2>1. ~Quiet'
    BY <1>1 DEF Quiet
  <2>. QED  BY <1>1, <1>2, <2>1 DEF OneListens
<1>4. CalledOnce'
  <2>1. \A c \in Callbacks, x \in Published :
           /\ Alone(c, x)' <=> Alone(c, x)
           /\ Called(c, x)' <=> Called(c, x)
           /\ \A t \in DOMAIN redisListeners : Holds(t, c, x)' <=> Holds(t, c, x)
    BY <1>1, <1>2 DEF Alone, Called, Holds, Redis!Matches
  <2>. QED  BY <1>1, <2>1 DEF CalledOnce
<1>. QED  BY <1>3, <1>4, <1>5

\* A listener that goes on, or ends, and nothing of it handed out.
LEMMA ListenerKeeps ==
    ASSUME BusInv, NEW t \in DOMAIN redisListeners, NEW place \in {"wait", "ending", "ended"},
           UNCHANGED <<redisConnected, redisHistory, redisSubscribers, redisServer, redisWire,
                       redisSubscribing, redisCalls, redisLate, redisRaced>>,
           redisRunning' \in BOOLEAN, redisBroken => redisBroken', redisStopped => redisStopped',
           redisListeners' = [redisListeners EXCEPT ![t].at = place],
           Quiet' => place = "wait" /\ redisRunning' = redisRunning
    PROVE  BusInv'
<1>. USE DEF BusInv
<1>1. BusKnown' = BusKnown /\ Starting' = Starting
  BY DEF BusKnown, Starting
<1>2. redisListeners \in Seq(ListenerStates) /\ redisListeners[t] \in ListenerStates
  BY DEF BusTypes
<1>3. /\ [redisListeners[t] EXCEPT !.at = place] \in ListenerStates
      /\ [redisListeners[t] EXCEPT !.at = place].at = place
  BY <1>2 DEF ListenerStates
<1>4. /\ redisListeners' \in Seq(ListenerStates) /\ Len(redisListeners') = Len(redisListeners)
      /\ redisListeners'[t].at = place
      /\ \A u \in DOMAIN redisListeners \ {t} : redisListeners'[u] = redisListeners[u]
      /\ DOMAIN redisListeners' = DOMAIN redisListeners
  <2>. DEFINE new == [redisListeners[t] EXCEPT !.at = place]
  <2>1. redisListeners' = [redisListeners EXCEPT ![t] = new] /\ new \in ListenerStates
        /\ new.at = place
    BY <1>3
  <2>. HIDE DEF new
  <2>2. t \in 1..Len(redisListeners)
    BY <1>2
  <2>3. /\ redisListeners' \in Seq(ListenerStates) /\ Len(redisListeners') = Len(redisListeners)
        /\ \A j \in 1..Len(redisListeners) :
              redisListeners'[j] = IF j = t THEN new ELSE redisListeners[j]
    BY SMTT(20), <1>2, <2>1, <2>2, ExceptSeq
  <2>. QED  BY <1>2, <2>1, <2>2, <2>3
<1>5. BusTypes' /\ PatternsKnown'
  BY <1>1, <1>4 DEF BusTypes, PatternsKnown
<1>6. OneListens'
  <2>1. Quiet' => Quiet
    BY DEF Quiet
  <2>2. Quiet' => Len(redisListeners') = 1 /\ redisListeners'[1].at \in {"wait", "dispatch"}
    <3>1. Quiet' => Len(redisListeners) = 1
      BY <1>2, <2>1 DEF OneListens
    <3>2. Quiet' => redisListeners[1].at \in {"wait", "dispatch"}
      BY SMTT(20), <2>1, <3>1, <1>2 DEF OneListens
    <3>3. t = 1 => redisListeners'[1].at = place
      BY <1>4
    <3>4. Quiet' => 1 \in DOMAIN redisListeners
      BY <1>2, <3>1
    <3>. QED  BY <1>4, <3>1, <3>2, <3>3, <3>4
  <2>3. Quiet' => redisListeners # <<>>
    BY <1>2
  <2>4. Quiet' => redisRunning' = TRUE /\ Starting' = {}
    BY <1>1, <2>1, <2>3 DEF OneListens
  <2>5. ~redisLate' => \A u \in DOMAIN redisListeners' :
          redisListeners'[u].at = "dispatch" => redisListeners'[u].size = Cardinality(BusKnown)'
    BY <1>1, <1>4 DEF OneListens
  <2>. QED  BY <2>2, <2>4, <2>5 DEF OneListens
<1>7. CalledOnce'
  BY <1>1, <1>4, NothingHanded
<1>. QED  BY <1>5, <1>6, <1>7

LEMMA TakeKeeps ==
    ASSUME BusInv, NEW t, Redis!Take(t)
    PROVE  BusInv'
<1>. USE DEF BusInv
<1>1. /\ t \in DOMAIN redisListeners /\ redisListeners[t].at = "wait" /\ redisWire # <<>>
      /\ redisWire' = Tail(redisWire)
      /\ UNCHANGED <<redisConnected, redisHistory, redisSubscribers, redisServer, redisRunning,
                     redisSubscribing, redisCalls, redisStopped, redisBroken, redisLate,
                     redisRaced>>
  BY DEF Redis!Take, Redis!Alive
<1>. DEFINE head == redisWire[1]
            taken_ == [at |-> "dispatch", event |-> head, left |-> BusKnown,
                       size |-> Cardinality(BusKnown)]
<1>2. redisListeners' = [redisListeners EXCEPT ![t] =
            IF redisRunning THEN taken_ ELSE [redisListeners[t] EXCEPT !.at = "ending"]]
  BY RedisSets, RedisCardinality DEF Redis!Take, Redis!At
<1>3. BusKnown' = BusKnown /\ Starting' = Starting
  BY <1>1 DEF BusKnown, Starting
<1>4. /\ redisListeners \in Seq(ListenerStates) /\ redisListeners[t] \in ListenerStates
      /\ redisWire \in Seq(Published) /\ head \in Published
  BY <1>1 DEF BusTypes
<1>5. taken_ \in ListenerStates /\ taken_.at = "dispatch" /\ taken_.event = head
      /\ taken_.size = Cardinality(BusKnown) /\ taken_.left = BusKnown
  BY <1>4, PatternsFinite DEF ListenerStates, BusKnown
<1>6. PICK new \in ListenerStates :
        /\ redisListeners' = [redisListeners EXCEPT ![t] = new]
        /\ \/ redisRunning /\ new = taken_
           \/ ~redisRunning /\ new.at = "ending"
  <2>1. /\ [redisListeners[t] EXCEPT !.at = "ending"] \in ListenerStates
        /\ [redisListeners[t] EXCEPT !.at = "ending"].at = "ending"
    BY <1>4 DEF ListenerStates
  <2>. QED  BY <1>2, <1>5, <2>1
<1>. HIDE DEF taken_
<1>7. /\ redisListeners' \in Seq(ListenerStates) /\ Len(redisListeners') = Len(redisListeners)
      /\ redisListeners'[t] = new /\ DOMAIN redisListeners' = DOMAIN redisListeners
      /\ \A u \in DOMAIN redisListeners \ {t} : redisListeners'[u] = redisListeners[u]
  BY <1>1, <1>4, <1>6
<1>8. /\ redisWire' \in Seq(Published)
      /\ \A i \in DOMAIN redisWire' : /\ i \in Nat /\ i + 1 \in DOMAIN redisWire
                                      /\ redisWire'[i] = redisWire[i + 1]
      /\ 1 \in DOMAIN redisWire
  BY <1>1, <1>4
<1>9. BusTypes'
  BY <1>1, <1>7, <1>8 DEF BusTypes
<1>10. PatternsKnown'
  BY <1>1, <1>3 DEF PatternsKnown
<1>11. OneListens'
  <2>1. Quiet' <=> Quiet
    BY <1>1 DEF Quiet
  <2>2. Quiet => Len(redisListeners) = 1 /\ redisRunning = TRUE /\ Starting = {}
    BY <1>1, <1>4 DEF OneListens
  <2>3. Quiet => t = 1 /\ new.at = "dispatch"
    BY <1>1, <1>4, <1>5, <1>6, <2>2
  <2>4. new.at = "dispatch" => new.size = Cardinality(BusKnown)
    BY <1>5, <1>6
  <2>. QED  BY <1>1, <1>3, <1>7, <2>1, <2>2, <2>3, <2>4 DEF OneListens
<1>12. CalledOnce'
  <2>1. \A c \in Callbacks, x \in Published :
           /\ Alone(c, x)' <=> Alone(c, x)
           /\ Called(c, x)' <=> Called(c, x)
           /\ \A u \in DOMAIN redisListeners \ {t} : Holds(u, c, x)' <=> Holds(u, c, x)
           /\ Holds(t, c, x)' => x = head
           /\ ~Holds(t, c, x)
    BY <1>1, <1>3, <1>5, <1>6, <1>7 DEF Alone, Called, Holds, Redis!Matches
  <2>2. \A i \in DOMAIN redisWire' : redisWire'[i] \in redisHistory'
    BY <1>1, <1>8 DEF CalledOnce
  <2>3. \A u \in DOMAIN redisListeners' :
          redisListeners'[u].at = "dispatch" => redisListeners'[u].event \in redisHistory'
    <3>1. head \in redisHistory
      BY <1>8 DEF CalledOnce
    <3>. QED  BY <1>1, <1>5, <1>6, <1>7, <3>1 DEF CalledOnce
  <2>4. ASSUME NEW c \in Callbacks, NEW x \in Published
        PROVE  /\ Called(c, x)' => x \in redisHistory'
               /\ Alone(c, x)' =>
                  /\ redisCalls'[c][x] <= 1
                  /\ \A i, j \in DOMAIN redisWire' :
                         redisWire'[i] = x /\ redisWire'[j] = x => i = j
                  /\ (\E i \in DOMAIN redisWire' : redisWire'[i] = x) =>
                         /\ ~Called(c, x)'
                         /\ \A u \in DOMAIN redisListeners' : ~Holds(u, c, x)'
                  /\ \A u, v \in DOMAIN redisListeners' :
                         Holds(u, c, x)' => ~Called(c, x)' /\ (Holds(v, c, x)' => u = v)
    <3>1. Called(c, x)' => x \in redisHistory'
      BY <1>1, <2>1 DEF CalledOnce
    <3>. SUFFICES ASSUME Alone(c, x)
                  PROVE  /\ redisCalls'[c][x] <= 1
                         /\ \A i, j \in DOMAIN redisWire' :
                                redisWire'[i] = x /\ redisWire'[j] = x => i = j
                         /\ (\E i \in DOMAIN redisWire' : redisWire'[i] = x) =>
                                /\ ~Called(c, x)'
                                /\ \A u \in DOMAIN redisListeners' : ~Holds(u, c, x)'
                         /\ \A u, v \in DOMAIN redisListeners' :
                                Holds(u, c, x)' => ~Called(c, x)' /\ (Holds(v, c, x)' => u = v)
      BY <2>1, <3>1
    <3>2. /\ redisCalls[c][x] <= 1
          /\ \A i, j \in DOMAIN redisWire : redisWire[i] = x /\ redisWire[j] = x => i = j
          /\ (\E i \in DOMAIN redisWire : redisWire[i] = x) =>
                 /\ ~Called(c, x)
                 /\ \A u \in DOMAIN redisListeners : ~Holds(u, c, x)
          /\ \A u, v \in DOMAIN redisListeners :
                 Holds(u, c, x) => ~Called(c, x) /\ (Holds(v, c, x) => u = v)
      BY DEF CalledOnce
    <3>3. \A i, j \in DOMAIN redisWire' : redisWire'[i] = x /\ redisWire'[j] = x => i = j
      <4>. SUFFICES ASSUME NEW i \in DOMAIN redisWire', NEW j \in DOMAIN redisWire',
                           redisWire'[i] = x, redisWire'[j] = x
                    PROVE  i = j
        OBVIOUS
      <4>1. i + 1 = j + 1
        BY <1>8, <3>2
      <4>. QED  BY <1>8, <4>1
    <3>4. CASE x = head
      <4>1. \A i \in DOMAIN redisWire' : redisWire'[i] # x
        BY <1>8, <3>2, <3>4
      <4>2. ~Called(c, x) /\ \A u \in DOMAIN redisListeners : ~Holds(u, c, x)
        BY <1>8, <3>2, <3>4
      <4>. QED  BY <1>1, <1>7, <2>1, <3>2, <3>3, <4>1, <4>2
    <3>5. CASE x # head
      <4>1. \A i \in DOMAIN redisWire' : redisWire'[i] = x =>
                \E j \in DOMAIN redisWire : redisWire[j] = x
        BY <1>8
      <4>2. \A u \in DOMAIN redisListeners' : Holds(u, c, x)' => u # t /\ Holds(u, c, x)
        BY <1>7, <2>1, <3>5
      <4>. QED  BY <1>1, <1>7, <2>1, <3>2, <3>3, <4>1, <4>2
    <3>. QED  BY <3>4, <3>5
  <2>. QED  BY <2>2, <2>3, <2>4 DEF CalledOnce
<1>. QED  BY <1>9, <1>10, <1>11, <1>12

LEMMA HandOutKeeps ==
    ASSUME BusInv, NEW t, Redis!HandOut(t)
    PROVE  BusInv'
<1>. USE DEF BusInv
<1>1. /\ t \in DOMAIN redisListeners /\ redisListeners[t].at = "dispatch"
      /\ UNCHANGED <<redisConnected, redisHistory, redisSubscribers, redisServer, redisWire,
                     redisRunning, redisSubscribing, redisStopped, redisBroken, redisLate,
                     redisRaced>>
  BY DEF Redis!HandOut, Redis!Dispatching, Redis!Alive
<1>2. BusKnown' = BusKnown /\ Starting' = Starting
  BY <1>1 DEF BusKnown, Starting
<1>3. /\ redisListeners \in Seq(ListenerStates) /\ redisListeners[t] \in ListenerStates
      /\ redisRunning \in BOOLEAN
  BY <1>1 DEF BusTypes
<1>4. CASE redisListeners[t].size # Cardinality(BusKnown)
  <2>1. /\ redisListeners' = [redisListeners EXCEPT ![t].at = "ending"]
        /\ redisCalls' = redisCalls
    BY <1>4, RedisSets, RedisCardinality DEF Redis!HandOut, Redis!At
  <2>2. ~Quiet'
    BY <1>1, <1>4 DEF Quiet, OneListens
  <2>. QED  BY <1>1, <1>3, <2>1, <2>2, ListenerKeeps
<1>5. CASE redisListeners[t].size = Cardinality(BusKnown) /\ redisListeners[t].left = {}
  <2>1. /\ redisListeners' = [redisListeners EXCEPT ![t].at = "wait"]
        /\ redisCalls' = redisCalls
    BY <1>5, RedisSets, RedisCardinality DEF Redis!HandOut, Redis!At
  <2>. QED  BY <1>1, <1>3, <2>1, ListenerKeeps
<1>6. CASE redisListeners[t].size = Cardinality(BusKnown) /\ redisListeners[t].left # {}
  <2>1. PICK p \in redisListeners[t].left :
          /\ redisListeners' = [redisListeners EXCEPT ![t].left = @ \ {p}]
          /\ redisCalls' = [c \in Callbacks |->
                    IF c \in redisSubscribers[p] /\ Redis!Matches(p, redisListeners[t].event)
                    THEN [redisCalls[c] EXCEPT ![redisListeners[t].event] = @ + 1]
                    ELSE redisCalls[c]]
    BY <1>6, RedisSets, RedisCardinality DEF Redis!HandOut
  <2>. DEFINE now == redisListeners[t].event
              next == [redisListeners[t] EXCEPT !.left = @ \ {p}]
  <2>2. /\ next \in ListenerStates /\ next.at = "dispatch" /\ next.event = now
        /\ next.left = redisListeners[t].left \ {p} /\ next.size = redisListeners[t].size
    BY <1>1, <1>3 DEF ListenerStates
  <2>3. redisListeners' = [redisListeners EXCEPT ![t] = next]
    BY <2>1
  <2>. HIDE DEF next
  <2>4. /\ redisListeners' \in Seq(ListenerStates) /\ Len(redisListeners') = Len(redisListeners)
        /\ redisListeners'[t] = next /\ DOMAIN redisListeners' = DOMAIN redisListeners
        /\ \A u \in DOMAIN redisListeners \ {t} : redisListeners'[u] = redisListeners[u]
    BY <1>1, <1>3, <2>2, <2>3
  <2>5. p \in BusPatterns
    BY <1>3, <2>1 DEF ListenerStates
  <2>6. \A c \in redisSubscribers[p] : c \in Callbacks /\ p = Patterned[c]
    BY <2>5 DEF BusTypes, PatternsKnown
  <2>7. now \in redisHistory
    BY <1>1 DEF CalledOnce
  <2>8. redisCalls \in [Callbacks -> [Published -> Nat]]
    BY DEF BusTypes
  <2>9. \A c \in Callbacks : redisCalls'[c] \in [Published -> Nat]
    <3>. SUFFICES ASSUME NEW c \in Callbacks PROVE redisCalls'[c] \in [Published -> Nat]
      OBVIOUS
    <3>1. redisCalls[c] \in [Published -> Nat]
      BY <2>8
    <3>2. now \in Published => [redisCalls[c] EXCEPT ![now] = @ + 1] \in [Published -> Nat]
      BY <3>1
    <3>3. now \notin Published => [redisCalls[c] EXCEPT ![now] = @ + 1] \in [Published -> Nat]
      BY <3>1
    <3>. QED  BY <2>1, <3>1, <3>2, <3>3
  <2>10. \A c \in Callbacks, x \in Published :
            \/ redisCalls'[c][x] = redisCalls[c][x]
            \/ /\ x = now /\ p = Patterned[c]
               /\ redisCalls'[c][x] = redisCalls[c][x] + 1
    <3>. SUFFICES ASSUME NEW c \in Callbacks, NEW x \in Published,
                         redisCalls'[c][x] # redisCalls[c][x]
                  PROVE  /\ x = now /\ p = Patterned[c]
                         /\ redisCalls'[c][x] = redisCalls[c][x] + 1
      OBVIOUS
    <3>1. /\ c \in redisSubscribers[p]
          /\ redisCalls'[c] = [redisCalls[c] EXCEPT ![now] = @ + 1]
      BY <2>1
    <3>2. redisCalls[c] \in [Published -> Nat]
      BY <2>8
    <3>3. x = now
      BY <3>1, <3>2
    <3>. QED  BY <2>6, <3>1, <3>2, <3>3
  <2>11. BusTypes'
    <3>1. redisCalls' \in [Callbacks -> [Published -> Nat]]
      BY <2>1, <2>9
    <3>. QED  BY <1>1, <1>2, <2>4, <3>1 DEF BusTypes
  <2>12. PatternsKnown'
    BY <1>1, <1>2 DEF PatternsKnown
  <2>13. OneListens'
    <3>1. Quiet' <=> Quiet
      BY <1>1 DEF Quiet
    <3>2. redisListeners # <<>>
      BY <1>1
    <3>3. Quiet => t = 1
      BY <1>1, <1>3, <3>2 DEF OneListens
    <3>. QED  BY <1>1, <1>2, <1>6, <2>2, <2>4, <3>1, <3>2, <3>3 DEF OneListens
  <2>14. CalledOnce'
    <3>1. \A c \in Callbacks, x \in Published :
             /\ Alone(c, x)' <=> Alone(c, x)
             /\ \A u \in DOMAIN redisListeners \ {t} : Holds(u, c, x)' <=> Holds(u, c, x)
             /\ Holds(t, c, x)' => Holds(t, c, x) /\ p # Patterned[c]
      BY <1>1, <1>2, <2>2, <2>4 DEF Alone, Holds, Redis!Matches
    <3>2. \A c \in Callbacks, x \in Published :
             \/ redisCalls'[c][x] = redisCalls[c][x] /\ (Called(c, x)' <=> Called(c, x))
             \/ /\ x = now /\ p = Patterned[c] /\ Holds(t, c, x)
                /\ redisCalls'[c][x] = redisCalls[c][x] + 1
      BY <1>1, <2>1, <2>10 DEF Called, Holds
    <3>3. \A i \in DOMAIN redisWire' : redisWire'[i] \in redisHistory'
      BY <1>1 DEF CalledOnce
    <3>4. \A u \in DOMAIN redisListeners' :
            redisListeners'[u].at = "dispatch" => redisListeners'[u].event \in redisHistory'
      BY <1>1, <2>2, <2>4, <2>7 DEF CalledOnce
    <3>5. ASSUME NEW c \in Callbacks, NEW x \in Published
          PROVE  /\ Called(c, x)' => x \in redisHistory'
                 /\ Alone(c, x)' =>
                    /\ redisCalls'[c][x] <= 1
                    /\ \A i, j \in DOMAIN redisWire' :
                           redisWire'[i] = x /\ redisWire'[j] = x => i = j
                    /\ (\E i \in DOMAIN redisWire' : redisWire'[i] = x) =>
                           /\ ~Called(c, x)'
                           /\ \A u \in DOMAIN redisListeners' : ~Holds(u, c, x)'
                    /\ \A u, v \in DOMAIN redisListeners' :
                           Holds(u, c, x)' => ~Called(c, x)' /\ (Holds(v, c, x)' => u = v)
      <4>1. Called(c, x)' => x \in redisHistory'
        BY <1>1, <2>7, <3>2 DEF CalledOnce
      <4>. SUFFICES ASSUME Alone(c, x)
                    PROVE  /\ redisCalls'[c][x] <= 1
                           /\ \A i, j \in DOMAIN redisWire' :
                                  redisWire'[i] = x /\ redisWire'[j] = x => i = j
                           /\ (\E i \in DOMAIN redisWire' : redisWire'[i] = x) =>
                                  /\ ~Called(c, x)'
                                  /\ \A u \in DOMAIN redisListeners' : ~Holds(u, c, x)'
                           /\ \A u, v \in DOMAIN redisListeners' :
                                  Holds(u, c, x)' =>
                                      ~Called(c, x)' /\ (Holds(v, c, x)' => u = v)
        BY <3>1, <4>1
      <4>2. /\ redisCalls[c][x] <= 1
            /\ \A i, j \in DOMAIN redisWire : redisWire[i] = x /\ redisWire[j] = x => i = j
            /\ (\E i \in DOMAIN redisWire : redisWire[i] = x) =>
                   /\ ~Called(c, x)
                   /\ \A u \in DOMAIN redisListeners : ~Holds(u, c, x)
            /\ \A u, v \in DOMAIN redisListeners :
                   Holds(u, c, x) => ~Called(c, x) /\ (Holds(v, c, x) => u = v)
        BY DEF CalledOnce
      <4>3. CASE redisCalls'[c][x] = redisCalls[c][x] /\ (Called(c, x)' <=> Called(c, x))
        <5>1. \A u \in DOMAIN redisListeners' : Holds(u, c, x)' => Holds(u, c, x)
          BY <2>4, <3>1
        <5>. QED  BY <1>1, <2>4, <4>2, <4>3, <5>1
      <4>4. CASE /\ x = now /\ p = Patterned[c] /\ Holds(t, c, x)
                 /\ redisCalls'[c][x] = redisCalls[c][x] + 1
        <5>1. redisCalls[c][x] \in Nat /\ ~(redisCalls[c][x] > 0)
          BY <1>1, <2>8, <4>2, <4>4 DEF Called
        <5>2. \A i \in DOMAIN redisWire : redisWire[i] # x
          BY <1>1, <4>2, <4>4
        <5>3. \A u \in DOMAIN redisListeners' : ~Holds(u, c, x)'
          BY <1>1, <2>4, <3>1, <4>2, <4>4
        <5>. QED  BY <1>1, <4>2, <4>4, <5>1, <5>2, <5>3
      <4>. QED  BY <3>2, <4>3, <4>4
    <3>. QED  BY <3>3, <3>4, <3>5 DEF CalledOnce
  <2>. QED  BY <2>11, <2>12, <2>13, <2>14
<1>. QED  BY <1>4, <1>5, <1>6

LEMMA EndKeeps ==
    ASSUME BusInv, NEW t, Redis!Break(t) \/ Redis!End(t)
    PROVE  BusInv'
<1>. USE DEF BusInv
<1>1. /\ t \in DOMAIN redisListeners
      /\ UNCHANGED <<redisConnected, redisHistory, redisSubscribers, redisServer, redisWire,
                     redisSubscribing, redisCalls, redisStopped, redisLate, redisRaced>>
  BY DEF Redis!Break, Redis!End, Redis!Alive
<1>2. redisRunning \in BOOLEAN
  BY DEF BusTypes
<1>3. CASE Redis!Break(t)
  <2>1. /\ redisListeners' = [redisListeners EXCEPT ![t].at = "ending"]
        /\ redisRunning' = redisRunning /\ (redisBroken => redisBroken')
        /\ redisStopped \/ redisBroken'
    BY <1>3 DEF Redis!Break, Redis!At
  <2>2. ~Quiet'
    BY <1>1, <2>1 DEF Quiet
  <2>. QED  BY <1>1, <1>2, <2>1, <2>2, ListenerKeeps
<1>4. CASE Redis!End(t)
  <2>1. /\ redisListeners' = [redisListeners EXCEPT ![t].at = "ended"]
        /\ redisRunning' = FALSE /\ redisBroken' = redisBroken
        /\ redisListeners[t].at = "ending"
    BY <1>4 DEF Redis!End, Redis!At
  <2>2. ~Quiet'
    <3>1. redisListeners # <<>> /\ redisListeners \in Seq(ListenerStates)
      BY <1>1 DEF BusTypes
    <3>2. Quiet => t = 1 /\ redisListeners[1].at # "ending"
      BY <1>1, <3>1 DEF OneListens
    <3>. QED  BY <1>1, <2>1, <3>2 DEF Quiet
  <2>. QED  BY <1>1, <1>2, <2>1, <2>2, ListenerKeeps
<1>. QED  BY <1>3, <1>4

LEMMA BusInvStep == BusInv /\ [Redis!BusNext]_redisVars => BusInv'
<1>1. ASSUME BusInv, UNCHANGED redisVars PROVE BusInv'
  <2>1. UNCHANGED <<redisConnected, redisHistory, redisSubscribers, redisServer, redisWire,
                    redisRunning, redisListeners, redisSubscribing, redisCalls, redisStopped,
                    redisBroken, redisRaced, redisLate>>
    BY <1>1 DEF redisVars
  <2>2. BusKnown' = BusKnown /\ Starting' = Starting /\ (Quiet' <=> Quiet)
    BY <2>1 DEF BusKnown, Starting, Quiet
  <2>3. BusTypes' /\ PatternsKnown' /\ OneListens'
    BY <1>1, <2>1, <2>2 DEF BusInv, BusTypes, PatternsKnown, OneListens
  <2>4. CalledOnce'
    BY <1>1, <2>1, <2>2, NothingHanded DEF BusInv
  <2>. QED  BY <2>3, <2>4 DEF BusInv
<1>2. ASSUME BusInv, Redis!BusNext PROVE BusInv'
  BY <1>2, PublishKeeps, RegisterCallbackKeeps, SubscribeKeeps, StartListenerKeeps, TakeKeeps,
     HandOutKeeps, EndKeeps, StopKeeps DEF Redis!BusNext
<1>. QED  BY <1>1, <1>2

LEMMA BusInvShows == BusInv => Redis!OnlyCausesSilenceTheBus
<1>. SUFFICES ASSUME BusInv PROVE Redis!OnlyCausesSilenceTheBus
  OBVIOUS
<1>1. ASSUME Quiet, NEW c \in Callbacks, redisSubscribing[c] = "done"
      PROVE  Cardinality(Redis!Alive) = 1
  <2>1. Len(redisListeners) = 1 /\ redisListeners[1].at \in {"wait", "dispatch"}
    BY <1>1 DEF BusInv, OneListens
  <2>2. redisListeners \in Seq(ListenerStates)
    BY DEF BusInv, BusTypes
  <2>3. Redis!Alive = {1}
    BY <2>1, <2>2 DEF Redis!Alive
  <2>4. Cardinality({1}) = 1
    BY FS_Singleton
  <2>. QED  BY <2>3, <2>4
<1>2. ASSUME NEW c \in Callbacks, NEW e \in Published, redisCalls[c][e] > 1
      PROVE  \E p \in BusKnown \ {Patterned[c]} : Redis!Matches(p, e)
  <2>1. redisCalls[c][e] \in Nat
    BY DEF BusInv, BusTypes
  <2>2. ~Alone(c, e)
    BY <1>2, <2>1 DEF BusInv, CalledOnce
  <2>. QED  BY <2>2 DEF Alone
<1>. QED  BY <1>1, <1>2, RedisSets, RedisCardinality DEF Redis!OnlyCausesSilenceTheBus, Quiet

----------------------------------------------------------------------------
(* The sovereign bus. *)

SovReplays == [copy : Seq(SovMessages), at : Nat \ {0}, heard : BOOLEAN]

SovTypes ==
    /\ sovRedis \in BOOLEAN
    /\ sovKept \in Seq(SovMessages)
    /\ sovPublishing \in [SovMessages -> {"no", "sent", "done", "failed"}]
    /\ sovSubscribed \in [SovSubscribers -> {"no", "local", "starting", "both"}]
    /\ sovTold \in [SovMessages -> SUBSET SovSubscribers]
    /\ sovSent \in [SovSubscribers -> SUBSET SovMessages]
    /\ sovReplay \in [SovSubscribers -> SovReplays]
    /\ sovDelivered \in [SovSubscribers -> [SovMessages -> Nat]]
    /\ IsFiniteSet(sovRemoved) /\ sovRemoved \subseteq SovMessages

\* A list of messages that were published, each once.
PublishedOnce(list) ==
    /\ \A i \in DOMAIN list : sovPublishing[list[i]] # "no"
    /\ \A i, j \in DOMAIN list : list[i] = list[j] => i = j

\* Lists are of messages that were published; only a subscriber of the event bus
\* is sent messages, or goes through a copy, and that without Redis.
ListsHold ==
    /\ PublishedOnce(sovKept)
    /\ \A s \in SovSubscribers :
          /\ PublishedOnce(sovReplay[s].copy)
          /\ sovSubscribed[s] # "both" =>
                 /\ sovReplay[s] = [copy |-> <<>>, at |-> 1, heard |-> FALSE]
                 /\ sovSent[s] = {}
          /\ sovRedis => sovReplay[s].copy = <<>>
          /\ ~sovRedis => sovSent[s] = {}

\* As long as none is removed, each is at its place in the copies; what was handed
\* over was delivered; and one alone is not removed without that.
RemovalsHold ==
    /\ sovRemoved = {} => \A s \in SovSubscribers :
          /\ Len(sovReplay[s].copy) <= Len(sovKept)
          /\ \A i \in DOMAIN sovReplay[s].copy : sovReplay[s].copy[i] = sovKept[i]
    /\ \A s \in SovSubscribers : sovReplay[s].heard /\ Sovereign!Replaying(s) =>
          sovDelivered[s][sovReplay[s].copy[sovReplay[s].at]] > 0
    /\ \A m \in sovRemoved :
          \/ \E s \in SovSubscribers : sovDelivered[s][m] > 0
          \/ Cardinality(sovRemoved) > 1

\* The replay thread of s has yet to hand m over.
Left(s, m) == \E i \in DOMAIN sovReplay[s].copy :
    /\ sovReplay[s].copy[i] = m
    /\ i > sovReplay[s].at \/ (i = sovReplay[s].at /\ ~sovReplay[s].heard)

\* Times s got m, or is going to: from the publisher, from Redis, from a replay.
Ways(s, m) == sovDelivered[s][m] + (IF s \in sovTold[m] THEN 1 ELSE 0)
              + (IF m \in sovSent[s] THEN 1 ELSE 0) + (IF Left(s, m) THEN 1 ELSE 0)

WaysHold ==
    \A s \in SovSubscribers, m \in SovMessages :
        /\ sovPublishing[m] = "no" \/ sovSubscribed[s] = "no" => Ways(s, m) = 0
        /\ sovSubscribed[s] \in {"local", "starting"} => Ways(s, m) <= 1
        /\ sovSubscribed[s] \in {"local", "starting"} /\ Ways(s, m) = 1 =>
               <<m, s>> \in sovEarly
        /\ Ways(s, m) <= 2
        /\ Ways(s, m) = 2 => sovRedis \/ <<m, s>> \in sovEarly

SovereignInv == SovTypes /\ ListsHold /\ RemovalsHold /\ WaysHold

LEMMA SovereignCardinality == \A S : Sovereign!Cardinality(S) = Cardinality(S)
BY Zenon DEF Sovereign!Cardinality, Cardinality

LEMMA WaysType ==
    ASSUME SovTypes, NEW s \in SovSubscribers, NEW m \in SovMessages
    PROVE  sovDelivered[s][m] \in Nat /\ Ways(s, m) \in Nat
BY DEF SovTypes, Ways

LEMMA SovereignInvInit == Sovereign!SovereignInit => SovereignInv
<1>. SUFFICES ASSUME Sovereign!SovereignInit PROVE SovereignInv
  OBVIOUS
<1>. DEFINE none == [copy |-> <<>>, at |-> 1, heard |-> FALSE]
<1>1. /\ sovRedis \in BOOLEAN /\ sovKept = <<>> /\ sovRemoved = {} /\ sovEarly = {}
      /\ sovPublishing = [m \in SovMessages |-> "no"]
      /\ sovTold = [m \in SovMessages |-> {}]
      /\ sovSubscribed = [s \in SovSubscribers |-> "no"]
      /\ sovSent = [s \in SovSubscribers |-> {}]
      /\ sovReplay = [s \in SovSubscribers |-> none]
      /\ sovDelivered = [s \in SovSubscribers |-> [m \in SovMessages |-> 0]]
  BY DEF Sovereign!SovereignInit, Sovereign!NoReplay
<1>2. none \in SovReplays /\ none.copy = <<>> /\ none.heard = FALSE
  BY EmptySeq DEF SovReplays
<1>3. none = [copy |-> <<>>, at |-> 1, heard |-> FALSE]
  OBVIOUS
<1>. HIDE DEF none
<1>4. SovTypes
  <2>1. /\ sovReplay \in [SovSubscribers -> SovReplays]
        /\ sovDelivered \in [SovSubscribers -> [SovMessages -> Nat]]
        /\ sovKept \in Seq(SovMessages)
    BY <1>1, <1>2, EmptySeq
  <2>. QED  BY <1>1, <2>1, FS_EmptySet DEF SovTypes
<1>5. ListsHold
  BY <1>1, <1>2, <1>3 DEF ListsHold, PublishedOnce
<1>6. RemovalsHold
  BY <1>1, <1>2 DEF RemovalsHold
<1>7. WaysHold
  BY <1>1, <1>2 DEF WaysHold, Ways, Left
<1>. QED  BY <1>4, <1>5, <1>6, <1>7 DEF SovereignInv

LEMMA SendKeeps ==
    ASSUME SovereignInv, NEW m \in SovMessages, Sovereign!Send(m) \/ Sovereign!SendFails(m)
    PROVE  SovereignInv'
<1>. USE DEF SovereignInv
<1>1. /\ UNCHANGED <<sovRedis, sovSubscribed, sovReplay, sovRemoved, sovDelivered>>
      /\ sovPublishing[m] = "no"
      /\ \/ sovPublishing' = [sovPublishing EXCEPT ![m] = "sent"]
         \/ sovPublishing' = [sovPublishing EXCEPT ![m] = "failed"]
  BY DEF Sovereign!Send, Sovereign!SendFails, Sovereign!Publishing, Sovereign!eventVars
<1>2. /\ sovPublishing' \in [SovMessages -> {"no", "sent", "done", "failed"}]
      /\ sovPublishing'[m] # "no"
      /\ \A x \in SovMessages \ {m} : sovPublishing'[x] = sovPublishing[x]
  BY <1>1 DEF SovTypes
<1>3. /\ \/ sovKept' = sovKept
         \/ sovKept' = Append(sovKept, m)
      /\ sovKept' \in Seq(SovMessages) /\ Len(sovKept') >= Len(sovKept)
      /\ \A i \in DOMAIN sovKept : i \in DOMAIN sovKept' /\ sovKept'[i] = sovKept[i]
      /\ \A i \in DOMAIN sovKept' :
            \/ i \in DOMAIN sovKept
            \/ i = Len(sovKept) + 1 /\ sovKept'[i] = m
  <2>1. sovKept' = sovKept \/ sovKept' = Append(sovKept, m)
    BY DEF Sovereign!Send, Sovereign!SendFails, Sovereign!eventVars
  <2>2. sovKept \in Seq(SovMessages) /\ DOMAIN sovKept = 1..Len(sovKept) /\ Len(sovKept) \in Nat
    BY DEF SovTypes
  <2>3. CASE sovKept' = Append(sovKept, m)
    <3>1. /\ sovKept' \in Seq(SovMessages) /\ Len(sovKept') = Len(sovKept) + 1
          /\ \A i \in 1..Len(sovKept) : sovKept'[i] = sovKept[i]
          /\ sovKept'[Len(sovKept) + 1] = m
      BY <2>2, <2>3, AppendProperties
    <3>2. DOMAIN sovKept' = 1..Len(sovKept) + 1
      BY <3>1
    <3>. QED  BY <2>2, <2>3, <3>1, <3>2
  <2>. QED  BY <2>1, <2>2, <2>3
<1>4. /\ sovSent' \in [SovSubscribers -> SUBSET SovMessages]
      /\ \A s \in SovSubscribers : /\ sovSent'[s] \subseteq sovSent[s] \cup {m}
                                   /\ sovSent[s] \subseteq sovSent'[s]
                                   /\ sovSent'[s] # sovSent[s] =>
                                          sovRedis /\ sovSubscribed[s] = "both"
  <2>1. \/ sovSent' = sovSent
        \/ sovRedis /\ sovSent' = [s \in SovSubscribers |->
                          IF sovSubscribed[s] = "both" /\ Sovereign!Same(m, s)
                          THEN sovSent[s] \cup {m} ELSE sovSent[s]]
    BY DEF Sovereign!Send, Sovereign!SendFails, Sovereign!eventVars
  <2>2. sovSent \in [SovSubscribers -> SUBSET SovMessages]
    BY DEF SovTypes
  <2>3. CASE sovSent' = sovSent
    BY <2>2, <2>3
  <2>4. CASE sovRedis /\ sovSent' = [s \in SovSubscribers |->
                          IF sovSubscribed[s] = "both" /\ Sovereign!Same(m, s)
                          THEN sovSent[s] \cup {m} ELSE sovSent[s]]
    <3>1. \A s \in SovSubscribers :
             \/ sovSent'[s] = sovSent[s]
             \/ sovSubscribed[s] = "both" /\ sovSent'[s] = sovSent[s] \cup {m}
      BY <2>4
    <3>2. sovSent' \in [SovSubscribers -> SUBSET SovMessages]
      BY <2>2, <2>4
    <3>. QED  BY <2>4, <3>1, <3>2
  <2>. QED  BY <2>1, <2>3, <2>4
<1>5. /\ sovTold' \in [SovMessages -> SUBSET SovSubscribers]
      /\ \A x \in SovMessages \ {m} : sovTold'[x] = sovTold[x]
      /\ \A s \in sovTold'[m] : s \in sovTold[m] \/ sovSubscribed[s] # "no"
  <2>1. \/ sovTold' = sovTold
        \/ sovTold' = [sovTold EXCEPT ![m] =
                {s \in SovSubscribers : sovSubscribed[s] # "no" /\ Sovereign!Same(m, s)}]
    BY DEF Sovereign!Send, Sovereign!SendFails
  <2>2. sovTold \in [SovMessages -> SUBSET SovSubscribers]
    BY DEF SovTypes
  <2>. DEFINE heard == {s \in SovSubscribers : sovSubscribed[s] # "no" /\ Sovereign!Same(m, s)}
  <2>3. heard \in SUBSET SovSubscribers /\ \A s \in heard : sovSubscribed[s] # "no"
    OBVIOUS
  <2>4. sovTold' = sovTold \/ sovTold' = [sovTold EXCEPT ![m] = heard]
    BY <2>1
  <2>. HIDE DEF heard
  <2>. QED  BY <2>2, <2>3, <2>4
<1>6. /\ sovEarly \subseteq sovEarly'
      /\ \A s \in SovSubscribers : sovSubscribed[s] \in {"local", "starting"} =>
            \/ sovTold' = sovTold
            \/ <<m, s>> \in sovEarly'
  BY DEF Sovereign!Send, Sovereign!SendFails
<1>7. SovTypes'
  BY <1>1, <1>2, <1>3, <1>4, <1>5 DEF SovTypes
<1>8. ListsHold'
  <2>1. PublishedOnce(sovKept)'
    <3>1. \A i \in DOMAIN sovKept : sovKept[i] # m /\ sovKept[i] \in SovMessages
      BY <1>1 DEF ListsHold, PublishedOnce, SovTypes
    <3>2. \A i \in DOMAIN sovKept' : sovPublishing'[sovKept'[i]] # "no"
      BY <1>2, <1>3, <3>1 DEF ListsHold, PublishedOnce
    <3>3. \A i, j \in DOMAIN sovKept' : sovKept'[i] = sovKept'[j] => i = j
      BY <1>3, <3>1 DEF ListsHold, PublishedOnce
    <3>. QED  BY <3>2, <3>3 DEF PublishedOnce
  <2>2. \A s \in SovSubscribers : PublishedOnce(sovReplay[s].copy)'
    <3>. SUFFICES ASSUME NEW s \in SovSubscribers PROVE PublishedOnce(sovReplay[s].copy)'
      OBVIOUS
    <3>1. sovReplay[s].copy \in Seq(SovMessages)
      BY DEF SovTypes, SovReplays
    <3>2. PublishedOnce(sovReplay[s].copy)
      BY DEF ListsHold
    <3>. QED  BY <1>1, <1>2, <3>1, <3>2 DEF PublishedOnce
  <2>. QED  BY <1>1, <1>4, <2>1, <2>2 DEF ListsHold
<1>9. RemovalsHold'
  <2>1. \A s \in SovSubscribers :
           (Sovereign!Replaying(s))' <=> Sovereign!Replaying(s)
    BY <1>1 DEF Sovereign!Replaying
  <2>2. \A s \in SovSubscribers : sovReplay[s].copy \in Seq(SovMessages)
    BY DEF SovTypes, SovReplays
  <2>3. sovRemoved' = {} => \A s \in SovSubscribers :
          /\ Len(sovReplay'[s].copy) <= Len(sovKept')
          /\ \A i \in DOMAIN sovReplay'[s].copy : sovReplay'[s].copy[i] = sovKept'[i]
    <3>. SUFFICES ASSUME sovRemoved = {}, NEW s \in SovSubscribers
                  PROVE  /\ Len(sovReplay[s].copy) <= Len(sovKept')
                         /\ \A i \in DOMAIN sovReplay[s].copy :
                                sovReplay[s].copy[i] = sovKept'[i]
      BY <1>1
    <3>1. /\ Len(sovReplay[s].copy) <= Len(sovKept)
          /\ \A i \in DOMAIN sovReplay[s].copy : sovReplay[s].copy[i] = sovKept[i]
      BY DEF RemovalsHold
    <3>2. /\ DOMAIN sovReplay[s].copy = 1..Len(sovReplay[s].copy)
          /\ Len(sovReplay[s].copy) \in Nat /\ Len(sovKept) \in Nat /\ Len(sovKept') \in Nat
          /\ DOMAIN sovKept = 1..Len(sovKept)
      BY <1>3, <2>2 DEF SovTypes
    <3>. QED  BY <1>3, <3>1, <3>2
  <2>. QED  BY <1>1, <2>1, <2>3 DEF RemovalsHold
<1>10. WaysHold'
  <2>1. \A s \in SovSubscribers, x \in SovMessages : Left(s, x)' <=> Left(s, x)
    BY <1>1 DEF Left
  <2>2. ASSUME NEW s \in SovSubscribers, NEW x \in SovMessages
        PROVE  /\ sovPublishing'[x] = "no" \/ sovSubscribed'[s] = "no" => Ways(s, x)' = 0
               /\ sovSubscribed'[s] \in {"local", "starting"} => Ways(s, x)' <= 1
               /\ sovSubscribed'[s] \in {"local", "starting"} /\ Ways(s, x)' = 1 =>
                      <<x, s>> \in sovEarly'
               /\ Ways(s, x)' <= 2
               /\ Ways(s, x)' = 2 => sovRedis' \/ <<x, s>> \in sovEarly'
    <3>1. CASE x # m
      <4>1. Ways(s, x)' = Ways(s, x)
        BY <1>1, <1>4, <1>5, <2>1, <3>1 DEF Ways
      <4>. QED  BY <1>1, <1>2, <1>6, <3>1, <4>1 DEF WaysHold
    <3>2. CASE x = m
      <4>1. Ways(s, m) = 0 /\ sovDelivered[s][m] \in Nat
        BY <1>1, WaysType DEF WaysHold
      <4>2. sovDelivered[s][m] = 0 /\ s \notin sovTold[m] /\ m \notin sovSent[s] /\ ~Left(s, m)
        BY <4>1 DEF Ways
      <4>3. Ways(s, m)' = (IF s \in sovTold'[m] THEN 1 ELSE 0)
                          + (IF m \in sovSent'[s] THEN 1 ELSE 0)
        BY <1>1, <2>1, <4>2 DEF Ways
      <4>4. m \in sovSent'[s] => sovRedis /\ sovSubscribed[s] = "both"
        BY <1>4, <4>2
      <4>5. s \in sovTold'[m] => sovSubscribed[s] # "no"
        BY <1>5, <4>2
      <4>. QED  BY <1>1, <1>2, <1>6, <3>2, <4>2, <4>3, <4>4, <4>5
    <3>. QED  BY <3>1, <3>2
  <2>. QED  BY <2>2 DEF WaysHold
<1>. QED  BY <1>7, <1>8, <1>9, <1>10

\* One more delivery, of what was due: the other properties follow.
LEMMA DeliverSays ==
    ASSUME SovTypes, NEW s \in SovSubscribers, NEW m \in SovMessages, Sovereign!Deliver(s, m)
    PROVE  /\ sovDelivered' \in [SovSubscribers -> [SovMessages -> Nat]]
           /\ sovDelivered'[s][m] = sovDelivered[s][m] + 1
           /\ \A r \in SovSubscribers, x \in SovMessages :
                 r # s \/ x # m => sovDelivered'[r][x] = sovDelivered[r][x]
           /\ \A r \in SovSubscribers, x \in SovMessages :
                 sovDelivered[r][x] > 0 => sovDelivered'[r][x] > 0
<1>1. sovDelivered \in [SovSubscribers -> [SovMessages -> Nat]]
  BY DEF SovTypes
<1>2. sovDelivered[s] \in [SovMessages -> Nat]
  BY <1>1
<1>. DEFINE more == [sovDelivered[s] EXCEPT ![m] = @ + 1]
<1>3. /\ more \in [SovMessages -> Nat] /\ more[m] = sovDelivered[s][m] + 1
      /\ \A x \in SovMessages \ {m} : more[x] = sovDelivered[s][x]
  BY <1>2
<1>4. sovDelivered' = [sovDelivered EXCEPT ![s] = more]
  BY DEF Sovereign!Deliver
<1>. HIDE DEF more
<1>5. /\ sovDelivered' \in [SovSubscribers -> [SovMessages -> Nat]]
      /\ sovDelivered'[s] = more
      /\ \A r \in SovSubscribers \ {s} : sovDelivered'[r] = sovDelivered[r]
  BY <1>1, <1>3, <1>4
<1>6. \A r \in SovSubscribers, x \in SovMessages :
        \/ sovDelivered'[r][x] = sovDelivered[r][x]
        \/ r = s /\ x = m
  BY <1>3, <1>5
<1>7. sovDelivered[s][m] \in Nat
  BY <1>2
<1>. QED  BY <1>3, <1>5, <1>6, <1>7

\* What delivers a message that was due and removes and subscribes nothing.
LEMMA DeliveredWays ==
    ASSUME WaysHold, UNCHANGED <<sovRedis, sovPublishing, sovSubscribed, sovEarly>>,
           \A s \in SovSubscribers, m \in SovMessages :
               Ways(s, m) \in Nat /\ Ways(s, m)' \in Nat /\ Ways(s, m)' <= Ways(s, m)
    PROVE  WaysHold'
<1>. SUFFICES ASSUME NEW s \in SovSubscribers, NEW x \in SovMessages
              PROVE  /\ sovPublishing'[x] = "no" \/ sovSubscribed'[s] = "no" => Ways(s, x)' = 0
                     /\ sovSubscribed'[s] \in {"local", "starting"} => Ways(s, x)' <= 1
                     /\ sovSubscribed'[s] \in {"local", "starting"} /\ Ways(s, x)' = 1 =>
                            <<x, s>> \in sovEarly'
                     /\ Ways(s, x)' <= 2
                     /\ Ways(s, x)' = 2 => sovRedis' \/ <<x, s>> \in sovEarly'
  BY DEF WaysHold
<1>1. Ways(s, x) \in Nat /\ Ways(s, x)' \in Nat /\ Ways(s, x)' <= Ways(s, x)
  OBVIOUS
<1>2. /\ sovPublishing[x] = "no" \/ sovSubscribed[s] = "no" => Ways(s, x) = 0
      /\ sovSubscribed[s] \in {"local", "starting"} => Ways(s, x) <= 1
      /\ sovSubscribed[s] \in {"local", "starting"} /\ Ways(s, x) = 1 =>
             <<x, s>> \in sovEarly
      /\ Ways(s, x) <= 2
      /\ Ways(s, x) = 2 => sovRedis \/ <<x, s>> \in sovEarly
  BY DEF WaysHold
<1>. QED  BY <1>1, <1>2

LEMMA TellKeeps ==
    ASSUME SovereignInv, NEW m \in SovMessages, NEW s \in SovSubscribers,
           Sovereign!Tell(m, s) \/ Sovereign!Hear(s, m)
    PROVE  SovereignInv'
<1>. USE DEF SovereignInv
<1>1. /\ UNCHANGED <<sovRedis, sovKept, sovPublishing, sovSubscribed, sovReplay, sovRemoved,
                     sovEarly>>
      /\ Sovereign!Deliver(s, m)
  BY DEF Sovereign!Tell, Sovereign!Hear, Sovereign!eventVars, Sovereign!busVars
<1>2. /\ sovDelivered' \in [SovSubscribers -> [SovMessages -> Nat]]
      /\ sovDelivered'[s][m] = sovDelivered[s][m] + 1
      /\ \A r \in SovSubscribers, x \in SovMessages :
            r # s \/ x # m => sovDelivered'[r][x] = sovDelivered[r][x]
      /\ \A r \in SovSubscribers, x \in SovMessages :
            sovDelivered[r][x] > 0 => sovDelivered'[r][x] > 0
  BY <1>1, DeliverSays
<1>3. /\ sovTold' \in [SovMessages -> SUBSET SovSubscribers]
      /\ sovSent' \in [SovSubscribers -> SUBSET SovMessages]
      /\ \A r \in SovSubscribers : sovSent'[r] \subseteq sovSent[r]
      /\ \A r \in SovSubscribers, x \in SovMessages :
            r # s \/ x # m => /\ r \in sovTold'[x] <=> r \in sovTold[x]
                              /\ x \in sovSent'[r] <=> x \in sovSent[r]
      /\ \/ s \in sovTold[m] /\ s \notin sovTold'[m] /\ sovSent' = sovSent
         \/ m \in sovSent[s] /\ m \notin sovSent'[s] /\ sovTold' = sovTold
  <2>1. CASE Sovereign!Tell(m, s)
    <3>1. /\ s \in sovTold[m] /\ sovSent' = sovSent
          /\ sovTold' = [sovTold EXCEPT ![m] = @ \ {s}]
      BY <2>1 DEF Sovereign!Tell, Sovereign!eventVars
    <3>. QED  BY <3>1 DEF SovTypes
  <2>2. CASE Sovereign!Hear(s, m)
    <3>1. /\ m \in sovSent[s] /\ sovTold' = sovTold
          /\ sovSent' = [sovSent EXCEPT ![s] = @ \ {m}]
      BY <2>2 DEF Sovereign!Hear, Sovereign!busVars
    <3>. QED  BY <3>1 DEF SovTypes
  <2>. QED  BY <2>1, <2>2
<1>4. SovTypes'
  BY <1>1, <1>2, <1>3 DEF SovTypes
<1>5. ListsHold'
  BY <1>1, <1>3 DEF ListsHold, PublishedOnce
<1>6. RemovalsHold'
  <2>1. \A r \in SovSubscribers : (Sovereign!Replaying(r))' <=> Sovereign!Replaying(r)
    BY <1>1 DEF Sovereign!Replaying
  <2>2. \A r \in SovSubscribers : sovReplay'[r].heard /\ (Sovereign!Replaying(r))' =>
            sovDelivered'[r][sovReplay'[r].copy[sovReplay'[r].at]] > 0
    <3>. SUFFICES ASSUME NEW r \in SovSubscribers, sovReplay[r].heard, Sovereign!Replaying(r)
                  PROVE  sovDelivered'[r][sovReplay[r].copy[sovReplay[r].at]] > 0
      BY <1>1, <2>1
    <3>1. sovReplay[r].copy[sovReplay[r].at] \in SovMessages
      BY DEF Sovereign!Replaying, SovTypes, SovReplays
    <3>. QED  BY <1>2, <3>1 DEF RemovalsHold
  <2>3. \A x \in sovRemoved' : \/ \E r \in SovSubscribers : sovDelivered'[r][x] > 0
                               \/ Cardinality(sovRemoved') > 1
    <3>. SUFFICES ASSUME NEW x \in sovRemoved, NEW r \in SovSubscribers,
                         sovDelivered[r][x] > 0
                  PROVE  sovDelivered'[r][x] > 0
      BY <1>1 DEF RemovalsHold
    <3>. QED  BY <1>2 DEF SovTypes
  <2>. QED  BY <1>1, <2>2, <2>3 DEF RemovalsHold
<1>7. WaysHold'
  <2>1. \A r \in SovSubscribers, x \in SovMessages : Left(r, x)' <=> Left(r, x)
    BY <1>1 DEF Left
  <2>2. \A r \in SovSubscribers, x \in SovMessages : Ways(r, x)' = Ways(r, x)
    <3>. SUFFICES ASSUME NEW r \in SovSubscribers, NEW x \in SovMessages
                  PROVE  Ways(r, x)' = Ways(r, x)
      OBVIOUS
    <3>0. sovDelivered[r][x] \in Nat
      BY WaysType
    <3>1. CASE r # s \/ x # m
      BY <1>2, <1>3, <2>1, <3>0, <3>1 DEF Ways
    <3>2. CASE r = s /\ x = m
      BY <1>2, <1>3, <2>1, <3>0, <3>2 DEF Ways
    <3>. QED  BY <3>1, <3>2
  <2>. QED  BY <1>1, <2>2, WaysType, DeliveredWays
<1>. QED  BY <1>4, <1>5, <1>6, <1>7

LEMMA SubscribeLocallyKeeps ==
    ASSUME SovereignInv, NEW s \in SovSubscribers, Sovereign!Subscribe(s)
    PROVE  SovereignInv'
<1>. USE DEF SovereignInv
<1>1. /\ UNCHANGED <<sovRedis, sovKept, sovPublishing, sovSent, sovReplay, sovRemoved,
                     sovDelivered>>
      /\ sovSubscribed[s] = "no"
      /\ sovSubscribed' = [sovSubscribed EXCEPT ![s] = "local"]
      /\ sovTold' = [m \in SovMessages |-> IF m \in Sovereign!InPublication(s)
                                           THEN sovTold[m] \cup {s} ELSE sovTold[m]]
      /\ sovEarly' = sovEarly \cup (Sovereign!InPublication(s) \X {s})
  BY DEF Sovereign!Subscribe
<1>2. /\ sovSubscribed' \in [SovSubscribers -> {"no", "local", "starting", "both"}]
      /\ sovSubscribed'[s] = "local"
      /\ \A r \in SovSubscribers \ {s} : sovSubscribed'[r] = sovSubscribed[r]
  BY <1>1 DEF SovTypes
<1>3. /\ sovTold' \in [SovMessages -> SUBSET SovSubscribers]
      /\ \A m \in SovMessages, r \in SovSubscribers \ {s} :
            r \in sovTold'[m] <=> r \in sovTold[m]
      /\ \A m \in SovMessages : s \in sovTold'[m] =>
            s \in sovTold[m] \/ m \in Sovereign!InPublication(s)
      /\ \A m \in SovMessages : s \in sovTold[m] => s \in sovTold'[m]
  BY <1>1 DEF SovTypes
<1>4. SovTypes'
  BY <1>1, <1>2, <1>3 DEF SovTypes
<1>5. ListsHold'
  BY <1>1, <1>2 DEF ListsHold, PublishedOnce
<1>6. RemovalsHold'
  BY <1>1 DEF RemovalsHold, Sovereign!Replaying
<1>7. WaysHold'
  <2>1. \A r \in SovSubscribers, x \in SovMessages : Left(r, x)' <=> Left(r, x)
    BY <1>1 DEF Left
  <2>2. ASSUME NEW r \in SovSubscribers, NEW x \in SovMessages
        PROVE  /\ sovPublishing'[x] = "no" \/ sovSubscribed'[r] = "no" => Ways(r, x)' = 0
               /\ sovSubscribed'[r] \in {"local", "starting"} => Ways(r, x)' <= 1
               /\ sovSubscribed'[r] \in {"local", "starting"} /\ Ways(r, x)' = 1 =>
                      <<x, r>> \in sovEarly'
               /\ Ways(r, x)' <= 2
               /\ Ways(r, x)' = 2 => sovRedis' \/ <<x, r>> \in sovEarly'
    <3>1. CASE r # s
      <4>1. Ways(r, x)' = Ways(r, x)
        BY <1>1, <1>3, <2>1, <3>1 DEF Ways
      <4>. QED  BY <1>1, <1>2, <3>1, <4>1 DEF WaysHold
    <3>2. CASE r = s
      <4>1. Ways(s, x) = 0 /\ sovDelivered[s][x] \in Nat
        BY <1>1, WaysType DEF WaysHold
      <4>2. sovDelivered[s][x] = 0 /\ s \notin sovTold[x] /\ x \notin sovSent[s] /\ ~Left(s, x)
        BY <4>1 DEF Ways
      <4>3. Ways(s, x)' = IF s \in sovTold'[x] THEN 1 ELSE 0
        BY <1>1, <2>1, <4>2 DEF Ways
      <4>4. s \in sovTold'[x] => x \in Sovereign!InPublication(s)
        BY <1>3, <4>2
      <4>5. x \in Sovereign!InPublication(s) => <<x, s>> \in sovEarly'
        BY <1>1
      <4>6. x \in Sovereign!InPublication(s) => sovPublishing[x] # "no"
        BY DEF Sovereign!InPublication
      <4>. QED  BY <1>1, <1>2, <3>2, <4>3, <4>4, <4>5, <4>6
    <3>. QED  BY <3>1, <3>2
  <2>. QED  BY <2>2 DEF WaysHold
<1>. QED  BY <1>4, <1>5, <1>6, <1>7

\* The subscribers were all called, or a thread was started.
LEMMA GoesOnKeeps ==
    ASSUME SovereignInv,
           \/ \E m \in SovMessages : Sovereign!EndPublish(m)
           \/ \E s \in SovSubscribers : Sovereign!SubscribeBelow(s)
    PROVE  SovereignInv'
<1>. USE DEF SovereignInv
<1>1. UNCHANGED <<sovRedis, sovKept, sovSent, sovTold, sovReplay, sovRemoved, sovEarly,
                  sovDelivered>>
  BY DEF Sovereign!EndPublish, Sovereign!SubscribeBelow, Sovereign!busVars, Sovereign!eventVars
<1>2. /\ sovPublishing' \in [SovMessages -> {"no", "sent", "done", "failed"}]
      /\ \A x \in SovMessages : sovPublishing'[x] = "no" <=> sovPublishing[x] = "no"
  BY DEF Sovereign!EndPublish, Sovereign!SubscribeBelow, Sovereign!busVars,
         Sovereign!Publishing, SovTypes
<1>3. /\ sovSubscribed' \in [SovSubscribers -> {"no", "local", "starting", "both"}]
      /\ \A r \in SovSubscribers :
            \/ sovSubscribed'[r] = sovSubscribed[r]
            \/ sovSubscribed[r] = "local" /\ sovSubscribed'[r] = "starting"
  BY DEF Sovereign!EndPublish, Sovereign!SubscribeBelow, Sovereign!eventVars, SovTypes
<1>4. SovTypes'
  BY <1>1, <1>2, <1>3 DEF SovTypes
<1>5. ListsHold'
  <2>1. PublishedOnce(sovKept)'
    <3>1. \A i \in DOMAIN sovKept : sovKept[i] \in SovMessages
      BY DEF SovTypes
    <3>. QED  BY <1>1, <1>2, <3>1 DEF ListsHold, PublishedOnce
  <2>2. ASSUME NEW s \in SovSubscribers PROVE PublishedOnce(sovReplay[s].copy)'
    <3>1. sovReplay[s].copy \in Seq(SovMessages)
      BY DEF SovTypes, SovReplays
    <3>2. \A i \in DOMAIN sovReplay[s].copy : sovReplay[s].copy[i] \in SovMessages
      BY <3>1
    <3>. QED  BY <1>1, <1>2, <3>2 DEF ListsHold, PublishedOnce
  <2>. QED  BY <1>1, <1>3, <2>1, <2>2 DEF ListsHold
<1>6. RemovalsHold'
  BY <1>1 DEF RemovalsHold, Sovereign!Replaying
<1>7. WaysHold'
  <2>1. \A r \in SovSubscribers, x \in SovMessages : Ways(r, x)' = Ways(r, x)
    BY <1>1 DEF Ways, Left
  <2>. QED  BY <1>1, <1>2, <1>3, <2>1 DEF WaysHold
<1>. QED  BY <1>4, <1>5, <1>6, <1>7

LEMMA BeginThreadKeeps ==
    ASSUME SovereignInv, NEW s \in SovSubscribers, Sovereign!BeginThread(s)
    PROVE  SovereignInv'
<1>. USE DEF SovereignInv
<1>1. /\ UNCHANGED <<sovRedis, sovKept, sovPublishing, sovSent, sovTold, sovRemoved,
                     sovDelivered>>
      /\ sovSubscribed[s] = "starting"
      /\ sovSubscribed' = [sovSubscribed EXCEPT ![s] = "both"]
      /\ sovEarly' = sovEarly
      /\ sovReplay' = IF sovRedis THEN sovReplay ELSE [sovReplay EXCEPT ![s].copy = sovKept]
  BY DEF Sovereign!BeginThread, Sovereign!busVars
<1>2. /\ sovSubscribed' \in [SovSubscribers -> {"no", "local", "starting", "both"}]
      /\ sovSubscribed'[s] = "both"
      /\ \A r \in SovSubscribers \ {s} : sovSubscribed'[r] = sovSubscribed[r]
  BY <1>1 DEF SovTypes
<1>3. /\ sovReplay[s] = [copy |-> <<>>, at |-> 1, heard |-> FALSE] /\ sovSent[s] = {}
      /\ sovReplay[s].copy = <<>>
  BY <1>1 DEF ListsHold
<1>4. PICK copy \in Seq(SovMessages) :
        \/ sovRedis /\ copy = <<>> /\ sovReplay' = sovReplay
        \/ ~sovRedis /\ copy = sovKept /\ sovReplay' = [sovReplay EXCEPT ![s].copy = copy]
  <2>1. CASE sovRedis
    BY <1>1, <2>1, EmptySeq
  <2>2. CASE ~sovRedis
    BY <1>1, <2>2 DEF SovTypes
  <2>. QED  BY <2>1, <2>2
<1>5. /\ sovReplay' \in [SovSubscribers -> SovReplays]
      /\ sovReplay'[s].copy = copy /\ sovReplay'[s].at = 1 /\ sovReplay'[s].heard = FALSE
      /\ \A r \in SovSubscribers \ {s} : sovReplay'[r] = sovReplay[r]
  <2>1. sovReplay \in [SovSubscribers -> SovReplays] /\ sovReplay[s] \in SovReplays
    BY DEF SovTypes
  <2>2. sovReplay[s].at = 1 /\ sovReplay[s].heard = FALSE
    BY <1>3
  <2>3. CASE sovReplay' = sovReplay /\ copy = <<>>
    BY <1>3, <2>1, <2>2, <2>3
  <2>4. CASE sovReplay' = [sovReplay EXCEPT ![s].copy = copy]
    <3>. DEFINE new == [sovReplay[s] EXCEPT !.copy = copy]
    <3>1. new \in SovReplays /\ new.copy = copy /\ new.at = 1 /\ new.heard = FALSE
      BY <2>1, <2>2 DEF SovReplays
    <3>2. sovReplay' = [sovReplay EXCEPT ![s] = new]
      BY <2>4
    <3>. HIDE DEF new
    <3>. QED  BY <2>1, <3>1, <3>2
  <2>. QED  BY <1>4, <2>3, <2>4
<1>6. SovTypes'
  BY <1>1, <1>2, <1>5 DEF SovTypes
<1>7. ListsHold'
  <2>1. PublishedOnce(sovKept)' /\ \A r \in SovSubscribers : PublishedOnce(sovReplay[r].copy)'
    BY <1>1, <1>4, <1>5 DEF ListsHold, PublishedOnce
  <2>. QED  BY <1>1, <1>2, <1>3, <1>4, <1>5, <2>1 DEF ListsHold
<1>8. RemovalsHold'
  <2>1. Len(copy) <= Len(sovKept) /\ \A i \in DOMAIN copy : copy[i] = sovKept[i]
    BY <1>4 DEF SovTypes
  <2>2. \A r \in SovSubscribers \ {s} : (Sovereign!Replaying(r))' <=> Sovereign!Replaying(r)
    BY <1>5 DEF Sovereign!Replaying
  <2>. QED  BY <1>1, <1>5, <2>1, <2>2 DEF RemovalsHold
<1>9. WaysHold'
  <2>1. \A r \in SovSubscribers \ {s}, x \in SovMessages : Left(r, x)' <=> Left(r, x)
    BY <1>5 DEF Left
  <2>2. \A x \in SovMessages : Left(s, x)' => sovPublishing[x] # "no" /\ ~sovRedis
    BY <1>4, <1>5 DEF Left, ListsHold, PublishedOnce
  <2>3. ASSUME NEW r \in SovSubscribers, NEW x \in SovMessages
        PROVE  /\ sovPublishing'[x] = "no" \/ sovSubscribed'[r] = "no" => Ways(r, x)' = 0
               /\ sovSubscribed'[r] \in {"local", "starting"} => Ways(r, x)' <= 1
               /\ sovSubscribed'[r] \in {"local", "starting"} /\ Ways(r, x)' = 1 =>
                      <<x, r>> \in sovEarly'
               /\ Ways(r, x)' <= 2
               /\ Ways(r, x)' = 2 => sovRedis' \/ <<x, r>> \in sovEarly'
    <3>1. CASE r # s
      <4>1. Ways(r, x)' = Ways(r, x)
        BY <1>1, <2>1, <3>1 DEF Ways
      <4>. QED  BY <1>1, <1>2, <3>1, <4>1 DEF WaysHold
    <3>2. CASE r = s
      <4>1. ~Left(s, x)
        BY <1>3 DEF Left
      <4>2. Ways(s, x)' = Ways(s, x) + IF Left(s, x)' THEN 1 ELSE 0
        BY <1>1, <4>1, WaysType DEF Ways
      <4>3. /\ Ways(s, x) \in Nat /\ Ways(s, x) <= 1
            /\ Ways(s, x) = 1 => <<x, s>> \in sovEarly
            /\ sovPublishing[x] = "no" => Ways(s, x) = 0
        BY <1>1, WaysType DEF WaysHold
      <4>. QED  BY <1>1, <1>2, <2>2, <3>2, <4>2, <4>3
    <3>. QED  BY <3>1, <3>2
  <2>. QED  BY <2>3 DEF WaysHold
<1>. QED  BY <1>6, <1>7, <1>8, <1>9

\* The replay thread of s moves on in its copy.
LEMMA ReplayMoves ==
    ASSUME SovTypes, NEW s \in SovSubscribers, NEW at \in Nat \ {0}, NEW heard \in BOOLEAN,
           sovReplay' = [sovReplay EXCEPT ![s].at = at, ![s].heard = heard]
    PROVE  /\ sovReplay' \in [SovSubscribers -> SovReplays]
           /\ sovReplay'[s].copy = sovReplay[s].copy
           /\ sovReplay'[s].at = at /\ sovReplay'[s].heard = heard
           /\ \A r \in SovSubscribers \ {s} : sovReplay'[r] = sovReplay[r]
           /\ sovReplay[s].copy \in Seq(SovMessages) /\ sovReplay[s].at \in Nat \ {0}
           /\ sovReplay[s].heard \in BOOLEAN
<1>1. sovReplay \in [SovSubscribers -> SovReplays] /\ sovReplay[s] \in SovReplays
  BY DEF SovTypes
<1>. DEFINE new == [sovReplay[s] EXCEPT !.at = at, !.heard = heard]
<1>2. /\ new \in SovReplays /\ new.copy = sovReplay[s].copy /\ new.at = at
      /\ new.heard = heard
  BY <1>1 DEF SovReplays
<1>3. sovReplay' = [sovReplay EXCEPT ![s] = new]
  OBVIOUS
<1>. HIDE DEF new
<1>4. sovReplay[s].copy \in Seq(SovMessages) /\ sovReplay[s].at \in Nat \ {0}
      /\ sovReplay[s].heard \in BOOLEAN
  BY <1>1 DEF SovReplays
<1>. QED  BY <1>1, <1>2, <1>3, <1>4

\* The lists stay right as long as neither the copies nor what was kept change.
LEMMA CopiesKept ==
    ASSUME SovTypes, ListsHold, NEW s \in SovSubscribers, sovSubscribed[s] = "both",
           UNCHANGED <<sovRedis, sovPublishing, sovSubscribed, sovSent>>,
           PublishedOnce(sovKept)',
           \A r \in SovSubscribers : sovReplay'[r].copy = sovReplay[r].copy,
           \A r \in SovSubscribers \ {s} : sovReplay'[r] = sovReplay[r]
    PROVE  ListsHold'
<1>1. \A r \in SovSubscribers : PublishedOnce(sovReplay[r].copy)'
  BY DEF ListsHold, PublishedOnce
<1>2. \A r \in SovSubscribers : sovSubscribed'[r] # "both" =>
          /\ sovReplay'[r] = [copy |-> <<>>, at |-> 1, heard |-> FALSE]
          /\ sovSent'[r] = {}
  BY DEF ListsHold
<1>3. \A r \in SovSubscribers : /\ sovRedis' => sovReplay'[r].copy = <<>>
                                /\ ~sovRedis' => sovSent'[r] = {}
  BY DEF ListsHold
<1>. QED  BY <1>1, <1>2, <1>3 DEF ListsHold

LEMMA PassOverKeeps ==
    ASSUME SovereignInv, NEW s \in SovSubscribers, Sovereign!PassOver(s)
    PROVE  SovereignInv'
<1>. USE DEF SovereignInv
<1>1. /\ UNCHANGED <<sovRedis, sovKept, sovPublishing, sovSubscribed, sovSent, sovTold, sovRemoved,
                     sovEarly, sovDelivered>>
      /\ Sovereign!Replaying(s)
      /\ sovReplay' = [sovReplay EXCEPT ![s].at = @ + 1, ![s].heard = FALSE]
  BY DEF Sovereign!PassOver, Sovereign!Onward, Sovereign!busVars
<1>2. sovReplay[s].at \in Nat \ {0}
  BY DEF SovTypes, SovReplays
<1>3. /\ sovReplay' \in [SovSubscribers -> SovReplays]
      /\ sovReplay'[s].copy = sovReplay[s].copy
      /\ sovReplay'[s].at = sovReplay[s].at + 1 /\ sovReplay'[s].heard = FALSE
      /\ \A r \in SovSubscribers \ {s} : sovReplay'[r] = sovReplay[r]
      /\ sovReplay[s].copy \in Seq(SovMessages)
  <2>. PICK n : n = sovReplay[s].at + 1
    OBVIOUS
  <2>1. n \in Nat \ {0}
    BY <1>2
  <2>2. SovTypes
    OBVIOUS
  <2>3. sovReplay' = [sovReplay EXCEPT ![s].at = n, ![s].heard = FALSE]
    BY <1>1
  <2>4. /\ sovReplay' \in [SovSubscribers -> SovReplays]
        /\ sovReplay'[s].copy = sovReplay[s].copy
        /\ sovReplay'[s].at = n /\ sovReplay'[s].heard = FALSE
        /\ \A r \in SovSubscribers \ {s} : sovReplay'[r] = sovReplay[r]
        /\ sovReplay[s].copy \in Seq(SovMessages)
    <3>. HIDE DEF SovereignInv
    <3>. QED  BY <2>1, <2>2, <2>3, ReplayMoves
  <2>. QED  BY <2>4
<1>4. SovTypes'
  BY <1>1, <1>3 DEF SovTypes
<1>5. sovSubscribed[s] = "both" /\ \A r \in SovSubscribers : sovReplay'[r].copy = sovReplay[r].copy
  <2>1. sovSubscribed[s] # "both" => Len(sovReplay[s].copy) = 0 /\ sovReplay[s].at = 1
    BY DEF ListsHold
  <2>. QED  BY <1>1, <1>3, <2>1 DEF Sovereign!Replaying, SovTypes
<1>6. ListsHold'
  <2>1. PublishedOnce(sovKept)'
    BY <1>1 DEF ListsHold, PublishedOnce
  <2>2. SovTypes /\ ListsHold
    OBVIOUS
  <2>3. UNCHANGED <<sovRedis, sovPublishing, sovSubscribed, sovSent>>
    BY <1>1
  <2>. HIDE DEF SovereignInv
  <2>. QED  BY <1>3, <1>5, <2>1, <2>2, <2>3, CopiesKept
<1>7. RemovalsHold'
  <2>1. \A r \in SovSubscribers \ {s} : (Sovereign!Replaying(r))' <=> Sovereign!Replaying(r)
    BY <1>3 DEF Sovereign!Replaying
  <2>. QED  BY SMTT(20), <1>1, <1>3, <1>5, <2>1 DEF RemovalsHold
<1>8. WaysHold'
  <2>1. \A r \in SovSubscribers \ {s}, x \in SovMessages : Left(r, x)' <=> Left(r, x)
    BY <1>3 DEF Left
  <2>2. \A x \in SovMessages : Left(s, x)' => Left(s, x)
    <3>. SUFFICES ASSUME NEW x \in SovMessages, Left(s, x)' PROVE Left(s, x)
      OBVIOUS
    <3>1. PICK i \in DOMAIN sovReplay[s].copy :
            sovReplay[s].copy[i] = x /\ i >= sovReplay[s].at + 1
      BY <1>2, <1>3 DEF Left
    <3>2. i \in Nat
      BY <1>3
    <3>. QED  BY <1>2, <3>1, <3>2 DEF Left
  <2>3. \A r \in SovSubscribers, x \in SovMessages :
            Ways(r, x) \in Nat /\ Ways(r, x)' \in Nat /\ Ways(r, x)' <= Ways(r, x)
    <3>. SUFFICES ASSUME NEW r \in SovSubscribers, NEW x \in SovMessages
                  PROVE  Ways(r, x) \in Nat /\ Ways(r, x)' \in Nat /\ Ways(r, x)' <= Ways(r, x)
      OBVIOUS
    <3>1. sovDelivered[r][x] \in Nat
      BY WaysType
    <3>2. Left(r, x)' => Left(r, x)
      BY <2>1, <2>2
    <3>. QED  BY <1>1, <3>1, <3>2 DEF Ways
  <2>. QED  BY <1>1, <2>3, DeliveredWays
<1>. QED  BY <1>4, <1>6, <1>7, <1>8

LEMMA HandOverKeeps ==
    ASSUME SovereignInv, NEW s \in SovSubscribers, Sovereign!HandOver(s)
    PROVE  SovereignInv'
<1>. USE DEF SovereignInv
<1>. PICK m : m = sovReplay[s].copy[sovReplay[s].at]
  OBVIOUS
<1>1. /\ UNCHANGED <<sovRedis, sovKept, sovPublishing, sovSubscribed, sovSent, sovTold, sovRemoved,
                     sovEarly>>
      /\ Sovereign!Replaying(s) /\ sovReplay[s].heard = FALSE
      /\ sovReplay' = [sovReplay EXCEPT ![s].heard = TRUE]
      /\ Sovereign!Deliver(s, m)
  BY DEF Sovereign!HandOver, Sovereign!busVars, SovTypes, SovReplays
<1>2. sovReplay[s].at \in Nat \ {0} /\ sovReplay \in [SovSubscribers -> SovReplays]
  BY DEF SovTypes, SovReplays
<1>3. /\ sovReplay' \in [SovSubscribers -> SovReplays]
      /\ sovReplay'[s].copy = sovReplay[s].copy
      /\ sovReplay'[s].at = sovReplay[s].at /\ sovReplay'[s].heard = TRUE
      /\ \A r \in SovSubscribers \ {s} : sovReplay'[r] = sovReplay[r]
      /\ sovReplay[s].copy \in Seq(SovMessages)
  <2>1. sovReplay[s] \in SovReplays
    BY <1>2
  <2>2. /\ [sovReplay[s] EXCEPT !.heard = TRUE] \in SovReplays
        /\ [sovReplay[s] EXCEPT !.heard = TRUE].copy = sovReplay[s].copy
        /\ [sovReplay[s] EXCEPT !.heard = TRUE].at = sovReplay[s].at
        /\ [sovReplay[s] EXCEPT !.heard = TRUE].heard = TRUE
    BY <2>1 DEF SovReplays
  <2>3. sovReplay[s].copy \in Seq(SovMessages)
    BY <2>1 DEF SovReplays
  <2>. QED  BY <1>1, <1>2, <2>2, <2>3
<1>4. sovReplay[s].at \in DOMAIN sovReplay[s].copy /\ m \in SovMessages
  BY <1>1, <1>2, <1>3 DEF Sovereign!Replaying
<1>5. /\ sovDelivered' \in [SovSubscribers -> [SovMessages -> Nat]]
      /\ sovDelivered'[s][m] = sovDelivered[s][m] + 1
      /\ \A r \in SovSubscribers, x \in SovMessages :
            r # s \/ x # m => sovDelivered'[r][x] = sovDelivered[r][x]
      /\ \A r \in SovSubscribers, x \in SovMessages :
            sovDelivered[r][x] > 0 => sovDelivered'[r][x] > 0
  BY <1>1, <1>4, DeliverSays
<1>6. SovTypes'
  BY <1>1, <1>3, <1>5 DEF SovTypes
<1>7. sovSubscribed[s] = "both" /\ \A r \in SovSubscribers : sovReplay'[r].copy = sovReplay[r].copy
  <2>1. sovSubscribed[s] # "both" => Len(sovReplay[s].copy) = 0 /\ sovReplay[s].at = 1
    BY DEF ListsHold
  <2>. QED  BY <1>1, <1>3, <2>1 DEF Sovereign!Replaying, SovTypes
<1>8. ListsHold'
  <2>1. PublishedOnce(sovKept)'
    BY <1>1 DEF ListsHold, PublishedOnce
  <2>2. SovTypes /\ ListsHold
    OBVIOUS
  <2>3. UNCHANGED <<sovRedis, sovPublishing, sovSubscribed, sovSent>>
    BY <1>1
  <2>. HIDE DEF SovereignInv
  <2>. QED  BY <1>3, <1>7, <2>1, <2>2, <2>3, CopiesKept
<1>9. sovDelivered[s][m] \in Nat
  BY <1>4, WaysType
<1>10. RemovalsHold'
  <2>1. \A r \in SovSubscribers : (Sovereign!Replaying(r))' <=> Sovereign!Replaying(r)
    BY <1>3 DEF Sovereign!Replaying
  <2>2. \A r \in SovSubscribers : sovReplay'[r].heard /\ (Sovereign!Replaying(r))' =>
            sovDelivered'[r][sovReplay'[r].copy[sovReplay'[r].at]] > 0
    <3>. SUFFICES ASSUME NEW r \in SovSubscribers, sovReplay'[r].heard, Sovereign!Replaying(r)
                  PROVE  sovDelivered'[r][sovReplay'[r].copy[sovReplay'[r].at]] > 0
      BY <2>1
    <3>1. CASE r = s
      <4>1. sovReplay'[s].copy[sovReplay'[s].at] = m
        BY <1>3
      <4>2. sovDelivered'[s][m] > 0
        BY <1>5, <1>9
      <4>. QED  BY <3>1, <4>1, <4>2
    <3>2. CASE r # s
      <4>1. sovReplay[r].copy[sovReplay[r].at] \in SovMessages
        BY DEF Sovereign!Replaying, SovTypes, SovReplays
      <4>. QED  BY <1>3, <1>5, <3>2, <4>1 DEF RemovalsHold
    <3>. QED  BY <3>1, <3>2
  <2>3. \A x \in sovRemoved' : \/ \E r \in SovSubscribers : sovDelivered'[r][x] > 0
                               \/ Cardinality(sovRemoved') > 1
    BY <1>1, <1>5 DEF RemovalsHold, SovTypes
  <2>. QED  BY SMTT(20), <1>1, <1>7, <2>2, <2>3 DEF RemovalsHold
<1>11. WaysHold'
  <2>1. \A r \in SovSubscribers \ {s}, x \in SovMessages : Left(r, x)' <=> Left(r, x)
    BY <1>3 DEF Left
  <2>2. \A x \in SovMessages : Left(s, x)' => Left(s, x) /\ x # m
    <3>. SUFFICES ASSUME NEW x \in SovMessages, Left(s, x)' PROVE Left(s, x) /\ x # m
      OBVIOUS
    <3>1. PICK i \in DOMAIN sovReplay[s].copy :
            sovReplay[s].copy[i] = x /\ i > sovReplay[s].at
      BY <1>3 DEF Left
    <3>2. i # sovReplay[s].at
      BY <1>2, <1>3, <3>1
    <3>3. PublishedOnce(sovReplay[s].copy)
      BY DEF ListsHold
    <3>. QED  BY <1>4, <3>1, <3>2, <3>3 DEF Left, PublishedOnce
  <2>3. Left(s, m)
    BY <1>1, <1>4 DEF Left
  <2>4. \A r \in SovSubscribers, x \in SovMessages :
            Ways(r, x) \in Nat /\ Ways(r, x)' \in Nat /\ Ways(r, x)' <= Ways(r, x)
    <3>. SUFFICES ASSUME NEW r \in SovSubscribers, NEW x \in SovMessages
                  PROVE  Ways(r, x) \in Nat /\ Ways(r, x)' \in Nat /\ Ways(r, x)' <= Ways(r, x)
      OBVIOUS
    <3>1. sovDelivered[r][x] \in Nat
      BY WaysType
    <3>2. CASE r = s /\ x = m
      <4>1. sovDelivered'[s][m] = sovDelivered[s][m] + 1 /\ Left(s, m) /\ ~Left(s, m)'
        BY <1>5, <1>9, <2>2, <2>3, <3>2
      <4>2. sovTold' = sovTold /\ sovSent' = sovSent
        BY <1>1
      <4>. HIDE DEF SovereignInv
      <4>. QED  BY SMTT(20), <1>9, <3>2, <4>1, <4>2 DEF Ways
    <3>3. CASE r # s \/ x # m
      <4>1. Left(r, x)' => Left(r, x)
        BY <2>1, <2>2
      <4>. QED  BY <1>1, <1>5, <3>1, <3>3, <4>1 DEF Ways
    <3>. QED  BY <3>2, <3>3
  <2>. QED  BY <1>1, <2>4, DeliveredWays
<1>. QED  BY <1>6, <1>8, <1>10, <1>11

LEMMA RemoveKeeps ==
    ASSUME SovereignInv, NEW s \in SovSubscribers, Sovereign!Remove(s)
    PROVE  SovereignInv'
<1>. USE DEF SovereignInv
<1>. PICK i : i = sovReplay[s].at
  OBVIOUS
<1>1. /\ UNCHANGED <<sovRedis, sovPublishing, sovSubscribed, sovSent, sovTold, sovEarly,
                     sovDelivered>>
      /\ Sovereign!Replaying(s) /\ sovReplay[s].heard
      /\ sovReplay' = [sovReplay EXCEPT ![s].at = @ + 1, ![s].heard = FALSE]
      /\ IF i <= Len(sovKept)
         THEN /\ sovRemoved' = sovRemoved \cup {sovKept[i]}
              /\ sovKept' = SubSeq(sovKept, 1, i - 1) \o SubSeq(sovKept, i + 1, Len(sovKept))
         ELSE UNCHANGED <<sovKept, sovRemoved>>
  BY DEF Sovereign!Remove, Sovereign!Onward, Sovereign!busVars
<1>2. i \in Nat \ {0}
  BY DEF SovTypes, SovReplays
<1>3. /\ sovReplay' \in [SovSubscribers -> SovReplays]
      /\ sovReplay'[s].copy = sovReplay[s].copy
      /\ sovReplay'[s].at = i + 1 /\ sovReplay'[s].heard = FALSE
      /\ \A r \in SovSubscribers \ {s} : sovReplay'[r] = sovReplay[r]
      /\ sovReplay[s].copy \in Seq(SovMessages)
  <2>. PICK n : n = i + 1
    OBVIOUS
  <2>1. n \in Nat \ {0}
    BY <1>2
  <2>2. SovTypes
    OBVIOUS
  <2>3. sovReplay' = [sovReplay EXCEPT ![s].at = n, ![s].heard = FALSE]
    BY <1>1
  <2>4. /\ sovReplay' \in [SovSubscribers -> SovReplays]
        /\ sovReplay'[s].copy = sovReplay[s].copy
        /\ sovReplay'[s].at = n /\ sovReplay'[s].heard = FALSE
        /\ \A r \in SovSubscribers \ {s} : sovReplay'[r] = sovReplay[r]
        /\ sovReplay[s].copy \in Seq(SovMessages)
    <3>. HIDE DEF SovereignInv
    <3>. QED  BY <2>1, <2>2, <2>3, ReplayMoves
  <2>. QED  BY <2>4
<1>4. i \in DOMAIN sovReplay[s].copy
  BY <1>1, <1>2, <1>3 DEF Sovereign!Replaying
<1>5. sovKept \in Seq(SovMessages) /\ IsFiniteSet(sovRemoved) /\ sovRemoved \subseteq SovMessages
      /\ Len(sovKept) \in Nat /\ DOMAIN sovKept = 1..Len(sovKept)
  BY DEF SovTypes
<1>6. /\ sovKept' \in Seq(SovMessages)
      /\ \A j \in DOMAIN sovKept' : \E k \in DOMAIN sovKept :
            sovKept'[j] = sovKept[k] /\ k = (IF j < i THEN j ELSE IF sovKept' = sovKept THEN j ELSE j + 1)
  <2>1. CASE i > Len(sovKept)
    BY <1>1, <1>2, <1>5, <2>1
  <2>2. CASE i <= Len(sovKept)
    <3>. DEFINE front == SubSeq(sovKept, 1, i - 1)
                back == SubSeq(sovKept, i + 1, Len(sovKept))
    <3>1. /\ front \in Seq(SovMessages) /\ Len(front) = i - 1
          /\ \A j \in 1..i - 1 : front[j] = sovKept[j]
      <4>1. 1 \in Int /\ i - 1 \in Int /\ \A k \in 1..(i - 1) : sovKept[k] \in SovMessages
        BY <1>2, <1>5, <2>2, ElementOfSeq
      <4>2. /\ front \in Seq(SovMessages)
            /\ Len(front) = IF 1 <= i - 1 THEN (i - 1) - 1 + 1 ELSE 0
            /\ \A j \in 1..(i - 1) - 1 + 1 : front[j] = sovKept[1 + j - 1]
        BY <4>1, SubSeqProperties
      <4>. QED  BY <1>2, <4>2
    <3>2. /\ back \in Seq(SovMessages) /\ Len(back) = Len(sovKept) - i
          /\ \A j \in 1..Len(sovKept) - i : back[j] = sovKept[i + j]
      <4>1. /\ i + 1 \in Int /\ Len(sovKept) \in Int
            /\ \A k \in (i + 1)..Len(sovKept) : sovKept[k] \in SovMessages
        BY <1>2, <1>5, <2>2, ElementOfSeq
      <4>2. /\ back \in Seq(SovMessages)
            /\ Len(back) = IF i + 1 <= Len(sovKept) THEN Len(sovKept) - (i + 1) + 1 ELSE 0
            /\ \A j \in 1..Len(sovKept) - (i + 1) + 1 : back[j] = sovKept[(i + 1) + j - 1]
        BY SMTT(20), <4>1, SubSeqProperties
      <4>3. /\ Len(sovKept) - (i + 1) + 1 = Len(sovKept) - i
            /\ Len(back) = Len(sovKept) - i
        BY <1>2, <1>5, <2>2, <4>2
      <4>4. ASSUME NEW j \in 1..Len(sovKept) - i PROVE back[j] = sovKept[i + j]
        <5>1. (i + 1) + j - 1 = i + j
          BY <1>2, <1>5
        <5>2. back[j] = sovKept[(i + 1) + j - 1]
          BY <4>2, <4>3
        <5>. QED  BY <5>1, <5>2
      <4>. QED  BY <4>2, <4>3, <4>4
    <3>3. sovKept' = front \o back
      BY <1>1, <2>2
    <3>. HIDE DEF front, back
    <3>4. /\ sovKept' \in Seq(SovMessages) /\ Len(sovKept') = Len(sovKept) - 1
          /\ \A j \in 1..Len(front) + Len(back) :
                sovKept'[j] = IF j <= Len(front) THEN front[j] ELSE back[j - Len(front)]
      <4>1. /\ front \o back \in Seq(SovMessages)
            /\ Len(front \o back) = Len(front) + Len(back)
            /\ \A j \in 1..Len(front) + Len(back) : (front \o back)[j] =
                     IF j <= Len(front) THEN front[j] ELSE back[j - Len(front)]
        BY <3>1, <3>2, ConcatProperties
      <4>2. Len(front) + Len(back) = Len(sovKept) - 1
        BY <1>2, <1>5, <3>1, <3>2
      <4>. QED  BY <3>3, <4>1, <4>2
    <3>5. sovKept' # sovKept
      BY <1>5, <3>4
    <3>6. ASSUME NEW j \in DOMAIN sovKept'
          PROVE  \E k \in DOMAIN sovKept : sovKept'[j] = sovKept[k]
                                          /\ k = (IF j < i THEN j ELSE j + 1)
      <4>0. DOMAIN sovKept' = 1..Len(sovKept')
        BY <3>4
      <4>1. j \in 1..Len(sovKept) - 1 /\ j \in 1..Len(front) + Len(back) /\ j \in Nat
        BY SMTT(20), <1>2, <1>5, <2>2, <3>1, <3>2, <3>4, <4>0
      <4>2. CASE j < i
        <5>1. sovKept'[j] = front[j] /\ front[j] = sovKept[j] /\ j \in DOMAIN sovKept
          BY SMTT(20), <1>2, <1>5, <2>2, <3>1, <3>4, <4>1, <4>2
        <5>. QED  BY <4>2, <5>1
      <4>3. CASE j >= i
        <5>0. ~(j <= Len(front)) /\ j - Len(front) = j - (i - 1) /\ ~(j < i)
          BY <1>2, <3>1, <4>1, <4>3
        <5>1. sovKept'[j] = back[j - (i - 1)]
          BY <3>4, <4>1, <5>0
        <5>. PICK n : n = j - (i - 1)
          OBVIOUS
        <5>2. n \in 1..Len(sovKept) - i /\ i + n = j + 1
          BY <1>2, <1>5, <2>2, <4>1, <4>3
        <5>3. back[n] = sovKept[j + 1]
          BY <3>2, <5>2
        <5>4. j + 1 \in DOMAIN sovKept
          BY <1>5, <4>1
        <5>. QED  BY <5>0, <5>1, <5>3, <5>4
      <4>. QED  BY <1>2, <4>1, <4>2, <4>3
    <3>. QED  BY <3>4, <3>5, <3>6
  <2>. QED  BY <1>2, <1>5, <2>1, <2>2
<1>7. /\ IsFiniteSet(sovRemoved') /\ sovRemoved' \subseteq SovMessages
      /\ sovRemoved \subseteq sovRemoved'
  <2>1. CASE i <= Len(sovKept)
    <3>1. sovKept[i] \in SovMessages
      BY <1>2, <1>5, <2>1, ElementOfSeq
    <3>2. sovRemoved' = sovRemoved \cup {sovKept[i]}
      BY <1>1, <2>1
    <3>3. IsFiniteSet(sovRemoved \cup {sovKept[i]})
      BY <1>5, FS_AddElement
    <3>. QED  BY <1>5, <3>1, <3>2, <3>3
  <2>2. CASE ~(i <= Len(sovKept))
    BY <1>1, <1>5, <2>2
  <2>. QED  BY <2>1, <2>2
<1>8. SovTypes'
  BY <1>1, <1>3, <1>6, <1>7 DEF SovTypes
<1>9. sovSubscribed[s] = "both" /\ \A r \in SovSubscribers : sovReplay'[r].copy = sovReplay[r].copy
  <2>1. sovSubscribed[s] # "both" => Len(sovReplay[s].copy) = 0 /\ sovReplay[s].at = 1
    BY DEF ListsHold
  <2>. QED  BY <1>1, <1>3, <2>1 DEF Sovereign!Replaying, SovTypes
<1>10. ListsHold'
  <2>1. PublishedOnce(sovKept)'
    <3>. DEFINE place(j) == IF j < i THEN j ELSE IF sovKept' = sovKept THEN j ELSE j + 1
    <3>1. \A j \in DOMAIN sovKept' :
             /\ place(j) \in DOMAIN sovKept /\ sovKept'[j] = sovKept[place(j)]
             /\ j \in Nat
      BY <1>6
    <3>2. \A j, k \in DOMAIN sovKept' : place(j) = place(k) => j = k
      BY <1>2, <3>1
    <3>. HIDE DEF place
    <3>3. PublishedOnce(sovKept)
      BY DEF ListsHold
    <3>4. \A j \in DOMAIN sovKept' : sovPublishing'[sovKept'[j]] # "no"
      BY <1>1, <3>1, <3>3 DEF PublishedOnce
    <3>5. \A j, k \in DOMAIN sovKept' : sovKept'[j] = sovKept'[k] => j = k
      BY <3>1, <3>2, <3>3 DEF PublishedOnce
    <3>. QED  BY <3>4, <3>5 DEF PublishedOnce
  <2>2. SovTypes /\ ListsHold
    OBVIOUS
  <2>3. UNCHANGED <<sovRedis, sovPublishing, sovSubscribed, sovSent>>
    BY <1>1
  <2>. HIDE DEF SovereignInv
  <2>. QED  BY <1>3, <1>9, <2>1, <2>2, <2>3, CopiesKept
<1>11. RemovalsHold'
  <2>1. \A r \in SovSubscribers \ {s} : (Sovereign!Replaying(r))' <=> Sovereign!Replaying(r)
    BY <1>3 DEF Sovereign!Replaying
  <2>2. \A r \in SovSubscribers : sovReplay'[r].heard /\ (Sovereign!Replaying(r))' =>
            sovDelivered'[r][sovReplay'[r].copy[sovReplay'[r].at]] > 0
    BY <1>1, <1>3, <2>1 DEF RemovalsHold
  <2>3. sovRemoved' = {} => sovRemoved = {} /\ sovKept' = sovKept
    BY <1>1
  <2>4. CASE i > Len(sovKept)
    <3>1. sovKept' = sovKept /\ sovRemoved' = sovRemoved
      BY <1>1, <1>2, <1>5, <2>4
    <3>2. sovRemoved' = {} => \A r \in SovSubscribers :
            /\ Len(sovReplay'[r].copy) <= Len(sovKept')
            /\ \A j \in DOMAIN sovReplay'[r].copy : sovReplay'[r].copy[j] = sovKept'[j]
      <4>1. sovRemoved = {} => \A r \in SovSubscribers :
              /\ Len(sovReplay[r].copy) <= Len(sovKept)
              /\ \A j \in DOMAIN sovReplay[r].copy : sovReplay[r].copy[j] = sovKept[j]
        BY DEF RemovalsHold
      <4>. QED  BY <1>9, <3>1, <4>1
    <3>3. \A m \in sovRemoved' : \/ \E r \in SovSubscribers : sovDelivered'[r][m] > 0
                                \/ Cardinality(sovRemoved') > 1
      BY <1>1, <3>1 DEF RemovalsHold
    <3>. QED  BY <2>2, <3>2, <3>3 DEF RemovalsHold
  <2>5. CASE i <= Len(sovKept)
    <3>1. sovRemoved' = sovRemoved \cup {sovKept[i]}
      BY <1>1, <2>5
    <3>2. CASE sovRemoved = {}
      <4>1. sovKept[i] = sovReplay[s].copy[i]
        BY <1>4, <3>2 DEF RemovalsHold
      <4>2. sovDelivered[s][sovKept[i]] > 0
        BY <1>1, <4>1 DEF RemovalsHold
      <4>. QED  BY <1>1, <2>2, <2>3, <3>1, <3>2, <4>2 DEF RemovalsHold
    <3>3. CASE sovRemoved # {}
      <4>1. CASE sovKept[i] \in sovRemoved
        <5>1. sovRemoved' = sovRemoved
          BY <3>1, <4>1
        <5>. QED  BY <1>1, <2>2, <3>3, <5>1 DEF RemovalsHold
      <4>2. CASE sovKept[i] \notin sovRemoved
        <5>1. Cardinality(sovRemoved) \in Nat /\ Cardinality(sovRemoved) # 0
          BY <1>5, <3>3, FS_CardinalityType, FS_EmptySet
        <5>2. Cardinality(sovRemoved') = Cardinality(sovRemoved) + 1
          BY <1>5, <3>1, <4>2, FS_AddElement
        <5>. QED  BY <2>2, <2>3, <3>3, <5>1, <5>2 DEF RemovalsHold
      <4>. QED  BY <4>1, <4>2
    <3>. QED  BY <3>2, <3>3
  <2>. QED  BY <1>2, <1>5, <2>4, <2>5
<1>12. WaysHold'
  <2>1. \A r \in SovSubscribers \ {s}, x \in SovMessages : Left(r, x)' <=> Left(r, x)
    BY <1>3 DEF Left
  <2>2. \A x \in SovMessages : Left(s, x)' => Left(s, x)
    <3>. SUFFICES ASSUME NEW x \in SovMessages, Left(s, x)' PROVE Left(s, x)
      OBVIOUS
    <3>1. PICK j \in DOMAIN sovReplay[s].copy : sovReplay[s].copy[j] = x /\ j >= i + 1
      BY <1>2, <1>3 DEF Left
    <3>2. j \in Nat
      BY <1>3
    <3>. QED  BY <1>2, <3>1, <3>2 DEF Left
  <2>3. \A r \in SovSubscribers, x \in SovMessages :
            Ways(r, x) \in Nat /\ Ways(r, x)' \in Nat /\ Ways(r, x)' <= Ways(r, x)
    <3>. SUFFICES ASSUME NEW r \in SovSubscribers, NEW x \in SovMessages
                  PROVE  Ways(r, x) \in Nat /\ Ways(r, x)' \in Nat /\ Ways(r, x)' <= Ways(r, x)
      OBVIOUS
    <3>1. sovDelivered[r][x] \in Nat
      BY WaysType
    <3>2. Left(r, x)' => Left(r, x)
      BY <2>1, <2>2
    <3>. QED  BY <1>1, <3>1, <3>2 DEF Ways
  <2>. QED  BY <1>1, <2>3, DeliveredWays
<1>. QED  BY <1>8, <1>10, <1>11, <1>12

LEMMA SovereignInvStep == SovereignInv /\ [Sovereign!SovereignNext]_sovVars => SovereignInv'
<1>1. ASSUME SovereignInv, UNCHANGED sovVars PROVE SovereignInv'
  <2>1. UNCHANGED <<sovRedis, sovKept, sovPublishing, sovSubscribed, sovTold, sovSent,
                    sovReplay, sovDelivered, sovEarly, sovRemoved>>
    BY <1>1 DEF sovVars
  <2>2. SovTypes' /\ ListsHold'
    BY <1>1, <2>1 DEF SovereignInv, SovTypes, ListsHold, PublishedOnce
  <2>3. RemovalsHold'
    BY <1>1, <2>1 DEF SovereignInv, RemovalsHold, Sovereign!Replaying
  <2>4. WaysHold'
    <3>1. \A s \in SovSubscribers, m \in SovMessages : Left(s, m)' <=> Left(s, m)
      BY <2>1 DEF Left
    <3>2. \A s \in SovSubscribers, m \in SovMessages : Ways(s, m)' = Ways(s, m)
      BY <2>1, <3>1 DEF Ways
    <3>. QED  BY <1>1, <2>1, <3>2 DEF SovereignInv, WaysHold
  <2>. QED  BY <2>2, <2>3, <2>4 DEF SovereignInv
<1>2. ASSUME SovereignInv, Sovereign!SovereignNext PROVE SovereignInv'
  BY <1>2, SendKeeps, TellKeeps, SubscribeLocallyKeeps, GoesOnKeeps, BeginThreadKeeps,
     PassOverKeeps, HandOverKeeps, RemoveKeeps DEF Sovereign!SovereignNext
<1>. QED  BY <1>1, <1>2

LEMMA SovereignInvShows == SovereignInv => Sovereign!OnlyCausesLoseOrRepeat
<1>. SUFFICES ASSUME SovereignInv PROVE Sovereign!OnlyCausesLoseOrRepeat
  OBVIOUS
<1>1. \A m \in sovRemoved : \/ \E s \in SovSubscribers : sovDelivered[s][m] > 0
                            \/ Cardinality(sovRemoved) > 1
  BY DEF SovereignInv, RemovalsHold
<1>2. ASSUME NEW s \in SovSubscribers, NEW m \in SovMessages
      PROVE  /\ sovDelivered[s][m] <= 2
             /\ sovDelivered[s][m] = 2 => sovRedis \/ <<m, s>> \in sovEarly
  <2>1. sovDelivered[s][m] \in Nat /\ sovDelivered[s][m] <= Ways(s, m) /\ Ways(s, m) \in Nat
    BY WaysType DEF SovereignInv, Ways
  <2>2. Ways(s, m) <= 2 /\ (Ways(s, m) = 2 => sovRedis \/ <<m, s>> \in sovEarly)
    BY DEF SovereignInv, WaysHold
  <2>. QED  BY <2>1, <2>2
<1>. QED  BY <1>1, <1>2, SovereignCardinality DEF Sovereign!OnlyCausesLoseOrRepeat

----------------------------------------------------------------------------
(* The replay of a lineage. *)

\* A set of natural numbers has a least one.
LEMMA LeastOf ==
    ASSUME NEW S \in SUBSET Nat, S # {}
    PROVE  \E m \in S : \A k \in S : m <= k
<1>. DEFINE R == OpToRel(<, Nat)
<1>1. IsWellFoundedOn(R, Nat)
  BY NatLessThanWellFounded, Zenon
<1>2. \A x, y \in Nat : x < y => <<x, y>> \in R
  BY DEF OpToRel
<1>. HIDE DEF R
<1>3. PICK m \in S : \A k \in S : ~(<<k, m>> \in R)
  BY <1>1, WFMin
<1>4. \A k \in S : k \in Nat /\ m \in Nat /\ ~(k < m)
  BY <1>2, <1>3
<1>. QED  BY <1>4

LineageEvents == [state : Replay!States, at : Nat, key : Keys]

ReplayTypes ==
    /\ clock \in Nat /\ key \in Keys /\ building \in BOOLEAN /\ forked \in BOOLEAN
    /\ latest \in Nat /\ disordered \in BOOLEAN
    /\ events \in Seq(LineageEvents)
    /\ copies \subseteq Seq(Replay!States)

\* A lineage begins with its creation, and before it is approved nobody holds a copy.
BeginningHolds ==
    /\ events # <<>> => events[1].state = "CREATED"
    /\ events = <<>> => ~building /\ copies = {}
    /\ building => copies = {} /\ Len(events) = 1
    /\ \A h \in copies : h # <<>>

\* Unless an older copy was advanced, each copy is a beginning of the lineage ...
CopiesHold ==
    ~forked => \A h \in copies :
        /\ Len(h) <= Len(events)
        /\ \A i \in 1..Len(h) : h[i] = events[i].state

\* Event i + 1 is one that the guard allows after the i before it.
Follows(i) ==
    LET next == Replay!Normal(events[i + 1].state)
    IN  /\ Replay!Lookup(Replay!Required, next, {}) \subseteq
               {Replay!Normal(events[j].state) : j \in 1..i}
        /\ next \in Replay!Lookup(Replay!Allowed, Replay!Normal(events[i].state), {})

\* ... and every event is allowed after those before it.
StepsHold == ~forked => \A i \in 1..Len(events) - 1 : Follows(i)

\* No event is later than the clock once was; and unless one was recorded when
\* the clock was behind, they are in the order of their times.
TimesHold ==
    /\ clock <= latest
    /\ \A i \in 1..Len(events) :
        /\ events[i].at <= latest
        /\ ~disordered /\ i > 1 => events[i - 1].at <= events[i].at

ReplayInv == ReplayTypes /\ BeginningHolds /\ CopiesHold /\ StepsHold /\ TimesHold

LEMMA ReplayInvInit == Replay!Init => ReplayInv
<1>. SUFFICES ASSUME Replay!Init PROVE ReplayInv
  OBVIOUS
<1>1. /\ clock \in 0..LastTime /\ key \in Keys /\ events = <<>> /\ copies = {} /\ building = FALSE
      /\ latest = clock /\ disordered = FALSE /\ forked = FALSE
  BY DEF Replay!Init
<1>2. clock \in Nat /\ events \in Seq(LineageEvents) /\ Len(events) = 0
  BY <1>1, ClockAssumption, EmptySeq
<1>3. ReplayTypes /\ BeginningHolds
  BY <1>1, <1>2 DEF ReplayTypes, BeginningHolds
<1>4. CopiesHold /\ StepsHold /\ TimesHold
  BY <1>1, <1>2 DEF CopiesHold, StepsHold, TimesHold
<1>. QED  BY <1>3, <1>4 DEF ReplayInv

\* What an event adds to a lineage that has some.
LEMMA EventAdds ==
    ASSUME ReplayTypes, NEW s \in Replay!States,
           events' = Append(events, Replay!Event(s))
    PROVE  /\ events' \in Seq(LineageEvents) /\ Len(events') = Len(events) + 1
           /\ Len(events) \in Nat
           /\ \A i \in 1..Len(events) : events'[i] = events[i]
           /\ events'[Len(events) + 1].state = s
           /\ events'[Len(events) + 1].at = clock
<1>1. Replay!Event(s) \in LineageEvents
  BY DEF Replay!Event, LineageEvents, ReplayTypes
<1>2. Replay!Event(s).state = s /\ Replay!Event(s).at = clock
  BY DEF Replay!Event
<1>. PICK new : new = Replay!Event(s)
  OBVIOUS
<1>3. events \in Seq(LineageEvents) /\ new \in LineageEvents /\ events' = Append(events, new)
  BY <1>1 DEF ReplayTypes
<1>4. /\ events' \in Seq(LineageEvents) /\ Len(events') = Len(events) + 1
      /\ \A i \in 1..Len(events) : events'[i] = events[i]
      /\ events'[Len(events) + 1] = new
  BY <1>3, AppendProperties
<1>. QED  BY <1>2, <1>3, <1>4

\* The times stay in order when an event of now is added.
LEMMA TimesKept ==
    ASSUME ReplayTypes, TimesHold, NEW s \in Replay!States,
           Replay!AppendEvent(s), UNCHANGED <<clock, latest>>
    PROVE  TimesHold'
<1>0. /\ events' = Append(events, Replay!Event(s))
      /\ disordered' = (disordered \/ clock < latest)
  BY DEF Replay!AppendEvent
<1>1. /\ events' \in Seq(LineageEvents) /\ Len(events') = Len(events) + 1
      /\ Len(events) \in Nat
      /\ \A i \in 1..Len(events) : events'[i] = events[i]
      /\ events'[Len(events) + 1].at = clock
  BY <1>0, EventAdds
<1>2. clock \in Nat /\ latest \in Nat /\ clock <= latest
      /\ (~disordered' => ~disordered /\ clock = latest)
  <2>1. clock \in Nat /\ latest \in Nat /\ clock <= latest
    BY DEF TimesHold, ReplayTypes
  <2>2. ~disordered' => ~disordered /\ ~(clock < latest)
    BY <1>0, Zenon
  <2>3. ~(clock < latest) => clock = latest
    BY <2>1
  <2>. QED  BY <2>1, <2>2, <2>3
<1>3. ASSUME NEW i \in 1..Len(events')
      PROVE  /\ events'[i].at <= latest
             /\ ~disordered' /\ i > 1 => events'[i - 1].at <= events'[i].at
  <2>1. CASE i <= Len(events)
    <3>1. i \in 1..Len(events) /\ (i > 1 => i - 1 \in 1..Len(events))
      BY <1>1, <2>1
    <3>. QED  BY <1>1, <1>2, <3>1 DEF TimesHold
  <2>2. CASE i = Len(events) + 1
    <3>1. i > 1 => i - 1 = Len(events) /\ Len(events) \in 1..Len(events)
      BY <1>1, <2>2
    <3>2. i > 1 => events[Len(events)].at <= latest /\ events'[i - 1] = events[Len(events)]
      BY <1>1, <3>1 DEF TimesHold
    <3>. QED  BY <1>1, <1>2, <2>2, <3>1, <3>2
  <2>. QED  BY <1>1, <2>1, <2>2
<1>. QED  BY <1>2, <1>3 DEF TimesHold

LEMMA BuildKeeps ==
    ASSUME ReplayInv, Replay!Build
    PROVE  ReplayInv'
<1>. USE DEF ReplayInv
<1>1. /\ events = <<>> /\ events' = <<Replay!Event("CREATED")>> /\ building' = TRUE
      /\ UNCHANGED <<clock, key, copies, latest, disordered, forked>>
  BY DEF Replay!Build
<1>2. copies = {} /\ clock \in Nat /\ clock <= latest
  BY <1>1 DEF BeginningHolds, ReplayTypes, TimesHold
<1>3. /\ events' \in Seq(LineageEvents) /\ Len(events') = 1 /\ events'[1].state = "CREATED"
      /\ events'[1].at = clock
  <2>1. Replay!Event("CREATED") \in LineageEvents
    BY DEF Replay!Event, LineageEvents, Replay!States, ReplayTypes
  <2>2. Replay!Event("CREATED").state = "CREATED" /\ Replay!Event("CREATED").at = clock
    BY DEF Replay!Event
  <2>. QED  BY <1>1, <2>1, <2>2
<1>4. ReplayTypes'
  BY <1>1, <1>3 DEF ReplayTypes
<1>5. BeginningHolds' /\ CopiesHold' /\ StepsHold'
  BY <1>1, <1>2, <1>3 DEF BeginningHolds, CopiesHold, StepsHold
<1>6. TimesHold'
  BY <1>1, <1>2, <1>3 DEF TimesHold
<1>. QED  BY <1>4, <1>5, <1>6

\* The guard lets a copy go on only as the lineage it copies may go on.
LEMMA GuardedFollows ==
    ASSUME ReplayTypes, NEW h \in Seq(Replay!States), NEW s \in Replay!States, NEW g,
           h # <<>>, Replay!GuardAccepts(h, s, g),
           Len(h) = Len(events), \A i \in 1..Len(h) : h[i] = events[i].state,
           events' = Append(events, Replay!Event(s)),
           \A i \in 1..Len(events) - 1 : Follows(i)
    PROVE  \A i \in 1..Len(events') - 1 : Follows(i)'
<1>1. /\ events' \in Seq(LineageEvents) /\ Len(events') = Len(events) + 1
      /\ Len(events) \in Nat
      /\ \A i \in 1..Len(events) : events'[i] = events[i]
      /\ events'[Len(events) + 1].state = s
  BY EventAdds
<1>2. ASSUME NEW i \in 1..Len(events) - 1 PROVE Follows(i)'
  <2>1. i \in Nat /\ i \in 1..Len(events) /\ i + 1 \in 1..Len(events)
        /\ \A j \in 1..i : j \in 1..Len(events)
    BY <1>1
  <2>2. events'[i] = events[i] /\ events'[i + 1] = events[i + 1]
        /\ \A j \in 1..i : events'[j] = events[j]
    BY <1>1, <2>1
  <2>3. Follows(i)
    OBVIOUS
  <2>. QED  BY <2>2, <2>3 DEF Follows
<1>. PICK n : n = Len(events)
  OBVIOUS
<1>3. n \in Nat \ {0} /\ Len(h) = n /\ DOMAIN h = 1..n
  BY <1>1, EmptySeq
<1>4. Follows(n)'
  <2>. PICK next : next = Replay!Normal(s)
    OBVIOUS
  <2>1. /\ Replay!Lookup(Replay!Required, next, {}) \subseteq Replay!Reached(Replay!Normalised(h))
        /\ next \in Replay!Lookup(Replay!Allowed, Replay!Last(Replay!Normalised(h)), {})
    BY DEF Replay!GuardAccepts, Replay!Prepared
  <2>2. Replay!Normalised(h) = [i \in 1..n |-> Replay!Normal(h[i])]
    BY <1>3 DEF Replay!Normalised
  <2>3. Replay!Normalised(h) \in Seq({Replay!Normal(h[i]) : i \in 1..n})
        /\ Len(Replay!Normalised(h)) = n
    BY <1>3, <2>2
  <2>4. \A i \in 1..n : Replay!Normal(h[i]) = Replay!Normal(events'[i].state)
    BY <1>1, <1>3
  <2>5. Replay!Last(Replay!Normalised(h)) = Replay!Normal(events'[n].state)
    <3>1. Replay!Last(Replay!Normalised(h)) = Replay!Normalised(h)[n]
      BY <2>3 DEF Replay!Last
    <3>2. Replay!Normalised(h)[n] = Replay!Normal(h[n]) /\ n \in 1..n
      BY <1>3, <2>2
    <3>. QED  BY <2>4, <3>1, <3>2
  <2>6. Replay!Reached(Replay!Normalised(h)) = {Replay!Normal(events'[j].state) : j \in 1..n}
    BY <2>2, <2>4 DEF Replay!Reached
  <2>7. events'[n + 1].state = s
    BY <1>1
  <2>. QED  BY <2>1, <2>5, <2>6, <2>7 DEF Follows
<1>. QED
  <2>1. \A i \in 1..Len(events') - 1 : i \in 1..Len(events) - 1 \/ i = n
    BY <1>1
  <2>. QED  BY <1>2, <1>4, <2>1

\* Appending the event of a copy that is the whole lineage keeps the copies right.
LEMMA ApproveKeeps ==
    ASSUME ReplayInv, Replay!Approve
    PROVE  ReplayInv'
<1>. USE DEF ReplayInv
<1>0. /\ Replay!AppendEvent("APPROVED") /\ UNCHANGED <<clock, latest>>
      /\ disordered' = (disordered \/ clock < latest)
  BY DEF Replay!Approve, Replay!AppendEvent
<1>1. /\ events' = Append(events, Replay!Event("APPROVED"))
      /\ building = TRUE /\ building' = FALSE /\ copies' = {<<"CREATED", "APPROVED">>}
      /\ UNCHANGED <<clock, key, latest, forked>> /\ disordered' \in BOOLEAN
  BY <1>0 DEF Replay!Approve, Replay!AppendEvent, ReplayTypes
<1>2. "APPROVED" \in Replay!States /\ "CREATED" \in Replay!States
  BY DEF Replay!States
<1>3. Len(events) = 1 /\ events[1].state = "CREATED" /\ ReplayTypes
  <2>1. Len(events) = 1
    BY <1>1 DEF BeginningHolds
  <2>. QED  BY <2>1, EmptySeq DEF BeginningHolds
<1>4. /\ events' \in Seq(LineageEvents) /\ Len(events') = 2
      /\ events'[1] = events[1] /\ events'[2].state = "APPROVED"
  BY <1>1, <1>2, <1>3, EventAdds
<1>5. ReplayTypes'
  <2>1. <<"CREATED", "APPROVED">> \in Seq(Replay!States)
    BY <1>2
  <2>. QED  BY <1>1, <1>4, <2>1 DEF ReplayTypes
<1>6. BeginningHolds'
  BY <1>1, <1>3, <1>4 DEF BeginningHolds
<1>7. CopiesHold'
  BY <1>1, <1>3, <1>4 DEF CopiesHold
<1>8. StepsHold'
  <2>1. Follows(1)'
    <3>1. Replay!Normal("APPROVED") = "APPROVED" /\ Replay!Normal("CREATED") = "CREATED"
      BY DEF Replay!Normal
    <3>2. /\ Replay!Lookup(Replay!Required, "APPROVED", {}) = {"CREATED"}
          /\ "APPROVED" \in Replay!Lookup(Replay!Allowed, "CREATED", {})
      BY DEF Replay!Lookup, Replay!Required, Replay!Allowed
    <3>3. events'[1 + 1].state = "APPROVED" /\ events'[1].state = "CREATED"
      BY <1>3, <1>4
    <3>. QED  BY <3>1, <3>2, <3>3 DEF Follows
  <2>2. \A i \in 1..Len(events') - 1 : i = 1
    BY <1>4
  <2>. QED  BY <2>1, <2>2 DEF StepsHold
<1>9. TimesHold'
  BY <1>0, <1>2, <1>3, TimesKept
<1>. QED  BY <1>5, <1>6, <1>7, <1>8, <1>9

LEMMA AdvanceKeeps ==
    ASSUME ReplayInv, NEW h \in copies, NEW s \in Replay!States, NEW g, Replay!Advance(h, s, g)
    PROVE  ReplayInv'
<1>. USE DEF ReplayInv
<1>0. Replay!AppendEvent(s) /\ UNCHANGED <<clock, latest>>
  BY DEF Replay!Advance
<1>1. /\ events' = Append(events, Replay!Event(s)) /\ copies' = copies \cup {Append(h, s)}
      /\ forked' = (forked \/ Len(h) # Len(events))
      /\ Replay!GuardAccepts(h, s, g)
      /\ UNCHANGED <<clock, key, building, latest>> /\ disordered' \in BOOLEAN
  BY DEF Replay!Advance, Replay!AppendEvent, Replay!MayAdvance
<1>2. /\ h \in Seq(Replay!States) /\ h # <<>> /\ ReplayTypes /\ events # <<>> /\ ~building
      /\ events[1].state = "CREATED"
  BY DEF ReplayTypes, BeginningHolds
<1>3. /\ events' \in Seq(LineageEvents) /\ Len(events') = Len(events) + 1
      /\ Len(events) \in Nat
      /\ \A i \in 1..Len(events) : events'[i] = events[i]
      /\ events'[Len(events) + 1].state = s
  BY <1>1, <1>2, EventAdds
<1>4. Len(events) > 0 /\ events'[1] = events[1] /\ events' # <<>>
  <2>1. Len(events) # 0
    BY <1>2, EmptySeq DEF ReplayTypes
  <2>. QED  BY <1>3, <2>1, EmptySeq
<1>5. /\ Append(h, s) \in Seq(Replay!States) /\ Len(Append(h, s)) = Len(h) + 1
      /\ \A i \in 1..Len(h) : Append(h, s)[i] = h[i]
      /\ Append(h, s)[Len(h) + 1] = s /\ Append(h, s) # <<>> /\ Len(h) \in Nat
  BY <1>2, AppendProperties, EmptySeq
<1>6. ReplayTypes'
  BY <1>1, <1>2, <1>3, <1>5 DEF ReplayTypes
<1>7. BeginningHolds'
  BY <1>1, <1>2, <1>4, <1>5 DEF BeginningHolds
<1>8. ~forked' => /\ ~forked /\ Len(h) = Len(events)
                  /\ \A i \in 1..Len(h) : h[i] = events[i].state
  BY <1>1 DEF CopiesHold, ReplayTypes
<1>9. CopiesHold'
  <2>. SUFFICES ASSUME ~forked', NEW c \in copies'
                PROVE  /\ Len(c) <= Len(events')
                       /\ \A i \in 1..Len(c) : c[i] = events'[i].state
    BY DEF CopiesHold
  <2>1. CASE c \in copies
    <3>1. Len(c) <= Len(events) /\ \A i \in 1..Len(c) : c[i] = events[i].state
      BY <1>8, <2>1 DEF CopiesHold
    <3>2. Len(c) \in Nat
      BY <2>1 DEF ReplayTypes
    <3>. QED  BY <1>3, <3>1, <3>2
  <2>2. CASE c = Append(h, s)
    <3>1. \A i \in 1..Len(c) : i \in 1..Len(h) \/ i = Len(h) + 1
      BY <1>5, <2>2
    <3>. QED  BY <1>3, <1>5, <1>8, <2>2, <3>1
  <2>. QED  BY <1>1, <2>1, <2>2
<1>10. StepsHold'
  <2>. SUFFICES ASSUME ~forked' PROVE \A i \in 1..Len(events') - 1 : Follows(i)'
    BY DEF StepsHold
  <2>1. \A i \in 1..Len(events) - 1 : Follows(i)
    BY <1>8 DEF StepsHold
  <2>2. Len(h) = Len(events) /\ \A i \in 1..Len(h) : h[i] = events[i].state
    BY <1>8
  <2>. HIDE DEF ReplayInv
  <2>. QED  BY <1>1, <1>2, <2>1, <2>2, GuardedFollows
<1>11. TimesHold'
  BY <1>0, <1>2, TimesKept
<1>. QED  BY <1>6, <1>7, <1>9, <1>10, <1>11

LEMMA ClockKeeps ==
    ASSUME ReplayInv,
           \/ Replay!Tick
           \/ \E t \in 0..LastTime : Replay!SetClockBack(t)
           \/ \E k \in Keys : Replay!Restart(k)
    PROVE  ReplayInv'
<1>. USE DEF ReplayInv
<1>1. /\ UNCHANGED <<events, disordered, forked>> /\ clock' \in Nat /\ key' \in Keys
      /\ latest' \in Nat /\ clock' <= latest'
      /\ \/ copies' = copies /\ building' = building
         \/ copies' = {} /\ building' = FALSE
      /\ events = <<>> \/ latest' >= latest
  <2>0. clock \in Nat /\ latest \in Nat /\ clock <= latest /\ key \in Keys
    BY DEF ReplayTypes, TimesHold
  <2>1. CASE Replay!Tick
    BY <2>0, <2>1 DEF Replay!Tick
  <2>2. CASE \E t \in 0..LastTime : Replay!SetClockBack(t)
    <3>. PICK t \in 0..LastTime : Replay!SetClockBack(t)
      BY <2>2
    <3>1. /\ clock' = t /\ UNCHANGED <<key, events, copies, building, disordered, forked>>
          /\ latest' = (IF events = <<>> THEN t ELSE latest) /\ t < clock
      BY DEF Replay!SetClockBack
    <3>2. t \in Nat /\ LastTime \in Nat
      BY ClockAssumption
    <3>. QED  BY <2>0, <3>1, <3>2
  <2>3. CASE \E k \in Keys : Replay!Restart(k)
    BY <2>0, <2>3 DEF Replay!Restart
  <2>. QED  BY <2>1, <2>2, <2>3
<1>2. ReplayTypes'
  BY <1>1 DEF ReplayTypes
<1>3. BeginningHolds'
  BY <1>1 DEF BeginningHolds
<1>4. CopiesHold' /\ StepsHold'
  <2>1. \A i \in 1..Len(events) - 1 : Follows(i)' <=> Follows(i)
    BY <1>1 DEF Follows
  <2>. QED  BY <1>1, <2>1 DEF CopiesHold, StepsHold
<1>5. TimesHold'
  <2>. SUFFICES ASSUME NEW i \in 1..Len(events)
                PROVE  /\ events[i].at <= latest'
                       /\ ~disordered /\ i > 1 => events[i - 1].at <= events[i].at
    BY <1>1 DEF TimesHold
  <2>1. /\ events[i].at <= latest
        /\ ~disordered /\ i > 1 => events[i - 1].at <= events[i].at
    BY DEF TimesHold
  <2>2. events # <<>> /\ events[i] \in LineageEvents /\ latest \in Nat
    BY DEF ReplayTypes
  <2>3. events[i].at \in Nat
    BY <2>2 DEF LineageEvents
  <2>. QED  BY <1>1, <2>1, <2>2, <2>3
<1>. QED  BY <1>2, <1>3, <1>4, <1>5

LEMMA ReplayInvStep == ReplayInv /\ [Replay!Next]_replayVars => ReplayInv'
<1>1. ASSUME ReplayInv, UNCHANGED replayVars PROVE ReplayInv'
  <2>1. UNCHANGED <<clock, key, events, copies, building, latest, disordered, forked>>
    BY <1>1 DEF replayVars
  <2>2. ReplayTypes' /\ BeginningHolds' /\ CopiesHold'
    BY <1>1, <2>1 DEF ReplayInv, ReplayTypes, BeginningHolds, CopiesHold
  <2>3. StepsHold' /\ TimesHold'
    BY ZenonT(40), <1>1, <2>1 DEF ReplayInv, StepsHold, Follows, TimesHold
  <2>. QED  BY <2>2, <2>3 DEF ReplayInv
<1>2. ASSUME ReplayInv, Replay!Next PROVE ReplayInv'
  <2>1. \/ Replay!Build \/ Replay!Approve \/ Replay!Tick
        \/ \E h \in copies, s \in Replay!States, g \in Replay!States \cup {"none"} :
              Replay!Advance(h, s, g)
        \/ \E t \in 0..LastTime : Replay!SetClockBack(t)
        \/ \E k \in Keys : Replay!Restart(k)
    BY <1>2, Zenon DEF Replay!Next
  <2>. QED  BY <1>2, <2>1, BuildKeeps, ApproveKeeps, AdvanceKeeps, ClockKeeps
<1>. QED  BY <1>1, <1>2

\* Without an illegal step for the guard there is none for the contract either.
LEMMA AllowedIsLegal ==
    ASSUME NEW s \in Replay!States, NEW next \in Replay!States,
           Replay!Normal(next) \in Replay!Lookup(Replay!Allowed, Replay!Normal(s), {})
    PROVE  next \in Replay!Legal[s] /\ s \notin Replay!TerminalStates
<1>1. CASE s = "CREATED"
  BY <1>1 DEF Replay!States, Replay!Normal, Replay!Lookup, Replay!Allowed, Replay!Legal,
              Replay!TerminalStates
<1>2. CASE s = "APPROVED"
  BY <1>2 DEF Replay!States, Replay!Normal, Replay!Lookup, Replay!Allowed, Replay!Legal,
              Replay!TerminalStates
<1>3. CASE s = "EXECUTED"
  BY <1>3 DEF Replay!States, Replay!Normal, Replay!Lookup, Replay!Allowed, Replay!Legal,
              Replay!TerminalStates
<1>4. CASE s = "COMPLETED" \/ s = "FAILED"
  BY <1>4 DEF Replay!States, Replay!Normal, Replay!Lookup, Replay!Allowed
<1>. QED  BY <1>1, <1>2, <1>3, <1>4 DEF Replay!States

LEMMA HistorySays ==
    ASSUME ReplayTypes, events # <<>>
    PROVE  /\ Replay!StatesOf(events) \in Seq(Replay!States)
           /\ Len(Replay!StatesOf(events)) = Len(events) /\ Len(events) \in Nat \ {0}
           /\ \A i \in 1..Len(events) :
                 /\ events[i] \in LineageEvents
                 /\ Replay!StatesOf(events)[i] = events[i].state
                 /\ events[i].state \in Replay!States
<1>1. events \in Seq(LineageEvents) /\ DOMAIN events = 1..Len(events) /\ Len(events) \in Nat \ {0}
  BY EmptySeq DEF ReplayTypes
<1>2. \A i \in 1..Len(events) : events[i] \in LineageEvents /\ events[i].state \in Replay!States
  <2>1. \A i \in 1..Len(events) : events[i] \in LineageEvents
    BY <1>1, ElementOfSeq
  <2>2. \A x \in LineageEvents : x.state \in Replay!States
    BY DEF LineageEvents
  <2>. QED  BY <2>1, <2>2
<1>3. Replay!StatesOf(events) = [i \in 1..Len(events) |-> events[i].state]
  BY <1>1 DEF Replay!StatesOf
<1>. QED  BY <1>1, <1>2, <1>3

\* What the guard accepts of a replayed history is what the steps say of it.
LEMMA HistoryIsSteps ==
    ASSUME ReplayTypes, events # <<>>
    PROVE  Replay!HistoryAccepted(Replay!StatesOf(events)) <=>
               /\ events[1].state = "CREATED"
               /\ \A i \in 1..Len(events) - 1 : Follows(i)
<1>. PICK n : n = Len(events)
  OBVIOUS
<1>. PICK h : h = Replay!StatesOf(events)
  OBVIOUS
<1>1. /\ h \in Seq(Replay!States) /\ Len(h) = n /\ n \in Nat \ {0} /\ DOMAIN h = 1..n
      /\ \A i \in 1..n : h[i] = events[i].state /\ h[i] \in Replay!States
  BY HistorySays
<1>. PICK past : past = Replay!Normalised(h)
  OBVIOUS
<1>2. past = [i \in 1..n |-> Replay!Normal(h[i])]
  BY <1>1 DEF Replay!Normalised
<1>. DEFINE Words == {Replay!Normal(s) : s \in Replay!States}
<1>3. past \in Seq(Words) /\ Len(past) = n /\ past # <<>> /\ DOMAIN past = 1..n
  BY <1>1, <1>2
<1>4. past[1] = "CREATED" <=> events[1].state = "CREATED"
  BY <1>1, <1>2 DEF Replay!Normal, Replay!States
<1>5. ASSUME NEW i \in 1..n - 1
      PROVE  /\ Replay!Prepared(SubSeq(past, 1, i), past[i + 1])
             /\ past[i + 1] \in Replay!Lookup(Replay!Allowed, past[i], {})
             <=> Follows(i)
  <2>1. i \in 1..n /\ i + 1 \in 1..n /\ \A j \in 1..i : j \in 1..n
    BY <1>1
  <2>2. /\ past[i] = Replay!Normal(events[i].state)
        /\ past[i + 1] = Replay!Normal(events[i + 1].state)
        /\ \A j \in 1..i : past[j] = Replay!Normal(events[j].state) /\ past[j] \in Words
    BY <1>1, <1>2, <2>1
  <2>. HIDE DEF Words
  <2>3. /\ SubSeq(past, 1, i) \in Seq(Words) /\ Len(SubSeq(past, 1, i)) = i
        /\ \A j \in 1..i : SubSeq(past, 1, i)[j] = past[j]
    <3>1. 1 \in Int /\ i \in Int /\ 1 <= i /\ \A j \in 1..i : past[j] \in Words
      BY <1>1, <2>2
    <3>2. /\ SubSeq(past, 1, i) \in Seq(Words)
          /\ Len(SubSeq(past, 1, i)) = IF 1 <= i THEN i - 1 + 1 ELSE 0
          /\ \A j \in 1..i - 1 + 1 : SubSeq(past, 1, i)[j] = past[1 + j - 1]
      BY <3>1, SubSeqProperties
    <3>3. ASSUME NEW j \in 1..i PROVE SubSeq(past, 1, i)[j] = past[j]
      <4>1. 1 + j - 1 = j /\ j \in 1..i - 1 + 1
        BY <3>1
      <4>. QED  BY <3>2, <4>1
    <3>. QED  BY <3>1, <3>2, <3>3
  <2>4. DOMAIN SubSeq(past, 1, i) = 1..i
    BY <2>3, LenProperties
  <2>. PICK front : front = SubSeq(past, 1, i)
    OBVIOUS
  <2>5. Replay!Reached(front) = {Replay!Normal(events[j].state) : j \in 1..i}
    <3>0. DOMAIN front = 1..i
      BY <2>4
    <3>1. Replay!Reached(front) = {front[j] : j \in 1..i}
      BY <3>0 DEF Replay!Reached
    <3>2. \A j \in 1..i : front[j] = Replay!Normal(events[j].state)
      BY <2>2, <2>3
    <3>3. {front[j] : j \in 1..i} = {Replay!Normal(events[j].state) : j \in 1..i}
      BY <3>2, Zenon
    <3>. QED  BY <3>1, <3>3
  <2>. QED  BY <2>2, <2>5 DEF Replay!Prepared, Follows
<1>. QED  BY <1>3, <1>4, <1>5 DEF Replay!HistoryAccepted

LEMMA AcceptedWalks ==
    ASSUME ReplayTypes, events # <<>>, Replay!HistoryAccepted(Replay!StatesOf(events))
    PROVE  Replay!Walks(Replay!StatesOf(events))
<1>. PICK h : h = Replay!StatesOf(events)
  OBVIOUS
<1>1. /\ Len(h) = Len(events) /\ Len(events) \in Nat \ {0}
      /\ \A i \in 1..Len(events) : h[i] = events[i].state /\ h[i] \in Replay!States
  BY HistorySays
<1>2. events[1].state = "CREATED" /\ \A i \in 1..Len(events) - 1 : Follows(i)
  BY HistoryIsSteps
<1>3. h[1] = "CREATED"
  BY <1>1, <1>2
<1>4. ASSUME NEW i \in 1..Len(h) - 1
      PROVE  h[i + 1] \in Replay!Legal[h[i]] /\ h[i] \notin Replay!TerminalStates
  <2>1. i \in 1..Len(events) /\ i + 1 \in 1..Len(events) /\ i \in 1..Len(events) - 1
    BY <1>1
  <2>2. h[i] \in Replay!States /\ h[i + 1] \in Replay!States
    BY <1>1, <2>1
  <2>3. Replay!Normal(h[i + 1]) \in Replay!Lookup(Replay!Allowed, Replay!Normal(h[i]), {})
    BY <1>1, <1>2, <2>1 DEF Follows
  <2>4. \A now, next \in Replay!States :
           Replay!Normal(next) \in Replay!Lookup(Replay!Allowed, Replay!Normal(now), {}) =>
               next \in Replay!Legal[now] /\ now \notin Replay!TerminalStates
    BY AllowedIsLegal
  <2>. QED  BY <2>2, <2>3, <2>4
<1>. QED  BY <1>3, <1>4 DEF Replay!Walks

LEMMA ReplayInvShows == ReplayInv => Replay!HonestLineagesReplay
<1>. SUFFICES ASSUME ReplayInv, events # <<>>
              PROVE  LET answer == Replay!VerifyAnswer(events)
                         behind == latest - clock > ClockSkew
                     IN  /\ \/ Replay!ReplayAccepts(events) \/ behind \/ disordered \/ forked
                            \/ Replay!Replaced
                         /\ answer.valid = Replay!ReplayAccepts(events)
                         /\ answer.hash \/ behind \/ Replay!Replaced
                         /\ answer.fsm
  BY DEF Replay!HonestLineagesReplay
<1>. USE DEF ReplayInv
<1>. DEFINE behind == latest - clock > ClockSkew
<1>. PICK error : error = Replay!ReplayError(events)
  OBVIOUS
<1>. PICK h : h = Replay!StatesOf(events)
  OBVIOUS
<1>. PICK bad : bad = {i \in DOMAIN events : Replay!Complaint(events, i) # "none"}
  OBVIOUS
<1>1. /\ Len(events) \in Nat \ {0} /\ DOMAIN events = 1..Len(events)
      /\ events[1].state = "CREATED"
      /\ \A i \in 1..Len(events) : events[i] \in LineageEvents
  BY HistorySays DEF BeginningHolds, ReplayTypes
<1>2. clock \in Nat /\ latest \in Nat /\ ClockSkew \in Nat
      /\ \A i \in 1..Len(events) : events[i].at \in Nat
  BY <1>1, ClockAssumption DEF LineageEvents, ReplayTypes
<1>3. \A i \in DOMAIN events :
         Replay!Complaint(events, i) \in
            {"none", "INVALID_SIGNATURE", "TIMESTAMP_IN_FUTURE", "NON_DETERMINISTIC_ORDER"}
  BY DEF Replay!Complaint
<1>4. bad = {} <=> Replay!ChainVerifies(events)
  <2>1. \A i \in DOMAIN events : Replay!Complaint(events, i) = "none" <=>
           /\ events[i].key = key
           /\ events[i].at <= clock + ClockSkew
           /\ i > 1 => events[i - 1].at <= events[i].at
    <3>. SUFFICES ASSUME NEW i \in DOMAIN events
                  PROVE  Replay!Complaint(events, i) = "none" <=>
                           /\ events[i].key = key
                           /\ events[i].at <= clock + ClockSkew
                           /\ i > 1 => events[i - 1].at <= events[i].at
      OBVIOUS
    <3>1. events[i].at \in Nat /\ (i > 1 => events[i - 1].at \in Nat)
      BY <1>1, <1>2
    <3>. QED  BY <1>2, <3>1 DEF Replay!Complaint
  <2>2. Replay!ChainVerifies(events) <=> \A i \in DOMAIN events :
           /\ events[i].key = key
           /\ events[i].at <= clock + ClockSkew
           /\ i > 1 => events[i - 1].at <= events[i].at
    BY <1>1 DEF Replay!ChainVerifies
  <2>. QED  BY <2>1, <2>2
<1>5. bad # {} => \E i \in bad : error = Replay!Complaint(events, i)
  <2>. SUFFICES ASSUME bad # {} PROVE \E i \in bad : error = Replay!Complaint(events, i)
    OBVIOUS
  <2>1. bad \in SUBSET Nat
    BY <1>1
  <2>2. \E i \in bad : \A j \in bad : i <= j
    BY <2>1, LeastOf
  <2>. PICK i : i = (CHOOSE k \in bad : \A j \in bad : k <= j)
    OBVIOUS
  <2>3. i \in bad
    BY <2>2
  <2>4. error = Replay!Complaint(events, i)
    BY <1>1 DEF Replay!ReplayError
  <2>. QED  BY <2>3, <2>4
<1>6. bad # {} => error \in {"INVALID_SIGNATURE", "TIMESTAMP_IN_FUTURE", "NON_DETERMINISTIC_ORDER"}
  BY <1>3, <1>5
<1>7. bad = {} => error = IF ~Replay!HistoryAccepted(h) THEN "SEMANTIC VIOLATION"
                          ELSE IF ~Replay!Walks(h) THEN "ILLEGAL" ELSE "none"
  BY <1>1 DEF Replay!ReplayError
<1>8. Replay!HistoryAccepted(h) => Replay!Walks(h)
  BY AcceptedWalks
<1>9. Replay!ReplayAccepts(events) <=> Replay!ChainVerifies(events) /\ Replay!HistoryAccepted(h)
  BY <1>8 DEF Replay!ReplayAccepts, Replay!Consistent
<1>10. /\ error = "none" <=> Replay!ReplayAccepts(events)
      /\ error \notin {"EXECUTION_NOT_FOUND", "ILLEGAL"}
  BY <1>4, <1>6, <1>7, <1>8, <1>9
<1>11. ~behind => \A i \in DOMAIN events : events[i].at <= clock + ClockSkew
  <2>. SUFFICES ASSUME ~behind, NEW i \in DOMAIN events
                PROVE  events[i].at <= clock + ClockSkew
    OBVIOUS
  <2>1. events[i].at <= latest /\ events[i].at \in Nat
    BY <1>1, <1>2 DEF TimesHold
  <2>. QED  BY <1>2, <2>1
<1>. HIDE DEF behind
<1>12. ~behind /\ ~disordered /\ ~Replay!Replaced => Replay!ChainVerifies(events)
  <2>. SUFFICES ASSUME ~behind, ~disordered, ~Replay!Replaced PROVE Replay!ChainVerifies(events)
    OBVIOUS
  <2>1. \A i \in DOMAIN events : events[i].key = key
    BY DEF Replay!Replaced
  <2>2. \A i \in DOMAIN events : i > 1 => events[i - 1].at <= events[i].at
    BY <1>1 DEF TimesHold
  <2>. QED  BY <1>1, <1>11, <2>1, <2>2 DEF Replay!ChainVerifies
<1>13. ~behind /\ ~Replay!Replaced =>
         error \notin {"INVALID_SIGNATURE", "TIMESTAMP_IN_FUTURE"}
  <2>. SUFFICES ASSUME ~behind, ~Replay!Replaced
                PROVE  error \notin {"INVALID_SIGNATURE", "TIMESTAMP_IN_FUTURE"}
    OBVIOUS
  <2>1. \A i \in DOMAIN events : events[i].key = key /\ events[i].at <= clock + ClockSkew
    BY <1>11 DEF Replay!Replaced
  <2>2. \A i \in DOMAIN events : /\ events[i].at \in Nat /\ clock + ClockSkew \in Nat
                                 /\ ~(events[i].at > clock + ClockSkew)
    BY <1>1, <1>2, <2>1
  <2>3. \A i \in DOMAIN events :
           Replay!Complaint(events, i) \in {"none", "NON_DETERMINISTIC_ORDER"}
    BY <2>1, <2>2 DEF Replay!Complaint
  <2>4. CASE bad # {}
    BY <1>5, <2>3, <2>4
  <2>5. CASE bad = {}
    BY <1>7, <2>5
  <2>. QED  BY <2>4, <2>5
<1>14. ~forked => Replay!HistoryAccepted(h)
  BY <1>1, HistoryIsSteps DEF StepsHold
<1>15. \/ Replay!ReplayAccepts(events) \/ behind \/ disordered \/ forked \/ Replay!Replaced
  BY <1>9, <1>12, <1>14
<1>16. error \notin {"INVALID_SIGNATURE", "TIMESTAMP_IN_FUTURE"} \/ behind \/ Replay!Replaced
  BY <1>13
<1>. PICK answer : answer = Replay!VerifyAnswer(events)
  OBVIOUS
<1>17. /\ answer.valid = (error = "none")
       /\ answer.hash = (error \notin {"EXECUTION_NOT_FOUND", "INVALID_SIGNATURE",
                                       "TIMESTAMP_IN_FUTURE"})
       /\ answer.fsm = (error \notin {"EXECUTION_NOT_FOUND", "ILLEGAL"})
  BY DEF Replay!VerifyAnswer
<1>18. answer.valid = Replay!ReplayAccepts(events)
  BY <1>10, <1>17 DEF Replay!ReplayAccepts
<1>19. answer.fsm /\ (answer.hash \/ behind \/ Replay!Replaced)
  BY <1>10, <1>16, <1>17
<1>. QED  BY <1>15, <1>18, <1>19 DEF behind

----------------------------------------------------------------------------
(* The evidence log. *)

LogEvents == [exec : Logged \cup {NoExecution}, seq : Nat, id : Nat, prev : Nat]

LogTypes ==
    /\ logLines \in Seq(LogEvents) /\ fragment \in BOOLEAN
    /\ fragment => logLines # <<>>
    /\ known \in [Threads -> [Logged -> [seq : Nat, last : Nat]]]
    /\ acked \in [Logged -> Seq(LogEvents)]
    /\ late \subseteq LogEvents
    /\ logNextId \in Nat \ {0}

\* The events of e that were written as a whole, lost by now or not.
Given(e) == Log!Acked(e) \cup Log!Late(e)

\* Identities are given once.
EventsHold(e) ==
    /\ \A i \in DOMAIN acked[e] : acked[e][i].exec = e
    /\ \A x \in Given(e) : x.seq > 0 /\ x.id > 0 /\ x.id < logNextId
    /\ \A x, y \in Given(e) : x.id = y.id => x = y

\* Some event of e has this number and this hash, or both are those of none.
Names(e, seq, id) ==
    \/ seq = 0 /\ id = 0
    \/ \E w \in Given(e) : w.seq = seq /\ w.id = id

\* x follows the event w: it names it, or it leaves out a number.
Succeeds(x, w) == x.seq > w.seq /\ (x.prev = w.id \/ x.seq > w.seq + 1)

\* What an object knows, and what an event names, is an event; the acknowledged
\* ones follow each other; and one of the events is the first.
ChainHolds(e) ==
    /\ \A m \in Threads : Names(e, known[m][e].seq, known[m][e].last)
    /\ \A x \in Given(e) : \E n \in Nat : x.seq = n + 1 /\ Names(e, n, x.prev)
    /\ \A i, j \in DOMAIN acked[e] : i < j => acked[e][i].seq < acked[e][j].seq
    /\ \A i \in DOMAIN acked[e] : i > 1 => Succeeds(acked[e][i], acked[e][i - 1])
    /\ Given(e) # {} => \E o \in Given(e) : o.prev = 0

\* x, written without its newline, follows the newest acknowledged event.
LateLast(e, x) ==
    x \in late /\ (acked[e] # <<>> => Succeeds(x, acked[e][Len(acked[e])]))

\* The lines of e are acknowledged, but for the last one; they are in order.
LinesHold(e) ==
    /\ \A i \in DOMAIN logLines : logLines[i].exec = e =>
          \/ logLines[i] \in Log!Acked(e)
          \/ i = Len(logLines) /\ fragment /\ LateLast(e, logLines[i])
    /\ \A i, j \in DOMAIN logLines :
          i < j /\ logLines[i].exec = e /\ logLines[j].exec = e =>
              logLines[i].seq < logLines[j].seq

\* No number is as great as the next identity.
NumbersHold ==
    /\ \A i \in DOMAIN logLines : logLines[i].seq < logNextId
    /\ \A m \in Threads, e \in Logged : known[m][e].seq < logNextId

LogInv ==
    /\ LogTypes /\ NumbersHold
    /\ \A e \in Logged : EventsHold(e)
    /\ \A e \in Logged \ blind : ChainHolds(e) /\ LinesHold(e)

LEMMA LogInvInit == Log!Init => LogInv
<1>. SUFFICES ASSUME Log!Init PROVE LogInv
  OBVIOUS
<1>1. /\ logLines = <<>> /\ fragment = FALSE /\ late = {} /\ blind = {} /\ logNextId = 1
      /\ known = [m \in Threads |-> [e \in Logged |-> Log!Nobody]]
      /\ acked = [e \in Logged |-> <<>>]
  BY DEF Log!Init
<1>2. Log!Nobody \in [seq : Nat, last : Nat] /\ Log!Nobody.seq = 0 /\ Log!Nobody.last = 0
  BY DEF Log!Nobody, Log!NoHash
<1>3. LogTypes
  <2>1. /\ logLines \in Seq(LogEvents) /\ acked \in [Logged -> Seq(LogEvents)]
        /\ known \in [Threads -> [Logged -> [seq : Nat, last : Nat]]]
    BY <1>1, <1>2, EmptySeq
  <2>2. fragment \in BOOLEAN /\ ~fragment
    BY <1>1
  <2>3. late \subseteq LogEvents /\ logNextId \in Nat \ {0}
    BY <1>1
  <2>. QED  BY <2>1, <2>2, <2>3, Zenon DEF LogTypes
<1>4. \A e \in Logged : acked[e] = <<>> /\ Given(e) = {}
  BY <1>1 DEF Given, Log!Acked, Log!Late
<1>5. \A e \in Logged : EventsHold(e)
  BY <1>4 DEF EventsHold
<1>6. \A e \in Logged : LinesHold(e)
  BY <1>1 DEF LinesHold
<1>7. \A e \in Logged, m \in Threads : known[m][e] = Log!Nobody
  BY <1>1
<1>8. \A e \in Logged : ChainHolds(e)
  BY <1>2, <1>4, <1>7 DEF ChainHolds, Names
<1>9. NumbersHold
  BY <1>1, <1>2, <1>7 DEF NumbersHold
<1>. QED  BY <1>3, <1>5, <1>6, <1>8, <1>9 DEF LogInv

LEMMA NewEventSays ==
    ASSUME LogTypes, NEW m \in Threads, NEW e \in Logged
    PROVE  /\ Log!NewEvent(m, e) \in LogEvents
           /\ Log!NewEvent(m, e).exec = e
           /\ Log!NewEvent(m, e).seq = known[m][e].seq + 1
           /\ Log!NewEvent(m, e).id = logNextId
           /\ Log!NewEvent(m, e).prev = known[m][e].last
           /\ known[m][e].seq \in Nat /\ known[m][e].last \in Nat
<1>1. known[m][e] \in [seq : Nat, last : Nat] /\ logNextId \in Nat
  BY DEF LogTypes
<1>2. known[m][e].seq \in Nat /\ known[m][e].last \in Nat
  BY <1>1
<1>. QED  BY <1>1, <1>2 DEF Log!NewEvent, LogEvents

LEMMA JunkSays == Log!Junk \in LogEvents /\ \A e \in Logged : Log!Junk.exec # e
BY LogAssumption DEF Log!Junk, Log!NoHash, LogEvents

\* A line is added, or the fragment it is glued to becomes unreadable.
LEMMA LogWrittenSays ==
    ASSUME LogTypes, NEW line \in LogEvents, logLines' = Log!Written(line)
    PROVE  /\ logLines' \in Seq(LogEvents) /\ logLines' # <<>>
           /\ \A i \in DOMAIN logLines' :
                 \/ /\ i \in DOMAIN logLines /\ logLines'[i] = logLines[i]
                    /\ fragment => i # Len(logLines)
                    /\ i < Len(logLines')
                 \/ /\ i = Len(logLines')
                    /\ logLines'[i] = IF fragment THEN Log!Junk ELSE line
<1>1. /\ logLines \in Seq(LogEvents) /\ DOMAIN logLines = 1..Len(logLines)
      /\ Len(logLines) \in Nat
  BY DEF LogTypes
<1>2. CASE fragment
  <2>1. logLines' = [logLines EXCEPT ![Len(logLines)] = Log!Junk] /\ logLines # <<>>
    BY <1>2 DEF Log!Written, LogTypes
  <2>2. Len(logLines) \in 1..Len(logLines)
    BY <1>1, <2>1, EmptySeq
  <2>. PICK n : n = Len(logLines)
    OBVIOUS
  <2>. PICK junk : junk = Log!Junk
    OBVIOUS
  <2>3. n \in 1..Len(logLines) /\ junk \in LogEvents /\ logLines' = [logLines EXCEPT ![n] = junk]
    BY <2>1, <2>2, JunkSays
  <2>4. /\ logLines' \in Seq(LogEvents) /\ Len(logLines') = Len(logLines)
        /\ \A j \in 1..Len(logLines) : logLines'[j] = IF j = n THEN junk ELSE logLines[j]
    BY <1>1, <2>3, ExceptSeq
  <2>5. DOMAIN logLines' = 1..n
    BY <2>4, LenProperties
  <2>6. \A i \in DOMAIN logLines' :
                 \/ /\ i \in DOMAIN logLines /\ logLines'[i] = logLines[i]
                    /\ i # Len(logLines) /\ i < Len(logLines')
                 \/ i = Len(logLines') /\ logLines'[i] = junk
    BY <1>1, <2>4, <2>5
  <2>7. logLines' # <<>>
    BY <1>1, <2>2, <2>4, EmptySeq
  <2>. QED  BY <1>2, <2>4, <2>6, <2>7
<1>3. CASE ~fragment
  <2>1. logLines' = Append(logLines, line)
    BY <1>3 DEF Log!Written
  <2>2. /\ logLines' \in Seq(LogEvents) /\ Len(logLines') = Len(logLines) + 1
        /\ \A i \in 1..Len(logLines) : logLines'[i] = logLines[i]
        /\ logLines'[Len(logLines) + 1] = line
    BY <1>1, <2>1, AppendProperties
  <2>3. DOMAIN logLines' = 1..Len(logLines) + 1
    BY <1>1, <2>2
  <2>. QED  BY <1>1, <1>3, <2>2, <2>3, EmptySeq
<1>. QED  BY <1>2, <1>3 DEF LogTypes

\* An object that is not behind writes an event that follows the newest one.
LEMMA NotBehindSucceeds ==
    ASSUME LogTypes, NEW m \in Threads, NEW e \in Logged, ~Log!Behind(m, e), acked[e] # <<>>
    PROVE  Succeeds(Log!NewEvent(m, e), acked[e][Len(acked[e])])
<1>. PICK newest : newest = acked[e][Len(acked[e])]
  OBVIOUS
<1>1. acked[e] \in Seq(LogEvents) /\ Len(acked[e]) \in 1..Len(acked[e])
  BY EmptySeq DEF LogTypes
<1>2. newest.seq \in Nat
  <2>1. newest \in LogEvents
    BY <1>1, ElementOfSeq
  <2>. QED  BY <2>1 DEF LogEvents
<1>3. \/ known[m][e].seq > newest.seq
      \/ known[m][e].seq = newest.seq /\ known[m][e].last = newest.id
  BY <1>2, NewEventSays DEF Log!Behind
<1>. QED  BY <1>2, <1>3, NewEventSays DEF Succeeds

\* Numbers stay small when the next identity grows with a line that has one.
LEMMA NumbersKept ==
    ASSUME LogTypes, NumbersHold, NEW m \in Threads, NEW e \in Logged, NEW line \in LogEvents,
           line \in {Log!NewEvent(m, e), Log!Junk}, logLines' = Log!Written(line),
           \/ logNextId' = logNextId + 1
           \/ logNextId' = logNextId /\ line = Log!Junk /\ known' = known,
           \A n \in Threads, x \in Logged :
               known'[n][x].seq \in {known[n][x].seq, known[m][e].seq + 1}
    PROVE  NumbersHold'
<1>1. /\ logNextId \in Nat \ {0} /\ logNextId' \in {logNextId, logNextId + 1}
      /\ known[m][e].seq \in Nat /\ known[m][e].seq < logNextId
  BY NewEventSays DEF LogTypes, NumbersHold
<1>2. line.seq \in Nat /\ line.seq < logNextId' /\ Log!Junk.seq = 0
  BY <1>1, NewEventSays DEF Log!Junk
<1>3. \A i \in DOMAIN logLines' :
         \/ i \in DOMAIN logLines /\ logLines'[i] = logLines[i]
         \/ logLines'[i] \in {Log!Junk, line}
  BY LogWrittenSays
<1>4. \A i \in DOMAIN logLines : logLines[i].seq \in Nat /\ logLines[i].seq < logNextId
  <2>1. \A i \in DOMAIN logLines : logLines[i] \in LogEvents
    BY DEF LogTypes
  <2>. QED  BY <2>1 DEF NumbersHold, LogEvents
<1>5. \A i \in DOMAIN logLines' : logLines'[i].seq < logNextId'
  BY <1>1, <1>2, <1>3, <1>4
<1>6. \A n \in Threads, x \in Logged :
         known[n][x].seq \in Nat /\ known[n][x].seq < logNextId
  BY NewEventSays DEF NumbersHold
<1>7. \A n \in Threads, x \in Logged : known'[n][x].seq < logNextId'
  <2>1. CASE logNextId' = logNextId + 1
    BY <1>1, <1>6, <2>1
  <2>2. CASE logNextId' = logNextId /\ known' = known
    BY <1>6, <2>2
  <2>. QED  BY <2>1, <2>2
<1>. QED  BY <1>5, <1>7 DEF NumbersHold

\* What stays of the lines of an execution is acknowledged.
LEMMA KeptLines ==
    ASSUME LogTypes, NEW e \in Logged, LinesHold(e), NEW line \in LogEvents,
           logLines' = Log!Written(line),
           line.exec # e \/ fragment,
           Log!Acked(e) \subseteq Log!Acked(e)'
    PROVE  LinesHold(e)'
<1>1. \A i \in DOMAIN logLines' : logLines'[i].exec = e =>
        /\ i \in DOMAIN logLines /\ logLines'[i] = logLines[i] /\ logLines[i] \in Log!Acked(e)
  BY LogWrittenSays, JunkSays DEF LinesHold
<1>. QED  BY <1>1 DEF LinesHold

LEMMA NamesKept ==
    ASSUME NEW e, Given(e) \subseteq Given(e)', NEW n, NEW id, Names(e, n, id)
    PROVE  Names(e, n, id)'
BY DEF Names

\* An event with an identity of its own.
LEMMA EventsAdded ==
    ASSUME LogTypes, NEW e \in Logged, EventsHold(e), NEW new,
           new.id = logNextId, new.seq > 0, new.exec = e,
           logNextId' = logNextId + 1,
           Given(e)' = Given(e) \cup {new} \/ Given(e)' = Given(e),
           \A i \in DOMAIN acked'[e] : acked'[e][i].exec = e
    PROVE  EventsHold(e)'
<1>1. logNextId \in Nat \ {0}
  BY DEF LogTypes
<1>2. Given(e) \subseteq LogEvents
  BY DEF Given, Log!Acked, Log!Late, LogTypes
<1>3. \A x \in Given(e) : /\ x.seq > 0 /\ x.id > 0 /\ x.id < logNextId /\ x.id \in Nat
  BY <1>2 DEF EventsHold, LogEvents
<1>4. \A x \in Given(e)' : /\ x.seq > 0 /\ x.id > 0 /\ x.id < logNextId'
                           /\ x \in Given(e) \/ x = new
  BY <1>1, <1>3
<1>5. \A x, y \in Given(e)' : x.id = y.id => x = y
  BY <1>1, <1>3, <1>4 DEF EventsHold
<1>. QED  BY <1>4, <1>5 DEF EventsHold

\* An execution that is not written to, or only what is not given to it.
LEMMA EventsSame ==
    ASSUME LogTypes, NEW e \in Logged, EventsHold(e), acked'[e] = acked[e],
           Given(e)' = Given(e), logNextId' \in {logNextId, logNextId + 1}
    PROVE  EventsHold(e)'
<1>1. logNextId \in Nat \ {0}
  BY DEF LogTypes
<1>2. Given(e) \subseteq LogEvents
  BY DEF Given, Log!Acked, Log!Late, LogTypes
<1>3. \A x \in Given(e) : x.seq > 0 /\ x.id > 0 /\ x.id < logNextId /\ x.id \in Nat
  BY <1>2 DEF EventsHold, LogEvents
<1>4. \A x \in Given(e) : x.seq > 0 /\ x.id > 0 /\ x.id < logNextId'
  BY <1>1, <1>3
<1>. QED  BY <1>4 DEF EventsHold

LEMMA ChainSame ==
    ASSUME NEW e \in Logged, ChainHolds(e), acked'[e] = acked[e], Given(e)' = Given(e),
           \A m \in Threads : known'[m][e] = known[m][e]
    PROVE  ChainHolds(e)'
<1>1. \A n, id : Names(e, n, id)' <=> Names(e, n, id)
  BY DEF Names
<1>2. \A m \in Threads : Names(e, known'[m][e].seq, known'[m][e].last)
  BY DEF ChainHolds
<1>. QED  BY <1>1, <1>2 DEF ChainHolds

LEMMA AppendSays ==
    ASSUME LogTypes, NEW m \in Threads, NEW e \in Logged, NEW new, new = Log!NewEvent(m, e),
           Log!AppendEvent(m, e)
    PROVE  /\ logLines' = Log!Written(new) /\ ~fragment' /\ late' = late
           /\ logNextId' = logNextId + 1
           /\ blind' = Log!Blindly(m, e)
           /\ Len(acked[e]) \in Nat /\ Len(acked'[e]) = Len(acked[e]) + 1
           /\ DOMAIN acked[e] = 1..Len(acked[e]) /\ DOMAIN acked'[e] = 1..Len(acked[e]) + 1
           /\ \A i \in 1..Len(acked[e]) : acked'[e][i] = acked[e][i]
           /\ acked'[e][Len(acked[e]) + 1] = new
           /\ known'[m][e].seq = new.seq /\ known'[m][e].last = new.id
           /\ \A x \in Logged : x # e => acked'[x] = acked[x]
           /\ \A n \in Threads, x \in Logged : n # m \/ x # e => known'[n][x] = known[n][x]
           /\ LogTypes'
<1>1. /\ logLines' = Log!Written(new) /\ fragment' = FALSE /\ late' = late
      /\ logNextId' = logNextId + 1
      /\ blind' = Log!Blindly(m, e)
      /\ known' = [known EXCEPT ![m][e] = [seq |-> @.seq + 1, last |-> logNextId]]
      /\ acked' = [acked EXCEPT ![e] = Append(@, new)]
  BY DEF Log!AppendEvent
<1>2. /\ new \in LogEvents /\ new.seq = known[m][e].seq + 1 /\ new.id = logNextId
      /\ known[m][e].seq \in Nat /\ logNextId \in Nat \ {0}
  BY NewEventSays DEF LogTypes
<1>3. acked \in [Logged -> Seq(LogEvents)] /\ acked[e] \in Seq(LogEvents)
  BY DEF LogTypes
<1>. PICK list : list = Append(acked[e], new)
  OBVIOUS
<1>4. /\ list \in Seq(LogEvents) /\ Len(list) = Len(acked[e]) + 1 /\ Len(acked[e]) \in Nat
      /\ \A i \in 1..Len(acked[e]) : list[i] = acked[e][i]
      /\ list[Len(acked[e]) + 1] = new
  BY <1>2, <1>3, AppendProperties
<1>5. acked' = [acked EXCEPT ![e] = list]
  BY <1>1
<1>6. /\ acked' \in [Logged -> Seq(LogEvents)] /\ acked'[e] = list
      /\ \A x \in Logged : x # e => acked'[x] = acked[x]
  BY <1>3, <1>4, <1>5
<1>7. DOMAIN acked[e] = 1..Len(acked[e]) /\ DOMAIN list = 1..Len(acked[e]) + 1
  BY <1>3, <1>4, LenProperties
<1>. PICK now : now = [seq |-> known[m][e].seq + 1, last |-> logNextId]
  OBVIOUS
<1>8. now \in [seq : Nat, last : Nat] /\ now.seq = new.seq /\ now.last = new.id
  BY <1>2
<1>9. known \in [Threads -> [Logged -> [seq : Nat, last : Nat]]]
      /\ known' = [known EXCEPT ![m] = [known[m] EXCEPT ![e] = now]]
  BY <1>1 DEF LogTypes
<1>10. [known[m] EXCEPT ![e] = now] \in [Logged -> [seq : Nat, last : Nat]]
  BY <1>8, <1>9
<1>11. /\ known' \in [Threads -> [Logged -> [seq : Nat, last : Nat]]]
       /\ known'[m][e] = now
       /\ \A n \in Threads, x \in Logged : n # m \/ x # e => known'[n][x] = known[n][x]
  BY <1>8, <1>9, <1>10
<1>12. logLines' \in Seq(LogEvents)
  BY <1>1, <1>2, LogWrittenSays
<1>13. LogTypes'
  <2>1. late' \subseteq LogEvents /\ logNextId' \in Nat \ {0}
    BY <1>1, <1>2 DEF LogTypes
  <2>2. fragment' \in BOOLEAN /\ ~fragment'
    BY <1>1
  <2>. QED  BY <1>6, <1>11, <1>12, <2>1, <2>2, Zenon DEF LogTypes
<1>. QED  BY <1>1, <1>4, <1>6, <1>7, <1>8, <1>11, <1>13

LEMMA AppendEventKeeps ==
    ASSUME LogInv, NEW m \in Threads, NEW e \in Logged, Log!AppendEvent(m, e)
    PROVE  LogInv'
<1>. PICK new : new = Log!NewEvent(m, e)
  OBVIOUS
<1>0. LogTypes /\ NumbersHold /\ (\A x \in Logged : EventsHold(x))
      /\ \A x \in Logged \ blind : ChainHolds(x) /\ LinesHold(x)
  BY DEF LogInv
<1>1. /\ logLines' = Log!Written(new) /\ ~fragment' /\ late' = late
      /\ logNextId' = logNextId + 1
      /\ blind' = Log!Blindly(m, e)
      /\ Len(acked[e]) \in Nat /\ Len(acked'[e]) = Len(acked[e]) + 1
      /\ DOMAIN acked[e] = 1..Len(acked[e]) /\ DOMAIN acked'[e] = 1..Len(acked[e]) + 1
      /\ \A i \in 1..Len(acked[e]) : acked'[e][i] = acked[e][i]
      /\ acked'[e][Len(acked[e]) + 1] = new
      /\ known'[m][e].seq = new.seq /\ known'[m][e].last = new.id
      /\ \A x \in Logged : x # e => acked'[x] = acked[x]
      /\ \A n \in Threads, x \in Logged : n # m \/ x # e => known'[n][x] = known[n][x]
      /\ LogTypes'
  BY <1>0, AppendSays
<1>2. /\ new \in LogEvents /\ new.seq = known[m][e].seq + 1 /\ new.id = logNextId
      /\ new.exec = e /\ new.prev = known[m][e].last
      /\ known[m][e].seq \in Nat /\ logNextId \in Nat \ {0}
  BY <1>0, NewEventSays DEF LogTypes
<1>3. /\ Log!Acked(e)' = Log!Acked(e) \cup {new} /\ Given(e)' = Given(e) \cup {new}
      /\ \A x \in Logged : x # e =>
            Log!Acked(x)' = Log!Acked(x) /\ Given(x)' = Given(x)
  <2>1. Log!Acked(e)' = {acked'[e][i] : i \in 1..Len(acked[e]) + 1}
    BY <1>1 DEF Log!Acked
  <2>2. Log!Acked(e) = {acked[e][i] : i \in 1..Len(acked[e])}
    BY <1>1 DEF Log!Acked
  <2>3. \A i \in 1..Len(acked[e]) + 1 : i \in 1..Len(acked[e]) \/ i = Len(acked[e]) + 1
    BY <1>1
  <2>4. 1..Len(acked[e]) \subseteq 1..Len(acked[e]) + 1 /\ Len(acked[e]) + 1 \in 1..Len(acked[e]) + 1
    BY <1>1
  <2>5. Log!Acked(e)' = Log!Acked(e) \cup {new}
    BY SMTT(20), <1>1, <2>1, <2>2, <2>3, <2>4
  <2>6. \A x \in Logged : x # e => Log!Acked(x)' = Log!Acked(x)
    BY <1>1 DEF Log!Acked
  <2>7. \A x \in Logged : Log!Late(x)' = Log!Late(x)
    BY <1>1 DEF Log!Late
  <2>. QED  BY <2>5, <2>6, <2>7 DEF Given
<1>4. \A x \in Logged : EventsHold(x)'
  <2>1. EventsHold(e)'
    <3>1. \A i \in DOMAIN acked'[e] : acked'[e][i].exec = e
      <4>1. \A i \in DOMAIN acked[e] : acked[e][i].exec = e
        BY <1>0 DEF EventsHold
      <4>2. \A i \in DOMAIN acked'[e] : i \in DOMAIN acked[e] \/ i = Len(acked[e]) + 1
        BY <1>1
      <4>. QED  BY <1>1, <1>2, <4>1, <4>2
    <3>2. new.seq > 0
      BY <1>2
    <3>. QED  BY <1>0, <1>1, <1>2, <1>3, <3>1, <3>2, EventsAdded
  <2>2. ASSUME NEW x \in Logged, x # e PROVE EventsHold(x)'
    BY <1>0, <1>1, <1>3, <2>2, EventsSame
  <2>. QED  BY <2>1, <2>2
<1>5. ASSUME NEW x \in Logged \ blind', x # e PROVE ChainHolds(x)' /\ LinesHold(x)'
  <2>1. x \in Logged \ blind
    BY <1>1, <1>5 DEF Log!Blindly
  <2>2. ChainHolds(x)'
    BY <1>0, <1>1, <1>3, <1>5, <2>1, ChainSame
  <2>3. LinesHold(x)'
    BY <1>0, <1>1, <1>2, <1>3, <1>5, <2>1, KeptLines
  <2>. QED  BY <2>2, <2>3
<1>6. ASSUME e \notin blind' PROVE ChainHolds(e)' /\ LinesHold(e)'
  <2>1. e \notin blind /\ ~Log!Behind(m, e)
    BY <1>1, <1>6 DEF Log!Blindly
  <2>2. ChainHolds(e) /\ LinesHold(e)
    BY <1>0, <2>1
  <2>3. acked[e] # <<>> => Succeeds(new, acked[e][Len(acked[e])])
    BY <1>0, <2>1, NotBehindSucceeds
  <2>4. acked[e] \in Seq(LogEvents) /\ \A i \in 1..Len(acked[e]) : acked[e][i] \in LogEvents
    BY <1>0, ElementOfSeq DEF LogTypes
  <2>5. \A i \in 1..Len(acked[e]) : acked[e][i].seq < new.seq
    <3>. SUFFICES ASSUME NEW i \in 1..Len(acked[e]) PROVE acked[e][i].seq < new.seq
      OBVIOUS
    <3>1. acked[e] # <<>> /\ Len(acked[e]) \in 1..Len(acked[e]) /\ i \in Nat
      BY <1>1, <2>4, EmptySeq
    <3>2. acked[e][Len(acked[e])].seq < new.seq
      BY <1>2, <2>3, <2>4, <3>1 DEF Succeeds, LogEvents
    <3>3. i = Len(acked[e]) \/ acked[e][i].seq < acked[e][Len(acked[e])].seq
      <4>1. \A k, j \in DOMAIN acked[e] : k < j => acked[e][k].seq < acked[e][j].seq
        BY <2>2 DEF ChainHolds
      <4>2. i \in DOMAIN acked[e] /\ Len(acked[e]) \in DOMAIN acked[e]
        BY <1>1, <3>1
      <4>3. i = Len(acked[e]) \/ i < Len(acked[e])
        BY <1>1, <3>1
      <4>. QED  BY <4>1, <4>2, <4>3
    <3>4. acked[e][i] \in LogEvents /\ acked[e][Len(acked[e])] \in LogEvents
      BY <2>4, <3>1
    <3>. QED  BY SMTT(20), <1>2, <3>2, <3>3, <3>4 DEF LogEvents
  <2>6. ChainHolds(e)'
    <3>1. \A n, id : Names(e, n, id) => Names(e, n, id)'
      BY <1>3 DEF Names
    <3>2. \A n \in Threads : Names(e, known[n][e].seq, known[n][e].last)'
      <4>1. new \in Given(e)'
        BY <1>3
      <4>2. Names(e, known[m][e].seq, known[m][e].last)'
        BY <1>1, <4>1 DEF Names
      <4>3. ASSUME NEW n \in Threads, n # m PROVE Names(e, known[n][e].seq, known[n][e].last)'
        <5>1. known'[n][e] = known[n][e] /\ Names(e, known[n][e].seq, known[n][e].last)
          BY <1>1, <2>2, <4>3 DEF ChainHolds
        <5>2. Given(e) \subseteq Given(e)'
          BY <1>3
        <5>. QED  BY <5>1, <5>2 DEF Names
      <4>. QED  BY <4>2, <4>3
    <3>3. \A x \in Given(e)' : \E n \in Nat : x.seq = n + 1 /\ Names(e, n, x.prev)'
      BY <1>2, <1>3, <2>2, <3>1 DEF ChainHolds
    <3>4. \A i, j \in DOMAIN acked'[e] : i < j => acked'[e][i].seq < acked'[e][j].seq
      <4>. SUFFICES ASSUME NEW i \in DOMAIN acked'[e], NEW j \in DOMAIN acked'[e], i < j
                    PROVE  acked'[e][i].seq < acked'[e][j].seq
        OBVIOUS
      <4>1. i \in 1..Len(acked[e]) /\ (j \in 1..Len(acked[e]) \/ j = Len(acked[e]) + 1)
        BY <1>1
      <4>. QED  BY <1>1, <2>2, <2>5, <4>1 DEF ChainHolds
    <3>5. \A i \in DOMAIN acked'[e] : i > 1 => Succeeds(acked'[e][i], acked'[e][i - 1])
      <4>. SUFFICES ASSUME NEW i \in DOMAIN acked'[e], i > 1
                    PROVE  Succeeds(acked'[e][i], acked'[e][i - 1])
        OBVIOUS
      <4>1. CASE i \in 1..Len(acked[e])
        <5>1. i - 1 \in 1..Len(acked[e])
          BY <1>1, <4>1
        <5>. QED  BY <1>1, <2>2, <4>1, <5>1 DEF ChainHolds
      <4>2. CASE i = Len(acked[e]) + 1
        <5>1. i - 1 = Len(acked[e]) /\ i - 1 \in 1..Len(acked[e]) /\ acked[e] # <<>>
          BY <1>1, <2>4, <4>2, EmptySeq
        <5>. QED  BY <1>1, <2>3, <4>2, <5>1
      <4>. QED  BY <1>1, <4>1, <4>2
    <3>6. \E o \in Given(e)' : o.prev = 0
      <4>1. CASE new.prev = 0
        BY <1>3, <4>1
      <4>2. CASE new.prev # 0
        <5>1. Given(e) # {}
          BY <1>2, <2>2, <4>2 DEF ChainHolds, Names
        <5>. QED  BY <1>3, <2>2, <5>1 DEF ChainHolds
      <4>. QED  BY <4>1, <4>2
    <3>. QED  BY <3>2, <3>3, <3>4, <3>5, <3>6 DEF ChainHolds
  <2>7. LinesHold(e)'
    <3>1. CASE fragment
      BY <1>0, <1>1, <1>2, <1>3, <2>2, <3>1, KeptLines
    <3>2. CASE ~fragment
      <4>1. \A i \in DOMAIN logLines' :
               \/ /\ i \in DOMAIN logLines /\ logLines'[i] = logLines[i]
                  /\ i < Len(logLines')
               \/ i = Len(logLines') /\ logLines'[i] = new
        BY <1>0, <1>1, <1>2, <3>2, LogWrittenSays
      <4>2. \A i \in DOMAIN logLines : logLines[i].exec = e =>
               logLines[i] \in Log!Acked(e) /\ logLines[i].seq < new.seq
        BY <1>1, <2>2, <2>5, <3>2 DEF LinesHold, Log!Acked
      <4>3. \A i \in DOMAIN logLines' : logLines'[i].exec = e => logLines'[i] \in Log!Acked(e)'
        BY <1>3, <4>1, <4>2
      <4>4. ASSUME NEW i \in DOMAIN logLines', NEW j \in DOMAIN logLines', i < j,
                   logLines'[i].exec = e, logLines'[j].exec = e
            PROVE  logLines'[i].seq < logLines'[j].seq
        <5>1. logLines' \in Seq(LogEvents) /\ i \in 1..Len(logLines') /\ j \in 1..Len(logLines')
              /\ Len(logLines') \in Nat
          BY <1>1 DEF LogTypes
        <5>2. i # Len(logLines')
          BY <4>4, <5>1
        <5>3. i \in DOMAIN logLines /\ logLines'[i] = logLines[i]
          BY <4>1, <5>2
        <5>. QED  BY <2>2, <4>1, <4>2, <4>4, <5>3 DEF LinesHold
      <4>. QED  BY <4>3, <4>4 DEF LinesHold
    <3>. QED  BY <3>1, <3>2
  <2>. QED  BY <2>6, <2>7
<1>7. NumbersHold'
  <2>1. \A n \in Threads, x \in Logged :
           known'[n][x].seq \in {known[n][x].seq, known[m][e].seq + 1}
    BY <1>1, <1>2
  <2>. QED  BY <1>0, <1>1, <1>2, <2>1, NumbersKept
<1>. QED  BY <1>1, <1>4, <1>5, <1>6, <1>7 DEF LogInv

\* What a failing write does: a fragment, or a whole line that nobody was told of.
LEMMA FailsSays ==
    ASSUME LogTypes, NEW m \in Threads, NEW e \in Logged, NEW new, new = Log!NewEvent(m, e),
           Log!AppendFails(m, e)
    PROVE  /\ fragment' /\ UNCHANGED <<known, acked>>
           /\ \/ /\ UNCHANGED <<late, blind, logNextId>>
                 /\ logLines' = Log!Written(Log!Junk)
              \/ /\ late' = late \cup {new} /\ blind' = Log!Blindly(m, e)
                 /\ logLines' = Log!Written(new) /\ ~fragment
                 /\ logNextId' = logNextId + 1
           /\ LogTypes'
<1>1. fragment' = TRUE /\ UNCHANGED <<known, acked>>
  BY DEF Log!AppendFails, Log!LeaveFragment
<1>2. \/ /\ UNCHANGED <<late, blind, logNextId>>
         /\ logLines' = Log!Written(Log!Junk)
      \/ /\ late' = late \cup {new} /\ blind' = Log!Blindly(m, e)
         /\ logLines' = Log!Written(new) /\ ~fragment
         /\ logNextId' = logNextId + 1
  BY DEF Log!AppendFails, Log!LeaveFragment
<1>3. new \in LogEvents /\ Log!Junk \in LogEvents
  BY NewEventSays, JunkSays
<1>4. logLines' \in Seq(LogEvents) /\ logLines' # <<>>
  <2>1. PICK line \in LogEvents : logLines' = Log!Written(line)
    BY <1>2, <1>3
  <2>. QED  BY <2>1, LogWrittenSays
<1>5. late' \subseteq LogEvents /\ logNextId' \in Nat \ {0}
  BY <1>2, <1>3 DEF LogTypes
<1>6. /\ known' \in [Threads -> [Logged -> [seq : Nat, last : Nat]]]
      /\ acked' \in [Logged -> Seq(LogEvents)]
  BY <1>1 DEF LogTypes
<1>7. fragment' \in BOOLEAN /\ fragment'
  BY <1>1
<1>8. LogTypes'
  BY <1>4, <1>5, <1>6, <1>7, Zenon DEF LogTypes
<1>. QED  BY <1>1, <1>2, <1>8

LEMMA AppendFailsKeeps ==
    ASSUME LogInv, NEW m \in Threads, NEW e \in Logged, Log!AppendFails(m, e)
    PROVE  LogInv'
<1>. PICK new : new = Log!NewEvent(m, e)
  OBVIOUS
<1>0. LogTypes /\ NumbersHold /\ (\A x \in Logged : EventsHold(x))
      /\ \A x \in Logged \ blind : ChainHolds(x) /\ LinesHold(x)
  BY DEF LogInv
<1>1. /\ fragment' /\ UNCHANGED <<known, acked>>
      /\ \/ /\ UNCHANGED <<late, blind, logNextId>>
            /\ logLines' = Log!Written(Log!Junk)
         \/ /\ late' = late \cup {new} /\ blind' = Log!Blindly(m, e)
            /\ logLines' = Log!Written(new) /\ ~fragment
            /\ logNextId' = logNextId + 1
      /\ LogTypes'
  BY <1>0, FailsSays
<1>2. /\ new \in LogEvents /\ new.seq = known[m][e].seq + 1 /\ new.id = logNextId
      /\ new.exec = e /\ new.prev = known[m][e].last
      /\ known[m][e].seq \in Nat /\ logNextId \in Nat \ {0}
  BY <1>0, NewEventSays DEF LogTypes
<1>3. \A x \in Logged : Log!Acked(x)' = Log!Acked(x) /\ acked'[x] = acked[x]
      /\ \A n \in Threads : known'[n][x] = known[n][x]
  BY <1>1 DEF Log!Acked
<1>4. blind \subseteq blind'
  BY <1>1 DEF Log!Blindly
<1>7. NumbersHold'
  <2>1. \A n \in Threads, x \in Logged :
           known'[n][x].seq \in {known[n][x].seq, known[m][e].seq + 1}
    BY <1>3
  <2>. QED  BY <1>0, <1>1, <1>2, <2>1, JunkSays, NumbersKept
<1>5. CASE /\ UNCHANGED <<late, blind, logNextId>>
           /\ logLines' = Log!Written(Log!Junk)
  <2>1. \A x \in Logged : Given(x)' = Given(x)
    BY <1>3, <1>5 DEF Given, Log!Late
  <2>2. \A x \in Logged : EventsHold(x)'
    BY <1>0, <1>1, <1>3, <2>1, EventsSame
  <2>3. \A x \in Logged \ blind' : ChainHolds(x)'
    BY <1>0, <1>3, <1>4, <2>1, ChainSame
  <2>4. ASSUME NEW x \in Logged \ blind' PROVE LinesHold(x)'
    <3>1. LinesHold(x) /\ Log!Acked(x) \subseteq Log!Acked(x)' /\ x \in Logged
      BY <1>0, <1>3, <1>4
    <3>. QED  BY <1>0, <1>5, <3>1, JunkSays, KeptLines
  <2>. QED  BY <1>1, <1>7, <2>2, <2>3, <2>4 DEF LogInv
<1>6. CASE /\ late' = late \cup {new} /\ blind' = Log!Blindly(m, e)
           /\ logLines' = Log!Written(new) /\ ~fragment
           /\ logNextId' = logNextId + 1
  <2>1. Given(e)' = Given(e) \cup {new} /\ \A x \in Logged : x # e => Given(x)' = Given(x)
    <3>1. Log!Late(e)' = Log!Late(e) \cup {new}
      BY <1>2, <1>6 DEF Log!Late
    <3>2. \A x \in Logged : x # e => Log!Late(x)' = Log!Late(x)
      BY <1>2, <1>6 DEF Log!Late
    <3>. QED  BY <1>3, <3>1, <3>2 DEF Given
  <2>2. EventsHold(e)'
    <3>1. \A i \in DOMAIN acked'[e] : acked'[e][i].exec = e
      BY <1>0, <1>3 DEF EventsHold
    <3>2. new.seq > 0
      BY <1>2
    <3>. QED  BY <1>0, <1>1, <1>2, <1>6, <2>1, <3>1, <3>2, EventsAdded
  <2>3. \A x \in Logged : x # e => EventsHold(x)'
    BY <1>0, <1>6, <1>3, <2>1, EventsSame
  <2>4. ASSUME NEW x \in Logged \ blind', x # e PROVE ChainHolds(x)' /\ LinesHold(x)'
    <3>1. ChainHolds(x)'
      BY <1>0, <1>3, <1>4, <2>1, <2>4, ChainSame
    <3>2. LinesHold(x)'
      BY <1>0, <1>2, <1>3, <1>4, <1>6, <2>4, KeptLines
    <3>. QED  BY <3>1, <3>2
  <2>5. ASSUME e \notin blind' PROVE ChainHolds(e)' /\ LinesHold(e)'
    <3>1. e \notin blind /\ ~Log!Behind(m, e)
      BY <1>6, <2>5 DEF Log!Blindly
    <3>2. ChainHolds(e) /\ LinesHold(e)
      BY <1>0, <3>1
    <3>3. acked[e] # <<>> => Succeeds(new, acked[e][Len(acked[e])])
      BY <1>0, <3>1, NotBehindSucceeds
    <3>4. ChainHolds(e)'
      <4>1. \A n, id : Names(e, n, id) => Names(e, n, id)'
        BY <2>1 DEF Names
      <4>2. \A n \in Threads : Names(e, known[n][e].seq, known[n][e].last)'
        <5>. SUFFICES ASSUME NEW n \in Threads
                      PROVE  Names(e, known[n][e].seq, known[n][e].last)'
          OBVIOUS
        <5>1. known'[n][e] = known[n][e] /\ Names(e, known[n][e].seq, known[n][e].last)
          BY <1>3, <3>2 DEF ChainHolds
        <5>2. Given(e) \subseteq Given(e)'
          BY <2>1
        <5>. QED  BY <5>1, <5>2 DEF Names
      <4>3. \A x \in Given(e)' : \E n \in Nat : x.seq = n + 1 /\ Names(e, n, x.prev)'
        BY <1>2, <2>1, <3>2, <4>1 DEF ChainHolds
      <4>4. \E o \in Given(e)' : o.prev = 0
        <5>1. CASE new.prev = 0
          BY <2>1, <5>1
        <5>2. CASE new.prev # 0
          <6>1. Given(e) # {}
            BY <1>2, <3>2, <5>2 DEF ChainHolds, Names
          <6>. QED  BY <2>1, <3>2, <6>1 DEF ChainHolds
        <5>. QED  BY <5>1, <5>2
      <4>5. /\ \A i, j \in DOMAIN acked'[e] : i < j => acked'[e][i].seq < acked'[e][j].seq
            /\ \A i \in DOMAIN acked'[e] : i > 1 => Succeeds(acked'[e][i], acked'[e][i - 1])
        BY <1>3, <3>2 DEF ChainHolds
      <4>. QED  BY <4>2, <4>3, <4>4, <4>5 DEF ChainHolds
    <3>5. LinesHold(e)'
      <4>1. \A i \in DOMAIN logLines' :
               \/ /\ i \in DOMAIN logLines /\ logLines'[i] = logLines[i]
                  /\ i < Len(logLines')
               \/ i = Len(logLines') /\ logLines'[i] = new
        BY <1>0, <1>2, <1>6, LogWrittenSays
      <4>2. \A i \in DOMAIN logLines : logLines[i].exec = e => logLines[i] \in Log!Acked(e)
        BY <1>6, <3>2 DEF LinesHold
      <4>3. LateLast(e, new)'
        BY <1>3, <1>6, <3>3 DEF LateLast
      <4>4. \A i \in DOMAIN logLines' : logLines'[i].exec = e =>
               \/ logLines'[i] \in Log!Acked(e)'
               \/ i = Len(logLines') /\ fragment' /\ logLines'[i] = new
        BY <1>1, <1>3, <4>1, <4>2
      <4>5. ASSUME NEW i \in DOMAIN logLines, logLines[i].exec = e
            PROVE  logLines[i].seq < new.seq
        <5>1. PICK k \in DOMAIN acked[e] : logLines[i] = acked[e][k]
          BY <4>2, <4>5 DEF Log!Acked
        <5>. PICK n : n = Len(acked[e])
          OBVIOUS
        <5>2. acked[e] \in Seq(LogEvents) /\ DOMAIN acked[e] = 1..n /\ n \in Nat
          BY <1>0 DEF LogTypes
        <5>3. n \in DOMAIN acked[e] /\ k \in 1..n /\ acked[e] # <<>>
          BY <5>2, EmptySeq
        <5>4. k = n \/ acked[e][k].seq < acked[e][n].seq
          <6>1. k = n \/ k < n
            BY <5>2, <5>3
          <6>. QED  BY <3>2, <5>3, <6>1 DEF ChainHolds
        <5>5. acked[e][n].seq < new.seq
          <6>1. acked[e][n] \in LogEvents
            BY <5>2, <5>3, ElementOfSeq
          <6>. QED  BY <1>2, <3>3, <5>3, <6>1 DEF Succeeds, LogEvents
        <5>6. acked[e][k] \in LogEvents /\ acked[e][n] \in LogEvents
          BY <5>2, <5>3, ElementOfSeq
        <5>. QED  BY SMTT(20), <1>2, <5>1, <5>4, <5>5, <5>6 DEF LogEvents
      <4>6. ASSUME NEW i \in DOMAIN logLines', NEW j \in DOMAIN logLines', i < j,
                   logLines'[i].exec = e, logLines'[j].exec = e
            PROVE  logLines'[i].seq < logLines'[j].seq
        <5>1. logLines' \in Seq(LogEvents) /\ i \in 1..Len(logLines') /\ j \in 1..Len(logLines')
              /\ Len(logLines') \in Nat
          BY <1>1 DEF LogTypes
        <5>2. i # Len(logLines')
          BY <4>6, <5>1
        <5>3. i \in DOMAIN logLines /\ logLines'[i] = logLines[i]
          BY <4>1, <5>2
        <5>. QED  BY <3>2, <4>1, <4>5, <4>6, <5>3 DEF LinesHold
      <4>. PICK last : last = new
        OBVIOUS
      <4>7. \A i \in DOMAIN logLines' : logLines'[i].exec = e =>
               \/ logLines'[i] \in Log!Acked(e)'
               \/ i = Len(logLines') /\ fragment' /\ LateLast(e, logLines[i])'
        <5>. SUFFICES ASSUME NEW i \in DOMAIN logLines', logLines'[i].exec = e,
                             logLines'[i] \notin Log!Acked(e)'
                      PROVE  i = Len(logLines') /\ fragment' /\ LateLast(e, logLines[i])'
          OBVIOUS
        <5>1. i = Len(logLines') /\ fragment' /\ logLines'[i] = new
          BY <4>4
        <5>2. new \in late' /\ (acked'[e] # <<>> => Succeeds(new, acked'[e][Len(acked'[e])]))
          BY <1>3, <1>6, <3>3
        <5>. QED  BY <5>1, <5>2 DEF LateLast
      <4>. QED  BY <4>6, <4>7 DEF LinesHold
    <3>. QED  BY <3>4, <3>5
  <2>. QED  BY <1>1, <1>7, <2>2, <2>3, <2>4, <2>5 DEF LogInv
<1>. QED  BY <1>1, <1>5, <1>6

\* What changes neither the journal nor what is known of it.
LEMMA LogSame ==
    ASSUME LogInv,
           UNCHANGED <<logLines, fragment, known, acked, late, blind, logNextId>>
    PROVE  LogInv'
<1>1. \A e \in Logged : Given(e)' = Given(e) /\ Log!Acked(e)' = Log!Acked(e)
  BY DEF Given, Log!Acked, Log!Late
<1>2. LogTypes' /\ NumbersHold' /\ blind' = blind
  BY DEF LogInv, LogTypes, NumbersHold
<1>3. \A e \in Logged : EventsHold(e)'
  BY <1>1 DEF LogInv, EventsHold
<1>4. \A e \in Logged \ blind : ChainHolds(e)'
  <2>. SUFFICES ASSUME NEW e \in Logged \ blind PROVE ChainHolds(e)'
    OBVIOUS
  <2>1. ChainHolds(e) /\ acked'[e] = acked[e] /\ \A m \in Threads : known'[m][e] = known[m][e]
    BY DEF LogInv
  <2>. QED  BY <1>1, <2>1, ChainSame
<1>5. \A e \in Logged \ blind : LinesHold(e)'
  BY <1>1 DEF LogInv, LinesHold, LateLast
<1>. QED  BY <1>2, <1>3, <1>4, <1>5 DEF LogInv

\* A bounded set of natural numbers has a greatest one.
LEMMA GreatestOf ==
    ASSUME NEW S \in SUBSET Nat, S # {}, NEW n \in Nat, \A k \in S : k <= n
    PROVE  \E m \in S : \A k \in S : k <= m
<1>. DEFINE T == {n - k : k \in S}
<1>1. T \in SUBSET Nat /\ T # {}
  <2>1. \A k \in S : n - k \in Nat
    OBVIOUS
  <2>. QED  BY <2>1
<1>. HIDE DEF T
<1>2. PICK t \in T : \A k \in T : t <= k
  <2>1. \E t \in T : \A k \in T : t <= k
    BY <1>1, LeastOf
  <2>. QED  BY <2>1
<1>3. PICK m \in S : t = n - m
  BY <1>2 DEF T
<1>4. \A k \in S : n - k \in T /\ k \in Nat /\ m \in Nat
  BY DEF T
<1>5. \A k \in S : n - m <= n - k
  BY <1>2, <1>3, <1>4
<1>. QED  BY <1>4, <1>5

\* LastOf is one of the events, and none has a greater number.
LEMMA LastOfSays ==
    ASSUME NEW E, E \subseteq LogEvents, E # {}, NEW n \in Nat, \A x \in E : x.seq <= n
    PROVE  Log!LastOf(E) \in E /\ \A y \in E : y.seq <= Log!LastOf(E).seq
<1>. DEFINE S == {x.seq : x \in E}
<1>1. S \in SUBSET Nat /\ S # {} /\ \A k \in S : k <= n
  BY DEF LogEvents
<1>2. \A x \in E : x.seq \in S
  OBVIOUS
<1>3. \A k \in S : \E x \in E : x.seq = k
  OBVIOUS
<1>. HIDE DEF S
<1>4. PICK m \in S : \A k \in S : k <= m
  <2>1. \E m \in S : \A k \in S : k <= m
    BY <1>1, GreatestOf
  <2>. QED  BY <2>1
<1>5. \E x \in E : \A y \in E : y.seq <= x.seq
  BY <1>2, <1>3, <1>4
<1>. QED  BY <1>5 DEF Log!LastOf

\* What a new object learns from the journal.
LEMMA RebuiltSays ==
    ASSUME LogInv, NEW e \in Logged
    PROVE  /\ Log!Rebuilt[e] \in [seq : Nat, last : Nat]
           /\ Log!Rebuilt[e].seq < logNextId
           /\ e \notin blind => Names(e, Log!Rebuilt[e].seq, Log!Rebuilt[e].last)
<1>. DEFINE mine == {i \in DOMAIN logLines : logLines[i].exec = e}
            E == Log!EventsOf(e)
<1>0. /\ logLines \in Seq(LogEvents) /\ DOMAIN logLines = 1..Len(logLines)
      /\ Len(logLines) \in Nat /\ logNextId \in Nat \ {0}
      /\ \A i \in DOMAIN logLines : logLines[i] \in LogEvents /\ logLines[i].seq < logNextId
  BY DEF LogInv, LogTypes, NumbersHold
<1>1. CASE mine = {}
  <2>1. Log!Rebuilt[e] = Log!Nobody
    BY <1>1 DEF Log!Rebuilt
  <2>. QED  BY <1>0, <2>1 DEF Log!Nobody, Log!NoHash, Names
<1>2. CASE mine # {}
  <2>. PICK final : final = (CHOOSE i \in mine : \A j \in mine : j <= i)
    OBVIOUS
  <2>1. final \in mine /\ \A j \in mine : j <= final
    <3>1. mine \in SUBSET Nat /\ \A j \in mine : j <= Len(logLines)
      BY <1>0
    <3>. HIDE DEF mine
    <3>2. \E i \in mine : \A j \in mine : j <= i
      BY <1>0, <1>2, <3>1, GreatestOf
    <3>. QED  BY <3>2
  <2>. PICK greatest : greatest = Log!LastOf(E)
    OBVIOUS
  <2>2. E = {logLines[i] : i \in mine}
    BY DEF Log!EventsOf
  <2>3. Log!Rebuilt[e] = [seq |-> greatest.seq, last |-> logLines[final].id]
    BY <1>2 DEF Log!Rebuilt
  <2>4. E \subseteq LogEvents /\ E # {} /\ \A x \in E : x.seq < logNextId /\ x.seq <= logNextId
    <3>1. \A x \in E : x \in LogEvents /\ x.seq < logNextId
      BY <1>0, <2>2
    <3>2. \A x \in E : x.seq \in Nat
      BY <3>1 DEF LogEvents
    <3>3. E # {}
      BY <1>2, <2>2
    <3>. HIDE DEF E
    <3>. QED  BY <1>0, <3>1, <3>2, <3>3
  <2>5. greatest \in E /\ \A y \in E : y.seq <= greatest.seq
    <3>. HIDE DEF E
    <3>. QED  BY <1>0, <2>4, LastOfSays
  <2>6. logLines[final] \in E /\ logLines[final] \in LogEvents
    BY <1>0, <2>1, <2>2
  <2>7. /\ greatest.seq \in Nat /\ greatest.seq < logNextId
        /\ logLines[final].id \in Nat /\ logLines[final].seq \in Nat
    BY <2>4, <2>5, <2>6 DEF LogEvents
  <2>8. ASSUME e \notin blind PROVE Names(e, greatest.seq, logLines[final].id)
    <3>1. LinesHold(e)
      BY <2>8 DEF LogInv
    <3>2. PICK g \in mine : greatest = logLines[g]
      BY <2>2, <2>5
    <3>3. greatest.seq = logLines[final].seq
      <4>1. g = final \/ g < final
        BY <1>0, <2>1, <3>2
      <4>2. logLines[final].seq <= greatest.seq
        BY <2>5, <2>6
      <4>3. g < final => logLines[g].seq < logLines[final].seq
        BY <2>1, <3>1, <3>2 DEF LinesHold
      <4>4. g < final => greatest.seq < logLines[final].seq
        BY <3>2, <4>3
      <4>5. g = final => greatest.seq = logLines[final].seq
        BY <3>2
      <4>. HIDE DEF mine, E
      <4>. QED  BY <2>7, <4>1, <4>2, <4>4, <4>5
    <3>4. logLines[final] \in Given(e)
      BY <2>1, <3>1 DEF LinesHold, LateLast, Given, Log!Late
    <3>. QED  BY <3>3, <3>4 DEF Names
  <2>. QED  BY <2>3, <2>7, <2>8
<1>. QED  BY <1>1, <1>2

LEMMA RestartLogKeeps ==
    ASSUME LogInv, NEW m \in Threads, Log!Restart(m)
    PROVE  LogInv'
<1>1. /\ known' = [known EXCEPT ![m] = Log!Rebuilt]
      /\ UNCHANGED <<logLines, fragment, acked, late, blind, logNextId>>
  BY DEF Log!Restart, Log!boundVars
<1>. PICK new : new = Log!Rebuilt
  OBVIOUS
<1>2. \A e \in Logged : /\ new[e] \in [seq : Nat, last : Nat] /\ new[e].seq < logNextId
                        /\ e \notin blind => Names(e, new[e].seq, new[e].last)
  BY RebuiltSays
<1>3. new \in [Logged -> [seq : Nat, last : Nat]]
  <2>1. new = [e \in Logged |-> new[e]]
    BY DEF Log!Rebuilt
  <2>. QED  BY <1>2, <2>1
<1>4. known \in [Threads -> [Logged -> [seq : Nat, last : Nat]]]
  BY DEF LogInv, LogTypes
<1>5. /\ known' \in [Threads -> [Logged -> [seq : Nat, last : Nat]]]
      /\ known'[m] = new /\ \A n \in Threads : n # m => known'[n] = known[n]
  BY <1>1, <1>3, <1>4
<1>6. LogTypes'
  BY <1>1, <1>5 DEF LogInv, LogTypes
<1>7. NumbersHold'
  BY <1>1, <1>2, <1>5 DEF LogInv, NumbersHold
<1>8. \A e \in Logged : Given(e)' = Given(e) /\ Log!Acked(e)' = Log!Acked(e)
  BY <1>1 DEF Given, Log!Acked, Log!Late
<1>9. \A e \in Logged : EventsHold(e)'
  BY <1>1, <1>8 DEF LogInv, EventsHold
<1>10. \A e \in Logged \ blind : LinesHold(e)'
  BY <1>1, <1>8 DEF LogInv, LinesHold, LateLast
<1>11. \A e \in Logged \ blind : ChainHolds(e)'
  <2>. SUFFICES ASSUME NEW e \in Logged \ blind PROVE ChainHolds(e)'
    OBVIOUS
  <2>1. ChainHolds(e)
    BY DEF LogInv
  <2>2. \A n, id : Names(e, n, id)' <=> Names(e, n, id)
    BY <1>8 DEF Names
  <2>3. \A n \in Threads : Names(e, known'[n][e].seq, known'[n][e].last)
    <3>1. Names(e, known'[m][e].seq, known'[m][e].last)
      BY <1>2, <1>5
    <3>2. ASSUME NEW n \in Threads, n # m
          PROVE  Names(e, known'[n][e].seq, known'[n][e].last)
      BY <1>5, <2>1, <3>2 DEF ChainHolds
    <3>. QED  BY <3>1, <3>2
  <2>. QED  BY <1>1, <1>8, <2>1, <2>2, <2>3 DEF ChainHolds
<1>. QED  BY <1>1, <1>6, <1>7, <1>9, <1>10, <1>11 DEF LogInv

LEMMA LogInvStep == LogInv /\ [Log!Next]_logVars => LogInv'
<1>1. ASSUME LogInv, UNCHANGED logVars PROVE LogInv'
  BY <1>1, LogSame DEF logVars
<1>2. ASSUME LogInv, Log!Next PROVE LogInv'
  <2>1. \/ \E m \in Threads, e \in Logged : Log!AppendEvent(m, e) \/ Log!AppendFails(m, e)
        \/ \E m \in Threads : Log!Restart(m)
        \/ \E m \in Threads, e \in Logged : Log!UpdateIndex(m, e)
        \/ \E e \in Logged : Log!RegisterSnapshot(e) \/ Log!LoadForRebuild(e)
        \/ Log!Rebuild
    BY <1>2, Zenon DEF Log!Next
  <2>2. ASSUME \/ \E m \in Threads, e \in Logged : Log!UpdateIndex(m, e)
               \/ \E e \in Logged : Log!RegisterSnapshot(e) \/ Log!LoadForRebuild(e)
               \/ Log!Rebuild
        PROVE  LogInv'
    <3>1. UNCHANGED <<logLines, fragment, known, acked, late, blind, logNextId>>
      BY <2>2 DEF Log!UpdateIndex, Log!RegisterSnapshot, Log!LoadForRebuild, Log!Rebuild,
                  Log!logVars, Log!boundVars
    <3>. QED  BY <1>2, <3>1, LogSame
  <2>. QED  BY <1>2, <2>1, <2>2, AppendEventKeeps, AppendFailsKeeps, RestartLogKeeps
<1>. QED  BY <1>1, <1>2

\* What the lines of an execution that nobody wrote to blindly are.
LEMMA LinesSay ==
    ASSUME LogInv, NEW e \in Logged \ blind
    PROVE  /\ Log!EventsOf(e) \subseteq Given(e) /\ Given(e) \subseteq LogEvents
           /\ Len(acked[e]) \in Nat /\ DOMAIN acked[e] = 1..Len(acked[e])
           /\ \A i \in DOMAIN acked[e] : acked[e][i] \in LogEvents /\ acked[e][i] \in Given(e)
           /\ \A x \in Log!EventsOf(e) :
                 \/ \E i \in DOMAIN acked[e] : x = acked[e][i]
                 \/ x = logLines[Len(logLines)] /\ LateLast(e, x)
<1>1. LogTypes /\ LinesHold(e)
  BY DEF LogInv
<1>2. Given(e) \subseteq LogEvents
  BY <1>1 DEF Given, Log!Acked, Log!Late, LogTypes
<1>3. \A x \in Log!EventsOf(e) :
         \/ \E i \in DOMAIN acked[e] : x = acked[e][i]
         \/ x = logLines[Len(logLines)] /\ LateLast(e, x) /\ x.exec = e
  BY <1>1 DEF LinesHold, Log!EventsOf, Log!Acked
<1>4. Log!EventsOf(e) \subseteq Given(e)
  BY <1>3 DEF Given, Log!Acked, Log!Late, LateLast
<1>5. acked[e] \in Seq(LogEvents)
  BY <1>1 DEF LogTypes
<1>6. Len(acked[e]) \in Nat /\ DOMAIN acked[e] = 1..Len(acked[e])
      /\ \A i \in DOMAIN acked[e] : acked[e][i] \in LogEvents
  BY <1>5, ElementOfSeq
<1>7. \A i \in DOMAIN acked[e] : acked[e][i] \in Given(e)
  BY DEF Given, Log!Acked
<1>. QED  BY <1>2, <1>3, <1>4, <1>6, <1>7

\* The newest acknowledged event has the greatest number of them.
LEMMA NewestIsGreatest ==
    ASSUME LogInv, NEW e \in Logged \ blind, NEW i \in DOMAIN acked[e]
    PROVE  /\ acked[e] # <<>> /\ Len(acked[e]) \in DOMAIN acked[e]
           /\ acked[e][i].seq \in Nat /\ acked[e][Len(acked[e])].seq \in Nat
           /\ acked[e][i].seq <= acked[e][Len(acked[e])].seq
           /\ acked[e][i].seq = acked[e][Len(acked[e])].seq => i = Len(acked[e])
<1>. PICK n : n = Len(acked[e])
  OBVIOUS
<1>1. /\ n \in Nat /\ DOMAIN acked[e] = 1..n
      /\ \A k \in DOMAIN acked[e] : acked[e][k] \in LogEvents
  BY LinesSay
<1>2. n \in DOMAIN acked[e] /\ (i = n \/ i < n) /\ acked[e] # <<>>
  BY <1>1
<1>3. acked[e][i].seq \in Nat /\ acked[e][n].seq \in Nat
  BY <1>1, <1>2 DEF LogEvents
<1>4. i < n => acked[e][i].seq < acked[e][n].seq
  <2>1. ChainHolds(e)
    BY DEF LogInv
  <2>. QED  BY <1>2, <2>1 DEF ChainHolds
<1>. QED  BY <1>1, <1>2, <1>3, <1>4

\* Mostly by going back along a chain that verifies: each event names the one of
\* the number before its own.
LEMMA ChainHidesNothing ==
    ASSUME LogInv, NEW e \in Logged \ blind,
           Log!SequenceOk(Log!EventsOf(e)), Log!ChainOk(Log!EventsOf(e)),
           NEW x \in Log!Acked(e) \ Log!EventsOf(e), NEW y \in Log!EventsOf(e)
    PROVE  x.seq > y.seq
<1>. DEFINE E == Log!EventsOf(e)
<1>0. /\ E \subseteq Given(e) /\ Given(e) \subseteq LogEvents
      /\ \A i \in DOMAIN acked[e] : acked[e][i] \in LogEvents /\ acked[e][i] \in Given(e)
      /\ \A z \in E : \/ \E i \in DOMAIN acked[e] : z = acked[e][i]
                      \/ z = logLines[Len(logLines)] /\ LateLast(e, z)
  BY LinesSay
<1>1. ChainHolds(e) /\ EventsHold(e)
  BY DEF LogInv
<1>2. \A z \in Given(e) : z.seq \in Nat /\ z.seq > 0
  BY <1>0, <1>1 DEF EventsHold, LogEvents
<1>3. PICK k \in DOMAIN acked[e] : x = acked[e][k]
  BY DEF Log!Acked
<1>4. x.seq \in Nat /\ x.seq > 0 /\ y.seq \in Nat
  BY <1>0, <1>2, <1>3
<1>. SUFFICES ASSUME x.seq <= y.seq PROVE FALSE
  BY <1>4
<1>. DEFINE above == {z.seq : z \in {w \in E : w.seq >= x.seq}}
<1>5. PICK least \in above : \A n \in above : least <= n
  <2>1. above \in SUBSET Nat /\ above # {}
    BY <1>0, <1>2
  <2>. HIDE DEF above
  <2>2. \E m \in above : \A n \in above : m <= n
    BY <2>1, LeastOf
  <2>. QED  BY <2>2
<1>6. PICK z \in E : z.seq = least /\ z.seq >= x.seq
  BY <1>5
<1>7. \A w \in E : w.seq >= x.seq => z.seq <= w.seq
  BY <1>5, <1>6
<1>. HIDE DEF above
<1>8. z.seq = x.seq
  <2>. SUFFICES ASSUME z.seq # x.seq PROVE FALSE
    OBVIOUS
  <2>0. z \in Given(e) /\ z.seq \in Nat /\ z.seq > x.seq
    BY <1>0, <1>2, <1>4, <1>6
  <2>1. PICK n \in Nat : z.seq = n + 1 /\ Names(e, n, z.prev)
    BY <1>1, <2>0 DEF ChainHolds
  <2>2. n >= x.seq /\ n # 0
    BY <1>4, <2>0, <2>1
  <2>3. PICK w \in Given(e) : w.seq = n /\ w.id = z.prev
    BY <2>1, <2>2 DEF Names
  <2>. DEFINE before == {v \in E : v.seq < z.seq}
  <2>4. w.id > 0 /\ w.id \in Nat
    BY <1>0, <1>1, <2>3 DEF EventsHold, LogEvents
  <2>5. z.prev = IF before = {} THEN 0 ELSE Log!LastOf(before).id
    BY DEF Log!ChainOk, Log!NoHash
  <2>6. before # {}
    BY <2>3, <2>4, <2>5
  <2>7. before \subseteq LogEvents /\ \A v \in before : v.seq <= z.seq
    BY <1>0, <1>2, <2>0
  <2>. PICK last : last = Log!LastOf(before)
    OBVIOUS
  <2>8. last \in before
    <3>. HIDE DEF before
    <3>. QED  BY <2>0, <2>6, <2>7, LastOfSays
  <2>9. last \in Given(e) /\ last.id = w.id
    BY <1>0, <2>3, <2>5, <2>6, <2>8
  <2>10. last = w
    BY <1>1, <2>3, <2>9 DEF EventsHold
  <2>11. w \in E /\ w.seq >= x.seq /\ w.seq < z.seq
    BY <2>2, <2>3, <2>8, <2>10
  <2>. QED  BY <1>7, <2>0, <2>1, <2>3, <2>11
<1>9. x.seq <= acked[e][Len(acked[e])].seq /\ acked[e] # <<>>
      /\ acked[e][Len(acked[e])].seq \in Nat
  BY <1>3, NewestIsGreatest
<1>10. CASE \E i \in DOMAIN acked[e] : z = acked[e][i]
  <2>1. PICK i \in DOMAIN acked[e] : z = acked[e][i]
    BY <1>10
  <2>2. i = k
    <3>1. i \in Nat /\ k \in Nat
      BY LinesSay
    <3>2. i < k => acked[e][i].seq < acked[e][k].seq
      BY <1>1 DEF ChainHolds
    <3>3. k < i => acked[e][k].seq < acked[e][i].seq
      BY <1>1 DEF ChainHolds
    <3>. QED  BY <1>3, <1>4, <1>8, <2>1, <3>1, <3>2, <3>3
  <2>. QED  BY <1>3, <1>6, <2>1, <2>2
<1>11. CASE LateLast(e, z)
  <2>1. z.seq > acked[e][Len(acked[e])].seq
    BY <1>9, <1>11 DEF LateLast, Succeeds
  <2>. QED  BY <1>4, <1>8, <1>9, <2>1
<1>. QED  BY <1>0, <1>6, <1>10, <1>11

\* Of two events with numbers next to each other the later one names the other.
LEMMA NeighboursLink ==
    ASSUME LogInv, NEW e \in Logged \ blind, NEW x \in Log!EventsOf(e),
           NEW z \in Log!EventsOf(e), x.seq = z.seq + 1
    PROVE  x.prev = z.id
<1>0. /\ x \in LogEvents /\ z \in LogEvents
      /\ Len(acked[e]) \in Nat /\ DOMAIN acked[e] = 1..Len(acked[e])
      /\ \A i \in DOMAIN acked[e] : acked[e][i] \in LogEvents
      /\ \A y \in {x, z} : \/ \E i \in DOMAIN acked[e] : y = acked[e][i]
                           \/ y = logLines[Len(logLines)] /\ LateLast(e, y)
  BY LinesSay
<1>1. ChainHolds(e)
  BY DEF LogInv
<1>2. x.seq \in Nat /\ z.seq \in Nat
  BY <1>0 DEF LogEvents
<1>. PICK n : n = Len(acked[e])
  OBVIOUS
<1>3. \A i, j \in DOMAIN acked[e] : i < j => acked[e][i].seq < acked[e][j].seq
  BY <1>1 DEF ChainHolds
<1>4. ASSUME NEW i \in DOMAIN acked[e], NEW j \in DOMAIN acked[e], z = acked[e][i], x = acked[e][j]
      PROVE  x.prev = z.id
  <2>1. i \in 1..n /\ j \in 1..n /\ n \in Nat
    BY <1>0
  <2>2. i < j
    <3>1. ~(j < i) /\ i # j
      BY <1>2, <1>3, <1>4
    <3>. QED  BY <2>1, <3>1
  <2>3. j = i + 1
    <3>. SUFFICES ASSUME j # i + 1 PROVE FALSE
      OBVIOUS
    <3>1. i + 1 \in DOMAIN acked[e] /\ i < i + 1 /\ i + 1 < j
      BY <1>0, <2>1, <2>2
    <3>2. acked[e][i].seq < acked[e][i + 1].seq /\ acked[e][i + 1].seq < acked[e][j].seq
      BY <1>3, <3>1
    <3>3. acked[e][i + 1].seq \in Nat
      BY <1>0, <3>1 DEF LogEvents
    <3>. QED  BY <1>2, <1>4, <3>2, <3>3
  <2>4. Succeeds(x, z)
    <3>1. j > 1 /\ j - 1 = i
      BY <2>1, <2>3
    <3>. QED  BY <1>1, <1>4, <3>1 DEF ChainHolds
  <2>. QED  BY <1>2, <2>4 DEF Succeeds
<1>5. ASSUME NEW i \in DOMAIN acked[e], z = acked[e][i], LateLast(e, x)
      PROVE  x.prev = z.id
  <2>1. /\ acked[e] # <<>> /\ n \in DOMAIN acked[e] /\ acked[e][n].seq \in Nat
        /\ z.seq <= acked[e][n].seq /\ (z.seq = acked[e][n].seq => i = n)
    BY <1>5, NewestIsGreatest
  <2>2. Succeeds(x, acked[e][n])
    BY <1>5, <2>1 DEF LateLast
  <2>3. acked[e][n].seq < x.seq
    BY <2>2 DEF Succeeds
  <2>4. z.seq = acked[e][n].seq
    BY <1>2, <2>1, <2>3
  <2>. QED  BY <1>2, <1>5, <2>1, <2>2, <2>4 DEF Succeeds
<1>6. ASSUME NEW j \in DOMAIN acked[e], x = acked[e][j], LateLast(e, z)
      PROVE  FALSE
  <2>1. acked[e] # <<>> /\ acked[e][n].seq \in Nat /\ x.seq <= acked[e][n].seq
    BY <1>6, NewestIsGreatest
  <2>2. acked[e][n].seq < z.seq
    BY <1>6, <2>1 DEF LateLast, Succeeds
  <2>. QED  BY <1>2, <2>1, <2>2
<1>7. x # z
  BY <1>2
<1>. QED  BY <1>0, <1>4, <1>5, <1>6, <1>7

\* A chain that is broken without a gap lacks its first event.
LEMMA BrokenLacksFirst ==
    ASSUME LogInv, NEW e \in Logged \ blind,
           ~Log!GapIn(Log!EventsOf(e)), ~Log!ChainOk(Log!EventsOf(e))
    PROVE  \E x \in Log!Lost(e) : x.prev = 0
<1>. DEFINE E == Log!EventsOf(e)
<1>0. E \subseteq Given(e) /\ Given(e) \subseteq LogEvents
  BY LinesSay
<1>1. ChainHolds(e) /\ EventsHold(e)
  BY DEF LogInv
<1>2. \A z \in Given(e) : z.seq \in Nat /\ z.seq > 0
  BY <1>0, <1>1 DEF EventsHold, LogEvents
<1>3. PICK x \in E : LET before == {y \in E : y.seq < x.seq}
                     IN  x.prev # IF before = {} THEN 0 ELSE Log!LastOf(before).id
  BY DEF Log!ChainOk, Log!NoHash
<1>. DEFINE before == {y \in E : y.seq < x.seq}
<1>4. x.seq \in Nat /\ x.seq > 0 /\ x \in Given(e)
  BY <1>0, <1>2
<1>5. CASE before = {}
  <2>1. x.prev # 0
    BY <1>3, <1>5
  <2>2. PICK n \in Nat : x.seq = n + 1 /\ Names(e, n, x.prev)
    BY <1>1, <1>4 DEF ChainHolds
  <2>3. PICK w \in Given(e) : w.seq = n
    BY <2>1, <2>2 DEF Names
  <2>4. n > 0
    BY <1>2, <2>3
  <2>5. PICK o \in Given(e) : o.prev = 0
    BY <1>1, <1>4 DEF ChainHolds
  <2>6. PICK k \in Nat : o.seq = k + 1 /\ Names(e, k, 0)
    BY <1>1, <2>5 DEF ChainHolds
  <2>7. k = 0
    <3>1. \A v \in Given(e) : v.id > 0 /\ v.id \in Nat
      BY <1>0, <1>1 DEF EventsHold, LogEvents
    <3>. QED  BY <2>6, <3>1 DEF Names
  <2>8. o \notin E
    BY <1>4, <1>5, <2>2, <2>4, <2>6, <2>7
  <2>. QED  BY <2>5, <2>8 DEF Log!Lost, Given
<1>6. CASE before # {}
  <2>1. PICK z \in E : z.seq = x.seq - 1
    BY <1>6 DEF Log!GapIn
  <2>2. z.seq \in Nat /\ x.seq = z.seq + 1
    BY <1>0, <1>2, <1>4, <2>1
  <2>3. x.prev = z.id
    BY <2>2, NeighboursLink
  <2>. PICK last : last = Log!LastOf(before)
    OBVIOUS
  <2>4. last \in before /\ \A y \in before : y.seq <= last.seq
    <3>1. before \subseteq LogEvents /\ \A y \in before : y.seq <= x.seq
      BY <1>0, <1>2, <1>4
    <3>. HIDE DEF before
    <3>. QED  BY <1>4, <1>6, <3>1, LastOfSays
  <2>5. z \in before
    BY <1>4, <2>2
  <2>6. last.seq = z.seq /\ last \in E
    BY <1>0, <1>2, <1>4, <2>2, <2>4, <2>5
  <2>7. x.prev = last.id
    <3>1. x.seq = last.seq + 1
      BY <2>2, <2>6
    <3>. QED  BY <2>6, <3>1, NeighboursLink
  <2>. QED  BY <1>3, <1>6, <2>7
<1>. QED  BY <1>5, <1>6

LEMMA LogInvShows == LogInv => Log!OnlyBlindAppendsHideLosses /\ Log!HonestDamageIsNotForgery
<1>. SUFFICES ASSUME LogInv
              PROVE  Log!OnlyBlindAppendsHideLosses /\ Log!HonestDamageIsNotForgery
  OBVIOUS
<1>1. ASSUME NEW e \in Logged \ blind PROVE Log!NothingMissing(e)
  <2>1. Log!Ready(e) \/ Log!LineageValid(Log!EventsOf(e)) =>
           Log!SequenceOk(Log!EventsOf(e)) /\ Log!ChainOk(Log!EventsOf(e))
    <3>1. Log!Ready(e) => Log!Verifies(e, Log!EventsOf(e))
      BY DEF Log!Ready, Log!Failures
    <3>. QED  BY <3>1 DEF Log!Verifies, Log!LineageValid
  <2>. QED  BY <2>1, ChainHidesNothing DEF Log!NothingMissing
<1>2. ASSUME NEW e \in SignedOnes \ blind, Log!LegitimacyOf(e) = "ILLEGITIMATE"
      PROVE  \E x \in Log!Lost(e) : x.prev = Log!NoHash
  <2>1. e \in Logged \ blind
    BY LogAssumption
  <2>2. ~Log!Verifies(e, Log!EventsOf(e))
        /\ Log!BrokenLegitimacy(Log!EventsOf(e)) = "ILLEGITIMATE"
    BY <1>2 DEF Log!LegitimacyOf, Log!Legitimacy
  <2>3. ~Log!GapIn(Log!EventsOf(e)) /\ Log!SequenceOk(Log!EventsOf(e))
    BY <2>2 DEF Log!BrokenLegitimacy, Log!Legitimacy
  <2>4. ~Log!ChainOk(Log!EventsOf(e))
    BY <2>2, <2>3 DEF Log!Verifies
  <2>. QED  BY <2>1, <2>3, <2>4, BrokenLacksFirst DEF Log!NoHash
<1>. QED  BY <1>1, <1>2 DEF Log!OnlyBlindAppendsHideLosses, Log!HonestDamageIsNotForgery

----------------------------------------------------------------------------
(* The files of the metrics. *)

ProcessRecords == [at : {"new", "look", "missing", "empty", "ready", "write"}, next : Nat,
                   what : DOMAIN RowsOf \cup {"none"}, row : Nat]
FileRecords == [header : BOOLEAN, rows : SUBSET Nat, exists : BOOLEAN, torn : BOOLEAN]
SummaryRecords == [next : Nat, count : Int, before : Nat, disturbed : BOOLEAN]

\* A process looks for a file there is, and adds rows to one there is.
Placed(o) ==
    /\ o.at = "new" => o.next = 1
    /\ o.at \in {"look", "missing", "empty"} => o.next \in DOMAIN MetricFiles
    /\ o.at = "write" => o.what \in DOMAIN RowsOf /\ o.next \in DOMAIN RowsOf[o.what]

MetricsTypes ==
    /\ metricsFile \in [MetricNames -> FileRecords]
    /\ process \in [Threads -> ProcessRecords] /\ \A p \in Threads : Placed(process[p])
    /\ recorded \subseteq MetricNames \X Nat /\ IsFiniteSet(recorded)
    /\ taken \in Nat /\ kills \in Nat /\ shared \subseteq MetricNames
    /\ summary \in SummaryRecords

\* The process has found the file, or has created it.
CameBy(o, f) ==
    \/ o.at \in {"ready", "write"}
    \/ /\ o.at \in {"look", "missing", "empty"}
       /\ \E k \in DOMAIN MetricFiles : k < o.next /\ MetricFiles[k] = f

Creates(o, f) == o.at \in {"missing", "empty"} /\ MetricFiles[o.next] = f

\* A file is there for those who came by it, or opened it.
PassesHold ==
    \A p \in Threads, f \in MetricNames :
        (CameBy(process[p], f) \/ (Creates(process[p], f) /\ process[p].at = "empty"))
            => metricsFile[f].exists

\* A file has no rows that were not recorded, and unless it was created late all
\* that were.
RowsHold ==
    \A f \in MetricNames :
        /\ \A r \in metricsFile[f].rows : <<f, r>> \in recorded
        /\ metricsFile[f].rows # {} => metricsFile[f].exists
        /\ f \notin shared =>
              /\ \A r \in Nat : <<f, r>> \in recorded => r \in metricsFile[f].rows
              /\ ~metricsFile[f].torn

\* One process at most creates a file, as long as nobody came to it meanwhile; the
\* others have yet to come to it, and it has no rows.
CreationHolds ==
    \A f \in MetricNames \ shared, p \in Threads : Creates(process[p], f) =>
        /\ \A q \in Threads : (Creates(process[q], f) => p = q) /\ ~CameBy(process[q], f)
        /\ metricsFile[f].rows = {}
        /\ process[p].at = "missing" => ~metricsFile[f].exists

HeadersHold ==
    \A f \in MetricNames : metricsFile[f].exists /\ ~metricsFile[f].header =>
        \/ \E p \in Threads : Creates(process[p], f)
        \/ f \in shared \/ kills > 0

\* The recorded rows of the files from the first one given to before the other.
RowsOfFiles(first, beyond) ==
    {fr \in recorded : \E k \in DOMAIN MetricFiles :
        first <= k /\ k < beyond /\ MetricFiles[k] = fr[1]}

\* What a summary has counted, and what it has to count yet.
SummaryHolds ==
    /\ summary.next \in 0..Len(MetricFiles) + 1
    /\ summary.next > 0 /\ ~summary.disturbed =>
          /\ \A f \in MetricNames : metricsFile[f].exists => metricsFile[f].header
          /\ shared = {} =>
                /\ summary.count \in Nat /\ summary.before \in Nat
                /\ summary.count <= Cardinality(RowsOfFiles(1, summary.next))
                /\ summary.before <= summary.count +
                        Cardinality(RowsOfFiles(summary.next, Len(MetricFiles) + 1))

MetricsInv ==
    MetricsTypes /\ PassesHold /\ RowsHold /\ CreationHolds /\ HeadersHold /\ SummaryHolds

LEMMA MetricsCardinality == \A S : Metrics!Cardinality(S) = Cardinality(S)
BY Zenon DEF Metrics!Cardinality, Cardinality

LEMMA MetricFilesSay ==
    /\ MetricFiles \in Seq(MetricNames) /\ Len(MetricFiles) \in Nat \ {0}
    /\ DOMAIN MetricFiles = 1..Len(MetricFiles)
    /\ \A i \in DOMAIN MetricFiles : MetricFiles[i] \in MetricNames
    /\ \A f \in MetricNames : \E i \in DOMAIN MetricFiles : MetricFiles[i] = f
    /\ \A i, j \in DOMAIN MetricFiles : MetricFiles[i] = MetricFiles[j] => i = j
<1>1. MetricFiles \in Seq(MetricNames) /\ MetricFiles # <<>>
  BY MetricsAssumption
<1>2. Len(MetricFiles) \in Nat \ {0} /\ DOMAIN MetricFiles = 1..Len(MetricFiles)
  BY <1>1, EmptySeq
<1>3. \A i, j \in DOMAIN MetricFiles : MetricFiles[i] = MetricFiles[j] => i = j
  BY MetricsAssumption
<1>4. \A f \in MetricNames : \E i \in DOMAIN MetricFiles : MetricFiles[i] = f
  BY DEF MetricNames
<1>5. \A i \in DOMAIN MetricFiles : MetricFiles[i] \in MetricNames
  BY DEF MetricNames
<1>. QED  BY <1>1, <1>2, <1>3, <1>4, <1>5

LEMMA MetricsInvInit == Metrics!MetricsInit => MetricsInv
<1>. SUFFICES ASSUME Metrics!MetricsInit PROVE MetricsInv
  OBVIOUS
<1>1. /\ metricsFile = [f \in MetricNames |-> Metrics!Missing]
      /\ process = [p \in Threads |-> Metrics!New]
      /\ taken = 0 /\ recorded = {} /\ shared = {} /\ kills = 0
      /\ summary = Metrics!NoSummary
  BY DEF Metrics!MetricsInit, MetricNames
<1>2. /\ Metrics!Missing \in FileRecords
      /\ Metrics!Missing.rows = {} /\ ~Metrics!Missing.exists /\ ~Metrics!Missing.torn
  BY DEF Metrics!Missing, FileRecords
<1>3. /\ Metrics!New \in ProcessRecords /\ Metrics!New.at = "new" /\ Metrics!New.next = 1
  BY DEF Metrics!New, ProcessRecords
<1>4. /\ \A p \in Threads : process[p].at = "new" /\ process[p].next = 1
      /\ \A f \in MetricNames : /\ metricsFile[f].rows = {} /\ ~metricsFile[f].exists
                                /\ ~metricsFile[f].torn
  BY <1>1, <1>2, <1>3
<1>5. MetricsTypes
  <2>1. metricsFile \in [MetricNames -> FileRecords] /\ process \in [Threads -> ProcessRecords]
    BY <1>1, <1>2, <1>3
  <2>2. IsFiniteSet(recorded)
    BY <1>1, FS_EmptySet
  <2>3. \A p \in Threads : Placed(process[p])
    BY <1>4 DEF Placed
  <2>4. summary \in SummaryRecords
    BY <1>1 DEF Metrics!NoSummary, SummaryRecords
  <2>. QED  BY <1>1, <2>1, <2>2, <2>3, <2>4 DEF MetricsTypes
<1>6. PassesHold /\ CreationHolds /\ HeadersHold
  BY <1>4 DEF PassesHold, CreationHolds, HeadersHold, CameBy, Creates
<1>7. RowsHold
  BY <1>1, <1>4 DEF RowsHold
<1>8. SummaryHolds
  <2>1. summary.next = 0
    BY <1>1 DEF Metrics!NoSummary
  <2>. QED  BY <2>1, MetricFilesSay DEF SummaryHolds
<1>. QED  BY <1>5, <1>6, <1>7, <1>8 DEF MetricsInv

\* The record of a process that goes on to the next file, or is ready.
LEMMA ReadySays ==
    ASSUME NEW n \in DOMAIN MetricFiles
    PROVE  /\ Metrics!Ready(n) \in ProcessRecords /\ Placed(Metrics!Ready(n))
           /\ \A f \in MetricNames :
                 /\ ~Creates(Metrics!Ready(n), f)
                 /\ CameBy(Metrics!Ready(n), f) =>
                        \E k \in DOMAIN MetricFiles : k <= n /\ MetricFiles[k] = f
<1>1. PICK o : o = Metrics!New
  OBVIOUS
<1>2. o \in [at : {"new"}, next : {1}, what : {"none"}, row : {0}]
  BY <1>1 DEF Metrics!New
<1>3. n \in Nat /\ (n # Len(MetricFiles) => n + 1 \in DOMAIN MetricFiles)
  BY MetricFilesSay
<1>4. CASE n = Len(MetricFiles)
  <2>1. Metrics!Ready(n) = [o EXCEPT !.at = "ready"]
    BY <1>1, <1>4 DEF Metrics!Ready
  <2>2. PICK r : r = Metrics!Ready(n)
    OBVIOUS
  <2>3. r \in ProcessRecords /\ r.at = "ready"
    BY <1>2, <2>1, <2>2 DEF ProcessRecords
  <2>4. \A f \in MetricNames : \E k \in DOMAIN MetricFiles : k <= n /\ MetricFiles[k] = f
    BY MetricFilesSay, <1>4
  <2>. QED  BY <2>2, <2>3, <2>4 DEF Placed, Creates
<1>5. CASE n # Len(MetricFiles)
  <2>1. Metrics!Ready(n) = [o EXCEPT !.at = "look", !.next = n + 1]
    BY <1>1, <1>5 DEF Metrics!Ready
  <2>2. PICK r : r = Metrics!Ready(n)
    OBVIOUS
  <2>5. r = [at |-> "look", next |-> n + 1, what |-> "none", row |-> 0]
    BY <1>2, <2>1, <2>2
  <2>3. r \in ProcessRecords /\ r.at = "look" /\ r.next = n + 1
    BY <1>3, <2>5 DEF ProcessRecords
  <2>4. \A k \in DOMAIN MetricFiles : k < n + 1 => k <= n
    BY <1>3, MetricFilesSay
  <2>. QED  BY <1>3, <1>5, <2>2, <2>3, <2>4 DEF Placed, Creates, CameBy
<1>. QED  BY <1>4, <1>5

LEMMA CreatingSays ==
    \A f : Metrics!Creating(f) = {p \in Threads : Creates(process[p], f)}
BY DEF Metrics!Creating, Metrics!AtFile, Creates

\* The summary does not change but for being disturbed.
LEMMA SummaryKept ==
    ASSUME MetricsTypes, SummaryHolds,
           recorded \subseteq recorded', IsFiniteSet(recorded'), shared \subseteq shared',
           UNCHANGED <<summary>> \/ summary' = [summary EXCEPT !.disturbed = TRUE],
           ~summary'.disturbed => \A f \in MetricNames :
              /\ metricsFile'[f].exists <=> metricsFile[f].exists
              /\ metricsFile'[f].header <=> metricsFile[f].header
    PROVE  SummaryHolds' /\ summary' \in SummaryRecords
<1>3. summary' \in SummaryRecords
  BY DEF MetricsTypes, SummaryRecords
<1>1. CASE summary' = [summary EXCEPT !.disturbed = TRUE]
  <2>1. summary'.next = summary.next /\ summary'.disturbed = TRUE
    BY <1>1 DEF MetricsTypes, SummaryRecords
  <2>7. summary.next \in 0..Len(MetricFiles) + 1
    BY DEF SummaryHolds
  <2>. QED  BY <1>3, <2>1, <2>7 DEF SummaryHolds
<1>2. CASE summary' = summary
  <2>1. \A a, b : /\ IsFiniteSet(RowsOfFiles(a, b)')
                  /\ Cardinality(RowsOfFiles(a, b)) \in Nat
                  /\ Cardinality(RowsOfFiles(a, b)') \in Nat
                  /\ Cardinality(RowsOfFiles(a, b)) <= Cardinality(RowsOfFiles(a, b)')
    <3>. SUFFICES ASSUME NEW a, NEW b
                  PROVE  /\ IsFiniteSet(RowsOfFiles(a, b)')
                         /\ Cardinality(RowsOfFiles(a, b)) \in Nat
                         /\ Cardinality(RowsOfFiles(a, b)') \in Nat
                         /\ Cardinality(RowsOfFiles(a, b)) <= Cardinality(RowsOfFiles(a, b)')
      OBVIOUS
    <3>1. /\ RowsOfFiles(a, b) \subseteq RowsOfFiles(a, b)'
          /\ RowsOfFiles(a, b)' \subseteq recorded'
      BY DEF RowsOfFiles
    <3>2. IsFiniteSet(RowsOfFiles(a, b)')
      BY <3>1, FS_Subset
    <3>3. IsFiniteSet(RowsOfFiles(a, b))
          /\ Cardinality(RowsOfFiles(a, b)) <= Cardinality(RowsOfFiles(a, b)')
      BY <3>1, <3>2, FS_Subset
    <3>. QED  BY <3>2, <3>3, FS_CardinalityType
  <2>. PICK n : n = summary.next
    OBVIOUS
  <2>2. summary'.next = n /\ summary.next = n
    BY <1>2
  <2>3. ASSUME n > 0, ~summary'.disturbed, shared' = {}
        PROVE  /\ summary'.count \in Nat /\ summary'.before \in Nat
               /\ summary'.count <= Cardinality(RowsOfFiles(1, n)')
               /\ summary'.before <= summary'.count +
                        Cardinality(RowsOfFiles(n, Len(MetricFiles) + 1)')
    <3>1. /\ summary.count \in Nat /\ summary.before \in Nat
          /\ summary.count <= Cardinality(RowsOfFiles(1, n))
          /\ summary.before <= summary.count +
                   Cardinality(RowsOfFiles(n, Len(MetricFiles) + 1))
      BY <1>2, <2>2, <2>3 DEF SummaryHolds
    <3>. QED  BY <1>2, <2>1, <3>1
  <2>4. n > 0 /\ ~summary'.disturbed =>
            \A f \in MetricNames : metricsFile'[f].exists => metricsFile'[f].header
    BY <1>2, <2>2 DEF SummaryHolds
  <2>5. RowsOfFiles(1, n)' = RowsOfFiles(1, summary.next)'
        /\ RowsOfFiles(n, Len(MetricFiles) + 1)' = RowsOfFiles(summary.next, Len(MetricFiles) + 1)'
    BY <2>2 DEF RowsOfFiles
  <2>6. n \in 0..Len(MetricFiles) + 1
    BY <2>2 DEF SummaryHolds
  <2>. QED  BY <1>3, <2>2, <2>3, <2>4, <2>5, <2>6 DEF SummaryHolds
<1>. QED  BY <1>1, <1>2, <1>3

\* A process does something and the files stay as they are: it comes by a file only if it
\* did before, or if the file is there and nobody creates it unshared.
LEMMA MovesOn ==
    ASSUME MetricsInv, NEW p \in Threads, NEW o \in ProcessRecords, Placed(o),
           process' = [process EXCEPT ![p] = o],
           metricsFile' = metricsFile, recorded' = recorded, summary' = summary,
           taken' \in Nat, kills' \in Nat, kills <= kills', shared \subseteq shared',
           shared' \subseteq MetricNames,
           \A f \in MetricNames :
               /\ ~Creates(o, f)
               /\ CameBy(o, f) => \/ CameBy(process[p], f)
                                  \/ /\ metricsFile[f].exists
                                     /\ \/ f \in shared'
                                        \/ \A q \in Threads : ~Creates(process[q], f)
               /\ Creates(process[p], f) => kills' > 0
    PROVE  MetricsInv'
<1>1. MetricsTypes /\ PassesHold /\ RowsHold /\ CreationHolds /\ HeadersHold /\ SummaryHolds
  BY DEF MetricsInv
<1>2. /\ process'[p] = o /\ \A q \in Threads \ {p} : process'[q] = process[q]
      /\ process' \in [Threads -> ProcessRecords]
  BY <1>1 DEF MetricsTypes
<1>3. MetricsTypes'
  BY <1>1, <1>2 DEF MetricsTypes
<1>4. PassesHold'
  <2>. SUFFICES ASSUME NEW q \in Threads, NEW f \in MetricNames,
                       CameBy(process'[q], f) \/ (Creates(process'[q], f) /\ process'[q].at = "empty")
                PROVE  metricsFile[f].exists
    BY DEF PassesHold
  <2>1. CASE q = p
    BY <1>1, <1>2, <2>1 DEF PassesHold
  <2>2. CASE q # p
    BY <1>1, <1>2, <2>2 DEF PassesHold
  <2>. QED  BY <2>1, <2>2
<1>5. RowsHold'
  BY <1>1 DEF RowsHold
<1>6. CreationHolds'
  <2>. SUFFICES ASSUME NEW f \in MetricNames \ shared', NEW q \in Threads, Creates(process'[q], f)
                PROVE  /\ \A s \in Threads : (Creates(process'[s], f) => q = s)
                                             /\ ~CameBy(process'[s], f)
                       /\ metricsFile[f].rows = {}
                       /\ process'[q].at = "missing" => ~metricsFile[f].exists
    BY DEF CreationHolds
  <2>1. q # p /\ Creates(process[q], f) /\ process'[q] = process[q] /\ f \notin shared
    BY <1>2
  <2>2. /\ \A s \in Threads : (Creates(process[s], f) => q = s) /\ ~CameBy(process[s], f)
        /\ metricsFile[f].rows = {}
        /\ process[q].at = "missing" => ~metricsFile[f].exists
    BY <1>1, <2>1 DEF CreationHolds
  <2>3. ~CameBy(o, f)
    BY <2>1, <2>2
  <2>. QED  BY <1>2, <2>1, <2>2, <2>3
<1>7. HeadersHold'
  <2>. SUFFICES ASSUME NEW f \in MetricNames, metricsFile[f].exists, ~metricsFile[f].header,
                       f \notin shared', ~(kills' > 0)
                PROVE  \E q \in Threads : Creates(process'[q], f)
    BY DEF HeadersHold
  <2>1. ~(kills > 0)
    BY <1>1 DEF MetricsTypes
  <2>2. PICK q \in Threads : Creates(process[q], f)
    BY <1>1, <2>1 DEF HeadersHold
  <2>3. q # p
    BY <2>2
  <2>. QED  BY <1>2, <2>2, <2>3
<1>8. SummaryHolds'
  <2>1. IsFiniteSet(recorded')
    BY <1>1 DEF MetricsTypes
  <2>. QED  BY <1>1, <2>1, SummaryKept
<1>. QED  BY <1>3, <1>4, <1>5, <1>6, <1>7, <1>8 DEF MetricsInv

LEMMA StartKeeps ==
    ASSUME MetricsInv, NEW p \in Threads, Metrics!Start(p)
    PROVE  MetricsInv'
<1>1. process[p] \in ProcessRecords /\ process[p].at = "new" /\ process[p].next = 1
      /\ process \in [Threads -> ProcessRecords]
      /\ kills \in Nat /\ taken \in Nat /\ shared \subseteq MetricNames
  BY DEF MetricsInv, MetricsTypes, Placed, Metrics!Start
<1>2. PICK o : o = [process[p] EXCEPT !.at = "look"]
  OBVIOUS
<1>3. o \in ProcessRecords /\ o.at = "look" /\ o.next = 1
  BY <1>1, <1>2 DEF ProcessRecords
<1>4. process' = [process EXCEPT ![p] = o]
  BY <1>2 DEF Metrics!Start
<1>5. /\ metricsFile' = metricsFile /\ recorded' = recorded /\ summary' = summary
      /\ taken' = taken /\ kills' = kills /\ shared' = shared
  BY DEF Metrics!Start
<1>6. Placed(o)
  BY <1>3, MetricFilesSay DEF Placed
<1>7. \A f \in MetricNames : ~Creates(o, f) /\ ~CameBy(o, f) /\ ~Creates(process[p], f)
  BY <1>1, <1>3, MetricFilesSay DEF Creates, CameBy
<1>8. taken' \in Nat /\ kills' \in Nat /\ kills <= kills' /\ shared' \subseteq MetricNames
      /\ shared \subseteq shared'
  BY <1>1, <1>5
<1>. QED  BY <1>3, <1>4, <1>5, <1>6, <1>7, <1>8, MovesOn

LEMMA MeasureKeeps ==
    ASSUME MetricsInv, NEW p \in Threads, NEW m \in DOMAIN RowsOf, Metrics!Measure(p, m)
    PROVE  MetricsInv'
<1>1. process[p] \in ProcessRecords /\ process[p].at = "ready"
      /\ process \in [Threads -> ProcessRecords]
      /\ kills \in Nat /\ taken \in Nat /\ shared \subseteq MetricNames
  BY DEF MetricsInv, MetricsTypes, Metrics!Measure
<1>2. PICK o : o = [at |-> "write", next |-> 1, what |-> m, row |-> taken + 1]
  OBVIOUS
<1>3. o \in ProcessRecords /\ o.at = "write" /\ o.next = 1 /\ o.what = m
  BY <1>1, <1>2 DEF ProcessRecords
<1>4. process' = [process EXCEPT ![p] = o]
  BY <1>2 DEF Metrics!Measure
<1>5. /\ metricsFile' = metricsFile /\ recorded' = recorded /\ summary' = summary
      /\ taken' = taken + 1 /\ kills' = kills /\ shared' = shared
  BY DEF Metrics!Measure
<1>6. Placed(o)
  <2>1. RowsOf[m] \in Seq(MetricNames) /\ RowsOf[m] # <<>>
    BY MetricsAssumption
  <2>2. 1 \in DOMAIN RowsOf[m]
    BY <2>1, EmptySeq
  <2>. QED  BY <1>3, <2>2 DEF Placed
<1>7. \A f \in MetricNames : ~Creates(o, f) /\ CameBy(process[p], f) /\ ~Creates(process[p], f)
  BY <1>1, <1>3 DEF Creates, CameBy
<1>8. taken' \in Nat /\ kills' \in Nat /\ kills <= kills' /\ shared' \subseteq MetricNames
      /\ shared \subseteq shared'
  BY <1>1, <1>5
<1>. QED  BY <1>3, <1>4, <1>5, <1>6, <1>7, <1>8, MovesOn

LEMMA KillKeeps ==
    ASSUME MetricsInv, NEW p \in Threads, Metrics!Kill(p)
    PROVE  MetricsInv'
<1>1. process \in [Threads -> ProcessRecords]
      /\ kills \in Nat /\ taken \in Nat /\ shared \subseteq MetricNames
  BY DEF MetricsInv, MetricsTypes
<1>2. PICK o : o = Metrics!New
  OBVIOUS
<1>3. o \in ProcessRecords /\ o.at = "new" /\ o.next = 1
  BY <1>2 DEF Metrics!New, ProcessRecords
<1>4. process' = [process EXCEPT ![p] = o]
  BY <1>2 DEF Metrics!Kill
<1>5. /\ metricsFile' = metricsFile /\ recorded' = recorded /\ summary' = summary
      /\ taken' = taken /\ kills' = kills + 1 /\ shared' = shared
  BY DEF Metrics!Kill
<1>6. Placed(o) /\ \A f \in MetricNames : ~Creates(o, f) /\ ~CameBy(o, f)
  BY <1>3 DEF Placed, Creates, CameBy
<1>7. taken' \in Nat /\ kills' \in Nat /\ kills <= kills' /\ shared' \subseteq MetricNames
      /\ shared \subseteq shared' /\ kills' > 0
  BY <1>1, <1>5
<1>. QED  BY <1>3, <1>4, <1>5, <1>6, <1>7, MovesOn

LEMMA LookKeeps ==
    ASSUME MetricsInv, NEW p \in Threads, Metrics!Look(p)
    PROVE  MetricsInv'
<1>0. MetricsTypes /\ PassesHold /\ RowsHold /\ CreationHolds /\ HeadersHold /\ SummaryHolds
  BY DEF MetricsInv
<1>1. /\ process[p] \in ProcessRecords /\ process[p].at = "look"
      /\ process[p].next \in DOMAIN MetricFiles
      /\ process \in [Threads -> ProcessRecords]
      /\ kills \in Nat /\ taken \in Nat /\ shared \subseteq MetricNames
  BY <1>0 DEF MetricsTypes, Placed, Metrics!Look
<1>2. PICK n \in DOMAIN MetricFiles : n = process[p].next
  BY <1>1
<1>3. PICK f \in MetricNames : f = MetricFiles[n]
  BY <1>2, MetricFilesSay
<1>4. /\ metricsFile' = metricsFile /\ recorded' = recorded /\ summary' = summary
      /\ taken' = taken /\ kills' = kills
  BY DEF Metrics!Look
<1>5. /\ shared \subseteq shared' /\ shared' \subseteq MetricNames
      /\ f \in shared' \/ \A q \in Threads : ~Creates(process[q], f)
  <2>1. Metrics!AtFile(p) = f
    BY <1>2, <1>3 DEF Metrics!AtFile
  <2>2. shared' = IF {q \in Threads : Creates(process[q], f)} = {} THEN shared ELSE shared \cup {f}
    BY <2>1, CreatingSays DEF Metrics!Look, Metrics!Coming
  <2>. QED  BY <1>1, <2>2
<1>6. /\ taken' \in Nat /\ kills' \in Nat /\ kills <= kills'
  BY <1>1, <1>4
<1>7. \A g \in MetricNames : ~Creates(process[p], g)
  BY <1>1 DEF Creates
<1>8. \A k \in DOMAIN MetricFiles : k <= n => k < n \/ k = n
  BY MetricFilesSay
<1>9. CASE metricsFile[f].exists
  <2>1. PICK o : o = Metrics!Ready(n)
    OBVIOUS
  <2>2. process' = [process EXCEPT ![p] = o]
    BY <1>2, <1>3, <1>9, <2>1 DEF Metrics!Look, Metrics!AtFile
  <2>3. /\ o \in ProcessRecords /\ Placed(o)
        /\ \A g \in MetricNames :
              /\ ~Creates(o, g)
              /\ CameBy(o, g) => \E k \in DOMAIN MetricFiles : k <= n /\ MetricFiles[k] = g
    BY <2>1, ReadySays
  <2>4. \A g \in MetricNames : CameBy(o, g) => CameBy(process[p], g) \/ g = f
    BY <1>1, <1>2, <1>3, <1>8, <2>3 DEF CameBy
  <2>. QED  BY <1>4, <1>5, <1>6, <1>7, <1>9, <2>2, <2>3, <2>4, MovesOn
<1>10. CASE ~metricsFile[f].exists
  <2>1. PICK o : o = [process[p] EXCEPT !.at = "missing"]
    OBVIOUS
  <2>2. process' = [process EXCEPT ![p] = o]
    BY <1>1, <1>2, <1>3, <1>10, <2>1 DEF Metrics!Look, Metrics!AtFile
  <2>3. o \in ProcessRecords /\ o.at = "missing" /\ o.next = n
    BY <1>1, <1>2, <2>1 DEF ProcessRecords
  <2>4. Placed(o) /\ \A g \in MetricNames : /\ Creates(o, g) <=> g = f
                                            /\ CameBy(o, g) <=> CameBy(process[p], g)
    BY <1>1, <1>2, <1>3, <2>3 DEF Placed, Creates, CameBy
  <2>5. /\ process'[p] = o /\ \A q \in Threads \ {p} : process'[q] = process[q]
        /\ process' \in [Threads -> ProcessRecords]
    BY <1>1, <2>2, <2>3
  <2>6. MetricsTypes'
    BY <1>0, <1>4, <1>5, <1>6, <2>4, <2>5 DEF MetricsTypes
  <2>7. PassesHold'
    BY <1>0, <1>4, <2>3, <2>4, <2>5 DEF PassesHold
  <2>8. RowsHold'
    BY <1>0, <1>4, <1>5 DEF RowsHold
  <2>9. CreationHolds'
    <3>. SUFFICES ASSUME NEW g \in MetricNames \ shared', NEW q \in Threads, Creates(process'[q], g)
                  PROVE  /\ \A s \in Threads : (Creates(process'[s], g) => q = s)
                                               /\ ~CameBy(process'[s], g)
                         /\ metricsFile[g].rows = {}
                         /\ process'[q].at = "missing" => ~metricsFile[g].exists
      BY <1>4 DEF CreationHolds
    <3>1. CASE g = f
      <4>1. \A s \in Threads : ~Creates(process[s], f) /\ ~CameBy(process[s], f)
        BY <1>0, <1>5, <1>10, <3>1 DEF PassesHold
      <4>2. q = p /\ \A s \in Threads : Creates(process'[s], f) => s = p
        BY <2>5, <3>1, <4>1
      <4>3. \A s \in Threads : ~CameBy(process'[s], f)
        BY <2>4, <2>5, <4>1
      <4>4. metricsFile[f].rows = {}
        BY <1>0, <1>10 DEF RowsHold
      <4>. QED  BY <1>10, <3>1, <4>2, <4>3, <4>4
    <3>2. CASE g # f
      <4>1. q # p /\ Creates(process[q], g) /\ process'[q] = process[q] /\ g \notin shared
        BY <1>5, <2>4, <2>5, <3>2
      <4>2. /\ \A s \in Threads : (Creates(process[s], g) => q = s) /\ ~CameBy(process[s], g)
            /\ metricsFile[g].rows = {}
            /\ process[q].at = "missing" => ~metricsFile[g].exists
        BY <1>0, <4>1 DEF CreationHolds
      <4>3. ~CameBy(o, g) /\ ~Creates(o, g)
        BY <2>4, <3>2, <4>2
      <4>. QED  BY <2>5, <4>1, <4>2, <4>3
    <3>. QED  BY <3>1, <3>2
  <2>10. HeadersHold'
    <3>. SUFFICES ASSUME NEW g \in MetricNames, metricsFile[g].exists, ~metricsFile[g].header,
                         g \notin shared', ~(kills > 0)
                  PROVE  \E q \in Threads : Creates(process'[q], g)
      BY <1>4 DEF HeadersHold
    <3>1. PICK q \in Threads : Creates(process[q], g)
      BY <1>0, <1>5 DEF HeadersHold
    <3>. QED  BY <1>7, <2>5, <3>1
  <2>11. SummaryHolds'
    <3>1. IsFiniteSet(recorded')
      BY <1>0, <1>4 DEF MetricsTypes
    <3>. QED  BY <1>0, <1>4, <1>5, <3>1, SummaryKept
  <2>. QED  BY <2>6, <2>7, <2>8, <2>9, <2>10, <2>11 DEF MetricsInv
<1>. QED  BY <1>9, <1>10

LEMMA OpenNewKeeps ==
    ASSUME MetricsInv, NEW p \in Threads, Metrics!OpenNew(p)
    PROVE  MetricsInv'
<1>0. MetricsTypes /\ PassesHold /\ RowsHold /\ CreationHolds /\ HeadersHold /\ SummaryHolds
  BY DEF MetricsInv
<1>1. /\ process[p] \in ProcessRecords /\ process[p].at = "missing"
      /\ process[p].next \in DOMAIN MetricFiles
      /\ process \in [Threads -> ProcessRecords]
      /\ metricsFile \in [MetricNames -> FileRecords]
  BY <1>0 DEF MetricsTypes, Placed, Metrics!OpenNew
<1>2. PICK n \in DOMAIN MetricFiles : n = process[p].next
  BY <1>1
<1>3. PICK f \in MetricNames : f = MetricFiles[n]
  BY <1>2, MetricFilesSay
<1>4. /\ recorded' = recorded /\ summary' = [summary EXCEPT !.disturbed = TRUE]
      /\ taken' = taken /\ kills' = kills /\ shared' = shared
  BY DEF Metrics!OpenNew
<1>5. PICK o : o = [process[p] EXCEPT !.at = "empty"]
  OBVIOUS
<1>6. o \in ProcessRecords /\ o.at = "empty" /\ o.next = n
  BY <1>1, <1>2, <1>5 DEF ProcessRecords
<1>7. process' = [process EXCEPT ![p] = o]
  BY <1>5 DEF Metrics!OpenNew
<1>8. /\ process'[p] = o /\ \A q \in Threads \ {p} : process'[q] = process[q]
      /\ process' \in [Threads -> ProcessRecords]
  BY <1>1, <1>6, <1>7
<1>9. PICK new \in FileRecords :
          /\ new.rows = {} /\ new.exists /\ ~new.torn
          /\ metricsFile' = [metricsFile EXCEPT ![f] = new]
  <2>1. Metrics!Missing \in FileRecords /\ Metrics!Missing.rows = {} /\ ~Metrics!Missing.torn
    BY DEF Metrics!Missing, FileRecords
  <2>2. /\ Metrics!Empty \in FileRecords /\ Metrics!Empty.rows = {} /\ Metrics!Empty.exists
        /\ ~Metrics!Empty.torn
    BY <2>1 DEF Metrics!Empty, FileRecords
  <2>3. metricsFile' = [metricsFile EXCEPT ![f] = Metrics!Empty]
    BY <1>2, <1>3 DEF Metrics!OpenNew, Metrics!AtFile
  <2>. QED  BY <2>2, <2>3
<1>10. /\ metricsFile'[f] = new /\ \A g \in MetricNames \ {f} : metricsFile'[g] = metricsFile[g]
       /\ metricsFile' \in [MetricNames -> FileRecords]
  BY <1>1, <1>9
<1>11. Placed(o) /\ \A g \in MetricNames : /\ Creates(o, g) <=> g = f
                                           /\ Creates(process[p], g) <=> g = f
                                           /\ CameBy(o, g) <=> CameBy(process[p], g)
  BY <1>1, <1>2, <1>3, <1>6 DEF Placed, Creates, CameBy
<1>12. \A q \in Threads, g \in MetricNames :
           /\ Creates(process'[q], g) <=> Creates(process[q], g)
           /\ CameBy(process'[q], g) <=> CameBy(process[q], g)
  BY <1>8, <1>11
<1>13. SummaryHolds' /\ summary' \in SummaryRecords
  <2>1. summary'.disturbed = TRUE
    BY <1>0, <1>4 DEF MetricsTypes, SummaryRecords
  <2>2. IsFiniteSet(recorded')
    BY <1>0, <1>4 DEF MetricsTypes
  <2>. QED  BY <1>0, <1>4, <2>1, <2>2, SummaryKept
<1>14. MetricsTypes'
  <2>1. \A q \in Threads : Placed(process'[q])
    BY <1>0, <1>8, <1>11 DEF MetricsTypes
  <2>. QED  BY <1>0, <1>4, <1>8, <1>10, <1>13, <2>1 DEF MetricsTypes
<1>15. PassesHold'
  <2>1. \A q \in Threads, g \in MetricNames :
            CameBy(process'[q], g) => metricsFile'[g].exists
    BY <1>0, <1>9, <1>10, <1>12 DEF PassesHold
  <2>2. ASSUME NEW q \in Threads, NEW g \in MetricNames, Creates(process'[q], g),
               process'[q].at = "empty"
        PROVE  metricsFile'[g].exists
    <3>1. CASE g = f
      BY <1>9, <1>10, <3>1
    <3>2. CASE g # f
      <4>1. q # p
        BY <1>8, <1>11, <2>2, <3>2
      <4>2. process'[q] = process[q] /\ Creates(process[q], g) /\ process[q].at = "empty"
        BY <1>8, <2>2, <4>1
      <4>. QED  BY <1>0, <1>10, <3>2, <4>2 DEF PassesHold
    <3>. QED  BY <3>1, <3>2
  <2>. QED  BY <2>1, <2>2 DEF PassesHold
<1>16. RowsHold'
  <2>. SUFFICES ASSUME NEW g \in MetricNames
                PROVE  /\ \A r \in metricsFile'[g].rows : <<g, r>> \in recorded
                       /\ metricsFile'[g].rows # {} => metricsFile'[g].exists
                       /\ g \notin shared =>
                             /\ \A r \in Nat : <<g, r>> \in recorded => r \in metricsFile'[g].rows
                             /\ ~metricsFile'[g].torn
    BY <1>4 DEF RowsHold
  <2>1. CASE g = f
    <3>1. g \notin shared => metricsFile[f].rows = {}
      BY <1>0, <1>11, <2>1 DEF CreationHolds
    <3>2. g \notin shared => \A r \in Nat : <<g, r>> \notin recorded
      BY <1>0, <2>1, <3>1 DEF RowsHold
    <3>. QED  BY <1>9, <1>10, <2>1, <3>2
  <2>2. CASE g # f
    BY <1>0, <1>10, <2>2 DEF RowsHold
  <2>. QED  BY <2>1, <2>2
<1>17. CreationHolds'
  <2>. SUFFICES ASSUME NEW g \in MetricNames \ shared, NEW q \in Threads, Creates(process'[q], g)
                PROVE  /\ \A s \in Threads : (Creates(process'[s], g) => q = s)
                                             /\ ~CameBy(process'[s], g)
                       /\ metricsFile'[g].rows = {}
                       /\ process'[q].at = "missing" => ~metricsFile'[g].exists
    BY <1>4 DEF CreationHolds
  <2>1. /\ \A s \in Threads : (Creates(process[s], g) => q = s) /\ ~CameBy(process[s], g)
        /\ metricsFile[g].rows = {}
        /\ process[q].at = "missing" => ~metricsFile[g].exists
    BY <1>0, <1>12 DEF CreationHolds
  <2>2. metricsFile'[g].rows = {}
    BY <1>9, <1>10, <2>1
  <2>3. process'[q].at = "missing" => ~metricsFile'[g].exists
    <3>1. CASE q = p
      BY <1>6, <1>8, <3>1
    <3>2. CASE q # p
      <4>1. g # f
        BY <1>11, <2>1, <3>2
      <4>. QED  BY <1>8, <1>10, <2>1, <3>2, <4>1
    <3>. QED  BY <3>1, <3>2
  <2>. QED  BY <1>12, <2>1, <2>2, <2>3
<1>18. HeadersHold'
  <2>. SUFFICES ASSUME NEW g \in MetricNames, metricsFile'[g].exists, ~metricsFile'[g].header,
                       g \notin shared, ~(kills > 0)
                PROVE  \E q \in Threads : Creates(process'[q], g)
    BY <1>4 DEF HeadersHold
  <2>1. CASE g = f
    BY <1>11, <1>12, <2>1
  <2>2. CASE g # f
    BY <1>0, <1>10, <1>12, <2>2 DEF HeadersHold
  <2>. QED  BY <2>1, <2>2
<1>. QED  BY <1>13, <1>14, <1>15, <1>16, <1>17, <1>18 DEF MetricsInv

LEMMA WriteHeaderKeeps ==
    ASSUME MetricsInv, NEW p \in Threads, Metrics!WriteHeader(p)
    PROVE  MetricsInv'
<1>0. MetricsTypes /\ PassesHold /\ RowsHold /\ CreationHolds /\ HeadersHold /\ SummaryHolds
  BY DEF MetricsInv
<1>1. /\ process[p] \in ProcessRecords /\ process[p].at = "empty"
      /\ process[p].next \in DOMAIN MetricFiles
      /\ process \in [Threads -> ProcessRecords]
      /\ metricsFile \in [MetricNames -> FileRecords]
  BY <1>0 DEF MetricsTypes, Placed, Metrics!WriteHeader
<1>2. PICK n \in DOMAIN MetricFiles : n = process[p].next
  BY <1>1
<1>3. PICK f \in MetricNames : f = MetricFiles[n]
  BY <1>2, MetricFilesSay
<1>4. /\ recorded' = recorded /\ summary' = [summary EXCEPT !.disturbed = TRUE]
      /\ taken' = taken /\ kills' = kills /\ shared' = shared
  BY DEF Metrics!WriteHeader
<1>5. PICK o : o = Metrics!Ready(n)
  OBVIOUS
<1>6. /\ o \in ProcessRecords /\ Placed(o)
      /\ \A g \in MetricNames :
            /\ ~Creates(o, g)
            /\ CameBy(o, g) => \E k \in DOMAIN MetricFiles : k <= n /\ MetricFiles[k] = g
  BY <1>5, ReadySays
<1>7. process' = [process EXCEPT ![p] = o]
  BY <1>2, <1>5 DEF Metrics!WriteHeader
<1>8. /\ process'[p] = o /\ \A q \in Threads \ {p} : process'[q] = process[q]
      /\ process' \in [Threads -> ProcessRecords]
  BY <1>1, <1>6, <1>7
<1>9. metricsFile' = [metricsFile EXCEPT ![f].header = TRUE,
                                         ![f].torn = @ \/ metricsFile[f].rows # {}]
  BY <1>2, <1>3 DEF Metrics!WriteHeader, Metrics!AtFile
<1>10. /\ \A g \in MetricNames \ {f} : metricsFile'[g] = metricsFile[g]
       /\ metricsFile' \in [MetricNames -> FileRecords]
       /\ metricsFile'[f].header /\ metricsFile'[f].rows = metricsFile[f].rows
       /\ metricsFile'[f].exists <=> metricsFile[f].exists
       /\ metricsFile[f].rows = {} => (metricsFile'[f].torn <=> metricsFile[f].torn)
  <2>1. PICK old \in FileRecords : old = metricsFile[f]
    BY <1>1
  <2>2. PICK new : new = [old EXCEPT !.header = TRUE, !.torn = @ \/ old.rows # {}]
    OBVIOUS
  <2>3. metricsFile' = [metricsFile EXCEPT ![f] = new]
    BY <1>1, <1>9, <2>1, <2>2
  <2>4. old.torn \in BOOLEAN /\ (old.torn \/ old.rows # {}) \in BOOLEAN
    BY <2>1 DEF FileRecords
  <2>5. /\ new.header = TRUE /\ new.rows = old.rows /\ new.exists = old.exists
        /\ new.torn = (old.torn \/ old.rows # {})
        /\ new \in FileRecords
    BY <2>1, <2>2, <2>4 DEF FileRecords
  <2>6. /\ metricsFile'[f] = new /\ \A g \in MetricNames \ {f} : metricsFile'[g] = metricsFile[g]
        /\ metricsFile' \in [MetricNames -> FileRecords]
    BY <1>1, <2>3, <2>5
  <2>. QED  BY <2>1, <2>5, <2>6
<1>11. \A k \in DOMAIN MetricFiles : k <= n => k < n \/ k = n
  BY MetricFilesSay
<1>12. \A g \in MetricNames : /\ Creates(process[p], g) <=> g = f
                              /\ CameBy(o, g) => CameBy(process[p], g) \/ g = f
  BY <1>1, <1>2, <1>3, <1>6, <1>11 DEF Creates, CameBy
<1>13. SummaryHolds' /\ summary' \in SummaryRecords
  <2>1. summary'.disturbed = TRUE
    BY <1>0, <1>4 DEF MetricsTypes, SummaryRecords
  <2>2. IsFiniteSet(recorded')
    BY <1>0, <1>4 DEF MetricsTypes
  <2>. QED  BY <1>0, <1>4, <2>1, <2>2, SummaryKept
<1>14. MetricsTypes'
  <2>1. \A q \in Threads : Placed(process'[q])
    BY <1>0, <1>6, <1>8 DEF MetricsTypes
  <2>. QED  BY <1>0, <1>4, <1>8, <1>10, <1>13, <2>1 DEF MetricsTypes
<1>15. PassesHold'
  <2>. SUFFICES ASSUME NEW q \in Threads, NEW g \in MetricNames,
                       CameBy(process'[q], g) \/ (Creates(process'[q], g) /\ process'[q].at = "empty")
                PROVE  metricsFile'[g].exists
    BY DEF PassesHold
  <2>1. metricsFile[f].exists
    BY <1>0, <1>1, <1>12 DEF PassesHold
  <2>2. CASE q = p
    BY <1>0, <1>6, <1>8, <1>10, <1>12, <2>1, <2>2 DEF PassesHold
  <2>3. CASE q # p
    BY <1>0, <1>8, <1>10, <2>1, <2>3 DEF PassesHold
  <2>. QED  BY <2>2, <2>3
<1>16. RowsHold'
  <2>. SUFFICES ASSUME NEW g \in MetricNames
                PROVE  /\ \A r \in metricsFile'[g].rows : <<g, r>> \in recorded
                       /\ metricsFile'[g].rows # {} => metricsFile'[g].exists
                       /\ g \notin shared =>
                             /\ \A r \in Nat : <<g, r>> \in recorded => r \in metricsFile'[g].rows
                             /\ ~metricsFile'[g].torn
    BY <1>4 DEF RowsHold
  <2>1. CASE g = f
    <3>1. g \notin shared => metricsFile[f].rows = {}
      BY <1>0, <1>12, <2>1 DEF CreationHolds
    <3>. QED  BY <1>0, <1>10, <2>1, <3>1 DEF RowsHold
  <2>2. CASE g # f
    BY <1>0, <1>10, <2>2 DEF RowsHold
  <2>. QED  BY <2>1, <2>2
<1>17. CreationHolds'
  <2>. SUFFICES ASSUME NEW g \in MetricNames \ shared, NEW q \in Threads, Creates(process'[q], g)
                PROVE  /\ \A s \in Threads : (Creates(process'[s], g) => q = s)
                                             /\ ~CameBy(process'[s], g)
                       /\ metricsFile'[g].rows = {}
                       /\ process'[q].at = "missing" => ~metricsFile'[g].exists
    BY <1>4 DEF CreationHolds
  <2>1. q # p /\ Creates(process[q], g) /\ process'[q] = process[q]
    BY <1>6, <1>8
  <2>2. /\ \A s \in Threads : (Creates(process[s], g) => q = s) /\ ~CameBy(process[s], g)
        /\ metricsFile[g].rows = {}
        /\ process[q].at = "missing" => ~metricsFile[g].exists
    BY <1>0, <2>1 DEF CreationHolds
  <2>3. g # f
    BY <1>12, <2>1, <2>2
  <2>4. ~CameBy(o, g) /\ ~Creates(o, g)
    BY <1>6, <1>12, <2>2, <2>3
  <2>. QED  BY <1>8, <1>10, <2>1, <2>2, <2>3, <2>4
<1>18. HeadersHold'
  <2>. SUFFICES ASSUME NEW g \in MetricNames, metricsFile'[g].exists, ~metricsFile'[g].header,
                       g \notin shared, ~(kills > 0)
                PROVE  \E q \in Threads : Creates(process'[q], g)
    BY <1>4 DEF HeadersHold
  <2>1. g # f
    BY <1>10
  <2>2. PICK q \in Threads : Creates(process[q], g)
    BY <1>0, <1>10, <2>1 DEF HeadersHold
  <2>3. q # p
    BY <1>12, <2>1, <2>2
  <2>. QED  BY <1>8, <2>2, <2>3
<1>. QED  BY <1>13, <1>14, <1>15, <1>16, <1>17, <1>18 DEF MetricsInv

LEMMA WriteRowKeeps ==
    ASSUME MetricsInv, NEW p \in Threads, Metrics!WriteRow(p)
    PROVE  MetricsInv'
<1>0. MetricsTypes /\ PassesHold /\ RowsHold /\ CreationHolds /\ HeadersHold /\ SummaryHolds
  BY DEF MetricsInv
<1>1. /\ process[p] \in ProcessRecords /\ process[p].at = "write"
      /\ process[p].what \in DOMAIN RowsOf
      /\ process[p].next \in DOMAIN RowsOf[process[p].what]
      /\ process \in [Threads -> ProcessRecords]
      /\ metricsFile \in [MetricNames -> FileRecords]
  BY <1>0 DEF MetricsTypes, Placed, Metrics!WriteRow
<1>2. PICK now \in ProcessRecords : now = process[p]
  BY <1>1
<1>3. /\ now.what \in DOMAIN RowsOf /\ RowsOf[now.what] \in Seq(MetricNames)
      /\ now.next \in DOMAIN RowsOf[now.what] /\ now.row \in Nat
  BY <1>1, <1>2, MetricsAssumption DEF ProcessRecords
<1>4. PICK f \in MetricNames : f = RowsOf[now.what][now.next]
  BY <1>3
<1>5. PICK r \in Nat : r = now.row
  BY <1>3
<1>6. /\ recorded' = recorded \cup {<<f, r>>} /\ summary' = summary
      /\ taken' = taken /\ kills' = kills /\ shared' = shared
      /\ metricsFile' = [metricsFile EXCEPT ![f].rows = @ \cup {r}, ![f].exists = TRUE]
  BY <1>2, <1>4, <1>5 DEF Metrics!WriteRow
<1>7. PICK o \in ProcessRecords :
          Placed(o) /\ o.at \in {"ready", "write"} /\ process' = [process EXCEPT ![p] = o]
  <2>1. CASE now.next = Len(RowsOf[now.what])
    <3>1. PICK new : new = Metrics!New
      OBVIOUS
    <3>2. new \in ProcessRecords
      BY <3>1 DEF Metrics!New, ProcessRecords
    <3>3. PICK o : o = [new EXCEPT !.at = "ready"]
      OBVIOUS
    <3>4. o \in ProcessRecords /\ o.at = "ready"
      BY <3>2, <3>3 DEF ProcessRecords
    <3>5. process' = [process EXCEPT ![p] = o]
      BY <1>2, <2>1, <3>1, <3>3 DEF Metrics!WriteRow
    <3>. QED  BY <3>4, <3>5 DEF Placed
  <2>2. CASE now.next # Len(RowsOf[now.what])
    <3>1. now.next \in Nat /\ now.next + 1 \in DOMAIN RowsOf[now.what]
      BY <1>3, <2>2
    <3>2. PICK o : o = [now EXCEPT !.next = @ + 1]
      OBVIOUS
    <3>3. o \in ProcessRecords /\ o.at = now.at /\ o.what = now.what /\ o.next = now.next + 1
      BY <3>1, <3>2 DEF ProcessRecords
    <3>4. process' = [process EXCEPT ![p] = o]
      BY <1>2, <2>2, <3>2 DEF Metrics!WriteRow
    <3>. QED  BY <1>1, <1>2, <1>3, <3>1, <3>3, <3>4 DEF Placed
  <2>. QED  BY <2>1, <2>2
<1>8. /\ process'[p] = o /\ \A q \in Threads \ {p} : process'[q] = process[q]
      /\ process' \in [Threads -> ProcessRecords]
  BY <1>1, <1>7
<1>9. \A g \in MetricNames : /\ ~Creates(process[p], g) /\ CameBy(process[p], g)
                             /\ ~Creates(o, g) /\ CameBy(o, g)
  BY <1>1, <1>7 DEF Creates, CameBy
<1>10. \A q \in Threads, g \in MetricNames :
           /\ Creates(process'[q], g) <=> Creates(process[q], g)
           /\ CameBy(process'[q], g) <=> CameBy(process[q], g)
  BY <1>8, <1>9
<1>11. \A g \in MetricNames : metricsFile[g].exists
  BY <1>0, <1>9 DEF PassesHold
<1>12. /\ metricsFile' \in [MetricNames -> FileRecords]
       /\ \A g \in MetricNames \ {f} : metricsFile'[g] = metricsFile[g]
       /\ metricsFile'[f].rows = metricsFile[f].rows \cup {r} /\ metricsFile'[f].exists
       /\ metricsFile'[f].torn = metricsFile[f].torn
       /\ metricsFile'[f].header = metricsFile[f].header
  <2>1. PICK old \in FileRecords : old = metricsFile[f]
    BY <1>1
  <2>2. PICK new : new = [old EXCEPT !.rows = @ \cup {r}, !.exists = TRUE]
    OBVIOUS
  <2>3. metricsFile' = [metricsFile EXCEPT ![f] = new]
    BY <1>1, <1>6, <2>1, <2>2
  <2>4. /\ new.rows = old.rows \cup {r} /\ new.exists = TRUE /\ new.torn = old.torn
        /\ new.header = old.header /\ new \in FileRecords
    BY <2>1, <2>2 DEF FileRecords
  <2>. QED  BY <1>1, <2>1, <2>3, <2>4
<1>13. recorded' \subseteq MetricNames \X Nat /\ IsFiniteSet(recorded')
  <2>1. IsFiniteSet(recorded) /\ recorded \subseteq MetricNames \X Nat
    BY <1>0 DEF MetricsTypes
  <2>2. IsFiniteSet(recorded \cup {<<f, r>>})
    BY <2>1, FS_AddElement
  <2>. QED  BY <1>6, <2>1, <2>2
<1>14. SummaryHolds' /\ summary' \in SummaryRecords
  <2>1. \A g \in MetricNames : /\ metricsFile'[g].exists <=> metricsFile[g].exists
                               /\ metricsFile'[g].header <=> metricsFile[g].header
    BY <1>11, <1>12
  <2>. QED  BY <1>0, <1>6, <1>13, <2>1, SummaryKept
<1>15. MetricsTypes'
  <2>1. \A q \in Threads : Placed(process'[q])
    BY <1>0, <1>7, <1>8 DEF MetricsTypes
  <2>. QED  BY <1>0, <1>6, <1>8, <1>12, <1>13, <1>14, <2>1 DEF MetricsTypes
<1>16. PassesHold'
  BY <1>11, <1>12 DEF PassesHold
<1>17. RowsHold'
  <2>. SUFFICES ASSUME NEW g \in MetricNames
                PROVE  /\ \A s \in metricsFile'[g].rows : <<g, s>> \in recorded'
                       /\ metricsFile'[g].rows # {} => metricsFile'[g].exists
                       /\ g \notin shared =>
                             /\ \A s \in Nat : <<g, s>> \in recorded' => s \in metricsFile'[g].rows
                             /\ ~metricsFile'[g].torn
    BY <1>6 DEF RowsHold
  <2>1. /\ \A s \in metricsFile[g].rows : <<g, s>> \in recorded
        /\ g \notin shared =>
              /\ \A s \in Nat : <<g, s>> \in recorded => s \in metricsFile[g].rows
              /\ ~metricsFile[g].torn
    BY <1>0 DEF RowsHold
  <2>2. CASE g = f
    BY <1>6, <1>12, <2>1, <2>2
  <2>3. CASE g # f
    BY <1>6, <1>11, <1>12, <2>1, <2>3
  <2>. QED  BY <2>2, <2>3
<1>18. CreationHolds'
  <2>1. \A g \in MetricNames \ shared', q \in Threads : ~Creates(process'[q], g)
    BY <1>0, <1>6, <1>9, <1>10 DEF CreationHolds
  <2>. QED  BY <2>1 DEF CreationHolds
<1>19. HeadersHold'
  <2>1. \A g \in MetricNames : metricsFile'[g].header <=> metricsFile[g].header
    BY <1>12
  <2>. QED  BY <1>0, <1>6, <1>10, <1>11, <2>1 DEF HeadersHold
<1>. QED  BY <1>14, <1>15, <1>16, <1>17, <1>18, <1>19 DEF MetricsInv

LEMMA SummarizeKeeps ==
    ASSUME MetricsInv, Metrics!Summarize
    PROVE  MetricsInv'
<1>0. MetricsTypes /\ PassesHold /\ RowsHold /\ CreationHolds /\ HeadersHold /\ SummaryHolds
  BY DEF MetricsInv
<1>1. /\ metricsFile' = metricsFile /\ process' = process /\ taken' = taken
      /\ recorded' = recorded /\ shared' = shared /\ kills' = kills
  BY DEF Metrics!Summarize
<1>2. metricsFile \in [MetricNames -> FileRecords] /\ IsFiniteSet(recorded)
      /\ recorded \subseteq MetricNames \X Nat
  BY <1>0 DEF MetricsTypes
<1>3. PICK headless : headless = (\E f \in DOMAIN metricsFile : metricsFile[f].exists /\ ~metricsFile[f].header)
  OBVIOUS
<1>4. PICK n \in Nat : n = Cardinality(recorded)
  BY <1>2, FS_CardinalityType
<1>5. PICK none : none = Metrics!NoSummary
  OBVIOUS
<1>6. summary' = [none EXCEPT !.next = 1, !.before = n, !.disturbed = headless]
  BY <1>3, <1>4, <1>5, MetricsCardinality DEF Metrics!Summarize
<1>7. none = [next |-> 0, count |-> 0, before |-> 0, disturbed |-> FALSE]
  BY <1>5 DEF Metrics!NoSummary
<1>8. summary' = [next |-> 1, count |-> 0, before |-> n, disturbed |-> headless]
  BY <1>6, <1>7
<1>9. headless \in BOOLEAN
  BY <1>3
<1>10. /\ summary' \in SummaryRecords /\ summary'.next = 1 /\ summary'.count = 0
       /\ summary'.before = n
  BY <1>4, <1>8, <1>9 DEF SummaryRecords
<1>11. ~summary'.disturbed => \A f \in MetricNames : metricsFile[f].exists => metricsFile[f].header
  BY <1>2, <1>3, <1>8
<1>12. MetricsTypes' /\ PassesHold' /\ RowsHold' /\ CreationHolds' /\ HeadersHold'
  <2>1. MetricsTypes'
    BY <1>0, <1>1, <1>10 DEF MetricsTypes
  <2>2. PassesHold' /\ RowsHold'
    BY <1>0, <1>1 DEF PassesHold, RowsHold
  <2>3. CreationHolds' /\ HeadersHold'
    BY <1>0, <1>1 DEF CreationHolds, HeadersHold
  <2>. QED  BY <2>1, <2>2, <2>3
<1>13. SummaryHolds'
  <2>1. recorded = RowsOfFiles(1, Len(MetricFiles) + 1)
    BY <1>2, MetricFilesSay DEF RowsOfFiles
  <2>2. RowsOfFiles(1, 1) = {} /\ Cardinality({}) = 0
    BY MetricFilesSay, FS_EmptySet DEF RowsOfFiles
  <2>3. RowsOfFiles(1, 1)' = RowsOfFiles(1, 1)
        /\ RowsOfFiles(1, Len(MetricFiles) + 1)' = RowsOfFiles(1, Len(MetricFiles) + 1)
        /\ RowsOfFiles(1, summary.next)' = RowsOfFiles(1, 1)'
        /\ RowsOfFiles(summary.next, Len(MetricFiles) + 1)' = RowsOfFiles(1, Len(MetricFiles) + 1)'
    BY <1>1, <1>10 DEF RowsOfFiles
  <2>4. 1 \in 0..Len(MetricFiles) + 1
    BY MetricFilesSay
  <2>5. summary'.next \in 0..Len(MetricFiles) + 1
    BY <1>10, <2>4
  <2>6. /\ summary'.count \in Nat /\ summary'.before \in Nat
        /\ summary'.count <= Cardinality(RowsOfFiles(1, summary.next)')
        /\ summary'.before <= summary'.count +
                Cardinality(RowsOfFiles(summary.next, Len(MetricFiles) + 1)')
    <3>1. Cardinality(RowsOfFiles(1, summary.next)') = 0
          /\ Cardinality(RowsOfFiles(summary.next, Len(MetricFiles) + 1)') = n
      BY <1>4, <2>1, <2>2, <2>3
    <3>2. \A c, b, x, y : c = 0 /\ b = n /\ x = 0 /\ y = n
              => c \in Nat /\ b \in Nat /\ c <= x /\ b <= c + y
      BY <1>4
    <3>. QED  BY <1>10, <3>1, <3>2
  <2>. QED  BY <1>1, <1>11, <2>5, <2>6 DEF SummaryHolds
<1>. QED  BY <1>12, <1>13 DEF MetricsInv

\* The rows of one file, as they were recorded.
RowsOfOne(f) == {fr \in recorded : fr[1] = f}

\* A file has finitely many rows; as long as no file was created late, as many as were
\* recorded of it.
LEMMA RowsCounted ==
    ASSUME MetricsTypes, RowsHold, NEW f \in MetricNames
    PROVE  /\ Cardinality(metricsFile[f].rows) \in Nat
           /\ shared = {} => Cardinality(metricsFile[f].rows) = Cardinality(RowsOfOne(f))
<1>1. recorded \subseteq MetricNames \X Nat /\ IsFiniteSet(recorded)
      /\ metricsFile[f] \in FileRecords
  BY DEF MetricsTypes
<1>2. PICK rows \in SUBSET Nat : rows = metricsFile[f].rows
  BY <1>1 DEF FileRecords
<1>3. /\ \A r \in rows : <<f, r>> \in recorded
      /\ shared = {} => \A r \in Nat : <<f, r>> \in recorded => r \in rows
  BY <1>2 DEF RowsHold
<1>. DEFINE There == {fr \in RowsOfOne(f) : fr[2] \in rows}
            row == [fr \in There |-> fr[2]]
<1>4. IsFiniteSet(There)
  <2>1. There \subseteq recorded
    BY DEF RowsOfOne
  <2>. QED  BY <1>1, <2>1, FS_Subset
<1>5. \A fr \in RowsOfOne(f) : fr = <<f, fr[2]>> /\ fr[2] \in Nat /\ fr \in recorded
  BY <1>1 DEF RowsOfOne
<1>6. shared = {} => There = RowsOfOne(f)
  BY <1>3, <1>5
<1>7. row \in [There -> rows]
  OBVIOUS
<1>8. \A r \in rows : \E fr \in There : row[fr] = r
  <2>. SUFFICES ASSUME NEW r \in rows PROVE \E fr \in There : row[fr] = r
    OBVIOUS
  <2>1. <<f, r>> \in There
    BY <1>3 DEF RowsOfOne
  <2>. QED  BY <2>1
<1>9. \A x, y \in There : row[x] = row[y] => x = y
  BY <1>5
<1>. HIDE DEF row, There
<1>10. row \in Surjection(There, rows) /\ row \in Injection(There, rows)
  BY <1>7, <1>8, <1>9 DEF Surjection, Injection, IsInjective
<1>11. IsFiniteSet(rows) /\ Cardinality(rows) = Cardinality(There)
  BY <1>4, <1>10, FS_Surjection
<1>. QED  BY <1>2, <1>6, <1>11, FS_CardinalityType

\* The rows of the files up to a given one are those before it and its own.
LEMMA RowsSplit ==
    ASSUME MetricsTypes, NEW n \in DOMAIN MetricFiles, NEW a \in Nat, NEW b \in Nat
    PROVE  /\ a <= n => /\ IsFiniteSet(RowsOfFiles(a, n)) /\ IsFiniteSet(RowsOfOne(MetricFiles[n]))
                        /\ Cardinality(RowsOfFiles(a, n)) \in Nat
                        /\ Cardinality(RowsOfOne(MetricFiles[n])) \in Nat
                        /\ Cardinality(RowsOfFiles(a, n + 1)) =
                              Cardinality(RowsOfFiles(a, n)) + Cardinality(RowsOfOne(MetricFiles[n]))
           /\ n < b => /\ Cardinality(RowsOfFiles(n + 1, b)) \in Nat
                       /\ Cardinality(RowsOfOne(MetricFiles[n])) \in Nat
                       /\ Cardinality(RowsOfFiles(n, b)) =
                             Cardinality(RowsOfOne(MetricFiles[n])) + Cardinality(RowsOfFiles(n + 1, b))
<1>1. recorded \subseteq MetricNames \X Nat /\ IsFiniteSet(recorded)
  BY DEF MetricsTypes
<1>2. /\ \A i \in DOMAIN MetricFiles : i \in Nat
      /\ \A i, j \in DOMAIN MetricFiles : MetricFiles[i] = MetricFiles[j] => i = j
  BY MetricFilesSay
<1>3. /\ \A i, j : IsFiniteSet(RowsOfFiles(i, j)) /\ Cardinality(RowsOfFiles(i, j)) \in Nat
      /\ IsFiniteSet(RowsOfOne(MetricFiles[n])) /\ Cardinality(RowsOfOne(MetricFiles[n])) \in Nat
  <2>1. \A i, j : RowsOfFiles(i, j) \subseteq recorded
    BY DEF RowsOfFiles
  <2>2. RowsOfOne(MetricFiles[n]) \subseteq recorded
    BY DEF RowsOfOne
  <2>. QED  BY <1>1, <2>1, <2>2, FS_Subset, FS_CardinalityType
<1>4. ASSUME a <= n
      PROVE  Cardinality(RowsOfFiles(a, n + 1)) =
                 Cardinality(RowsOfFiles(a, n)) + Cardinality(RowsOfOne(MetricFiles[n]))
  <2>1. RowsOfFiles(a, n + 1) = RowsOfFiles(a, n) \cup RowsOfOne(MetricFiles[n])
    <3>1. \A k \in DOMAIN MetricFiles : (a <= k /\ k < n + 1) <=> ((a <= k /\ k < n) \/ k = n)
      BY <1>2, <1>4
    <3>. QED  BY <3>1 DEF RowsOfFiles, RowsOfOne
  <2>2. RowsOfFiles(a, n) \cap RowsOfOne(MetricFiles[n]) = {}
    <3>1. \A k \in DOMAIN MetricFiles : k < n => MetricFiles[k] # MetricFiles[n]
      BY <1>2
    <3>. QED  BY <3>1 DEF RowsOfFiles, RowsOfOne
  <2>. QED  BY <1>3, <2>1, <2>2, FS_Union, FS_EmptySet
<1>5. ASSUME n < b
      PROVE  Cardinality(RowsOfFiles(n, b)) =
                 Cardinality(RowsOfOne(MetricFiles[n])) + Cardinality(RowsOfFiles(n + 1, b))
  <2>1. RowsOfFiles(n, b) = RowsOfOne(MetricFiles[n]) \cup RowsOfFiles(n + 1, b)
    <3>1. \A k \in DOMAIN MetricFiles : (n <= k /\ k < b) <=> ((n + 1 <= k /\ k < b) \/ k = n)
      BY <1>2, <1>5
    <3>. QED  BY <3>1 DEF RowsOfFiles, RowsOfOne
  <2>2. RowsOfOne(MetricFiles[n]) \cap RowsOfFiles(n + 1, b) = {}
    <3>1. \A k \in DOMAIN MetricFiles : n + 1 <= k => MetricFiles[k] # MetricFiles[n]
      BY <1>2
    <3>. QED  BY <3>1 DEF RowsOfFiles, RowsOfOne
  <2>. QED  BY <1>3, <2>1, <2>2, FS_Union, FS_EmptySet
<1>. QED  BY <1>3, <1>4, <1>5

LEMMA CountFileKeeps ==
    ASSUME MetricsInv, Metrics!CountFile
    PROVE  MetricsInv'
<1>0. MetricsTypes /\ PassesHold /\ RowsHold /\ CreationHolds /\ HeadersHold /\ SummaryHolds
  BY DEF MetricsInv
<1>1. /\ metricsFile' = metricsFile /\ process' = process /\ taken' = taken
      /\ recorded' = recorded /\ shared' = shared /\ kills' = kills
  BY DEF Metrics!CountFile
<1>2. PICK n \in DOMAIN MetricFiles : n = summary.next
  BY DEF Metrics!CountFile
<1>3. PICK f \in MetricNames : f = MetricFiles[n]
  BY <1>2, MetricFilesSay
<1>4. PICK old \in SummaryRecords : old = summary
  BY <1>0 DEF MetricsTypes
<1>. DEFINE added == IF metricsFile[f].exists
                     THEN old.count + (Cardinality(metricsFile[f].rows) +
                              IF metricsFile[f].header THEN 1 ELSE 0) - 1
                     ELSE old.count
<1>5. PICK m : m = added
  OBVIOUS
<1>6. summary' = [old EXCEPT !.next = @ + 1, !.count = m]
  BY <1>2, <1>3, <1>4, <1>5, MetricsCardinality DEF Metrics!CountFile
<1>7. n \in Nat /\ n > 0 /\ n < Len(MetricFiles) + 1 /\ n + 1 \in 0..Len(MetricFiles) + 1
      /\ Len(MetricFiles) + 1 \in Nat
  BY MetricFilesSay
<1>8. /\ summary'.next = n + 1 /\ summary'.count = m /\ summary'.before = old.before
      /\ summary'.disturbed = old.disturbed
      /\ m \in Int => summary' \in SummaryRecords
  <2>1. old.next = n
    BY <1>2, <1>4
  <2>2. summary' = [next |-> n + 1, count |-> m, before |-> old.before,
                    disturbed |-> old.disturbed]
    BY <1>4, <1>6, <2>1 DEF SummaryRecords
  <2>. QED  BY <1>4, <1>7, <2>2 DEF SummaryRecords
<1>9. m \in Int
  <2>1. Cardinality(metricsFile[f].rows) \in Nat
    BY <1>0, RowsCounted
  <2>2. old.count \in Int
    BY DEF SummaryRecords
  <2>. QED  BY <1>5, <2>1, <2>2
<1>10. MetricsTypes' /\ PassesHold' /\ RowsHold' /\ CreationHolds' /\ HeadersHold'
  <2>1. MetricsTypes'
    BY <1>0, <1>1, <1>8, <1>9 DEF MetricsTypes
  <2>2. PassesHold' /\ RowsHold'
    BY <1>0, <1>1 DEF PassesHold, RowsHold
  <2>3. CreationHolds' /\ HeadersHold'
    BY <1>0, <1>1 DEF CreationHolds, HeadersHold
  <2>. QED  BY <2>1, <2>2, <2>3
<1>11. SummaryHolds'
  <2>1. ~summary'.disturbed =>
            \A g \in MetricNames : metricsFile[g].exists => metricsFile[g].header
    BY <1>0, <1>2, <1>4, <1>7, <1>8 DEF SummaryHolds
  <2>2. ASSUME ~summary'.disturbed, shared = {}
        PROVE  /\ m \in Nat /\ old.before \in Nat
               /\ m <= Cardinality(RowsOfFiles(1, n + 1))
               /\ old.before <= m + Cardinality(RowsOfFiles(n + 1, Len(MetricFiles) + 1))
    <3>1. /\ old.count \in Nat /\ old.before \in Nat
          /\ old.count <= Cardinality(RowsOfFiles(1, n))
          /\ old.before <= old.count + Cardinality(RowsOfFiles(n, Len(MetricFiles) + 1))
      BY <1>0, <1>2, <1>4, <1>7, <1>8, <2>2 DEF SummaryHolds
    <3>2. /\ Cardinality(metricsFile[f].rows) \in Nat
          /\ Cardinality(metricsFile[f].rows) = Cardinality(RowsOfOne(f))
      BY <1>0, <2>2, RowsCounted
    <3>3. m = old.count + Cardinality(RowsOfOne(f))
      <4>1. CASE metricsFile[f].exists
        <5>1. metricsFile[f].header
          BY <2>1, <2>2, <4>1
        <5>2. m = old.count + (Cardinality(metricsFile[f].rows) + 1) - 1
          BY <1>5, <4>1, <5>1
        <5>. QED  BY <3>1, <3>2, <5>2
      <4>2. CASE ~metricsFile[f].exists
        <5>1. m = old.count
          BY <1>5, <4>2
        <5>2. metricsFile[f].rows = {}
          BY <1>0, <4>2 DEF RowsHold
        <5>3. Cardinality(metricsFile[f].rows) = 0
          BY <5>2, FS_EmptySet
        <5>. QED  BY <3>1, <3>2, <5>1, <5>3
      <4>. QED  BY <4>1, <4>2
    <3>4. /\ Cardinality(RowsOfFiles(1, n)) \in Nat /\ Cardinality(RowsOfOne(f)) \in Nat
          /\ Cardinality(RowsOfFiles(n + 1, Len(MetricFiles) + 1)) \in Nat
          /\ Cardinality(RowsOfFiles(1, n + 1)) =
                Cardinality(RowsOfFiles(1, n)) + Cardinality(RowsOfOne(f))
          /\ Cardinality(RowsOfFiles(n, Len(MetricFiles) + 1)) =
                Cardinality(RowsOfOne(f)) + Cardinality(RowsOfFiles(n + 1, Len(MetricFiles) + 1))
      BY <1>0, <1>3, <1>7, RowsSplit
    <3>. QED  BY <3>1, <3>3, <3>4
  <2>3. /\ RowsOfFiles(1, summary.next)' = RowsOfFiles(1, n + 1)
        /\ RowsOfFiles(summary.next, Len(MetricFiles) + 1)' =
              RowsOfFiles(n + 1, Len(MetricFiles) + 1)
    BY <1>1, <1>8 DEF RowsOfFiles
  <2>. QED  BY <1>1, <1>7, <1>8, <2>1, <2>2, <2>3 DEF SummaryHolds
<1>. QED  BY <1>10, <1>11 DEF MetricsInv

LEMMA MetricsInvStep ==
    MetricsInv /\ [Metrics!MetricsNext]_metricsVars => MetricsInv'
<1>. SUFFICES ASSUME MetricsInv, [Metrics!MetricsNext]_metricsVars PROVE MetricsInv'
  OBVIOUS
<1>1. CASE Metrics!MetricsNext
  <2>1. \/ \E p \in Threads :
             \/ Metrics!Start(p) \/ Metrics!Look(p) \/ Metrics!OpenNew(p)
             \/ Metrics!WriteHeader(p) \/ Metrics!WriteRow(p) \/ Metrics!Kill(p)
             \/ \E m \in DOMAIN RowsOf : Metrics!Measure(p, m)
        \/ Metrics!Summarize \/ Metrics!CountFile
    BY <1>1 DEF Metrics!MetricsNext
  <2>. QED  BY <2>1, StartKeeps, LookKeeps, OpenNewKeeps, WriteHeaderKeeps, WriteRowKeeps,
               KillKeeps, MeasureKeeps, SummarizeKeeps, CountFileKeeps
<1>2. CASE UNCHANGED metricsVars
  <2>1. /\ metricsFile' = metricsFile /\ process' = process /\ taken' = taken
        /\ recorded' = recorded /\ shared' = shared /\ kills' = kills /\ summary' = summary
    BY <1>2 DEF metricsVars
  <2>2. MetricsTypes' /\ PassesHold' /\ RowsHold'
    BY <2>1 DEF MetricsInv, MetricsTypes, PassesHold, RowsHold
  <2>3. CreationHolds' /\ HeadersHold'
    BY <2>1 DEF MetricsInv, CreationHolds, HeadersHold
  <2>4. SummaryHolds'
    BY <2>1 DEF MetricsInv, SummaryHolds, RowsOfFiles
  <2>. QED  BY <2>2, <2>3, <2>4 DEF MetricsInv
<1>. QED  BY <1>1, <1>2

LEMMA MetricsInvShows ==
    MetricsInv => Metrics!OnlyLateCreationLosesRows /\ Metrics!SummaryCountsRows
<1>. SUFFICES ASSUME MetricsInv
              PROVE  Metrics!OnlyLateCreationLosesRows /\ Metrics!SummaryCountsRows
  OBVIOUS
<1>0. MetricsTypes /\ RowsHold /\ HeadersHold /\ SummaryHolds
  BY DEF MetricsInv
<1>1. /\ recorded \subseteq MetricNames \X Nat /\ IsFiniteSet(recorded)
      /\ DOMAIN metricsFile = MetricNames
  BY <1>0 DEF MetricsTypes
<1>2. ASSUME NEW fr \in recorded, fr[1] \notin shared
      PROVE  fr[2] \in metricsFile[fr[1]].rows /\ ~metricsFile[fr[1]].torn
  <2>1. fr[1] \in MetricNames /\ fr[2] \in Nat /\ <<fr[1], fr[2]>> \in recorded
    BY <1>1
  <2>. QED  BY <1>0, <1>2, <2>1 DEF RowsHold
<1>3. ASSUME NEW f \in DOMAIN metricsFile, metricsFile[f].exists, ~metricsFile[f].header
      PROVE  Metrics!Creating(f) # {} \/ f \in shared \/ kills > 0
  BY <1>0, <1>1, <1>3, CreatingSays DEF HeadersHold
<1>4. ASSUME summary.next = Len(MetricFiles) + 1, ~summary.disturbed, shared = {}
      PROVE  summary.before <= summary.count /\ summary.count <= Metrics!Cardinality(recorded)
  <2>. PICK n : n = Len(MetricFiles) + 1
    OBVIOUS
  <2>1. n \in Nat /\ n > 0 /\ summary.next = n
    BY <1>4, MetricFilesSay
  <2>2. /\ summary.count \in Nat /\ summary.before \in Nat
        /\ summary.count <= Cardinality(RowsOfFiles(1, n))
        /\ summary.before <= summary.count + Cardinality(RowsOfFiles(n, n))
    BY <1>0, <1>4, <2>1 DEF SummaryHolds
  <2>3. RowsOfFiles(n, n) = {} /\ Cardinality({}) = 0
    BY <2>1, MetricFilesSay, FS_EmptySet DEF RowsOfFiles
  <2>4. RowsOfFiles(1, n) = recorded
    <3>1. \A f \in MetricNames :
              \E k \in DOMAIN MetricFiles : 1 <= k /\ k < n /\ MetricFiles[k] = f
      BY MetricFilesSay
    <3>. QED  BY <1>1, <3>1 DEF RowsOfFiles
  <2>. QED  BY SMTT(20), <2>2, <2>3, <2>4, MetricsCardinality
<1>. QED  BY <1>2, <1>3, <1>4 DEF Metrics!OnlyLateCreationLosesRows, Metrics!SummaryCountsRows

----------------------------------------------------------------------------
(* The parts together. *)

LEMMA PartsStart ==
    RecordsInit =>
        /\ Init
        /\ machine = "replay" => Replay!Init
        /\ machine = "log" => Log!Init
        /\ machine = "intake" => Intake!Init
        /\ machine = "capabilities" => Capability!CapabilitiesInit
        /\ machine = "metrics" => Metrics!MetricsInit
        /\ machine = "redis" => Redis!BusInit
        /\ machine = "sovereign" => Sovereign!SovereignInit
BY DEF RecordsInit

LEMMA PartsStep ==
    [RecordsNext]_allVars =>
        /\ UNCHANGED machine
        /\ [Next]_vars
        /\ machine = "replay" => [Replay!Next]_replayVars
        /\ machine = "log" => [Log!Next]_logVars
        /\ machine = "intake" => [Intake!Next]_intakeVars
        /\ machine = "capabilities" => [Capability!CapabilitiesNext]_capabilityVars
        /\ machine = "metrics" => [Metrics!MetricsNext]_metricsVars
        /\ machine = "redis" => [Redis!BusNext]_redisVars
        /\ machine = "sovereign" => [Sovereign!SovereignNext]_sovVars
BY DEF RecordsNext, allVars, otherVars

\* The theorems about the lineage journal are about the journal beside the others
\* too (lineage_journal).
LEMMA JournalRuns == RecordsSpec => Spec
<1>1. RecordsInit => Init
  BY PartsStart
<1>2. [RecordsNext]_allVars => [Next]_vars
  BY PartsStep
<1>. QED  BY <1>1, <1>2, PTL DEF RecordsSpec, Spec

\* The service can replay every lineage it wrote, whenever it is asked, unless the
\* clock was put back, a copy was advanced twice or the key was replaced
\* (replay_execution_lineage, SemanticReplayGuard).
THEOREM HonestReplays == RecordsSpec => []HonestLineagesReplay
<1>. DEFINE Inv == machine = "replay" => ReplayInv
<1>1. RecordsInit => Inv
  BY PartsStart, ReplayInvInit
<1>2. Inv /\ [RecordsNext]_allVars => Inv'
  BY PartsStep, ReplayInvStep
<1>3. Inv => HonestLineagesReplay
  BY ReplayInvShows DEF HonestLineagesReplay
<1>. QED  BY <1>1, <1>2, <1>3, PTL DEF RecordsSpec

\* A verified chain of an execution that nobody appended to blindly lacks no
\* acknowledged event, whatever lines were lost, torn or written twice
\* (AppendOnlyLog.append, HashLineageVerifier).
THEOREM LossesShow == RecordsSpec => []OnlyBlindAppendsHideLosses
<1>. DEFINE Inv == machine = "log" => LogInv
<1>1. RecordsInit => Inv
  BY PartsStart, LogInvInit
<1>2. Inv /\ [RecordsNext]_allVars => Inv'
  BY PartsStep, LogInvStep
<1>3. Inv => OnlyBlindAppendsHideLosses
  BY LogInvShows DEF OnlyBlindAppendsHideLosses
<1>. QED  BY <1>1, <1>2, <1>3, PTL DEF RecordsSpec

\* Honest damage to the log is not taken for a forgery, unless the first event was
\* lost or an object appended blindly (RecoveryValidator).
THEOREM DamageIsNoForgery == RecordsSpec => []HonestDamageIsNotForgery
<1>. DEFINE Inv == machine = "log" => LogInv
<1>1. RecordsInit => Inv
  BY PartsStart, LogInvInit
<1>2. Inv /\ [RecordsNext]_allVars => Inv'
  BY PartsStep, LogInvStep
<1>3. Inv => HonestDamageIsNotForgery
  BY LogInvShows DEF HonestDamageIsNotForgery
<1>. QED  BY <1>1, <1>2, <1>3, PTL DEF RecordsSpec

\* One record per request, capabilities as they were registered, and rows that stay
\* and are counted, unless two writers found the same thing missing at once
\* (ActionRequestRecorder.record, register_capability, MetricsCollector).
THEOREM FilesKept == RecordsSpec => []OnlyOverlapSpoilsFiles
<1>. DEFINE Inv == /\ machine = "intake" => IntakeInv
                   /\ machine = "capabilities" => CapabilityInv
                   /\ machine = "metrics" => MetricsInv
<1>1. RecordsInit => Inv
  BY PartsStart, IntakeInvInit, CapabilityInvInit, MetricsInvInit
<1>2. Inv /\ [RecordsNext]_allVars => Inv'
  BY PartsStep, IntakeInvStep, CapabilityInvStep, MetricsInvStep
<1>3. Inv => OnlyOverlapSpoilsFiles
  BY IntakeInvShows, CapabilityInvShows, MetricsInvShows DEF OnlyOverlapSpoilsFiles
<1>. QED  BY <1>1, <1>2, <1>3, PTL DEF RecordsSpec

\* The buses keep one listener, lose no kept message and call a callback once per
\* message, except for the causes that RedisBus and SovereignBus name
\* (RedisEventBus, SovereignBus, EventBus.process_messages).
THEOREM BusesHold == RecordsSpec => []OnlyCausesDisturbTheBuses
<1>. DEFINE Inv == /\ machine = "redis" => BusInv
                   /\ machine = "sovereign" => SovereignInv
<1>1. RecordsInit => Inv
  BY PartsStart, BusInvInit, SovereignInvInit
<1>2. Inv /\ [RecordsNext]_allVars => Inv'
  BY PartsStep, BusInvStep, SovereignInvStep
<1>3. Inv => OnlyCausesDisturbTheBuses
  BY BusInvShows, SovereignInvShows DEF OnlyCausesDisturbTheBuses
<1>. QED  BY <1>1, <1>2, <1>3, PTL DEF RecordsSpec
=============================================================================
