----------------------------- MODULE AgentsProofs -----------------------------
(***************************************************************************)
(* Proofs about AgentRuntime and about the parts that MCAgents puts beside *)
(* it, for any requests, traces, sizes and bounds.  The parts have an      *)
(* invariant each.  The proofs about the runtime rest on who is inside a   *)
(* cycle: exactly the thread that has _loop_lock, until the process dies.  *)
(***************************************************************************)
EXTENDS MCAgents, Integers, SequenceTheorems, TLAPS

----------------------------------------------------------------------------
(* AgentMemory: the invariant.  The decisions kept are at most as old as   *)
(* their places from the end say, in the memory and in its file.           *)

OldestFirst(d) == \A i \in 1..Len(d) : d[i] <= blocked - (Len(d) - i)

\* The newest decisions are kept or were taken by a bad end.
Keeps(d) == \A n \in 1..blocked : blocked - n < Capacity => n \in Memory!ToSet(d) \cup lost

MemoryTypeOK ==
    /\ alive \in BOOLEAN /\ blocked \in Nat /\ seen \in Nat
    /\ decisions \in Seq(Int) /\ Len(decisions) <= Capacity
    /\ snapshot.decisions \in Seq(Int) /\ Len(snapshot.decisions) <= Capacity

MemoryInv ==
    /\ MemoryTypeOK
    /\ OldestFirst(decisions) /\ OldestFirst(snapshot.decisions)
    /\ IF alive THEN Keeps(decisions) ELSE Keeps(snapshot.decisions)
    /\ alive => seen <= blocked /\ (Len(decisions) < Capacity => seen <= Len(decisions))

LEMMA InMemory ==
    ASSUME NEW d, NEW n, Memory!ToSet(d) = {d[i] : i \in DOMAIN d}
    PROVE  n \in Memory!ToSet(d) <=> \E i \in DOMAIN d : d[i] = n
OBVIOUS

LEMMA MemorySet == \A d : Memory!ToSet(d) = {d[i] : i \in DOMAIN d}
BY DEF Memory!ToSet

LEMMA MemoryInvInit == Memory!MemoryInit => MemoryInv
<1>. SUFFICES ASSUME Memory!MemoryInit PROVE MemoryInv
  OBVIOUS
<1>1. MemoryTypeOK
  <2>1. <<>> \in Seq(Int) /\ Len(<<>>) = 0
    BY EmptySeq
  <2>2. snapshot.decisions = <<>> /\ decisions = <<>>
    BY DEF Memory!MemoryInit, Memory!Absent
  <2>3. Len(decisions) <= Capacity /\ Len(snapshot.decisions) <= Capacity
    BY <2>1, <2>2, MemoryAssumption
  <2>. QED  BY <2>1, <2>2, <2>3 DEF Memory!MemoryInit, MemoryTypeOK
<1>2. OldestFirst(decisions) /\ OldestFirst(snapshot.decisions)
  BY DEF Memory!MemoryInit, OldestFirst, Memory!Absent
<1>3. Keeps(snapshot.decisions)
  BY DEF Memory!MemoryInit, Keeps
<1>. QED  BY <1>1, <1>2, <1>3 DEF Memory!MemoryInit, MemoryInv

\* What a decision remembered leaves in a memory with room, and in a full one.
LEMMA AppendedLast ==
    ASSUME NEW S, NEW d \in Seq(S), NEW b \in S, NEW e, e = Append(d, b)
    PROVE  /\ e \in Seq(S) /\ Len(e) = Len(d) + 1 /\ Len(d) \in Nat
           /\ e[Len(e)] = b
           /\ \A i \in 1..Len(d) : e[i] = d[i]
BY AppendProperties

LEMMA PushedLast ==
    ASSUME NEW S, NEW d \in Seq(S), d # <<>>, NEW b \in S, NEW e, e = Append(Tail(d), b)
    PROVE  /\ e \in Seq(S) /\ Len(e) = Len(d) /\ Len(d) \in Nat
           /\ e[Len(e)] = b
           /\ \A i \in 1..Len(d)-1 : e[i] = d[i + 1]
<1>. DEFINE t == Tail(d)
<1>1. /\ t \in Seq(S) /\ Len(t) = Len(d) - 1 /\ Len(d) \in Nat
      /\ \A i \in 1..Len(t) : t[i] = d[i + 1]
  BY HeadTailProperties, LenProperties
<1>2. e = Append(t, b)
  OBVIOUS
<1>. HIDE DEF t
<1>3. /\ e \in Seq(S) /\ Len(e) = Len(t) + 1 /\ e[Len(e)] = b
      /\ \A i \in 1..Len(t) : e[i] = t[i]
  BY <1>1, <1>2, AppendedLast
<1>. QED  BY <1>1, <1>3

LEMMA BlockStep == ASSUME MemoryInv, Memory!Block PROVE MemoryInv'
<1>. DEFINE b == blocked + 1
<1>0. /\ alive /\ blocked' = b /\ b \in Nat /\ seen' = seen + 1 /\ alive' = alive
      /\ snapshot' = snapshot /\ lost' = lost /\ Capacity \in Nat /\ Capacity >= 1
      /\ decisions \in Seq(Int) /\ Len(decisions) <= Capacity /\ Len(decisions) \in Nat
      /\ decisions' = Memory!Remember(b)
  BY MemoryAssumption, LenProperties DEF MemoryInv, MemoryTypeOK, Memory!Block
<1>. HIDE DEF b
<1>1. /\ decisions' \in Seq(Int) /\ Len(decisions') <= Capacity /\ Len(decisions') >= 1
      /\ Len(decisions) < Capacity => Len(decisions') = Len(decisions) + 1
      /\ Len(decisions) >= Capacity => Len(decisions') = Capacity
      /\ decisions'[Len(decisions')] = b
      /\ \A i \in 1..Len(decisions')-1 :
            decisions'[i] = decisions[i + Len(decisions) + 1 - Len(decisions')]
  <2>1. CASE Len(decisions) < Capacity
    <3>1. decisions' = Append(decisions, b)
      BY <1>0, <2>1 DEF Memory!Remember
    <3>. QED  BY <1>0, <2>1, <3>1, AppendedLast
  <2>2. CASE ~(Len(decisions) < Capacity)
    <3>1. decisions' = Append(Tail(decisions), b)
      BY <1>0, <2>2 DEF Memory!Remember
    <3>2. decisions # <<>> /\ Len(decisions) = Capacity
      BY <1>0, <2>2
    <3>. QED  BY <1>0, <2>2, <3>1, <3>2, PushedLast
  <2>. QED  BY <2>1, <2>2
<1>2. MemoryTypeOK'
  BY <1>0, <1>1 DEF MemoryInv, MemoryTypeOK
<1>6. PICK n, m \in Nat : n = Len(decisions) /\ m = Len(decisions')
  BY <1>0, <1>1, LenProperties
<1>7. /\ (m = n + 1 /\ n < Capacity) \/ (m = n /\ n = Capacity)
      /\ \A i \in 1..m-1 : decisions'[i] = decisions[i + n + 1 - m]
      /\ decisions'[m] = b /\ m >= 1 /\ blocked \in Nat /\ b = blocked + 1
      /\ \A i \in 1..n : decisions[i] \in Int /\ decisions[i] <= blocked - (n - i)
      /\ DOMAIN decisions = 1..n /\ DOMAIN decisions' = 1..m
  <2>1. \A i \in 1..n : decisions[i] \in Int /\ decisions[i] <= blocked - (n - i)
    BY <1>6, ElementOfSeq DEF MemoryInv, OldestFirst, MemoryTypeOK
  <2>2. DOMAIN decisions = 1..n /\ DOMAIN decisions' = 1..m
    BY <1>0, <1>1, <1>6, LenProperties
  <2>3. \A i \in 1..m-1 : decisions'[i] = decisions[i + n + 1 - m]
    BY <1>1, <1>6
  <2>4. (m = n + 1 /\ n < Capacity) \/ (m = n /\ n = Capacity)
    <3>1. n <= Capacity /\ (n < Capacity => m = n + 1) /\ (n >= Capacity => m = Capacity)
      BY <1>0, <1>1, <1>6
    <3>2. Capacity \in Nat
      BY <1>0
    <3>. QED  BY <3>1, <3>2
  <2>5. blocked \in Nat /\ b = blocked + 1
    BY DEF b, MemoryInv, MemoryTypeOK
  <2>6. decisions'[m] = b /\ m >= 1
    BY <1>1, <1>6
  <2>. QED  BY <2>1, <2>2, <2>3, <2>4, <2>5, <2>6
<1>8. \A i \in 1..m-1 : i + n + 1 - m \in 1..n
  BY <1>7
<1>3. OldestFirst(decisions)'
  <2>1. ASSUME NEW i \in 1..m PROVE  decisions'[i] <= b - (m - i)
    <3>1. CASE i = m
      BY <1>7, <3>1
    <3>2. CASE i # m
      <4>1. i \in 1..m-1 /\ i + n + 1 - m \in 1..n
        BY <1>8, <3>2
      <4>2. PICK k \in 1..n : k = i + n + 1 - m
        BY <4>1
      <4>3. decisions'[i] = decisions[k] /\ decisions[k] \in Int
            /\ decisions[k] <= blocked - (n - k)
        BY <1>7, <4>1, <4>2
      <4>4. blocked - (n - k) = b - (m - i)
        BY <1>7, <4>1, <4>2
      <4>. QED  BY <4>3, <4>4
    <3>. QED  BY <3>1, <3>2
  <2>. QED  BY <1>0, <1>6, <2>1 DEF OldestFirst
<1>4. OldestFirst(snapshot.decisions)'
  <2>1. ASSUME NEW s, NEW l \in Nat, NEW i \in 1..l, NEW x \in Int, x <= blocked - (l - i)
        PROVE  x <= b - (l - i)
    BY <1>7, <2>1
  <2>2. \A i \in 1..Len(snapshot.decisions) : snapshot.decisions[i] \in Int
    BY ElementOfSeq DEF MemoryInv, MemoryTypeOK
  <2>3. Len(snapshot.decisions) \in Nat
    BY LenProperties DEF MemoryInv, MemoryTypeOK
  <2>4. \A i \in 1..Len(snapshot.decisions) :
            snapshot.decisions[i] <= blocked - (Len(snapshot.decisions) - i)
    BY DEF MemoryInv, OldestFirst
  <2>5. \A i \in 1..Len(snapshot.decisions) :
            snapshot.decisions[i] <= b - (Len(snapshot.decisions) - i)
    BY <2>1, <2>2, <2>3, <2>4
  <2>. QED  BY <1>0, <2>5 DEF OldestFirst
<1>5. Keeps(decisions)'
  <2>1. ASSUME NEW x \in 1..b, b - x < Capacity, x \notin lost
        PROVE  x \in Memory!ToSet(decisions')
    <3>1. CASE x = b
      BY <1>7, <3>1, InMemory, MemorySet
    <3>2. CASE x # b
      <4>1. x \in 1..blocked /\ blocked - x < Capacity - 1 /\ Capacity \in Nat
        BY <1>0, <1>7, <3>2, <2>1
      <4>2. x \in Memory!ToSet(decisions)
        BY <1>0, <1>7, <4>1, <2>1 DEF MemoryInv, Keeps
      <4>3. PICK k \in 1..n : decisions[k] = x
        BY <1>7, <4>2, InMemory, MemorySet
      <4>4. x <= blocked - (n - k)
        BY <1>7, <4>3
      <4>5. n < Capacity \/ k > 1
        BY <1>7, <4>1, <4>3, <4>4
      <4>6. /\ k - (n + 1 - m) \in 1..m-1
            /\ (k - (n + 1 - m)) + n + 1 - m = k
        <5>1. m = n + 1 \/ (m = n /\ k > 1)
          BY <1>7, <4>1, <4>5
        <5>. QED  BY <5>1
      <4>7. PICK i \in 1..m-1 : i + n + 1 - m = k
        BY <4>6
      <4>8. decisions'[i] = x /\ i \in DOMAIN decisions'
        <5>1. decisions'[i] = decisions[i + n + 1 - m]
          BY <1>7
        <5>. QED  BY <1>7, <4>3, <4>7, <5>1
      <4>. QED  BY <4>8, InMemory, MemorySet
    <3>. QED  BY <3>1, <3>2
  <2>. QED  BY <1>0, <2>1 DEF Keeps
<1>9. seen' <= blocked' /\ (Len(decisions') < Capacity => seen' <= Len(decisions'))
  BY <1>0, <1>1 DEF MemoryInv, MemoryTypeOK, b
<1>. QED  BY <1>0, <1>2, <1>3, <1>4, <1>5, <1>9 DEF MemoryInv

LEMMA StartStep == ASSUME MemoryInv, Memory!StartAgent PROVE MemoryInv'
<1>1. /\ ~alive /\ alive' = TRUE /\ decisions' = snapshot.decisions /\ seen' = 0
      /\ UNCHANGED <<snapshot, blocked, lost>>
  BY DEF Memory!StartAgent, Memory!Recovered
<1>2. MemoryTypeOK' /\ OldestFirst(decisions)' /\ OldestFirst(snapshot.decisions)'
  BY <1>1 DEF MemoryInv, MemoryTypeOK, OldestFirst
<1>3. Keeps(decisions)'
  BY <1>1 DEF MemoryInv, Keeps
<1>. QED  BY <1>1, <1>2, <1>3 DEF MemoryInv, MemoryTypeOK

\* An end over a file that holds decisions of the memory, in their order.
LEMMA EndStep ==
    ASSUME MemoryInv, NEW file, Memory!EndOver(file),
           file.decisions \in Seq(Int), Len(file.decisions) <= Capacity,
           OldestFirst(file.decisions)
    PROVE  MemoryInv'
<1>1. /\ alive /\ alive' = FALSE /\ snapshot' = file
      /\ lost' = lost \cup (Memory!ToSet(decisions) \ Memory!ToSet(file.decisions))
      /\ UNCHANGED <<decisions, seen, blocked>>
  BY DEF Memory!EndOver, Memory!Unsaved
<1>2. MemoryTypeOK' /\ OldestFirst(decisions)' /\ OldestFirst(snapshot.decisions)'
  BY <1>1 DEF MemoryInv, MemoryTypeOK, OldestFirst
<1>3. Keeps(snapshot.decisions)'
  BY <1>1 DEF MemoryInv, Keeps
<1>. QED  BY <1>1, <1>2, <1>3 DEF MemoryInv

LEMMA MemoryInvStep == MemoryInv /\ [Memory!MemoryNext]_agentMemoryVars => MemoryInv'
<1>. SUFFICES ASSUME MemoryInv, [Memory!MemoryNext]_agentMemoryVars PROVE MemoryInv'
  OBVIOUS
<1>1. CASE Memory!Block
  BY <1>1, BlockStep
<1>2. CASE Memory!StartAgent
  BY <1>2, StartStep
<1>3. CASE Memory!ShutDown
  <2>. DEFINE file == [state |-> "saved", decisions |-> decisions]
  <2>1. Memory!EndOver(file) /\ file.decisions = decisions
    BY <1>3 DEF Memory!ShutDown
  <2>. HIDE DEF file
  <2>. QED  BY <2>1, EndStep DEF MemoryInv, MemoryTypeOK
<1>4. CASE Memory!Crash
  BY <1>4, EndStep DEF Memory!Crash, MemoryInv, MemoryTypeOK
<1>5. CASE Memory!SaveTears
  <2>1. Memory!EndOver(Memory!Torn) /\ Memory!Torn.decisions = <<>>
    BY <1>5 DEF Memory!SaveTears, Memory!Torn
  <2>2. Memory!Torn.decisions \in Seq(Int) /\ Len(Memory!Torn.decisions) = 0
    BY <2>1, EmptySeq
  <2>3. OldestFirst(Memory!Torn.decisions)
    BY <2>2 DEF OldestFirst
  <2>4. Len(Memory!Torn.decisions) <= Capacity
    BY <2>2, MemoryAssumption
  <2>5. \E file : Memory!EndOver(file) /\ file.decisions \in Seq(Int)
                  /\ Len(file.decisions) <= Capacity /\ OldestFirst(file.decisions)
    BY <2>1, <2>2, <2>3, <2>4
  <2>. QED  BY <2>5, EndStep
<1>6. CASE UNCHANGED agentMemoryVars
  BY <1>6 DEF agentMemoryVars, MemoryInv, MemoryTypeOK, OldestFirst, Keeps
<1>. QED  BY <1>1, <1>2, <1>3, <1>4, <1>5, <1>6 DEF Memory!MemoryNext

LEMMA MemoryInvShows == MemoryInv => Memory!OnlyDisorderForgets
<1>. SUFFICES ASSUME MemoryInv, alive PROVE Memory!OnlyDisorderForgets
  BY DEF Memory!OnlyDisorderForgets
<1>1. Memory!Evicted > 0 => blocked > Capacity
  <2>1. Memory!Evicted = seen - Len(decisions) /\ Len(decisions) \in Nat
        /\ seen \in Nat /\ blocked \in Nat /\ Capacity \in Nat
        /\ Len(decisions) <= Capacity
        /\ seen <= blocked /\ (Len(decisions) < Capacity => seen <= Len(decisions))
    BY MemoryAssumption DEF Memory!Evicted, MemoryInv, MemoryTypeOK
  <2>. QED  BY <2>1
<1>. QED  BY <1>1 DEF Memory!OnlyDisorderForgets, MemoryInv, Keeps

----------------------------------------------------------------------------
(* AgentSenses: the invariant.  Until the first status is in the timeline, *)
(* each emission beyond those of failed starts is that of this start.      *)

SensesInv ==
    /\ badStarts \in Nat /\ emitted \in [EventSinks -> Nat]
    /\ timeline \in Seq({"UP"}) /\ Len(timeline) \in {0, 1}
    /\ stage \in {"down", "emitting", "writing", "up"}
    /\ stage \in {"emitting", "writing"} => Len(timeline) = 0
    /\ stage = "up" => Len(timeline) = 1
    /\ \A s \in EventSinks :
          /\ emitted[s] <= 1 + badStarts
          /\ stage = "writing" \/ Len(timeline) = 1 => emitted[s] >= 1
          /\ stage \in {"down", "emitting"} /\ Len(timeline) = 0 => emitted[s] <= badStarts

LEMMA SensesInvInit == Senses!SensesInit => SensesInv
<1>1. <<>> \in Seq({"UP"}) /\ Len(<<>>) = 0
  BY EmptySeq
<1>. QED  BY <1>1 DEF Senses!SensesInit, SensesInv

LEMMA SensesInvStep == SensesInv /\ [Senses!SensesNext]_agentSensesVars => SensesInv'
<1>. SUFFICES ASSUME SensesInv, [Senses!SensesNext]_agentSensesVars PROVE SensesInv'
  OBVIOUS
<1>1. ASSUME NEW k \in Senses!LineKinds, Senses!AddLine(k) PROVE SensesInv'
  BY <1>1 DEF Senses!AddLine, SensesInv
<1>2. CASE Senses!StartMonitor
  <2>1. timeline = <<>> <=> Len(timeline) = 0
    BY EmptySeq DEF SensesInv
  <2>. QED  BY <1>2, <2>1 DEF Senses!StartMonitor, Senses!NoStatusYet, SensesInv
<1>3. ASSUME NEW failing \in SUBSET EventSinks, Senses!EmitStatus(failing) PROVE SensesInv'
  <2>1. \A s \in EventSinks :
            emitted'[s] = IF s \in failing THEN emitted[s] ELSE emitted[s] + 1
    BY <1>3 DEF Senses!EmitStatus
  <2>2. emitted' \in [EventSinks -> Nat]
    BY <1>3 DEF Senses!EmitStatus, SensesInv
  <2>3. CASE failing = {}
    BY <1>3, <2>1, <2>2, <2>3 DEF Senses!EmitStatus, SensesInv
  <2>4. CASE failing # {}
    BY <1>3, <2>1, <2>2, <2>4 DEF Senses!EmitStatus, SensesInv
  <2>. QED  BY <2>3, <2>4
<1>4. CASE Senses!WriteStatus
  <2>1. timeline' = Append(timeline, "UP") /\ "UP" \in {"UP"} /\ Len(timeline) = 0
    BY <1>4 DEF Senses!WriteStatus, SensesInv
  <2>2. timeline' \in Seq({"UP"}) /\ Len(timeline') = Len(timeline) + 1
    BY <2>1, AppendProperties DEF SensesInv
  <2>. QED  BY <1>4, <2>1, <2>2 DEF Senses!WriteStatus, SensesInv
<1>5. CASE Senses!EndInStart
  BY <1>5 DEF Senses!EndInStart, SensesInv
<1>6. CASE Senses!EndProcess
  <2>1. /\ stage = "up" /\ stage' = "down" /\ UNCHANGED <<timeline, emitted, badStarts>>
    BY <1>6 DEF Senses!EndProcess
  <2>2. Len(timeline) = 1
    BY <2>1 DEF SensesInv
  <2>. QED  BY <2>1, <2>2 DEF SensesInv
<1>7. CASE Senses!Perceive
  BY <1>7 DEF Senses!Perceive, SensesInv
<1>8. CASE UNCHANGED agentSensesVars
  BY <1>8 DEF agentSensesVars, SensesInv
<1>. QED  BY <1>1, <1>2, <1>3, <1>4, <1>5, <1>6, <1>7, <1>8 DEF Senses!SensesNext

LEMMA SensesInvShows == SensesInv => Senses!StatusesAreEmitted
<1>. SUFFICES ASSUME SensesInv, NEW s \in EventSinks
              PROVE  emitted[s] >= Len(timeline) /\ emitted[s] <= 1 + badStarts
  BY DEF Senses!StatusesAreEmitted
<1>1. emitted[s] \in Nat /\ (Len(timeline) = 1 => emitted[s] >= 1) /\ Len(timeline) \in {0, 1}
  BY DEF SensesInv
<1>2. emitted[s] <= 1 + badStarts
  BY DEF SensesInv
<1>3. CASE Len(timeline) = 0
  BY <1>1, <1>2, <1>3
<1>4. CASE Len(timeline) = 1
  BY <1>1, <1>2, <1>4
<1>. QED  BY <1>1, <1>3, <1>4

----------------------------------------------------------------------------
(* ObserverServer: the invariant.  A service has at most one probe in a    *)
(* cycle, and its newest event has the status shown, but for a probe at    *)
(* work that has shown a status it has yet to record.                      *)

ProbeType == [service : Services, cycle : Nat, status : Statuses \cup {Observer!Unseen}]
EventType == [by : {"probe", "driver", "service"},
              service : Services \cup {Observer!Lifecycle[i] : i \in 1..4},
              status : Statuses]

OneProbeEach ==
    \A p, q \in probes : p.service = q.service => p = q

ShownByProbe ==
    \A p \in probes : /\ p.service \notin waiting
                      /\ p.status # Observer!Unseen => services[p.service] = p.status

\* Event i is the newest that a probe of s recorded in e.
NewestOf(e, s, i) ==
    /\ i \in 1..Len(e) /\ e[i].by = "probe" /\ e[i].service = s
    /\ \A k \in 1..Len(e) : e[k].by = "probe" /\ e[k].service = s => k <= i

Unprobed(e, s) == \A k \in 1..Len(e) : ~(e[k].by = "probe" /\ e[k].service = s)

NewestShows(e, s, status) == \E i \in 1..Len(e) : NewestOf(e, s, i) /\ e[i].status = status

ObserverInv ==
    /\ services \in [Services -> Statuses \cup {Observer!Unseen}]
    /\ request \in 1..4 /\ probes \subseteq ProbeType /\ cycle \in Nat
    /\ feed \in Seq(EventType) /\ Len(feed) <= MaxEvents
    /\ OneProbeEach /\ ShownByProbe
    /\ \A s \in Services : Observer!Recording(s) \/ Unprobed(feed, s)
                           \/ NewestShows(feed, s, services[s])

LEMMA UnseenIsNoStatus == Observer!Unseen \notin Statuses
BY ObserverAssumption DEF Observer!Unseen

LEMMA ObserverInvInit == Observer!ObserverInit => ObserverInv
<1>. SUFFICES ASSUME Observer!ObserverInit PROVE ObserverInv
  OBVIOUS
<1>1. feed \in Seq(EventType) /\ Len(feed) = 0
  BY EmptySeq DEF Observer!ObserverInit
<1>2. Len(feed) <= MaxEvents
  BY <1>1, ObserverAssumption
<1>3. \A s \in Services : Unprobed(feed, s)
  BY <1>1 DEF Unprobed
<1>. QED
  BY <1>1, <1>2, <1>3 DEF Observer!ObserverInit, ObserverInv, OneProbeEach, ShownByProbe

\* A recorded event is the last of those kept, after the others in their order.
RecordedAs(f, event) ==
    /\ f \in Seq(EventType) /\ Len(f) <= MaxEvents /\ Len(f) >= 1
    /\ Len(f) = Len(feed) + 1 \/ Len(f) = Len(feed)
    /\ f[Len(f)] = event
    /\ \A i \in 1..Len(f)-1 : f[i] = feed[i + Len(feed) + 1 - Len(f)]

LEMMA RecordedEffect ==
    ASSUME feed \in Seq(EventType), Len(feed) <= MaxEvents, NEW event \in EventType
    PROVE  RecordedAs(Observer!Recorded(event), event)
<1>. DEFINE e == Append(feed, event)
<1>. PICK n \in Nat : n = Len(feed)
  BY LenProperties
<1>1. /\ e \in Seq(EventType) /\ Len(e) = n + 1 /\ e[n + 1] = event
      /\ \A i \in 1..n : e[i] = feed[i]
  BY AppendProperties
<1>2. Observer!Recorded(event) = IF Len(e) > MaxEvents THEN Observer!Keep(e) ELSE e
  BY DEF Observer!Recorded
<1>3. MaxEvents \in Nat /\ MaxEvents >= 1
  BY ObserverAssumption
<1>. HIDE DEF e
<1>4. CASE n < MaxEvents
  <2>1. Observer!Recorded(event) = e
    BY <1>1, <1>2, <1>3, <1>4
  <2>2. \A i \in 1..Len(e)-1 : i + n + 1 - Len(e) = i
    BY <1>1
  <2>. QED  BY <1>1, <1>3, <1>4, <2>1, <2>2 DEF RecordedAs
<1>5. CASE n >= MaxEvents
  <2>1. n = MaxEvents /\ Len(e) > MaxEvents
    BY <1>1, <1>3, <1>5
  <2>2. PICK f : f = SubSeq(e, 2, n + 1) /\ f = Observer!Recorded(event)
    BY <1>1, <1>2, <2>1 DEF Observer!Keep
  <2>3. /\ f \in Seq(EventType) /\ Len(f) = n
        /\ \A i \in 1..n : f[i] = e[2 + i - 1]
    BY <1>1, <2>1, <2>2, <1>3, SubSeqProperties
  <2>4. f[n] = event
    BY <1>1, <1>3, <2>1, <2>3
  <2>5. \A i \in 1..n-1 : f[i] = feed[i + n + 1 - n]
    <3>1. \A i \in 1..n-1 : i \in 1..n /\ i + 1 \in 1..n /\ 2 + i - 1 = i + 1 /\ i + n + 1 - n = i + 1
      OBVIOUS
    <3>. QED  BY <1>1, <2>3, <3>1
  <2>. QED  BY <1>3, <2>1, <2>2, <2>3, <2>4, <2>5 DEF RecordedAs
<1>. QED  BY <1>3, <1>4, <1>5

\* The newest event of the probes of s stays so when another event is recorded.
LEMMA OthersRecorded ==
    ASSUME feed \in Seq(EventType), NEW event, NEW f, RecordedAs(f, event), NEW s,
           ~(event.by = "probe" /\ event.service = s), NEW status,
           Unprobed(feed, s) \/ NewestShows(feed, s, status)
    PROVE  Unprobed(f, s) \/ NewestShows(f, s, status)
<1>. PICK n \in Nat, m \in Nat : n = Len(feed) /\ m = Len(f)
  BY LenProperties DEF RecordedAs
<1>1. /\ m >= 1 /\ (m = n + 1 \/ m = n)
      /\ f[m] = event
      /\ \A i \in 1..m-1 : f[i] = feed[i + n + 1 - m] /\ i + n + 1 - m \in 1..n
  BY DEF RecordedAs
<1>2. CASE Unprobed(feed, s)
  <2>1. \A k \in 1..m : ~(f[k].by = "probe" /\ f[k].service = s)
    BY <1>1, <1>2 DEF Unprobed
  <2>. QED  BY <2>1 DEF Unprobed
<1>3. CASE NewestShows(feed, s, status)
  <2>1. PICK i \in 1..n : NewestOf(feed, s, i) /\ feed[i].status = status
    BY <1>3 DEF NewestShows
  <2>2. CASE m = n /\ i = 1
    <3>1. \A k \in 1..m-1 : ~(f[k].by = "probe" /\ f[k].service = s)
      BY <1>1, <2>1, <2>2 DEF NewestOf
    <3>2. \A k \in 1..m : ~(f[k].by = "probe" /\ f[k].service = s)
      BY <1>1, <3>1
    <3>. QED  BY <3>2 DEF Unprobed
  <2>3. CASE ~(m = n /\ i = 1)
    <3>1. PICK j \in 1..m-1 : j + n + 1 - m = i
      <4>1. i - (n + 1 - m) \in 1..m-1 /\ (i - (n + 1 - m)) + n + 1 - m = i
        BY <1>1, <2>3
      <4>. QED  BY <4>1
    <3>2. f[j] = feed[i]
      BY <1>1, <3>1
    <3>3. ASSUME NEW k \in 1..m, f[k].by = "probe" /\ f[k].service = s PROVE k <= j
      <4>1. k \in 1..m-1
        BY <1>1, <3>3
      <4>2. k + n + 1 - m <= i
        BY <1>1, <2>1, <3>3, <4>1 DEF NewestOf
      <4>. QED  BY <3>1, <4>1, <4>2
    <3>4. NewestOf(f, s, j) /\ f[j].status = status
      BY <2>1, <3>1, <3>2, <3>3 DEF NewestOf
    <3>. QED  BY <3>1, <3>4 DEF NewestShows
  <2>. QED  BY <2>2, <2>3
<1>. QED  BY <1>2, <1>3

\* A recorded event of a probe is the newest of its service.
LEMMA OwnRecorded ==
    ASSUME NEW event, NEW f, RecordedAs(f, event), event.by = "probe"
    PROVE  NewestShows(f, event.service, event.status)
<1>. PICK m \in Nat : m = Len(f)
  BY LenProperties DEF RecordedAs
<1>1. m \in 1..m /\ f[m] = event
  BY DEF RecordedAs
<1>2. NewestOf(f, event.service, m)
  BY <1>1 DEF NewestOf
<1>. QED  BY <1>1, <1>2 DEF NewestShows

\* What does not record an event and shows no status.
LEMMA ProbesStep ==
    ASSUME ObserverInv, probes' \subseteq probes, waiting' \subseteq waiting,
           UNCHANGED services
    PROVE  OneProbeEach' /\ ShownByProbe'
BY DEF ObserverInv, OneProbeEach, ShownByProbe

LEMMA BeginCycleStep == ASSUME ObserverInv, Observer!BeginCycle PROVE ObserverInv'
<1>1. /\ probes = {} /\ UNCHANGED <<services, feed, probes, request>> /\ cycle' \in Nat
  BY DEF Observer!BeginCycle, ObserverInv
<1>2. OneProbeEach' /\ ShownByProbe'
  BY <1>1 DEF OneProbeEach, ShownByProbe
<1>3. \A s \in Services : Observer!Recording(s)' = Observer!Recording(s)
  BY <1>1 DEF Observer!Recording
<1>. QED  BY <1>1, <1>2, <1>3 DEF ObserverInv

LEMMA BeginProbeStep ==
    ASSUME ObserverInv, NEW s \in Services, Observer!BeginProbe(s) PROVE ObserverInv'
<1>1. PICK p \in ProbeType : p = [service |-> s, cycle |-> cycle, status |-> Observer!Unseen]
  BY DEF ObserverInv, ProbeType
<1>2. /\ probes' = probes \cup {p} /\ p.service = s /\ p.status = Observer!Unseen
      /\ s \in waiting /\ waiting' = waiting \ {s}
      /\ UNCHANGED <<services, feed, cycle, request>>
  BY <1>1 DEF Observer!BeginProbe
<1>3. \A q \in probes : q.service # s
  BY <1>2 DEF ObserverInv, ShownByProbe
<1>4. OneProbeEach' /\ ShownByProbe'
  BY <1>2, <1>3 DEF ObserverInv, OneProbeEach, ShownByProbe
<1>5. \A t \in Services : Observer!Recording(t)' = Observer!Recording(t)
  BY <1>2 DEF Observer!Recording
<1>. QED  BY <1>1, <1>2, <1>4, <1>5 DEF ObserverInv

LEMMA ShowStep ==
    ASSUME ObserverInv, NEW p \in probes, NEW status \in Statuses, Observer!Show(p, status)
    PROVE  ObserverInv'
<1>1. p \in ProbeType /\ p.service \in Services
  BY DEF ObserverInv, ProbeType
<1>2. PICK q \in ProbeType : q = [p EXCEPT !.status = status]
  BY <1>1 DEF ProbeType
<1>3. /\ q.service = p.service /\ q.status = status
  BY <1>1, <1>2 DEF ProbeType
<1>4. /\ probes' = (probes \ {p}) \cup {q}
      /\ services' = [services EXCEPT ![p.service] = status]
      /\ UNCHANGED <<feed, cycle, waiting, request>>
  BY <1>2 DEF Observer!Show
<1>5. /\ services' \in [Services -> Statuses \cup {Observer!Unseen}]
      /\ services'[p.service] = status
      /\ \A s \in Services : s # p.service => services'[s] = services[s]
  BY <1>1, <1>4 DEF ObserverInv
<1>6. \A r \in probes \ {p} : r.service # p.service /\ r.service \in Services
  BY DEF ObserverInv, OneProbeEach, ProbeType
<1>7. OneProbeEach'
  BY <1>3, <1>4, <1>6 DEF ObserverInv, OneProbeEach
<1>8. ShownByProbe'
  BY <1>3, <1>4, <1>5, <1>6 DEF ObserverInv, ShownByProbe
<1>9. \A s \in Services :
          \/ Observer!Recording(s)' \/ Unprobed(feed', s) \/ NewestShows(feed', s, services'[s])
  <2>1. Observer!Recording(p.service)'
    BY <1>3, <1>4, UnseenIsNoStatus DEF Observer!Recording
  <2>2. ASSUME NEW s \in Services, s # p.service, Observer!Recording(s)
        PROVE  Observer!Recording(s)'
    BY <1>4, <2>2 DEF Observer!Recording
  <2>. QED  BY <1>4, <1>5, <2>1, <2>2 DEF ObserverInv
<1>. QED  BY <1>4, <1>5, <1>7, <1>8, <1>9 DEF ObserverInv

LEMMA RecordStep ==
    ASSUME ObserverInv, NEW p \in probes, Observer!Record(p) PROVE ObserverInv'
<1>1. p.service \in Services /\ p.status \in Statuses /\ services[p.service] = p.status
  BY DEF ObserverInv, ProbeType, ShownByProbe, Observer!Record
<1>2. PICK event \in EventType :
          event = [by |-> "probe", service |-> p.service, status |-> p.status]
  BY <1>1 DEF EventType
<1>3. /\ event.by = "probe" /\ event.service = p.service /\ event.status = p.status
      /\ probes' = probes \ {p} /\ feed' = Observer!Recorded(event)
      /\ UNCHANGED <<services, cycle, waiting, request>>
  BY <1>2 DEF Observer!Record
<1>4. RecordedAs(feed', event)
  BY <1>3, RecordedEffect DEF ObserverInv
<1>5. OneProbeEach' /\ ShownByProbe'
  BY <1>3, ProbesStep
<1>6. ASSUME NEW s \in Services
      PROVE  \/ Observer!Recording(s)' \/ Unprobed(feed', s)
             \/ NewestShows(feed', s, services[s])
  <2>1. CASE s = p.service
    BY <1>1, <1>3, <1>4, <2>1, OwnRecorded
  <2>2. CASE s # p.service
    <3>1. Observer!Recording(s) => Observer!Recording(s)'
      BY <1>3, <2>2 DEF Observer!Recording
    <3>2. Unprobed(feed, s) \/ NewestShows(feed, s, services[s]) =>
            Unprobed(feed', s) \/ NewestShows(feed', s, services[s])
      BY <1>3, <1>4, <2>2, OthersRecorded DEF ObserverInv
    <3>. QED  BY <3>1, <3>2 DEF ObserverInv
  <2>. QED  BY <2>1, <2>2
<1>. QED  BY <1>3, <1>4, <1>5, <1>6 DEF ObserverInv, RecordedAs

\* An event that no probe records.
LEMMA PushStep ==
    ASSUME ObserverInv, NEW event \in EventType, event.by # "probe",
           feed' = Observer!Recorded(event),
           UNCHANGED <<services, cycle, waiting, probes>>, request' \in 1..4
    PROVE  ObserverInv'
<1>1. RecordedAs(feed', event)
  BY RecordedEffect DEF ObserverInv
<1>2. OneProbeEach' /\ ShownByProbe'
  BY ProbesStep
<1>3. ASSUME NEW s \in Services
      PROVE  \/ Observer!Recording(s)' \/ Unprobed(feed', s)
             \/ NewestShows(feed', s, services[s])
  <2>1. Observer!Recording(s) => Observer!Recording(s)'
    BY DEF Observer!Recording
  <2>2. Unprobed(feed, s) \/ NewestShows(feed, s, services[s]) =>
            Unprobed(feed', s) \/ NewestShows(feed', s, services[s])
    BY <1>1, OthersRecorded DEF ObserverInv
  <2>. QED  BY <2>1, <2>2 DEF ObserverInv
<1>. QED  BY <1>1, <1>2, <1>3 DEF ObserverInv, RecordedAs

LEMMA ObserverInvStep == ObserverInv /\ [Observer!ObserverNext]_serverVars => ObserverInv'
<1>. SUFFICES ASSUME ObserverInv, [Observer!ObserverNext]_serverVars PROVE ObserverInv'
  OBVIOUS
<1>1. ASSUME NEW status \in Statuses, Observer!Drive(status) PROVE ObserverInv'
  <2>1. PICK event \in EventType :
            event = [by |-> "driver", service |-> Observer!Lifecycle[request],
                     status |-> status]
    BY DEF ObserverInv, EventType
  <2>2. request' = (request % 4) + 1 /\ request \in 1..4
    BY <1>1 DEF Observer!Drive, ObserverInv
  <2>3. request' \in 1..4
    BY <2>2
  <2>4. event.by # "probe"
    BY <2>1
  <2>5. feed' = Observer!Recorded(event) /\ UNCHANGED <<services, cycle, waiting, probes>>
    BY <1>1, <2>1 DEF Observer!Drive
  <2>. QED  BY <2>3, <2>4, <2>5, PushStep
<1>2. ASSUME NEW s \in Services, NEW status \in Statuses, Observer!Ingest(s, status)
      PROVE  ObserverInv'
  <2>1. PICK event \in EventType : event = [by |-> "service", service |-> s, status |-> status]
    BY DEF EventType
  <2>2. event.by # "probe"
    BY <2>1
  <2>3. /\ feed' = Observer!Recorded(event)
        /\ UNCHANGED <<services, cycle, waiting, probes, request>>
    BY <1>2, <2>1 DEF Observer!Ingest
  <2>. QED  BY <2>2, <2>3, PushStep DEF ObserverInv
<1>3. CASE UNCHANGED serverVars
  <2>1. \A s \in Services : Observer!Recording(s)' = Observer!Recording(s)
    BY <1>3 DEF serverVars, Observer!Recording
  <2>. QED  BY <1>3, <2>1 DEF serverVars, ObserverInv, OneProbeEach, ShownByProbe
<1>. QED
  BY <1>1, <1>2, <1>3, BeginCycleStep, BeginProbeStep, ShowStep, RecordStep
  DEF Observer!ObserverNext

LEMMA ObserverInvShows == ObserverInv => Observer!FeedAgreesWithStatus
<1>. SUFFICES ASSUME ObserverInv, NEW s \in Services, ~Observer!Recording(s),
                     Observer!ProbedAt(s) # {}
              PROVE  LET i == CHOOSE k \in Observer!ProbedAt(s) :
                                  \A l \in Observer!ProbedAt(s) : l <= k
                     IN  feed[i].status = services[s]
  BY DEF Observer!FeedAgreesWithStatus
<1>1. \A k : k \in Observer!ProbedAt(s) <=>
                k \in 1..Len(feed) /\ feed[k].by = "probe" /\ feed[k].service = s
  BY DEF Observer!ProbedAt
<1>2. ~Unprobed(feed, s)
  BY <1>1 DEF Unprobed
<1>3. PICK i \in 1..Len(feed) : NewestOf(feed, s, i) /\ feed[i].status = services[s]
  BY <1>2 DEF ObserverInv, NewestShows
<1>4. i \in Observer!ProbedAt(s) /\ \A l \in Observer!ProbedAt(s) : l <= i
  BY <1>1, <1>3 DEF NewestOf
<1>5. ASSUME NEW k \in Observer!ProbedAt(s), \A l \in Observer!ProbedAt(s) : l <= k
      PROVE  k = i
  <2>1. k \in Nat /\ i \in Nat /\ k <= i /\ i <= k
    BY <1>1, <1>4, <1>5
  <2>. QED  BY <2>1
<1>6. (CHOOSE k \in Observer!ProbedAt(s) : \A l \in Observer!ProbedAt(s) : l <= k) = i
  BY <1>4, <1>5
<1>. QED  BY <1>3, <1>6

----------------------------------------------------------------------------
(* MessageBridge: the invariant.  Until two changes of a file overlap or a *)
(* writer dies in one, a file has one writer at a time, whose list has     *)
(* every entry of the file.                                                *)

AtWork(w) == mailPhase[w] \in {"read", "open"}
Places == {"idle", "read", "open", "done", "gone", "absent"}
Entries == Post!Mail \X BOOLEAN

MailTypeOK ==
    /\ mailPhase \in [Post!Writers -> Places]
    /\ mailText \in [Post!Files -> SUBSET Entries]
    /\ mailCopy \in [Post!Writers -> SUBSET Entries]
    /\ mailPublished \in [Post!Mail -> Nat]
    /\ mailInterrupted \in BOOLEAN /\ mailChecking \in BOOLEAN
    /\ mailTorn \subseteq Post!Files /\ mailSpoiled \subseteq Post!Files
    /\ mailStamped \subseteq Notes /\ mailOld \subseteq mailStamped
    /\ mailFound \subseteq Notes /\ mailBrokenOff \subseteq Notes

\* An entry of a list is of mail that was written, or that its reader writes;
\* nobody marks an entry of the board.
EntriesInv ==
    /\ \A f \in Post!Files, m \in Post!Mail, x \in BOOLEAN : <<m, x>> \in mailText[f] =>
          mailPhase[m] = "done" /\ (f = "board" => x = FALSE)
    /\ \A w \in Post!Writers, m \in Post!Mail, x \in BOOLEAN : <<m, x>> \in mailCopy[w] =>
          /\ w = m \/ mailPhase[m] = "done"
          /\ Post!File(w) = "board" => x = FALSE
    /\ \A m \in Post!Mail : mailPublished[m] > 0 => mailPhase[m] = "done"
    /\ \A m \in mailFound : mailPhase[m] = "done"

OneWriter(f) ==
    /\ \A v, w \in Post!Writers :
          Post!File(v) = f /\ Post!File(w) = f /\ AtWork(v) /\ AtWork(w) => v = w
    /\ \A w \in Post!Writers : Post!File(w) = f /\ mailPhase[w] = "open" => f \in mailTorn
    /\ f \in mailTorn => \E w \in Post!Writers : Post!File(w) = f /\ mailPhase[w] = "open"

Has(list, m) == \E x \in BOOLEAN : <<m, x>> \in list

WholeLists(f) ==
    /\ \A w \in Post!Writers : Post!File(w) = f /\ AtWork(w) =>
          /\ \A m \in Post!Mail : Has(mailText[f], m) => Has(mailCopy[w], m)
          /\ w \in Post!Mail => Has(mailCopy[w], w)
    /\ \A m \in Post!Mail : Post!File(m) = f /\ mailPhase[m] = "done" => Has(mailText[f], m)

\* A letter is marked where it will be read next.
LettersInv ==
    \A m \in Letters :
        /\ mailPublished[m] <= 1
        /\ mailPublished[m] = 1 =>
              /\ \A w \in Post!Writers : Post!File(w) = "inbox" /\ AtWork(w) =>
                    <<m, FALSE>> \notin mailCopy[w]
              /\ ~AtWork(Post!Bridge) => <<m, FALSE>> \notin mailText["inbox"]

\* A note is published in the check that finds it, once unless a check that had
\* published it broke off.
NotesInv ==
    /\ \A m \in Notes : m \in mailStamped <=> mailPhase[m] \notin {"idle", "absent"}
    /\ mailFound # {} => mailChecking
    /\ \A m \in Notes :
          /\ m \notin mailBrokenOff =>
                /\ mailPublished[m] <= 1
                /\ mailPublished[m] = 1 => m \notin mailFound /\ (m \in mailOld \/ mailChecking)
          /\ m \in mailFound => m \notin mailOld
          /\ AtWork(m) /\ (mailChecking \/ m \in mailOld) => m \in mailExcused

\* What the adapter has checked past without publishing it is excused.
CheckedInv ==
    \A m \in Notes : mailPhase[m] = "done" /\ m \notin mailExcused =>
        /\ ~mailChecking /\ m \in mailOld => mailPublished[m] > 0
        /\ mailChecking /\ m \in mailStamped => m \in mailFound \/ mailPublished[m] > 0

MailInv ==
    /\ MailTypeOK /\ EntriesInv /\ NotesInv
    /\ \A f \in Post!Files : f \notin mailSpoiled => OneWriter(f) /\ WholeLists(f)
    /\ ~mailInterrupted /\ "inbox" \notin mailSpoiled => LettersInv
    /\ "board" \notin mailSpoiled => CheckedInv

LEMMA MailNames ==
    /\ Post!Mail = Letters \cup Notes
    /\ Post!Writers = Post!Mail \cup {Post!Bridge, Post!Marker}
    /\ Post!Bridge \notin Post!Mail /\ Post!Marker \notin Post!Mail
    /\ Post!Bridge # Post!Marker
    /\ Letters \cap Notes = {}
    /\ \A w \in Post!Writers : Post!File(w) \in Post!Files
    /\ \A m \in Letters : Post!File(m) = "inbox"
    /\ \A m \in Notes : Post!File(m) = "board"
    /\ Post!File(Post!Bridge) = "inbox" /\ Post!File(Post!Marker) = "board"
    /\ Post!Files = {"inbox", "board"}
BY MailAssumption
DEF Post!Mail, Post!Writers, Post!Bridge, Post!Marker, Post!File, Post!Files

LEMMA MailInvInit == Post!MailInit => MailInv
<1>. SUFFICES ASSUME Post!MailInit PROVE MailInv
  OBVIOUS
<1>1. MailTypeOK
  BY DEF Post!MailInit, MailTypeOK, Places
<1>2. /\ \A w \in Post!Writers : mailPhase[w] \in {"idle", "absent"} /\ mailCopy[w] = {}
      /\ \A f \in Post!Files : mailText[f] = {}
      /\ \A m \in Post!Mail : mailPublished[m] = 0
      /\ mailTorn = {} /\ mailStamped = {} /\ mailOld = {} /\ mailFound = {}
  BY DEF Post!MailInit
<1>3. Post!Mail \subseteq Post!Writers /\ Letters \subseteq Post!Mail /\ Notes \subseteq Post!Mail
  BY MailNames
<1>4. EntriesInv
  BY <1>2, <1>3 DEF EntriesInv
<1>5. NotesInv
  BY <1>2, <1>3 DEF NotesInv, AtWork
<1>6. \A f \in Post!Files : OneWriter(f) /\ WholeLists(f)
  BY <1>2, <1>3 DEF OneWriter, WholeLists, AtWork
<1>7. LettersInv /\ CheckedInv
  <2>1. \A m \in Letters : mailPublished[m] = 0
    BY <1>2, <1>3
  <2>2. LettersInv
    BY <2>1 DEF LettersInv
  <2>3. \A m \in Notes : mailPhase[m] \in {"idle", "absent"}
    BY <1>2, <1>3
  <2>. QED  BY <2>2, <2>3 DEF CheckedInv
<1>. QED  BY <1>1, <1>4, <1>5, <1>6, <1>7 DEF MailInv

----------------------------------------------------------------------------
(* MessageBridge: types and entries. *)

\* Who starts to change a file reads it, or takes it for empty.
LEMMA StartSendingEffect ==
    ASSUME MailTypeOK, NEW m \in Post!Writers, Post!StartSending(m)
    PROVE  /\ m \in Post!Mail /\ mailPhase[m] = "idle"
           /\ mailPhase' = [mailPhase EXCEPT ![m] = "read"]
           /\ \E list \in SUBSET Entries :
                 /\ mailCopy' = [mailCopy EXCEPT ![m] = list]
                 /\ <<m, FALSE>> \in list
                 /\ list \subseteq {<<m, FALSE>>} \cup mailText[Post!File(m)]
                 /\ Post!File(m) \notin mailTorn => mailText[Post!File(m)] \subseteq list
           /\ mailSpoiled \subseteq mailSpoiled'
           /\ mailSpoiled' \subseteq mailSpoiled \cup {Post!File(m)}
           /\ Post!File(m) \notin mailSpoiled' => Post!Busy(Post!File(m)) = {}
           /\ mailStamped' = mailStamped \cup ({m} \cap Notes)
           /\ mailExcused' = IF mailChecking THEN mailExcused \cup ({m} \cap Notes)
                                             ELSE mailExcused
           /\ UNCHANGED <<mailText, mailTorn, mailOld, mailChecking, mailFound,
                          mailBrokenOff, mailPublished, mailInterrupted>>
<1>1. m \in Post!Mail /\ Post!File(m) \in Post!Files
  BY MailNames DEF Post!StartSending
<1>2. PICK list : list = {<<m, FALSE>>} \cup
                             IF Post!File(m) \in mailTorn THEN {} ELSE mailText[Post!File(m)]
  OBVIOUS
<1>3. list \in SUBSET Entries
  <2>1. mailText[Post!File(m)] \in SUBSET Entries /\ <<m, FALSE>> \in Entries
    BY <1>1 DEF MailTypeOK, Entries
  <2>. QED  BY <1>2, <2>1
<1>4. mailCopy' = [mailCopy EXCEPT ![m] = list]
  BY <1>2 DEF Post!StartSending
<1>. QED
  BY <1>1, <1>2, <1>3, <1>4 DEF Post!StartSending, Post!Phase, Post!Spoil

LEMMA StartMarkingEffect ==
    ASSUME MailTypeOK, NEW w \in Post!Writers, Post!StartMarking(w)
    PROVE  /\ w \in {Post!Bridge, Post!Marker} /\ mailPhase[w] = "idle"
           /\ mailPhase' = [mailPhase EXCEPT ![w] = "read"]
           /\ mailCopy' = [mailCopy EXCEPT ![w] = mailText[Post!File(w)]]
           /\ mailText[Post!File(w)] \in SUBSET Entries
           /\ mailSpoiled \subseteq mailSpoiled'
           /\ mailSpoiled' \subseteq mailSpoiled \cup {Post!File(w)}
           /\ Post!File(w) \notin mailSpoiled' => Post!Busy(Post!File(w)) = {}
           /\ UNCHANGED <<mailText, mailTorn, mailStamped, mailOld, mailChecking, mailFound,
                          mailExcused, mailBrokenOff, mailPublished, mailInterrupted>>
<1>1. Post!File(w) \in Post!Files
  BY MailNames
<1>. QED
  BY <1>1 DEF MailTypeOK, Post!StartMarking, Post!Phase, Post!Spoil, Post!adapterVars

LEMMA MailTypeStep == MailTypeOK /\ Post!MailNext => MailTypeOK'
<1>. SUFFICES ASSUME MailTypeOK, Post!MailNext PROVE MailTypeOK'
  OBVIOUS
<1>0. Post!Mail \subseteq Post!Writers /\ Letters \subseteq Post!Mail /\ Notes \subseteq Post!Mail
      /\ Post!Bridge \in Post!Writers
  BY MailNames
<1>1. ASSUME NEW m \in Post!Writers, Post!StartSending(m) PROVE MailTypeOK'
  <2>1. PICK list \in SUBSET Entries : mailCopy' = [mailCopy EXCEPT ![m] = list]
    BY <1>1, StartSendingEffect
  <2>2. mailSpoiled' \subseteq Post!Files
    BY ZenonT(40), <1>1, StartSendingEffect, MailNames DEF MailTypeOK
  <2>3. mailPhase' = [mailPhase EXCEPT ![m] = "read"] /\ mailStamped' \subseteq Notes
        /\ mailOld' \subseteq mailStamped'
    BY <1>1, StartSendingEffect DEF MailTypeOK
  <2>. QED  BY <1>1, <2>1, <2>2, <2>3, StartSendingEffect DEF MailTypeOK, Places
<1>2. ASSUME NEW w \in Post!Writers, Post!StartMarking(w) PROVE MailTypeOK'
  <2>0. Post!File(w) \in Post!Files /\ mailSpoiled' \subseteq mailSpoiled \cup {Post!File(w)}
    BY <1>2, StartMarkingEffect, MailNames
  <2>1. mailSpoiled' \subseteq Post!Files
    BY <2>0 DEF MailTypeOK
  <2>. QED  BY <1>2, <2>1, StartMarkingEffect DEF MailTypeOK, Places
<1>3. ASSUME NEW w \in Post!Writers, Post!Open(w) PROVE MailTypeOK'
  BY <1>3, MailNames DEF Post!Open, Post!Phase, Post!adapterVars, MailTypeOK, Places
<1>4. ASSUME NEW w \in Post!Writers, Post!Write(w) PROVE MailTypeOK'
  <2>1. mailCopy[w] \in SUBSET Entries /\ Post!File(w) \in Post!Files
    BY MailNames DEF MailTypeOK
  <2>2. /\ mailText' = [mailText EXCEPT ![Post!File(w)] = mailCopy[w]]
        /\ mailCopy' = [mailCopy EXCEPT ![w] = {}]
        /\ mailTorn' \subseteq mailTorn \cup {Post!File(w)}
        /\ mailPhase' = [mailPhase EXCEPT ![w] = IF w \in Post!Mail THEN "done" ELSE "idle"]
    BY <1>4 DEF Post!Write, Post!Phase
  <2>. QED  BY <1>4, <2>1, <2>2 DEF Post!Write, Post!adapterVars, MailTypeOK, Places
<1>5. ASSUME NEW w \in Post!Writers, Post!Die(w) PROVE MailTypeOK'
  <2>1. Post!File(w) \in Post!Files
    BY MailNames
  <2>2. mailInterrupted' \in BOOLEAN
    BY <1>5 DEF Post!Die, MailTypeOK
  <2>. QED
    BY <1>5, <2>1, <2>2 DEF Post!Die, Post!Phase, Post!Spoil, Post!adapterVars, MailTypeOK, Places
<1>6. ASSUME NEW m \in Letters, Post!Publish(m) PROVE MailTypeOK'
  <2>1. <<m, TRUE>> \in Entries
    BY <1>0 DEF Entries
  <2>2. PICK list \in SUBSET Entries :
            list = (mailCopy[Post!Bridge] \ {<<m, FALSE>>}) \cup {<<m, TRUE>>}
    BY <1>0, <2>1 DEF MailTypeOK
  <2>3. mailCopy' = [mailCopy EXCEPT ![Post!Bridge] = list]
    BY <1>0, <1>6, <2>2 DEF Post!Publish, MailTypeOK
  <2>4. mailPublished' \in [Post!Mail -> Nat]
    BY <1>0, <1>6 DEF Post!Publish, Post!Happened, MailTypeOK
  <2>. QED  BY <1>0, <1>6, <2>3, <2>4 DEF Post!Publish, Post!adapterVars, MailTypeOK
<1>7. ASSUME NEW m \in Letters, Post!PublishFails(m) PROVE MailTypeOK'
  BY <1>0, <1>7 DEF Post!PublishFails, Post!Phase, Post!adapterVars, MailTypeOK, Places
<1>8. ASSUME NEW m \in Notes, Post!PublishNote(m) PROVE MailTypeOK'
  <2>4. mailPublished' \in [Post!Mail -> Nat]
    BY <1>0, <1>8 DEF Post!PublishNote, Post!Happened, MailTypeOK
  <2>. QED  BY <1>8, <2>4 DEF Post!PublishNote, Post!fileVars, MailTypeOK
<1>9. CASE Post!StartCheck
  BY <1>9 DEF Post!StartCheck, Post!fileVars, MailTypeOK
<1>10. CASE Post!EndCheck
  BY <1>10 DEF Post!EndCheck, Post!fileVars, MailTypeOK
<1>11. CASE Post!RestartAdapter
  BY <1>11 DEF Post!RestartAdapter, Post!fileVars, MailTypeOK
<1>12. ASSUME NEW m \in Notes, Post!PublishNoteFails(m) PROVE MailTypeOK'
  BY <1>12 DEF Post!PublishNoteFails, Post!fileVars, MailTypeOK
<1>. QED
  BY <1>1, <1>2, <1>3, <1>4, <1>5, <1>6, <1>7, <1>8, <1>9, <1>10, <1>11, <1>12 DEF Post!MailNext

LEMMA OpenEffect ==
    ASSUME MailTypeOK, NEW w \in Post!Writers, Post!Open(w)
    PROVE  /\ mailPhase[w] = "read" /\ mailPhase' = [mailPhase EXCEPT ![w] = "open"]
           /\ mailTorn' = mailTorn \cup {Post!File(w)}
           /\ UNCHANGED <<mailText, mailCopy, mailSpoiled, mailStamped, mailOld, mailChecking,
                          mailFound, mailExcused, mailBrokenOff, mailPublished, mailInterrupted>>
BY DEF Post!Open, Post!Phase, Post!adapterVars

LEMMA WriteEffect ==
    ASSUME MailTypeOK, NEW w \in Post!Writers, Post!Write(w)
    PROVE  /\ mailPhase[w] = "open"
           /\ mailPhase' = [mailPhase EXCEPT ![w] = IF w \in Post!Mail THEN "done" ELSE "idle"]
           /\ mailText' = [mailText EXCEPT ![Post!File(w)] = mailCopy[w]]
           /\ mailCopy' = [mailCopy EXCEPT ![w] = {}]
           /\ Post!File(w) \in mailTorn => mailTorn' = mailTorn \ {Post!File(w)}
           /\ mailTorn' \ {Post!File(w)} = mailTorn \ {Post!File(w)}
           /\ UNCHANGED <<mailSpoiled, mailStamped, mailOld, mailChecking,
                          mailFound, mailExcused, mailBrokenOff, mailPublished, mailInterrupted>>
BY DEF Post!Write, Post!Phase, Post!adapterVars

LEMMA DieEffect ==
    ASSUME MailTypeOK, NEW w \in Post!Writers, Post!Die(w)
    PROVE  /\ mailPhase[w] \in {"read", "open"}
           /\ mailPhase' = [mailPhase EXCEPT ![w] = IF w \in Post!Mail THEN "gone" ELSE "idle"]
           /\ mailCopy' = [mailCopy EXCEPT ![w] = {}]
           /\ mailSpoiled \subseteq mailSpoiled'
           /\ mailPhase[w] = "open" => Post!File(w) \in mailSpoiled'
           /\ mailInterrupted' = (mailInterrupted \/ w = Post!Bridge)
           /\ UNCHANGED <<mailText, mailTorn, mailStamped, mailOld, mailChecking,
                          mailFound, mailExcused, mailBrokenOff, mailPublished>>
BY DEF Post!Die, Post!Phase, Post!Spoil, Post!adapterVars

LEMMA PublishEffect ==
    ASSUME MailTypeOK, NEW m \in Letters, Post!Publish(m)
    PROVE  /\ mailPhase[Post!Bridge] = "read" /\ <<m, FALSE>> \in mailCopy[Post!Bridge]
           /\ mailPublished' = [mailPublished EXCEPT ![m] = mailPublished[m] + 1]
           /\ \E list \in SUBSET Entries :
                 /\ list = (mailCopy[Post!Bridge] \ {<<m, FALSE>>}) \cup {<<m, TRUE>>}
                 /\ mailCopy' = [mailCopy EXCEPT ![Post!Bridge] = list]
           /\ UNCHANGED <<mailText, mailTorn, mailPhase, mailSpoiled, mailStamped, mailOld,
                          mailChecking, mailFound, mailExcused, mailBrokenOff, mailInterrupted>>
<1>1. <<m, TRUE>> \in Entries /\ mailCopy[Post!Bridge] \in SUBSET Entries
  BY MailNames DEF Entries, MailTypeOK
<1>2. PICK list \in SUBSET Entries :
          list = (mailCopy[Post!Bridge] \ {<<m, FALSE>>}) \cup {<<m, TRUE>>}
  BY <1>1
<1>3. mailCopy' = [mailCopy EXCEPT ![Post!Bridge] = list]
  BY <1>2, MailNames DEF Post!Publish, MailTypeOK
<1>. QED
  BY <1>2, <1>3, MailNames
  DEF Post!Publish, Post!Unmarked, Post!Happened, Post!adapterVars, MailTypeOK

LEMMA PublishFailsEffect ==
    ASSUME MailTypeOK, NEW m \in Letters, Post!PublishFails(m)
    PROVE  /\ mailPhase[Post!Bridge] = "read"
           /\ mailPhase' = [mailPhase EXCEPT ![Post!Bridge] = "idle"]
           /\ mailCopy' = [mailCopy EXCEPT ![Post!Bridge] = {}]
           /\ mailInterrupted'
           /\ UNCHANGED <<mailText, mailTorn, mailSpoiled, mailStamped, mailOld,
                          mailChecking, mailFound, mailExcused, mailBrokenOff, mailPublished>>
BY DEF Post!PublishFails, Post!Phase, Post!adapterVars

\* What the adapter does to the files and the bridge: nothing.
AdapterOnly ==
    UNCHANGED <<mailText, mailTorn, mailPhase, mailCopy, mailSpoiled, mailStamped,
                mailInterrupted>>

LEMMA PublishNoteEffect ==
    ASSUME MailTypeOK, NEW m \in Notes, Post!PublishNote(m)
    PROVE  /\ m \in mailFound /\ mailFound' = mailFound \ {m} /\ AdapterOnly
           /\ mailPublished' = [mailPublished EXCEPT ![m] = mailPublished[m] + 1]
           /\ UNCHANGED <<mailOld, mailChecking, mailExcused, mailBrokenOff>>
BY DEF Post!PublishNote, Post!Happened, Post!fileVars, AdapterOnly

\* A check that breaks off leaves nothing found, and last_check as it was.
LEMMA PublishNoteFailsEffect ==
    ASSUME MailTypeOK, NEW m \in Notes, Post!PublishNoteFails(m)
    PROVE  /\ m \in mailFound /\ mailFound' = {} /\ ~mailChecking' /\ AdapterOnly
           /\ mailBrokenOff' = mailBrokenOff \cup {n \in Notes \ mailOld : mailPublished[n] > 0}
           /\ UNCHANGED <<mailOld, mailExcused, mailPublished>>
BY DEF Post!PublishNoteFails, Post!fileVars, AdapterOnly

LEMMA StartCheckEffect ==
    ASSUME MailTypeOK, Post!StartCheck
    PROVE  /\ ~mailChecking /\ mailChecking' /\ AdapterOnly
           /\ mailFound' \subseteq Notes /\ mailExcused \subseteq mailExcused'
           /\ \A m \in mailFound' : m \notin mailOld /\ Has(mailText["board"], m)
           /\ \/ mailStamped \subseteq mailExcused'
              \/ /\ \A m \in Notes \ mailOld :
                        Has(mailText["board"], m) => m \in mailFound'
                 /\ \A m \in Notes : AtWork(m) => m \in mailExcused'
           /\ \A m \in Notes : AtWork(m) =>
                  m \in mailExcused' \/ m \notin mailStamped
           /\ UNCHANGED <<mailOld, mailBrokenOff, mailPublished>>
<1>0. /\ ~mailChecking /\ mailChecking' /\ AdapterOnly
      /\ UNCHANGED <<mailOld, mailBrokenOff, mailPublished>>
  BY DEF Post!StartCheck, Post!fileVars, AdapterOnly, MailTypeOK
<1>1. CASE "board" \in mailTorn
  BY <1>0, <1>1 DEF Post!StartCheck
<1>2. CASE "board" \notin mailTorn
  <2>1. /\ mailFound' = {m \in Notes \ mailOld : Has(mailText["board"], m)}
        /\ mailExcused' = mailExcused \cup Post!Sending
    BY <1>2 DEF Post!StartCheck, Has
  <2>2. \A m \in Notes : AtWork(m) => m \in mailExcused'
    BY <2>1 DEF Post!Sending, AtWork
  <2>. QED  BY <1>0, <2>1, <2>2
<1>. QED  BY <1>1, <1>2

LEMMA EndCheckEffect ==
    ASSUME MailTypeOK, Post!EndCheck
    PROVE  /\ mailChecking /\ mailFound = {} /\ ~mailChecking' /\ AdapterOnly
           /\ mailOld' = mailStamped
           /\ UNCHANGED <<mailFound, mailExcused, mailBrokenOff, mailPublished>>
BY DEF Post!EndCheck, Post!fileVars, AdapterOnly

LEMMA RestartAdapterEffect ==
    ASSUME MailTypeOK, Post!RestartAdapter
    PROVE  /\ ~mailChecking' /\ mailFound' = {} /\ mailOld' = mailStamped /\ AdapterOnly
           /\ mailExcused' = mailExcused \cup mailStamped
           /\ UNCHANGED <<mailBrokenOff, mailPublished>>
BY DEF Post!RestartAdapter, Post!fileVars, AdapterOnly

LEMMA EntriesStep == ASSUME MailTypeOK, EntriesInv, Post!MailNext PROVE EntriesInv'
<1>0. /\ Post!Mail \subseteq Post!Writers /\ Letters \subseteq Post!Mail
      /\ Notes \subseteq Post!Mail /\ Post!Bridge \in Post!Writers
      /\ Post!Bridge \notin Post!Mail /\ Post!File(Post!Bridge) = "inbox"
      /\ \A w \in Post!Writers : Post!File(w) \in Post!Files
      /\ "board" \in Post!Files /\ "board" # "inbox"
  BY MailNames
<1>1. ASSUME NEW m \in Post!Writers, Post!StartSending(m) PROVE EntriesInv'
  <2>1. PICK list \in SUBSET Entries :
            /\ mailCopy' = [mailCopy EXCEPT ![m] = list]
            /\ <<m, FALSE>> \in list
            /\ list \subseteq {<<m, FALSE>>} \cup mailText[Post!File(m)]
            /\ Post!File(m) \notin mailTorn => mailText[Post!File(m)] \subseteq list
    BY <1>1, StartSendingEffect
  <2>2. /\ mailPhase[m] = "idle" /\ mailPhase' = [mailPhase EXCEPT ![m] = "read"]
        /\ UNCHANGED <<mailText, mailFound, mailPublished>>
    BY <1>1, StartSendingEffect
  <2>3. \A n \in Post!Writers : mailPhase[n] = "done" => mailPhase'[n] = "done"
    BY <2>2 DEF MailTypeOK
  <2>4. \A w \in Post!Writers : mailCopy'[w] = IF w = m THEN list ELSE mailCopy[w]
    BY <2>1 DEF MailTypeOK
  <2>5. ASSUME NEW w \in Post!Writers, NEW n \in Post!Mail, NEW x \in BOOLEAN,
               <<n, x>> \in mailCopy'[w]
        PROVE  (w = n \/ mailPhase'[n] = "done") /\ (Post!File(w) = "board" => x = FALSE)
    <3>1. CASE w = m
      <4>1. <<n, x>> = <<m, FALSE>> \/ <<n, x>> \in mailText[Post!File(m)]
        BY <2>1, <2>4, <2>5, <3>1
      <4>2. CASE <<n, x>> = <<m, FALSE>>
        BY <3>1, <4>2
      <4>3. CASE <<n, x>> \in mailText[Post!File(m)]
        BY <1>0, <2>3, <3>1, <4>3 DEF EntriesInv
      <4>. QED  BY <4>1, <4>2, <4>3
    <3>2. CASE w # m
      BY <1>0, <2>3, <2>4, <2>5, <3>2 DEF EntriesInv
    <3>. QED  BY <3>1, <3>2
  <2>6. \A f \in Post!Files, n \in Post!Mail, x \in BOOLEAN : <<n, x>> \in mailText'[f] =>
            mailPhase'[n] = "done" /\ (f = "board" => x = FALSE)
    BY <1>0, <2>2, <2>3 DEF EntriesInv
  <2>7. /\ \A n \in Post!Mail : mailPublished'[n] > 0 => mailPhase'[n] = "done"
        /\ \A n \in mailFound' : mailPhase'[n] = "done"
    BY <1>0, <2>2, <2>3 DEF EntriesInv, MailTypeOK
  <2>. QED  BY <2>5, <2>6, <2>7 DEF EntriesInv
<1>2. ASSUME NEW w \in Post!Writers, Post!StartMarking(w) PROVE EntriesInv'
  <2>1. /\ mailPhase[w] = "idle" /\ mailPhase' = [mailPhase EXCEPT ![w] = "read"]
        /\ mailCopy' = [mailCopy EXCEPT ![w] = mailText[Post!File(w)]]
        /\ UNCHANGED <<mailText, mailFound, mailPublished>>
    BY <1>2, StartMarkingEffect
  <2>3. \A n \in Post!Writers : mailPhase[n] = "done" => mailPhase'[n] = "done"
    BY <2>1 DEF MailTypeOK
  <2>4. \A v \in Post!Writers :
            mailCopy'[v] = IF v = w THEN mailText[Post!File(w)] ELSE mailCopy[v]
    BY <2>1 DEF MailTypeOK
  <2>5. ASSUME NEW v \in Post!Writers, NEW n \in Post!Mail, NEW x \in BOOLEAN,
               <<n, x>> \in mailCopy'[v]
        PROVE  (v = n \/ mailPhase'[n] = "done") /\ (Post!File(v) = "board" => x = FALSE)
    BY <1>0, <2>3, <2>4, <2>5 DEF EntriesInv
  <2>. QED  BY <1>0, <2>1, <2>3, <2>5, MailNames DEF EntriesInv, MailTypeOK
<1>3. ASSUME NEW w \in Post!Writers, Post!Open(w) PROVE EntriesInv'
  <2>1. /\ mailPhase[w] = "read" /\ mailPhase' = [mailPhase EXCEPT ![w] = "open"]
        /\ UNCHANGED <<mailText, mailCopy, mailFound, mailPublished>>
    BY <1>3, OpenEffect
  <2>3. \A n \in Post!Writers : mailPhase[n] = "done" => mailPhase'[n] = "done"
    BY <2>1 DEF MailTypeOK
  <2>. QED  BY <1>0, <2>1, <2>3 DEF EntriesInv, MailTypeOK
<1>4. ASSUME NEW w \in Post!Writers, Post!Write(w) PROVE EntriesInv'
  <2>1. /\ mailPhase' = [mailPhase EXCEPT ![w] = IF w \in Post!Mail THEN "done" ELSE "idle"]
        /\ mailPhase[w] = "open"
        /\ mailText' = [mailText EXCEPT ![Post!File(w)] = mailCopy[w]]
        /\ mailCopy' = [mailCopy EXCEPT ![w] = {}]
        /\ UNCHANGED <<mailFound, mailPublished>>
    BY <1>4, WriteEffect
  <2>3. /\ \A n \in Post!Writers : mailPhase[n] = "done" => mailPhase'[n] = "done"
        /\ w \in Post!Mail => mailPhase'[w] = "done"
    BY <2>1 DEF MailTypeOK
  <2>4. /\ \A v \in Post!Writers : mailCopy'[v] = IF v = w THEN {} ELSE mailCopy[v]
        /\ \A f \in Post!Files :
              mailText'[f] = IF f = Post!File(w) THEN mailCopy[w] ELSE mailText[f]
    BY <2>1 DEF MailTypeOK
  <2>5. ASSUME NEW f \in Post!Files, NEW n \in Post!Mail, NEW x \in BOOLEAN,
               <<n, x>> \in mailText'[f]
        PROVE  mailPhase'[n] = "done" /\ (f = "board" => x = FALSE)
    BY <1>0, <2>3, <2>4, <2>5 DEF EntriesInv
  <2>6. ASSUME NEW v \in Post!Writers, NEW n \in Post!Mail, NEW x \in BOOLEAN,
               <<n, x>> \in mailCopy'[v]
        PROVE  (v = n \/ mailPhase'[n] = "done") /\ (Post!File(v) = "board" => x = FALSE)
    BY <1>0, <2>3, <2>4, <2>6 DEF EntriesInv
  <2>. QED  BY <1>0, <2>1, <2>3, <2>5, <2>6 DEF EntriesInv, MailTypeOK
<1>5. ASSUME NEW w \in Post!Writers, Post!Die(w) PROVE EntriesInv'
  <2>1. /\ mailPhase[w] \in {"read", "open"}
        /\ mailPhase' = [mailPhase EXCEPT ![w] = IF w \in Post!Mail THEN "gone" ELSE "idle"]
        /\ mailCopy' = [mailCopy EXCEPT ![w] = {}]
        /\ UNCHANGED <<mailText, mailFound, mailPublished>>
    BY <1>5, DieEffect
  <2>3. \A n \in Post!Writers : mailPhase[n] = "done" => mailPhase'[n] = "done"
    BY <2>1 DEF MailTypeOK
  <2>4. \A v \in Post!Writers : mailCopy'[v] = IF v = w THEN {} ELSE mailCopy[v]
    BY <2>1 DEF MailTypeOK
  <2>. QED  BY <1>0, <2>1, <2>3, <2>4 DEF EntriesInv, MailTypeOK
<1>6. ASSUME NEW m \in Letters, Post!Publish(m) PROVE EntriesInv'
  <2>1. PICK list \in SUBSET Entries :
            /\ list = (mailCopy[Post!Bridge] \ {<<m, FALSE>>}) \cup {<<m, TRUE>>}
            /\ mailCopy' = [mailCopy EXCEPT ![Post!Bridge] = list]
    BY <1>6, PublishEffect
  <2>2. /\ <<m, FALSE>> \in mailCopy[Post!Bridge]
        /\ mailPublished' = [mailPublished EXCEPT ![m] = mailPublished[m] + 1]
        /\ UNCHANGED <<mailText, mailPhase, mailFound>>
    BY <1>6, PublishEffect
  <2>3. mailPhase[m] = "done"
    BY <1>0, <2>2 DEF EntriesInv
  <2>4. \A v \in Post!Writers :
            mailCopy'[v] = IF v = Post!Bridge THEN list ELSE mailCopy[v]
    BY <2>1 DEF MailTypeOK
  <2>5. \A n \in Post!Mail : n # m => mailPublished'[n] = mailPublished[n]
    BY <2>2 DEF MailTypeOK
  <2>6. \A n \in Post!Mail, x \in BOOLEAN :
            <<n, x>> \in list => n = m \/ <<n, x>> \in mailCopy[Post!Bridge]
    BY <2>1
  <2>7. ASSUME NEW v \in Post!Writers, NEW n \in Post!Mail, NEW x \in BOOLEAN,
               <<n, x>> \in mailCopy'[v]
        PROVE  (v = n \/ mailPhase[n] = "done") /\ (Post!File(v) = "board" => x = FALSE)
    BY <1>0, <2>3, <2>4, <2>6, <2>7 DEF EntriesInv
  <2>. QED  BY <1>0, <2>2, <2>3, <2>5, <2>7 DEF EntriesInv
<1>7. ASSUME NEW m \in Letters, Post!PublishFails(m) PROVE EntriesInv'
  <2>1. /\ mailPhase' = [mailPhase EXCEPT ![Post!Bridge] = "idle"]
        /\ mailCopy' = [mailCopy EXCEPT ![Post!Bridge] = {}]
        /\ UNCHANGED <<mailText, mailFound, mailPublished>>
    BY <1>7, PublishFailsEffect
  <2>3. \A n \in Post!Mail : mailPhase'[n] = mailPhase[n]
    BY <1>0, <2>1 DEF MailTypeOK
  <2>4. \A v \in Post!Writers : mailCopy'[v] = IF v = Post!Bridge THEN {} ELSE mailCopy[v]
    BY <2>1 DEF MailTypeOK
  <2>. QED  BY <1>0, <2>1, <2>3, <2>4 DEF EntriesInv, MailTypeOK
<1>8. ASSUME NEW m \in Notes, Post!PublishNote(m) PROVE EntriesInv'
  <2>1. /\ mailPublished' = [mailPublished EXCEPT ![m] = mailPublished[m] + 1]
        /\ m \in mailFound /\ mailFound' = mailFound \ {m}
        /\ UNCHANGED <<mailText, mailCopy, mailPhase>>
    BY <1>8, PublishNoteEffect DEF AdapterOnly
  <2>2. \A n \in Post!Mail : n # m => mailPublished'[n] = mailPublished[n]
    BY <2>1 DEF MailTypeOK
  <2>. QED  BY <1>0, <2>1, <2>2 DEF EntriesInv
<1>9. CASE Post!StartCheck
  <2>1. /\ \A m \in mailFound' : m \in Notes /\ \E x \in BOOLEAN : <<m, x>> \in mailText["board"]
        /\ UNCHANGED <<mailText, mailCopy, mailPhase, mailPublished>>
    BY <1>9, StartCheckEffect DEF AdapterOnly, Has
  <2>. QED  BY <1>0, <2>1 DEF EntriesInv
<1>10. CASE Post!EndCheck
  BY <1>10, EndCheckEffect DEF AdapterOnly, EntriesInv
<1>11. CASE Post!RestartAdapter
  BY <1>11, RestartAdapterEffect DEF AdapterOnly, EntriesInv
<1>12. ASSUME NEW m \in Notes, Post!PublishNoteFails(m) PROVE EntriesInv'
  BY <1>12, PublishNoteFailsEffect DEF AdapterOnly, EntriesInv
<1>. QED
  BY <1>1, <1>2, <1>3, <1>4, <1>5, <1>6, <1>7, <1>8, <1>9, <1>10, <1>11, <1>12 DEF Post!MailNext

----------------------------------------------------------------------------
(* MessageBridge: one writer, whole lists, letters once, notes once. *)

\* A file is as it was for those who work on another one.
LEMMA OtherFile ==
    ASSUME MailTypeOK, NEW f, OneWriter(f), WholeLists(f), NEW w \in Post!Writers,
           Post!File(w) # f,
           \A v \in Post!Writers \ {w} :
               mailPhase'[v] = mailPhase[v] /\ mailCopy'[v] = mailCopy[v],
           mailText'[f] = mailText[f], f \in mailTorn' <=> f \in mailTorn
    PROVE  OneWriter(f)' /\ WholeLists(f)'
<1>1. \A v \in Post!Writers : Post!File(v) = f =>
          /\ v # w /\ mailPhase'[v] = mailPhase[v] /\ mailCopy'[v] = mailCopy[v]
          /\ AtWork(v)' = AtWork(v)
  BY DEF AtWork
<1>2. Post!Mail \subseteq Post!Writers
  BY MailNames
<1>. QED  BY <1>1, <1>2 DEF OneWriter, WholeLists, Has

\* Nobody works on a file whose changes never overlapped: it is whole.
LEMMA Quiet ==
    ASSUME NEW f, OneWriter(f), Post!Busy(f) = {}
    PROVE  f \notin mailTorn /\ \A w \in Post!Writers : Post!File(w) = f => ~AtWork(w)
<1>1. \A w \in Post!Writers : Post!File(w) = f => ~AtWork(w)
  BY DEF Post!Busy, AtWork
<1>. QED  BY <1>1 DEF OneWriter, AtWork

\* A writer that has read the whole list begins alone.
LEMMA BeginAlone ==
    ASSUME MailTypeOK, NEW w \in Post!Writers, NEW f, Post!File(w) = f,
           OneWriter(f), WholeLists(f), Post!Busy(f) = {}, mailPhase[w] = "idle",
           mailPhase' = [mailPhase EXCEPT ![w] = "read"],
           NEW list, mailCopy' = [mailCopy EXCEPT ![w] = list],
           mailText[f] \subseteq list, w \in Post!Mail => <<w, FALSE>> \in list,
           UNCHANGED <<mailText, mailTorn>>
    PROVE  OneWriter(f)' /\ WholeLists(f)'
<1>1. /\ f \notin mailTorn
      /\ \A v \in Post!Writers : Post!File(v) = f => ~AtWork(v)
  BY Quiet
<1>2. \A v \in Post!Writers \ {w} : mailPhase'[v] = mailPhase[v] /\ mailCopy'[v] = mailCopy[v]
  BY DEF MailTypeOK
<1>3. mailPhase'[w] = "read" /\ mailCopy'[w] = list
  BY DEF MailTypeOK
<1>4. \A v \in Post!Writers : Post!File(v) = f /\ AtWork(v)' => v = w
  BY <1>1, <1>2 DEF AtWork
<1>5. \A v \in Post!Writers : Post!File(v) = f => mailPhase'[v] # "open"
  BY <1>1, <1>2, <1>3 DEF AtWork
<1>6. OneWriter(f)'
  BY <1>1, <1>4, <1>5 DEF OneWriter
<1>7. \A m \in Post!Mail : Has(mailText[f], m) => Has(list, m)
  BY DEF Has
<1>8. w \in Post!Mail => Has(list, w)
  BY DEF Has
<1>9. \A m \in Post!Mail : mailPhase'[m] = "done" => mailPhase[m] = "done"
  BY <1>2, <1>3, MailNames
<1>. QED  BY <1>3, <1>4, <1>6, <1>7, <1>8, <1>9 DEF WholeLists

FileInv(f) == f \notin mailSpoiled => OneWriter(f) /\ WholeLists(f)

LEMMA AdapterKeepsFiles ==
    ASSUME NEW f, FileInv(f), AdapterOnly PROVE FileInv(f)'
BY DEF AdapterOnly, FileInv, OneWriter, WholeLists, AtWork, Has

LEMMA FilesStep ==
    ASSUME MailTypeOK, NEW f \in Post!Files, FileInv(f), Post!MailNext PROVE FileInv(f)'
<1>0. /\ Post!Mail \subseteq Post!Writers /\ Letters \subseteq Post!Mail
      /\ Notes \subseteq Post!Mail /\ Post!Bridge \in Post!Writers
      /\ Post!Bridge \notin Post!Mail /\ Post!File(Post!Bridge) = "inbox"
      /\ \A w \in Post!Writers : Post!File(w) \in Post!Files
  BY MailNames
<1>1. ASSUME NEW w \in Post!Writers, Post!StartSending(w), f \notin mailSpoiled'
      PROVE  OneWriter(f)' /\ WholeLists(f)'
  <2>1. PICK list \in SUBSET Entries :
            /\ mailCopy' = [mailCopy EXCEPT ![w] = list]
            /\ <<w, FALSE>> \in list
            /\ list \subseteq {<<w, FALSE>>} \cup mailText[Post!File(w)]
            /\ Post!File(w) \notin mailTorn => mailText[Post!File(w)] \subseteq list
    BY <1>1, StartSendingEffect
  <2>2. /\ mailPhase[w] = "idle" /\ mailPhase' = [mailPhase EXCEPT ![w] = "read"]
        /\ mailSpoiled \subseteq mailSpoiled'
        /\ Post!File(w) \notin mailSpoiled' => Post!Busy(Post!File(w)) = {}
        /\ UNCHANGED <<mailText, mailTorn>>
    BY <1>1, StartSendingEffect
  <2>3. OneWriter(f) /\ WholeLists(f)
    BY <1>1, <2>2 DEF FileInv
  <2>4. CASE Post!File(w) = f
    <3>1. Post!Busy(f) = {}
      BY <1>1, <2>2, <2>4
    <3>2. f \notin mailTorn
      BY <2>3, <3>1, Quiet
    <3>. QED  BY <2>1, <2>2, <2>3, <2>4, <3>1, <3>2, BeginAlone
  <2>5. CASE Post!File(w) # f
    <3>1. \A v \in Post!Writers \ {w} :
              mailPhase'[v] = mailPhase[v] /\ mailCopy'[v] = mailCopy[v]
      BY <2>1, <2>2 DEF MailTypeOK
    <3>. QED  BY <2>2, <2>3, <2>5, <3>1, OtherFile
  <2>. QED  BY <2>4, <2>5
<1>2. ASSUME NEW w \in Post!Writers, Post!StartMarking(w), f \notin mailSpoiled'
      PROVE  OneWriter(f)' /\ WholeLists(f)'
  <2>2. /\ mailPhase[w] = "idle" /\ mailPhase' = [mailPhase EXCEPT ![w] = "read"]
        /\ mailCopy' = [mailCopy EXCEPT ![w] = mailText[Post!File(w)]]
        /\ mailSpoiled \subseteq mailSpoiled' /\ w \in {Post!Bridge, Post!Marker}
        /\ Post!File(w) \notin mailSpoiled' => Post!Busy(Post!File(w)) = {}
        /\ UNCHANGED <<mailText, mailTorn>>
    BY <1>2, StartMarkingEffect
  <2>3. OneWriter(f) /\ WholeLists(f)
    BY <1>2, <2>2 DEF FileInv
  <2>4. CASE Post!File(w) = f
    <3>1. Post!Busy(f) = {} /\ w \notin Post!Mail
      BY <1>2, <2>2, <2>4, MailNames
    <3>2. mailCopy' = [mailCopy EXCEPT ![w] = mailText[f]]
      BY <2>2, <2>4
    <3>. QED  BY <2>2, <2>3, <2>4, <3>1, <3>2, BeginAlone
  <2>5. CASE Post!File(w) # f
    <3>1. \A v \in Post!Writers \ {w} :
              mailPhase'[v] = mailPhase[v] /\ mailCopy'[v] = mailCopy[v]
      BY <2>2 DEF MailTypeOK
    <3>. QED  BY <2>2, <2>3, <2>5, <3>1, OtherFile
  <2>. QED  BY <2>4, <2>5
<1>3. ASSUME NEW w \in Post!Writers, Post!Open(w), f \notin mailSpoiled'
      PROVE  OneWriter(f)' /\ WholeLists(f)'
  <2>2. /\ mailPhase[w] = "read" /\ mailPhase' = [mailPhase EXCEPT ![w] = "open"]
        /\ mailTorn' = mailTorn \cup {Post!File(w)}
        /\ UNCHANGED <<mailText, mailCopy, mailSpoiled>>
    BY <1>3, OpenEffect
  <2>3. OneWriter(f) /\ WholeLists(f)
    BY <1>3, <2>2 DEF FileInv
  <2>4. /\ \A v \in Post!Writers \ {w} : mailPhase'[v] = mailPhase[v]
        /\ mailPhase'[w] = "open"
    BY <2>2 DEF MailTypeOK
  <2>5. \A v \in Post!Writers : AtWork(v)' = AtWork(v)
    BY <2>2, <2>4 DEF AtWork
  <2>6. CASE Post!File(w) = f
    <3>1. f \in mailTorn'
      BY <2>2, <2>6
    <3>2. OneWriter(f)'
      BY <2>3, <2>4, <2>5, <2>6, <3>1 DEF OneWriter
    <3>3. \A m \in Post!Mail : mailPhase'[m] = "done" => mailPhase[m] = "done"
      BY <1>0, <2>4
    <3>. QED  BY <2>2, <2>3, <2>5, <3>2, <3>3 DEF WholeLists
  <2>7. CASE Post!File(w) # f
    BY <2>2, <2>3, <2>4, <2>7, OtherFile
  <2>. QED  BY <2>6, <2>7
<1>4. ASSUME NEW w \in Post!Writers, Post!Write(w), f \notin mailSpoiled'
      PROVE  OneWriter(f)' /\ WholeLists(f)'
  <2>2. /\ mailPhase[w] = "open"
        /\ mailPhase' = [mailPhase EXCEPT ![w] = IF w \in Post!Mail THEN "done" ELSE "idle"]
        /\ mailText' = [mailText EXCEPT ![Post!File(w)] = mailCopy[w]]
        /\ mailCopy' = [mailCopy EXCEPT ![w] = {}]
        /\ Post!File(w) \in mailTorn => mailTorn' = mailTorn \ {Post!File(w)}
        /\ mailTorn' \ {Post!File(w)} = mailTorn \ {Post!File(w)}
        /\ UNCHANGED mailSpoiled
    BY <1>4, WriteEffect
  <2>3. OneWriter(f) /\ WholeLists(f)
    BY <1>4, <2>2 DEF FileInv
  <2>4. /\ \A v \in Post!Writers \ {w} :
              mailPhase'[v] = mailPhase[v] /\ mailCopy'[v] = mailCopy[v]
        /\ mailPhase'[w] \in {"done", "idle"}
        /\ mailText'[f] = IF Post!File(w) = f THEN mailCopy[w] ELSE mailText[f]
    BY <1>0, <2>2 DEF MailTypeOK
  <2>5. CASE Post!File(w) = f
    <3>1. f \notin mailTorn'
      BY <2>2, <2>3, <2>5 DEF OneWriter
    <3>2. \A v \in Post!Writers : Post!File(v) = f => ~AtWork(v)'
      BY <2>2, <2>3, <2>4, <2>5 DEF OneWriter, AtWork
    <3>3. OneWriter(f)'
      BY <3>1, <3>2 DEF OneWriter, AtWork
    <3>4. /\ \A m \in Post!Mail : Has(mailText[f], m) => Has(mailCopy[w], m)
          /\ w \in Post!Mail => Has(mailCopy[w], w)
      BY <2>2, <2>3, <2>5 DEF WholeLists, AtWork
    <3>5. \A m \in Post!Mail : Post!File(m) = f /\ mailPhase'[m] = "done" =>
              m = w \/ Has(mailText[f], m)
      BY <1>0, <2>3, <2>4 DEF WholeLists
    <3>. QED  BY <2>4, <2>5, <3>2, <3>3, <3>4, <3>5 DEF WholeLists
  <2>6. CASE Post!File(w) # f
    <3>1. f \in mailTorn' <=> f \in mailTorn
      BY <2>2, <2>6
    <3>. QED  BY <2>3, <2>4, <2>6, <3>1, OtherFile
  <2>. QED  BY <2>5, <2>6
<1>5. ASSUME NEW w \in Post!Writers, Post!Die(w), f \notin mailSpoiled'
      PROVE  OneWriter(f)' /\ WholeLists(f)'
  <2>2. /\ mailPhase[w] \in {"read", "open"}
        /\ mailPhase' = [mailPhase EXCEPT ![w] = IF w \in Post!Mail THEN "gone" ELSE "idle"]
        /\ mailCopy' = [mailCopy EXCEPT ![w] = {}]
        /\ mailSpoiled \subseteq mailSpoiled'
        /\ mailPhase[w] = "open" => Post!File(w) \in mailSpoiled'
        /\ UNCHANGED <<mailText, mailTorn>>
    BY <1>5, DieEffect
  <2>3. OneWriter(f) /\ WholeLists(f)
    BY <1>5, <2>2 DEF FileInv
  <2>4. /\ \A v \in Post!Writers \ {w} :
              mailPhase'[v] = mailPhase[v] /\ mailCopy'[v] = mailCopy[v]
        /\ mailPhase'[w] \in {"gone", "idle"}
    BY <2>2 DEF MailTypeOK
  <2>5. CASE Post!File(w) = f
    <3>1. mailPhase[w] = "read"
      BY <1>5, <2>2, <2>5
    <3>2. \A v \in Post!Writers : Post!File(v) = f => ~AtWork(v)' /\ mailPhase[v] # "open"
      BY <2>2, <2>3, <2>4, <2>5, <3>1 DEF OneWriter, AtWork
    <3>3. OneWriter(f)'
      BY <2>2, <2>3, <3>2 DEF OneWriter, AtWork
    <3>4. \A m \in Post!Mail : mailPhase'[m] = "done" => mailPhase[m] = "done"
      BY <1>0, <2>4
    <3>. QED  BY <2>2, <2>3, <3>2, <3>3, <3>4 DEF WholeLists
  <2>6. CASE Post!File(w) # f
    BY <2>2, <2>3, <2>4, <2>6, OtherFile
  <2>. QED  BY <2>5, <2>6
<1>6. ASSUME NEW m \in Letters, Post!Publish(m), f \notin mailSpoiled'
      PROVE  OneWriter(f)' /\ WholeLists(f)'
  <2>1. PICK list \in SUBSET Entries :
            /\ list = (mailCopy[Post!Bridge] \ {<<m, FALSE>>}) \cup {<<m, TRUE>>}
            /\ mailCopy' = [mailCopy EXCEPT ![Post!Bridge] = list]
    BY <1>6, PublishEffect
  <2>2. UNCHANGED <<mailText, mailTorn, mailPhase, mailSpoiled>>
    BY <1>6, PublishEffect
  <2>3. OneWriter(f) /\ WholeLists(f)
    BY <1>6, <2>2 DEF FileInv
  <2>4. OneWriter(f)' /\ \A v \in Post!Writers : AtWork(v)' = AtWork(v)
    BY <2>2, <2>3 DEF OneWriter, AtWork
  <2>5. \A n \in Post!Mail : Has(mailCopy[Post!Bridge], n) => Has(list, n)
    <3>1. ASSUME NEW n \in Post!Mail, NEW x \in BOOLEAN, <<n, x>> \in mailCopy[Post!Bridge]
          PROVE  Has(list, n)
      <4>1. CASE <<n, x>> = <<m, FALSE>>
        <5>1. n = m /\ <<m, TRUE>> \in list
          BY <2>1, <4>1
        <5>. QED  BY <5>1 DEF Has
      <4>2. CASE <<n, x>> # <<m, FALSE>>
        BY <2>1, <3>1, <4>2 DEF Has
      <4>. QED  BY <4>1, <4>2
    <3>. QED  BY <3>1 DEF Has
  <2>6. \A v \in Post!Writers, n \in Post!Mail : Has(mailCopy[v], n) => Has(mailCopy'[v], n)
    <3>1. \A v \in Post!Writers :
              mailCopy'[v] = IF v = Post!Bridge THEN list ELSE mailCopy[v]
      BY <2>1 DEF MailTypeOK
    <3>. QED  BY <2>5, <3>1
  <2>. QED  BY <2>2, <2>3, <2>4, <2>6 DEF WholeLists
<1>7. ASSUME NEW m \in Letters, Post!PublishFails(m), f \notin mailSpoiled'
      PROVE  OneWriter(f)' /\ WholeLists(f)'
  <2>2. /\ mailPhase[Post!Bridge] = "read"
        /\ mailPhase' = [mailPhase EXCEPT ![Post!Bridge] = "idle"]
        /\ mailCopy' = [mailCopy EXCEPT ![Post!Bridge] = {}]
        /\ UNCHANGED <<mailText, mailTorn, mailSpoiled>>
    BY <1>7, PublishFailsEffect
  <2>3. OneWriter(f) /\ WholeLists(f)
    BY <1>7, <2>2 DEF FileInv
  <2>4. /\ \A v \in Post!Writers \ {Post!Bridge} :
              mailPhase'[v] = mailPhase[v] /\ mailCopy'[v] = mailCopy[v]
        /\ mailPhase'[Post!Bridge] = "idle"
    BY <1>0, <2>2 DEF MailTypeOK
  <2>5. \A v \in Post!Writers : AtWork(v)' => AtWork(v) /\ v # Post!Bridge
    BY <2>4 DEF AtWork
  <2>6. \A v \in Post!Writers : mailPhase'[v] = "open" <=> mailPhase[v] = "open"
    BY <2>2, <2>4
  <2>7. OneWriter(f)'
    BY <2>2, <2>3, <2>5, <2>6 DEF OneWriter
  <2>8. \A n \in Post!Mail : mailPhase'[n] = mailPhase[n]
    BY <1>0, <2>4
  <2>. QED  BY <2>2, <2>3, <2>4, <2>5, <2>7, <2>8 DEF WholeLists
<1>8. ASSUME NEW m \in Notes, Post!PublishNote(m) PROVE FileInv(f)'
  BY <1>8, PublishNoteEffect, AdapterKeepsFiles
<1>9. CASE Post!StartCheck
  BY <1>9, StartCheckEffect, AdapterKeepsFiles
<1>10. CASE Post!EndCheck
  BY <1>10, EndCheckEffect, AdapterKeepsFiles
<1>11. CASE Post!RestartAdapter
  BY <1>11, RestartAdapterEffect, AdapterKeepsFiles
<1>12. ASSUME NEW m \in Notes, Post!PublishNoteFails(m) PROVE FileInv(f)'
  BY <1>12, PublishNoteFailsEffect, AdapterKeepsFiles
<1>. QED
  BY <1>1, <1>2, <1>3, <1>4, <1>5, <1>6, <1>7, <1>8, <1>9, <1>10, <1>11, <1>12
  DEF Post!MailNext, FileInv

\* A step that leaves the inbox, its writers and the letters as they are.
LEMMA InboxLeftAlone ==
    ASSUME LettersInv, NEW w \in Post!Writers, Post!File(w) # "inbox",
           \A v \in Post!Writers \ {w} :
               mailPhase'[v] = mailPhase[v] /\ mailCopy'[v] = mailCopy[v],
           mailText'["inbox"] = mailText["inbox"],
           \A m \in Letters : mailPublished'[m] = mailPublished[m]
    PROVE  LettersInv'
<1>1. \A v \in Post!Writers : Post!File(v) = "inbox" =>
          mailCopy'[v] = mailCopy[v] /\ AtWork(v)' = AtWork(v)
  BY DEF AtWork
<1>2. Post!Bridge \in Post!Writers /\ Post!File(Post!Bridge) = "inbox"
  BY MailNames
<1>. QED  BY <1>1, <1>2 DEF LettersInv

LEMMA LettersStep ==
    ASSUME MailTypeOK, EntriesInv, FileInv("inbox"), Post!MailNext,
           ~mailInterrupted /\ "inbox" \notin mailSpoiled => LettersInv,
           ~mailInterrupted', "inbox" \notin mailSpoiled'
    PROVE  LettersInv'
<1>0. /\ Letters \subseteq Post!Mail /\ Post!Mail \subseteq Post!Writers
      /\ Notes \subseteq Post!Mail /\ Post!Bridge \in Post!Writers
      /\ Post!Bridge \notin Post!Mail /\ Post!File(Post!Bridge) = "inbox"
      /\ Letters \cap Notes = {} /\ "inbox" \in Post!Files
      /\ \A w \in Post!Writers : Post!File(w) \in Post!Files
  BY MailNames
<1>1. ASSUME NEW w \in Post!Writers, Post!StartSending(w) PROVE LettersInv'
  <2>1. PICK list \in SUBSET Entries :
            /\ mailCopy' = [mailCopy EXCEPT ![w] = list]
            /\ <<w, FALSE>> \in list
            /\ list \subseteq {<<w, FALSE>>} \cup mailText[Post!File(w)]
            /\ Post!File(w) \notin mailTorn => mailText[Post!File(w)] \subseteq list
    BY <1>1, StartSendingEffect
  <2>2. /\ mailPhase[w] = "idle" /\ mailPhase' = [mailPhase EXCEPT ![w] = "read"]
        /\ mailSpoiled \subseteq mailSpoiled' /\ w \in Post!Mail
        /\ Post!File(w) \notin mailSpoiled' => Post!Busy(Post!File(w)) = {}
        /\ UNCHANGED <<mailText, mailPublished, mailInterrupted>>
    BY <1>1, StartSendingEffect
  <2>3. LettersInv /\ OneWriter("inbox")
    BY <2>2 DEF FileInv
  <2>4. \A v \in Post!Writers \ {w} :
            mailPhase'[v] = mailPhase[v] /\ mailCopy'[v] = mailCopy[v]
    BY <2>1, <2>2 DEF MailTypeOK
  <2>5. mailCopy'[w] = list
    BY <2>1 DEF MailTypeOK
  <2>6. CASE Post!File(w) = "inbox"
    <3>1. \A v \in Post!Writers : Post!File(v) = "inbox" => ~AtWork(v)
      BY <2>2, <2>3, <2>6, Quiet
    <3>2. ~AtWork(Post!Bridge)
      BY <1>0, <3>1
    <3>3. ASSUME NEW m \in Letters, mailPublished[m] = 1
          PROVE  <<m, FALSE>> \notin mailText["inbox"] /\ <<m, FALSE>> \notin list
      <4>1. m # w
        BY <1>0, <2>2, <3>3 DEF EntriesInv
      <4>2. <<m, FALSE>> \notin mailText["inbox"]
        BY <2>3, <3>2, <3>3 DEF LettersInv
      <4>. QED  BY <2>1, <2>6, <4>1, <4>2
    <3>4. \A v \in Post!Writers : Post!File(v) = "inbox" /\ AtWork(v)' => v = w
      BY <2>4, <3>1 DEF AtWork
    <3>. QED  BY <2>2, <2>3, <2>5, <3>3, <3>4 DEF LettersInv
  <2>7. CASE Post!File(w) # "inbox"
    BY <2>2, <2>3, <2>4, <2>7, InboxLeftAlone
  <2>. QED  BY <2>6, <2>7
<1>2. ASSUME NEW w \in Post!Writers, Post!StartMarking(w) PROVE LettersInv'
  <2>2. /\ mailPhase[w] = "idle" /\ mailPhase' = [mailPhase EXCEPT ![w] = "read"]
        /\ mailCopy' = [mailCopy EXCEPT ![w] = mailText[Post!File(w)]]
        /\ mailSpoiled \subseteq mailSpoiled'
        /\ Post!File(w) \notin mailSpoiled' => Post!Busy(Post!File(w)) = {}
        /\ UNCHANGED <<mailText, mailPublished, mailInterrupted>>
    BY <1>2, StartMarkingEffect
  <2>3. LettersInv /\ OneWriter("inbox")
    BY <2>2 DEF FileInv
  <2>4. /\ \A v \in Post!Writers \ {w} :
              mailPhase'[v] = mailPhase[v] /\ mailCopy'[v] = mailCopy[v]
        /\ mailCopy'[w] = mailText[Post!File(w)]
    BY <2>2 DEF MailTypeOK
  <2>6. CASE Post!File(w) = "inbox"
    <3>1. \A v \in Post!Writers : Post!File(v) = "inbox" => ~AtWork(v)
      BY <2>2, <2>3, <2>6, Quiet
    <3>3. \A m \in Letters : mailPublished[m] = 1 => <<m, FALSE>> \notin mailText["inbox"]
      BY <1>0, <2>3, <3>1 DEF LettersInv
    <3>4. \A v \in Post!Writers : Post!File(v) = "inbox" /\ AtWork(v)' => v = w
      BY <2>4, <3>1 DEF AtWork
    <3>. QED  BY <2>2, <2>3, <2>4, <2>6, <3>3, <3>4 DEF LettersInv
  <2>7. CASE Post!File(w) # "inbox"
    BY <2>2, <2>3, <2>4, <2>7, InboxLeftAlone
  <2>. QED  BY <2>6, <2>7
<1>3. ASSUME NEW w \in Post!Writers, Post!Open(w) PROVE LettersInv'
  <2>2. /\ mailPhase[w] = "read" /\ mailPhase' = [mailPhase EXCEPT ![w] = "open"]
        /\ UNCHANGED <<mailText, mailCopy, mailSpoiled, mailPublished, mailInterrupted>>
    BY <1>3, OpenEffect
  <2>5. \A v \in Post!Writers : AtWork(v)' = AtWork(v)
    BY <2>2 DEF AtWork, MailTypeOK
  <2>. QED  BY <1>0, <2>2, <2>5 DEF LettersInv
<1>4. ASSUME NEW w \in Post!Writers, Post!Write(w) PROVE LettersInv'
  <2>2. /\ mailPhase[w] = "open"
        /\ mailPhase' = [mailPhase EXCEPT ![w] = IF w \in Post!Mail THEN "done" ELSE "idle"]
        /\ mailText' = [mailText EXCEPT ![Post!File(w)] = mailCopy[w]]
        /\ mailCopy' = [mailCopy EXCEPT ![w] = {}]
        /\ UNCHANGED <<mailSpoiled, mailPublished, mailInterrupted>>
    BY <1>4, WriteEffect
  <2>3. LettersInv
    BY <2>2
  <2>4. /\ \A v \in Post!Writers \ {w} :
              mailPhase'[v] = mailPhase[v] /\ mailCopy'[v] = mailCopy[v]
        /\ mailPhase'[w] \in {"done", "idle"}
        /\ mailText'["inbox"] =
              IF Post!File(w) = "inbox" THEN mailCopy[w] ELSE mailText["inbox"]
    BY <1>0, <2>2 DEF MailTypeOK
  <2>5. CASE Post!File(w) = "inbox"
    <3>1. \A m \in Letters : mailPublished[m] = 1 => <<m, FALSE>> \notin mailText'["inbox"]
      BY <2>2, <2>3, <2>4, <2>5 DEF LettersInv, AtWork
    <3>2. \A v \in Post!Writers : AtWork(v)' => v # w /\ AtWork(v)
      BY <2>4 DEF AtWork
    <3>. QED  BY <2>2, <2>3, <2>4, <3>1, <3>2 DEF LettersInv
  <2>6. CASE Post!File(w) # "inbox"
    BY <2>2, <2>3, <2>4, <2>6, InboxLeftAlone
  <2>. QED  BY <2>5, <2>6
<1>5. ASSUME NEW w \in Post!Writers, Post!Die(w) PROVE LettersInv'
  <2>2. /\ mailPhase' = [mailPhase EXCEPT ![w] = IF w \in Post!Mail THEN "gone" ELSE "idle"]
        /\ mailCopy' = [mailCopy EXCEPT ![w] = {}]
        /\ mailSpoiled \subseteq mailSpoiled'
        /\ mailInterrupted' = (mailInterrupted \/ w = Post!Bridge)
        /\ UNCHANGED <<mailText, mailPublished>>
    BY <1>5, DieEffect
  <2>3. LettersInv /\ w # Post!Bridge
    BY <2>2
  <2>4. /\ \A v \in Post!Writers \ {w} :
              mailPhase'[v] = mailPhase[v] /\ mailCopy'[v] = mailCopy[v]
        /\ mailPhase'[w] \in {"gone", "idle"}
    BY <2>2 DEF MailTypeOK
  <2>5. \A v \in Post!Writers : AtWork(v)' => AtWork(v) /\ v # w
    BY <2>4 DEF AtWork
  <2>6. AtWork(Post!Bridge)' = AtWork(Post!Bridge)
    BY <1>0, <2>3, <2>4 DEF AtWork
  <2>. QED  BY <2>2, <2>3, <2>4, <2>5, <2>6 DEF LettersInv
<1>6. ASSUME NEW m \in Letters, Post!Publish(m) PROVE LettersInv'
  <2>1. PICK list \in SUBSET Entries :
            /\ list = (mailCopy[Post!Bridge] \ {<<m, FALSE>>}) \cup {<<m, TRUE>>}
            /\ mailCopy' = [mailCopy EXCEPT ![Post!Bridge] = list]
    BY <1>6, PublishEffect
  <2>2. /\ mailPhase[Post!Bridge] = "read" /\ <<m, FALSE>> \in mailCopy[Post!Bridge]
        /\ mailPublished' = [mailPublished EXCEPT ![m] = mailPublished[m] + 1]
        /\ UNCHANGED <<mailText, mailPhase, mailSpoiled, mailInterrupted>>
    BY <1>6, PublishEffect
  <2>3. LettersInv /\ OneWriter("inbox")
    BY <2>2 DEF FileInv
  <2>4. AtWork(Post!Bridge) /\ \A v \in Post!Writers : AtWork(v)' = AtWork(v)
    BY <2>2 DEF AtWork
  <2>5. \A v \in Post!Writers : Post!File(v) = "inbox" /\ AtWork(v)' => v = Post!Bridge
    BY <1>0, <2>3, <2>4 DEF OneWriter
  <2>6. mailCopy'[Post!Bridge] = list
    BY <1>0, <2>1 DEF MailTypeOK
  <2>7. mailPublished[m] = 0
    <3>1. mailPublished[m] \in Nat /\ mailPublished[m] <= 1 /\ mailPublished[m] # 1
      BY <1>0, <2>2, <2>3, <2>4 DEF LettersInv, MailTypeOK
    <3>. QED  BY <3>1
  <2>8. /\ mailPublished'[m] = 1
        /\ \A n \in Letters \ {m} : mailPublished'[n] = mailPublished[n]
    BY <1>0, <2>2, <2>7 DEF MailTypeOK
  <2>9. <<m, FALSE>> \notin list
        /\ \A n \in Letters : <<n, FALSE>> \in list => <<n, FALSE>> \in mailCopy[Post!Bridge]
    BY <2>1
  <2>10. ASSUME NEW n \in Letters
         PROVE  mailPublished'[n] <= 1
                /\ (mailPublished'[n] = 1 => <<n, FALSE>> \notin list)
    <3>1. CASE n = m
      BY <2>8, <2>9, <3>1
    <3>2. CASE n # m
      <4>1. mailPublished'[n] = mailPublished[n]
        BY <2>8, <3>2
      <4>2. mailPublished[n] <= 1
            /\ (mailPublished[n] = 1 => <<n, FALSE>> \notin mailCopy[Post!Bridge])
        BY <1>0, <2>3, <2>4 DEF LettersInv
      <4>. QED  BY <2>9, <4>1, <4>2
    <3>. QED  BY <3>1, <3>2
  <2>11. AtWork(Post!Bridge)'
    BY <1>0, <2>4
  <2>. QED  BY <2>5, <2>6, <2>10, <2>11 DEF LettersInv
<1>7. ASSUME NEW m \in Letters, Post!PublishFails(m) PROVE LettersInv'
  BY <1>7, PublishFailsEffect
<1>8. ASSUME NEW m \in Notes, Post!PublishNote(m) PROVE LettersInv'
  <2>1. AdapterOnly /\ mailPublished' = [mailPublished EXCEPT ![m] = mailPublished[m] + 1]
    BY <1>8, PublishNoteEffect
  <2>2. \A n \in Letters : mailPublished'[n] = mailPublished[n]
    BY <1>0, <2>1 DEF MailTypeOK
  <2>. QED  BY <2>1, <2>2 DEF AdapterOnly, LettersInv, AtWork
<1>9. ASSUME AdapterOnly, UNCHANGED mailPublished PROVE LettersInv'
  BY <1>9 DEF AdapterOnly, LettersInv, AtWork
<1>. QED
  BY <1>1, <1>2, <1>3, <1>4, <1>5, <1>6, <1>7, <1>8, <1>9,
     StartCheckEffect, EndCheckEffect, RestartAdapterEffect, PublishNoteFailsEffect
  DEF Post!MailNext

\* A step that changes nothing of the adapter and lets no note begin.
LEMMA NotesLeftAlone ==
    ASSUME NotesInv,
           \A m \in Notes : /\ mailPhase'[m] \in {"idle", "absent"} <=> mailPhase[m] \in {"idle", "absent"}
                            /\ AtWork(m)' => AtWork(m)
                            /\ mailPublished'[m] = mailPublished[m],
           UNCHANGED <<mailStamped, mailOld, mailChecking, mailFound, mailExcused, mailBrokenOff>>
    PROVE  NotesInv'
BY DEF NotesInv

LEMMA NotesStep ==
    ASSUME MailTypeOK, EntriesInv, NotesInv, Post!MailNext PROVE NotesInv'
<1>0. /\ Letters \subseteq Post!Mail /\ Post!Mail \subseteq Post!Writers
      /\ Notes \subseteq Post!Mail /\ Post!Bridge \in Post!Writers
      /\ Post!Bridge \notin Post!Mail /\ Post!Marker \notin Post!Mail
      /\ Letters \cap Notes = {}
  BY MailNames
<1>1. ASSUME NEW w \in Post!Writers, Post!StartSending(w) PROVE NotesInv'
  <2>1. /\ mailPhase[w] = "idle" /\ mailPhase' = [mailPhase EXCEPT ![w] = "read"]
        /\ mailStamped' = mailStamped \cup ({w} \cap Notes)
        /\ mailExcused' = IF mailChecking THEN mailExcused \cup ({w} \cap Notes)
                                          ELSE mailExcused
        /\ UNCHANGED <<mailOld, mailChecking, mailFound, mailBrokenOff, mailPublished>>
    BY <1>1, StartSendingEffect
  <2>2. mailPhase'[w] = "read" /\ \A v \in Post!Writers \ {w} : mailPhase'[v] = mailPhase[v]
    BY <2>1 DEF MailTypeOK
  <2>3. \A m \in Notes : m \in mailStamped' <=> mailPhase'[m] \notin {"idle", "absent"}
    BY <1>0, <2>1, <2>2 DEF NotesInv
  <2>4. \A m \in Notes : AtWork(m)' => AtWork(m) \/ m = w
    BY <1>0, <2>2 DEF AtWork
  <2>5. w \in Notes => w \notin mailOld
    BY <2>1 DEF NotesInv, MailTypeOK
  <2>6. \A m \in Notes : AtWork(m)' /\ (mailChecking \/ m \in mailOld) => m \in mailExcused'
    BY <2>1, <2>4, <2>5 DEF NotesInv
  <2>. QED  BY <2>1, <2>3, <2>6 DEF NotesInv
<1>2. ASSUME NEW w \in Post!Writers, Post!StartMarking(w) PROVE NotesInv'
  <2>1. /\ w \notin Notes /\ mailPhase' = [mailPhase EXCEPT ![w] = "read"]
        /\ UNCHANGED <<mailStamped, mailOld, mailChecking, mailFound, mailExcused,
                       mailBrokenOff, mailPublished>>
    BY <1>0, <1>2, StartMarkingEffect
  <2>2. \A m \in Notes : mailPhase'[m] = mailPhase[m]
    BY <1>0, <2>1 DEF MailTypeOK
  <2>. QED  BY <2>1, <2>2, NotesLeftAlone DEF AtWork
<1>3. ASSUME NEW w \in Post!Writers, Post!Open(w) PROVE NotesInv'
  <2>1. /\ mailPhase[w] = "read" /\ mailPhase' = [mailPhase EXCEPT ![w] = "open"]
        /\ UNCHANGED <<mailStamped, mailOld, mailChecking, mailFound, mailExcused,
                       mailBrokenOff, mailPublished>>
    BY <1>3, OpenEffect
  <2>2. \A m \in Notes : mailPhase'[m] = IF m = w THEN "open" ELSE mailPhase[m]
    BY <1>0, <2>1 DEF MailTypeOK
  <2>. QED  BY <2>1, <2>2, NotesLeftAlone DEF AtWork
<1>4. ASSUME NEW w \in Post!Writers, Post!Write(w) PROVE NotesInv'
  <2>1. /\ mailPhase[w] = "open"
        /\ mailPhase' = [mailPhase EXCEPT ![w] = IF w \in Post!Mail THEN "done" ELSE "idle"]
        /\ UNCHANGED <<mailStamped, mailOld, mailChecking, mailFound, mailExcused,
                       mailBrokenOff, mailPublished>>
    BY <1>4, WriteEffect
  <2>2. \A m \in Notes : mailPhase'[m] = IF m = w THEN "done" ELSE mailPhase[m]
    BY <1>0, <2>1 DEF MailTypeOK
  <2>. QED  BY <2>1, <2>2, NotesLeftAlone DEF AtWork
<1>5. ASSUME NEW w \in Post!Writers, Post!Die(w) PROVE NotesInv'
  <2>1. /\ mailPhase[w] \in {"read", "open"}
        /\ mailPhase' = [mailPhase EXCEPT ![w] = IF w \in Post!Mail THEN "gone" ELSE "idle"]
        /\ UNCHANGED <<mailStamped, mailOld, mailChecking, mailFound, mailExcused,
                       mailBrokenOff, mailPublished>>
    BY <1>5, DieEffect
  <2>2. \A m \in Notes : mailPhase'[m] = IF m = w THEN "gone" ELSE mailPhase[m]
    BY <1>0, <2>1 DEF MailTypeOK
  <2>. QED  BY <2>1, <2>2, NotesLeftAlone DEF AtWork
<1>6. ASSUME NEW l \in Letters, Post!Publish(l) PROVE NotesInv'
  <2>1. /\ mailPublished' = [mailPublished EXCEPT ![l] = mailPublished[l] + 1]
        /\ UNCHANGED <<mailPhase, mailStamped, mailOld, mailChecking, mailFound, mailExcused,
                       mailBrokenOff>>
    BY <1>6, PublishEffect
  <2>2. \A m \in Notes : mailPublished'[m] = mailPublished[m]
    BY <1>0, <2>1 DEF MailTypeOK
  <2>. QED  BY <2>1, <2>2, NotesLeftAlone DEF AtWork
<1>7. ASSUME NEW l \in Letters, Post!PublishFails(l) PROVE NotesInv'
  <2>1. /\ mailPhase' = [mailPhase EXCEPT ![Post!Bridge] = "idle"]
        /\ UNCHANGED <<mailStamped, mailOld, mailChecking, mailFound, mailExcused,
                       mailBrokenOff, mailPublished>>
    BY <1>7, PublishFailsEffect
  <2>2. \A m \in Notes : mailPhase'[m] = mailPhase[m]
    BY <1>0, <2>1 DEF MailTypeOK
  <2>. QED  BY <2>1, <2>2, NotesLeftAlone DEF AtWork
<1>8. ASSUME NEW n \in Notes, Post!PublishNote(n) PROVE NotesInv'
  <2>1. /\ n \in mailFound /\ mailFound' = mailFound \ {n} /\ mailChecking
        /\ mailPublished' = [mailPublished EXCEPT ![n] = mailPublished[n] + 1]
        /\ UNCHANGED <<mailPhase, mailStamped, mailOld, mailChecking, mailExcused, mailBrokenOff>>
    BY <1>8, PublishNoteEffect DEF AdapterOnly, NotesInv
  <2>2. n \notin mailBrokenOff => mailPublished[n] = 0
    <3>1. n \notin mailBrokenOff =>
              mailPublished[n] \in Nat /\ mailPublished[n] <= 1 /\ mailPublished[n] # 1
      BY <1>0, <2>1 DEF NotesInv, MailTypeOK
    <3>. QED  BY <3>1
  <2>3. /\ n \notin mailBrokenOff => mailPublished'[n] = 1
        /\ \A m \in Notes \ {n} : mailPublished'[m] = mailPublished[m]
    BY <1>0, <2>1, <2>2 DEF MailTypeOK
  <2>4. \A m \in Notes : AtWork(m)' = AtWork(m)
    BY <2>1 DEF AtWork
  <2>. QED  BY <2>1, <2>3, <2>4 DEF NotesInv
<1>9. CASE Post!StartCheck
  <2>1. /\ ~mailChecking /\ mailChecking' /\ mailExcused \subseteq mailExcused'
        /\ \A m \in mailFound' : m \notin mailOld
        /\ \A m \in Notes : AtWork(m) => m \in mailExcused' \/ m \notin mailStamped
        /\ UNCHANGED <<mailPhase, mailStamped, mailOld, mailBrokenOff, mailPublished>>
    BY <1>9, StartCheckEffect DEF AdapterOnly
  <2>2. \A m \in Notes : AtWork(m) => m \in mailStamped
    BY DEF NotesInv, AtWork
  <2>3. \A m \in Notes : AtWork(m)' = AtWork(m)
    BY <2>1 DEF AtWork
  <2>. QED  BY <2>1, <2>2, <2>3 DEF NotesInv
<1>10. CASE Post!EndCheck
  <2>1. /\ mailChecking /\ mailFound = {} /\ ~mailChecking' /\ mailOld' = mailStamped
        /\ UNCHANGED <<mailPhase, mailStamped, mailFound, mailExcused, mailBrokenOff, mailPublished>>
    BY <1>10, EndCheckEffect DEF AdapterOnly
  <2>2. \A m \in Notes : mailPublished[m] = 1 => m \in mailStamped
    BY <1>0 DEF EntriesInv, NotesInv, MailTypeOK
  <2>3. \A m \in Notes : AtWork(m)' = AtWork(m)
    BY <2>1 DEF AtWork
  <2>. QED  BY <2>1, <2>2, <2>3 DEF NotesInv
<1>11. CASE Post!RestartAdapter
  <2>1. /\ ~mailChecking' /\ mailFound' = {} /\ mailOld' = mailStamped
        /\ mailExcused' = mailExcused \cup mailStamped
        /\ UNCHANGED <<mailPhase, mailStamped, mailBrokenOff, mailPublished>>
    BY <1>11, RestartAdapterEffect DEF AdapterOnly
  <2>2. \A m \in Notes : mailPublished[m] = 1 => m \in mailStamped
    BY <1>0 DEF EntriesInv, NotesInv, MailTypeOK
  <2>3. \A m \in Notes : AtWork(m)' = AtWork(m)
    BY <2>1 DEF AtWork
  <2>. QED  BY <2>1, <2>2, <2>3 DEF NotesInv
<1>12. ASSUME NEW n \in Notes, Post!PublishNoteFails(n) PROVE NotesInv'
  <2>1. /\ mailFound' = {} /\ ~mailChecking'
        /\ mailBrokenOff' = mailBrokenOff \cup {m \in Notes \ mailOld : mailPublished[m] > 0}
        /\ UNCHANGED <<mailPhase, mailStamped, mailOld, mailExcused, mailPublished>>
    BY <1>12, PublishNoteFailsEffect DEF AdapterOnly
  <2>2. \A m \in Notes : AtWork(m)' = AtWork(m)
    BY <2>1 DEF AtWork
  <2>. QED  BY <2>1, <2>2 DEF NotesInv
<1>. QED
  BY <1>1, <1>2, <1>3, <1>4, <1>5, <1>6, <1>7, <1>8, <1>9, <1>10, <1>11, <1>12 DEF Post!MailNext

\* A step that changes nothing of the adapter and finishes no note.
LEMMA CheckedLeftAlone ==
    ASSUME CheckedInv,
           \A m \in Notes : /\ mailPhase'[m] = "done" => mailPhase[m] = "done"
                            /\ mailPublished'[m] = mailPublished[m],
           UNCHANGED <<mailStamped, mailOld, mailChecking, mailFound, mailExcused>>
    PROVE  CheckedInv'
BY DEF CheckedInv

LEMMA CheckedStep ==
    ASSUME MailTypeOK, EntriesInv, NotesInv, FileInv("board"), Post!MailNext,
           "board" \notin mailSpoiled => CheckedInv, "board" \notin mailSpoiled'
    PROVE  CheckedInv'
<1>0. /\ Letters \subseteq Post!Mail /\ Post!Mail \subseteq Post!Writers
      /\ Notes \subseteq Post!Mail /\ Post!Bridge \in Post!Writers
      /\ Post!Bridge \notin Post!Mail /\ Post!Marker \notin Post!Mail
      /\ Letters \cap Notes = {} /\ "board" \in Post!Files
      /\ \A m \in Notes : Post!File(m) = "board"
  BY MailNames
<1>1. ASSUME NEW w \in Post!Writers, Post!StartSending(w) PROVE CheckedInv'
  <2>1. /\ mailPhase' = [mailPhase EXCEPT ![w] = "read"]
        /\ mailStamped' = mailStamped \cup ({w} \cap Notes)
        /\ mailExcused' = IF mailChecking THEN mailExcused \cup ({w} \cap Notes)
                                          ELSE mailExcused
        /\ mailSpoiled \subseteq mailSpoiled'
        /\ UNCHANGED <<mailOld, mailChecking, mailFound, mailPublished>>
    BY <1>1, StartSendingEffect
  <2>2. mailPhase'[w] = "read" /\ \A v \in Post!Writers \ {w} : mailPhase'[v] = mailPhase[v]
    BY <2>1 DEF MailTypeOK
  <2>3. CheckedInv
    BY <2>1
  <2>4. \A m \in Notes : mailPhase'[m] = "done" /\ m \notin mailExcused' =>
            /\ m # w /\ mailPhase[m] = "done" /\ m \notin mailExcused
            /\ m \in mailStamped' => m \in mailStamped
    BY <1>0, <2>1, <2>2
  <2>. QED  BY <2>1, <2>3, <2>4 DEF CheckedInv
<1>2. ASSUME NEW w \in Post!Writers, Post!StartMarking(w) PROVE CheckedInv'
  <2>1. /\ w \notin Notes /\ mailPhase' = [mailPhase EXCEPT ![w] = "read"]
        /\ mailSpoiled \subseteq mailSpoiled'
        /\ UNCHANGED <<mailStamped, mailOld, mailChecking, mailFound, mailExcused,
                       mailPublished>>
    BY <1>0, <1>2, StartMarkingEffect
  <2>2. \A m \in Notes : mailPhase'[m] = mailPhase[m]
    BY <1>0, <2>1 DEF MailTypeOK
  <2>. QED  BY <2>1, <2>2, CheckedLeftAlone
<1>3. ASSUME NEW w \in Post!Writers, Post!Open(w) PROVE CheckedInv'
  <2>1. /\ mailPhase' = [mailPhase EXCEPT ![w] = "open"]
        /\ UNCHANGED <<mailStamped, mailOld, mailChecking, mailFound, mailExcused,
                       mailPublished, mailSpoiled>>
    BY <1>3, OpenEffect
  <2>2. \A m \in Notes : mailPhase'[m] = IF m = w THEN "open" ELSE mailPhase[m]
    BY <1>0, <2>1 DEF MailTypeOK
  <2>. QED  BY <2>1, <2>2, CheckedLeftAlone
<1>4. ASSUME NEW w \in Post!Writers, Post!Write(w) PROVE CheckedInv'
  <2>1. /\ mailPhase[w] = "open"
        /\ mailPhase' = [mailPhase EXCEPT ![w] = IF w \in Post!Mail THEN "done" ELSE "idle"]
        /\ UNCHANGED <<mailStamped, mailOld, mailChecking, mailFound, mailExcused,
                       mailPublished, mailSpoiled>>
    BY <1>4, WriteEffect
  <2>2. \A m \in Notes : m # w => mailPhase'[m] = mailPhase[m]
    BY <1>0, <2>1 DEF MailTypeOK
  <2>3. w \in Notes /\ w \notin mailExcused => ~mailChecking /\ w \notin mailOld
    BY <2>1 DEF NotesInv, AtWork
  <2>4. CheckedInv
    BY <2>1
  <2>. QED  BY <2>1, <2>2, <2>3, <2>4 DEF CheckedInv
<1>5. ASSUME NEW w \in Post!Writers, Post!Die(w) PROVE CheckedInv'
  <2>1. /\ mailPhase' = [mailPhase EXCEPT ![w] = IF w \in Post!Mail THEN "gone" ELSE "idle"]
        /\ mailSpoiled \subseteq mailSpoiled'
        /\ UNCHANGED <<mailStamped, mailOld, mailChecking, mailFound, mailExcused,
                       mailPublished>>
    BY <1>5, DieEffect
  <2>2. \A m \in Notes : mailPhase'[m] = IF m = w THEN "gone" ELSE mailPhase[m]
    BY <1>0, <2>1 DEF MailTypeOK
  <2>. QED  BY <2>1, <2>2, CheckedLeftAlone
<1>6. ASSUME NEW l \in Letters, Post!Publish(l) PROVE CheckedInv'
  <2>1. /\ mailPublished' = [mailPublished EXCEPT ![l] = mailPublished[l] + 1]
        /\ UNCHANGED <<mailPhase, mailStamped, mailOld, mailChecking, mailFound, mailExcused,
                       mailSpoiled>>
    BY <1>6, PublishEffect
  <2>2. \A m \in Notes : mailPublished'[m] = mailPublished[m]
    BY <1>0, <2>1 DEF MailTypeOK
  <2>. QED  BY <2>1, <2>2, CheckedLeftAlone
<1>7. ASSUME NEW l \in Letters, Post!PublishFails(l) PROVE CheckedInv'
  <2>1. /\ mailPhase' = [mailPhase EXCEPT ![Post!Bridge] = "idle"]
        /\ UNCHANGED <<mailStamped, mailOld, mailChecking, mailFound, mailExcused,
                       mailPublished, mailSpoiled>>
    BY <1>7, PublishFailsEffect
  <2>2. \A m \in Notes : mailPhase'[m] = mailPhase[m]
    BY <1>0, <2>1 DEF MailTypeOK
  <2>. QED  BY <2>1, <2>2, CheckedLeftAlone
<1>8. ASSUME NEW n \in Notes, Post!PublishNote(n) PROVE CheckedInv'
  <2>1. /\ n \in mailFound /\ mailFound' = mailFound \ {n} /\ mailChecking
        /\ mailPublished' = [mailPublished EXCEPT ![n] = mailPublished[n] + 1]
        /\ UNCHANGED <<mailPhase, mailStamped, mailOld, mailChecking, mailExcused, mailSpoiled>>
    BY <1>8, PublishNoteEffect DEF AdapterOnly, NotesInv
  <2>3. mailPublished'[n] > 0 /\ \A m \in Notes \ {n} : mailPublished'[m] = mailPublished[m]
    BY <1>0, <2>1 DEF MailTypeOK
  <2>4. CheckedInv
    BY <2>1
  <2>. QED  BY <2>1, <2>3, <2>4 DEF CheckedInv
<1>9. CASE Post!StartCheck
  <2>1. /\ ~mailChecking /\ mailChecking' /\ mailExcused \subseteq mailExcused'
        /\ \/ mailStamped \subseteq mailExcused'
           \/ \A m \in Notes \ mailOld : Has(mailText["board"], m) => m \in mailFound'
        /\ UNCHANGED <<mailPhase, mailStamped, mailOld, mailPublished, mailText, mailSpoiled>>
    BY <1>9, StartCheckEffect DEF AdapterOnly
  <2>2. CheckedInv /\ WholeLists("board")
    BY <2>1 DEF FileInv
  <2>3. ASSUME NEW m \in Notes, mailPhase[m] = "done", m \notin mailExcused',
               m \in mailStamped
        PROVE  m \in mailFound' \/ mailPublished[m] > 0
    <3>1. Has(mailText["board"], m)
      BY <1>0, <2>2, <2>3 DEF WholeLists
    <3>. QED  BY <2>1, <2>2, <2>3, <3>1 DEF CheckedInv
  <2>. QED  BY <2>1, <2>3 DEF CheckedInv
<1>10. CASE Post!EndCheck
  <2>1. /\ mailChecking /\ mailFound = {} /\ ~mailChecking' /\ mailOld' = mailStamped
        /\ UNCHANGED <<mailPhase, mailExcused, mailPublished, mailSpoiled>>
    BY <1>10, EndCheckEffect DEF AdapterOnly
  <2>2. CheckedInv
    BY <2>1
  <2>. QED  BY <2>1, <2>2 DEF CheckedInv
<1>11. CASE Post!RestartAdapter
  <2>1. /\ ~mailChecking' /\ mailOld' = mailStamped
        /\ mailExcused' = mailExcused \cup mailStamped
    BY <1>11, RestartAdapterEffect DEF AdapterOnly
  <2>. QED  BY <2>1 DEF CheckedInv
<1>12. ASSUME NEW n \in Notes, Post!PublishNoteFails(n) PROVE CheckedInv'
  <2>1. /\ n \in mailFound /\ ~mailChecking' /\ mailChecking
        /\ UNCHANGED <<mailPhase, mailOld, mailExcused, mailPublished, mailSpoiled>>
    BY <1>12, PublishNoteFailsEffect DEF AdapterOnly, NotesInv
  <2>2. CheckedInv
    BY <2>1
  <2>3. \A m \in Notes : m \in mailOld => m \in mailStamped /\ m \notin mailFound
    BY DEF NotesInv, MailTypeOK
  <2>. QED  BY <2>1, <2>2, <2>3 DEF CheckedInv
<1>. QED
  BY <1>1, <1>2, <1>3, <1>4, <1>5, <1>6, <1>7, <1>8, <1>9, <1>10, <1>11, <1>12 DEF Post!MailNext

LEMMA MailInvStep == MailInv /\ [Post!MailNext]_mailVars => MailInv'
<1>. SUFFICES ASSUME MailInv, [Post!MailNext]_mailVars PROVE MailInv'
  OBVIOUS
<1>1. CASE Post!MailNext
  <2>1. MailTypeOK /\ EntriesInv /\ NotesInv /\ \A f \in Post!Files : FileInv(f)
    BY DEF MailInv, FileInv
  <2>2. MailTypeOK' /\ EntriesInv' /\ NotesInv'
    BY <1>1, <2>1, MailTypeStep, EntriesStep, NotesStep
  <2>3. \A f \in Post!Files : FileInv(f)'
    BY <1>1, <2>1, FilesStep
  <2>4. FileInv("inbox") /\ FileInv("board")
    BY <2>1, MailNames
  <2>5. ~mailInterrupted' /\ "inbox" \notin mailSpoiled' => LettersInv'
    BY <1>1, <2>1, <2>4, LettersStep DEF MailInv
  <2>6. "board" \notin mailSpoiled' => CheckedInv'
    BY <1>1, <2>1, <2>4, CheckedStep DEF MailInv
  <2>. QED  BY <2>2, <2>3, <2>5, <2>6 DEF MailInv, FileInv
<1>2. CASE UNCHANGED mailVars
  <2>1. \A f \in Post!Files : OneWriter(f)' = OneWriter(f) /\ WholeLists(f)' = WholeLists(f)
    BY <1>2 DEF mailVars, OneWriter, WholeLists, AtWork
  <2>2. MailTypeOK' /\ EntriesInv'
    BY <1>2 DEF mailVars, MailInv, MailTypeOK, EntriesInv
  <2>3. NotesInv' /\ LettersInv' = LettersInv /\ CheckedInv' = CheckedInv
    BY <1>2 DEF mailVars, MailInv, NotesInv, LettersInv, CheckedInv, AtWork
  <2>. QED  BY <1>2, <2>1, <2>2, <2>3 DEF mailVars, MailInv
<1>. QED  BY <1>1, <1>2

LEMMA MailInvShows == MailInv => Post!OnlyCausesMishandleMail
<1>. SUFFICES ASSUME MailInv PROVE Post!OnlyCausesMishandleMail
  OBVIOUS
<1>1. ASSUME NEW m \in Post!Mail, mailPhase[m] = "done", Post!File(m) \notin mailSpoiled
      PROVE  \E mark \in BOOLEAN : <<m, mark>> \in mailText[Post!File(m)]
  BY <1>1, MailNames DEF MailInv, WholeLists, Has
<1>2. ASSUME NEW m \in Letters, mailPublished[m] > 1
      PROVE  mailInterrupted \/ "inbox" \in mailSpoiled
  <2>1. LettersInv => mailPublished[m] <= 1 /\ mailPublished[m] \in Nat
    BY MailNames DEF LettersInv, MailInv, MailTypeOK
  <2>. QED  BY <1>2, <2>1 DEF MailInv
<1>3. ASSUME NEW m \in Notes, mailPublished[m] > 1 PROVE m \in mailBrokenOff
  <2>1. mailPublished[m] \in Nat
    BY MailNames DEF MailInv, MailTypeOK
  <2>. QED  BY <1>3, <2>1 DEF MailInv, NotesInv
<1>4. ASSUME NEW m \in Notes, m \in mailOld \ mailExcused, mailPhase[m] = "done",
             ~mailChecking, mailPublished[m] = 0
      PROVE  "board" \in mailSpoiled
  BY <1>4 DEF MailInv, CheckedInv
<1>. QED  BY <1>1, <1>2, <1>3, <1>4 DEF Post!OnlyCausesMishandleMail

----------------------------------------------------------------------------
(* AgentRuntime. *)


USE DEF AgentRuntimeAssumption
USE AgentRuntimeAssumption

----------------------------------------------------------------------------
(* Who is where, and who has the lock. *)

\* From taking the lock to releasing it
InCycle == {"sense", "validate", "decide", "enforce", "judge", "act", "execute",
            "consume", "observe", "explain", "end", "raised"}
Outside == {"wait", "sleep", "shutdown", "stop", "save", "dead", "done"}

Answers == [says : {"nothing", "failure", "error", "noop", "decision"},
            of : Threads \cup {NoTrace}]

ThreadsOK ==
    /\ lock \in SUBSET Threads
    /\ pc \in [Threads -> InCycle \cup Outside]
    /\ obs \in [Threads -> Traces \cup {NoTrace}]
    /\ last \in Answers
    /\ answer \in [Requests -> Answers]
    /\ executed \in [Traces -> Nat]
    /\ silent \in SUBSET Requests

RegistryOK ==
    /\ copies \in [Processes -> [loaded : BOOLEAN, set : SUBSET Traces]]
    /\ store \in {Torn} \cup {Whole(S) : S \in SUBSET Traces}
    /\ away \in [Elsewhere -> [at : {"rest", "absent", "act", "consume"},
                               trace : Traces \cup {NoTrace}]]

TypeOK == ThreadsOK /\ RegistryOK

\* The lock is with whoever is inside a cycle, and with nobody else.
LockInv ==
    /\ \A t \in Threads : t \in lock <=> pc[t] \in InCycle
    /\ \A t, u \in lock : t = u

CycleInv == ThreadsOK /\ LockInv

\* The last decision is one, whoever made it.
LEMMA Decisions ==
    /\ Nobody \in Answers /\ Failed \in Answers
    /\ \A t \in Threads : \A what \in {"error", "noop", "decision"} : Decision(what, t) \in Answers
  BY DEF Answers, Nobody, Failed, Decision

\* An exception releases the lock of the run() thread and keeps a handler in
\* its cycle.
LEMMA RaiseLeaves ==
    ASSUME CycleInv, NEW t \in Threads, pc[t] \in InCycle, Raise(t)
    PROVE  /\ lock' \in SUBSET Threads
           /\ pc' \in [Threads -> InCycle \cup Outside]
           /\ LockInv'
           /\ pc'[t] \in {"shutdown", "raised"}
           /\ \A u \in Threads \ {t} : pc'[u] = pc[u]
           /\ t = Loop => pc'[t] = "shutdown"
  BY DEF CycleInv, ThreadsOK, LockInv, Raise, GoTo, InCycle, Outside

\* A step from one place of the cycle to another leaves the lock where it is.
LEMMA StaysInCycle ==
    ASSUME CycleInv, NEW t \in Threads, pc[t] \in InCycle, UNCHANGED lock,
           NEW to \in InCycle, GoTo(t, to)
    PROVE  /\ lock' \in SUBSET Threads
           /\ pc' \in [Threads -> InCycle \cup Outside]
           /\ LockInv'
           /\ pc'[t] = to
           /\ \A u \in Threads \ {t} : pc'[u] = pc[u]
  BY DEF CycleInv, ThreadsOK, LockInv, GoTo, InCycle, Outside

LEMMA TransitionKeeps ==
    ASSUME CycleInv, NEW t \in Threads, NEW from \in InCycle, NEW s, NEW to \in InCycle,
           Transition(t, from, s, to)
    PROVE  CycleInv'
  <1>0. pc[t] \in InCycle
    BY DEF Transition, At
  <1>1. CASE TransitionFails(t, s)
    BY <1>0, <1>1, RaiseLeaves DEF TransitionFails, CycleInv, ThreadsOK, durableVars, histVars
  <1>2. CASE GoTo(t, to) /\ UNCHANGED <<lock, flag, last, obs, durableVars, answer, histVars>>
    BY <1>0, <1>2, StaysInCycle DEF CycleInv, ThreadsOK, durableVars, histVars
  <1>. QED  BY <1>1, <1>2 DEF Transition

\* The other workers touch nothing of this one's.
LEMMA LeftAlone ==
    ASSUME NEW w \in Elsewhere, StepElsewhere(w)
    PROVE  /\ UNCHANGED ownVars
           /\ executed \in [Traces -> Nat] => executed' \in [Traces -> Nat]
  BY DEF StepElsewhere, AcceptElsewhere, EndElsewhere, ExecuteElsewhere, ConsumeElsewhere,
     RestartElsewhere

LEMMA CycleInvStep == CycleInv /\ [Next]_vars => CycleInv'
  <1> SUFFICES ASSUME CycleInv, [Next]_vars
               PROVE  CycleInv'
    OBVIOUS
  <1> USE DEF CycleInv, ThreadsOK
  <1>1. ASSUME NEW t \in Threads, Acquire(t)
        PROVE  CycleInv'
    <2>1. CASE flag /\ t # Loop
      BY <1>1, <2>1, Decisions DEF Acquire, LockInv, GoTo, At, InCycle, Outside,
         Threads, durableVars, histVars
    <2>2. CASE ~(flag /\ t # Loop)
      <3>1. obs' \in [Threads -> Traces \cup {NoTrace}]
        BY <1>1, <2>2 DEF Acquire
      <3>2. LockInv' /\ pc' \in [Threads -> InCycle \cup Outside]
        BY <1>1, <2>2 DEF Acquire, LockInv, GoTo, At, InCycle, Outside
      <3>. QED  BY <1>1, <2>2, <3>1, <3>2 DEF Acquire, durableVars, histVars
    <2>. QED  BY <2>1, <2>2
  <1>2. ASSUME NEW t \in Threads, SenseRequest(t)
        PROVE  CycleInv'
    BY <1>2, StaysInCycle DEF SenseRequest, At, InCycle, durableVars, histVars
  <1>3. ASSUME NEW t \in Threads, Validate(t)
        PROVE  CycleInv'
    <2>0. pc[t] \in InCycle
      BY <1>3 DEF Validate, At, InCycle
    <2>1. CASE TransitionFails(t, "validating")
      BY <2>0, <2>1, RaiseLeaves DEF TransitionFails, durableVars, histVars
    <2>2. CASE GoTo(t, "decide") /\ UNCHANGED <<lock, last, obs, answer, executed, silent>>
      BY <2>0, <2>2, StaysInCycle DEF InCycle
    <2>3. CASE /\ last' = Decision("error", t) /\ GoTo(t, "end")
               /\ UNCHANGED <<lock, obs, answer, executed, silent>>
      BY <2>0, <2>3, StaysInCycle, Decisions DEF InCycle
    <2>4. CASE Raise(t) /\ UNCHANGED <<last, obs, answer, executed, silent>>
      BY <2>0, <2>4, RaiseLeaves
    <2>. QED  BY <1>3, <2>1, <2>2, <2>3, <2>4 DEF Validate
  <1>4. ASSUME NEW t \in Threads, Decide(t) \/ Enforce(t) \/ Act(t) \/ Observe(t)
        PROVE  CycleInv'
    BY <1>4, TransitionKeeps DEF Decide, Enforce, Act, Observe, InCycle
  <1>5. ASSUME NEW t \in Threads, Judge(t)
        PROVE  CycleInv'
    <2>1. PICK to \in {"act", "end"} : GoTo(t, to)
      BY <1>5 DEF Judge
    <2>2. last' \in Answers /\ silent' \in SUBSET Requests
      BY <1>5, Decisions DEF Judge, Silent
    <2>. QED  BY <1>5, <2>1, <2>2, StaysInCycle DEF Judge, At, InCycle, durableVars
  <1>6. ASSUME NEW t \in Threads, Execute(t)
        PROVE  CycleInv'
    <2>1. PICK to \in {"consume", "observe"} : GoTo(t, to)
      BY <1>6 DEF Execute
    <2>2. executed' \in [Traces -> Nat]
      BY <1>6 DEF Execute
    <2>. QED  BY <1>6, <2>1, <2>2, StaysInCycle DEF Execute, At, InCycle, durableVars, machineVars
  <1>8. ASSUME NEW t \in Threads, Explain(t)
        PROVE  CycleInv'
    <2>0. pc[t] \in InCycle
      BY <1>8 DEF Explain, At, InCycle
    <2>1. CASE TransitionFails(t, "explaining")
      BY <2>0, <2>1, RaiseLeaves DEF TransitionFails, durableVars, histVars
    <2>2. CASE /\ GoTo(t, "end") /\ UNCHANGED <<lock, obs, durableVars, answer, executed>>
               /\ last' \in Answers /\ silent' \in SUBSET Requests
      BY <2>0, <2>2, StaysInCycle DEF InCycle, durableVars
    <2>. QED  BY <1>8, <2>1, <2>2, Decisions DEF Explain, Silent
  <1>9. ASSUME NEW r \in Threads, EndRequest(r)
        PROVE  CycleInv'
    <2>1. lock = {r} /\ r \in Requests
      BY <1>9 DEF EndRequest, At, LockInv, InCycle, Threads
    <2>2. answer' \in [Requests -> Answers]
      BY <1>9, Decisions DEF EndRequest
    <2>. QED  BY <1>9, <2>1, <2>2 DEF EndRequest, GoTo, LockInv, InCycle, Outside,
              durableVars, histVars
  <1>10. CASE Sense
    <2>0. pc[Loop] \in InCycle /\ Loop \in Threads
      BY <1>10 DEF Sense, At, InCycle, Threads
    <2>1. CASE TransitionFails(Loop, "observing")
      BY <2>0, <2>1, RaiseLeaves DEF TransitionFails, durableVars, histVars
    <2>2. ASSUME NEW to \in {"validate", "end"}, GoTo(Loop, to),
                 obs' \in [Threads -> Traces \cup {NoTrace}],
                 UNCHANGED <<last, lock, durableVars, answer, histVars>>
          PROVE  CycleInv'
      BY <2>0, <2>2, StaysInCycle DEF InCycle, durableVars, histVars
    <2>. QED  BY <1>10, <2>1, <2>2 DEF Sense
  <1>11. CASE EndLoop
    <2>1. lock = {Loop}
      BY <1>11 DEF EndLoop, At, LockInv, InCycle, Threads
    <2>. QED  BY <1>11, <2>1 DEF EndLoop, GoTo, LockInv, InCycle, Outside, Threads,
              durableVars, histVars
  <1>12. CASE WakeUp \/ Shutdown \/ Stop \/ Save
    BY <1>12 DEF WakeUp, Shutdown, Stop, Save, At, GoTo, LockInv, InCycle, Outside,
       Threads, machineVars, durableVars, histVars
  <1>13. CASE Signal
    BY <1>13 DEF Signal, LockInv, durableVars, histVars
  <1>14. CASE Restart
    <2>1. answer' \in [Requests -> Answers]
      BY <1>14, Decisions DEF Restart
    <2>. QED  BY <1>14, <2>1, Decisions DEF Restart, LockInv, InCycle, Outside, durableVars
  <1>15. CASE UNCHANGED vars
    BY <1>15 DEF vars, machineVars, durableVars, histVars, LockInv
  <1>16. ASSUME NEW t \in Threads, Consume(t)
         PROVE  CycleInv'
    BY <1>16, StaysInCycle DEF Consume, At, InCycle, machineVars
  <1>17. ASSUME NEW w \in Elsewhere, StepElsewhere(w)
         PROVE  CycleInv'
    BY <1>17, LeftAlone DEF LockInv, ownVars, machineVars
  <1>. QED  BY <1>1, <1>2, <1>3, <1>4, <1>5, <1>6, <1>8, <1>9, <1>10, <1>11, <1>12,
            <1>13, <1>14, <1>15, <1>16, <1>17 DEF Next, Step, LoopStep

\* What consume leaves in the copy of p and in the file.
LEMMA KeepTypes ==
    ASSUME RegistryOK, NEW p \in Processes, NEW x, Keep(p, x) \/ KeepFails(p, x)
    PROVE  /\ copies' \in [Processes -> [loaded : BOOLEAN, set : SUBSET Traces]]
           /\ store' \in {Torn} \cup {Whole(S) : S \in SUBSET Traces}
  <1>1. \A q \in Processes : Held(q) \in SUBSET Traces
    BY DEF RegistryOK, Held, Torn, Whole
  <1>2. CASE Keep(p, x)
    <2>1. copies' = [copies EXCEPT ![p] = Loaded(Held(p) \cup ({x} \cap Traces))]
      BY <1>2 DEF Keep
    <2>2. Loaded(Held(p) \cup ({x} \cap Traces)) \in [loaded : BOOLEAN, set : SUBSET Traces]
      BY <1>1 DEF Loaded
    <2>3. \/ store' = Torn
          \/ \E q \in Processes : \E y : store' = Whole(Held(q) \cup (y \cap Traces))
      BY <1>2 DEF Keep
    <2>. QED  BY <1>1, <2>1, <2>2, <2>3 DEF RegistryOK
  <1>3. CASE KeepFails(p, x)
    BY <1>1, <1>3 DEF KeepFails, RegistryOK
  <1>. QED  BY <1>2, <1>3

\* Loading types a copy.
LEMMA LoadTypes ==
    ASSUME RegistryOK, NEW p \in Processes, Loads(p)
    PROVE  copies' \in [Processes -> [loaded : BOOLEAN, set : SUBSET Traces]]
BY DEF RegistryOK, Loads, Loaded, Held, Torn, Whole

LEMMA RegistryStep == RegistryOK /\ [Next]_vars => RegistryOK'
  <1>. SUFFICES ASSUME RegistryOK, [Next]_vars PROVE RegistryOK'
    OBVIOUS
  <1>0. Here \in Processes /\ Elsewhere \subseteq Processes
    BY DEF Processes
  <1>1. CASE UNCHANGED registryVars
    BY <1>1 DEF registryVars, RegistryOK
  <1>2. ASSUME NEW t \in Threads, Validate(t) PROVE RegistryOK'
    <2>1. CASE Loads(Here) /\ UNCHANGED <<store, away>>
      BY <1>0, <2>1, LoadTypes DEF RegistryOK
    <2>2. CASE UNCHANGED <<copies, store, away>>
      BY <2>2 DEF RegistryOK
    <2>. QED  BY <1>2, <2>1, <2>2 DEF Validate, TransitionFails, durableVars, registryVars
  <1>3. ASSUME NEW t \in Threads, Consume(t) PROVE RegistryOK'
    BY <1>0, <1>3, KeepTypes DEF Consume, RegistryOK
  <1>4. CASE Restart
    BY <1>4 DEF Restart, RegistryOK, NotLoaded
  <1>5. ASSUME NEW w \in Elsewhere, StepElsewhere(w) PROVE RegistryOK'
    <2>1. ASSUME NEW x \in Traces \cup {NoTrace}, AcceptElsewhere(w, x) PROVE RegistryOK'
      BY <1>0, <2>1, LoadTypes DEF AcceptElsewhere, RegistryOK
    <2>2. CASE EndElsewhere(w)
      BY <2>2 DEF EndElsewhere, RegistryOK, Resting
    <2>3. CASE ExecuteElsewhere(w)
      BY <2>3 DEF ExecuteElsewhere, RegistryOK
    <2>4. CASE ConsumeElsewhere(w)
      BY <1>0, <2>4, KeepTypes DEF ConsumeElsewhere, RegistryOK, Resting
    <2>5. CASE RestartElsewhere(w)
      BY <2>5 DEF RestartElsewhere, RegistryOK, Resting, NotLoaded
    <2>. QED  BY <1>5, <2>1, <2>2, <2>3, <2>4, <2>5 DEF StepElsewhere
  <1>6. ASSUME NEW t \in Threads, Acquire(t) \/ (Step(t) /\ ~Validate(t) /\ ~Consume(t))
        PROVE  UNCHANGED registryVars
    BY <1>6 DEF Acquire, Step, SenseRequest, Decide, Enforce, Judge, Act, Execute, Observe,
       Explain, EndRequest, Transition, TransitionFails, durableVars
  <1>7. CASE LoopStep \/ Signal \/ UNCHANGED vars
    BY <1>1, <1>7 DEF LoopStep, Sense, TransitionFails, EndLoop, WakeUp, Shutdown, Stop, Save, Signal,
       durableVars, vars
  <1>. QED  BY <1>1, <1>2, <1>3, <1>4, <1>5, <1>6, <1>7 DEF Next

LEMMA CycleInvAlways == Spec => []CycleInv
  <1>1. Init => CycleInv
    <2> SUFFICES ASSUME Init PROVE CycleInv
      OBVIOUS
    <2>0. PICK d \in Deployments : pc = [t \in Threads |-> IF t = Loop THEN "sleep"
                                      ELSE IF t \in d[1] THEN "wait" ELSE "done"]
      BY DEF Init
    <2>1. /\ pc \in [Threads -> InCycle \cup Outside]
          /\ \A t \in Threads : pc[t] \notin InCycle
      BY <2>0 DEF InCycle, Outside
    <2>2. LockInv
      BY <2>1 DEF Init, LockInv
    <2>3. /\ obs \in [Threads -> Traces \cup {NoTrace}]
          /\ answer \in [Requests -> Answers]
          /\ executed \in [Traces -> Nat]
          /\ last \in Answers
      BY Decisions DEF Init
    <2>4. ThreadsOK
      BY <2>1, <2>3 DEF Init, ThreadsOK
    <2>. QED  BY <2>2, <2>4 DEF CycleInv
  <1>. QED  BY <1>1, CycleInvStep, PTL DEF Spec

\* Every variable keeps its type: a thread in a cycle has the lock, wherever an
\* exception takes it.
THEOREM TypeCorrect == Spec => []TypeOK
  <1>1. Init => RegistryOK
    <2>. SUFFICES ASSUME Init PROVE RegistryOK
      OBVIOUS
    <2>1. PICK d \in Deployments :
              away = [w \in Elsewhere |-> IF w \in d[2] THEN Resting ELSE Absent]
      BY DEF Init
    <2>2. away \in [Elsewhere -> [at : {"rest", "absent", "act", "consume"},
                                 trace : Traces \cup {NoTrace}]]
      BY <2>1 DEF Resting, Absent
    <2>. QED  BY <2>2 DEF Init, RegistryOK, NotLoaded
  <1>2. CycleInv /\ RegistryOK => TypeOK
    BY DEF CycleInv, TypeOK
  <1>. QED  BY <1>1, <1>2, CycleInvAlways, RegistryStep, PTL DEF Spec

\* _loop_lock is with the one thread that is inside a cycle, and with nobody
\* else: cycles of run() and of handle_external_event exclude each other.
THEOREM CyclesExclude == Spec => []LockInv
  <1>1. CycleInv => LockInv
    BY DEF CycleInv
  <1>. QED  BY <1>1, CycleInvAlways, PTL

----------------------------------------------------------------------------
(* The machine between two cycles. *)

\* run() and handle_external_event leave the machine IDLE when the lock is free,
\* if the process started so and run() is not on its way out.
THEOREM CyclesEndIdle == Spec => []IdleBetweenCycles
  <1>1. Init => IdleBetweenCycles
    BY DEF Init, IdleBetweenCycles
  <1>2. ASSUME CycleInv, IdleBetweenCycles, [Next]_vars
        PROVE  IdleBetweenCycles'
    <2> USE DEF IdleBetweenCycles, CycleInv
    <2>1. ASSUME NEW t \in Threads, pc[t] \in InCycle, UNCHANGED <<lock>>
          PROVE  IdleBetweenCycles'
      BY <1>2, <2>1 DEF LockInv
    <2>2. ASSUME NEW t \in Threads, pc[t] \in InCycle, Raise(t)
          PROVE  IdleBetweenCycles'
      BY <1>2, <2>2 DEF Raise, LockInv, GoTo, ThreadsOK, Threads
    <2>3. ASSUME NEW t \in Threads, NEW from \in InCycle, NEW s, NEW to, Transition(t, from, s, to)
          PROVE  IdleBetweenCycles'
      BY <2>1, <2>2, <2>3 DEF Transition, TransitionFails, At
    <2>4. ASSUME NEW t \in Threads, Acquire(t)
          PROVE  IdleBetweenCycles'
      <3>1. CASE flag /\ t # Loop
        BY <1>2, <2>4, <3>1 DEF Acquire, GoTo, histVars, ThreadsOK, Threads
      <3>2. CASE ~(flag /\ t # Loop)
        BY <2>4, <3>2 DEF Acquire
      <3>. QED  BY <3>1, <3>2
    <2>5. ASSUME NEW t \in Threads, Step(t)
          PROVE  IdleBetweenCycles'
      <3>1. CASE Decide(t) \/ Enforce(t) \/ Act(t) \/ Observe(t)
        BY <2>3, <3>1 DEF Decide, Enforce, Act, Observe, InCycle
      <3>2. CASE SenseRequest(t) \/ Judge(t) \/ Execute(t) \/ Consume(t)
        BY <2>1, <3>2 DEF SenseRequest, Judge, Execute, Consume, At, InCycle, machineVars
      <3>3. CASE Validate(t) \/ Explain(t)
        BY <2>1, <2>2, <3>3 DEF Validate, Explain, TransitionFails, At, InCycle
      <3>4. CASE EndRequest(t)
        BY <3>4 DEF EndRequest
      <3>. QED  BY <2>5, <3>1, <3>2, <3>3, <3>4 DEF Step
    <2>6. CASE Sense
      BY <2>1, <2>2, <2>6 DEF Sense, TransitionFails, At, InCycle, Threads
    <2>7. CASE EndLoop \/ Restart
      BY <2>7 DEF EndLoop, Restart
    <2>8. CASE WakeUp \/ Shutdown \/ Stop \/ Save
      BY <1>2, <2>8 DEF WakeUp, Shutdown, Stop, Save, At, GoTo, ThreadsOK, Threads,
         machineVars, histVars
    <2>9. CASE Signal \/ UNCHANGED vars
      BY <1>2, <2>9 DEF Signal, vars, machineVars, histVars
    <2>10. ASSUME NEW w \in Elsewhere, StepElsewhere(w)
           PROVE  IdleBetweenCycles'
      BY <1>2, <2>10, LeftAlone DEF ownVars, machineVars
    <2>. QED  BY <1>2, <2>4, <2>5, <2>6, <2>7, <2>8, <2>9, <2>10 DEF Next, LoopStep
  <1>. QED  BY <1>1, <1>2, CycleInvAlways, PTL DEF Spec

----------------------------------------------------------------------------
(* What is executed. *)

\* Who has x in hand has not executed it, or consumes it; who executed it has
\* recorded it, or consumes it; and only one process has it in hand.
RunInv(x) ==
    /\ executed[x] <= 1
    /\ executed[x] # 0 => x \in store.set \/ \E p \in Processes : x \in Consuming(p)
    /\ \A p \in Processes : x \in InHand(p) /\ Consuming(p) = {} => executed[x] = 0
    /\ \A p, q \in Processes : x \in InHand(p) /\ x \in InHand(q) => p = q

TraceInv == \A x \in Traces \ (unconsumed \cup missed) : RunInv(x)

\* What the other processes have in hand stays.
OthersKeep(p) ==
    \A q \in Processes \ {p} : InHand(q)' = InHand(q) /\ Consuming(q)' = Consuming(q)

\* A process that lets go of its trace: nothing is lost unless it was consuming.
LEMMA LetsGo ==
    ASSUME TraceInv, NEW p \in Processes, OthersKeep(p), UNCHANGED <<executed, store, missed>>,
           InHand(p)' \cap Traces = {}, Consuming(p)' = {},
           unconsumed \subseteq unconsumed', Consuming(p) \cap Traces \subseteq unconsumed'
    PROVE  TraceInv'
  <1>. SUFFICES ASSUME NEW x \in Traces, x \notin unconsumed' \cup missed'
                PROVE  RunInv(x)'
    BY DEF TraceInv
  <1>1. RunInv(x) /\ x \notin Consuming(p)
    BY DEF TraceInv
  <1>. QED  BY <1>1 DEF RunInv, OthersKeep

\* Nothing happens to the traces in hand.
LEMMA HandsStay ==
    ASSUME TraceInv, NEW p \in Processes, OthersKeep(p),
           UNCHANGED <<executed, store, unconsumed>>, missed \subseteq missed',
           InHand(p)' = InHand(p), Consuming(p)' = Consuming(p)
    PROVE  TraceInv'
  <1>. SUFFICES ASSUME NEW x \in Traces, x \notin unconsumed' \cup missed'
                PROVE  RunInv(x)'
    BY DEF TraceInv
  <1>1. RunInv(x)
    BY DEF TraceInv
  <1>. QED  BY <1>1 DEF RunInv, OthersKeep

\* A trace that no process has in hand, and that the file does not name, has not
\* been executed.
LEMMA AcceptsFresh ==
    ASSUME TraceInv, NEW p \in Processes, NEW x, OthersKeep(p),
           missed \subseteq missed', x \in Traces => Accepts(p, x),
           UNCHANGED <<executed, store, unconsumed>>,
           InHand(p) \cap Traces = {}, Consuming(p) = {},
           InHand(p)' = {x}, Consuming(p)' = {},
           \A q \in Processes : Consuming(q) \subseteq InHand(q)
    PROVE  TraceInv'
  <1>. SUFFICES ASSUME NEW y \in Traces, y \notin unconsumed' \cup missed'
                PROVE  RunInv(y)'
    BY DEF TraceInv
  <1>1. RunInv(y)
    BY DEF TraceInv
  <1>2. CASE y # x
    BY <1>1, <1>2 DEF RunInv, OthersKeep
  <1>3. CASE y = x
    <2>1. y \notin store.set /\ \A q \in Processes \ {p} : y \notin InHand(q)
      BY <1>3 DEF Accepts
    <2>2. executed[y] = 0
      BY <1>1, <2>1 DEF RunInv
    <2>. QED  BY <1>1, <1>3, <2>1, <2>2 DEF RunInv, OthersKeep
  <1>. QED  BY <1>2, <1>3

\* The trace in hand is executed, and its consumption comes.
LEMMA ExecutesOnce ==
    ASSUME TraceInv, NEW p \in Processes, NEW x \in Traces \cup {NoTrace}, OthersKeep(p),
           executed \in [Traces -> Nat],
           executed' = [y \in Traces |-> IF y = x THEN executed[y] + 1 ELSE executed[y]],
           UNCHANGED <<store, unconsumed, missed>>,
           InHand(p) = {x}, Consuming(p) = {},
           InHand(p)' = {x}, Consuming(p)' = {x}
    PROVE  TraceInv'
  <1>. SUFFICES ASSUME NEW y \in Traces, y \notin unconsumed' \cup missed'
                PROVE  RunInv(y)'
    BY DEF TraceInv
  <1>1. RunInv(y)
    BY DEF TraceInv
  <1>2. CASE y # x
    BY <1>1, <1>2 DEF RunInv, OthersKeep
  <1>3. CASE y = x
    <2>1. executed[y] = 0 /\ executed'[y] = 1
      BY <1>1, <1>3 DEF RunInv
    <2>2. \A q \in Processes \ {p} : y \notin InHand(q)
      BY <1>1, <1>3 DEF RunInv
    <2>. QED  BY <1>1, <1>3, <2>1, <2>2 DEF RunInv, OthersKeep
  <1>. QED  BY <1>2, <1>3

\* The trace is recorded, or it counts as unconsumed; other records stay, or
\* count as missed.
LEMMA ConsumesOnce ==
    ASSUME TraceInv, RegistryOK, NEW p \in Processes, NEW x, OthersKeep(p), UNCHANGED executed,
           Keep(p, x) \/ KeepFails(p, x),
           InHand(p) = {x}, Consuming(p) = {x},
           InHand(p)' \cap Traces = {}, Consuming(p)' = {}
    PROVE  TraceInv'
  <1>. SUFFICES ASSUME NEW y \in Traces, y \notin unconsumed' \cup missed'
                PROVE  RunInv(y)'
    BY DEF TraceInv
  <1>1. RunInv(y)
    BY DEF TraceInv, Keep, KeepFails
  <1>2. y \in store.set \/ y = x => y \in store'.set
    <2>1. CASE Keep(p, x)
      BY <2>1 DEF Keep
    <2>2. CASE KeepFails(p, x)
      BY <2>2 DEF KeepFails, RegistryOK, Torn, Whole
    <2>. QED  BY <2>1, <2>2
  <1>. QED  BY <1>1, <1>2 DEF RunInv, OthersKeep

\* What this worker has in hand: the trace of the one thread in a cycle.
Holding == {"decide", "enforce", "judge", "act", "execute", "consume"}

\* A step of the one thread that is in a cycle.
LEMMA HereMoves ==
    ASSUME CycleInv, NEW t \in Threads, pc[t] \in InCycle,
           \A u \in Threads \ {t} : pc'[u] = pc[u], UNCHANGED away
    PROVE  /\ Here \in Processes /\ OthersKeep(Here)
           /\ InHand(Here) = (IF pc[t] \in Holding THEN {obs[t]} ELSE {})
           /\ Consuming(Here) = (IF pc[t] = "consume" THEN {obs[t]} ELSE {})
           /\ InHand(Here)' = (IF pc'[t] \in Holding THEN {obs'[t]} ELSE {})
           /\ Consuming(Here)' = (IF pc'[t] = "consume" THEN {obs'[t]} ELSE {})
  <1>1. \A u \in Threads \ {t} : pc[u] \notin Holding /\ pc'[u] \notin Holding
    BY DEF CycleInv, LockInv, ThreadsOK, InCycle, Holding
  <1>2. /\ InHand(Here) = {obs[v] : v \in {u \in Threads : pc[u] \in Holding}}
        /\ InHand(Here)' = {obs'[v] : v \in {u \in Threads : pc'[u] \in Holding}}
    BY DEF InHand, Holding
  <1>3. /\ Consuming(Here) = {obs[v] : v \in {u \in Threads : pc[u] = "consume"}}
        /\ Consuming(Here)' = {obs'[v] : v \in {u \in Threads : pc'[u] = "consume"}}
    BY DEF Consuming, At
  <1>4. Here \in Processes /\ OthersKeep(Here)
    BY DEF Processes, OthersKeep, InHand, Consuming
  <1>5. /\ InHand(Here) = (IF pc[t] \in Holding THEN {obs[t]} ELSE {})
        /\ Consuming(Here) = (IF pc[t] = "consume" THEN {obs[t]} ELSE {})
    <2>1. {u \in Threads : pc[u] \in Holding} = (IF pc[t] \in Holding THEN {t} ELSE {})
      BY <1>1
    <2>2. {u \in Threads : pc[u] = "consume"} = (IF pc[t] = "consume" THEN {t} ELSE {})
      BY <1>1 DEF Holding
    <2>. QED  BY <1>2, <1>3, <2>1, <2>2
  <1>6. /\ InHand(Here)' = (IF pc'[t] \in Holding THEN {obs'[t]} ELSE {})
        /\ Consuming(Here)' = (IF pc'[t] = "consume" THEN {obs'[t]} ELSE {})
    <2>1. {u \in Threads : pc'[u] \in Holding} = (IF pc'[t] \in Holding THEN {t} ELSE {})
      BY <1>1
    <2>2. {u \in Threads : pc'[u] = "consume"} = (IF pc'[t] = "consume" THEN {t} ELSE {})
      BY <1>1 DEF Holding
    <2>. QED  BY <1>2, <1>3, <2>1, <2>2
  <1>. QED  BY <1>4, <1>5, <1>6

\* Threads that move outside the part of the cycle in which a trace is in hand.
LEMMA QuietStep ==
    ASSUME TraceInv, UNCHANGED <<away, executed, store, unconsumed, missed>>,
           \A u \in Threads : \/ pc'[u] = pc[u] /\ obs'[u] = obs[u]
                              \/ pc[u] \notin Holding /\ pc'[u] \notin Holding
    PROVE  TraceInv'
  <1>1. /\ InHand(Here) = {obs[v] : v \in {u \in Threads : pc[u] \in Holding}}
        /\ InHand(Here)' = {obs'[v] : v \in {u \in Threads : pc'[u] \in Holding}}
        /\ Consuming(Here) = {obs[v] : v \in {u \in Threads : pc[u] = "consume"}}
        /\ Consuming(Here)' = {obs'[v] : v \in {u \in Threads : pc'[u] = "consume"}}
    BY DEF InHand, Consuming, At, Holding
  <1>2. InHand(Here)' = InHand(Here) /\ Consuming(Here)' = Consuming(Here)
    BY <1>1 DEF Holding
  <1>3. Here \in Processes /\ OthersKeep(Here)
    BY DEF Processes, OthersKeep, InHand, Consuming
  <1>. QED  BY <1>2, <1>3, HandsStay

\* The thread in a cycle keeps its trace in hand, or lets go of it.
LEMMA QuietMove ==
    ASSUME CycleInv, TraceInv, NEW t \in Threads, pc[t] \in InCycle \ {"consume"},
           \A u \in Threads \ {t} : pc'[u] = pc[u],
           UNCHANGED <<away, executed, store, unconsumed, missed>>,
           pc'[t] \notin Holding \/ (pc[t] \in Holding /\ pc'[t] # "consume" /\ obs'[t] = obs[t])
    PROVE  TraceInv'
  <1>1. /\ Here \in Processes /\ OthersKeep(Here) /\ Consuming(Here) = {} /\ Consuming(Here)' = {}
        /\ InHand(Here) = (IF pc[t] \in Holding THEN {obs[t]} ELSE {})
        /\ InHand(Here)' = (IF pc'[t] \in Holding THEN {obs'[t]} ELSE {})
    BY HereMoves DEF Holding
  <1>2. CASE pc'[t] \notin Holding
    BY <1>1, <1>2, LetsGo
  <1>3. CASE pc[t] \in Holding /\ pc'[t] \in Holding /\ obs'[t] = obs[t]
    BY <1>1, <1>3, HandsStay
  <1>. QED  BY <1>2, <1>3

LEMMA QuietTransition ==
    ASSUME CycleInv, TraceInv, NEW t \in Threads, NEW from \in InCycle \ {"consume"}, NEW s,
           NEW to \in InCycle \ {"consume"}, to \in Holding => from \in Holding,
           Transition(t, from, s, to)
    PROVE  TraceInv'
  <1>1. CASE TransitionFails(t, s)
    BY <1>1, RaiseLeaves, QuietMove
    DEF Transition, TransitionFails, At, Holding, durableVars, registryVars, histVars
  <1>2. CASE GoTo(t, to) /\ UNCHANGED <<lock, obs, durableVars, histVars>>
    BY <1>2, StaysInCycle, QuietMove DEF Transition, At, durableVars, registryVars, histVars
  <1>. QED  BY <1>1, <1>2 DEF Transition

\* What this worker does, but for the steps at which it takes or leaves a trace.
LEMMA RuntimeQuiet ==
    ASSUME CycleInv, TraceInv,
           \/ \E t \in Threads : \/ Acquire(t) \/ SenseRequest(t) \/ Decide(t) \/ Enforce(t)
                                 \/ Judge(t) \/ Act(t) \/ Observe(t) \/ Explain(t)
                                 \/ EndRequest(t)
           \/ LoopStep \/ Signal \/ UNCHANGED vars
    PROVE  TraceInv'
  <1>0. /\ pc \in [Threads -> InCycle \cup Outside]
        /\ \A t \in Threads : t \in lock <=> pc[t] \in InCycle
        /\ Loop \in Threads /\ obs \in [Threads -> Traces \cup {NoTrace}]
    BY DEF CycleInv, ThreadsOK, LockInv, Threads
  <1>1. ASSUME NEW t \in Threads, Acquire(t) \/ SenseRequest(t) \/ EndRequest(t)
        PROVE  TraceInv'
    BY <1>0, <1>1, QuietStep DEF Acquire, SenseRequest, EndRequest, GoTo, At, Holding,
       durableVars, registryVars, histVars
  <1>2. ASSUME NEW t \in Threads, Decide(t) \/ Enforce(t) \/ Act(t) \/ Observe(t)
        PROVE  TraceInv'
    BY <1>2, QuietTransition DEF Decide, Enforce, Act, Observe, InCycle, Holding
  <1>3. ASSUME NEW t \in Threads, Judge(t)
        PROVE  TraceInv'
    BY <1>0, <1>3, QuietMove DEF Judge, GoTo, At, Holding, InCycle, durableVars, registryVars
  <1>4. ASSUME NEW t \in Threads, Explain(t)
        PROVE  TraceInv'
    <2>0. pc[t] \in InCycle \ {"consume"}
          /\ UNCHANGED <<obs, away, store, executed, unconsumed, missed>>
      BY <1>4 DEF Explain, At, InCycle, TransitionFails, durableVars, registryVars, histVars
    <2>1. CASE GoTo(t, "end") \/ Raise(t)
      BY <1>0, <2>0, <2>1, QuietMove, RaiseLeaves DEF GoTo, Holding, InCycle
    <2>. QED  BY <1>4, <2>1 DEF Explain, TransitionFails
  <1>5. CASE Sense
    <2>0. pc[Loop] = "sense" /\ UNCHANGED <<away, store, executed, unconsumed, missed>>
      BY <1>5 DEF Sense, At, TransitionFails, durableVars, registryVars, histVars
    <2>1. CASE GoTo(Loop, "validate") \/ GoTo(Loop, "end") \/ Raise(Loop)
      BY <1>0, <2>0, <2>1, QuietMove, RaiseLeaves DEF GoTo, Holding, InCycle
    <2>. QED  BY <1>5, <2>1 DEF Sense, TransitionFails
  <1>6. CASE EndLoop \/ WakeUp \/ Shutdown \/ Stop \/ Save \/ Signal
    BY <1>0, <1>6, QuietStep DEF EndLoop, WakeUp, Shutdown, Stop, Save, Signal, GoTo, At, Holding,
       machineVars, durableVars, registryVars, histVars
  <1>7. CASE UNCHANGED vars
    BY <1>7, QuietStep DEF vars, durableVars, registryVars, histVars
  <1>. QED  BY <1>1, <1>2, <1>3, <1>4, <1>5, <1>6, <1>7 DEF LoopStep

\* The steps of another worker.
LEMMA ElsewhereKeeps ==
    ASSUME CycleInv, RegistryOK, TraceInv, NEW w \in Elsewhere, StepElsewhere(w)
    PROVE  TraceInv'
  <1>0. /\ w \in Processes /\ w # Here /\ away \in [Elsewhere -> [at : {"rest", "absent", "act", "consume"},
                                                     trace : Traces \cup {NoTrace}]]
        /\ \A q \in Processes : Consuming(q) \subseteq InHand(q)
        /\ executed \in [Traces -> Nat]
    BY DEF Here, Processes, RegistryOK, Consuming, InHand, CycleInv, ThreadsOK, At
  <1>1. ASSUME NEW at, NEW x, away' = [away EXCEPT ![w] = [at |-> at, trace |-> x]]
        PROVE  /\ OthersKeep(w)
               /\ InHand(w) = {away[w].trace} /\ InHand(w)' = {x}
               /\ Consuming(w) = (IF away[w].at = "consume" THEN {away[w].trace} ELSE {})
               /\ Consuming(w)' = (IF at = "consume" THEN {x} ELSE {})
    <2>1. UNCHANGED <<pc, obs>>
      BY LeftAlone DEF ownVars
    <2>2. /\ away'[w] = [at |-> at, trace |-> x]
          /\ \A q \in Processes \ {w} : q # Here => away'[q] = away[q]
      BY <1>0, <1>1 DEF Processes
    <2>3. InHand(Here)' = InHand(Here) /\ Consuming(Here)' = Consuming(Here)
      BY <2>1 DEF InHand, Consuming, At
    <2>4. \A q \in Processes \ {w} : q # Here =>
             InHand(q)' = InHand(q) /\ Consuming(q)' = Consuming(q)
      BY <2>2 DEF InHand, Consuming
    <2>5. OthersKeep(w)
      BY <2>3, <2>4 DEF OthersKeep
    <2>. QED  BY <1>0, <2>2, <2>5 DEF InHand, Consuming
  <1>9. ASSUME away' = [away EXCEPT ![w] = Resting]
        PROVE  OthersKeep(w) /\ InHand(w)' = {NoTrace} /\ Consuming(w)' = {}
    <2>1. away' = [away EXCEPT ![w] = [at |-> "rest", trace |-> NoTrace]]
      BY <1>9 DEF Resting
    <2>2. /\ OthersKeep(w) /\ InHand(w)' = {NoTrace}
          /\ Consuming(w)' = (IF "rest" = "consume" THEN {NoTrace} ELSE {})
      BY <1>1, <2>1
    <2>. QED  BY <2>2
  <1>10. /\ InHand(w) = {away[w].trace}
         /\ Consuming(w) = (IF away[w].at = "consume" THEN {away[w].trace} ELSE {})
    BY <1>0 DEF InHand, Consuming
  <1>2. ASSUME NEW x \in Traces \cup {NoTrace}, AcceptElsewhere(w, x)
        PROVE  TraceInv'
    <2>1. /\ OthersKeep(w) /\ InHand(w)' = {x}
          /\ Consuming(w)' = (IF "act" = "consume" THEN {x} ELSE {})
      BY <1>1, <1>2 DEF AcceptElsewhere
    <2>2. InHand(w) = {NoTrace} /\ Consuming(w) = {}
      BY <1>10, <1>2 DEF AcceptElsewhere, Resting
    <2>3. Accepts(w, x) /\ missed \subseteq missed' /\ UNCHANGED <<executed, store, unconsumed>>
      BY <1>2 DEF AcceptElsewhere, Accepts
    <2>. QED  BY <1>0, <2>1, <2>2, <2>3, AcceptsFresh
  <1>3. CASE EndElsewhere(w)
    <2>1. OthersKeep(w) /\ InHand(w)' = {NoTrace} /\ Consuming(w) = {} /\ Consuming(w)' = {}
      BY <1>3, <1>9, <1>10 DEF EndElsewhere
    <2>. QED  BY <1>0, <1>3, <2>1, LetsGo DEF EndElsewhere
  <1>4. CASE ExecuteElsewhere(w)
    <2>1. away' = [away EXCEPT ![w] = [at |-> "consume", trace |-> away[w].trace]]
      BY <1>4 DEF ExecuteElsewhere
    <2>2. /\ OthersKeep(w) /\ InHand(w) = {away[w].trace} /\ InHand(w)' = {away[w].trace}
          /\ Consuming(w) = {} /\ Consuming(w)' = {away[w].trace}
      <3>1. Consuming(w)' = (IF "consume" = "consume" THEN {away[w].trace} ELSE {})
        BY <1>1, <2>1
      <3>2. OthersKeep(w) /\ InHand(w)' = {away[w].trace}
        BY <1>1, <2>1
      <3>. QED  BY <1>4, <1>10, <3>1, <3>2 DEF ExecuteElsewhere
    <2>3. away[w].trace \in Traces \cup {NoTrace}
      BY <1>0
    <2>. QED  BY <1>0, <1>4, <2>2, <2>3, ExecutesOnce DEF ExecuteElsewhere
  <1>5. CASE ConsumeElsewhere(w)
    <2>1. /\ OthersKeep(w) /\ InHand(w) = {away[w].trace} /\ InHand(w)' = {NoTrace}
          /\ Consuming(w) = {away[w].trace} /\ Consuming(w)' = {}
      BY <1>5, <1>9, <1>10 DEF ConsumeElsewhere
    <2>. QED  BY <1>0, <1>5, <2>1, ConsumesOnce DEF ConsumeElsewhere
  <1>6. CASE RestartElsewhere(w)
    <2>1. OthersKeep(w) /\ InHand(w)' = {NoTrace} /\ Consuming(w)' = {}
      BY <1>6, <1>9 DEF RestartElsewhere
    <2>. QED  BY <1>0, <1>6, <2>1, LetsGo DEF RestartElsewhere
  <1>. QED  BY <1>2, <1>3, <1>4, <1>5, <1>6 DEF StepElsewhere

LEMMA TraceInvStep == CycleInv /\ RegistryOK /\ TraceInv /\ [Next]_vars => TraceInv'
  <1> SUFFICES ASSUME CycleInv, RegistryOK, TraceInv, [Next]_vars
               PROVE  TraceInv'
    OBVIOUS
  <1>0. /\ pc \in [Threads -> InCycle \cup Outside]
        /\ obs \in [Threads -> Traces \cup {NoTrace}]
        /\ executed \in [Traces -> Nat]
        /\ \A q \in Processes : Consuming(q) \subseteq InHand(q)
    BY DEF CycleInv, ThreadsOK, Consuming, InHand, At
  <1>1. ASSUME NEW t \in Threads, Validate(t)
        PROVE  TraceInv'
    <2>0. pc[t] \in InCycle \ {"consume"} /\ pc[t] = "validate"
          /\ UNCHANGED <<obs, away, store, executed, unconsumed>>
      BY <1>1 DEF Validate, At, InCycle, TransitionFails, durableVars, registryVars, histVars
    <2>1. CASE GoTo(t, "decide") /\ missed \subseteq missed'
               /\ (obs[t] \in Traces => Accepts(Here, obs[t]))
      <3>1. pc'[t] = "decide" /\ \A u \in Threads \ {t} : pc'[u] = pc[u]
        BY <1>0, <2>1 DEF GoTo
      <3>2. /\ Here \in Processes /\ OthersKeep(Here) /\ InHand(Here) = {} /\ Consuming(Here) = {}
            /\ InHand(Here)' = {obs[t]} /\ Consuming(Here)' = {}
        BY <2>0, <3>1, HereMoves DEF Holding
      <3>. QED  BY <1>0, <2>0, <2>1, <3>2, AcceptsFresh
    <2>2. CASE (GoTo(t, "end") \/ Raise(t)) /\ UNCHANGED missed
      BY <1>0, <2>0, <2>2, QuietMove, RaiseLeaves DEF GoTo, Holding, InCycle
    <2>. QED  BY <1>1, <2>1, <2>2 DEF Validate, TransitionFails, Accepts, histVars
  <1>2. ASSUME NEW t \in Threads, Execute(t)
        PROVE  TraceInv'
    <2>0. pc[t] = "execute" /\ UNCHANGED <<obs, away, store, unconsumed, missed>>
      BY <1>2 DEF Execute, At, durableVars, registryVars
    <2>1. CASE GoTo(t, "observe") /\ UNCHANGED executed
      BY <1>0, <2>0, <2>1, QuietMove DEF GoTo, Holding, InCycle
    <2>2. CASE /\ obs[t] # NoTrace /\ GoTo(t, "consume")
               /\ executed' = [executed EXCEPT ![obs[t]] = @ + 1]
      <3>1. pc'[t] = "consume" /\ \A u \in Threads \ {t} : pc'[u] = pc[u]
        BY <1>0, <2>2 DEF GoTo
      <3>2. /\ Here \in Processes /\ OthersKeep(Here) /\ InHand(Here) = {obs[t]}
            /\ Consuming(Here) = {} /\ InHand(Here)' = {obs[t]} /\ Consuming(Here)' = {obs[t]}
        BY <2>0, <3>1, HereMoves DEF Holding, InCycle
      <3>3. /\ obs[t] \in Traces
            /\ executed' = [y \in Traces |-> IF y = obs[t] THEN executed[y] + 1 ELSE executed[y]]
        BY <1>0, <2>2
      <3>. QED  BY <1>0, <2>0, <3>2, <3>3, ExecutesOnce
    <2>. QED  BY <1>2, <2>1, <2>2 DEF Execute
  <1>3. ASSUME NEW t \in Threads, Consume(t)
        PROVE  TraceInv'
    <2>0. pc[t] = "consume" /\ UNCHANGED <<obs, away, executed>>
      BY <1>3 DEF Consume, At
    <2>1. pc'[t] = "observe" /\ \A u \in Threads \ {t} : pc'[u] = pc[u]
      BY <1>0, <1>3 DEF Consume, GoTo
    <2>2. /\ Here \in Processes /\ OthersKeep(Here) /\ InHand(Here) = {obs[t]}
          /\ Consuming(Here) = {obs[t]} /\ InHand(Here)' = {} /\ Consuming(Here)' = {}
      BY <2>0, <2>1, HereMoves DEF Holding, InCycle
    <2>. QED  BY <1>3, <2>0, <2>2, ConsumesOnce DEF Consume
  <1>4. CASE Restart
    <2>1. \A u \in Threads : pc'[u] \notin Holding
      BY <1>4 DEF Restart, Holding
    <2>2. InHand(Here)' = {} /\ Consuming(Here)' = {}
      BY <2>1 DEF InHand, Consuming, At, Holding
    <2>3. Here \in Processes /\ OthersKeep(Here)
      BY <1>4 DEF Restart, Processes, OthersKeep, InHand, Consuming
    <2>. QED  BY <1>4, <2>2, <2>3, LetsGo DEF Restart
  <1>5. ASSUME NEW w \in Elsewhere, StepElsewhere(w)
        PROVE  TraceInv'
    BY <1>5, ElsewhereKeeps
  <1>. QED  BY <1>1, <1>2, <1>3, <1>4, <1>5, RuntimeQuiet DEF Next, Step

\* A trace is executed once, unless its consumption failed or a process died
\* before it, or a worker could not see what another one recorded or had in hand.
THEOREM TracesRunOnce == Spec => []OnlyUnconsumedTracesRepeat
  <1>1. Init => TraceInv
    <2>. SUFFICES ASSUME Init PROVE TraceInv
      OBVIOUS
    <2>1. PICK d \in Deployments :
              /\ pc = [t \in Threads |-> IF t = Loop THEN "sleep"
                                         ELSE IF t \in d[1] THEN "wait" ELSE "done"]
              /\ away = [w \in Elsewhere |-> IF w \in d[2] THEN Resting ELSE Absent]
      BY DEF Init
    <2>2. InHand(Here) = {}
      BY <2>1 DEF InHand
    <2>3. \A w \in Elsewhere : InHand(w) \cap Traces = {}
      BY <2>1 DEF InHand, Here, Resting, Absent
    <2>4. \A p \in Processes : InHand(p) \cap Traces = {}
      BY <2>2, <2>3 DEF Processes
    <2>5. \A x \in Traces : executed[x] = 0
      BY DEF Init
    <2>. QED  BY <2>4, <2>5 DEF TraceInv, RunInv
  <1>2. TraceInv => OnlyUnconsumedTracesRepeat
    BY DEF TraceInv, RunInv, OnlyUnconsumedTracesRepeat
  <1>3. TypeOK => RegistryOK
    BY DEF TypeOK
  <1>. QED  BY <1>1, <1>2, <1>3, TraceInvStep, CycleInvAlways, TypeCorrect, PTL DEF Spec

----------------------------------------------------------------------------
(* What the callers get. *)

\* A request that ends its cycle finds its own decision, unless its cycle left
\* none.
DecisionInv == \A r \in Requests \ silent : pc[r] = "end" => last.of = r

AnswerInv == DecisionInv /\ OnlySilentCyclesAnswerStale

\* A step that answers nobody, forgets nothing silent, and ends no request's
\* cycle without a decision.
LEMMA NoAnswer ==
    ASSUME AnswerInv, UNCHANGED answer, silent \subseteq silent',
           \A r \in Requests \ silent' : pc'[r] = "end" =>
               \/ pc[r] = "end" /\ last' = last
               \/ last'.of = r
    PROVE  AnswerInv'
  BY DEF AnswerInv, DecisionInv, OnlySilentCyclesAnswerStale

LEMMA AnswerInvStep == CycleInv /\ AnswerInv /\ [Next]_vars => AnswerInv'
  <1> SUFFICES ASSUME CycleInv, AnswerInv, [Next]_vars
               PROVE  AnswerInv'
    OBVIOUS
  <1>0. /\ pc \in [Threads -> InCycle \cup Outside]
        /\ lock \in SUBSET Threads
        /\ \A t \in Threads : t \in lock <=> pc[t] \in InCycle
        /\ \A t, u \in lock : t = u
        /\ answer \in [Requests -> Answers]
        /\ Requests \subseteq Threads
        /\ Loop \in Threads \ Requests
    BY DEF CycleInv, ThreadsOK, LockInv, Threads
  <1>1. ASSUME NEW t \in Threads, Acquire(t)
        PROVE  AnswerInv'
    <2>1. /\ \A r \in Requests : pc'[r] = "end" => pc[r] = "end"
          /\ UNCHANGED <<last, silent>>
      BY <1>0, <1>1 DEF Acquire, GoTo, histVars
    <2>2. CASE flag /\ t # Loop
      BY <1>0, <1>1, <2>1, <2>2 DEF Acquire, AnswerInv, DecisionInv,
         OnlySilentCyclesAnswerStale, Failed
    <2>3. CASE ~(flag /\ t # Loop)
      BY <1>1, <2>1, <2>3, NoAnswer DEF Acquire
    <2>. QED  BY <2>2, <2>3
  <1>2. ASSUME NEW t \in Threads, pc[t] \in InCycle, Raise(t),
               UNCHANGED <<answer, silent, last>>
        PROVE  AnswerInv'
    <2>1. \A r \in Requests : pc'[r] = "end" => pc[r] = "end"
      BY <1>0, <1>2, RaiseLeaves
    <2>. QED  BY <1>2, <2>1, NoAnswer
  <1>3. ASSUME NEW t \in Threads, NEW to, GoTo(t, to), UNCHANGED <<answer, silent, last>>,
               to # "end"
        PROVE  AnswerInv'
    BY <1>0, <1>3, NoAnswer DEF GoTo
  <1>4. ASSUME NEW t \in Threads, pc[t] \in InCycle, GoTo(t, "end"),
               UNCHANGED answer, silent \subseteq silent',
               t \in silent' \cup {Loop} \/ last'.of = t
        PROVE  AnswerInv'
    <2>1. \A u \in Threads \ {t} : pc'[u] # "end"
      BY <1>0, <1>4 DEF GoTo, InCycle
    <2>. QED  BY <1>0, <1>4, <2>1, NoAnswer
  <1>5. ASSUME NEW t \in Threads, NEW from \in InCycle, NEW s, NEW to, to # "end",
               Transition(t, from, s, to)
        PROVE  AnswerInv'
    BY <1>2, <1>3, <1>5 DEF Transition, TransitionFails, At, histVars
  <1>6. ASSUME NEW t \in Threads, Decide(t) \/ Enforce(t) \/ Act(t) \/ Observe(t)
        PROVE  AnswerInv'
    BY <1>5, <1>6 DEF Decide, Enforce, Act, Observe, InCycle
  <1>7. ASSUME NEW t \in Threads, Validate(t)
        PROVE  AnswerInv'
    BY <1>2, <1>3, <1>4, <1>7 DEF Validate, TransitionFails, Decision, At, InCycle, histVars
  <1>8. ASSUME NEW t \in Threads, Judge(t)
        PROVE  AnswerInv'
    <2>1. CASE GoTo(t, "act") /\ UNCHANGED <<last, silent>>
      BY <1>3, <1>8, <2>1 DEF Judge
    <2>2. CASE GoTo(t, "end") /\ last' = Decision("noop", t) /\ UNCHANGED silent
      BY <1>4, <1>8, <2>2 DEF Judge, Decision, At, InCycle
    <2>3. CASE GoTo(t, "end") /\ Silent(t)
      BY <1>4, <1>8, <2>3 DEF Judge, Silent, Threads, At, InCycle
    <2>. QED  BY <1>8, <2>1, <2>2, <2>3 DEF Judge
  <1>9. ASSUME NEW t \in Threads, Execute(t) \/ Consume(t) \/ SenseRequest(t)
        PROVE  AnswerInv'
    BY <1>3, <1>9 DEF Execute, Consume, SenseRequest, machineVars, histVars
  <1>10. ASSUME NEW t \in Threads, Explain(t)
         PROVE  AnswerInv'
    BY <1>2, <1>4, <1>10 DEF Explain, TransitionFails, Decision, Silent, Threads, At, InCycle, histVars
  <1>11. ASSUME NEW r \in Threads, EndRequest(r)
         PROVE  AnswerInv'
    <2>1. \A u \in Requests : pc'[u] = "end" => pc[u] = "end"
      BY <1>0, <1>11 DEF EndRequest, GoTo
    <2>2. r \in Requests \ silent /\ pc[r] = "end" => last.of = r
      BY DEF AnswerInv, DecisionInv
    <2>3. answer'[r] \in {Failed, last} /\ (pc[r] # "end" => answer'[r] = Failed)
      BY <1>0, <1>11 DEF EndRequest, At, Threads
    <2>. QED  BY <1>0, <1>11, <2>1, <2>2, <2>3 DEF EndRequest, AnswerInv, DecisionInv,
              OnlySilentCyclesAnswerStale, Failed, histVars
  <1>12. CASE Sense
    <2>1. CASE GoTo(Loop, "end") /\ UNCHANGED <<answer, silent>>
      BY <1>0, <1>4, <1>12, <2>1 DEF Sense, At, InCycle
    <2>. QED  BY <1>0, <1>2, <1>3, <1>12, <2>1 DEF Sense, TransitionFails, At, InCycle, histVars
  <1>13. CASE EndLoop \/ WakeUp \/ Shutdown \/ Stop \/ Save
    BY <1>0, <1>3, <1>13 DEF EndLoop, WakeUp, Shutdown, Stop, Save, machineVars, histVars
  <1>14. CASE Restart
    BY <1>0, <1>14 DEF Restart, AnswerInv, DecisionInv, OnlySilentCyclesAnswerStale, Failed
  <1>15. CASE Signal \/ UNCHANGED vars
    BY <1>15, NoAnswer DEF Signal, vars, machineVars, histVars
  <1>16. ASSUME NEW w \in Elsewhere, StepElsewhere(w)
         PROVE  AnswerInv'
    BY <1>16, LeftAlone, NoAnswer DEF ownVars, machineVars
  <1>. QED  BY <1>1, <1>6, <1>7, <1>8, <1>9, <1>10, <1>11, <1>12, <1>13, <1>14, <1>15, <1>16
            DEF Next, Step, LoopStep

\* A caller gets the decision of its own event, or a failure; only if the cycle
\* of its event left no decision can it be that of an earlier event.
THEOREM AnswersAreOwn == Spec => []OnlySilentCyclesAnswerStale
  <1>1. Init => AnswerInv
    BY DEF Init, AnswerInv, DecisionInv, OnlySilentCyclesAnswerStale, Nobody, Threads
  <1>2. AnswerInv => OnlySilentCyclesAnswerStale
    BY DEF AnswerInv
  <1>. QED  BY <1>1, <1>2, AnswerInvStep, CycleInvAlways, PTL DEF Spec

----------------------------------------------------------------------------
(* The parts together. *)

LEMMA PartsStart ==
    AgentsInit =>
        /\ Init
        /\ machine = "memory" => Memory!MemoryInit
        /\ machine = "senses" => Senses!SensesInit
        /\ machine = "observer" => Observer!ObserverInit
        /\ machine = "mail" => Post!MailInit
BY DEF AgentsInit

LEMMA PartsStep ==
    [AgentsNext]_allVars =>
        /\ UNCHANGED machine
        /\ [Next]_vars
        /\ machine = "memory" => [Memory!MemoryNext]_agentMemoryVars
        /\ machine = "senses" => [Senses!SensesNext]_agentSensesVars
        /\ machine = "observer" => [Observer!ObserverNext]_serverVars
        /\ machine = "mail" => [Post!MailNext]_mailVars
BY DEF AgentsNext, allVars

\* The theorems about the runtime are about the agent beside the others too.
LEMMA RuntimeRuns == AgentsSpec => Spec
BY PartsStart, PartsStep, PTL DEF AgentsSpec, Spec

\* A running agent remembers the newest decisions of all its lives, of as many
\* as fit, but for those that an end which was not orderly took.
THEOREM DecisionsRemembered == AgentsSpec => []OnlyDisorderForgets
<1>. DEFINE Inv == machine = "memory" => MemoryInv
<1>1. AgentsInit => Inv
  BY PartsStart, MemoryInvInit
<1>2. Inv /\ [AgentsNext]_allVars => Inv'
  BY PartsStep, MemoryInvStep
<1>3. Inv => OnlyDisorderForgets
  BY MemoryInvShows DEF OnlyDisorderForgets
<1>. QED  BY <1>1, <1>2, <1>3, PTL DEF AgentsSpec

\* A status in the timeline was emitted to every sink, and again only for a bad
\* start; the status the observer shows of a service is the one its newest probe
\* recorded.
THEOREM StatusesMatch == AgentsSpec => []StatusesMatchEvents
<1>. DEFINE Inv == /\ machine = "senses" => SensesInv
                   /\ machine = "observer" => ObserverInv
<1>1. AgentsInit => Inv
  BY PartsStart, SensesInvInit, ObserverInvInit
<1>2. Inv /\ [AgentsNext]_allVars => Inv'
  BY PartsStep, SensesInvStep, ObserverInvStep
<1>3. Inv => StatusesMatchEvents
  BY SensesInvShows, ObserverInvShows DEF StatusesMatchEvents
<1>. QED  BY <1>1, <1>2, <1>3, PTL DEF AgentsSpec

\* Mail stays in its file, a letter is published once and a note at most once,
\* unless changes of a file overlapped, somebody died between two steps, or a
\* run of the bridge or a check of the adapter broke off.
THEOREM MailHandled == AgentsSpec => []OnlyCausesMishandleMail
<1>. DEFINE Inv == machine = "mail" => MailInv
<1>1. AgentsInit => Inv
  BY PartsStart, MailInvInit
<1>2. Inv /\ [AgentsNext]_allVars => Inv'
  BY PartsStep, MailInvStep
<1>3. Inv => OnlyCausesMishandleMail
  BY MailInvShows DEF OnlyCausesMishandleMail
<1>. QED  BY <1>1, <1>2, <1>3, PTL DEF AgentsSpec
=============================================================================
