-------------------------- MODULE DecisionsProofs ---------------------------
(***************************************************************************)
(* Proofs about what decides whether an action is taken (MCDecisions), for *)
(* any number of evaluations, applications, policies and executions and    *)
(* any bounds.  The parts share no state, so each is proved alone, with an *)
(* invariant of its own, and the last section puts them together.          *)
(***************************************************************************)
EXTENDS MCDecisions, FiniteSetTheorems, SequenceTheorems, TLAPS

----------------------------------------------------------------------------
(* ActionGovernance: the invariants.                                       *)

RecordType == [action : Actions, at : Nat \ {0}]
Histories == {h \in Seq(RecordType) : Len(h) <= HistoryLength}
StateType == [last : [Actions -> Nat], history : Histories]
FileType == [kind : {"absent", "torn", "json"}, state : StateType]
EvalType == [pc : {"cooldown", "repetition", "admit", "open", "dump"},
             kind : Kinds, action : Actions, began : Nat \ {0}, stamp : Nat,
             mem : StateType]

GovernanceTypeOK ==
    /\ now \in Nat \ {0}
    /\ file \in FileType
    /\ eval \in [Evaluations -> EvalType \cup {Idle}]
    /\ \A e \in Evaluations : eval[e].pc \in {"open", "dump"} => eval[e].stamp # 0
    /\ granted \in Seq(RecordType)
    /\ causes \subseteq {"overlap", "torn", "unsaved", "evicted"}
    /\ troubles \in Nat

\* A state in which every admission of g is on cooldown as long as it should.
Covers(s, g) == \A i \in 1..Len(g) : g[i].at <= s.last[g[i].action]

\* The admission that an evaluation is about to report, and all up to it.
Reported(e) == Append(granted, [action |-> eval[e].action, at |-> eval[e].stamp])

\* No evaluation overlaps another, none began before an admission, and it
\* passed the cooldown check against all of them.
Kept == causes \cap {"overlap", "torn", "unsaved"} = {}

Solo == \A d, e \in Evaluations : eval[d] # Idle /\ eval[e] # Idle => d = e

TimesOrdered ==
    /\ \A i, j \in 1..Len(granted) : i <= j => granted[i].at <= granted[j].at
    /\ \A i \in 1..Len(granted) : granted[i].at <= now
    /\ \A e \in Evaluations : eval[e] # Idle =>
          /\ eval[e].began <= now
          /\ \A i \in 1..Len(granted) : granted[i].at <= eval[e].began
          /\ eval[e].pc \in {"open", "dump"} => eval[e].stamp \in eval[e].began..now

CooledDown ==
    \A e \in Evaluations, i \in 1..Len(granted) :
        /\ eval[e] # Idle /\ eval[e].pc # "cooldown"
        /\ granted[i].action = eval[e].action /\ eval[e].action \notin Exempt
        => eval[e].began - granted[i].at >= Cooldown

Known ==
    /\ file.kind # "torn" => Covers(file.state, granted)
    /\ \A e \in Evaluations : eval[e] # Idle =>
          /\ eval[e].pc \in {"repetition", "admit", "open"} => file.kind # "torn"
          /\ eval[e].pc = "admit" => Covers(eval[e].mem, granted)
          /\ eval[e].pc \in {"open", "dump"} => Covers(eval[e].mem, Reported(e))

CooldownInv == Kept => Solo /\ TimesOrdered /\ CooledDown /\ Known /\ CooldownRespected

\* h is the end of g: all of g, or as much as the history holds of a g whose
\* records have one action.
EndOf(h, g) ==
    /\ Len(h) <= Len(g)
    /\ \A i \in 1..Len(h) : h[i] = g[i + Len(g) - Len(h)]
    /\ Len(h) < Len(g) => /\ Len(h) = HistoryLength
                          /\ \A i, j \in 1..Len(g) : g[i].action = g[j].action

\* The admissions that the repetition check of an evaluation should count.
Counted(e) == {j \in 1..Len(granted) : /\ granted[j].action = eval[e].action
                                       /\ granted[j].at > eval[e].began - Window}

HistoriesKnown ==
    /\ file.kind # "torn" => EndOf(file.state.history, granted)
    /\ \A e \in Evaluations : eval[e] # Idle =>
          /\ eval[e].pc = "admit" => EndOf(eval[e].mem.history, granted)
          /\ eval[e].pc \in {"open", "dump"} => EndOf(eval[e].mem.history, Reported(e))

PassedLimit ==
    \A e \in Evaluations :
        /\ eval[e] # Idle /\ eval[e].pc \in {"admit", "open", "dump"}
        /\ eval[e].action \notin Exempt
        => Cardinality(Counted(e)) < Limit

RepetitionInv == causes = {} => HistoriesKnown /\ PassedLimit /\ RepetitionBounded

----------------------------------------------------------------------------
(* Types. *)

LEMMA GovernanceConstants ==
    /\ Cooldown \in Nat /\ Window \in Nat /\ Limit \in Nat /\ HistoryLength \in Nat
    /\ 0 < Limit /\ Limit <= HistoryLength
BY ActionGovernanceAssumption

LEMMA NothingTyped == Nothing \in StateType
BY EmptySeq, ActionGovernanceAssumption DEF Nothing, StateType, Histories

\* A push keeps at most HistoryLength records, the last of them.
LEMMA PushedTyped ==
    ASSUME NEW h \in Histories, NEW r \in RecordType
    PROVE  /\ Pushed(h, r) \in Histories /\ Len(h) \in Nat
           /\ Len(h) < HistoryLength => Pushed(h, r) = Append(h, r)
           /\ Len(h) = HistoryLength =>
                 /\ Len(Pushed(h, r)) = HistoryLength
                 /\ \A i \in 1..HistoryLength : Pushed(h, r)[i] = Append(h, r)[i + 1]
<1>. USE DEF Histories
<1>. DEFINE longer == Append(h, r)
<1>1. /\ longer \in Seq(RecordType) /\ Len(longer) = Len(h) + 1 /\ longer # <<>>
  BY AppendProperties
<1>2. /\ Tail(longer) \in Seq(RecordType) /\ Len(Tail(longer)) = Len(longer) - 1
      /\ \A i \in 1..Len(Tail(longer)) : Tail(longer)[i] = longer[i + 1]
  BY <1>1, HeadTailProperties
<1>3. Len(h) \in Nat /\ HistoryLength \in Nat \ {0}
  BY ActionGovernanceAssumption, LenProperties
<1>. HIDE DEF longer
<1>4. Pushed(h, r) = IF Len(longer) <= HistoryLength THEN longer ELSE Tail(longer)
  BY DEF Pushed, longer
<1>. QED  BY <1>1, <1>2, <1>3, <1>4 DEF longer

\* What an evaluation records.
RecordTime(e) == IF eval[e].kind \in {"agent", "direct"} THEN eval[e].began ELSE now
RecordOf(e) == [action |-> eval[e].action, at |-> RecordTime(e)]

\* Where an evaluation goes changes nothing of the others.
LEMMA GoneToEffect ==
    ASSUME GovernanceTypeOK, NEW e \in Evaluations, eval[e] \in EvalType,
           NEW place \in {"repetition", "admit", "open", "dump"}, NEW t \in Nat,
           NEW s \in StateType, eval' = GoneTo(place, e, t, s)
    PROVE  /\ eval' \in [Evaluations -> EvalType \cup {Idle}]
           /\ \A d \in Evaluations \ {e} : eval'[d] = eval[d]
           /\ eval'[e] \in EvalType
           /\ eval'[e].pc = place /\ eval'[e].kind = eval[e].kind
           /\ eval'[e].action = eval[e].action /\ eval'[e].began = eval[e].began
           /\ eval'[e].stamp = t /\ eval'[e].mem = s
BY DEF GovernanceTypeOK, GoneTo, EvalType

\* Opening the file tears it, and changes nothing of the evaluation but its place.
LEMMA OpenStateEffect ==
    ASSUME GovernanceTypeOK, Solo, NEW e \in Evaluations, OpenState(e), eval[e] # Idle
    PROVE  /\ \A d \in Evaluations \ {e} : eval'[d] = Idle
           /\ eval'[e].pc = "dump" /\ eval'[e].began = eval[e].began
           /\ eval'[e].action = eval[e].action /\ eval'[e].mem = eval[e].mem
           /\ eval'[e].stamp = eval[e].stamp
           /\ UNCHANGED <<now, granted>> /\ file' = Torn
<1>1. \A d \in Evaluations \ {e} : eval[d] = Idle
  BY DEF Solo
<1>2. /\ eval' = GoneTo("dump", e, eval[e].stamp, eval[e].mem)
      /\ UNCHANGED <<now, granted>> /\ file' = Torn
  BY DEF OpenState
<1>3. /\ \A d \in Evaluations \ {e} : eval'[d] = eval[d]
      /\ eval'[e].pc = "dump" /\ eval'[e].began = eval[e].began
      /\ eval'[e].action = eval[e].action /\ eval'[e].mem = eval[e].mem
      /\ eval'[e].stamp = eval[e].stamp
  BY <1>2 DEF GoneTo, GovernanceTypeOK
<1>. QED  BY <1>1, <1>2, <1>3

LEMMA RecordedTyped ==
    ASSUME GovernanceTypeOK, NEW e \in Evaluations, eval[e] \in EvalType
    PROVE  /\ RecordOf(e) \in RecordType /\ RecordTime(e) \in Nat
           /\ Remembering(eval[e].mem, RecordOf(e)) \in StateType
<1>1. RecordOf(e) \in RecordType /\ RecordTime(e) \in Nat \ {0}
  BY DEF RecordOf, RecordTime, RecordType, EvalType, GovernanceTypeOK
<1>2. eval[e].mem \in StateType
  BY DEF EvalType
<1>3. Pushed(eval[e].mem.history, RecordOf(e)) \in Histories
  BY <1>1, <1>2, PushedTyped DEF StateType
<1>. QED  BY <1>1, <1>2, <1>3 DEF Remembering, StateType, RecordOf, EvalType

\* A check is a load that goes on or ends the evaluation.
LEMMA CheckCooldownEither ==
    ASSUME NEW e \in Evaluations, CheckCooldown(e)
    PROVE  /\ eval[e].pc = "cooldown"
           /\ \/ OnCooldown(e) /\ LoadAndGo(e, TRUE, "repetition")
              \/ ~OnCooldown(e) /\ LoadAndGo(e, FALSE, "repetition")
<1>1. CASE OnCooldown(e)  BY <1>1 DEF CheckCooldown, LoadAndGo, At
<1>2. CASE ~OnCooldown(e)  BY <1>2 DEF CheckCooldown, LoadAndGo, At
<1>. QED  BY <1>1, <1>2

LEMMA CheckRepetitionEither ==
    ASSUME NEW e \in Evaluations, CheckRepetition(e)
    PROVE  /\ eval[e].pc = "repetition"
           /\ \/ RepeatedTooOften(e) /\ LoadAndGo(e, TRUE, "admit")
              \/ ~RepeatedTooOften(e) /\ LoadAndGo(e, FALSE, "admit")
<1>1. CASE RepeatedTooOften(e)  BY <1>1 DEF CheckRepetition, LoadAndGo, At
<1>2. CASE ~RepeatedTooOften(e)  BY <1>2 DEF CheckRepetition, LoadAndGo, At
<1>. QED  BY <1>1, <1>2

LEMMA TypeStep ==
    ASSUME GovernanceTypeOK, [Next]_vars
    PROVE  GovernanceTypeOK'
<1>1. ASSUME NEW e \in Evaluations, NEW k \in Kinds, NEW a \in Actions, Begin(e, k, a)
      PROVE  GovernanceTypeOK'
  <2>. DEFINE new == [pc |-> "cooldown", kind |-> k, action |-> a, began |-> now,
                      stamp |-> 0, mem |-> Nothing]
  <2>1. new \in EvalType /\ eval' = [eval EXCEPT ![e] = new] /\ new.pc = "cooldown"
    BY <1>1, NothingTyped DEF GovernanceTypeOK, Begin, EvalType
  <2>. HIDE DEF new
  <2>2. /\ eval' \in [Evaluations -> EvalType \cup {Idle}]
        /\ \A d \in Evaluations : eval'[d].pc \in {"open", "dump"} => eval'[d].stamp # 0
    BY <2>1 DEF GovernanceTypeOK
  <2>3. causes' \subseteq {"overlap", "torn", "unsaved", "evicted"} /\ troubles' \in Nat
    <3>1. CASE UNCHANGED <<causes, troubles>>
      BY <3>1 DEF GovernanceTypeOK
    <3>2. CASE Trouble /\ causes' = causes \cup {"overlap"}
      BY <3>2 DEF GovernanceTypeOK, Trouble
    <3>. QED  BY <1>1, <3>1, <3>2 DEF Begin
  <2>. QED  BY <1>1, <2>2, <2>3 DEF Begin, GovernanceTypeOK
<1>2. ASSUME NEW e \in Evaluations, NEW place \in {"repetition", "admit"},
             eval[e] # Idle, LoadAndGo(e, TRUE, place) \/ LoadAndGo(e, FALSE, place)
      PROVE  GovernanceTypeOK'
  <2>1. eval[e] \in EvalType /\ file.state \in StateType
    BY <1>2 DEF GovernanceTypeOK, FileType
  <2>2. /\ eval' \in [Evaluations -> EvalType \cup {Idle}]
        /\ \A d \in Evaluations : eval'[d].pc \in {"open", "dump"} => eval'[d].stamp # 0
    <3>1. CASE LoadAndGo(e, TRUE, place)
      BY <1>2, <3>1 DEF LoadAndGo, GovernanceTypeOK, Idle
    <3>2. CASE LoadAndGo(e, FALSE, place)
      BY <1>2, <3>2, <2>1, GoneToEffect DEF LoadAndGo, GovernanceTypeOK
    <3>. QED  BY <1>2, <3>1, <3>2
  <2>. QED  BY <1>2, <2>2 DEF LoadAndGo, GovernanceTypeOK
<1>3. ASSUME NEW e \in Evaluations, CheckCooldown(e) PROVE GovernanceTypeOK'
  <2>1. eval[e] # Idle
    <3>1. eval[e].pc = "cooldown"
      BY <1>3, CheckCooldownEither
    <3>. QED  BY <3>1 DEF Idle
  <2>2. LoadAndGo(e, TRUE, "repetition") \/ LoadAndGo(e, FALSE, "repetition")
    BY <1>3, CheckCooldownEither
  <2>. QED  BY <1>2, <2>1, <2>2
<1>4. ASSUME NEW e \in Evaluations, CheckRepetition(e) PROVE GovernanceTypeOK'
  <2>1. eval[e] # Idle
    <3>1. eval[e].pc = "repetition"
      BY <1>4, CheckRepetitionEither
    <3>. QED  BY <3>1 DEF Idle
  <2>2. LoadAndGo(e, TRUE, "admit") \/ LoadAndGo(e, FALSE, "admit")
    BY <1>4, CheckRepetitionEither
  <2>. QED  BY <1>2, <2>1, <2>2
<1>5. ASSUME NEW e \in Evaluations, Deny(e) PROVE GovernanceTypeOK'
  BY <1>5 DEF GovernanceTypeOK, Deny, Idle
<1>6. ASSUME NEW e \in Evaluations, Record(e) PROVE GovernanceTypeOK'
  <2>1. eval[e] \in EvalType
    BY <1>6 DEF Record, At, GovernanceTypeOK, Idle
  <2>2. eval' = GoneTo("open", e, RecordTime(e), Remembering(eval[e].mem, RecordOf(e)))
    BY <1>6 DEF Record, RecordTime, RecordOf
  <2>3. eval' \in [Evaluations -> EvalType \cup {Idle}]
    BY <2>1, <2>2, RecordedTyped, GoneToEffect
  <2>4. \A d \in Evaluations : eval'[d].pc \in {"open", "dump"} => eval'[d].stamp # 0
    <3>1. RecordTime(e) # 0
      BY <2>1 DEF RecordTime, EvalType, GovernanceTypeOK
    <3>. QED  BY <2>1, <2>2, <3>1, RecordedTyped, GoneToEffect DEF GovernanceTypeOK
  <2>. QED  BY <1>6, <2>3, <2>4 DEF Record, GovernanceTypeOK
<1>7. ASSUME NEW e \in Evaluations, OpenState(e) PROVE GovernanceTypeOK'
  <2>1. eval[e] \in EvalType
    BY <1>7 DEF OpenState, At, GovernanceTypeOK, Idle
  <2>2. eval[e].pc = "open" /\ eval[e].stamp \in Nat \ {0} /\ eval[e].mem \in StateType
    BY <1>7, <2>1 DEF OpenState, At, EvalType, GovernanceTypeOK
  <2>3. eval' = GoneTo("dump", e, eval[e].stamp, eval[e].mem)
    BY <1>7 DEF OpenState
  <2>4. /\ eval' \in [Evaluations -> EvalType \cup {Idle}]
        /\ \A d \in Evaluations : eval'[d].pc \in {"open", "dump"} => eval'[d].stamp # 0
    BY <2>1, <2>2, <2>3, GoneToEffect DEF GovernanceTypeOK
  <2>. QED  BY <1>7, <2>4, NothingTyped DEF OpenState, GovernanceTypeOK, Torn, FileType
<1>8. ASSUME NEW e \in Evaluations, Grant(e), eval[e].pc \in {"open", "dump"}
      PROVE  /\ granted' \in Seq(RecordType) /\ now' \in Nat \ {0}
             /\ eval' \in [Evaluations -> EvalType \cup {Idle}]
             /\ \A d \in Evaluations : eval'[d].pc \in {"open", "dump"} => eval'[d].stamp # 0
             /\ eval[e] \in EvalType
  <2>1. eval[e] \in EvalType
    BY <1>8 DEF GovernanceTypeOK, Idle
  <2>2. Reported(e) \in Seq(RecordType)
    BY <2>1, <1>8, AppendProperties DEF GovernanceTypeOK, Reported, EvalType, RecordType
  <2>. QED  BY <1>8, <2>1, <2>2 DEF Grant, GovernanceTypeOK, Reported, Idle
<1>9. ASSUME NEW e \in Evaluations, OpenStateFails(e) PROVE GovernanceTypeOK'
  BY <1>8, <1>9 DEF OpenStateFails, At, Trouble, GovernanceTypeOK
<1>10. ASSUME NEW e \in Evaluations, DumpState(e) PROVE GovernanceTypeOK'
  <2>1. Torn \in FileType /\ Json(eval[e].mem) \in FileType
    BY <1>8, <1>10, NothingTyped DEF DumpState, At, Torn, Json, FileType, EvalType
  <2>2. file' \in FileType /\ troubles' \in Nat
    BY <1>10, <2>1 DEF DumpState, Trouble, GovernanceTypeOK
  <2>. QED  BY <1>8, <1>10, <2>2 DEF DumpState, At, GovernanceTypeOK
<1>11. ASSUME NEW e \in Evaluations, Crash(e) PROVE GovernanceTypeOK'
  BY <1>11 DEF GovernanceTypeOK, Crash, Trouble, Idle
<1>12. CASE Tick
  BY <1>12 DEF GovernanceTypeOK, Tick
<1>13. CASE UNCHANGED vars
  BY <1>13 DEF GovernanceTypeOK, vars
<1>. QED
  BY <1>1, <1>3, <1>4, <1>5, <1>6, <1>7, <1>9, <1>10, <1>11, <1>12, <1>13 DEF Next

----------------------------------------------------------------------------
(* The cooldown. *)

LEMMA GrantedTyped ==
    ASSUME GovernanceTypeOK
    PROVE  /\ Len(granted) \in Nat
           /\ \A i \in 1..Len(granted) : /\ granted[i] \in RecordType
                                         /\ granted[i].action \in Actions
                                         /\ granted[i].at \in Nat \ {0}
<1>1. granted \in Seq(RecordType)
  BY DEF GovernanceTypeOK
<1>2. Len(granted) \in Nat
  BY <1>1, LenProperties
<1>3. \A i \in 1..Len(granted) : granted[i] \in RecordType
  BY <1>1, ElementOfSeq
<1>. QED  BY <1>2, <1>3 DEF RecordType

\* The records that are reported after an evaluation: those there were, and its own.
LEMMA ReportedIs ==
    ASSUME GovernanceTypeOK, NEW e \in Evaluations, eval[e].pc \in {"open", "dump"}
    PROVE  /\ Len(granted) \in Nat /\ Len(Reported(e)) = Len(granted) + 1
           /\ \A i \in 1..Len(granted) : Reported(e)[i] = granted[i]
           /\ Reported(e)[Len(granted) + 1].action = eval[e].action
           /\ Reported(e)[Len(granted) + 1].at = eval[e].stamp
<1>. DEFINE r == [action |-> eval[e].action, at |-> eval[e].stamp]
<1>1. eval[e] \in EvalType /\ eval[e].stamp # 0
  BY DEF GovernanceTypeOK, Idle
<1>2. granted \in Seq(RecordType) /\ r \in RecordType
  BY <1>1 DEF GovernanceTypeOK, RecordType, EvalType
<1>3. /\ Len(Append(granted, r)) = Len(granted) + 1
      /\ \A i \in 1..Len(granted) : Append(granted, r)[i] = granted[i]
      /\ Append(granted, r)[Len(granted) + 1] = r
  BY <1>2, AppendProperties
<1>. QED  BY <1>3, GrantedTyped DEF Reported

\* No step forgets a cause.
LEMMA CausesGrow ==
    ASSUME GovernanceTypeOK, [Next]_vars
    PROVE  causes \subseteq causes'
<1>. USE DEF GovernanceTypeOK
<1>1. ASSUME NEW e \in Evaluations, NEW k \in Kinds, NEW a \in Actions, Begin(e, k, a)
      PROVE  causes \subseteq causes'
  BY <1>1 DEF Begin
<1>2. ASSUME NEW e \in Evaluations, CheckCooldown(e)
      PROVE  causes \subseteq causes'
  BY <1>2 DEF CheckCooldown, LoadAndGo
<1>3. ASSUME NEW e \in Evaluations, CheckRepetition(e)
      PROVE  causes \subseteq causes'
  BY <1>3 DEF CheckRepetition, LoadAndGo
<1>4. ASSUME NEW e \in Evaluations, Record(e)
      PROVE  causes \subseteq causes'
  BY <1>4 DEF Record
<1>5. ASSUME NEW e \in Evaluations, OpenStateFails(e)
      PROVE  causes \subseteq causes'
  BY <1>5 DEF OpenStateFails
<1>6. ASSUME NEW e \in Evaluations,
             Deny(e) \/ OpenState(e) \/ DumpState(e) \/ Crash(e) \/ Tick \/ UNCHANGED vars
      PROVE  causes \subseteq causes'
  BY <1>6 DEF Deny, OpenState, DumpState, Crash, Tick, vars
<1>7. CASE Tick \/ UNCHANGED vars
  BY <1>7 DEF Tick, vars
<1>. QED  BY <1>1, <1>2, <1>3, <1>4, <1>5, <1>6, <1>7 DEF Next

\* An evaluation that ends without an admission leaves the others as they were.
LEMMA EndKeepsCooldown ==
    ASSUME GovernanceTypeOK, Solo, TimesOrdered, CooledDown, Known, CooldownRespected,
           NEW e \in Evaluations, eval' = [eval EXCEPT ![e] = Idle],
           UNCHANGED <<now, file, granted>>
    PROVE  (Solo /\ TimesOrdered /\ CooledDown /\ Known /\ CooldownRespected)'
<1>1. \A d \in Evaluations : eval'[d] = eval[d] \/ eval'[d] = Idle
  BY DEF GovernanceTypeOK
<1>2. \A d \in Evaluations : eval'[d] # Idle => eval'[d] = eval[d] /\ Reported(d)' = Reported(d)
  BY <1>1 DEF Reported
<1>. QED
  BY <1>2 DEF Solo, TimesOrdered, CooledDown, Known, CooldownRespected, Covers, Distance

LEMMA CooldownStep ==
    ASSUME GovernanceTypeOK, CooldownInv, [Next]_vars
    PROVE  CooldownInv'
<1>. SUFFICES ASSUME Kept'
              PROVE  (Solo /\ TimesOrdered /\ CooledDown /\ Known /\ CooldownRespected)'
  BY DEF CooldownInv
<1>. Kept /\ Solo /\ TimesOrdered /\ CooledDown /\ Known /\ CooldownRespected
  BY CausesGrow DEF CooldownInv, Kept
<1>1. ASSUME NEW e \in Evaluations, NEW k \in Kinds, NEW a \in Actions, Begin(e, k, a)
      PROVE  (Solo /\ TimesOrdered /\ CooledDown /\ Known /\ CooldownRespected)'
  <2>1. \A d \in Evaluations : eval[d] = Idle
    BY <1>1 DEF Begin, Kept, Busy
  <2>2. /\ \A d \in Evaluations \ {e} : eval'[d] = Idle
        /\ eval'[e].pc = "cooldown" /\ eval'[e].began = now
        /\ UNCHANGED <<now, file, granted>>
    BY <1>1, <2>1 DEF Begin, GovernanceTypeOK
  <2>3. (Solo /\ TimesOrdered)'
    <3>1. Solo'
      BY <2>2 DEF Solo
    <3>2. now \in Nat
      BY DEF GovernanceTypeOK
    <3>. QED  BY <2>2, <3>1, <3>2 DEF TimesOrdered
  <2>4. (CooledDown /\ Known /\ CooldownRespected)'
    BY <2>2 DEF CooledDown, Known, CooldownRespected, Covers, Distance
  <2>. QED  BY <2>3, <2>4
<1>2. ASSUME NEW e \in Evaluations, CheckCooldown(e)
      PROVE  (Solo /\ TimesOrdered /\ CooledDown /\ Known /\ CooldownRespected)'
  <2>1. CASE LoadAndGo(e, TRUE, "repetition")
    BY <2>1, EndKeepsCooldown DEF LoadAndGo
  <2>2. CASE ~OnCooldown(e) /\ LoadAndGo(e, FALSE, "repetition")
    <3>1. eval[e] \in EvalType /\ eval[e].pc = "cooldown" /\ file.state \in StateType
          /\ eval[e] # Idle
      BY <1>2 DEF CheckCooldown, At, GovernanceTypeOK, Idle, FileType
    <3>2. file.kind # "torn"
      BY <2>2 DEF LoadAndGo, Kept
    <3>3. /\ \A d \in Evaluations \ {e} : eval'[d] = Idle
          /\ eval'[e].pc = "repetition" /\ eval'[e].began = eval[e].began
          /\ eval'[e].action = eval[e].action
          /\ UNCHANGED <<now, file, granted>>
      BY <2>2, <3>1, GoneToEffect DEF LoadAndGo, Solo
    <3>4. \A i \in 1..Len(granted) :
             granted[i].action = eval[e].action /\ eval[e].action \notin Exempt
             => eval[e].began - granted[i].at >= Cooldown
      <4>. SUFFICES ASSUME NEW i \in 1..Len(granted), granted[i].action = eval[e].action,
                           eval[e].action \notin Exempt
                    PROVE  eval[e].began - granted[i].at >= Cooldown
        OBVIOUS
      <4>. DEFINE last == file.state.last[eval[e].action]
      <4>1. granted[i].at <= last /\ last \in Nat
        BY <3>1, <3>2 DEF Known, Covers, StateType, EvalType
      <4>2. last # 0 /\ granted[i].at \in Nat
        BY <4>1, GrantedTyped
      <4>3. ~(eval[e].began - last < Cooldown)
        BY <2>2, <4>2 DEF OnCooldown
      <4>. QED
        BY SMTT(20), <3>1, <4>1, <4>2, <4>3, GovernanceConstants DEF EvalType
    <3>5. (Solo /\ TimesOrdered)'
      BY <3>1, <3>3 DEF Solo, TimesOrdered
    <3>6. (CooledDown /\ Known /\ CooldownRespected)'
      BY <3>2, <3>3, <3>4 DEF CooledDown, Known, CooldownRespected, Covers, Distance
    <3>. QED  BY <3>5, <3>6
  <2>. QED  BY <1>2, <2>1, <2>2, CheckCooldownEither
<1>3. ASSUME NEW e \in Evaluations, CheckRepetition(e)
      PROVE  (Solo /\ TimesOrdered /\ CooledDown /\ Known /\ CooldownRespected)'
  <2>1. CASE LoadAndGo(e, TRUE, "admit")
    BY <2>1, EndKeepsCooldown DEF LoadAndGo
  <2>2. CASE LoadAndGo(e, FALSE, "admit")
    <3>1. eval[e] \in EvalType /\ eval[e].pc = "repetition" /\ file.state \in StateType
          /\ eval[e] # Idle
      BY <1>3 DEF CheckRepetition, At, GovernanceTypeOK, Idle, FileType
    <3>2. file.kind # "torn"
      BY <2>2 DEF LoadAndGo, Kept
    <3>3. /\ \A d \in Evaluations \ {e} : eval'[d] = Idle
          /\ eval'[e].pc = "admit" /\ eval'[e].began = eval[e].began
          /\ eval'[e].action = eval[e].action /\ eval'[e].mem = file.state
          /\ UNCHANGED <<now, file, granted>>
      BY <2>2, <3>1, GoneToEffect DEF LoadAndGo, Solo
    <3>4. (Solo /\ TimesOrdered)'
      BY <3>1, <3>3 DEF Solo, TimesOrdered
    <3>5. (CooledDown /\ CooldownRespected)'
      BY <3>1, <3>3 DEF CooledDown, CooldownRespected, Distance
    <3>6. Known'
      BY <3>1, <3>2, <3>3 DEF Known, Covers
    <3>. QED  BY <3>4, <3>5, <3>6
  <2>. QED  BY <1>3, <2>1, <2>2, CheckRepetitionEither
<1>4. ASSUME NEW e \in Evaluations, Record(e)
      PROVE  (Solo /\ TimesOrdered /\ CooledDown /\ Known /\ CooldownRespected)'
  <2>1. eval[e] \in EvalType /\ eval[e].pc = "admit" /\ eval[e] # Idle
    BY <1>4 DEF Record, At, GovernanceTypeOK, Idle
  <2>2. eval' = GoneTo("open", e, RecordTime(e), Remembering(eval[e].mem, RecordOf(e)))
    BY <1>4 DEF Record, RecordTime, RecordOf
  <2>3. UNCHANGED <<now, file, granted>>
    BY <1>4 DEF Record
  <2>4. /\ \A d \in Evaluations \ {e} : eval'[d] = Idle
        /\ eval'[e].pc = "open" /\ eval'[e].began = eval[e].began
        /\ eval'[e].action = eval[e].action /\ eval'[e].stamp = RecordTime(e)
        /\ eval'[e].mem = Remembering(eval[e].mem, RecordOf(e))
        /\ eval'[e] \in EvalType
    BY <2>1, <2>2, RecordedTyped, GoneToEffect DEF Solo
  <2>5. RecordTime(e) \in eval[e].began..now
    BY <2>1 DEF RecordTime, TimesOrdered, EvalType, GovernanceTypeOK
  <2>6. (Solo /\ TimesOrdered)'
    BY <2>1, <2>3, <2>4, <2>5 DEF Solo, TimesOrdered
  <2>7. (CooledDown /\ CooldownRespected)'
    BY <2>1, <2>3, <2>4 DEF CooledDown, CooldownRespected, Distance
  <2>8. file.kind # "torn" /\ Covers(file.state, granted)
    BY <2>1 DEF Known
  <2>9. Covers(eval'[e].mem, Reported(e)')
    <3>. DEFINE last == eval[e].mem.last
    <3>1. /\ eval[e].mem.last \in [Actions -> Nat] /\ eval[e].action \in Actions
          /\ eval[e].began \in Nat
      BY <2>1 DEF EvalType, StateType
    <3>2. eval'[e].mem.last = [last EXCEPT ![eval[e].action] = RecordTime(e)]
      BY <2>4 DEF Remembering, RecordOf
    <3>3. /\ Len(granted) \in Nat /\ Len(Reported(e)') = Len(granted) + 1
          /\ \A i \in 1..Len(granted) : Reported(e)'[i] = granted[i]
          /\ Reported(e)'[Len(granted) + 1].action = eval[e].action
          /\ Reported(e)'[Len(granted) + 1].at = RecordTime(e)
      BY <2>3, <2>4, ReportedIs, TypeStep DEF Reported
    <3>4. \A i \in 1..Len(granted) :
             /\ granted[i].at <= last[granted[i].action] /\ granted[i].at <= eval[e].began
             /\ granted[i].action \in Actions /\ granted[i].at \in Nat
      BY <2>1, GrantedTyped DEF Known, Covers, TimesOrdered
    <3>5. RecordTime(e) \in Nat /\ RecordTime(e) >= eval[e].began
      BY <2>1, <2>5, <3>1, RecordedTyped
    <3>. SUFFICES ASSUME NEW i \in 1..(Len(granted) + 1)
                  PROVE  Reported(e)'[i].at <= eval'[e].mem.last[Reported(e)'[i].action]
      BY <3>3 DEF Covers
    <3>6. CASE i = Len(granted) + 1
      BY <3>1, <3>2, <3>3, <3>5, <3>6
    <3>7. CASE i \in 1..Len(granted) /\ granted[i].action = eval[e].action
      BY <3>1, <3>2, <3>3, <3>4, <3>5, <3>7
    <3>8. CASE i \in 1..Len(granted) /\ granted[i].action # eval[e].action
      BY SMTT(20), <3>1, <3>2, <3>3, <3>4, <3>8
    <3>. QED  BY <3>3, <3>6, <3>7, <3>8
  <2>10. Known'
    BY <2>3, <2>4, <2>8, <2>9 DEF Known, Covers
  <2>. QED  BY <2>6, <2>7, <2>10
<1>5. ASSUME NEW e \in Evaluations, OpenState(e)
      PROVE  (Solo /\ TimesOrdered /\ CooledDown /\ Known /\ CooldownRespected)'
  <2>1. eval[e] \in EvalType /\ eval[e].pc = "open" /\ eval[e] # Idle
    BY <1>5 DEF OpenState, At, GovernanceTypeOK, Idle
  <2>2. /\ \A d \in Evaluations \ {e} : eval'[d] = Idle
        /\ eval'[e].pc = "dump" /\ eval'[e].began = eval[e].began
        /\ eval'[e].action = eval[e].action /\ eval'[e].mem = eval[e].mem
        /\ eval'[e].stamp = eval[e].stamp
        /\ UNCHANGED <<now, granted>> /\ file' = Torn
    BY <1>5, <2>1, OpenStateEffect
  <2>3. (Solo /\ TimesOrdered)'
    BY <2>1, <2>2 DEF Solo, TimesOrdered
  <2>4. (CooledDown /\ CooldownRespected)'
    BY <2>1, <2>2 DEF CooledDown, CooldownRespected, Distance
  <2>5. Reported(e)' = Reported(e)
    BY <2>2 DEF Reported
  <2>6. Known'
    BY <2>1, <2>2, <2>5 DEF Known, Covers, Torn
  <2>. QED  BY <2>3, <2>4, <2>6
<1>6. ASSUME NEW e \in Evaluations, OpenStateFails(e)
      PROVE  FALSE
  BY <1>6 DEF OpenStateFails, Kept
<1>7. ASSUME NEW e \in Evaluations, DumpState(e)
      PROVE  (Solo /\ TimesOrdered /\ CooledDown /\ Known /\ CooldownRespected)'
  <2>1. eval[e] \in EvalType /\ eval[e].pc = "dump" /\ eval[e] # Idle
    BY <1>7 DEF DumpState, At, GovernanceTypeOK, Idle
  <2>2. /\ \A d \in Evaluations : eval'[d] = Idle
        /\ granted' = Reported(e) /\ UNCHANGED now
        /\ file' \in {Json(eval[e].mem), Torn}
    BY <1>7, <2>1 DEF DumpState, Grant, Reported, Solo, GovernanceTypeOK
  <2>3. /\ eval[e].stamp \in eval[e].began..now /\ now \in Nat /\ eval[e].began \in Nat
        /\ \A i \in 1..Len(granted) : granted[i].at <= eval[e].began /\ granted[i].at \in Nat
    BY <2>1, GrantedTyped DEF TimesOrdered, EvalType, GovernanceTypeOK
  <2>4. Solo'
    BY <2>2 DEF Solo
  <2>5. TimesOrdered'
    <3>1. \A i \in 1..Len(granted') : granted'[i].at <= now'
      <4>. SUFFICES ASSUME NEW i \in 1..Len(granted') PROVE granted'[i].at <= now'
        OBVIOUS
      <4>1. CASE i \in 1..Len(granted)
        BY <2>1, <2>2, <4>1, ReportedIs DEF TimesOrdered
      <4>2. CASE i = Len(granted) + 1
        BY <2>1, <2>2, <2>3, <4>2, ReportedIs
      <4>. QED  BY <2>1, <2>2, <4>1, <4>2, ReportedIs
    <3>2. \A i, j \in 1..Len(granted') : i <= j => granted'[i].at <= granted'[j].at
      <4>. SUFFICES ASSUME NEW i \in 1..Len(granted'), NEW j \in 1..Len(granted'), i <= j
                    PROVE  granted'[i].at <= granted'[j].at
        OBVIOUS
      <4>1. CASE j \in 1..Len(granted)
        BY SMTT(20), <2>1, <2>2, <4>1, ReportedIs DEF TimesOrdered
      <4>2. CASE j = Len(granted) + 1 /\ i \in 1..Len(granted)
        BY <2>1, <2>2, <2>3, <4>2, ReportedIs
      <4>3. CASE j = Len(granted) + 1 /\ i = j
        BY <2>1, <2>2, <2>3, <4>3, ReportedIs
      <4>. QED  BY <2>1, <2>2, <4>1, <4>2, <4>3, ReportedIs
    <3>. QED  BY <2>2, <3>1, <3>2 DEF TimesOrdered
  <2>6. CooledDown'
    BY <2>2 DEF CooledDown
  <2>7. Known'
    BY <2>1, <2>2 DEF Known, Torn, Json
  <2>8. CooldownRespected'
    <3>. SUFFICES ASSUME NEW i \in 1..Len(granted'), NEW j \in 1..Len(granted'), i # j,
                         granted'[i].action = granted'[j].action,
                         granted'[i].action \notin Exempt
                  PROVE  Distance(i, j)' >= Cooldown
      BY DEF CooldownRespected
    <3>1. \A n \in 1..Len(granted) :
             granted[n].action = eval[e].action /\ eval[e].action \notin Exempt
             => eval[e].stamp - granted[n].at >= Cooldown
      <4>1. Cooldown \in Nat /\ eval[e].stamp \in Nat /\ eval[e].stamp >= eval[e].began
        <5>1. /\ eval[e].stamp \in eval[e].began..now /\ now \in Nat /\ eval[e].began \in Nat
          BY <2>3
        <5>. QED  BY <5>1, GovernanceConstants
      <4>2. \A n \in 1..Len(granted) :
               granted[n].action = eval[e].action /\ eval[e].action \notin Exempt
               => eval[e].began - granted[n].at >= Cooldown
        BY <2>1 DEF CooledDown
      <4>3. eval[e].began \in Nat /\ \A n \in 1..Len(granted) : granted[n].at \in Nat
        BY <2>3
      <4>. QED  BY SMTT(20), <4>1, <4>2, <4>3
    <3>2. CASE i \in 1..Len(granted) /\ j \in 1..Len(granted)
      BY <2>1, <2>2, <3>2, ReportedIs DEF CooldownRespected, Distance
    <3>3. CASE i = Len(granted) + 1 /\ j \in 1..Len(granted)
      <4>. DEFINE n == j
      <4>1. /\ granted'[i].at = eval[e].stamp /\ granted'[n].at = granted[n].at
            /\ granted[n].action = eval[e].action /\ eval[e].action \notin Exempt
        BY <2>1, <2>2, <3>3, ReportedIs
      <4>2. /\ eval[e].stamp - granted[n].at >= Cooldown /\ Cooldown \in Nat
            /\ eval[e].stamp \in Nat /\ granted[n].at \in Nat
        BY <2>3, <3>1, <3>3, <4>1, GovernanceConstants
      <4>. QED  BY <4>1, <4>2 DEF Distance
    <3>4. CASE j = Len(granted) + 1 /\ i \in 1..Len(granted)
      <4>. DEFINE n == i
      <4>1. /\ granted'[j].at = eval[e].stamp /\ granted'[n].at = granted[n].at
            /\ granted[n].action = eval[e].action /\ eval[e].action \notin Exempt
        BY <2>1, <2>2, <3>4, ReportedIs
      <4>2. /\ eval[e].stamp - granted[n].at >= Cooldown /\ Cooldown \in Nat
            /\ eval[e].stamp \in Nat /\ granted[n].at \in Nat
        BY <2>3, <3>1, <3>4, <4>1, GovernanceConstants
      <4>. QED  BY <4>1, <4>2 DEF Distance
    <3>. QED  BY <2>1, <2>2, <3>2, <3>3, <3>4, ReportedIs
  <2>. QED  BY <2>4, <2>5, <2>6, <2>7, <2>8
<1>8. ASSUME NEW e \in Evaluations, Deny(e) \/ Crash(e)
      PROVE  (Solo /\ TimesOrdered /\ CooledDown /\ Known /\ CooldownRespected)'
  BY <1>8, EndKeepsCooldown DEF Deny, Crash
<1>9. CASE Tick
  <2>1. now \in Nat /\ now' = now + 1 /\ UNCHANGED <<file, eval, granted>>
    BY <1>9 DEF Tick, GovernanceTypeOK
  <2>2. Solo' /\ CooledDown' /\ Known' /\ CooldownRespected'
    BY <2>1 DEF Solo, CooledDown, Known, CooldownRespected, Covers, Reported, Distance
  <2>3. TimesOrdered'
    <3>1. \A d \in Evaluations : eval[d] # Idle => eval[d].began \in Nat /\ eval[d].stamp \in Nat
      BY DEF GovernanceTypeOK, EvalType
    <3>2. /\ \A i \in 1..Len(granted) : granted[i].at \in Nat /\ granted[i].at <= now + 1
          /\ \A d \in Evaluations : eval[d] # Idle =>
                /\ eval[d].began <= now + 1
                /\ eval[d].pc \in {"open", "dump"} => eval[d].stamp \in eval[d].began..(now + 1)
      BY <2>1, <3>1, GrantedTyped DEF TimesOrdered
    <3>. QED  BY <2>1, <3>2 DEF TimesOrdered
  <2>. QED  BY <2>2, <2>3
<1>10. CASE UNCHANGED vars
  BY <1>10 DEF vars, Solo, TimesOrdered, CooledDown, Known, CooldownRespected, Covers,
               Reported, Distance
<1>. QED
  BY <1>1, <1>2, <1>3, <1>4, <1>5, <1>6, <1>7, <1>8, <1>9, <1>10 DEF Next

----------------------------------------------------------------------------
(* The repetition limit. *)

\* If the end of the admissions has fewer than Limit recent records of an
\* action, so have all admissions: when the history lost some, the lost ones are
\* older than a record of it that is not recent.
LEMMA EndHasTheRecent ==
    ASSUME GovernanceTypeOK, NEW h \in Histories, EndOf(h, granted),
           \A i, j \in 1..Len(granted) : i <= j => granted[i].at <= granted[j].at,
           NEW a \in Actions, NEW t \in Int,
           Cardinality({i \in 1..Len(h) : h[i].action = a /\ h[i].at > t}) < Limit
    PROVE  LET S == {j \in 1..Len(granted) : granted[j].action = a /\ granted[j].at > t}
           IN  IsFiniteSet(S) /\ Cardinality(S) < Limit
<1>. DEFINE R == {i \in 1..Len(h) : h[i].action = a /\ h[i].at > t}
            S == {j \in 1..Len(granted) : granted[j].action = a /\ granted[j].at > t}
            k == Len(granted) - Len(h)
<1>1. /\ Len(h) \in Nat /\ Len(granted) \in Nat /\ k \in Nat /\ Len(granted) = Len(h) + k
      /\ \A i \in 1..Len(h) : h[i] = granted[i + k]
  <2>1. Len(h) \in Nat /\ Len(granted) \in Nat
    BY GrantedTyped, LenProperties DEF Histories
  <2>2. \A i \in 1..Len(h) : i + Len(granted) - Len(h) = i + k
    BY <2>1
  <2>. QED  BY <2>1, <2>2 DEF EndOf
<1>2. IsFiniteSet(1..Len(h)) /\ Cardinality(1..Len(h)) = Len(h)
  <2>1. /\ IsFiniteSet(1..Len(h))
        /\ Cardinality(1..Len(h)) = IF 1 > Len(h) THEN 0 ELSE Len(h) - 1 + 1
    <3>. PICK n \in Int : n = Len(h)
      BY <1>1
    <3>. QED  BY FS_Interval
  <2>. QED  BY <1>1, <2>1
<1>3. IsFiniteSet(R) /\ Cardinality(R) \in Nat /\ Cardinality(R) < Limit
  BY <1>2, FS_Subset, FS_CardinalityType
<1>4. IsFiniteSet(S) /\ Cardinality(S) \in Nat
  <2>1. IsFiniteSet(1..Len(granted))
    BY <1>1, FS_Interval
  <2>. QED  BY <2>1, FS_Subset, FS_CardinalityType
<1>5. \A j \in S : j - k \in R
  <2>. SUFFICES ASSUME NEW j \in S, j - k \notin R PROVE FALSE
    OBVIOUS
  <2>1. j \in 1..Len(granted) /\ granted[j].action = a /\ granted[j].at > t
    OBVIOUS
  <2>2. j - k \notin 1..Len(h)
    <3>1. j - k \in 1..Len(h) => h[j - k] = granted[j]
      BY <1>1, <2>1
    <3>. QED  BY <2>1, <3>1
  <2>3. 0 < k /\ j <= k
    BY <1>1, <2>1, <2>2
  <2>4. Len(h) = HistoryLength /\ \A m, n \in 1..Len(granted) : granted[m].action = granted[n].action
    BY <1>1, <2>3 DEF EndOf
  <2>5. \A i \in 1..Len(h) : i \in R
    <3>. SUFFICES ASSUME NEW i \in 1..Len(h) PROVE h[i].action = a /\ h[i].at > t
      OBVIOUS
    <3>1. i + k \in 1..Len(granted) /\ j <= i + k /\ h[i] = granted[i + k]
      BY <1>1, <2>1, <2>3
    <3>2. granted[i + k].at \in Nat /\ granted[j].at \in Nat
          /\ granted[j].at <= granted[i + k].at /\ granted[i + k].action = a
      BY <2>1, <2>4, <3>1, GrantedTyped
    <3>. QED  BY <2>1, <3>1, <3>2
  <2>6. R = 1..Len(h)
    BY <2>5
  <2>7. Cardinality(R) = Len(h)
    BY <1>2, <2>6
  <2>. QED  BY <1>1, <1>3, <2>4, <2>7, GovernanceConstants
<1>6. [j \in S |-> j - k] \in Injection(S, R)
  BY SMTT(20), <1>1, <1>5 DEF Injection, IsInjective
<1>7. Cardinality(S) <= Cardinality(R)
  BY <1>3, <1>6, FS_Injection
<1>. QED  BY <1>3, <1>4, <1>7, GovernanceConstants

\* Pushing a record keeps the history the end of the admissions, unless it
\* pushes out the record of another action.
LEMMA PushKeepsEnd ==
    ASSUME GovernanceTypeOK, NEW h \in Histories, EndOf(h, granted), NEW r \in RecordType,
           Len(h) = HistoryLength => \A i \in 1..Len(h) : h[i].action = r.action
    PROVE  EndOf(Pushed(h, r), Append(granted, r))
<1>. DEFINE g == Append(granted, r)  p == Pushed(h, r)
<1>1. /\ Len(h) \in Nat /\ Len(granted) \in Nat /\ Len(g) = Len(granted) + 1
      /\ \A i \in 1..Len(granted) : g[i] = granted[i]
      /\ g[Len(granted) + 1] = r
  BY GrantedTyped, LenProperties, AppendProperties DEF Histories, GovernanceTypeOK
<1>2. /\ \A i \in 1..Len(h) : Append(h, r)[i] = h[i]
      /\ Append(h, r)[Len(h) + 1] = r /\ Len(Append(h, r)) = Len(h) + 1
  BY AppendProperties DEF Histories
<1>3. /\ Len(h) <= Len(granted) /\ Len(h) <= HistoryLength
      /\ \A i \in 1..Len(h) : h[i] = granted[i + Len(granted) - Len(h)]
      /\ Len(h) < Len(granted) => /\ Len(h) = HistoryLength
                                  /\ \A i, j \in 1..Len(granted) : granted[i].action = granted[j].action
  BY DEF EndOf, Histories
<1>4. /\ Len(h) < HistoryLength => p = Append(h, r)
      /\ Len(h) = HistoryLength => /\ Len(p) = HistoryLength
                                   /\ \A i \in 1..HistoryLength : p[i] = Append(h, r)[i + 1]
  BY PushedTyped
<1>5. HistoryLength \in Nat /\ 0 < HistoryLength
  BY GovernanceConstants
<1>. HIDE DEF g, p
<1>6. CASE Len(h) < HistoryLength
  <2>1. p = Append(h, r) /\ Len(h) = Len(granted)
    BY <1>1, <1>3, <1>4, <1>5, <1>6
  <2>2. \A i \in 1..Len(h) : h[i] = granted[i]
    BY <1>1, <1>3, <2>1
  <2>3. Len(p) = Len(g) /\ \A i \in 1..Len(p) : p[i] = g[i]
    BY <1>1, <1>2, <2>1, <2>2
  <2>. QED  BY <1>1, <2>3 DEF EndOf, g, p
<1>7. CASE Len(h) = HistoryLength
  <2>1. Len(p) = HistoryLength /\ Len(g) = Len(granted) + 1 /\ Len(p) <= Len(granted)
    BY <1>1, <1>3, <1>4, <1>7
  <2>2. \A i \in 1..Len(p) : p[i] = g[i + Len(g) - Len(p)]
    <3>. SUFFICES ASSUME NEW i \in 1..Len(p) PROVE p[i] = g[i + Len(g) - Len(p)]
      OBVIOUS
    <3>0. p[i] = Append(h, r)[i + 1] /\ i + Len(g) - Len(p) = i + 1 + Len(granted) - Len(h)
      BY <1>1, <1>4, <1>5, <1>7, <2>1
    <3>1. CASE i = Len(p)
      BY <1>1, <1>2, <1>5, <1>7, <2>1, <3>0, <3>1
    <3>2. CASE i < Len(p)
      <4>1. i + 1 \in 1..Len(h)
        BY <1>5, <1>7, <2>1, <3>2
      <4>2. h[i + 1] = granted[i + 1 + Len(granted) - Len(h)]
        BY <1>3, <4>1
      <4>3. i + 1 + Len(granted) - Len(h) \in 1..Len(granted)
        BY <1>1, <1>3, <4>1
      <4>. QED  BY <1>1, <1>2, <3>0, <4>1, <4>2, <4>3
    <3>. QED  BY <1>5, <2>1, <3>1, <3>2
  <2>3. \A i \in 1..Len(granted) : granted[i].action = r.action
    <3>1. h[Len(h)] = granted[Len(granted)] /\ h[Len(h)].action = r.action
          /\ Len(granted) \in 1..Len(granted)
      BY <1>1, <1>3, <1>5, <1>7
    <3>2. CASE Len(h) < Len(granted)
      BY <1>3, <3>1, <3>2
    <3>3. CASE Len(h) = Len(granted)
      BY <1>1, <1>3, <1>7, <3>3
    <3>. QED  BY <1>1, <1>3, <3>2, <3>3
  <2>4. \A i, j \in 1..Len(g) : g[i].action = g[j].action
    BY <1>1, <2>3
  <2>5. Len(p) <= Len(g) /\ Len(p) = HistoryLength
    BY <1>1, <1>5, <2>1
  <2>6. EndOf(p, g)
    BY <2>2, <2>4, <2>5 DEF EndOf
  <2>. QED  BY <2>6 DEF g, p
<1>. QED  BY <1>1, <1>3, <1>5, <1>6, <1>7

\* Without a cause, the repetition check of an evaluation counts them all.
LEMMA CheckCountsAll ==
    ASSUME GovernanceTypeOK, HistoriesKnown, TimesOrdered, file.kind # "torn",
           NEW e \in Evaluations, eval[e] \in EvalType, ~RepeatedTooOften(e),
           eval[e].action \notin Exempt
    PROVE  Cardinality(Counted(e)) < Limit
<1>. DEFINE h == file.state.history  t == eval[e].began - Window
            R == {i \in 1..Len(h) : h[i].action = eval[e].action /\ h[i].at > t}
<1>1. h \in Histories /\ t \in Int /\ eval[e].action \in Actions
  BY GovernanceConstants DEF GovernanceTypeOK, FileType, StateType, EvalType
<1>2. Len(h) \in Nat
  BY <1>1, LenProperties DEF Histories
<1>3. IsFiniteSet(R) /\ Cardinality(R) \in Nat
  <2>. PICK n \in Int : n = Len(h)
    BY <1>2
  <2>1. IsFiniteSet(1..n)
    BY FS_Interval
  <2>. QED  BY <2>1, FS_Subset, FS_CardinalityType
<1>4. R = Recent(e, h)
  BY DEF Recent
<1>5. Cardinality(R) < Limit
  <2>1. ~(Cardinality(R) >= Limit)
    BY <1>4 DEF RepeatedTooOften
  <2>. HIDE DEF R
  <2>. QED  BY <1>3, <2>1, GovernanceConstants
<1>6. EndOf(h, granted)
  BY DEF HistoriesKnown
<1>7. \A i, j \in 1..Len(granted) : i <= j => granted[i].at <= granted[j].at
  BY DEF TimesOrdered
<1>. HIDE DEF h, t
<1>8. Cardinality({j \in 1..Len(granted) :
          granted[j].action = eval[e].action /\ granted[j].at > t}) < Limit
  BY <1>1, <1>5, <1>6, <1>7, EndHasTheRecent
<1>. QED  BY <1>8 DEF Counted, t

LEMMA StillInside ==
    ASSUME NEW x \in Int, NEW w \in Int, NEW s \in Int, NEW b \in Int, s >= b, x >= s - w + 1
    PROVE  x > b - w
OBVIOUS

\* The admission of an evaluation that passed its check leaves every window
\* within the limit.
LEMMA AdmissionWithinLimit ==
    ASSUME GovernanceTypeOK, TimesOrdered, RepetitionBounded, PassedLimit,
           NEW e \in Evaluations, eval[e] # Idle, eval[e].pc = "dump", granted' = Reported(e)
    PROVE  RepetitionBounded'
<1>. DEFINE n == Len(granted)
            InWindow(g, i) == {j \in 1..Len(g) : /\ g[j].action = g[i].action
                                                 /\ g[j].at \in (g[i].at - Window + 1)..g[i].at}
<1>1. /\ n \in Nat /\ Len(granted') = n + 1
      /\ \A i \in 1..n : granted'[i] = granted[i]
      /\ granted'[n + 1].action = eval[e].action /\ granted'[n + 1].at = eval[e].stamp
  BY ReportedIs
<1>2. eval[e].stamp \in Nat /\ eval[e].began \in Nat /\ eval[e].stamp >= eval[e].began
  <2>1. eval[e].stamp \in eval[e].began..now /\ eval[e].stamp \in Nat /\ eval[e].began \in Nat
    BY DEF TimesOrdered, GovernanceTypeOK, EvalType
  <2>. QED  BY <2>1
<1>3. \A i \in 1..n : granted[i].at \in Nat /\ granted[i].at <= eval[e].stamp
  BY <1>2, GrantedTyped DEF TimesOrdered
<1>4. SUFFICES ASSUME NEW i \in 1..(n + 1), granted'[i].action \notin Exempt
               PROVE  Cardinality(InWindow(granted', i)) <= Limit
  BY <1>1 DEF RepetitionBounded
<1>5. CASE granted'[i].action = eval[e].action /\ granted'[i].at = eval[e].stamp
  <2>1. IsFiniteSet(Counted(e)) /\ Cardinality(Counted(e)) \in Nat
    <3>. PICK m \in Int : m = Len(granted)
      BY <1>1
    <3>1. IsFiniteSet(1..m)
      BY FS_Interval
    <3>. QED  BY <3>1, FS_Subset, FS_CardinalityType DEF Counted
  <2>2. Cardinality(Counted(e)) < Limit
    BY <1>4, <1>5 DEF PassedLimit
  <2>3. InWindow(granted', i) \in SUBSET (Counted(e) \cup {n + 1})
    <3>. SUFFICES ASSUME NEW j \in InWindow(granted', i), j # n + 1 PROVE j \in Counted(e)
      OBVIOUS
    <3>1. /\ j \in 1..n /\ granted[j].action = eval[e].action
          /\ granted[j].at \in (eval[e].stamp - Window + 1)..eval[e].stamp
      BY <1>1, <1>5
    <3>2. granted[j].at \in Nat /\ granted[j].at >= eval[e].stamp - Window + 1
      BY <1>3, <3>1
    <3>3. granted[j].at > eval[e].began - Window
      <4>. HIDE DEF n, InWindow
      <4>. PICK w \in Nat : w = Window
        BY GovernanceConstants
      <4>. PICK x \in Nat : x = granted[j].at
        BY <3>2
      <4>. PICK s \in Nat, b \in Nat : s = eval[e].stamp /\ b = eval[e].began
        BY <1>2
      <4>1. s >= b /\ x >= s - w + 1
        BY <1>2, <3>2
      <4>2. x > b - w
        BY ONLY <4>1, StillInside, w \in Nat, x \in Nat, s \in Nat, b \in Nat
      <4>. QED  BY <4>2
    <3>. QED  BY <3>1, <3>3 DEF Counted
  <2>4. IsFiniteSet(Counted(e) \cup {n + 1})
        /\ Cardinality(Counted(e) \cup {n + 1}) <= Cardinality(Counted(e)) + 1
        /\ Cardinality(Counted(e) \cup {n + 1}) \in Nat
    <3>. PICK C : C = Counted(e)
      OBVIOUS
    <3>1. IsFiniteSet(C \cup {n + 1})
          /\ Cardinality(C \cup {n + 1}) = IF n + 1 \in C THEN Cardinality(C) ELSE Cardinality(C) + 1
      BY <2>1, FS_AddElement
    <3>. QED  BY <2>1, <3>1
  <2>5. /\ Cardinality(InWindow(granted', i)) <= Cardinality(Counted(e) \cup {n + 1})
        /\ Cardinality(InWindow(granted', i)) \in Nat
    BY <2>3, <2>4, FS_Subset, FS_CardinalityType
  <2>. HIDE DEF InWindow
  <2>. QED  BY <2>1, <2>2, <2>4, <2>5, GovernanceConstants
<1>6. CASE ~(granted'[i].action = eval[e].action /\ granted'[i].at = eval[e].stamp)
  <2>1. i \in 1..n /\ granted'[i] = granted[i]
    BY <1>1, <1>6
  <2>2. n + 1 \notin InWindow(granted', i)
    BY <1>1, <1>2, <1>3, <1>6, <2>1, GovernanceConstants
  <2>3. InWindow(granted', i) = InWindow(granted, i)
    BY <1>1, <2>1, <2>2
  <2>4. Cardinality(InWindow(granted, i)) <= Limit
    BY <1>4, <2>1 DEF RepetitionBounded
  <2>. QED  BY <2>3, <2>4
<1>. QED  BY <1>5, <1>6

LEMMA EndKeepsRepetition ==
    ASSUME GovernanceTypeOK, HistoriesKnown, PassedLimit, RepetitionBounded,
           NEW e \in Evaluations, eval' = [eval EXCEPT ![e] = Idle],
           UNCHANGED <<file, granted>>
    PROVE  (HistoriesKnown /\ PassedLimit /\ RepetitionBounded)'
<1>1. \A d \in Evaluations : eval'[d] = eval[d] \/ eval'[d] = Idle
  BY DEF GovernanceTypeOK
<1>2. \A d \in Evaluations : eval'[d] # Idle =>
         eval'[d] = eval[d] /\ Reported(d)' = Reported(d) /\ Counted(d)' = Counted(d)
  BY <1>1 DEF Reported, Counted
<1>. QED  BY <1>2 DEF HistoriesKnown, PassedLimit, RepetitionBounded

LEMMA RepetitionStep ==
    ASSUME GovernanceTypeOK, CooldownInv, RepetitionInv, [Next]_vars
    PROVE  RepetitionInv'
<1>. SUFFICES ASSUME causes' = {}
              PROVE  (HistoriesKnown /\ PassedLimit /\ RepetitionBounded)'
  BY DEF RepetitionInv
<1>. causes = {}
  BY CausesGrow
<1>. Solo /\ TimesOrdered /\ Known /\ HistoriesKnown /\ PassedLimit /\ RepetitionBounded
  BY DEF RepetitionInv, CooldownInv, Kept
<1>1. ASSUME NEW e \in Evaluations, NEW k \in Kinds, NEW a \in Actions, Begin(e, k, a)
      PROVE  (HistoriesKnown /\ PassedLimit /\ RepetitionBounded)'
  <2>1. \A d \in Evaluations : eval[d] = Idle
    BY <1>1 DEF Begin, Busy
  <2>2. /\ \A d \in Evaluations \ {e} : eval'[d] = Idle
        /\ eval'[e].pc = "cooldown"
        /\ UNCHANGED <<file, granted>>
    BY <1>1, <2>1 DEF Begin, GovernanceTypeOK
  <2>. QED  BY <2>2 DEF HistoriesKnown, PassedLimit, RepetitionBounded
<1>2. ASSUME NEW e \in Evaluations, CheckCooldown(e)
      PROVE  (HistoriesKnown /\ PassedLimit /\ RepetitionBounded)'
  <2>1. CASE LoadAndGo(e, TRUE, "repetition")
    BY <2>1, EndKeepsRepetition DEF LoadAndGo
  <2>2. CASE LoadAndGo(e, FALSE, "repetition")
    <3>1. eval[e] \in EvalType /\ file.state \in StateType /\ eval[e] # Idle
      BY <1>2 DEF CheckCooldown, At, GovernanceTypeOK, Idle, FileType
    <3>2. /\ \A d \in Evaluations \ {e} : eval'[d] = Idle
          /\ eval'[e].pc = "repetition"
          /\ UNCHANGED <<file, granted>>
      BY <2>2, <3>1, GoneToEffect DEF LoadAndGo, Solo
    <3>. QED  BY <3>2 DEF HistoriesKnown, PassedLimit, RepetitionBounded
  <2>. QED  BY <1>2, <2>1, <2>2, CheckCooldownEither
<1>3. ASSUME NEW e \in Evaluations, CheckRepetition(e)
      PROVE  (HistoriesKnown /\ PassedLimit /\ RepetitionBounded)'
  <2>1. CASE LoadAndGo(e, TRUE, "admit")
    BY <2>1, EndKeepsRepetition DEF LoadAndGo
  <2>2. CASE ~RepeatedTooOften(e) /\ LoadAndGo(e, FALSE, "admit")
    <3>1. eval[e] \in EvalType /\ file.state \in StateType /\ eval[e] # Idle
      BY <1>3 DEF CheckRepetition, At, GovernanceTypeOK, Idle, FileType
    <3>2. file.kind # "torn"
      BY <2>2 DEF LoadAndGo
    <3>3. /\ \A d \in Evaluations \ {e} : eval'[d] = Idle
          /\ eval'[e].pc = "admit" /\ eval'[e].began = eval[e].began
          /\ eval'[e].action = eval[e].action /\ eval'[e].mem = file.state
          /\ UNCHANGED <<file, granted>>
      BY <2>2, <3>1, GoneToEffect DEF LoadAndGo, Solo
    <3>4. Counted(e)' = Counted(e)
      BY <3>3 DEF Counted
    <3>5. eval[e].action \notin Exempt => Cardinality(Counted(e)) < Limit
      BY <2>2, <3>1, <3>2, CheckCountsAll
    <3>6. PassedLimit'
      BY <3>3, <3>4, <3>5 DEF PassedLimit
    <3>7. HistoriesKnown'
      BY <3>2, <3>3 DEF HistoriesKnown
    <3>. QED  BY <3>3, <3>6, <3>7 DEF RepetitionBounded
  <2>. QED  BY <1>3, <2>1, <2>2, CheckRepetitionEither
<1>4. ASSUME NEW e \in Evaluations, Record(e)
      PROVE  (HistoriesKnown /\ PassedLimit /\ RepetitionBounded)'
  <2>1. eval[e] \in EvalType /\ eval[e].pc = "admit" /\ eval[e] # Idle
    BY <1>4 DEF Record, At, GovernanceTypeOK, Idle
  <2>2. eval' = GoneTo("open", e, RecordTime(e), Remembering(eval[e].mem, RecordOf(e)))
    BY <1>4 DEF Record, RecordTime, RecordOf
  <2>3. UNCHANGED <<file, granted>> /\ ~PushesOthersOut(e)
    BY <1>4 DEF Record
  <2>4. /\ \A d \in Evaluations \ {e} : eval'[d] = Idle
        /\ eval'[e].pc = "open" /\ eval'[e].began = eval[e].began
        /\ eval'[e].action = eval[e].action /\ eval'[e].stamp = RecordTime(e)
        /\ eval'[e].mem.history = Pushed(eval[e].mem.history, RecordOf(e))
    <3>1. /\ \A d \in Evaluations \ {e} : eval'[d] = eval[d]
          /\ eval'[e].pc = "open" /\ eval'[e].began = eval[e].began
          /\ eval'[e].action = eval[e].action /\ eval'[e].stamp = RecordTime(e)
          /\ eval'[e].mem = Remembering(eval[e].mem, RecordOf(e))
      BY <2>1, <2>2, RecordedTyped, GoneToEffect
    <3>. QED  BY <2>1, <3>1 DEF Solo, Remembering
  <2>5. Reported(e)' = Append(granted, RecordOf(e))
    BY <2>3, <2>4 DEF Reported, RecordOf
  <2>6. EndOf(Pushed(eval[e].mem.history, RecordOf(e)), Append(granted, RecordOf(e)))
    <3>1. eval[e].mem.history \in Histories /\ EndOf(eval[e].mem.history, granted)
      BY <2>1 DEF HistoriesKnown, EvalType, StateType
    <3>2. Len(eval[e].mem.history) = HistoryLength =>
             \A i \in 1..Len(eval[e].mem.history) :
                eval[e].mem.history[i].action = RecordOf(e).action
      BY <2>3 DEF PushesOthersOut, RecordOf
    <3>. QED  BY <2>1, <3>1, <3>2, RecordedTyped, PushKeepsEnd
  <2>7. HistoriesKnown'
    BY <2>3, <2>4, <2>5, <2>6 DEF HistoriesKnown
  <2>8. Counted(e)' = Counted(e)
    BY <2>3, <2>4 DEF Counted
  <2>9. PassedLimit'
    BY <2>1, <2>4, <2>8 DEF PassedLimit
  <2>. QED  BY <2>3, <2>7, <2>9 DEF RepetitionBounded
<1>5. ASSUME NEW e \in Evaluations, OpenState(e)
      PROVE  (HistoriesKnown /\ PassedLimit /\ RepetitionBounded)'
  <2>1. eval[e] \in EvalType /\ eval[e].pc = "open" /\ eval[e] # Idle
    BY <1>5 DEF OpenState, At, GovernanceTypeOK, Idle
  <2>2. /\ \A d \in Evaluations \ {e} : eval'[d] = Idle
        /\ eval'[e].pc = "dump" /\ eval'[e].began = eval[e].began
        /\ eval'[e].action = eval[e].action /\ eval'[e].mem = eval[e].mem
        /\ eval'[e].stamp = eval[e].stamp
        /\ UNCHANGED granted /\ file' = Torn
    BY <1>5, <2>1, OpenStateEffect
  <2>3. Counted(e)' = Counted(e) /\ Reported(e)' = Reported(e)
    BY <2>2 DEF Counted, Reported
  <2>4. PassedLimit'
    BY <2>1, <2>2, <2>3 DEF PassedLimit
  <2>5. HistoriesKnown'
    BY <2>1, <2>2, <2>3 DEF HistoriesKnown, Torn
  <2>. QED  BY <2>2, <2>4, <2>5 DEF RepetitionBounded
<1>6. ASSUME NEW e \in Evaluations, OpenStateFails(e)
      PROVE  FALSE
  BY <1>6 DEF OpenStateFails
<1>7. ASSUME NEW e \in Evaluations, DumpState(e)
      PROVE  (HistoriesKnown /\ PassedLimit /\ RepetitionBounded)'
  <2>1. eval[e] \in EvalType /\ eval[e].pc = "dump" /\ eval[e] # Idle
    BY <1>7 DEF DumpState, At, GovernanceTypeOK, Idle
  <2>2. /\ \A d \in Evaluations : eval'[d] = Idle
        /\ granted' = Reported(e)
        /\ file' \in {Json(eval[e].mem), Torn}
    BY <1>7, <2>1 DEF DumpState, Grant, Reported, Solo, GovernanceTypeOK
  <2>3. EndOf(eval[e].mem.history, Reported(e))
    BY <2>1 DEF HistoriesKnown
  <2>4. HistoriesKnown'
    BY <2>2, <2>3 DEF HistoriesKnown, Torn, Json
  <2>5. RepetitionBounded'
    BY <2>1, <2>2, AdmissionWithinLimit
  <2>. QED  BY <2>2, <2>4, <2>5 DEF PassedLimit
<1>8. ASSUME NEW e \in Evaluations, Deny(e) \/ Crash(e)
      PROVE  (HistoriesKnown /\ PassedLimit /\ RepetitionBounded)'
  BY <1>8, EndKeepsRepetition DEF Deny, Crash
<1>9. CASE Tick \/ UNCHANGED vars
  BY <1>9 DEF Tick, vars, HistoriesKnown, PassedLimit, RepetitionBounded, Reported,
              Counted
<1>. QED
  BY <1>1, <1>2, <1>3, <1>4, <1>5, <1>6, <1>7, <1>8, <1>9 DEF Next

----------------------------------------------------------------------------

GovernanceInv == GovernanceTypeOK /\ CooldownInv /\ RepetitionInv

LEMMA GovernanceInvInit == Init => GovernanceInv
<1>. SUFFICES ASSUME Init PROVE GovernanceInv
  OBVIOUS
<1>1. GovernanceTypeOK
  BY NothingTyped, EmptySeq DEF Init, GovernanceTypeOK, FileType, Absent, Idle
<1>2. granted = <<>> /\ Len(granted) = 0 /\ \A e \in Evaluations : eval[e] = Idle
  BY DEF Init
<1>3. CooldownInv
  BY <1>2 DEF CooldownInv, Solo, TimesOrdered, CooledDown, Known, CooldownRespected, Covers
<1>4. file.state.history = <<>> /\ Len(<<>>) = 0
  BY DEF Init, Absent, Nothing
<1>5. HistoriesKnown
  <2>1. EndOf(<<>>, <<>>)
    BY <1>4 DEF EndOf
  <2>. QED  BY <1>2, <1>4, <2>1 DEF HistoriesKnown
<1>6. RepetitionInv
  BY <1>2, <1>5 DEF RepetitionInv, PassedLimit, RepetitionBounded
<1>. QED  BY <1>1, <1>3, <1>6 DEF GovernanceInv

LEMMA GovernanceInvStep == GovernanceInv /\ [Next]_vars => GovernanceInv'
BY TypeStep, CooldownStep, RepetitionStep DEF GovernanceInv

\* The types of the file, of the evaluations and of the admissions.
THEOREM GovernanceTypeCorrect == Spec => []GovernanceTypeOK
<1>1. GovernanceInv => GovernanceTypeOK
  BY DEF GovernanceInv
<1>. QED  BY <1>1, GovernanceInvInit, GovernanceInvStep, PTL DEF Spec

\* Any two admissions of an action are its cooldown apart, whichever callers
\* asked, unless evaluations overlapped, or a state was lost (_check_cooldown,
\* _record_action, _save_state).
THEOREM CooldownHolds == Spec => []OnlyOverlapOrLossBreaksCooldown
<1>1. GovernanceInv => OnlyOverlapOrLossBreaksCooldown
  BY DEF GovernanceInv, CooldownInv, Kept, OnlyOverlapOrLossBreaksCooldown
<1>. QED  BY <1>1, GovernanceInvInit, GovernanceInvStep, PTL DEF Spec

\* In no window is an action admitted more often than its limit, as long as
\* moreover no record was pushed out of the history by another action
\* (_check_repetition).
THEOREM RepetitionHolds == Spec => []OnlyCausesBreakRepetition
<1>1. GovernanceInv => OnlyCausesBreakRepetition
  BY DEF GovernanceInv, RepetitionInv, OnlyCausesBreakRepetition
<1>. QED  BY <1>1, GovernanceInvInit, GovernanceInvStep, PTL DEF Spec

----------------------------------------------------------------------------
(* PolicyEngine: what was checked of an admitted request.                *)

LEMMA RefusalsRefuse ==
    /\ \A r : Policy!EarlyVerdict(r).allowed = FALSE
    /\ \A f, r : Policy!Rejection(f, r).allowed = FALSE
    /\ \A f, r : Policy!SchemaFailure(f, r).allowed = FALSE
  BY DEF Policy!EarlyVerdict, Policy!Rejection, Policy!SchemaFailure, Policy!Verdict

\* An admission is of a decision, by a contract that passed all its checks.
LEMMA AdmissionNeeds ==
    ASSUME NEW r, r.decision.kind \in {"none", "malformed", "decision"},
           Policy!Admission(r).allowed
    PROVE  /\ r.decision.kind = "decision"
           /\ ~Policy!Fails(Policy!RequestChecks(r))
           /\ ~Policy!Fails(Policy!ContractChecks(r))
  <1>1. CASE r.down # {}
    BY <1>1, RefusalsRefuse DEF Policy!Admission
  <1>2. CASE r.down = {} /\ r.decision.kind = "none"
    BY <1>2, RefusalsRefuse DEF Policy!Admission
  <1>3. CASE r.down = {} /\ r.decision.kind = "malformed"
    BY <1>3, RefusalsRefuse DEF Policy!Admission
  <1>4. CASE r.down = {} /\ r.decision.kind = "decision" /\ Policy!Fails(Policy!RequestChecks(r))
    BY <1>4, RefusalsRefuse DEF Policy!Admission
  <1>5. CASE r.down = {} /\ r.decision.kind = "decision" /\ ~Policy!Fails(Policy!RequestChecks(r))
    BY <1>5, RefusalsRefuse DEF Policy!Admission
  <1>. QED  BY <1>1, <1>2, <1>3, <1>4, <1>5

LEMMA SevenAreSequence ==
    \A a, b, c, d, e, f, g :
        LET s == <<a, b, c, d, e, f, g>> IN s \in Seq({s[i] : i \in 1..7})
  OBVIOUS

LEMMA FourAreSequence ==
    \A a, b, c, d : LET s == <<a, b, c, d>> IN s \in Seq({s[i] : i \in 1..4})
  OBVIOUS

\* A sequence of checks passes only if each of its two parts does.
LEMMA PartsPass ==
    ASSUME NEW S, NEW s \in Seq(S), NEW u \in Seq(S), ~Policy!Fails(s \o u)
    PROVE  ~Policy!Fails(s) /\ ~Policy!Fails(u)
  <1>1. ASSUME NEW i \in DOMAIN s PROVE ~s[i].bad
    BY <1>1 DEF Policy!Fails
  <1>2. ASSUME NEW i \in DOMAIN u PROVE ~u[i].bad
    <2>1. Len(s) + i \in DOMAIN (s \o u) /\ (s \o u)[Len(s) + i] = u[i]
      BY <1>2
    <2>. QED  BY <2>1 DEF Policy!Fails
  <1>. QED  BY <1>1, <1>2 DEF Policy!Fails

LEMMA OriginHolds ==
    ASSUME NEW m, ~Policy!Fails(Policy!OriginChecks(m))
    PROVE  /\ m.version = engine.version
           /\ held.signature = [key |-> engine.key, of |-> m]
  <1>1. Policy!OriginChecks(m)[4].bad = (m.version # engine.version) /\ 4 \in DOMAIN Policy!OriginChecks(m)
    BY DEF Policy!OriginChecks
  <1>2. /\ Policy!OriginChecks(m)[6].bad = (held.signature # [key |-> engine.key, of |-> m])
        /\ 6 \in DOMAIN Policy!OriginChecks(m)
    BY DEF Policy!OriginChecks
  <1>. QED  BY <1>1, <1>2 DEF Policy!Fails

LEMMA TermsHold ==
    ASSUME NEW r, ~Policy!Fails(Policy!TermChecks(r))
    PROVE  Policy!RulesPermit(held.m.terms, r.env, r.decision.action)
  <1>1. /\ Policy!TermChecks(r)[2].bad = ~Policy!RulesPermit(held.m.terms, r.env, r.decision.action)
        /\ 2 \in DOMAIN Policy!TermChecks(r)
    BY DEF Policy!TermChecks
  <1>. QED  BY <1>1 DEF Policy!Fails

\* The engine admits what the contract permits, if the contract has its version
\* and was signed as it is.
LEMMA AdmittedByContract ==
    ASSUME NEW r, r.decision.kind \in {"none", "malformed", "decision"},
           Policy!Admission(r).allowed
    PROVE  /\ r.decision.kind = "decision" /\ held.kind # "none"
           /\ held.m.version = engine.version
           /\ held.signature.of = held.m
           /\ Policy!RulesPermit(held.m.terms, r.env, r.decision.action)
  <1> DEFINE S == {Policy!OriginChecks(held.m)[i] : i \in 1..7} \cup {Policy!TermChecks(r)[i] : i \in 1..4}
  <1>1. Policy!OriginChecks(held.m) \in Seq(S) /\ Policy!TermChecks(r) \in Seq(S)
    <2>1. Policy!OriginChecks(held.m) \in Seq({Policy!OriginChecks(held.m)[i] : i \in 1..7})
      BY SevenAreSequence DEF Policy!OriginChecks
    <2>2. Policy!TermChecks(r) \in Seq({Policy!TermChecks(r)[i] : i \in 1..4})
      BY FourAreSequence DEF Policy!TermChecks
    <2>. QED  BY <2>1, <2>2
  <1>2. ~Policy!Fails(Policy!OriginChecks(held.m)) /\ ~Policy!Fails(Policy!TermChecks(r))
    <2>1. ~Policy!Fails(Policy!OriginChecks(held.m) \o Policy!TermChecks(r))
      BY AdmissionNeeds DEF Policy!ContractChecks
    <2>. QED  BY <1>1, <2>1, PartsPass
  <1>0. r.decision.kind = "decision" /\ ~Policy!Fails(Policy!RequestChecks(r))
    BY AdmissionNeeds
  <1>3. held.kind # "none"
    <2>1. Policy!RequestChecks(r)[1].bad = (held.kind = "none") /\ 1 \in DOMAIN Policy!RequestChecks(r)
      BY DEF Policy!RequestChecks
    <2>. QED  BY <1>0, <2>1 DEF Policy!Fails
  <1>4. /\ held.m.version = engine.version
        /\ held.signature = [key |-> engine.key, of |-> held.m]
    BY <1>2, OriginHolds
  <1>5. Policy!RulesPermit(held.m.terms, r.env, r.decision.action)
    BY <1>2, TermsHold
  <1>. QED  BY <1>0, <1>3, <1>4, <1>5

----------------------------------------------------------------------------
(* PolicyEngine: what is signed. *)

Materials == [id : Ids, version : Versions, approver : Approvers, signer : Approvers,
              terms : Definitions, immutable : BOOLEAN]
Signatures == [key : Keys \cup {"none"}, of : Materials]
Contracts == {Policy!NoContract} \cup [kind : {"contract"}, m : Materials, signature : Signatures]

PolicyTypeInv == engine \in Policy!Engines /\ held \in Contracts /\ foreign \in BOOLEAN

\* The engine serves its own terms, and what is signed are terms some engine
\* served under the version signed with them, unless they are foreign.
SignedInv ==
    /\ Policy!Terms(engine) \in served
    /\ held.kind = "contract" =>
           \/ foreign
           \/ <<held.signature.of.version, held.signature.of.terms>> \in served

PolicyInv == PolicyTypeInv /\ SignedInv /\ Policy!OnlySilentRedefinitionWidens

LEMMA PolicyTypeInvStep == PolicyTypeInv /\ [Policy!Next]_policyVars => PolicyTypeInv'
  <1> SUFFICES ASSUME PolicyTypeInv, [Policy!Next]_policyVars
               PROVE  PolicyTypeInv'
    OBVIOUS
  <1> USE DEF PolicyTypeInv
  <1>1. CASE Policy!Issue
    <2>1. PICK approver \in Approvers, signer \in Approvers, terms \in Definitions,
               immutable \in BOOLEAN :
             held' = Policy!Signed(engine.key, Policy!Material(approver, signer, terms, immutable))
      BY <1>1 DEF Policy!Issue
    <2>2. Policy!Material(approver, signer, terms, immutable) \in Materials /\ engine.key \in Keys
      BY DEF Policy!Material, Materials, Policy!Engines
    <2>3. held' \in Contracts
      BY <2>1, <2>2 DEF Policy!Signed, Contracts, Signatures
    <2>. QED  BY <1>1, <2>3 DEF Policy!Issue
  <1>2. CASE Policy!Edit
    <2>1. held \in [kind : {"contract"}, m : Materials, signature : Signatures]
      BY <1>2 DEF Policy!Edit, Contracts, Policy!NoContract
    <2> DEFINE Held == [kind : {"contract"}, m : Materials, signature : Signatures]
    <2>2. ASSUME NEW terms \in Definitions, held' = [held EXCEPT !.m.terms = terms]
          PROVE  held' \in Held
      BY <2>1, <2>2 DEF Materials
    <2>3. ASSUME NEW a \in Approvers, held' = [held EXCEPT !.m.approver = a]
          PROVE  held' \in Held
      BY <2>1, <2>3 DEF Materials
    <2>4. ASSUME NEW v \in Versions, held' = [held EXCEPT !.m.version = v]
          PROVE  held' \in Held
      BY <2>1, <2>4 DEF Materials
    <2>5. ASSUME held' = [held EXCEPT !.m.immutable = ~@]
          PROVE  held' \in Held
      <3>1. [held.m EXCEPT !.immutable = ~@] \in Materials
        BY <2>1 DEF Materials
      <3>2. held' = [held EXCEPT !.m = [held.m EXCEPT !.immutable = ~@]]
        BY <2>5
      <3>. QED  BY <2>1, <3>1, <3>2
    <2>6. ASSUME held' = [held EXCEPT !.signature.key = "none"]
          PROVE  held' \in Held
      <3>1. [held.signature EXCEPT !.key = "none"] \in Signatures
        BY <2>1 DEF Signatures
      <3>2. held' = [held EXCEPT !.signature = [held.signature EXCEPT !.key = "none"]]
        BY <2>6
      <3>. QED  BY <2>1, <3>1, <3>2
    <2> HIDE DEF Held
    <2>7. held' \in Held
      BY <1>2, <2>2, <2>3, <2>4, <2>5, <2>6 DEF Policy!Edit
    <2>. QED  BY <1>2, <2>7 DEF Policy!Edit, Contracts, Held
  <1>3. CASE Policy!Deploy
    BY <1>3 DEF Policy!Deploy
  <1>4. CASE Policy!Deliver \/ Policy!AdmitRaises \/ UNCHANGED policyVars
    BY <1>4 DEF Policy!Deliver, Policy!AdmitRaises, policyVars
  <1>5. ASSUME NEW r \in Policy!Requests, Policy!Admit(r) PROVE PolicyTypeInv'
    BY <1>5 DEF Policy!Admit
  <1>. QED  BY <1>1, <1>2, <1>3, <1>4, <1>5 DEF Policy!Next

LEMMA SignedInvStep == PolicyTypeInv /\ SignedInv /\ [Policy!Next]_policyVars => SignedInv'
  <1> SUFFICES ASSUME PolicyTypeInv, SignedInv, [Policy!Next]_policyVars
               PROVE  SignedInv'
    OBVIOUS
  <1>1. CASE Policy!Issue
    <2>1. PICK approver \in Approvers, signer \in Approvers, terms \in Definitions,
               immutable \in BOOLEAN :
             held' = Policy!Signed(engine.key, Policy!Material(approver, signer, terms, immutable))
      BY <1>1 DEF Policy!Issue
    <2>2. /\ held'.m.terms = terms
          /\ held'.signature.of.terms = terms
          /\ held'.signature.of.version = engine.version
      BY <2>1 DEF Policy!Signed, Policy!Material
    <2>3. CASE terms = engine.definition
      BY <1>1, <2>2, <2>3 DEF Policy!Issue, SignedInv, Policy!Terms
    <2>4. CASE terms # engine.definition
      BY <1>1, <2>2, <2>4 DEF Policy!Issue, SignedInv, Policy!Terms
    <2>. QED  BY <2>3, <2>4
  <1>2. CASE Policy!Edit
    <2>1. held \in [kind : {"contract"}, m : Materials, signature : Signatures]
      BY <1>2 DEF Policy!Edit, PolicyTypeInv, Contracts, Policy!NoContract
    <2>2. held'.signature.of = held.signature.of
      BY <1>2, <2>1 DEF Policy!Edit, Signatures
    <2>. QED  BY <1>2, <2>1, <2>2 DEF Policy!Edit, SignedInv, Policy!Terms
  <1>3. CASE Policy!Deploy
    BY <1>3 DEF Policy!Deploy, SignedInv, Policy!Terms
  <1>4. CASE Policy!Deliver \/ Policy!AdmitRaises \/ UNCHANGED policyVars
    BY <1>4 DEF Policy!Deliver, Policy!AdmitRaises, policyVars, SignedInv, Policy!Terms
  <1>5. ASSUME NEW r \in Policy!Requests, Policy!Admit(r) PROVE SignedInv'
    BY <1>5 DEF Policy!Admit, SignedInv, Policy!Terms
  <1>. QED  BY <1>1, <1>2, <1>3, <1>4, <1>5 DEF Policy!Next

\* An admission approves what the definition in force permits.
LEMMA ApprovedIsPermitted ==
    ASSUME PolicyTypeInv, SignedInv, NEW r \in Policy!Requests, Policy!Admission(r).allowed,
           ~Policy!Redefined, ~foreign
    PROVE  Policy!RulesPermit(engine.definition, r.env, r.decision.action)
  <1>1. r.decision.kind \in {"none", "malformed", "decision"}
    BY DEF Policy!Requests, Policy!Decisions
  <1>2. /\ held.kind # "none"
        /\ held.m.version = engine.version
        /\ held.signature.of = held.m
        /\ Policy!RulesPermit(held.m.terms, r.env, r.decision.action)
    BY <1>1, AdmittedByContract
  <1>3. held.kind = "contract"
    BY <1>2 DEF PolicyTypeInv, Contracts, Policy!NoContract
  <1>4. <<engine.version, held.m.terms>> \in served /\ <<engine.version, engine.definition>> \in served
    BY <1>2, <1>3 DEF SignedInv, Policy!Terms
  <1>5. held.m.terms = engine.definition
    BY <1>4 DEF Policy!Redefined
  <1>. QED  BY <1>2, <1>5

LEMMA PolicyInvStep == PolicyInv /\ [Policy!Next]_policyVars => PolicyInv'
  <1> SUFFICES ASSUME PolicyInv, [Policy!Next]_policyVars
               PROVE  Policy!OnlySilentRedefinitionWidens'
    BY PolicyTypeInvStep, SignedInvStep DEF PolicyInv
  <1>1. CASE answer.kind = "none" /\ (Policy!Issue \/ Policy!Edit)
    BY <1>1 DEF Policy!Issue, Policy!Edit, Policy!OnlySilentRedefinitionWidens, Policy!Approved
  <1>2. CASE Policy!Deploy \/ Policy!Deliver \/ Policy!AdmitRaises
    BY <1>2 DEF Policy!Deploy, Policy!Deliver, Policy!AdmitRaises, Policy!OnlySilentRedefinitionWidens, Policy!Approved
  <1>3. ASSUME NEW r \in Policy!Requests, Policy!Admit(r)
        PROVE  Policy!OnlySilentRedefinitionWidens'
    <2> SUFFICES ASSUME Policy!Admission(r).allowed, ~Policy!Redefined, ~foreign
                 PROVE  Policy!RulesPermit(engine.definition, answer'.env, answer'.action)
      BY <1>3 DEF Policy!Admit, Policy!OnlySilentRedefinitionWidens, Policy!Approved, Policy!Redefined
    <2>1. Policy!RulesPermit(engine.definition, r.env, r.decision.action)
      BY ApprovedIsPermitted DEF PolicyInv
    <2>2. r.decision.kind = "decision"
      BY AdmittedByContract DEF Policy!Requests, Policy!Decisions
    <2>3. answer'.env = r.env /\ answer'.action = r.decision.action
      BY <1>3, <2>2 DEF Policy!Admit
    <2>. QED  BY <2>1, <2>3
  <1>4. CASE UNCHANGED policyVars
    BY <1>4 DEF policyVars, PolicyInv, Policy!OnlySilentRedefinitionWidens, Policy!Approved, Policy!Redefined
  <1>. QED  BY <1>1, <1>2, <1>3, <1>4 DEF Policy!Next


LEMMA PolicyInvInit == Policy!Init => PolicyInv
  <1>1. Policy!Init => PolicyTypeInv
    BY DEF Policy!Init, PolicyTypeInv, Contracts
  <1>2. Policy!Init => SignedInv
    BY DEF Policy!Init, SignedInv, Policy!NoContract
  <1>3. Policy!Init => ~Policy!Approved
    BY DEF Policy!Init, Policy!Approved
  <1>. QED  BY <1>1, <1>2, <1>3 DEF PolicyInv, Policy!OnlySilentRedefinitionWidens

----------------------------------------------------------------------------
(* SafeOrchestrator: types, and the steps of a request by what they set.   *)

SafeRequestType ==
    [pc : {"evaluate", "build", "gates", "execute", "record", "ended"},
     kind : {"direct", "pipe"}, app : FreezableApps,
     action : Wanted \cup {"noop", "scale_up"}, first : Nat, second : Nat,
     frozen : BOOLEAN, ran : BOOLEAN,
     answer : {"none", "refused", "raised", "success", "failure"}]
FreezeTimes == [FreezableApps -> Nat]
OperatorType == [pc : {"open", "write"}, app : FreezableApps, until : Nat, read : FreezeTimes]

GovernanceTimes == [Safe!SafeActions -> Nat]
GovernanceStates == [torn : BOOLEAN, last : GovernanceTimes]
EvaluationType ==
    [pc : {"cooldown", "repetition", "admit", "open", "dump"},
     way : {"contract", "direct", "api"}, action : Safe!SafeActions,
     began : Nat, stamp : Nat, read : GovernanceStates]

SafeTypeOK ==
    /\ safeNow \in Nat \ {0}
    /\ env \in Envs
    /\ charged \in GovernanceStates
    /\ evaluation \in [Safe!Evaluators -> EvaluationType \cup {Safe!Resting}]
    /\ freezeStore \in [torn : BOOLEAN, until : FreezeTimes]
    /\ operator \in [Evaluations -> OperatorType \cup {Safe!Waiting}]
    /\ safeRequest \in [SafeRequests -> SafeRequestType \cup {Safe!None}]
    /\ promised \in FreezeTimes

\* Request r goes on to a place; what is not named here stays.
SafeGoesOn(r, place, first, second, ran) ==
    \E d \in SafeRequestType :
        /\ d.pc = place /\ d.first = first /\ d.second = second /\ d.ran = ran
        /\ d.kind = safeRequest[r].kind /\ d.app = safeRequest[r].app
        /\ d.action = safeRequest[r].action /\ d.frozen = safeRequest[r].frozen
        /\ safeRequest' = [safeRequest EXCEPT ![r] = d]

\* What the guards of every step say, and what it does to the request.
LEMMA RequestThere ==
    ASSUME SafeTypeOK, NEW r \in SafeRequests, safeRequest[r].pc # "none"
    PROVE  safeRequest[r] \in SafeRequestType /\ safeRequest[r] # Safe!None
BY DEF SafeTypeOK, Safe!None, SafeRequestType

LEMMA EndedEffect ==
    ASSUME SafeTypeOK, NEW r \in SafeRequests, safeRequest[r] \in SafeRequestType,
           NEW said \in {"refused", "raised", "failure"},
           safeRequest' = Safe!Ended(r, said)
    PROVE  SafeGoesOn(r, "ended", safeRequest[r].first, safeRequest[r].second, safeRequest[r].ran)
<1>. PICK c \in SafeRequestType : c = safeRequest[r]
  OBVIOUS
<1>1. PICK d \in SafeRequestType : d = [c EXCEPT !.pc = "ended", !.answer = said]
  BY DEF SafeRequestType
<1>2. /\ d.pc = "ended" /\ d.first = c.first /\ d.second = c.second /\ d.ran = c.ran
      /\ d.kind = c.kind /\ d.app = c.app /\ d.action = c.action /\ d.frozen = c.frozen
  BY <1>1 DEF SafeRequestType
<1>3. safeRequest' = [safeRequest EXCEPT ![r] = d]
  BY <1>1 DEF Safe!Ended, SafeTypeOK
<1>. QED  BY <1>2, <1>3 DEF SafeGoesOn

\* An evaluation that begins, or moves on to a place.
LEMMA EvaluationThere ==
    ASSUME SafeTypeOK, NEW e \in Safe!Evaluators, evaluation[e].pc # "resting"
    PROVE  evaluation[e] \in EvaluationType /\ evaluation[e] # Safe!Resting
BY DEF SafeTypeOK, Safe!Resting, EvaluationType

LEMMA BeginEffect ==
    ASSUME SafeTypeOK, NEW e \in Safe!Evaluators, NEW way \in {"contract", "direct", "api"},
           NEW action \in Safe!SafeActions, Safe!BeginEvaluation(e, way, action)
    PROVE  /\ evaluation[e] = Safe!Resting
           /\ \E d \in EvaluationType :
                 /\ evaluation' = [evaluation EXCEPT ![e] = d]
                 /\ d.pc = "cooldown" /\ d.way = way /\ d.action = action /\ d.began = safeNow
<1>. DEFINE d == [pc |-> "cooldown", way |-> way, action |-> action, began |-> safeNow,
                  stamp |-> 0, read |-> Safe!TornState]
<1>1. Safe!TornState \in GovernanceStates
  BY DEF Safe!TornState, Safe!NoCharge, GovernanceStates, GovernanceTimes
<1>2. d \in EvaluationType
  BY <1>1 DEF EvaluationType, SafeTypeOK
<1>. QED  BY <1>2 DEF Safe!BeginEvaluation

LEMMA EligibleKnown ==
    ASSUME SafeTypeOK, NEW action, action \in Safe!Eligible[env]
    PROVE  action \in Safe!SafeActions
BY EnvironmentsAssumption DEF Safe!Eligible, Safe!SafeActions, SafeTypeOK

LEMMA RefuseEffect ==
    ASSUME SafeTypeOK, NEW r \in SafeRequests, Safe!Refuse(r)
    PROVE  LET q == safeRequest[r] IN
           /\ q \in SafeRequestType /\ q.pc \in {"evaluate", "gates"}
           /\ SafeGoesOn(r, "ended", q.first, q.second, q.ran)
           /\ evaluation' = [evaluation EXCEPT ![r] = Safe!Resting]
           /\ UNCHANGED <<safeNow, env, freezeStore, operator, promised, charged, safeCauses>>
<1>1. safeRequest[r] \in SafeRequestType
  BY RequestThere DEF Safe!Refuse
<1>2. SafeGoesOn(r, "ended", safeRequest[r].first, safeRequest[r].second, safeRequest[r].ran)
  BY <1>1, EndedEffect DEF Safe!Refuse
<1>. QED  BY <1>1, <1>2 DEF Safe!Refuse, Safe!fixed, Safe!freezeVars

LEMMA BuildEffect ==
    ASSUME SafeTypeOK, NEW r \in SafeRequests, Safe!BuildContract(r)
    PROVE  LET q == safeRequest[r] IN
           /\ q \in SafeRequestType /\ q.pc = "build"
           /\ \/ SafeGoesOn(r, "gates", q.first, q.second, q.ran)
              \/ SafeGoesOn(r, "ended", q.first, q.second, q.ran)
           /\ UNCHANGED <<charged, evaluation>> /\ safeCauses \subseteq safeCauses'
           /\ safeCauses' \subseteq safeCauses \cup {"lineage"}
<1>1. safeRequest[r] \in SafeRequestType /\ safeRequest[r].pc = "build"
  BY RequestThere DEF Safe!BuildContract, Safe!governanceVars
<1>4. /\ UNCHANGED <<charged, evaluation>> /\ safeCauses \subseteq safeCauses'
      /\ safeCauses' \subseteq safeCauses \cup {"lineage"}
  BY DEF Safe!BuildContract, Safe!Trouble, Safe!governanceVars
<1>. PICK c \in SafeRequestType : c = safeRequest[r]
  BY <1>1
<1>2. CASE safeRequest' = Safe!Ended(r, "raised")
  BY <1>1, <1>2, <1>4, EndedEffect DEF Safe!BuildContract
<1>3. CASE safeRequest' = [safeRequest EXCEPT ![r].pc = "gates"]
  <2>1. PICK d \in SafeRequestType : d = [c EXCEPT !.pc = "gates"]
    BY DEF SafeRequestType
  <2>2. /\ d.pc = "gates" /\ d.first = c.first /\ d.second = c.second /\ d.ran = c.ran
        /\ d.kind = c.kind /\ d.app = c.app /\ d.action = c.action /\ d.frozen = c.frozen
    BY <2>1 DEF SafeRequestType
  <2>3. safeRequest' = [safeRequest EXCEPT ![r] = d]
    BY <1>3, <2>1 DEF SafeTypeOK
  <2>4. SafeGoesOn(r, "gates", c.first, c.second, c.ran)
    BY <2>2, <2>3 DEF SafeGoesOn
  <2>. QED  BY <1>1, <1>4, <2>4
<1>. QED  BY <1>1, <1>2, <1>3, <1>4 DEF Safe!BuildContract, Safe!governanceVars

LEMMA RunEffect ==
    ASSUME SafeTypeOK, NEW r \in SafeRequests, Safe!Run(r)
    PROVE  LET q == safeRequest[r] IN
           /\ q \in SafeRequestType /\ q.pc = "execute"
           /\ SafeGoesOn(r, "record", q.first, q.second, TRUE)
<1>1. safeRequest[r] \in SafeRequestType /\ safeRequest[r].pc = "execute"
  BY RequestThere DEF Safe!Run
<1>. PICK c \in SafeRequestType : c = safeRequest[r]
  BY <1>1
<1>2. PICK said \in {"success", "failure"} :
          safeRequest' = [safeRequest EXCEPT ![r] =
              [@ EXCEPT !.pc = "record", !.ran = TRUE, !.answer = said]]
  BY DEF Safe!Run
<1>3. PICK d \in SafeRequestType : d = [c EXCEPT !.pc = "record", !.ran = TRUE, !.answer = said]
  BY DEF SafeRequestType
<1>4. /\ d.pc = "record" /\ d.first = c.first /\ d.second = c.second /\ d.ran = TRUE
      /\ d.kind = c.kind /\ d.app = c.app /\ d.action = c.action /\ d.frozen = c.frozen
  BY <1>3 DEF SafeRequestType
<1>5. safeRequest' = [safeRequest EXCEPT ![r] = d]
  BY <1>2, <1>3 DEF SafeTypeOK
<1>. QED  BY <1>1, <1>4, <1>5 DEF SafeGoesOn

LEMMA RecordEffect ==
    ASSUME SafeTypeOK, NEW r \in SafeRequests, Safe!RecordOutcome(r)
    PROVE  LET q == safeRequest[r] IN
           /\ q \in SafeRequestType /\ q.pc = "record"
           /\ SafeGoesOn(r, "ended", q.first, q.second, q.ran)
           /\ UNCHANGED <<charged, evaluation>> /\ safeCauses \subseteq safeCauses'
           /\ safeCauses' \subseteq safeCauses \cup {"lineage"}
<1>1. safeRequest[r] \in SafeRequestType /\ safeRequest[r].pc = "record"
  BY RequestThere DEF Safe!RecordOutcome
<1>4. /\ UNCHANGED <<charged, evaluation>> /\ safeCauses \subseteq safeCauses'
      /\ safeCauses' \subseteq safeCauses \cup {"lineage"}
  BY DEF Safe!RecordOutcome, Safe!Trouble, Safe!governanceVars
<1>. PICK c \in SafeRequestType : c = safeRequest[r]
  BY <1>1
<1>2. CASE safeRequest' = Safe!Ended(r, "failure")
  BY <1>1, <1>2, <1>4, EndedEffect DEF Safe!RecordOutcome
<1>3. CASE safeRequest' = [safeRequest EXCEPT ![r].pc = "ended"]
  <2>1. PICK d \in SafeRequestType : d = [c EXCEPT !.pc = "ended"]
    BY DEF SafeRequestType
  <2>2. /\ d.pc = "ended" /\ d.first = c.first /\ d.second = c.second /\ d.ran = c.ran
        /\ d.kind = c.kind /\ d.app = c.app /\ d.action = c.action /\ d.frozen = c.frozen
    BY <2>1 DEF SafeRequestType
  <2>3. safeRequest' = [safeRequest EXCEPT ![r] = d]
    BY <1>3, <2>1 DEF SafeTypeOK
  <2>4. SafeGoesOn(r, "ended", c.first, c.second, c.ran)
    BY <2>2, <2>3 DEF SafeGoesOn
  <2>. QED  BY <1>1, <1>4, <2>4
<1>. QED  BY <1>1, <1>2, <1>3, <1>4 DEF Safe!RecordOutcome


\* An arrival: a request of nobody becomes a typed one.
LEMMA ArrivalTyped ==
    ASSUME SafeTypeOK, NEW a \in FreezableApps, NEW action \in Wanted \cup {"noop", "scale_up"},
           NEW kind \in {"direct", "pipe"}
    PROVE  LET q == Safe!NewRequest(kind, a, action)
               refused == [q EXCEPT !.pc = "ended", !.answer = "refused"]
           IN  /\ q \in SafeRequestType /\ q.pc = "evaluate" /\ ~q.ran
               /\ q.kind = kind /\ q.app = a /\ q.action = action
               /\ q.frozen = (promised[a] > safeNow)
               /\ refused \in SafeRequestType /\ refused.pc = "ended" /\ ~refused.ran
<1>1. (promised[a] > safeNow) \in BOOLEAN
  OBVIOUS
<1>2. PICK q \in SafeRequestType : q = Safe!NewRequest(kind, a, action)
  BY <1>1 DEF Safe!NewRequest, SafeRequestType
<1>3. LET refused == [q EXCEPT !.pc = "ended", !.answer = "refused"]
      IN  refused \in SafeRequestType /\ refused.pc = "ended" /\ (~q.ran => ~refused.ran)
  BY DEF SafeRequestType
<1>4. /\ q.pc = "evaluate" /\ ~q.ran /\ q.kind = kind /\ q.app = a
      /\ q.action = action /\ q.frozen = (promised[a] > safeNow)
  BY <1>2 DEF Safe!NewRequest
<1>. QED  BY <1>2, <1>3, <1>4

\* A request arrives as one to evaluate, or is refused at once.  A direct one
\* that is not refused is noop, or for an application that is not frozen.
SafeArrives(r) ==
    /\ safeRequest[r] = Safe!None
    /\ \E q \in SafeRequestType :
          /\ safeRequest' = [safeRequest EXCEPT ![r] = q]
          /\ q.pc \in {"evaluate", "ended"} /\ ~q.ran
          /\ q.kind = "direct" /\ q.pc = "evaluate"
             => /\ q.frozen = (promised[q.app] > safeNow)
                /\ Safe!Frozen(q.app) => q.action = "noop"
                /\ freezeStore.torn => "torn" \in safeCauses'
    /\ safeCauses \subseteq safeCauses' /\ safeCauses' \subseteq safeCauses \cup {"torn"}
    /\ UNCHANGED <<safeNow, env, emergency, charged, evaluation, freezeStore, operator, promised>>

LEMMA ExecuteArrives ==
    ASSUME SafeTypeOK, NEW r \in SafeRequests, NEW a \in FreezableApps,
           NEW action \in Wanted \cup {"noop", "scale_up"}, Safe!ExecuteAction(r, a, action)
    PROVE  SafeArrives(r)
<1>. DEFINE q == Safe!NewRequest("direct", a, action)
            refused == [q EXCEPT !.pc = "ended", !.answer = "refused"]
<1>1. /\ q \in SafeRequestType /\ q.pc = "evaluate" /\ ~q.ran
      /\ q.kind = "direct" /\ q.app = a /\ q.action = action
      /\ q.frozen = (promised[a] > safeNow)
      /\ refused \in SafeRequestType /\ refused.pc = "ended" /\ ~refused.ran
  BY ArrivalTyped
<1>2. CASE Safe!Frozen(a) /\ action # "noop"
  <2>1. safeRequest' = [safeRequest EXCEPT ![r] = refused]
    BY <1>2 DEF Safe!ExecuteAction
  <2>. HIDE DEF refused, q
  <2>. QED  BY <1>1, <2>1 DEF SafeArrives, Safe!ExecuteAction, Safe!fixed, Safe!freezeVars, Safe!governanceVars
<1>3. CASE ~(Safe!Frozen(a) /\ action # "noop")
  <2>1. safeRequest' = [safeRequest EXCEPT ![r] = q]
    BY <1>3 DEF Safe!ExecuteAction
  <2>. HIDE DEF q
  <2>2. freezeStore.torn => "torn" \in safeCauses'
    BY DEF Safe!ExecuteAction
  <2>. QED  BY <1>1, <1>3, <2>1, <2>2 DEF SafeArrives, Safe!ExecuteAction, Safe!fixed, Safe!freezeVars, Safe!governanceVars
<1>. QED  BY <1>2, <1>3

LEMMA ValidateArrives ==
    ASSUME SafeTypeOK, NEW r \in SafeRequests, NEW a \in FreezableApps,
           NEW index \in {2, 5}, Safe!ValidateAndExecute(r, a, index)
    PROVE  SafeArrives(r)
<1>1. CASE index = 2
  <2>1. 2 \in DOMAIN Safe!ActionMap /\ Safe!ActionMap[2] = "scale_up"
    BY DEF Safe!ActionMap
  <2>. QED  BY <1>1, <2>1, ExecuteArrives DEF Safe!ValidateAndExecute
<1>2. CASE index = 5
  <2>1. 5 \notin DOMAIN Safe!ActionMap
    BY DEF Safe!ActionMap
  <2>. DEFINE q == Safe!NewRequest("direct", a, "noop")
              refused == [q EXCEPT !.pc = "ended", !.answer = "refused"]
  <2>2. /\ q \in SafeRequestType /\ q.pc = "evaluate" /\ ~q.ran
        /\ q.kind = "direct" /\ q.app = a /\ q.action = "noop"
        /\ q.frozen = (promised[a] > safeNow)
        /\ refused \in SafeRequestType /\ refused.pc = "ended" /\ ~refused.ran
    <3>1. "noop" \in Wanted \cup {"noop", "scale_up"} /\ "direct" \in {"direct", "pipe"}
      OBVIOUS
    <3>. QED  BY ZenonT(40), <3>1, ArrivalTyped
  <2>3. /\ safeRequest[r] = Safe!None /\ safeRequest' = [safeRequest EXCEPT ![r] = refused]
        /\ UNCHANGED <<safeNow, Safe!fixed, Safe!governanceVars, Safe!freezeVars, lineage, replicas, safeCauses, safeTroubles>>
    BY <1>2, <2>1 DEF Safe!ValidateAndExecute
  <2>. HIDE DEF refused, q
  <2>. QED  BY <2>2, <2>3 DEF SafeArrives, Safe!fixed, Safe!freezeVars, Safe!governanceVars
<1>. QED  BY <1>1, <1>2

LEMMA PipeArrives ==
    ASSUME SafeTypeOK, NEW r \in SafeRequests, NEW a \in FreezableApps,
           NEW action \in Wanted \cup {"fallback"}, Safe!PipeRuntimeEvent(r, a, action)
    PROVE  SafeArrives(r)
<1>1. CASE action = "fallback"
  <2>. DEFINE q == Safe!NewRequest("pipe", a, "noop")
              refused == [q EXCEPT !.pc = "ended", !.answer = "refused"]
  <2>1. /\ q \in SafeRequestType /\ q.pc = "evaluate" /\ ~q.ran
        /\ q.kind = "pipe" /\ q.app = a /\ q.action = "noop"
        /\ q.frozen = (promised[a] > safeNow)
        /\ refused \in SafeRequestType /\ refused.pc = "ended" /\ ~refused.ran
    <3>1. "noop" \in Wanted \cup {"noop", "scale_up"} /\ "pipe" \in {"direct", "pipe"}
      OBVIOUS
    <3>. QED  BY ZenonT(40), <3>1, ArrivalTyped
  <2>2. safeRequest' = [safeRequest EXCEPT ![r] = refused]
    BY <1>1 DEF Safe!PipeRuntimeEvent
  <2>. HIDE DEF refused, q
  <2>. QED  BY <2>1, <2>2 DEF SafeArrives, Safe!PipeRuntimeEvent, Safe!fixed, Safe!freezeVars, Safe!governanceVars
<1>2. CASE action # "fallback"
  <2>. DEFINE q == Safe!NewRequest("pipe", a, action)
  <2>0. action \in Wanted \cup {"noop", "scale_up"} /\ "pipe" \in {"direct", "pipe"}
    BY <1>2
  <2>. DEFINE refused == [q EXCEPT !.pc = "ended", !.answer = "refused"]
  <2>1. /\ q \in SafeRequestType /\ q.pc = "evaluate" /\ ~q.ran
        /\ q.kind = "pipe" /\ q.app = a /\ q.action = action
        /\ q.frozen = (promised[a] > safeNow)
        /\ refused \in SafeRequestType /\ refused.pc = "ended" /\ ~refused.ran
    BY <2>0, ArrivalTyped
  <2>2. safeRequest' = [safeRequest EXCEPT ![r] = q]
    BY <1>2 DEF Safe!PipeRuntimeEvent
  <2>. HIDE DEF q, refused
  <2>. QED  BY <2>1, <2>2 DEF SafeArrives, Safe!PipeRuntimeEvent, Safe!fixed, Safe!freezeVars, Safe!governanceVars
<1>. QED  BY <1>1, <1>2

\* All that a request can do: arrive, leave, end, go on, or begin an evaluation.
SafeBegins(r) ==
    LET q == safeRequest[r] IN
    /\ UNCHANGED safeRequest
    /\ q \in SafeRequestType /\ q.action \in Safe!SafeActions
    /\ evaluation[r] = Safe!Resting
    /\ \E d \in EvaluationType :
          /\ evaluation' = [evaluation EXCEPT ![r] = d]
          /\ d.pc = "cooldown" /\ d.action = q.action /\ d.began = safeNow
          /\ \/ d.way = "contract" /\ q.pc = "evaluate"
             \/ d.way = "direct" /\ q.pc = "gates"

LEMMA ServeEffect ==
    ASSUME SafeTypeOK, NEW r \in SafeRequests, Safe!Serve(r)
    PROVE  LET q == safeRequest[r] IN
           /\ UNCHANGED <<safeNow, env, freezeStore, operator, promised, charged>>
           /\ safeCauses \subseteq safeCauses'
           /\ \/ SafeArrives(r) /\ UNCHANGED evaluation
              \/ /\ q.pc = "ended" /\ safeRequest' = [safeRequest EXCEPT ![r] = Safe!None]
                 /\ UNCHANGED <<evaluation, safeCauses>>
              \/ /\ q \in SafeRequestType /\ q.pc \in {"evaluate", "gates"}
                 /\ SafeGoesOn(r, "ended", q.first, q.second, q.ran)
                 /\ evaluation' = [evaluation EXCEPT ![r] = Safe!Resting]
              \/ /\ q \in SafeRequestType /\ UNCHANGED evaluation
                 /\ \/ /\ q.pc \in {"build", "record"}
                       /\ SafeGoesOn(r, "ended", q.first, q.second, q.ran)
                    \/ q.pc = "build" /\ SafeGoesOn(r, "gates", q.first, q.second, q.ran)
                    \/ q.pc = "execute" /\ SafeGoesOn(r, "record", q.first, q.second, TRUE)
              \/ SafeBegins(r)
<1>. USE DEF Safe!governanceVars
<1>0. r \in Safe!Evaluators
  BY DEF Safe!Evaluators
<1>1. CASE \E a \in FreezableApps, action \in Wanted : Safe!ExecuteAction(r, a, action)
  <2>1. PICK a \in FreezableApps, action \in Wanted : Safe!ExecuteAction(r, a, action)
    BY <1>1
  <2>2. SafeArrives(r)
    BY <2>1, ExecuteArrives
  <2>. QED  BY <2>2 DEF SafeArrives
<1>2. CASE \E a \in FreezableApps, index \in {2, 5} : Safe!ValidateAndExecute(r, a, index)
  <2>1. SafeArrives(r)
    BY <1>2, ValidateArrives
  <2>. QED  BY <2>1 DEF SafeArrives
<1>3. CASE \E a \in FreezableApps, action \in Wanted \cup {"fallback"} :
              Safe!PipeRuntimeEvent(r, a, action)
  <2>1. SafeArrives(r)
    BY <1>3, PipeArrives
  <2>. QED  BY <2>1 DEF SafeArrives
<1>4. CASE Safe!EvaluateContract(r)
  <2>1. /\ UNCHANGED <<safeNow, env, freezeStore, operator, promised, charged, safeCauses>>
        /\ UNCHANGED safeRequest /\ safeRequest[r].pc = "evaluate"
        /\ safeRequest[r].action \in Safe!Eligible[env]
        /\ Safe!BeginEvaluation(r, "contract", safeRequest[r].action)
    BY <1>4 DEF Safe!EvaluateContract, Safe!fixed, Safe!freezeVars
  <2>2. safeRequest[r].action \in Safe!SafeActions /\ safeRequest[r] \in SafeRequestType
    BY <2>1, EligibleKnown, RequestThere
  <2>3. SafeBegins(r)
    BY <1>0, <2>1, <2>2, BeginEffect DEF SafeBegins
  <2>. QED  BY <2>1, <2>3
<1>5. CASE Safe!BuildContract(r)
  <2>1. UNCHANGED <<safeNow, env, freezeStore, operator, promised, charged>>
    BY <1>5 DEF Safe!BuildContract, Safe!fixed, Safe!freezeVars
  <2>. QED  BY <1>5, <2>1, BuildEffect
<1>6. CASE Safe!Refuse(r)
  BY <1>6, RefuseEffect
<1>7. CASE Safe!PassGates(r)
  <2>1. /\ UNCHANGED <<safeNow, env, freezeStore, operator, promised, charged, safeCauses>>
        /\ UNCHANGED safeRequest /\ safeRequest[r].pc = "gates"
        /\ safeRequest[r].action \in Safe!Eligible[env]
        /\ Safe!BeginEvaluation(r, "direct", safeRequest[r].action)
    BY <1>7 DEF Safe!PassGates, Safe!fixed, Safe!freezeVars
  <2>2. safeRequest[r].action \in Safe!SafeActions /\ safeRequest[r] \in SafeRequestType
    BY <2>1, EligibleKnown, RequestThere
  <2>3. SafeBegins(r)
    BY <1>0, <2>1, <2>2, BeginEffect DEF SafeBegins
  <2>. QED  BY <2>1, <2>3
<1>8. CASE Safe!Run(r)
  <2>1. UNCHANGED <<safeNow, env, freezeStore, operator, promised, charged, evaluation, safeCauses>>
    BY <1>8 DEF Safe!Run, Safe!fixed, Safe!freezeVars
  <2>. QED  BY <1>8, <2>1, RunEffect
<1>9. CASE Safe!RecordOutcome(r)
  <2>1. UNCHANGED <<safeNow, env, freezeStore, operator, promised, charged>>
    BY <1>9 DEF Safe!RecordOutcome, Safe!fixed, Safe!freezeVars
  <2>. QED  BY <1>9, <2>1, RecordEffect
<1>10. CASE Safe!Leave(r)
  BY <1>10 DEF Safe!Leave, Safe!fixed, Safe!freezeVars
<1>. QED  BY <1>1, <1>2, <1>3, <1>4, <1>5, <1>6, <1>7, <1>8, <1>9, <1>10 DEF Safe!Serve

\* The steps of an evaluation: it moves on, or its caller is admitted.
SafeMoves(e) ==
    /\ UNCHANGED safeRequest
    /\ \E d \in EvaluationType :
          /\ evaluation' = [evaluation EXCEPT ![e] = d]
          /\ d.way = evaluation[e].way /\ d.action = evaluation[e].action
          /\ d.began = evaluation[e].began
          /\ \/ /\ evaluation[e].pc \in {"cooldown", "repetition"} /\ UNCHANGED charged
                /\ d.read = charged
                /\ charged.torn => "lost" \in safeCauses'
                /\ \/ /\ evaluation[e].pc = "cooldown" /\ d.pc = "repetition"
                      /\ Safe!Cool(d.action, d.began)
                   \/ /\ evaluation[e].pc = "repetition" /\ d.pc = "admit"
                      /\ charged # evaluation[e].read => "raced" \in safeCauses'
             \/ /\ evaluation[e].pc = "admit" /\ d.pc = "open" /\ UNCHANGED charged
                /\ d.read = evaluation[e].read
                /\ d.stamp = IF d.way = "direct" THEN d.began ELSE safeNow
             \/ /\ evaluation[e].pc = "open" /\ d.pc = "dump" /\ charged' = Safe!TornState
                /\ d.read = evaluation[e].read /\ d.stamp = evaluation[e].stamp
                /\ charged # evaluation[e].read => "raced" \in safeCauses'

SafeAdmits(e) ==
    /\ evaluation[e].pc \in {"open", "dump"}
    /\ Safe!Admit(e)
    /\ \/ /\ "unsaved" \in safeCauses' /\ charged' \in {charged, Safe!TornState}
       \/ /\ evaluation[e].pc = "dump"
          /\ charged' \in {Safe!TornState, Safe!Kept([evaluation[e].read.last EXCEPT
                               ![evaluation[e].action] = evaluation[e].stamp])}
          /\ evaluation[e].way # "api" /\ Safe!Alone(e) => charged' # Safe!TornState

LEMMA EvaluateEffect ==
    ASSUME SafeTypeOK, NEW e \in Safe!Evaluators, Safe!Evaluate(e)
    PROVE  /\ UNCHANGED <<safeNow, env, freezeStore, operator, promised>>
           /\ safeCauses \subseteq safeCauses'
           /\ evaluation[e] \in EvaluationType
           /\ SafeMoves(e) \/ SafeAdmits(e)
<1>0. UNCHANGED <<safeNow, env, freezeStore, operator, promised>> /\ safeCauses \subseteq safeCauses'
  BY DEF Safe!Evaluate, Safe!CheckCooldown, Safe!CheckRepetition, Safe!RecordAction,
         Safe!OpenState, Safe!DumpState, Safe!SaveFails, Safe!Admit, Safe!Trouble,
         Safe!fixed, Safe!freezeVars
<1>1. evaluation[e].pc # "resting"
  BY DEF Safe!Evaluate, Safe!CheckCooldown, Safe!CheckRepetition, Safe!RecordAction,
         Safe!OpenState, Safe!DumpState, Safe!SaveFails
<1>. PICK c \in EvaluationType : c = evaluation[e]
  BY <1>1, EvaluationThere
<1>2. charged \in GovernanceStates
  BY DEF SafeTypeOK
<1>3. ASSUME NEW place \in {"repetition", "admit"}
      PROVE  \E d \in EvaluationType :
                /\ d = [c EXCEPT !.pc = place, !.read = charged]
                /\ d.pc = place /\ d.way = c.way /\ d.action = c.action /\ d.began = c.began
                /\ d.read = charged
  <2>. DEFINE d == [c EXCEPT !.pc = place, !.read = charged]
  <2>1. d \in EvaluationType
    BY <1>2 DEF EvaluationType
  <2>2. /\ d.pc = place /\ d.way = c.way /\ d.action = c.action /\ d.began = c.began
        /\ d.read = charged
    BY DEF EvaluationType
  <2>. QED  BY <2>1, <2>2
<1>4. CASE Safe!CheckCooldown(e)
  <2>1. PICK d \in EvaluationType :
            /\ d = [c EXCEPT !.pc = "repetition", !.read = charged]
            /\ d.pc = "repetition" /\ d.way = c.way /\ d.action = c.action /\ d.began = c.began
            /\ d.read = charged
    BY <1>3
  <2>2. /\ c.pc = "cooldown" /\ Safe!Cool(c.action, c.began)
        /\ evaluation' = [evaluation EXCEPT ![e] = d]
        /\ UNCHANGED <<charged, safeRequest>> /\ safeCauses' = safeCauses \cup Safe!Lost
    BY <1>4, <2>1 DEF Safe!CheckCooldown, Safe!Loaded
  <2>3. charged.torn => "lost" \in safeCauses'
    BY <2>2 DEF Safe!Lost
  <2>4. SafeMoves(e)
    BY <2>1, <2>2, <2>3 DEF SafeMoves
  <2>. QED  BY <1>0, <2>4
<1>5. CASE Safe!CheckRepetition(e)
  <2>1. PICK d \in EvaluationType :
            /\ d = [c EXCEPT !.pc = "admit", !.read = charged]
            /\ d.pc = "admit" /\ d.way = c.way /\ d.action = c.action /\ d.began = c.began
            /\ d.read = charged
    BY <1>3
  <2>2. /\ c.pc = "repetition" /\ evaluation' = [evaluation EXCEPT ![e] = d]
        /\ UNCHANGED <<charged, safeRequest>>
        /\ safeCauses' = safeCauses \cup Safe!Lost \cup Safe!Raced(e)
    BY <1>5, <2>1 DEF Safe!CheckRepetition, Safe!Loaded
  <2>3. /\ charged.torn => "lost" \in safeCauses'
        /\ charged # evaluation[e].read => "raced" \in safeCauses'
    BY <2>2 DEF Safe!Lost, Safe!Raced
  <2>4. SafeMoves(e)
    BY <2>1, <2>2, <2>3 DEF SafeMoves
  <2>. QED  BY <1>0, <2>4
<1>6. CASE Safe!RecordAction(e)
  <2>. DEFINE t == IF c.way = "direct" THEN c.began ELSE safeNow
  <2>1. t \in Nat
    BY DEF EvaluationType, SafeTypeOK
  <2>2. PICK d \in EvaluationType : d = [c EXCEPT !.pc = "open", !.stamp = t]
    BY <2>1 DEF EvaluationType
  <2>3. /\ d.pc = "open" /\ d.stamp = t /\ d.way = c.way /\ d.action = c.action
        /\ d.began = c.began /\ d.read = c.read
    BY <2>2 DEF EvaluationType
  <2>4. /\ c.pc = "admit" /\ evaluation' = [evaluation EXCEPT ![e] = d]
        /\ UNCHANGED <<charged, safeRequest>>
    BY <1>6, <2>2 DEF Safe!RecordAction
  <2>5. SafeMoves(e)
    BY <2>3, <2>4 DEF SafeMoves
  <2>. QED  BY <1>0, <2>5
<1>7. CASE Safe!OpenState(e)
  <2>1. PICK d \in EvaluationType : d = [c EXCEPT !.pc = "dump"]
    BY DEF EvaluationType
  <2>2. /\ d.pc = "dump" /\ d.stamp = c.stamp /\ d.way = c.way /\ d.action = c.action
        /\ d.began = c.began /\ d.read = c.read
    BY <2>1 DEF EvaluationType
  <2>3. /\ c.pc = "open" /\ evaluation' = [evaluation EXCEPT ![e] = d]
        /\ charged' = Safe!TornState /\ UNCHANGED safeRequest
        /\ safeCauses' = safeCauses \cup Safe!Raced(e)
    BY <1>7, <2>1 DEF Safe!OpenState
  <2>4. charged # evaluation[e].read => "raced" \in safeCauses'
    BY <2>3 DEF Safe!Raced
  <2>5. SafeMoves(e)
    BY <2>2, <2>3, <2>4 DEF SafeMoves
  <2>. QED  BY <1>0, <2>5
<1>8. CASE Safe!DumpState(e)
  <2>1. Safe!Kept([evaluation[e].read.last EXCEPT ![evaluation[e].action] = evaluation[e].stamp])
            # Safe!TornState
    BY DEF Safe!Kept, Safe!TornState
  <2>2. SafeAdmits(e)
    BY <1>8, <2>1 DEF Safe!DumpState, SafeAdmits
  <2>. QED  BY <1>0, <2>2
<1>9. CASE Safe!SaveFails(e)
  <2>1. SafeAdmits(e)
    BY <1>9 DEF Safe!SaveFails, Safe!Trouble, SafeAdmits
  <2>. QED  BY <1>0, <2>1
<1>. QED  BY <1>4, <1>5, <1>6, <1>7, <1>8, <1>9 DEF Safe!Evaluate

\* An admitted request is charged, or goes to its action.
LEMMA AdmitEffect ==
    ASSUME SafeTypeOK, NEW r \in SafeRequests, Safe!Admit(r),
           evaluation[r] \in EvaluationType, safeRequest[r] \in SafeRequestType
    PROVE  LET q == safeRequest[r] IN
           \/ q.pc = "evaluate" /\ SafeGoesOn(r, "build", evaluation[r].stamp, q.second, q.ran)
           \/ q.pc # "evaluate" /\ SafeGoesOn(r, "execute", q.first, evaluation[r].began, q.ran)
<1>. PICK c \in SafeRequestType : c = safeRequest[r]
  OBVIOUS
<1>0. evaluation[r].stamp \in Nat /\ evaluation[r].began \in Nat
  BY DEF EvaluationType
<1>1. CASE c.pc = "evaluate"
  <2>1. PICK d \in SafeRequestType : d = [c EXCEPT !.pc = "build", !.first = evaluation[r].stamp]
    BY <1>0 DEF SafeRequestType
  <2>2. /\ d.pc = "build" /\ d.first = evaluation[r].stamp /\ d.second = c.second /\ d.ran = c.ran
        /\ d.kind = c.kind /\ d.app = c.app /\ d.action = c.action /\ d.frozen = c.frozen
    BY <2>1 DEF SafeRequestType
  <2>3. safeRequest' = [safeRequest EXCEPT ![r] = d]
    BY <1>1, <2>1 DEF Safe!Admit, SafeTypeOK
  <2>. QED  BY <1>1, <2>2, <2>3 DEF SafeGoesOn
<1>2. CASE c.pc # "evaluate"
  <2>1. PICK d \in SafeRequestType : d = [c EXCEPT !.pc = "execute", !.second = evaluation[r].began]
    BY <1>0 DEF SafeRequestType
  <2>2. /\ d.pc = "execute" /\ d.first = c.first /\ d.second = evaluation[r].began /\ d.ran = c.ran
        /\ d.kind = c.kind /\ d.app = c.app /\ d.action = c.action /\ d.frozen = c.frozen
    BY <2>1 DEF SafeRequestType
  <2>3. safeRequest' = [safeRequest EXCEPT ![r] = d]
    BY <1>2, <2>1 DEF Safe!Admit, SafeTypeOK
  <2>. QED  BY <1>2, <2>2, <2>3 DEF SafeGoesOn
<1>. QED  BY <1>1, <1>2

LEMMA SafeTypeStep ==
    ASSUME SafeTypeOK, Safe!Next,
           \A r \in SafeRequests : evaluation[r] # Safe!Resting => safeRequest[r] # Safe!None
    PROVE  SafeTypeOK'
<1>0. Safe!TornState \in GovernanceStates
  BY DEF Safe!TornState, Safe!NoCharge, GovernanceStates, GovernanceTimes
<1>1. ASSUME NEW r \in SafeRequests, Safe!Serve(r) PROVE SafeTypeOK'
  <2>1. /\ UNCHANGED <<safeNow, env, freezeStore, operator, promised, charged>>
        /\ \E d \in SafeRequestType \cup {Safe!None} :
              safeRequest' = [safeRequest EXCEPT ![r] = d] \/ UNCHANGED safeRequest
        /\ \E d \in EvaluationType \cup {Safe!Resting} :
              evaluation' = [evaluation EXCEPT ![r] = d] \/ UNCHANGED evaluation
    <3>1. \A place, first, second, ran : SafeGoesOn(r, place, first, second, ran) =>
              \E d \in SafeRequestType \cup {Safe!None} : safeRequest' = [safeRequest EXCEPT ![r] = d]
      BY DEF SafeGoesOn
    <3>2. SafeArrives(r) =>
              \E d \in SafeRequestType \cup {Safe!None} : safeRequest' = [safeRequest EXCEPT ![r] = d]
      BY DEF SafeArrives
    <3>. QED  BY <1>1, <3>1, <3>2, ServeEffect DEF SafeBegins
  <2>. QED  BY <2>1 DEF SafeTypeOK
<1>4. ASSUME NEW e \in Safe!Evaluators, Safe!Evaluate(e) PROVE SafeTypeOK'
  <2>1. /\ UNCHANGED <<safeNow, env, freezeStore, operator, promised>>
        /\ evaluation[e] \in EvaluationType
        /\ SafeMoves(e) \/ SafeAdmits(e)
    BY <1>4, EvaluateEffect
  <2>2. evaluation' \in [Safe!Evaluators -> EvaluationType \cup {Safe!Resting}]
    BY <2>1 DEF SafeMoves, SafeAdmits, Safe!Admit, SafeTypeOK
  <2>3. charged' \in GovernanceStates
    <3>1. Safe!Kept([evaluation[e].read.last EXCEPT ![evaluation[e].action] = evaluation[e].stamp])
              \in GovernanceStates
      <4>1. /\ evaluation[e].read.last \in GovernanceTimes /\ evaluation[e].stamp \in Nat
            /\ evaluation[e].action \in Safe!SafeActions
        BY <2>1 DEF EvaluationType, GovernanceStates
      <4>2. [evaluation[e].read.last EXCEPT ![evaluation[e].action] = evaluation[e].stamp]
                \in GovernanceTimes
        BY <4>1 DEF GovernanceTimes
      <4>. QED  BY <4>2 DEF Safe!Kept, GovernanceStates
    <3>. QED  BY <1>0, <2>1, <3>1 DEF SafeMoves, SafeAdmits, SafeTypeOK
  <2>4. safeRequest' \in [SafeRequests -> SafeRequestType \cup {Safe!None}]
    <3>1. CASE SafeMoves(e)
      BY <3>1 DEF SafeMoves, SafeTypeOK
    <3>2. CASE SafeAdmits(e) /\ e \notin SafeRequests
      BY <3>2 DEF SafeAdmits, Safe!Admit, SafeTypeOK
    <3>3. CASE SafeAdmits(e) /\ e \in SafeRequests
      <4>1. evaluation[e] # Safe!Resting
        BY <2>1 DEF EvaluationType, Safe!Resting
      <4>2. safeRequest[e] \in SafeRequestType
        BY <3>3, <4>1 DEF SafeTypeOK
      <4>3. \E d \in SafeRequestType : safeRequest' = [safeRequest EXCEPT ![e] = d]
        BY <2>1, <3>3, <4>2, AdmitEffect DEF SafeAdmits, SafeGoesOn
      <4>. QED  BY <3>3, <4>3 DEF SafeTypeOK
    <3>. QED  BY <2>1, <3>1, <3>2, <3>3
  <2>. QED  BY <2>1, <2>2, <2>3, <2>4 DEF SafeTypeOK
<1>5. ASSUME NEW o \in OtherEvaluators, Safe!BeginElsewhere(o) PROVE SafeTypeOK'
  <2>1. PICK way \in {"contract", "direct", "api"}, action \in Wanted \cap Safe!SafeActions :
            Safe!BeginEvaluation(o, way, action)
    BY <1>5 DEF Safe!BeginElsewhere
  <2>2. \E d \in EvaluationType : evaluation' = [evaluation EXCEPT ![o] = d]
    BY <2>1, BeginEffect DEF Safe!Evaluators
  <2>. QED  BY <1>5, <2>2 DEF Safe!BeginElsewhere, SafeTypeOK, Safe!fixed, Safe!governanceVars
<1>6. ASSUME NEW o \in OtherEvaluators, Safe!EndElsewhere(o) PROVE SafeTypeOK'
  BY <1>6 DEF Safe!EndElsewhere, SafeTypeOK, Safe!fixed, Safe!governanceVars, Safe!freezeVars
<1>2. ASSUME NEW o \in Evaluations, Safe!Operate(o) PROVE SafeTypeOK'
  <2>1. CASE \E a \in FreezableApps, until \in {0, safeNow + 1} : Safe!ReadStore(o, a, until)
    <3>1. PICK a \in FreezableApps, until \in {0, safeNow + 1} : Safe!ReadStore(o, a, until)
      BY <2>1
    <3>2. [pc |-> "open", app |-> a, until |-> until, read |-> freezeStore.until] \in OperatorType
      BY DEF SafeTypeOK, OperatorType
    <3>. QED  BY <3>1, <3>2 DEF SafeTypeOK, Safe!ReadStore, Safe!fixed, Safe!governanceVars
  <2>2. CASE Safe!OpenStore(o)
    <3>1. operator[o] \in OperatorType
      BY <2>2 DEF Safe!OpenStore, SafeTypeOK, Safe!Waiting
    <3>. PICK c \in OperatorType : c = operator[o]
      BY <3>1
    <3>2. [c EXCEPT !.pc = "write"] \in OperatorType
      BY DEF OperatorType
    <3>3. operator' \in [Evaluations -> OperatorType \cup {Safe!Waiting}]
      BY <2>2, <3>2 DEF Safe!OpenStore, SafeTypeOK
    <3>4. freezeStore' \in [torn : BOOLEAN, until : FreezeTimes]
      BY <2>2 DEF Safe!OpenStore, Safe!Torn, FreezeTimes
    <3>. QED  BY <2>2, <3>3, <3>4 DEF Safe!OpenStore, SafeTypeOK, Safe!fixed, Safe!governanceVars
  <2>3. CASE Safe!WriteStore(o)
    <3>1. operator[o] \in OperatorType
      BY <2>3 DEF Safe!WriteStore, SafeTypeOK, Safe!Waiting
    <3>2. /\ operator[o].app \in FreezableApps /\ operator[o].until \in Nat
          /\ operator[o].read \in FreezeTimes
      BY <3>1 DEF OperatorType
    <3>3. /\ [operator[o].read EXCEPT ![operator[o].app] = operator[o].until] \in FreezeTimes
          /\ promised' \in FreezeTimes
      BY <2>3, <3>2 DEF FreezeTimes, Safe!WriteStore, SafeTypeOK
    <3>4. freezeStore' \in [torn : BOOLEAN, until : FreezeTimes]
      BY <2>3, <3>3 DEF Safe!WriteStore, Safe!Whole
    <3>. QED  BY <2>3, <3>3, <3>4 DEF Safe!WriteStore, SafeTypeOK, Safe!fixed, Safe!governanceVars
  <2>4. CASE Safe!WriteStoreFails(o)
    BY <2>4 DEF Safe!WriteStoreFails, SafeTypeOK, Safe!fixed, Safe!governanceVars
  <2>. QED  BY <1>2, <2>1, <2>2, <2>3, <2>4 DEF Safe!Operate
<1>3. CASE Safe!Tick
  BY <1>3 DEF Safe!Tick, SafeTypeOK, Safe!fixed, Safe!governanceVars, Safe!freezeVars
<1>. QED  BY <1>1, <1>2, <1>3, <1>4, <1>5, <1>6 DEF Safe!Next


----------------------------------------------------------------------------
(* SafeOrchestrator: the invariants.                                       *)

Undisturbed == safeCauses \cap {"unsaved", "lost", "raced"} = {}
Governed(action) == action \notin Safe!Ungoverned

\* The times hold the first charge of a request that has not had its second ...
Remembers(r, last) ==
    LET q == safeRequest[r] IN
    q # Safe!None /\ q.pc \in {"build", "gates"} /\ Governed(q.action)
    => last[q.action] >= q.first

\* ... so that the last gate opens only after the cooldown.
RequestInv(r) ==
    LET q == safeRequest[r] IN
    q # Safe!None =>
        /\ q.pc \in {"evaluate", "build", "gates", "execute"} => ~q.ran
        /\ q.pc \in {"build", "gates"} =>
              q.action \in Safe!SafeActions /\ q.first >= 1 /\ q.first <= safeNow
        /\ Undisturbed /\ Governed(q.action) /\ (q.pc = "execute" \/ q.ran)
           => q.second - q.first >= Cooldown

\* An evaluation has seen no time that is still to come, and that of a request
\* is the one its place calls for.
EvaluationInv(e) ==
    LET v == evaluation[e] IN
    v # Safe!Resting =>
        /\ v.began >= 1 /\ v.began <= safeNow
        /\ v.pc \in {"open", "dump"} => v.stamp >= 1 /\ v.stamp <= safeNow
        /\ v.pc # "cooldown" =>
              \A a \in Safe!SafeActions : v.read.last[a] <= safeNow
        /\ e \in SafeRequests =>
              /\ safeRequest[e] # Safe!None /\ safeRequest[e].action = v.action
              /\ \/ v.way = "contract" /\ safeRequest[e].pc = "evaluate"
                 \/ v.way = "direct" /\ safeRequest[e].pc = "gates"

Written(e) == [evaluation[e].read.last EXCEPT ![evaluation[e].action] = evaluation[e].stamp]

\* Undisturbed, an evaluation records a time that is not before the one it
\* read, and writes alone what holds every first charge.
EvaluationSound(e) ==
    LET v == evaluation[e] IN
    v # Safe!Resting =>
        /\ v.pc \in {"repetition", "admit", "open"} => ~v.read.torn
        /\ v.pc \in {"repetition", "admit"} /\ Governed(v.action)
           => v.began >= v.read.last[v.action]
        /\ v.pc = "open" /\ Governed(v.action) => v.stamp >= v.read.last[v.action]
        /\ v.pc = "dump" =>
              /\ charged.torn /\ \A d \in Safe!Evaluators : evaluation[d].pc = "dump" => d = e
              /\ \A r \in SafeRequests : Remembers(r, Written(e))
        /\ e \in SafeRequests /\ v.way = "direct" /\ v.pc # "cooldown" /\ Governed(v.action)
           => v.began - safeRequest[e].first >= Cooldown

ChargesSound ==
    Undisturbed =>
        /\ ~charged.torn => \A r \in SafeRequests : Remembers(r, charged.last)
        /\ \A e \in Safe!Evaluators : EvaluationSound(e)

ChargesInv ==
    /\ \A a \in Safe!SafeActions : charged.last[a] <= safeNow
    /\ \A r \in SafeRequests : RequestInv(r)
    /\ \A e \in Safe!Evaluators : EvaluationInv(e)
    /\ ChargesSound

\* As long as operators take turns and no half-written store was read, the
\* store is what was promised, or one of them is writing it.
StoreInv ==
    safeCauses \cap {"overlap", "torn"} = {} =>
        /\ \A o, p \in Evaluations :
              operator[o].pc # "idle" /\ operator[p].pc # "idle" => o = p
        /\ ~freezeStore.torn => freezeStore.until = promised
        /\ \A o \in Evaluations :
              /\ operator[o].pc # "idle" => operator[o].read = promised
              /\ operator[o].pc = "open" => ~freezeStore.torn
        /\ \A r \in SafeRequests :
              LET q == safeRequest[r] IN
              q # Safe!None /\ q.kind = "direct" /\ q.frozen /\ q.action # "noop"
              => q.pc = "ended" /\ ~q.ran

SafeInv == SafeTypeOK /\ ChargesInv /\ StoreInv

LEMMA SafeInvInit == Safe!Init => SafeInv
<1>. SUFFICES ASSUME Safe!Init PROVE SafeInv
  OBVIOUS
<1>1. SafeTypeOK
  BY DEF Safe!Init, SafeTypeOK, Safe!Torn, Safe!Whole, FreezeTimes, Safe!Kept, Safe!NoCharge,
         GovernanceStates, GovernanceTimes
<1>2. ChargesInv
  BY DEF Safe!Init, ChargesInv, RequestInv, EvaluationInv, ChargesSound, EvaluationSound,
         Remembers, Safe!Kept, Safe!NoCharge
<1>3. StoreInv
  BY DEF Safe!Init, StoreInv, Safe!Torn, Safe!Whole, Safe!Waiting
<1>. QED  BY <1>1, <1>2, <1>3 DEF SafeInv

\* What touches neither charges nor requests nor evaluations keeps their invariant.
LEMMA QuietCharges ==
    ASSUME SafeInv, UNCHANGED <<charged, safeRequest, evaluation>>,
           safeNow' \in Nat, safeNow' >= safeNow, safeCauses \subseteq safeCauses'
    PROVE  ChargesInv'
<1>. USE DEF SafeInv
<1>1. \A a \in Safe!SafeActions : charged'.last[a] <= safeNow'
  <2>1. charged.last \in GovernanceTimes /\ safeNow \in Nat
    BY DEF SafeTypeOK, GovernanceStates
  <2>. QED  BY <2>1 DEF ChargesInv, GovernanceTimes
<1>2. ASSUME NEW r \in SafeRequests PROVE RequestInv(r)'
  <2>1. safeRequest[r] # Safe!None => safeRequest[r].first \in Nat /\ safeNow \in Nat
    BY DEF SafeTypeOK, SafeRequestType
  <2>. QED  BY <2>1 DEF ChargesInv, RequestInv, Undisturbed
<1>3. ASSUME NEW e \in Safe!Evaluators PROVE EvaluationInv(e)'
  <2>. SUFFICES ASSUME evaluation[e] # Safe!Resting PROVE EvaluationInv(e)'
    BY DEF EvaluationInv
  <2>1. evaluation[e] \in EvaluationType /\ EvaluationInv(e) /\ safeNow \in Nat
    BY DEF SafeTypeOK, ChargesInv
  <2>2. /\ evaluation[e].began \in Nat /\ evaluation[e].stamp \in Nat
        /\ \A a \in Safe!SafeActions : evaluation[e].read.last[a] \in Nat
    BY <2>1 DEF EvaluationType, GovernanceStates, GovernanceTimes
  <2>. QED  BY <2>1, <2>2 DEF EvaluationInv
<1>4. ChargesSound'
  BY DEF ChargesInv, ChargesSound, Undisturbed, EvaluationSound, Remembers, Written
<1>. QED  BY <1>1, <1>2, <1>3, <1>4 DEF ChargesInv

\* A request that arrives, ends, leaves or moves on keeps what it was charged.
LEMMA ServeCharges ==
    ASSUME SafeInv, NEW r \in SafeRequests, Safe!Serve(r)
    PROVE  ChargesInv'
<1>. USE DEF SafeInv
<1>. DEFINE q == safeRequest[r]
<1>0. r \in Safe!Evaluators /\ RequestInv(r) /\ EvaluationInv(r)
  BY DEF Safe!Evaluators, ChargesInv
<1>1. UNCHANGED <<safeNow, charged>> /\ safeCauses \subseteq safeCauses'
  BY ServeEffect
<1>2. /\ \A s \in SafeRequests : s # r => safeRequest'[s] = safeRequest[s]
      /\ \A e \in Safe!Evaluators : e # r => evaluation'[e] = evaluation[e]
  <2>1. \A place, first, second, ran : SafeGoesOn(r, place, first, second, ran) =>
            \A s \in SafeRequests : s # r => safeRequest'[s] = safeRequest[s]
    BY DEF SafeGoesOn, SafeTypeOK
  <2>2. SafeArrives(r) => \A s \in SafeRequests : s # r => safeRequest'[s] = safeRequest[s]
    BY DEF SafeArrives, SafeTypeOK
  <2>. QED  BY <2>1, <2>2, ServeEffect DEF SafeBegins, SafeTypeOK
<1>3. /\ RequestInv(r)'
      /\ safeRequest'[r] # Safe!None /\ safeRequest'[r].pc \in {"build", "gates"}
         => /\ q # Safe!None /\ q.pc \in {"build", "gates"}
            /\ safeRequest'[r].action = q.action /\ safeRequest'[r].first = q.first
      /\ \/ evaluation'[r] = Safe!Resting
         \/ SafeBegins(r)
  <2>1. CASE SafeArrives(r) /\ UNCHANGED evaluation
    BY <1>0, <2>1 DEF SafeArrives, SafeTypeOK, RequestInv, EvaluationInv
  <2>2. CASE /\ q.pc = "ended" /\ safeRequest' = [safeRequest EXCEPT ![r] = Safe!None]
             /\ UNCHANGED evaluation
    BY <1>0, <2>2 DEF RequestInv, SafeTypeOK, EvaluationInv
  <2>3. CASE /\ q \in SafeRequestType /\ SafeGoesOn(r, "ended", q.first, q.second, q.ran)
             /\ \/ evaluation' = [evaluation EXCEPT ![r] = Safe!Resting]
                \/ q.pc \in {"build", "record"} /\ UNCHANGED evaluation
    <3>1. PICK d \in SafeRequestType :
              /\ d.pc = "ended" /\ d.first = q.first /\ d.second = q.second /\ d.ran = q.ran
              /\ d.action = q.action /\ safeRequest' = [safeRequest EXCEPT ![r] = d]
      BY <2>3 DEF SafeGoesOn
    <3>2. q # Safe!None /\ safeRequest'[r] = d
      BY <2>3, <3>1 DEF SafeRequestType, Safe!None, SafeTypeOK
    <3>3. Undisturbed' /\ Governed(q.action) /\ q.ran => q.second - q.first >= Cooldown
      BY <1>0, <1>1, <3>2 DEF RequestInv, Undisturbed
    <3>4. evaluation'[r] = Safe!Resting
      BY <1>0, <2>3, <3>2 DEF EvaluationInv, SafeTypeOK
    <3>. QED  BY <3>1, <3>2, <3>3, <3>4 DEF RequestInv, Governed
  <2>4. CASE /\ q \in SafeRequestType /\ q.pc = "build" /\ UNCHANGED evaluation
             /\ SafeGoesOn(r, "gates", q.first, q.second, q.ran)
    <3>1. PICK d \in SafeRequestType :
              /\ d.pc = "gates" /\ d.first = q.first /\ d.second = q.second /\ d.ran = q.ran
              /\ d.action = q.action /\ safeRequest' = [safeRequest EXCEPT ![r] = d]
      BY <2>4 DEF SafeGoesOn
    <3>2. q # Safe!None /\ safeRequest'[r] = d
      BY <2>4, <3>1 DEF SafeRequestType, Safe!None, SafeTypeOK
    <3>3. evaluation'[r] = Safe!Resting
      BY <1>0, <2>4, <3>2 DEF EvaluationInv
    <3>. QED  BY <1>0, <1>1, <2>4, <3>1, <3>2, <3>3 DEF RequestInv
  <2>5. CASE /\ q \in SafeRequestType /\ q.pc = "execute" /\ UNCHANGED evaluation
             /\ SafeGoesOn(r, "record", q.first, q.second, TRUE)
    <3>1. PICK d \in SafeRequestType :
              /\ d.pc = "record" /\ d.first = q.first /\ d.second = q.second /\ d.ran = TRUE
              /\ d.action = q.action /\ safeRequest' = [safeRequest EXCEPT ![r] = d]
      BY <2>5 DEF SafeGoesOn
    <3>2. q # Safe!None /\ safeRequest'[r] = d
      BY <2>5, <3>1 DEF SafeRequestType, Safe!None, SafeTypeOK
    <3>3. Undisturbed' /\ Governed(q.action) => q.second - q.first >= Cooldown
      BY <1>0, <1>1, <2>5, <3>2 DEF RequestInv, Undisturbed
    <3>4. evaluation'[r] = Safe!Resting
      BY <1>0, <2>5, <3>2 DEF EvaluationInv
    <3>. QED  BY <3>1, <3>2, <3>3, <3>4 DEF RequestInv, Governed
  <2>6. CASE SafeBegins(r)
    BY <1>0, <1>1, <2>6 DEF SafeBegins, RequestInv, Undisturbed, SafeRequestType, Safe!None
  <2>. QED  BY <2>1, <2>2, <2>3, <2>4, <2>5, <2>6, ServeEffect
<1>4. ASSUME NEW s \in SafeRequests PROVE RequestInv(s)'
  BY <1>1, <1>2, <1>3 DEF ChargesInv, RequestInv, Undisturbed
<1>5. ASSUME NEW s \in SafeRequests, NEW last, Remembers(s, last) PROVE Remembers(s, last)'
  BY <1>2, <1>3, <1>5 DEF Remembers, Governed
<1>6. ASSUME NEW e \in Safe!Evaluators
      PROVE  /\ EvaluationInv(e)'
             /\ evaluation'[e] # Safe!Resting =>
                   \/ e # r /\ evaluation'[e] = evaluation[e]
                   \/ evaluation'[e].pc = "cooldown"
  <2>1. CASE e # r
    BY <1>1, <1>2, <2>1 DEF ChargesInv, EvaluationInv
  <2>2. CASE e = r /\ evaluation'[r] = Safe!Resting
    BY <2>2 DEF EvaluationInv
  <2>3. CASE e = r /\ SafeBegins(r)
    <3>1. PICK d \in EvaluationType :
              /\ evaluation' = [evaluation EXCEPT ![r] = d]
              /\ d.pc = "cooldown" /\ d.action = q.action /\ d.began = safeNow
              /\ \/ d.way = "contract" /\ q.pc = "evaluate"
                 \/ d.way = "direct" /\ q.pc = "gates"
      BY <2>3 DEF SafeBegins
    <3>2. evaluation'[r] = d /\ UNCHANGED safeRequest /\ q # Safe!None /\ safeNow \in Nat \ {0}
      BY <1>0, <2>3, <3>1 DEF SafeBegins, SafeTypeOK, SafeRequestType, Safe!None
    <3>. QED  BY <1>1, <2>3, <3>1, <3>2 DEF EvaluationInv
  <2>. QED  BY <1>3, <2>1, <2>2, <2>3
<1>7. ASSUME Undisturbed', NEW e \in Safe!Evaluators PROVE EvaluationSound(e)'
  <2>1. EvaluationSound(e) /\ Undisturbed
    BY <1>1, <1>7 DEF ChargesInv, ChargesSound, Undisturbed
  <2>2. \A d \in Safe!Evaluators : evaluation'[d].pc = "dump" => evaluation[d].pc = "dump"
    BY <1>6 DEF Safe!Resting
  <2>3. CASE evaluation'[e] = Safe!Resting
    BY <2>3 DEF EvaluationSound
  <2>4. CASE e # r /\ evaluation'[e] = evaluation[e] /\ evaluation'[e] # Safe!Resting
    <3>1. Written(e)' = Written(e)
      BY <2>4 DEF Written
    <3>2. evaluation[e].pc = "dump" => \A s \in SafeRequests : Remembers(s, Written(e))'
      <4>. SUFFICES ASSUME evaluation[e].pc = "dump", NEW s \in SafeRequests
                    PROVE  Remembers(s, Written(e))'
        OBVIOUS
      <4>1. Remembers(s, Written(e))
        BY <2>1, <2>4 DEF EvaluationSound
      <4>2. PICK last : last = Written(e)
        OBVIOUS
      <4>3. Remembers(s, last)'
        BY <1>5, <4>1, <4>2
      <4>. QED  BY <3>1, <4>2, <4>3 DEF Remembers
    <3>3. e \in SafeRequests => safeRequest'[e] = safeRequest[e]
      BY <1>2, <2>4
    <3>. QED  BY <1>1, <2>1, <2>2, <2>4, <3>2, <3>3 DEF EvaluationSound
  <2>5. CASE evaluation'[e] # Safe!Resting /\ evaluation'[e].pc = "cooldown"
    BY <2>5 DEF EvaluationSound
  <2>. QED  BY <1>6, <2>3, <2>4, <2>5
<1>8. ChargesSound'
  <2>1. ASSUME Undisturbed', ~charged'.torn, NEW s \in SafeRequests
        PROVE  Remembers(s, charged.last)'
    <3>1. Remembers(s, charged.last)
      BY <1>1, <2>1 DEF ChargesInv, ChargesSound, Undisturbed
    <3>2. PICK last : last = charged.last
      OBVIOUS
    <3>3. Remembers(s, last)'
      BY <1>5, <3>1, <3>2
    <3>. QED  BY <1>1, <3>2, <3>3 DEF Remembers
  <2>. QED  BY <1>7, <2>1 DEF ChargesSound
<1>. QED  BY <1>1, <1>4, <1>6, <1>8 DEF ChargesInv

\* An evaluation that moves on.
LEMMA MoveCharges ==
    ASSUME SafeInv, SafeTypeOK', NEW e \in Safe!Evaluators, Safe!Evaluate(e), SafeMoves(e)
    PROVE  ChargesInv'
<1>. USE DEF SafeInv
<1>0. /\ UNCHANGED <<safeNow, safeRequest>> /\ safeCauses \subseteq safeCauses'
      /\ evaluation[e] \in EvaluationType /\ evaluation[e] # Safe!Resting
      /\ EvaluationInv(e) /\ safeNow \in Nat
      /\ \A d \in Safe!Evaluators : d # e => evaluation'[d] = evaluation[d]
  BY EvaluateEffect DEF SafeMoves, ChargesInv, EvaluationType, Safe!Resting, SafeTypeOK
<1>. DEFINE v == evaluation[e]
            w == evaluation'[e]
<1>1. /\ w \in EvaluationType /\ w # Safe!Resting
      /\ w.way = v.way /\ w.action = v.action /\ w.began = v.began
      /\ \/ /\ v.pc \in {"cooldown", "repetition"} /\ UNCHANGED charged
            /\ w.read = charged
            /\ charged.torn => "lost" \in safeCauses'
            /\ \/ /\ v.pc = "cooldown" /\ w.pc = "repetition"
                  /\ Safe!Cool(w.action, w.began)
               \/ /\ v.pc = "repetition" /\ w.pc = "admit"
                  /\ charged # v.read => "raced" \in safeCauses'
         \/ /\ v.pc = "admit" /\ w.pc = "open" /\ UNCHANGED charged
            /\ w.read = v.read
            /\ w.stamp = IF w.way = "direct" THEN w.began ELSE safeNow
         \/ /\ v.pc = "open" /\ w.pc = "dump" /\ charged' = Safe!TornState
            /\ w.read = v.read /\ w.stamp = v.stamp
            /\ charged # v.read => "raced" \in safeCauses'
  <2>1. PICK d \in EvaluationType :
          /\ evaluation' = [evaluation EXCEPT ![e] = d]
          /\ d.way = v.way /\ d.action = v.action /\ d.began = v.began
          /\ \/ /\ v.pc \in {"cooldown", "repetition"} /\ UNCHANGED charged
                /\ d.read = charged
                /\ charged.torn => "lost" \in safeCauses'
                /\ \/ /\ v.pc = "cooldown" /\ d.pc = "repetition"
                      /\ Safe!Cool(d.action, d.began)
                   \/ /\ v.pc = "repetition" /\ d.pc = "admit"
                      /\ charged # v.read => "raced" \in safeCauses'
             \/ /\ v.pc = "admit" /\ d.pc = "open" /\ UNCHANGED charged
                /\ d.read = v.read
                /\ d.stamp = IF d.way = "direct" THEN d.began ELSE safeNow
             \/ /\ v.pc = "open" /\ d.pc = "dump" /\ charged' = Safe!TornState
                /\ d.read = v.read /\ d.stamp = v.stamp
                /\ charged # v.read => "raced" \in safeCauses'
    BY DEF SafeMoves
  <2>2. w = d
    BY <2>1 DEF SafeTypeOK
  <2>3. d # Safe!Resting
    BY DEF EvaluationType, Safe!Resting
  <2>. HIDE DEF v, w
  <2>. QED  BY <2>1, <2>2, <2>3
<1>2. /\ \A a \in Safe!SafeActions : charged.last[a] \in Nat /\ charged.last[a] <= safeNow
      /\ \A a \in Safe!SafeActions : v.read.last[a] \in Nat /\ w.read.last[a] \in Nat
      /\ v.began \in Nat /\ v.stamp \in Nat /\ w.stamp \in Nat /\ v.action \in Safe!SafeActions
  BY <1>0, <1>1 DEF ChargesInv, SafeTypeOK, EvaluationType, GovernanceStates, GovernanceTimes
<1>3. \A a \in Safe!SafeActions : charged'.last[a] <= safeNow'
  BY <1>0, <1>1, <1>2 DEF Safe!TornState, Safe!NoCharge
<1>4. \A r \in SafeRequests : RequestInv(r)'
  BY <1>0 DEF ChargesInv, RequestInv, Undisturbed
<1>5. ASSUME NEW d \in Safe!Evaluators PROVE EvaluationInv(d)'
  <2>1. CASE d # e
    BY <1>0, <2>1 DEF ChargesInv, EvaluationInv
  <2>2. CASE d = e
    <3>1. w.began >= 1 /\ w.began <= safeNow
      BY <1>0, <1>1 DEF EvaluationInv
    <3>2. w.pc \in {"open", "dump"} => w.stamp >= 1 /\ w.stamp <= safeNow
      BY <1>0, <1>1, <1>2, <3>1 DEF EvaluationInv
    <3>3. w.pc # "cooldown" =>
              \A a \in Safe!SafeActions : w.read.last[a] <= safeNow
      BY <1>0, <1>1, <1>2 DEF EvaluationInv
    <3>4. e \in SafeRequests =>
              /\ safeRequest[e] # Safe!None /\ safeRequest[e].action = w.action
              /\ \/ w.way = "contract" /\ safeRequest[e].pc = "evaluate"
                 \/ w.way = "direct" /\ safeRequest[e].pc = "gates"
      BY <1>0, <1>1 DEF EvaluationInv
    <3>. HIDE DEF v, w
    <3>5. evaluation'[d] = w
      BY <2>2 DEF w
    <3>. QED  BY <1>0, <2>2, <3>1, <3>2, <3>3, <3>4, <3>5 DEF EvaluationInv
  <2>. QED  BY <2>1, <2>2
<1>6. ASSUME NEW r \in SafeRequests, NEW last, Remembers(r, last) PROVE Remembers(r, last)'
  BY <1>0, <1>6 DEF Remembers
<1>7. ASSUME Undisturbed' PROVE ChargesSound'
  <2>0. /\ Undisturbed /\ "lost" \notin safeCauses' /\ "raced" \notin safeCauses'
        /\ \A d \in Safe!Evaluators : EvaluationSound(d)
        /\ ~charged.torn => \A r \in SafeRequests : Remembers(r, charged.last)
    BY <1>0, <1>7 DEF Undisturbed, ChargesInv, ChargesSound
  \* The file is as the evaluation read it when it empties it, and nobody writes it.
  <2>1. w.pc = "dump" =>
            /\ charged = v.read /\ ~charged.torn /\ charged'.torn
            /\ \A d \in Safe!Evaluators : evaluation[d].pc # "dump"
    <3>. SUFFICES ASSUME w.pc = "dump"
                  PROVE  /\ charged = v.read /\ ~charged.torn /\ charged'.torn
                         /\ \A d \in Safe!Evaluators : evaluation[d].pc # "dump"
      OBVIOUS
    <3>1. v.pc = "open" /\ charged = v.read /\ charged' = Safe!TornState
      BY <1>1, <2>0
    <3>2. ~charged.torn
      BY <1>0, <2>0, <3>1 DEF EvaluationSound
    <3>3. \A d \in Safe!Evaluators : evaluation[d].pc # "dump"
      BY <2>0, <3>2 DEF EvaluationSound, Safe!Resting
    <3>. QED  BY <3>1, <3>2, <3>3 DEF Safe!TornState
  <2>2. ~charged'.torn => \A r \in SafeRequests : Remembers(r, charged.last)'
    <3>. SUFFICES ASSUME ~charged'.torn, NEW r \in SafeRequests PROVE Remembers(r, charged.last)'
      OBVIOUS
    <3>1. UNCHANGED charged
      BY <1>1, <2>1
    <3>2. Remembers(r, charged.last)
      BY <2>0, <3>1
    <3>. QED  BY <1>0, <3>1, <3>2 DEF Remembers
  <2>3. ASSUME NEW d \in Safe!Evaluators, d # e PROVE EvaluationSound(d)'
    <3>1. evaluation'[d] = evaluation[d] /\ EvaluationSound(d)
      BY <1>0, <2>0, <2>3
    <3>2. evaluation[d].pc = "dump" =>
              /\ charged'.torn /\ \A c \in Safe!Evaluators : evaluation'[c].pc = "dump" => c = d
              /\ \A r \in SafeRequests : Remembers(r, Written(d))'
      <4>. SUFFICES ASSUME evaluation[d].pc = "dump"
                    PROVE  /\ charged'.torn
                           /\ \A c \in Safe!Evaluators : evaluation'[c].pc = "dump" => c = d
                           /\ \A r \in SafeRequests : Remembers(r, Written(d))'
        OBVIOUS
      <4>1. w.pc # "dump"
        BY <2>1
      <4>2. /\ charged.torn /\ \A c \in Safe!Evaluators : evaluation[c].pc = "dump" => c = d
            /\ \A r \in SafeRequests : Remembers(r, Written(d))
        BY <2>0 DEF EvaluationSound, Safe!Resting
      <4>3. charged'.torn
        BY <1>1, <4>1, <4>2
      <4>. QED  BY <1>0, <3>1, <4>1, <4>2, <4>3 DEF Remembers, Written
    <3>. QED  BY <1>0, <3>1, <3>2 DEF EvaluationSound
  <2>4. EvaluationSound(e)'
    <3>1. w.pc \in {"repetition", "admit", "open"} => ~w.read.torn
      BY <1>0, <1>1, <2>0 DEF EvaluationSound
    <3>2. w.pc \in {"repetition", "admit"} /\ Governed(w.action)
          => w.began >= w.read.last[w.action]
      <4>. SUFFICES ASSUME w.pc \in {"repetition", "admit"}, Governed(w.action)
                    PROVE  w.began >= w.read.last[w.action]
        OBVIOUS
      <4>1. CASE w.pc = "repetition"
        <5>1. Safe!Cool(w.action, w.began) /\ w.read = charged /\ UNCHANGED charged
          BY <1>1, <4>1
        <5>. QED  BY <1>1, <1>2, <5>1, GovernanceConstants DEF Safe!Cool, Governed
      <4>2. CASE w.pc = "admit"
        BY <1>0, <1>1, <2>0, <4>2 DEF EvaluationSound
      <4>. QED  BY <4>1, <4>2
    <3>3. w.pc = "open" /\ Governed(w.action) => w.stamp >= w.read.last[w.action]
      BY <1>0, <1>1, <1>2, <2>0 DEF EvaluationSound, EvaluationInv
    <3>4. w.pc = "dump" =>
            /\ charged'.torn /\ \A d \in Safe!Evaluators : evaluation'[d].pc = "dump" => d = e
            /\ \A r \in SafeRequests : Remembers(r, Written(e))'
      <4>. SUFFICES ASSUME w.pc = "dump"
                    PROVE  /\ charged'.torn
                           /\ \A d \in Safe!Evaluators : evaluation'[d].pc = "dump" => d = e
                           /\ \A r \in SafeRequests : Remembers(r, Written(e))'
        OBVIOUS
      <4>1. \A d \in Safe!Evaluators : evaluation'[d].pc = "dump" => d = e
        BY <1>0, <2>1
      <4>2. v.pc = "open" /\ w.read = v.read /\ w.stamp = v.stamp /\ charged = v.read
        BY <1>1, <2>1
      <4>3. ASSUME NEW r \in SafeRequests PROVE Remembers(r, Written(e))'
        <5>. DEFINE q == safeRequest[r]
                    last == [v.read.last EXCEPT ![v.action] = v.stamp]
        <5>. SUFFICES ASSUME q # Safe!None, q.pc \in {"build", "gates"}, Governed(q.action)
                      PROVE  last[q.action] >= q.first
          <6>1. Written(e)' = last
            BY <1>1, <4>2 DEF Written
          <6>. QED  BY <1>0, <6>1 DEF Remembers
        <5>1. q.action \in Safe!SafeActions /\ q.first \in Nat
          BY DEF ChargesInv, RequestInv, SafeTypeOK, SafeRequestType
        <5>2. v.read.last[q.action] >= q.first
          BY <2>0, <2>1, <4>2 DEF Remembers
        <5>3. CASE q.action = v.action
          <6>1. v.stamp >= v.read.last[v.action]
            BY <1>0, <2>0, <4>2, <5>3 DEF EvaluationSound
          <6>2. last[q.action] = v.stamp
            BY <1>0, <5>1, <5>3 DEF EvaluationType, GovernanceStates, GovernanceTimes
          <6>. QED  BY <1>2, <5>1, <5>2, <5>3, <6>1, <6>2
        <5>4. CASE q.action # v.action
          <6>1. last[q.action] = v.read.last[q.action]
            BY <1>0, <5>1, <5>4 DEF EvaluationType, GovernanceStates, GovernanceTimes
          <6>. QED  BY <5>2, <6>1
        <5>. QED  BY <5>3, <5>4
      <4>. QED  BY <2>1, <4>1, <4>3
    <3>5. e \in SafeRequests /\ w.way = "direct" /\ w.pc # "cooldown" /\ Governed(w.action)
          => w.began - safeRequest[e].first >= Cooldown
      <4>. SUFFICES ASSUME e \in SafeRequests, w.way = "direct", Governed(w.action)
                    PROVE  w.began - safeRequest[e].first >= Cooldown
        OBVIOUS
      <4>1. CASE v.pc = "cooldown"
        <5>. DEFINE q == safeRequest[e]
        <5>1. q # Safe!None /\ q.action = v.action /\ q.pc = "gates"
          BY <1>0, <1>1 DEF EvaluationInv
        <5>2. q.first \in Nat /\ q.first >= 1 /\ Remembers(e, charged.last) /\ Safe!Cool(v.action, v.began)
          BY <1>1, <2>0, <4>1, <5>1 DEF ChargesInv, RequestInv, SafeTypeOK, SafeRequestType
        <5>3. charged.last[v.action] >= q.first
          BY <1>1, <5>1, <5>2 DEF Remembers
        <5>4. v.began - charged.last[v.action] >= Cooldown
          BY <1>1, <1>2, <5>2, <5>3 DEF Safe!Cool, Governed
        <5>. QED  BY <1>1, <1>2, <5>2, <5>3, <5>4, GovernanceConstants
      <4>2. CASE v.pc # "cooldown"
        BY <1>0, <1>1, <2>0, <4>2 DEF EvaluationSound
      <4>. QED  BY <4>1, <4>2
    <3>. HIDE DEF v, w
    <3>6. evaluation'[e] = w
      BY DEF w
    <3>. QED  BY <1>0, <3>1, <3>2, <3>3, <3>4, <3>5, <3>6 DEF EvaluationSound
  <2>. QED  BY <2>2, <2>3, <2>4 DEF ChargesSound
<1>. QED  BY <1>3, <1>4, <1>5, <1>7 DEF ChargesInv, ChargesSound

\* A caller that is admitted.
LEMMA AdmitCharges ==
    ASSUME SafeInv, SafeTypeOK', NEW e \in Safe!Evaluators, Safe!Evaluate(e), SafeAdmits(e)
    PROVE  ChargesInv'
<1>. USE DEF SafeInv
<1>. DEFINE v == evaluation[e]
            q == safeRequest[e]
<1>0. /\ UNCHANGED safeNow /\ safeCauses \subseteq safeCauses'
      /\ v \in EvaluationType /\ v # Safe!Resting /\ v.pc \in {"open", "dump"}
      /\ EvaluationInv(e) /\ safeNow \in Nat
      /\ evaluation'[e] = Safe!Resting
      /\ \A d \in Safe!Evaluators : d # e => evaluation'[d] = evaluation[d]
  <2>1. /\ UNCHANGED safeNow /\ safeCauses \subseteq safeCauses' /\ v \in EvaluationType
        /\ EvaluationInv(e) /\ safeNow \in Nat
    BY EvaluateEffect DEF ChargesInv, SafeTypeOK
  <2>2. v.pc \in {"open", "dump"} /\ evaluation' = [evaluation EXCEPT ![e] = Safe!Resting]
    BY DEF SafeAdmits, Safe!Admit
  <2>3. v # Safe!Resting
    BY <2>2 DEF Safe!Resting
  <2>4. /\ evaluation'[e] = Safe!Resting
        /\ \A d \in Safe!Evaluators : d # e => evaluation'[d] = evaluation[d]
    BY <2>2 DEF SafeTypeOK
  <2>. QED  BY <2>1, <2>2, <2>3, <2>4
<1>1. /\ v.began \in Nat /\ v.stamp \in Nat /\ v.action \in Safe!SafeActions
      /\ v.stamp >= 1 /\ v.stamp <= safeNow
      /\ v.read \in GovernanceStates /\ v.read.last \in GovernanceTimes
  BY <1>0 DEF EvaluationInv, EvaluationType, GovernanceStates
<1>2. Undisturbed' =>
          /\ Undisturbed /\ v.pc = "dump" /\ EvaluationSound(e)
          /\ charged' \in {Safe!TornState, Safe!Kept(Written(e))}
  BY <1>0 DEF SafeAdmits, Undisturbed, Written, ChargesInv, ChargesSound
\* The request of the evaluation, if it is that of one.
<1>3. /\ \A s \in SafeRequests : s # e => safeRequest'[s] = safeRequest[s]
      /\ e \in SafeRequests =>
            /\ q \in SafeRequestType /\ q # Safe!None /\ q.action = v.action /\ RequestInv(e)
            /\ \/ /\ q.pc = "evaluate" /\ v.way = "contract"
                  /\ SafeGoesOn(e, "build", v.stamp, q.second, q.ran)
               \/ /\ q.pc = "gates" /\ v.way = "direct"
                  /\ SafeGoesOn(e, "execute", q.first, v.began, q.ran)
  <2>1. CASE e \notin SafeRequests
    BY <2>1 DEF SafeAdmits, Safe!Admit
  <2>2. CASE e \in SafeRequests
    <3>1. /\ q \in SafeRequestType /\ q # Safe!None /\ q.action = v.action /\ RequestInv(e)
          /\ \/ v.way = "contract" /\ q.pc = "evaluate"
             \/ v.way = "direct" /\ q.pc = "gates"
      BY <1>0, <2>2 DEF EvaluationInv, SafeTypeOK, ChargesInv
    <3>2. \/ q.pc = "evaluate" /\ SafeGoesOn(e, "build", v.stamp, q.second, q.ran)
          \/ q.pc # "evaluate" /\ SafeGoesOn(e, "execute", q.first, v.began, q.ran)
      BY <1>0, <2>2, <3>1, AdmitEffect DEF SafeAdmits
    <3>3. \A s \in SafeRequests : s # e => safeRequest'[s] = safeRequest[s]
      BY <2>2, <3>2 DEF SafeGoesOn, SafeTypeOK
    <3>. QED  BY <3>1, <3>2, <3>3
  <2>. QED  BY <2>1, <2>2
<1>4. e \in SafeRequests =>
         LET d == safeRequest'[e] IN
         /\ d # Safe!None /\ d.action = q.action /\ d.ran = q.ran
         /\ \/ q.pc = "evaluate" /\ d.pc = "build" /\ d.first = v.stamp
            \/ /\ q.pc = "gates" /\ v.way = "direct" /\ d.pc = "execute"
               /\ d.first = q.first /\ d.second = v.began
  <2>. SUFFICES ASSUME e \in SafeRequests
                PROVE  LET d == safeRequest'[e] IN
                       /\ d # Safe!None /\ d.action = q.action /\ d.ran = q.ran
                       /\ \/ q.pc = "evaluate" /\ d.pc = "build" /\ d.first = v.stamp
                          \/ /\ q.pc = "gates" /\ v.way = "direct" /\ d.pc = "execute"
                             /\ d.first = q.first /\ d.second = v.began
    OBVIOUS
  <2>. HIDE DEF v
  <2>1. PICK d \in SafeRequestType :
            /\ safeRequest' = [safeRequest EXCEPT ![e] = d]
            /\ d.action = q.action /\ d.ran = q.ran
            /\ \/ q.pc = "evaluate" /\ d.pc = "build" /\ d.first = v.stamp
               \/ /\ q.pc = "gates" /\ v.way = "direct" /\ d.pc = "execute"
                  /\ d.first = q.first /\ d.second = v.began
    BY <1>3 DEF SafeGoesOn
  <2>2. safeRequest'[e] = d /\ d # Safe!None
    BY <2>1 DEF SafeTypeOK, SafeRequestType, Safe!None
  <2>. QED  BY <2>1, <2>2
<1>5. PICK last \in GovernanceTimes : last = Written(e)
  BY <1>1 DEF Written, GovernanceTimes
<1>6. \A a \in Safe!SafeActions : charged'.last[a] <= safeNow'
  <2>1. charged' \in {charged, Safe!TornState, Safe!Kept(Written(e))}
    BY DEF SafeAdmits, Written
  <2>2. \A a \in Safe!SafeActions : Written(e)[a] <= safeNow
    BY <1>0, <1>1 DEF EvaluationInv, Written, GovernanceTimes
  <2>. QED  BY <1>0, <2>1, <2>2 DEF ChargesInv, Safe!TornState, Safe!NoCharge, Safe!Kept
<1>7. ASSUME NEW s \in SafeRequests PROVE RequestInv(s)'
  <2>1. CASE s # e
    BY <1>0, <1>3, <2>1 DEF ChargesInv, RequestInv, Undisturbed
  <2>2. CASE s = e
    <3>1. ASSUME Undisturbed', Governed(q.action), v.way = "direct"
          PROVE  v.began - q.first >= Cooldown
      BY <1>0, <1>2, <1>3, <2>2, <3>1 DEF EvaluationSound
    <3>2. ~q.ran
      BY <1>3, <2>2 DEF RequestInv
    <3>. HIDE DEF v, q
    <3>3. /\ q.action \in Safe!SafeActions /\ v.stamp >= 1 /\ v.stamp <= safeNow
      BY <1>1, <1>3, <2>2
    <3>. QED  BY <1>0, <1>4, <2>2, <3>1, <3>2, <3>3 DEF RequestInv, Governed
  <2>. QED  BY <2>1, <2>2
<1>8. ASSUME NEW d \in Safe!Evaluators PROVE EvaluationInv(d)'
  <2>1. CASE d # e
    BY <1>0, <1>3, <2>1 DEF ChargesInv, EvaluationInv
  <2>2. CASE d = e
    BY <1>0, <2>2 DEF EvaluationInv
  <2>. QED  BY <2>1, <2>2
<1>9. ASSUME Undisturbed' PROVE ChargesSound'
  <2>0. /\ Undisturbed /\ v.pc = "dump" /\ EvaluationSound(e)
        /\ charged' \in {Safe!TornState, Safe!Kept(last)}
    BY <1>2, <1>5, <1>9
  \* The evaluation wrote alone.
  <2>1. ASSUME NEW d \in Safe!Evaluators, d # e
        PROVE  evaluation'[d] = evaluation[d] /\ evaluation[d].pc # "dump" /\ EvaluationSound(d)
    BY <1>0, <2>0, <2>1 DEF EvaluationSound, ChargesInv, ChargesSound
  <2>2. ASSUME NEW s \in SafeRequests PROVE Remembers(s, last)'
    <3>1. CASE s # e
      <4>1. Remembers(s, last)
        BY <1>0, <1>5, <2>0 DEF EvaluationSound
      <4>. QED  BY <1>3, <3>1, <4>1 DEF Remembers
    <3>2. CASE s = e
      <4>. SUFFICES ASSUME safeRequest'[e].pc \in {"build", "gates"}
                    PROVE  last[safeRequest'[e].action] >= safeRequest'[e].first
        BY <3>2 DEF Remembers
      <4>1. safeRequest'[e].action = v.action /\ safeRequest'[e].first = v.stamp
        BY <1>3, <1>4, <3>2
      <4>2. last[v.action] = v.stamp
        BY <1>1, <1>5 DEF Written, GovernanceTimes
      <4>. QED  BY <1>1, <4>1, <4>2
    <3>. QED  BY <3>1, <3>2
  <2>3. ASSUME ~charged'.torn, NEW s \in SafeRequests PROVE Remembers(s, charged.last)'
    <3>1. charged'.last = last
      BY <2>0, <2>3 DEF Safe!TornState, Safe!Kept
    <3>. QED  BY <2>2, <3>1 DEF Remembers
  <2>4. ASSUME NEW d \in Safe!Evaluators PROVE EvaluationSound(d)'
    <3>1. CASE d = e
      BY <1>0, <3>1 DEF EvaluationSound
    <3>2. CASE d # e
      <4>1. evaluation'[d] = evaluation[d] /\ evaluation[d].pc # "dump" /\ EvaluationSound(d)
        BY <2>1, <3>2
      <4>2. d \in SafeRequests => safeRequest'[d] = safeRequest[d]
        BY <1>3, <3>2
      <4>. QED  BY <4>1, <4>2 DEF EvaluationSound
    <3>. QED  BY <3>1, <3>2
  <2>. QED  BY <2>3, <2>4 DEF ChargesSound
<1>. QED  BY <1>6, <1>7, <1>8, <1>9 DEF ChargesInv, ChargesSound

\* Another caller that begins an evaluation, or is refused or dies in it.
LEMMA ElsewhereCharges ==
    ASSUME SafeInv, NEW o \in OtherEvaluators, Safe!BeginElsewhere(o) \/ Safe!EndElsewhere(o)
    PROVE  ChargesInv'
<1>. USE DEF SafeInv
<1>1. /\ o \in Safe!Evaluators /\ o \notin SafeRequests
      /\ UNCHANGED <<safeNow, charged, safeRequest, safeCauses>>
      /\ safeNow \in Nat \ {0}
  BY EvaluatorsAssumption DEF Safe!Evaluators, Safe!BeginElsewhere, Safe!EndElsewhere, SafeTypeOK
<1>2. /\ \A d \in Safe!Evaluators : d # o => evaluation'[d] = evaluation[d]
      /\ \/ evaluation'[o] = Safe!Resting
         \/ evaluation'[o].pc = "cooldown" /\ evaluation'[o].began = safeNow
  <2>1. CASE Safe!EndElsewhere(o)
    BY <1>1, <2>1 DEF Safe!EndElsewhere, SafeTypeOK
  <2>2. CASE Safe!BeginElsewhere(o)
    <3>1. PICK way \in {"contract", "direct", "api"}, action \in Wanted \cap Safe!SafeActions :
              Safe!BeginEvaluation(o, way, action)
      BY <2>2 DEF Safe!BeginElsewhere
    <3>2. PICK d \in EvaluationType :
              /\ evaluation' = [evaluation EXCEPT ![o] = d]
              /\ d.pc = "cooldown" /\ d.began = safeNow
      BY <1>1, <3>1, BeginEffect
    <3>. QED  BY <1>1, <3>2 DEF SafeTypeOK
  <2>. QED  BY <2>1, <2>2
<1>3. ASSUME NEW d \in Safe!Evaluators PROVE EvaluationInv(d)'
  <2>1. CASE d # o
    BY <1>1, <1>2, <2>1 DEF ChargesInv, EvaluationInv
  <2>2. CASE d = o
    BY <1>1, <1>2, <2>2 DEF EvaluationInv
  <2>. QED  BY <2>1, <2>2
<1>4. ASSUME Undisturbed', NEW d \in Safe!Evaluators PROVE EvaluationSound(d)'
  <2>1. CASE d # o
    <3>1. evaluation'[d] = evaluation[d] /\ EvaluationSound(d)
      BY <1>1, <1>2, <1>4, <2>1 DEF ChargesInv, ChargesSound, Undisturbed
    <3>2. \A c \in Safe!Evaluators : evaluation'[c].pc = "dump" => evaluation[c].pc = "dump"
      BY <1>2 DEF Safe!Resting
    <3>3. \A r \in SafeRequests : Remembers(r, Written(d)) => Remembers(r, Written(d))'
      BY <1>1, <3>1 DEF Remembers, Written
    <3>. QED  BY <1>1, <3>1, <3>2, <3>3 DEF EvaluationSound
  <2>2. CASE d = o
    BY <1>1, <1>2, <2>2 DEF EvaluationSound
  <2>. QED  BY <2>1, <2>2
<1>. QED  BY <1>1, <1>3, <1>4 DEF ChargesInv, ChargesSound, Undisturbed, RequestInv, Remembers

LEMMA ChargesStep == ASSUME SafeInv, SafeTypeOK', Safe!Next PROVE ChargesInv'
<1>1. ASSUME NEW o \in Evaluations, Safe!Operate(o) PROVE ChargesInv'
  <2>1. UNCHANGED <<charged, safeRequest, evaluation, safeNow>> /\ safeCauses \subseteq safeCauses'
    BY <1>1 DEF Safe!Operate, Safe!ReadStore, Safe!OpenStore, Safe!WriteStore,
                Safe!WriteStoreFails, Safe!Trouble, Safe!governanceVars
  <2>. QED  BY <2>1, QuietCharges DEF SafeInv, SafeTypeOK
<1>2. CASE Safe!Tick
  <2>1. /\ UNCHANGED <<charged, safeRequest, evaluation, safeCauses>>
        /\ safeNow' \in Nat /\ safeNow' >= safeNow
    BY <1>2 DEF Safe!Tick, Safe!governanceVars, SafeInv, SafeTypeOK
  <2>. QED  BY <2>1, QuietCharges
<1>3. ASSUME NEW e \in Safe!Evaluators, Safe!Evaluate(e) PROVE ChargesInv'
  <2>1. SafeMoves(e) \/ SafeAdmits(e)
    BY <1>3, EvaluateEffect DEF SafeInv
  <2>. QED  BY <1>3, <2>1, MoveCharges, AdmitCharges
<1>. QED  BY <1>1, <1>2, <1>3, ServeCharges, ElsewhereCharges DEF Safe!Next


LEMMA StoreStep == ASSUME SafeInv, Safe!Next PROVE StoreInv'
<1>. USE DEF SafeInv
<1>1. ASSUME NEW r \in SafeRequests, Safe!Serve(r) PROVE StoreInv'
  <2>. SUFFICES ASSUME safeCauses' \cap {"overlap", "torn"} = {} PROVE StoreInv'
    BY DEF StoreInv
  <2>. DEFINE q == safeRequest[r]
  <2>1. /\ UNCHANGED <<safeNow, freezeStore, operator, promised>>
        /\ safeCauses \cap {"overlap", "torn"} = {}
    BY <1>1, ServeEffect
  <2>2. \E d : safeRequest' = [safeRequest EXCEPT ![r] = d] \/ UNCHANGED safeRequest
    <3>1. \A place, first, second, ran : SafeGoesOn(r, place, first, second, ran) =>
              \E d : safeRequest' = [safeRequest EXCEPT ![r] = d]
      BY DEF SafeGoesOn
    <3>2. SafeArrives(r) => \E d : safeRequest' = [safeRequest EXCEPT ![r] = d]
      BY DEF SafeArrives
    <3>. QED  BY <1>1, <3>1, <3>2, ServeEffect DEF SafeBegins
  <2>3. LET c == safeRequest'[r] IN
        c # Safe!None /\ c.kind = "direct" /\ c.frozen /\ c.action # "noop"
        => c.pc = "ended" /\ ~c.ran
    <3>1. CASE SafeArrives(r)
      <4>1. PICK c \in SafeRequestType :
                /\ safeRequest' = [safeRequest EXCEPT ![r] = c]
                /\ c.pc \in {"evaluate", "ended"} /\ ~c.ran
                /\ c.kind = "direct" /\ c.pc = "evaluate"
                   => /\ c.frozen = (promised[c.app] > safeNow)
                      /\ Safe!Frozen(c.app) => c.action = "noop"
                      /\ freezeStore.torn => "torn" \in safeCauses'
        BY <3>1 DEF SafeArrives
      <4>2. ~freezeStore.torn => freezeStore.until = promised
        BY <2>1 DEF StoreInv
      <4>3. safeRequest'[r] = c
        BY <4>1 DEF SafeTypeOK
      <4>4. c.kind = "direct" /\ c.frozen /\ c.action # "noop" => c.pc = "ended"
        BY <4>1, <4>2 DEF Safe!Frozen
      <4>. QED  BY <4>1, <4>3, <4>4
    <3>2. CASE safeRequest' = [safeRequest EXCEPT ![r] = Safe!None]
      BY <3>2 DEF SafeTypeOK
    <3>3. \A place, first, second, ran :
             SafeGoesOn(r, place, first, second, ran) /\ q \in SafeRequestType
             /\ (q.pc = "ended" => place = "ended" /\ ran = q.ran)
             /\ (place = "ended" => ran = q.ran)
             => LET c == safeRequest'[r] IN
                c.kind = "direct" /\ c.frozen /\ c.action # "noop"
                => c.pc = "ended" /\ ~c.ran
      <4>. SUFFICES ASSUME NEW place, NEW first, NEW second, NEW ran,
                           SafeGoesOn(r, place, first, second, ran), q \in SafeRequestType,
                           q.pc = "ended" => place = "ended" /\ ran = q.ran
                    PROVE  LET c == safeRequest'[r] IN
                           c.kind = "direct" /\ c.frozen /\ c.action # "noop"
                           => c.pc = "ended" /\ ~c.ran
        OBVIOUS
      <4>1. PICK d \in SafeRequestType :
                /\ d.pc = place /\ d.ran = ran /\ d.kind = q.kind /\ d.action = q.action
                /\ d.frozen = q.frozen /\ safeRequest' = [safeRequest EXCEPT ![r] = d]
        BY DEF SafeGoesOn
      <4>2. q.kind = "direct" /\ q.frozen /\ q.action # "noop" => q.pc = "ended" /\ ~q.ran
        <5>1. q # Safe!None
          BY DEF SafeRequestType, Safe!None
        <5>. QED  BY <2>1, <5>1 DEF StoreInv
      <4>3. safeRequest'[r] = d
        BY <4>1 DEF SafeTypeOK
      <4>. HIDE DEF q
      <4>. QED  BY <4>1, <4>2, <4>3
    <3>4. CASE /\ q \in SafeRequestType
               /\ \/ SafeGoesOn(r, "ended", q.first, q.second, q.ran)
                  \/ q.pc = "build" /\ SafeGoesOn(r, "gates", q.first, q.second, q.ran)
                  \/ q.pc = "execute" /\ SafeGoesOn(r, "record", q.first, q.second, TRUE)
      BY <3>3, <3>4
    <3>5. CASE SafeBegins(r)
      BY <2>1, <3>5 DEF SafeBegins, StoreInv
    <3>. QED  BY <1>1, <3>1, <3>2, <3>4, <3>5, ServeEffect
  <2>4. ASSUME NEW s \in SafeRequests,
               safeRequest'[s] # Safe!None, safeRequest'[s].kind = "direct",
               safeRequest'[s].frozen, safeRequest'[s].action # "noop"
        PROVE  safeRequest'[s].pc = "ended" /\ ~safeRequest'[s].ran
    <3>1. CASE s = r
      BY <2>3, <2>4, <3>1
    <3>2. CASE s # r
      <4>1. safeRequest'[s] = safeRequest[s]
        BY <2>2, <3>2 DEF SafeTypeOK
      <4>. QED  BY <2>1, <2>4, <4>1 DEF StoreInv
    <3>. QED  BY <3>1, <3>2
  <2>. QED  BY <2>1, <2>4 DEF StoreInv
<1>2. ASSUME NEW o \in Evaluations, Safe!Operate(o) PROVE StoreInv'
  <2>. SUFFICES ASSUME safeCauses' \cap {"overlap", "torn"} = {} PROVE StoreInv'
    BY DEF StoreInv
  <2>1. /\ UNCHANGED safeRequest /\ safeCauses \cap {"overlap", "torn"} = {}
        /\ \A p \in Evaluations : p # o => operator'[p] = operator[p]
    BY <1>2 DEF Safe!Operate, Safe!ReadStore, Safe!OpenStore, Safe!WriteStore,
                Safe!WriteStoreFails, Safe!Trouble, SafeTypeOK
  <2>2. CASE \E a \in FreezableApps, until \in {0, safeNow + 1} : Safe!ReadStore(o, a, until)
    <3>1. PICK a \in FreezableApps, until \in {0, safeNow + 1} : Safe!ReadStore(o, a, until)
      BY <2>2
    <3>2. /\ ~freezeStore.torn /\ \A p \in Evaluations : operator[p].pc = "idle"
          /\ UNCHANGED <<freezeStore, promised>>
      BY <3>1 DEF Safe!ReadStore
    <3>3. operator'[o].read = promised
      BY <2>1, <3>1, <3>2 DEF Safe!ReadStore, StoreInv, SafeTypeOK
    <3>. QED  BY <2>1, <3>2, <3>3 DEF StoreInv
  <2>3. CASE Safe!OpenStore(o)
    <3>1. /\ operator[o].pc = "open" /\ UNCHANGED promised /\ freezeStore'.torn
          /\ operator[o] \in OperatorType
      BY <2>3 DEF Safe!OpenStore, SafeTypeOK, Safe!Waiting
    <3>. PICK c \in OperatorType : c = operator[o]
      BY <3>1
    <3>2. operator'[o] = [c EXCEPT !.pc = "write"]
      BY <2>3 DEF Safe!OpenStore, SafeTypeOK
    <3>3. operator'[o].read = operator[o].read /\ operator'[o].pc = "write"
      BY <3>2 DEF OperatorType
    <3>4. operator[o].pc # "idle"
      BY <3>1
    <3>5. \A p \in Evaluations : operator'[p].pc # "idle" => p = o
      BY <2>1, <3>4 DEF StoreInv
    <3>. QED  BY <2>1, <3>1, <3>3, <3>4, <3>5 DEF StoreInv
  <2>4. CASE Safe!WriteStore(o)
    <3>1. operator[o].pc = "write" /\ operator'[o] = Safe!Waiting
      BY <2>4 DEF Safe!WriteStore, SafeTypeOK
    <3>2. \A p \in Evaluations : operator'[p].pc = "idle"
      BY <2>1, <3>1 DEF StoreInv, Safe!Waiting
    <3>3. freezeStore'.until = promised'
      BY <2>1, <2>4, <3>1 DEF Safe!WriteStore, Safe!Whole, StoreInv
    <3>. QED  BY <2>1, <3>2, <3>3 DEF StoreInv
  <2>5. CASE Safe!WriteStoreFails(o)
    BY <2>5 DEF Safe!WriteStoreFails, Safe!Trouble
  <2>. QED  BY <1>2, <2>2, <2>3, <2>4, <2>5 DEF Safe!Operate
<1>3. CASE Safe!Tick
  BY <1>3 DEF Safe!Tick, StoreInv, Safe!freezeVars
<1>4. ASSUME NEW e \in Safe!Evaluators, Safe!Evaluate(e) PROVE StoreInv'
  <2>. SUFFICES ASSUME safeCauses' \cap {"overlap", "torn"} = {} PROVE StoreInv'
    BY DEF StoreInv
  <2>1. /\ UNCHANGED <<safeNow, freezeStore, operator, promised>>
        /\ safeCauses \cap {"overlap", "torn"} = {} /\ evaluation[e] \in EvaluationType
        /\ SafeMoves(e) \/ SafeAdmits(e)
    BY <1>4, EvaluateEffect
  <2>2. ASSUME NEW s \in SafeRequests,
               safeRequest'[s] # Safe!None, safeRequest'[s].kind = "direct",
               safeRequest'[s].frozen, safeRequest'[s].action # "noop"
        PROVE  safeRequest'[s].pc = "ended" /\ ~safeRequest'[s].ran
    <3>1. CASE safeRequest'[s] = safeRequest[s]
      BY <2>1, <2>2, <3>1 DEF StoreInv
    <3>2. CASE s = e /\ SafeAdmits(e)
      <4>1. /\ safeRequest[e] \in SafeRequestType /\ safeRequest[e] # Safe!None
            /\ safeRequest[e].pc \in {"evaluate", "gates"}
        <5>1. evaluation[e] # Safe!Resting
          BY <2>1 DEF EvaluationType, Safe!Resting
        <5>. QED  BY <3>2, <5>1 DEF ChargesInv, EvaluationInv, SafeTypeOK
      <4>2. \E place, first, second, ran : SafeGoesOn(e, place, first, second, ran)
        BY <2>1, <3>2, <4>1, AdmitEffect DEF SafeAdmits
      <4>3. /\ safeRequest'[e].kind = safeRequest[e].kind
            /\ safeRequest'[e].frozen = safeRequest[e].frozen
            /\ safeRequest'[e].action = safeRequest[e].action
        BY <3>2, <4>2 DEF SafeGoesOn, SafeTypeOK
      <4>. QED  BY <2>1, <2>2, <3>2, <4>1, <4>3 DEF StoreInv
    <3>3. \/ safeRequest'[s] = safeRequest[s]
          \/ s = e /\ SafeAdmits(e)
      BY <2>1 DEF SafeMoves, SafeAdmits, Safe!Admit, SafeTypeOK
    <3>. QED  BY <3>1, <3>2, <3>3
  <2>. QED  BY <2>1, <2>2 DEF StoreInv
<1>5. ASSUME NEW o \in OtherEvaluators, Safe!BeginElsewhere(o) \/ Safe!EndElsewhere(o)
      PROVE  StoreInv'
  BY <1>5 DEF Safe!BeginElsewhere, Safe!EndElsewhere, StoreInv, Safe!freezeVars
<1>. QED  BY <1>1, <1>2, <1>3, <1>4, <1>5 DEF Safe!Next

LEMMA SafeInvStep == SafeInv /\ [Safe!Next]_safeVars => SafeInv'
<1>. SUFFICES ASSUME SafeInv, [Safe!Next]_safeVars PROVE SafeInv'
  OBVIOUS
<1>1. CASE Safe!Next
  <2>1. \A r \in SafeRequests : evaluation[r] # Safe!Resting => safeRequest[r] # Safe!None
    BY DEF SafeInv, ChargesInv, EvaluationInv, Safe!Evaluators
  <2>2. SafeTypeOK'
    BY <1>1, <2>1, SafeTypeStep DEF SafeInv
  <2>. QED  BY <1>1, <2>2, ChargesStep, StoreStep DEF SafeInv
<1>2. CASE UNCHANGED safeVars
  <2>1. SafeTypeOK'
    BY <1>2 DEF safeVars, SafeInv, SafeTypeOK
  <2>2. ChargesInv'
    BY <1>2, QuietCharges DEF safeVars, SafeInv, SafeTypeOK
  <2>3. StoreInv'
    BY <1>2 DEF safeVars, SafeInv, StoreInv
  <2>. QED  BY <2>1, <2>2, <2>3 DEF SafeInv
<1>. QED  BY <1>1, <1>2

LEMMA SafeInvShows ==
    SafeInv => Safe!OnlyDelayOrLossRunsGovernedActions /\ Safe!FrozenAppsAreLeftAlone
<1>. SUFFICES ASSUME SafeInv
              PROVE  Safe!OnlyDelayOrLossRunsGovernedActions /\ Safe!FrozenAppsAreLeftAlone
  OBVIOUS
<1>1. Safe!OnlyDelayOrLossRunsGovernedActions
  BY DEF SafeInv, ChargesInv, RequestInv, Undisturbed, Governed, Safe!OnlyDelayOrLossRunsGovernedActions, Safe!Requested
<1>2. Safe!FrozenAppsAreLeftAlone
  BY DEF SafeInv, StoreInv, Safe!FrozenAppsAreLeftAlone, Safe!Requested
<1>. QED  BY <1>1, <1>2


----------------------------------------------------------------------------
(* AppOrchestrator: the invariant.  An operator that has the file loaded   *)
(* alone holds what was answered, but for the record it is saving.         *)

RecordTypes == Apps!Records \cup {Apps!Unknown}

AppsTypeOK ==
    /\ copies \in [Evaluations -> [AppNames -> RecordTypes] \cup {Apps!NotLoaded}]
    /\ saving \in [Evaluations -> AppNames \cup {Apps!Nothing}]
    /\ answered \in [AppNames -> RecordTypes]
    /\ appFile \in [AppNames -> RecordTypes] \cup {Apps!Unfinished}
    /\ overlapped \in BOOLEAN /\ damaged \in BOOLEAN
    /\ Apps!Saving \subseteq Apps!Loaded

OneLoads ==
    /\ \A o, p \in Apps!Loaded : o = p
    /\ damaged => Apps!Loaded = {}
    /\ \A o \in Apps!Loaded, a \in AppNames : saving[o] # a => copies[o][a] = answered[a]
    /\ damaged \/ Apps!Saving # {} => appFile = Apps!Unfinished
    /\ ~damaged /\ Apps!Saving = {} => appFile = answered

AppsInv == AppsTypeOK /\ (~overlapped => OneLoads)

LEMMA NotAnApp == \A f \in [AppNames -> RecordTypes] : f # Apps!NotLoaded
BY AppNamesAssumption DEF Apps!NotLoaded

LEMMA NothingNoApp == Apps!Nothing \notin AppNames
BY AppNamesAssumption DEF Apps!Nothing

LEMMA AppsInvInit == Apps!OrchestratorInit => AppsInv
<1>. SUFFICES ASSUME Apps!OrchestratorInit PROVE AppsInv
  OBVIOUS
<1>2. Apps!Loaded = {} /\ Apps!Saving = {}
  BY DEF Apps!OrchestratorInit, Apps!Loaded, Apps!Saving
<1>1. AppsTypeOK
  <2>1. Apps!NoApps \in [AppNames -> RecordTypes]
    BY DEF Apps!NoApps, RecordTypes
  <2>. QED  BY <1>2, <2>1 DEF Apps!OrchestratorInit, AppsTypeOK
<1>. QED  BY <1>1, <1>2 DEF Apps!OrchestratorInit, AppsInv, OneLoads

\* The records an operation may leave are records.
LEMMA OperatedTyped ==
    ASSUME AppsTypeOK, NEW o \in Evaluations, NEW a \in AppNames, NEW r \in Apps!Records,
           Apps!Operate(o, a, r)
    PROVE  /\ copies[o] \in [AppNames -> RecordTypes]
           /\ copies' = [copies EXCEPT ![o] = [copies[o] EXCEPT ![a] = r]]
           /\ copies'[o] \in [AppNames -> RecordTypes]
           /\ saving' = [saving EXCEPT ![o] = a]
           /\ appFile' = Apps!Unfinished
           /\ UNCHANGED <<answered, overlapped, damaged>>
<1>1. copies[o] \in [AppNames -> RecordTypes]
  BY DEF Apps!Operate, Apps!Loaded, AppsTypeOK
<1>2. copies' = [copies EXCEPT ![o] = [copies[o] EXCEPT ![a] = r]]
  BY DEF Apps!Operate, AppsTypeOK
<1>. QED  BY <1>1, <1>2 DEF Apps!Operate, AppsTypeOK, RecordTypes

LEMMA AppsTypeStep ==
    ASSUME AppsTypeOK, Apps!OrchestratorNext PROVE AppsTypeOK'
<1>1. ASSUME NEW o \in Evaluations, Apps!Load(o) PROVE AppsTypeOK'
  <2>1. appFile \in [AppNames -> RecordTypes]
    BY <1>1 DEF Apps!Load, Apps!Reads, AppsTypeOK
  <2>2. copies' = [copies EXCEPT ![o] = appFile] /\ saving[o] = Apps!Nothing
    BY <1>1 DEF Apps!Load, Apps!Reads, AppsTypeOK, Apps!Saving, Apps!Loaded
  <2>3. Apps!Saving' \subseteq Apps!Loaded'
    BY <1>1, <2>2 DEF Apps!Load, AppsTypeOK, Apps!Saving, Apps!Loaded
  <2>. QED  BY <1>1, <2>1, <2>2, <2>3 DEF Apps!Load, AppsTypeOK
<1>2. ASSUME NEW o \in Evaluations, NEW a \in AppNames, NEW r \in Apps!Records,
             Apps!Operate(o, a, r)
      PROVE  AppsTypeOK'
  <2>1. copies'[o] # Apps!NotLoaded
    BY <1>2, OperatedTyped, NotAnApp
  <2>2. Apps!Saving' \subseteq Apps!Loaded'
    BY <1>2, <2>1, OperatedTyped DEF AppsTypeOK, Apps!Saving, Apps!Loaded
  <2>. QED  BY <1>2, <2>2, OperatedTyped DEF AppsTypeOK
<1>3. ASSUME NEW o \in Evaluations, Apps!Saved(o) PROVE AppsTypeOK'
  <2>1. /\ copies[o] \in [AppNames -> RecordTypes] /\ saving[o] \in AppNames
        /\ UNCHANGED copies
    BY <1>3 DEF Apps!Saved, AppsTypeOK, Apps!Saving, Apps!Loaded
  <2>2. Apps!Saving' \subseteq Apps!Loaded'
    BY <1>3, <2>1 DEF Apps!Saved, AppsTypeOK, Apps!Saving, Apps!Loaded
  <2>3. appFile' \in [AppNames -> RecordTypes] \cup {Apps!Unfinished}
    BY <1>3, <2>1 DEF Apps!Saved
  <2>4. answered' \in [AppNames -> RecordTypes]
    BY <1>3, <2>1 DEF Apps!Saved, AppsTypeOK
  <2>. QED  BY <1>3, <2>1, <2>2, <2>3, <2>4 DEF Apps!Saved, AppsTypeOK
<1>4. ASSUME NEW o \in Evaluations, Apps!CrashInSave(o) PROVE AppsTypeOK'
  <2>1. Apps!Saving' \subseteq Apps!Loaded'
    BY <1>4 DEF Apps!CrashInSave, AppsTypeOK, Apps!Saving, Apps!Loaded
  <2>. QED  BY <1>4, <2>1 DEF Apps!CrashInSave, AppsTypeOK
<1>5. ASSUME NEW o \in Evaluations, Apps!Leave(o) PROVE AppsTypeOK'
  <2>1. Apps!Saving' \subseteq Apps!Loaded'
    BY <1>5 DEF Apps!Leave, AppsTypeOK, Apps!Saving, Apps!Loaded
  <2>. QED  BY <1>5, <2>1 DEF Apps!Leave, AppsTypeOK
<1>. QED  BY <1>1, <1>2, <1>3, <1>4, <1>5 DEF Apps!OrchestratorNext

LEMMA AloneStep ==
    ASSUME AppsTypeOK, OneLoads, Apps!OrchestratorNext, ~overlapped' PROVE OneLoads'
<1>0. AppsTypeOK'
  BY AppsTypeStep
<1>1. ASSUME NEW o \in Evaluations, Apps!Load(o) PROVE OneLoads'
  <2>1. /\ Apps!Loaded = {} /\ Apps!Saving = {} /\ ~damaged /\ appFile = answered
        /\ UNCHANGED <<appFile, saving, answered, damaged>>
        /\ copies' = [copies EXCEPT ![o] = answered]
    BY <1>1 DEF Apps!Load, Apps!Reads, OneLoads, AppsTypeOK
  <2>2. Apps!Loaded' \subseteq {o} /\ Apps!Saving' = {}
    BY <2>1 DEF Apps!Loaded, Apps!Saving, AppsTypeOK
  <2>3. copies'[o] = answered'
    BY <2>1 DEF AppsTypeOK
  <2>. QED  BY <2>1, <2>2, <2>3 DEF OneLoads
<1>2. ASSUME NEW o \in Evaluations, NEW a \in AppNames, NEW r \in Apps!Records,
             Apps!Operate(o, a, r)
      PROVE  OneLoads'
  <2>1. Apps!Loaded = {o} /\ Apps!Saving = {} /\ ~damaged
    BY <1>2 DEF Apps!Operate, OneLoads, AppsTypeOK, Apps!Loaded
  <2>2. Apps!Loaded' \subseteq {o} /\ o \in Apps!Saving'
    BY <1>2, <2>1, OperatedTyped, NothingNoApp DEF Apps!Loaded, Apps!Saving, AppsTypeOK
  <2>3. \A b \in AppNames : saving'[o] # b => copies'[o][b] = answered'[b]
    <3>1. \A b \in AppNames : copies[o][b] = answered[b]
      BY <2>1, NothingNoApp DEF OneLoads, Apps!Saving, Apps!Loaded
    <3>. QED  BY <1>2, <3>1, OperatedTyped DEF AppsTypeOK
  <2>. QED  BY <1>2, <2>1, <2>2, <2>3, OperatedTyped DEF OneLoads
<1>3. ASSUME NEW o \in Evaluations, Apps!Saved(o) PROVE OneLoads'
  <2>1. /\ Apps!Loaded = {o} /\ Apps!Saving = {o} /\ ~damaged
        /\ copies[o] \in [AppNames -> RecordTypes] /\ saving[o] \in AppNames
        /\ UNCHANGED copies
    BY <1>3 DEF Apps!Saved, OneLoads, AppsTypeOK, Apps!Saving, Apps!Loaded
  <2>2. Apps!Loaded' = {o} /\ Apps!Saving' = {}
    BY <1>3, <2>1 DEF Apps!Saved, Apps!Loaded, Apps!Saving, AppsTypeOK
  <2>3. answered' = copies[o]
    <3>1. \A a \in AppNames : answered'[a] = copies[o][a]
      BY <1>3, <2>1 DEF Apps!Saved, OneLoads, AppsTypeOK
    <3>. QED  BY <1>0, <2>1, <3>1 DEF AppsTypeOK
  <2>4. appFile' = copies[o]
    BY <1>3, <2>1 DEF Apps!Saved
  <2>. QED  BY <1>3, <2>1, <2>2, <2>3, <2>4 DEF Apps!Saved, OneLoads
<1>4. ASSUME NEW o \in Evaluations, Apps!CrashInSave(o) PROVE OneLoads'
  <2>1. Apps!Loaded = {o} /\ Apps!Saving = {o}
    BY <1>4 DEF Apps!CrashInSave, OneLoads, AppsTypeOK
  <2>2. Apps!Loaded' = {} /\ Apps!Saving' = {}
    BY <1>4, <2>1 DEF Apps!CrashInSave, Apps!Loaded, Apps!Saving, AppsTypeOK
  <2>. QED  BY <1>4, <2>2 DEF Apps!CrashInSave, OneLoads
<1>5. ASSUME NEW o \in Evaluations, Apps!Leave(o) PROVE OneLoads'
  <2>1. /\ Apps!Loaded' = Apps!Loaded \ {o} /\ Apps!Saving' = Apps!Saving
        /\ \A p \in Apps!Loaded' : copies'[p] = copies[p]
    BY <1>5 DEF Apps!Leave, Apps!Loaded, Apps!Saving, AppsTypeOK
  <2>. QED  BY <1>5, <2>1 DEF Apps!Leave, OneLoads
<1>. QED  BY <1>1, <1>2, <1>3, <1>4, <1>5 DEF Apps!OrchestratorNext

LEMMA AppsInvStep == AppsInv /\ [Apps!OrchestratorNext]_appVars => AppsInv'
<1>. SUFFICES ASSUME AppsInv, [Apps!OrchestratorNext]_appVars PROVE AppsInv'
  OBVIOUS
<1>1. CASE Apps!OrchestratorNext
  <2>1. overlapped => overlapped'
    BY <1>1 DEF Apps!OrchestratorNext, Apps!Load, Apps!Operate, Apps!Saved,
                Apps!CrashInSave, Apps!Leave
  <2>. QED  BY <1>1, <2>1, AppsTypeStep, AloneStep DEF AppsInv
<1>2. CASE UNCHANGED appVars
  <2>1. AppsTypeOK'
    BY <1>2 DEF appVars, AppsInv, AppsTypeOK, Apps!Saving, Apps!Loaded
  <2>2. ~overlapped' => OneLoads'
    BY <1>2 DEF appVars, AppsInv, OneLoads, Apps!Saving, Apps!Loaded
  <2>. QED  BY <2>1, <2>2 DEF AppsInv
<1>. QED  BY <1>1, <1>2

LEMMA AppsInvShows == AppsInv => Apps!OnlyOverlapForgetsApps
BY DEF AppsInv, OneLoads, Apps!OnlyOverlapForgetsApps


----------------------------------------------------------------------------
(* RemoteBrain: the invariant.  A caller alone keeps the count and the     *)
(* time of the last failure equal to those of the history.                 *)

CallType ==
    [at : {"idle", "breaker", "service", "count", "add", "time", "answered"},
     seen : Nat, kind : {"none", "query", "pipe"},
     answer : {"none", "noop", "decided", "refused"}]

\* The failure of some caller is not counted yet, or its time not written.
Counting == \E c \in Evaluations : calls[c].at \in {"count", "add"}
Timing == \E c \in Evaluations : calls[c].at \in {"count", "add", "time"}

CountsAgree ==
    /\ \A c, d \in Brain!Busy : c = d
    /\ IF Counting THEN streak = failures + 1 ELSE streak = failures
    /\ IF Timing THEN failedAt = brainTime ELSE lastFailure = failedAt
    /\ \A c \in Evaluations : calls[c].at = "add" => calls[c].seen = failures
    /\ ~early

BrainInv ==
    /\ calls \in [Evaluations -> CallType] /\ failures \in Nat
    /\ brainTime \in Nat /\ lastFailure \in Nat /\ failedAt \in Nat
    /\ brainOverlapped \in BOOLEAN
    /\ ~brainOverlapped => CountsAgree

LEMMA BrainInvInit == Brain!BrainInit => BrainInv
<1>. SUFFICES ASSUME Brain!BrainInit PROVE BrainInv
  OBVIOUS
<1>1. \A c \in Evaluations : calls[c] = Brain!NoCall
  BY DEF Brain!BrainInit
<1>2. Brain!NoCall \in CallType /\ Brain!NoCall.at = "idle"
  BY DEF Brain!NoCall, CallType
<1>3. ~Counting /\ ~Timing /\ Brain!Busy = {}
  BY <1>1, <1>2 DEF Counting, Timing, Brain!Busy
<1>. QED  BY <1>1, <1>2, <1>3, PeriodsAssumption DEF Brain!BrainInit, BrainInv, CountsAgree

\* A caller that moves on: the others stay where they are.
BrainGoes(c, place) ==
    /\ calls' \in [Evaluations -> CallType] /\ calls'[c].at = place
    /\ \A d \in Evaluations : d # c => calls'[d] = calls[d]

LEMMA BrainMoves ==
    ASSUME BrainInv, NEW c \in Evaluations
    PROVE  /\ \A kind \in {"query", "pipe"} : Brain!Asking(c, kind) => BrainGoes(c, "breaker")
           /\ Brain!Fallback(c) => BrainGoes(c, "answered")
           /\ Brain!CallService(c) => BrainGoes(c, "service")
           /\ Brain!Success(c) => BrainGoes(c, "answered") \/ BrainGoes(c, "count")
           /\ Brain!Failure(c) => BrainGoes(c, "count")
           /\ Brain!ReadCount(c) => BrainGoes(c, "add") /\ calls'[c].seen = failures
           /\ Brain!WriteCount(c) => BrainGoes(c, "time")
           /\ Brain!WriteTime(c) => BrainGoes(c, "answered")
           /\ Brain!SendFeedback(c) => BrainGoes(c, "idle")
           /\ calls' = [calls EXCEPT ![c] = [Brain!NoCall EXCEPT !.at = "answered",
                            !.kind = "query", !.answer = "noop"]] => BrainGoes(c, "answered")
<1>. USE DEF BrainGoes, BrainInv
<1>. PICK n \in CallType : n = Brain!NoCall
  BY DEF Brain!NoCall, CallType
<1>. PICK k \in CallType : k = calls[c]
  OBVIOUS
<1>1. ASSUME NEW kind \in {"query", "pipe"}, Brain!Asking(c, kind) PROVE BrainGoes(c, "breaker")
  <2>1. PICK d \in CallType : d = [n EXCEPT !.at = "breaker", !.kind = kind]
    BY DEF CallType
  <2>2. d.at = "breaker"
    BY <2>1 DEF CallType
  <2>. QED  BY <1>1, <2>1, <2>2 DEF Brain!Asking
<1>2. ASSUME Brain!Fallback(c) PROVE BrainGoes(c, "answered")
  <2>1. PICK d \in CallType : d = [k EXCEPT !.at = "answered", !.answer = "refused"]
    BY DEF CallType
  <2>2. d.at = "answered"
    BY <2>1 DEF CallType
  <2>. QED  BY <1>2, <2>1, <2>2 DEF Brain!Fallback, Brain!Outcome
<1>3. Brain!CallService(c) => BrainGoes(c, "service")
  BY DEF Brain!CallService, CallType
<1>4. Brain!Success(c) => BrainGoes(c, "answered") \/ BrainGoes(c, "count")
  BY DEF Brain!Success, Brain!Outcome, CallType
<1>5. Brain!Failure(c) => BrainGoes(c, "count")
  BY DEF Brain!Failure, CallType
<1>6. ASSUME Brain!ReadCount(c) PROVE BrainGoes(c, "add") /\ calls'[c].seen = failures
  <2>1. PICK d \in CallType : d = [k EXCEPT !.at = "add", !.seen = failures]
    BY DEF CallType
  <2>2. d.at = "add" /\ d.seen = failures
    BY <2>1 DEF CallType
  <2>. QED  BY <1>6, <2>1, <2>2 DEF Brain!ReadCount
<1>7. ASSUME Brain!WriteCount(c) PROVE BrainGoes(c, "time")
  <2>1. PICK d \in CallType : d = [k EXCEPT !.at = "time", !.seen = 0]
    BY DEF CallType
  <2>2. d.at = "time"
    BY <2>1 DEF CallType
  <2>. QED  BY <1>7, <2>1, <2>2 DEF Brain!WriteCount
<1>8. ASSUME Brain!WriteTime(c) PROVE BrainGoes(c, "answered")
  <2>1. PICK d \in CallType : d = [k EXCEPT !.at = "answered", !.answer = "refused"]
    BY DEF CallType
  <2>2. d.at = "answered"
    BY <2>1 DEF CallType
  <2>. QED  BY <1>8, <2>1, <2>2 DEF Brain!WriteTime, Brain!Outcome
<1>9. Brain!SendFeedback(c) => BrainGoes(c, "idle")
  BY DEF Brain!SendFeedback, Brain!NoCall
<1>10. ASSUME calls' = [calls EXCEPT ![c] = [Brain!NoCall EXCEPT !.at = "answered",
                            !.kind = "query", !.answer = "noop"]]
       PROVE  BrainGoes(c, "answered")
  <2>1. PICK d \in CallType : d = [n EXCEPT !.at = "answered", !.kind = "query", !.answer = "noop"]
    BY DEF CallType
  <2>2. d.at = "answered"
    BY <2>1 DEF CallType
  <2>. QED  BY <1>10, <2>1, <2>2
<1>. QED  BY <1>1, <1>2, <1>3, <1>4, <1>5, <1>6, <1>7, <1>8, <1>9, <1>10


LEMMA BrainStep == ASSUME BrainInv, Brain!BrainNext PROVE BrainInv'
<1>. DEFINE Rest(c) == \A d \in Evaluations : d # c => calls[d].at \in {"idle", "answered"}
<1>1. ASSUME NEW c \in Evaluations, ~brainOverlapped, c \in Brain!Busy PROVE Rest(c)
  BY <1>1 DEF BrainInv, CountsAgree, Brain!Busy, CallType
\* The step of the one caller that is at the service
<1>2. ASSUME NEW c \in Evaluations, NEW place, BrainGoes(c, place), failures' \in Nat,
             brainTime' \in Nat, lastFailure' \in Nat, failedAt' \in Nat,
             UNCHANGED brainOverlapped, c \in Brain!Busy,
             ~brainOverlapped =>
                /\ IF place \in {"count", "add"} THEN streak' = failures' + 1 ELSE streak' = failures'
                /\ IF place \in {"count", "add", "time"} THEN failedAt' = brainTime'
                   ELSE lastFailure' = failedAt'
                /\ place = "add" => calls'[c].seen = failures'
                /\ ~early'
      PROVE  BrainInv'
  <2>1. calls' \in [Evaluations -> CallType]
    BY <1>2 DEF BrainGoes
  <2>2. CASE brainOverlapped
    BY <1>2, <2>1, <2>2 DEF BrainInv
  <2>3. CASE ~brainOverlapped
    <3>1. \A d \in Evaluations : d # c => calls'[d].at \in {"idle", "answered"}
      BY <1>1, <1>2, <2>3 DEF BrainGoes
    <3>2. \A d, e \in Brain!Busy' : d = e
      BY <3>1 DEF Brain!Busy
    <3>3. Counting' <=> place \in {"count", "add"}
      BY <1>2, <3>1 DEF Counting, BrainGoes
    <3>4. Timing' <=> place \in {"count", "add", "time"}
      BY <1>2, <3>1 DEF Timing, BrainGoes
    <3>5. \A d \in Evaluations : calls'[d].at = "add" => calls'[d].seen = failures'
      BY <1>2, <2>3, <3>1 DEF BrainGoes
    <3>6. CountsAgree'
      BY <1>2, <2>3, <3>2, <3>3, <3>4, <3>5 DEF CountsAgree
    <3>. QED  BY <1>2, <2>1, <3>6 DEF BrainInv
  <2>. QED  BY <2>2, <2>3
\* Alone at the service, a caller says what is going on.
<1>3. ASSUME NEW c \in Evaluations, ~brainOverlapped, c \in Brain!Busy
      PROVE  /\ Counting <=> calls[c].at \in {"count", "add"}
             /\ Timing <=> calls[c].at \in {"count", "add", "time"}
  BY <1>1, <1>3 DEF Counting, Timing
<1>4. ASSUME NEW c \in Evaluations, NEW kind \in {"query", "pipe"}, Brain!Asking(c, kind),
             UNCHANGED <<brainTime, failures, lastFailure, feedback, streak, failedAt, early>>
      PROVE  BrainInv'
  <2>1. BrainGoes(c, "breaker") /\ c \notin Brain!Busy
        /\ brainOverlapped' = (brainOverlapped \/ Brain!Busy # {})
    BY <1>4, BrainMoves DEF Brain!Asking
  <2>2. calls' \in [Evaluations -> CallType] /\ brainOverlapped' \in BOOLEAN
    BY <2>1 DEF BrainGoes
  <2>3. ASSUME ~brainOverlapped' PROVE CountsAgree'
    <3>1. Brain!Busy = {} /\ CountsAgree
      BY <2>1, <2>3 DEF BrainInv
    <3>2. \A d \in Evaluations : calls[d].at \in {"idle", "answered"}
      BY <3>1 DEF Brain!Busy
    <3>3. ~Counting /\ ~Timing /\ ~Counting' /\ ~Timing' /\ \A d \in Brain!Busy' : d = c
      BY <2>1, <3>2 DEF Counting, Timing, BrainGoes, Brain!Busy
    <3>4. \A d \in Evaluations : calls'[d].at # "add"
      BY <3>3 DEF Counting
    <3>. QED  BY <1>4, <3>1, <3>3, <3>4 DEF CountsAgree
  <2>. QED  BY <1>4, <2>2, <2>3 DEF BrainInv
\* Callers that are not at the service come and go.
<1>5. ASSUME NEW c \in Evaluations, NEW place \in {"idle", "answered"}, BrainGoes(c, place),
             c \notin Brain!Busy, UNCHANGED <<brainTime, failures, lastFailure, streak, failedAt,
                                             early, brainOverlapped>>
      PROVE  BrainInv'
  <2>1. calls' \in [Evaluations -> CallType]
    BY <1>5 DEF BrainGoes
  <2>2. /\ Brain!Busy' = Brain!Busy /\ Counting' = Counting /\ Timing' = Timing
        /\ \A d \in Evaluations : calls'[d].at = "add" => calls'[d] = calls[d]
    BY <1>5 DEF BrainGoes, Brain!Busy, Counting, Timing
  <2>3. CountsAgree => CountsAgree'
    BY <1>5, <2>2 DEF CountsAgree
  <2>. QED  BY <1>5, <2>1, <2>3 DEF BrainInv
<1>6. ASSUME NEW c \in Evaluations, Brain!GetDecision(c) PROVE BrainInv'
  <2>1. CASE Brain!Asking(c, "query")
    BY <1>4, <1>6, <2>1 DEF Brain!GetDecision
  <2>2. CASE ~Brain!Asking(c, "query")
    BY <1>5, <1>6, <2>2, BrainMoves DEF Brain!GetDecision
  <2>. QED  BY <2>1, <2>2
<1>7. ASSUME NEW c \in Evaluations, Brain!PipeEvent(c) PROVE BrainInv'
  BY <1>4, <1>7 DEF Brain!PipeEvent
<1>8. ASSUME NEW c \in Evaluations, Brain!Fallback(c) PROVE BrainInv'
  <2>1. BrainGoes(c, "answered") /\ c \in Brain!Busy /\ calls[c].at = "breaker"
        /\ UNCHANGED <<brainTime, failures, lastFailure, streak, failedAt, early, brainOverlapped>>
    BY <1>8, BrainMoves DEF Brain!Fallback, Brain!Busy
  <2>. QED  BY <1>2, <1>3, <2>1 DEF BrainInv, CountsAgree
<1>9. ASSUME NEW c \in Evaluations, Brain!CallService(c) PROVE BrainInv'
  <2>1. BrainGoes(c, "service") /\ c \in Brain!Busy /\ calls[c].at = "breaker"
        /\ UNCHANGED <<brainTime, lastFailure, failedAt, brainOverlapped>>
        /\ failures' \in Nat /\ brainTime \in Nat /\ lastFailure \in Nat /\ failedAt \in Nat
    BY <1>9, BrainMoves DEF Brain!CallService, Brain!Busy, BrainInv
  <2>2. ASSUME ~brainOverlapped
        PROVE  streak' = failures' /\ lastFailure' = failedAt' /\ ~early'
    <3>1. ~Counting /\ ~Timing /\ CountsAgree
      BY <1>3, <2>1, <2>2 DEF BrainInv
    <3>2. streak = failures /\ lastFailure = failedAt /\ ~early
      BY <3>1 DEF CountsAgree
    <3>3. ~Brain!ReallyResting
      BY <1>9, <3>2, PeriodsAssumption DEF Brain!CallService, Brain!ReallyResting, Brain!Resting, Brain!Rested, BrainInv
    <3>. QED  BY <1>9, <3>2, <3>3 DEF Brain!CallService, Brain!Resting
  <2>. QED  BY <1>2, <2>1, <2>2
<1>10. ASSUME NEW c \in Evaluations, Brain!Success(c) PROVE BrainInv'
  <2>1. /\ c \in Brain!Busy /\ calls[c].at = "service" /\ failures' = 0
        /\ UNCHANGED <<brainTime, lastFailure, early, brainOverlapped>>
        /\ brainTime \in Nat /\ lastFailure \in Nat /\ failedAt \in Nat
    BY <1>10 DEF Brain!Success, Brain!Busy, BrainInv
  <2>2. \/ BrainGoes(c, "answered") /\ streak' = 0 /\ UNCHANGED failedAt
        \/ BrainGoes(c, "count") /\ streak' = 1 /\ failedAt' = brainTime
    <3>1. \/ calls'[c].at = "answered" /\ streak' = 0 /\ UNCHANGED failedAt
          \/ calls'[c].at = "count" /\ streak' = 1 /\ failedAt' = brainTime
      BY <1>10 DEF Brain!Success, BrainInv, CallType
    <3>. QED  BY <1>10, <3>1, BrainMoves DEF BrainGoes
  <2>3. ~brainOverlapped => lastFailure = failedAt /\ ~early
    BY <1>3, <2>1 DEF BrainInv, CountsAgree
  <2>4. CASE BrainGoes(c, "answered") /\ streak' = 0 /\ UNCHANGED failedAt
    BY <1>2, <2>1, <2>3, <2>4
  <2>5. CASE BrainGoes(c, "count") /\ streak' = 1 /\ failedAt' = brainTime
    BY <1>2, <2>1, <2>3, <2>5
  <2>. QED  BY <2>2, <2>4, <2>5
<1>11. ASSUME NEW c \in Evaluations, Brain!Failure(c) PROVE BrainInv'
  <2>1. BrainGoes(c, "count") /\ c \in Brain!Busy /\ calls[c].at = "service"
        /\ streak' = streak + 1 /\ failedAt' = brainTime
        /\ UNCHANGED <<brainTime, failures, lastFailure, early, brainOverlapped>>
    BY <1>11, BrainMoves DEF Brain!Failure, Brain!Busy
  <2>2. ~brainOverlapped => streak = failures /\ ~early
    BY <1>3, <2>1 DEF BrainInv, CountsAgree
  <2>. QED  BY <1>2, <2>1, <2>2 DEF BrainInv
<1>12. ASSUME NEW c \in Evaluations, Brain!ReadCount(c) PROVE BrainInv'
  <2>1. BrainGoes(c, "add") /\ c \in Brain!Busy /\ calls[c].at = "count" /\ calls'[c].seen = failures
        /\ UNCHANGED <<brainTime, failures, lastFailure, streak, failedAt, early, brainOverlapped>>
    BY <1>12, BrainMoves DEF Brain!ReadCount, Brain!Busy
  <2>. QED  BY <1>2, <1>3, <2>1 DEF BrainInv, CountsAgree
<1>13. ASSUME NEW c \in Evaluations, Brain!WriteCount(c) PROVE BrainInv'
  <2>1. BrainGoes(c, "time") /\ c \in Brain!Busy /\ calls[c].at = "add"
        /\ failures' = calls[c].seen + 1
        /\ UNCHANGED <<brainTime, lastFailure, streak, failedAt, early, brainOverlapped>>
    BY <1>13, BrainMoves DEF Brain!WriteCount, Brain!Busy
  <2>2. failures' \in Nat
    BY <2>1 DEF BrainInv, CallType
  <2>. QED  BY <1>2, <1>3, <2>1, <2>2 DEF BrainInv, CountsAgree
<1>14. ASSUME NEW c \in Evaluations, Brain!WriteTime(c) PROVE BrainInv'
  <2>1. BrainGoes(c, "answered") /\ c \in Brain!Busy /\ calls[c].at = "time"
        /\ lastFailure' = brainTime
        /\ UNCHANGED <<brainTime, failures, streak, failedAt, early, brainOverlapped>>
    BY <1>14, BrainMoves DEF Brain!WriteTime, Brain!Busy
  <2>. QED  BY <1>2, <1>3, <2>1 DEF BrainInv, CountsAgree
<1>15. ASSUME NEW c \in Evaluations, Brain!SendFeedback(c) PROVE BrainInv'
  <2>1. BrainGoes(c, "idle") /\ c \notin Brain!Busy
    BY <1>15, BrainMoves DEF Brain!SendFeedback, Brain!Busy
  <2>. QED  BY <1>5, <1>15, <2>1 DEF Brain!SendFeedback
<1>16. CASE Brain!Tick
  <2>1. ~Counting /\ ~Timing
    BY <1>16 DEF Brain!Tick, Counting, Timing
  <2>. QED  BY <1>16, <2>1 DEF Brain!Tick, BrainInv, CountsAgree, Counting, Timing, Brain!Busy
<1>. QED  BY <1>6, <1>7, <1>8, <1>9, <1>10, <1>11, <1>12, <1>13, <1>14, <1>15, <1>16 DEF Brain!BrainNext

LEMMA BrainInvStep == BrainInv /\ [Brain!BrainNext]_brainVars => BrainInv'
<1>1. BrainInv /\ UNCHANGED brainVars => BrainInv'
  BY DEF brainVars, BrainInv, CountsAgree, Counting, Timing, Brain!Busy
<1>. QED  BY <1>1, BrainStep

LEMMA BrainInvShows == BrainInv => Brain!OnlyOverlapWakesBrain
BY DEF BrainInv, CountsAgree, Brain!OnlyOverlapWakesBrain


----------------------------------------------------------------------------
(* CircuitBreaker: the invariant.                                          *)

BreakerCall ==
    [at : {"away", "wait", "check", "run", "halve", "tally", "count", "judge", "failed",
           "raised", "trim"}, attempt : Nat, seen : Nat]

BreakerTypeOK ==
    /\ breakerTime \in Nat /\ breaker \in {"closed", "open", "half"}
    /\ failureCount \in Nat /\ successCount \in Nat /\ failureAt \in Nat
    /\ call \in [Evaluations -> BreakerCall]
    /\ opened \in Nat /\ fresh \in Nat /\ left \in Nat /\ together \in BOOLEAN
    /\ tracked \in Seq(Nat) /\ given \in Seq(Nat)

\* A call alone: what it found out holds until it acts on it, and the breaker
\* has counted the successes since it was half open.
OneCall ==
    /\ \A s, t \in Breaker!AtBreaker : s = t
    /\ ~tooEarly /\ ~hasty
    /\ opened # 0 => breaker = "open" /\ opened = failureAt
    /\ \A t \in Evaluations :
          /\ call[t].at \in {"run", "tally", "count", "judge"} => breaker # "open"
          /\ call[t].at = "halve" => breakerTime - failureAt >= Recovery
          /\ call[t].at = "judge" => failureAt = breakerTime
          /\ call[t].at = "tally" =>
                breaker = "half" /\ call[t].seen = successCount /\ left + fresh = successCount + 1
    /\ breaker = "half" /\ (\A t \in Evaluations : call[t].at # "tally") =>
          left + fresh = successCount

\* The tracker keeps the last failures: all, or at least MaxRecent of them.
Tracks ==
    /\ \A i, j \in 1..Len(given) : i <= j => given[i] <= given[j]
    /\ \A i \in 1..Len(given) : given[i] <= breakerTime
    /\ \E k \in Nat :
          /\ Len(given) = Len(tracked) + k
          /\ \A i \in 1..Len(tracked) : tracked[i] = given[i + k]
          /\ k > 0 => Len(tracked) >= MaxRecent
    /\ \A t \in Evaluations : call[t].at = "trim" => Len(tracked) >= MaxRecent

BreakerInv == BreakerTypeOK /\ Tracks /\ (~together => OneCall)

LEMMA IntervalSize ==
    ASSUME NEW n \in Nat PROVE IsFiniteSet(1..n) /\ Cardinality(1..n) = n
BY FS_Interval

\* The places of the times that are less than w before t
Since(f, w, t) == {i \in 1..Len(f) : f[i] + w > t}

\* Of times in their order, the last ones tell whether as many as e are recent,
\* when there are that many.
LEMMA LastTellRecent ==
    ASSUME NEW f \in Seq(Nat), NEW g \in Seq(Nat), NEW k \in Nat, Len(g) = Len(f) + k,
           \A i \in 1..Len(f) : f[i] = g[i + k],
           \A i, j \in 1..Len(g) : i <= j => g[i] <= g[j],
           NEW w \in Nat, NEW t \in Nat, NEW e \in Nat, k > 0 => Len(f) >= e
    PROVE  Cardinality(Since(f, w, t)) >= e <=> Cardinality(Since(g, w, t)) >= e
<1>. USE DEF Since
<1>. DEFINE F == {i \in 1..Len(f) : f[i] + w > t}
            G == {i \in 1..Len(g) : g[i] + w > t}
<1>1. /\ Len(f) \in Nat /\ Len(g) \in Nat
      /\ \A i \in 1..Len(f) : f[i] \in Nat
      /\ \A i \in 1..Len(g) : g[i] \in Nat
  BY SMTT(20)
<1>2. IsFiniteSet(1..Len(f)) /\ Cardinality(1..Len(f)) = Len(f) /\ IsFiniteSet(1..Len(g))
  BY <1>1, IntervalSize
<1>3. /\ IsFiniteSet(F) /\ Cardinality(F) \in Nat /\ Cardinality(F) <= Len(f)
      /\ IsFiniteSet(G) /\ Cardinality(G) \in Nat
  BY <1>2, FS_Subset, FS_CardinalityType
<1>4. Cardinality(F) <= Cardinality(G)
  <2>1. \A i \in F : i + k \in G /\ i \in Int
    BY SMTT(20), <1>1
  <2>. HIDE DEF F, G
  <2>2. [i \in F |-> i + k] \in Injection(F, G)
    BY <2>1 DEF Injection, IsInjective
  <2>. QED  BY <1>3, <2>2, FS_Injection
<1>5. CASE \A j \in G : j - k \in F
  <2>0. \A j \in G : j - k \in F /\ j \in Int
    BY <1>5
  <2>. HIDE DEF F, G
  <2>1. [j \in G |-> j - k] \in Injection(G, F)
    BY <2>0 DEF Injection, IsInjective
  <2>2. Cardinality(G) <= Cardinality(F)
    BY <1>3, <2>1, FS_Injection
  <2>3. Cardinality(F) >= e <=> Cardinality(G) >= e
    BY <1>3, <1>4, <2>2
  <2>. QED  BY <2>3 DEF F, G
<1>6. CASE \E j \in G : j - k \notin F
  <2>1. PICK j \in G : j - k \notin F
    BY <1>6
  <2>2. j \in 1..Len(g) /\ g[j] + w > t
    OBVIOUS
  <2>3. j - k \notin 1..Len(f)
    <3>1. ASSUME NEW i \in 1..Len(f), i = j - k PROVE f[i] = g[j]
      <4>1. i + k = j
        BY <2>2, <3>1
      <4>. QED  BY <4>1
    <3>. QED  BY <2>1, <2>2, <3>1
  <2>4. j <= k /\ k > 0
    BY <1>1, <2>2, <2>3
  <2>5. \A i \in 1..Len(f) : i \in F
    <3>. SUFFICES ASSUME NEW i \in 1..Len(f) PROVE f[i] + w > t
      OBVIOUS
    <3>1. i + k \in 1..Len(g) /\ j <= i + k /\ f[i] = g[i + k]
      BY <1>1, <2>2, <2>4
    <3>2. g[j] <= g[i + k] /\ g[j] \in Nat /\ g[i + k] \in Nat
      BY <1>1, <2>2, <3>1
    <3>. QED  BY <2>2, <3>1, <3>2
  <2>6. F = 1..Len(f)
    BY <2>5
  <2>7. Cardinality(F) = Len(f) /\ Len(f) >= e
    BY <1>2, <2>4, <2>6
  <2>. HIDE DEF F, G
  <2>8. Cardinality(F) >= e <=> Cardinality(G) >= e
    BY <1>1, <1>3, <1>4, <2>7
  <2>. QED  BY <2>8 DEF F, G
<1>. QED  BY <1>5, <1>6

\* The instance's own name of an operator of FiniteSets
LEMMA SameCardinality == \A S : Breaker!Cardinality(S) = Cardinality(S)
BY DEF Breaker!Cardinality, Cardinality

LEMMA BreakerInvShows == BreakerInv => Breaker!OnlyOverlapTricksBreaker
<1>. SUFFICES ASSUME BreakerInv, ~together PROVE Breaker!OnlyOverlapTricksBreaker
  BY DEF Breaker!OnlyOverlapTricksBreaker
<1>1. /\ tracked \in Seq(Nat) /\ given \in Seq(Nat) /\ breakerTime \in Nat
      /\ \A i, j \in 1..Len(given) : i <= j => given[i] <= given[j]
  BY DEF BreakerInv, BreakerTypeOK, Tracks
<1>2. PICK k \in Nat :
          /\ Len(given) = Len(tracked) + k
          /\ \A i \in 1..Len(tracked) : tracked[i] = given[i + k]
          /\ k > 0 => Len(tracked) >= MaxRecent
  BY DEF BreakerInv, Tracks
<1>3. k > 0 => Len(tracked) >= Escalation
  BY <1>1, <1>2, TrackerAssumption, LenProperties
<1>4. FailureWindow \in Nat /\ Escalation \in Nat
  BY TrackerAssumption
<1>5. Cardinality(Since(tracked, FailureWindow, breakerTime)) >= Escalation
      <=> Cardinality(Since(given, FailureWindow, breakerTime)) >= Escalation
  BY <1>1, <1>2, <1>3, <1>4, LastTellRecent
<1>6. Breaker!ShouldEscalate <=> Breaker!FailureRate(given) >= Escalation
  <2>1. /\ Breaker!FailureRate(tracked) = Cardinality(Since(tracked, FailureWindow, breakerTime))
        /\ Breaker!FailureRate(given) = Cardinality(Since(given, FailureWindow, breakerTime))
    BY SameCardinality DEF Breaker!FailureRate, Since
  <2>. QED  BY <1>5, <2>1 DEF Breaker!ShouldEscalate
<1>7. ~tooEarly /\ ~hasty
  BY DEF BreakerInv, OneCall
<1>. QED  BY <1>6, <1>7 DEF Breaker!OnlyOverlapTricksBreaker


LEMMA BreakerInvInit == Breaker!BreakerInit => BreakerInv
<1>. SUFFICES ASSUME Breaker!BreakerInit PROVE BreakerInv
  OBVIOUS
<1>1. Breaker!Away \in BreakerCall /\ Breaker!Away.at = "away"
  BY DEF Breaker!Away, BreakerCall
<1>2. \A t \in Evaluations : call[t] = Breaker!Away
  BY DEF Breaker!BreakerInit
<1>3. BreakerTypeOK
  BY <1>1, EmptySeq DEF Breaker!BreakerInit, BreakerTypeOK
<1>4. Tracks
  BY <1>1, <1>2, EmptySeq DEF Breaker!BreakerInit, Tracks
<1>5. OneCall
  BY <1>1, <1>2 DEF Breaker!BreakerInit, OneCall, Breaker!AtBreaker
<1>. QED  BY <1>3, <1>4, <1>5 DEF BreakerInv

\* A thread that goes to a place; the others stay.
BreakerGoes(t, place) ==
    /\ call' \in [Evaluations -> BreakerCall] /\ call'[t].at = place
    /\ \A s \in Evaluations : s # t => call'[s] = call[s]

LEMMA GoesThere ==
    ASSUME BreakerInv, NEW t \in Evaluations,
           NEW place \in {"wait", "run", "halve", "failed", "raised", "trim"},
           Breaker!Go(t, place)
    PROVE  BreakerGoes(t, place)
BY DEF Breaker!Go, BreakerGoes, BreakerCall, BreakerInv, BreakerTypeOK

LEMMA GoesSeeing ==
    ASSUME BreakerInv, NEW t \in Evaluations, NEW place \in {"tally", "count", "judge"},
           NEW n \in Nat, call' = [call EXCEPT ![t].at = place, ![t].seen = n]
    PROVE  BreakerGoes(t, place) /\ call'[t].seen = n
<1>. PICK c \in BreakerCall : c = call[t]
  BY DEF BreakerInv, BreakerTypeOK
<1>1. PICK d \in BreakerCall : d = [c EXCEPT !.at = place, !.seen = n]
  BY DEF BreakerCall
<1>2. d.at = place /\ d.seen = n
  BY <1>1 DEF BreakerCall
<1>. QED  BY <1>1, <1>2 DEF BreakerGoes, BreakerInv, BreakerTypeOK

LEMMA GoesAway ==
    ASSUME BreakerInv, NEW t \in Evaluations, call' = [call EXCEPT ![t] = Breaker!Away]
    PROVE  BreakerGoes(t, "away")
BY DEF BreakerGoes, BreakerInv, BreakerTypeOK, Breaker!Away, BreakerCall

LEMMA GoesToCheck ==
    ASSUME BreakerInv, NEW t \in Evaluations,
           call' = [call EXCEPT ![t] = [Breaker!Away EXCEPT !.at = "check",
                                            !.attempt = call[t].attempt + 1]]
    PROVE  BreakerGoes(t, "check")
<1>. PICK n \in Nat : n = call[t].attempt + 1
  BY DEF BreakerInv, BreakerTypeOK, BreakerCall
<1>. PICK c \in BreakerCall : c = Breaker!Away
  BY DEF Breaker!Away, BreakerCall
<1>1. PICK d \in BreakerCall : d = [c EXCEPT !.at = "check", !.attempt = n]
  BY DEF BreakerCall
<1>2. d.at = "check"
  BY <1>1 DEF BreakerCall
<1>. QED  BY <1>1, <1>2 DEF BreakerGoes, BreakerInv, BreakerTypeOK

\* The steps of the one call that is at the breaker.
LEMMA AloneAtBreaker ==
    ASSUME BreakerInv, NEW t \in Evaluations, ~together, t \in Breaker!AtBreaker
    PROVE  /\ OneCall
           /\ \A s \in Evaluations : s # t => call[s].at \in {"away", "wait"}
BY DEF BreakerInv, OneCall, Breaker!AtBreaker, BreakerTypeOK, BreakerCall

LEMMA OneCallKept ==
    ASSUME BreakerInv, NEW t \in Evaluations, ~together, t \in Breaker!AtBreaker,
           NEW place, BreakerGoes(t, place), ~tooEarly', ~hasty',
           opened' # 0 => breaker' = "open" /\ opened' = failureAt',
           place \in {"run", "tally", "count", "judge"} => breaker' # "open",
           place = "halve" => breakerTime' - failureAt' >= Recovery,
           place = "judge" => failureAt' = breakerTime',
           place = "tally" => /\ breaker' = "half" /\ call'[t].seen = successCount'
                              /\ left' + fresh' = successCount' + 1,
           breaker' = "half" /\ place # "tally" => left' + fresh' = successCount'
    PROVE  OneCall'
<1>1. \A s \in Evaluations : s # t => call'[s].at \in {"away", "wait"}
  BY AloneAtBreaker DEF BreakerGoes
<1>2. \A s \in Breaker!AtBreaker' : s = t
  BY <1>1 DEF Breaker!AtBreaker
<1>3. call'[t].at = place
  BY DEF BreakerGoes
<1>4. (\A s \in Evaluations : call'[s].at # "tally") => place # "tally"
  BY <1>3
<1>5. ASSUME NEW s \in Evaluations
      PROVE  /\ call'[s].at \in {"run", "tally", "count", "judge"} => breaker' # "open"
             /\ call'[s].at = "halve" => breakerTime' - failureAt' >= Recovery
             /\ call'[s].at = "judge" => failureAt' = breakerTime'
             /\ call'[s].at = "tally" =>
                   /\ breaker' = "half" /\ call'[s].seen = successCount'
                   /\ left' + fresh' = successCount' + 1
  BY <1>1, <1>3, <1>5
<1>. QED  BY <1>2, <1>4, <1>5 DEF OneCall

\* What the tracker and the times say is kept by a step that leaves them.
LEMMA TracksKept ==
    ASSUME BreakerInv, NEW t \in Evaluations, NEW place, BreakerGoes(t, place), place # "trim",
           UNCHANGED <<breakerTime, tracked, given>>
    PROVE  Tracks'
<1>1. \A s \in Evaluations : call'[s].at = "trim" => call[s].at = "trim"
  BY DEF BreakerGoes
<1>. QED  BY <1>1 DEF Tracks, BreakerInv


LEMMA BreakerStep == ASSUME BreakerInv, Breaker!BreakerNext PROVE BreakerInv'
<1>. DEFINE Typed == /\ breakerTime' \in Nat /\ breaker' \in {"closed", "open", "half"}
                     /\ failureCount' \in Nat /\ successCount' \in Nat /\ failureAt' \in Nat
                     /\ opened' \in Nat /\ fresh' \in Nat /\ left' \in Nat
\* A step of the one call at the breaker that leaves the tracker alone
<1>1. ASSUME NEW t \in Evaluations, NEW place, BreakerGoes(t, place), place # "trim",
             t \in Breaker!AtBreaker, UNCHANGED <<breakerTime, tracked, given, together>>, Typed,
             ~together => OneCall'
      PROVE  BreakerInv'
  <2>1. BreakerTypeOK'
    BY <1>1 DEF BreakerInv, BreakerTypeOK, BreakerGoes
  <2>. QED  BY <1>1, <2>1, TracksKept DEF BreakerInv
<1>2. ASSUME NEW t \in Evaluations, Breaker!Arrive(t) PROVE BreakerInv'
  <2>1. BreakerGoes(t, "check") /\ t \notin Breaker!AtBreaker
        /\ together' = (together \/ Breaker!AtBreaker # {})
        /\ UNCHANGED <<breakerTime, breaker, failureCount, successCount, failureAt, tracked,
                       opened, fresh, left, tooEarly, hasty, given>>
    BY <1>2, GoesToCheck DEF Breaker!Arrive, Breaker!AtBreaker
  <2>2. BreakerTypeOK'
    BY <2>1 DEF BreakerInv, BreakerTypeOK, BreakerGoes
  <2>3. Tracks'
    BY <2>1, TracksKept
  <2>4. ASSUME ~together' PROVE OneCall'
    <3>1. OneCall /\ \A s \in Evaluations : call[s].at \in {"away", "wait"}
      BY <2>1, <2>4 DEF BreakerInv, Breaker!AtBreaker
    <3>2. \A s \in Evaluations : s # t => call'[s].at \in {"away", "wait"}
      BY <2>1, <3>1 DEF BreakerGoes
    <3>3. \A s \in Breaker!AtBreaker' : s = t
      BY <3>2 DEF Breaker!AtBreaker
    <3>4. \A s \in Evaluations : call'[s].at \in {"away", "wait", "check"}
      BY <2>1, <3>2 DEF BreakerGoes
    <3>. QED  BY <2>1, <3>1, <3>3, <3>4 DEF OneCall
  <2>. QED  BY <2>2, <2>3, <2>4 DEF BreakerInv
<1>3. ASSUME NEW t \in Evaluations, Breaker!Again(t) PROVE BreakerInv'
  <2>1. PICK place \in {"wait", "raised"} : Breaker!Go(t, place)
    BY <1>3 DEF Breaker!Again
  <2>2. BreakerGoes(t, place) /\ t \in Breaker!AtBreaker /\ call[t].at = "failed"
        /\ UNCHANGED <<breakerTime, breaker, failureCount, successCount, failureAt, tracked,
                       opened, fresh, left, tooEarly, hasty, together, given>>
    BY <1>3, <2>1, GoesThere DEF Breaker!Again, Breaker!AtBreaker, Breaker!ghostVars
  <2>3. ASSUME ~together PROVE OneCall'
    <3>1. /\ OneCall /\ \A s \in Evaluations : call[s].at # "tally"
      BY <2>2, <2>3, AloneAtBreaker
    <3>. QED  BY <2>2, <2>3, <3>1, OneCallKept DEF OneCall
  <2>. QED  BY <1>1, <2>2, <2>3 DEF BreakerInv, BreakerTypeOK
<1>4. ASSUME NEW t \in Evaluations, Breaker!Check(t) PROVE BreakerInv'
  <2>1. PICK place \in {"run", "halve", "failed"} :
            /\ Breaker!Go(t, place)
            /\ place = "run" => breaker # "open"
            /\ place = "halve" => breakerTime - failureAt >= Recovery
    BY <1>4 DEF Breaker!Check, Breaker!ShouldAttemptReset
  <2>2. BreakerGoes(t, place) /\ t \in Breaker!AtBreaker /\ call[t].at = "check"
        /\ UNCHANGED <<breakerTime, breaker, failureCount, successCount, failureAt, tracked,
                       opened, fresh, left, tooEarly, hasty, together, given>>
    BY <1>4, <2>1, GoesThere DEF Breaker!Check, Breaker!AtBreaker, Breaker!ghostVars
  <2>3. ASSUME ~together PROVE OneCall'
    <3>1. /\ OneCall /\ \A s \in Evaluations : call[s].at # "tally"
      BY <2>2, <2>3, AloneAtBreaker
    <3>. QED  BY <2>1, <2>2, <2>3, <3>1, OneCallKept DEF OneCall
  <2>. QED  BY <1>1, <2>2, <2>3 DEF BreakerInv, BreakerTypeOK
<1>5. ASSUME NEW t \in Evaluations, Breaker!Halve(t) PROVE BreakerInv'
  <2>1. /\ BreakerGoes(t, "run") /\ t \in Breaker!AtBreaker /\ call[t].at = "halve"
        /\ breaker' = "half" /\ opened' = 0 /\ fresh' = 0 /\ left' = successCount
        /\ tooEarly' = (tooEarly \/ (opened # 0 /\ breakerTime - opened < Recovery))
        /\ UNCHANGED <<breakerTime, failureCount, successCount, failureAt, tracked, hasty,
                       together, given>>
    BY <1>5, GoesThere DEF Breaker!Halve, Breaker!AtBreaker
  <2>2. ASSUME ~together PROVE OneCall'
    <3>1. /\ OneCall /\ breakerTime - failureAt >= Recovery
      BY <2>1, <2>2, AloneAtBreaker DEF OneCall
    <3>2. ~tooEarly'
      <4>1. ~(opened # 0 /\ breakerTime - opened < Recovery)
        BY <3>1, PeriodsAssumption DEF OneCall, BreakerInv, BreakerTypeOK
      <4>. QED  BY <2>1, <3>1, <4>1 DEF OneCall
    <3>3. left' + fresh' = successCount'
      BY <2>1 DEF BreakerInv, BreakerTypeOK
    <3>. QED  BY <2>1, <2>2, <3>1, <3>2, <3>3, OneCallKept DEF OneCall
  <2>. QED  BY <1>1, <2>1, <2>2 DEF BreakerInv, BreakerTypeOK
<1>6. ASSUME NEW t \in Evaluations, Breaker!Succeed(t) PROVE BreakerInv'
  <2>1. /\ t \in Breaker!AtBreaker /\ call[t].at = "run"
        /\ UNCHANGED <<breakerTime, breaker, successCount, failureAt, tracked, opened, left,
                       tooEarly, hasty, together, given>>
    BY <1>6 DEF Breaker!Succeed, Breaker!AtBreaker
  <2>2. CASE breaker = "half"
    <3>1. BreakerGoes(t, "tally") /\ call'[t].seen = successCount
          /\ fresh' = fresh + 1 /\ UNCHANGED failureCount
      BY <1>6, <2>2, GoesSeeing DEF Breaker!Succeed, BreakerInv, BreakerTypeOK
    <3>2. ASSUME ~together PROVE OneCall'
      <4>1. /\ OneCall /\ \A s \in Evaluations : call[s].at # "tally"
        BY <2>1, <3>2, AloneAtBreaker
      <4>2. left + fresh = successCount /\ left' + fresh' = successCount' + 1
        BY <2>1, <2>2, <3>1, <4>1 DEF OneCall, BreakerInv, BreakerTypeOK
      <4>. QED  BY <2>1, <2>2, <3>1, <3>2, <4>1, <4>2, OneCallKept DEF OneCall
    <3>. QED  BY <1>1, <2>1, <3>1, <3>2 DEF BreakerInv, BreakerTypeOK
  <2>3. CASE breaker # "half"
    <3>1. BreakerGoes(t, "away") /\ UNCHANGED fresh /\ failureCount' \in Nat
      BY <1>6, <2>3, GoesAway DEF Breaker!Succeed, BreakerInv, BreakerTypeOK
    <3>2. ASSUME ~together PROVE OneCall'
      <4>1. OneCall
        BY <2>1, <3>2, AloneAtBreaker
      <4>. QED  BY <2>1, <2>3, <3>1, <3>2, <4>1, OneCallKept DEF OneCall
    <3>. QED  BY <1>1, <2>1, <3>1, <3>2 DEF BreakerInv, BreakerTypeOK
  <2>. QED  BY <2>2, <2>3
<1>7. ASSUME NEW t \in Evaluations, Breaker!Tally(t) PROVE BreakerInv'
  <2>1. /\ BreakerGoes(t, "away") /\ t \in Breaker!AtBreaker /\ call[t].at = "tally"
        /\ call[t].seen \in Nat
        /\ UNCHANGED <<breakerTime, failureAt, tracked, fresh, left, tooEarly, together, given>>
    BY <1>7, GoesAway DEF Breaker!Tally, Breaker!AtBreaker, BreakerInv, BreakerTypeOK, BreakerCall
  <2>2. CASE call[t].seen + 1 >= 2
    <3>1. /\ breaker' = "closed" /\ failureCount' = 0 /\ successCount' = 0 /\ opened' = 0
          /\ hasty' = (hasty \/ (fresh < 2 /\ left = 0))
      BY <1>7, <2>2 DEF Breaker!Tally
    <3>2. ASSUME ~together PROVE OneCall'
      <4>1. /\ OneCall /\ call[t].seen = successCount /\ left + fresh = successCount + 1
        BY <2>1, <3>2, AloneAtBreaker DEF OneCall
      <4>2. ~hasty'
        <5>1. ~(fresh < 2 /\ left = 0)
          BY <2>1, <2>2, <4>1 DEF BreakerInv, BreakerTypeOK
        <5>. QED  BY <3>1, <4>1, <5>1 DEF OneCall
      <4>. QED  BY <2>1, <3>1, <3>2, <4>1, <4>2, OneCallKept DEF OneCall
    <3>. QED  BY <1>1, <2>1, <3>1, <3>2 DEF BreakerInv, BreakerTypeOK
  <2>3. CASE ~(call[t].seen + 1 >= 2)
    <3>1. successCount' = call[t].seen + 1 /\ UNCHANGED <<breaker, failureCount, hasty, opened>>
      BY <1>7, <2>3 DEF Breaker!Tally
    <3>2. ASSUME ~together PROVE OneCall'
      <4>1. /\ OneCall /\ call[t].seen = successCount /\ left + fresh = successCount + 1
        BY <2>1, <3>2, AloneAtBreaker DEF OneCall
      <4>. QED  BY <2>1, <3>1, <3>2, <4>1, OneCallKept DEF OneCall
    <3>. QED  BY <1>1, <2>1, <3>1, <3>2 DEF BreakerInv, BreakerTypeOK
  <2>. QED  BY <2>2, <2>3
<1>8. ASSUME NEW t \in Evaluations, Breaker!Fail(t) PROVE BreakerInv'
  <2>1. /\ BreakerGoes(t, "count") /\ t \in Breaker!AtBreaker /\ call[t].at = "run"
        /\ UNCHANGED <<breakerTime, breaker, failureCount, successCount, failureAt, tracked,
                       opened, fresh, left, tooEarly, hasty, together, given>>
    BY <1>8, GoesSeeing DEF Breaker!Fail, Breaker!AtBreaker, Breaker!ghostVars, BreakerInv, BreakerTypeOK
  <2>2. ASSUME ~together PROVE OneCall'
    <3>1. /\ OneCall /\ \A s \in Evaluations : call[s].at # "tally"
      BY <2>1, <2>2, AloneAtBreaker
    <3>. QED  BY <2>1, <2>2, <3>1, OneCallKept DEF OneCall
  <2>. QED  BY <1>1, <2>1, <2>2 DEF BreakerInv, BreakerTypeOK
<1>9. ASSUME NEW t \in Evaluations, Breaker!CountFailure(t) PROVE BreakerInv'
  <2>1. /\ BreakerGoes(t, "judge") /\ t \in Breaker!AtBreaker /\ call[t].at = "count"
        /\ failureCount' \in Nat /\ failureAt' = breakerTime
        /\ UNCHANGED <<breakerTime, breaker, successCount, tracked,
                       opened, fresh, left, tooEarly, hasty, together, given>>
    <3>1. BreakerGoes(t, "judge")
      <4>1. call' = [call EXCEPT ![t].at = "judge", ![t].seen = 0] /\ 0 \in Nat
        BY <1>9 DEF Breaker!CountFailure
      <4>. QED  BY <4>1, GoesSeeing
    <3>2. call[t].seen \in Nat
      BY DEF BreakerInv, BreakerTypeOK, BreakerCall
    <3>. QED  BY <1>9, <3>1, <3>2 DEF Breaker!CountFailure, Breaker!AtBreaker, Breaker!ghostVars
  <2>2. ASSUME ~together PROVE OneCall'
    <3>1. /\ OneCall /\ \A s \in Evaluations : call[s].at # "tally"
      BY <2>1, <2>2, AloneAtBreaker
    <3>. QED  BY <2>1, <2>2, <3>1, OneCallKept DEF OneCall
  <2>. QED  BY <1>1, <2>1, <2>2 DEF BreakerInv, BreakerTypeOK
<1>10. ASSUME NEW t \in Evaluations, Breaker!Judge(t) PROVE BreakerInv'
  <2>1. /\ BreakerGoes(t, "failed") /\ t \in Breaker!AtBreaker /\ call[t].at = "judge"
        /\ \/ breaker' = "open" /\ opened' = breakerTime
           \/ UNCHANGED <<breaker, opened>>
        /\ UNCHANGED <<breakerTime, failureCount, successCount, failureAt, tracked,
                       fresh, left, tooEarly, hasty, together, given>>
    BY <1>10, GoesThere DEF Breaker!Judge, Breaker!AtBreaker
  <2>2. ASSUME ~together PROVE OneCall'
    <3>1. /\ OneCall /\ \A s \in Evaluations : call[s].at # "tally"
          /\ failureAt = breakerTime
      BY <2>1, <2>2, AloneAtBreaker DEF OneCall
    <3>. QED  BY <2>1, <2>2, <3>1, OneCallKept DEF OneCall
  <2>. QED  BY <1>1, <2>1, <2>2 DEF BreakerInv, BreakerTypeOK
\* The tracker
<1>11. ASSUME NEW t \in Evaluations, NEW place \in {"away", "trim"}, BreakerGoes(t, place),
              t \in Breaker!AtBreaker, BreakerTypeOK', Tracks',
              UNCHANGED <<breakerTime, breaker, successCount, failureAt, opened, fresh, left,
                          tooEarly, hasty, together>>, call[t].at # "tally"
       PROVE  BreakerInv'
  <2>1. ASSUME ~together PROVE OneCall'
    <3>1. /\ OneCall /\ \A s \in Evaluations : call[s].at # "tally"
      BY <1>11, <2>1, AloneAtBreaker
    <3>. QED  BY <1>11, <2>1, <3>1, OneCallKept DEF OneCall
  <2>. QED  BY <1>11, <2>1 DEF BreakerInv
<1>12. ASSUME NEW t \in Evaluations, Breaker!RecordFailure(t) PROVE BreakerInv'
  <2>1. /\ tracked' = Append(tracked, breakerTime) /\ given' = Append(given, breakerTime)
        /\ t \in Breaker!AtBreaker /\ call[t].at = "raised"
        /\ UNCHANGED <<breakerTime, breaker, failureCount, successCount, failureAt, opened,
                       fresh, left, tooEarly, hasty, together>>
    BY <1>12 DEF Breaker!RecordFailure, Breaker!AtBreaker
  <2>2. PICK place \in {"away", "trim"} :
            BreakerGoes(t, place) /\ (place = "trim" => Len(tracked) + 1 > MaxRecent)
    <3>1. CASE Len(tracked) + 1 > MaxRecent
      BY <1>12, <3>1, GoesThere DEF Breaker!RecordFailure
    <3>2. CASE ~(Len(tracked) + 1 > MaxRecent)
      BY <1>12, <3>2, GoesAway DEF Breaker!RecordFailure
    <3>. QED  BY <3>1, <3>2
  <2>3. /\ tracked' \in Seq(Nat) /\ Len(tracked') = Len(tracked) + 1 /\ Len(tracked) \in Nat
        /\ \A i \in 1..Len(tracked) : tracked'[i] = tracked[i]
        /\ tracked'[Len(tracked) + 1] = breakerTime
    BY <2>1, AppendProperties DEF BreakerInv, BreakerTypeOK
  <2>4. /\ given' \in Seq(Nat) /\ Len(given') = Len(given) + 1 /\ Len(given) \in Nat
        /\ \A i \in 1..Len(given) : given'[i] = given[i] /\ given[i] \in Nat
        /\ given'[Len(given) + 1] = breakerTime
    BY <2>1, AppendProperties DEF BreakerInv, BreakerTypeOK
  <2>5. BreakerTypeOK'
    BY <2>1, <2>2, <2>3, <2>4 DEF BreakerInv, BreakerTypeOK, BreakerGoes
  <2>6. Tracks'
    <3>1. \A i, j \in 1..Len(given') : i <= j => given'[i] <= given'[j]
      BY SMTT(20), <2>1, <2>4 DEF BreakerInv, BreakerTypeOK, Tracks
    <3>2. \A i \in 1..Len(given') : given'[i] <= breakerTime'
      BY <2>1, <2>4 DEF BreakerInv, BreakerTypeOK, Tracks
    <3>3. PICK k \in Nat :
              /\ Len(given) = Len(tracked) + k
              /\ \A i \in 1..Len(tracked) : tracked[i] = given[i + k]
              /\ k > 0 => Len(tracked) >= MaxRecent
      BY DEF BreakerInv, Tracks
    <3>4. \A i \in 1..Len(tracked') : tracked'[i] = given'[i + k]
      <4>. SUFFICES ASSUME NEW i \in 1..(Len(tracked) + 1) PROVE tracked'[i] = given'[i + k]
        BY <2>3
      <4>1. CASE i \in 1..Len(tracked)
        <5>1. i + k \in 1..Len(given)
          BY <2>3, <3>3, <4>1
        <5>. QED  BY <2>3, <2>4, <3>3, <4>1, <5>1
      <4>2. CASE i = Len(tracked) + 1
        <5>1. i + k = Len(given) + 1
          BY <2>3, <3>3, <4>2
        <5>. QED  BY <2>3, <2>4, <4>2, <5>1
      <4>. QED  BY <2>3, <4>1, <4>2
    <3>5. Len(given') = Len(tracked') + k /\ (k > 0 => Len(tracked') >= MaxRecent)
      BY <2>3, <2>4, <3>3, TrackerAssumption
    <3>6. \A s \in Evaluations : call'[s].at = "trim" => Len(tracked') >= MaxRecent
      <4>. SUFFICES ASSUME NEW s \in Evaluations, call'[s].at = "trim" PROVE Len(tracked') >= MaxRecent
        OBVIOUS
      <4>. PICK m \in Nat : m = MaxRecent
        BY TrackerAssumption
      <4>1. CASE s = t
        <5>1. place = "trim"
          BY <2>2, <4>1 DEF BreakerGoes
        <5>. QED  BY <2>2, <2>3, <5>1
      <4>2. CASE s # t
        <5>1. call[s].at = "trim"
          BY <2>2, <4>2 DEF BreakerGoes
        <5>2. Len(tracked) >= m
          BY <5>1 DEF BreakerInv, Tracks
        <5>. QED  BY <2>3, <5>2
      <4>. QED  BY <4>1, <4>2
    <3>. QED  BY <3>1, <3>2, <3>4, <3>5, <3>6 DEF Tracks
  <2>. QED  BY <1>11, <2>1, <2>2, <2>5, <2>6
<1>13. ASSUME NEW t \in Evaluations, Breaker!Trim(t) PROVE BreakerInv'
  <2>1. /\ tracked' = SubSeq(tracked, Len(tracked) - MaxRecent + 1, Len(tracked))
        /\ t \in Breaker!AtBreaker /\ call[t].at = "trim" /\ BreakerGoes(t, "away")
        /\ UNCHANGED <<breakerTime, breaker, failureCount, successCount, failureAt, opened,
                       fresh, left, tooEarly, hasty, together, given>>
    BY <1>13, GoesAway DEF Breaker!Trim, Breaker!AtBreaker, Breaker!ghostVars
  <2>2. PICK m \in Nat : Len(tracked) = MaxRecent + m
    <3>1. Len(tracked) >= MaxRecent /\ Len(tracked) \in Nat
      BY <2>1, LenProperties DEF BreakerInv, BreakerTypeOK, Tracks
    <3>2. Len(tracked) - MaxRecent \in Nat /\ Len(tracked) = MaxRecent + (Len(tracked) - MaxRecent)
      BY <3>1, TrackerAssumption
    <3>. QED  BY <3>2
  <2>3. /\ tracked' \in Seq(Nat) /\ Len(tracked') = MaxRecent
        /\ \A i \in 1..MaxRecent : tracked'[i] = tracked[i + m]
    <3>1. tracked \in Seq(Nat) /\ tracked' = SubSeq(tracked, m + 1, MaxRecent + m)
      BY <2>1, <2>2, TrackerAssumption DEF BreakerInv, BreakerTypeOK
    <3>2. \A i \in (m + 1)..(MaxRecent + m) : tracked[i] \in Nat
      BY <2>2, <3>1, TrackerAssumption
    <3>3. /\ tracked' \in Seq(Nat)
          /\ Len(tracked') = IF m + 1 <= MaxRecent + m THEN (MaxRecent + m) - (m + 1) + 1 ELSE 0
          /\ \A i \in 1..((MaxRecent + m) - (m + 1) + 1) : tracked'[i] = tracked[(m + 1) + i - 1]
      BY <3>1, <3>2, TrackerAssumption, SubSeqProperties
    <3>. QED  BY <3>3, TrackerAssumption
  <2>4. BreakerTypeOK'
    BY <2>1, <2>3 DEF BreakerInv, BreakerTypeOK, BreakerGoes
  <2>5. Tracks'
    <3>1. PICK k \in Nat :
              /\ Len(given) = Len(tracked) + k
              /\ \A i \in 1..Len(tracked) : tracked[i] = given[i + k]
      BY DEF BreakerInv, Tracks
    <3>2. \A i \in 1..Len(tracked') : tracked'[i] = given'[i + (k + m)]
      BY <2>1, <2>2, <2>3, <3>1, TrackerAssumption
    <3>3. Len(given') = Len(tracked') + (k + m) /\ k + m \in Nat /\ Len(tracked') >= MaxRecent
      BY <2>1, <2>2, <2>3, <3>1, TrackerAssumption
    <3>. QED  BY <2>1, <3>2, <3>3 DEF Tracks, BreakerInv
  <2>. QED  BY <1>11, <2>1, <2>4, <2>5
<1>14. CASE Breaker!Tick
  <2>1. BreakerTypeOK'
    BY <1>14 DEF Breaker!Tick, BreakerInv, BreakerTypeOK, Breaker!ghostVars
  <2>2. Tracks'
    BY SMTT(20), <1>14 DEF Breaker!Tick, BreakerInv, BreakerTypeOK, Breaker!ghostVars, Tracks
  <2>3. OneCall => OneCall'
    BY <1>14 DEF Breaker!Tick, OneCall, Breaker!ghostVars, Breaker!AtBreaker
  <2>4. UNCHANGED together
    BY <1>14 DEF Breaker!Tick, Breaker!ghostVars
  <2>. QED  BY <2>1, <2>2, <2>3, <2>4 DEF BreakerInv
<1>. QED  BY <1>2, <1>3, <1>4, <1>5, <1>6, <1>7, <1>8, <1>9, <1>10, <1>12, <1>13, <1>14 DEF Breaker!BreakerNext

LEMMA BreakerInvStep == BreakerInv /\ [Breaker!BreakerNext]_breakerVars => BreakerInv'
<1>1. BreakerInv /\ UNCHANGED breakerVars => BreakerInv'
  BY DEF breakerVars, BreakerInv, BreakerTypeOK, OneCall, Tracks, Breaker!AtBreaker
<1>. QED  BY <1>1, BreakerStep

----------------------------------------------------------------------------
(* The parts together. *)

LEMMA PartsStart ==
    DecisionsInit =>
        /\ Init
        /\ machine = "policy" => Policy!Init
        /\ machine = "orchestrator" => Safe!Init
        /\ machine = "apps" => Apps!OrchestratorInit
        /\ machine = "brain" => Brain!BrainInit
        /\ machine = "breaker" => Breaker!BreakerInit
BY DEF DecisionsInit

LEMMA PartsStep ==
    [DecisionsNext]_allVars =>
        /\ UNCHANGED machine
        /\ [Next]_vars
        /\ machine = "policy" => [Policy!Next]_policyVars
        /\ machine = "orchestrator" => [Safe!Next]_safeVars
        /\ machine = "apps" => [Apps!OrchestratorNext]_appVars
        /\ machine = "brain" => [Brain!BrainNext]_brainVars
        /\ machine = "breaker" => [Breaker!BreakerNext]_breakerVars
BY DEF DecisionsNext, allVars

LEMMA GovernanceRuns == DecisionsSpec => Spec
BY PartsStart, PartsStep, PTL DEF DecisionsSpec, Spec

\* The engine looks only at the constraints of the contract: it approves what
\* its definition forbids only after foreign constraints were signed, or after
\* a definition was changed under its version.
THEOREM RedefinitionWidens == DecisionsSpec => []OnlySilentRedefinitionWidens
<1>. DEFINE Inv == machine = "policy" => PolicyInv
<1>1. DecisionsInit => Inv
  BY PartsStart, PolicyInvInit
<1>2. Inv /\ [DecisionsNext]_allVars => Inv'
  BY PartsStep, PolicyInvStep
<1>3. Inv => OnlySilentRedefinitionWidens
  BY DEF PolicyInv, OnlySilentRedefinitionWidens
<1>. QED  BY <1>1, <1>2, <1>3, PTL DEF DecisionsSpec

\* The safe orchestrator refuses what it just charged: it runs a governed
\* action only when the cooldown passed between its two charges, whatever other
\* evaluations of the same state are in progress, unless a state was not saved,
\* not read, or saved over.
THEOREM GovernedActionsWait == DecisionsSpec => []OnlyDelayOrLossRunsGovernedActions
<1>. DEFINE Inv == machine = "orchestrator" => SafeInv
<1>1. DecisionsInit => Inv
  BY PartsStart, SafeInvInit
<1>2. Inv /\ [DecisionsNext]_allVars => Inv'
  BY PartsStep, SafeInvStep
<1>3. Inv => OnlyDelayOrLossRunsGovernedActions
  BY SafeInvShows DEF OnlyDelayOrLossRunsGovernedActions
<1>. QED  BY <1>1, <1>2, <1>3, PTL DEF DecisionsSpec

\* A freeze that was acknowledged is respected by execute_action, unless
\* operators overlapped or a half-written store was read.
THEOREM FreezesHold == DecisionsSpec => []FrozenAppsAreLeftAlone
<1>. DEFINE Inv == machine = "orchestrator" => SafeInv
<1>1. DecisionsInit => Inv
  BY PartsStart, SafeInvInit
<1>2. Inv /\ [DecisionsNext]_allVars => Inv'
  BY PartsStep, SafeInvStep
<1>3. Inv => FrozenAppsAreLeftAlone
  BY SafeInvShows DEF FrozenAppsAreLeftAlone
<1>. QED  BY <1>1, <1>2, <1>3, PTL DEF DecisionsSpec

\* The file of deployed applications holds what was answered, unless operators
\* had it loaded at once; what a save that died left behind stays unread.
THEOREM AppsRemembered == DecisionsSpec => []OnlyOverlapForgetsApps
<1>. DEFINE Inv == machine = "apps" => AppsInv
<1>1. DecisionsInit => Inv
  BY PartsStart, AppsInvInit
<1>2. Inv /\ [DecisionsNext]_allVars => Inv'
  BY PartsStep, AppsInvStep
<1>3. Inv => OnlyOverlapForgetsApps
  BY AppsInvShows DEF OnlyOverlapForgetsApps
<1>. QED  BY <1>1, <1>2, <1>3, PTL DEF DecisionsSpec

\* A remote service that failed too often rests, and an open breaker stays open
\* for its time and closes after two successes: unless calls overlap.
THEOREM GuardsHold == DecisionsSpec => []OnlyOverlapDefeatsGuards
<1>. DEFINE Inv == /\ machine = "brain" => BrainInv
                   /\ machine = "breaker" => BreakerInv
<1>1. DecisionsInit => Inv
  BY PartsStart, BrainInvInit, BreakerInvInit
<1>2. Inv /\ [DecisionsNext]_allVars => Inv'
  BY PartsStep, BrainInvStep, BreakerInvStep
<1>3. Inv => OnlyOverlapDefeatsGuards
  BY BrainInvShows, BreakerInvShows DEF OnlyOverlapDefeatsGuards
<1>. QED  BY <1>1, <1>2, <1>3, PTL DEF DecisionsSpec
=============================================================================
