--------------------------- MODULE ActionRequests ---------------------------
(***************************************************************************)
(* The Group 4 intake: POST /vana/execute translates a temporal ruling     *)
(* into a decision (decision_translation/contextual_result_adapter.py),    *)
(* charges it to the action governance, and either records an abstention   *)
(* (governed_abstention_recorder.py) or validates the lineage of the       *)
(* observation and records an action request (group4_intake.py).           *)
(*                                                                         *)
(* The repository of action requests is a file of lines.  A delivery reads *)
(* it from the start for a record of its request and, when there is none,  *)
(* appends one; deliveries are threads and take no lock.  A line that does *)
(* not parse makes every search that reaches it fail.  The decision is a   *)
(* noop, which the governance never blocks.                                *)
(***************************************************************************)
EXTENDS Integers, Sequences, FiniteSets

CONSTANTS
    Deliveries,   \* POSTs in progress, one thread each
    Observations, \* observations with a lineage that verifies
    Stranger,     \* an observation whose lineage does not verify
    MaxPosts,     \* bound: deliveries
    MaxTears      \* bound: writes that fail

VARIABLES
    lines,       \* action_requests.jsonl
    unended,     \* its last line lacks the newline
    delivery,    \* where each thread is
    noops,       \* evaluations the governance recorded
    abstentions, \* GOVERNED_ABSTENTION events of the execution log
    \* history
    overlapped,  \* observations searched by two deliveries before one appended
    posts, tears

files == <<lines, unended>>
vars == <<files, delivery, noops, abstentions, overlapped, posts, tears>>

Rulings == {"GAP", "ALLOW", "ADAPT"}
Junk == [obs |-> Stranger]
Idle == [pc |-> "idle"]
Busy(o) == {d \in Deliveries : delivery[d].pc = "append" /\ delivery[d].obs = o}

----------------------------------------------------------------------------
(* ContextualResultAdapter *)

\* translate: any of three conditions mandates abstention.
Translate(ruling, eligible, abstain) ==
    IF ruling = "GAP" \/ ~eligible \/ abstain THEN "abstention"
    ELSE IF ruling = "ALLOW" THEN "action_request_eligible"
    ELSE "error"

\* POST /vana/execute
Post(d, o, ruling, eligible, abstain) ==
    LET kind == Translate(ruling, eligible, abstain)
    IN  /\ delivery[d] = Idle
        /\ posts < MaxPosts /\ posts' = posts + 1
        /\ delivery' = [delivery EXCEPT ![d] =
              IF kind = "error" THEN [pc |-> "failed", obs |-> o]
              ELSE [pc |-> "govern", kind |-> kind, obs |-> o]]
        /\ UNCHANGED <<files, noops, abstentions, overlapped, tears>>

----------------------------------------------------------------------------
(* Group4IntakeBoundary.process *)

\* The governance records the noop before anything of the delivery is validated.
Govern(d) ==
    /\ delivery[d].pc = "govern"
    /\ noops' = noops + 1
    /\ delivery' = [delivery EXCEPT ![d].pc =
          IF delivery[d].kind = "abstention" THEN "abstain" ELSE "verify"]
    /\ UNCHANGED <<files, abstentions, overlapped, posts, tears>>

\* GovernedAbstentionRecorder.record: an event of its own for each delivery.
\* The lineage of an abstention is not verified.
Abstain(d) ==
    /\ delivery[d].pc = "abstain"
    /\ abstentions' = abstentions + 1
    /\ delivery' = [delivery EXCEPT ![d] = Idle]
    /\ UNCHANGED <<files, noops, overlapped, posts, tears>>

\* LineageVerifier.verify
VerifyLineage(d) ==
    /\ delivery[d].pc = "verify"
    /\ delivery' = [delivery EXCEPT ![d].pc =
          IF delivery[d].obs \in Observations THEN "search" ELSE "failed"]
    /\ UNCHANGED <<files, noops, abstentions, overlapped, posts, tears>>

\* The first line that is the record, or does not parse.
Places(o) == {i \in DOMAIN lines : lines[i].obs = o \/ lines[i] = Junk}
FirstPlace(o) == CHOOSE i \in Places(o) : \A j \in Places(o) : i <= j

\* Mutant: only the newest line is looked at.
NewestOnly(o) == IF lines = <<>> THEN "none"
                 ELSE IF lines[Len(lines)] = Junk THEN "raises"
                 ELSE IF lines[Len(lines)].obs = o THEN "found" ELSE "none"

\* ActionRequestRecorder.retrieve
Retrieve(o) == IF Places(o) = {} THEN "none"
               ELSE IF lines[FirstPlace(o)] = Junk THEN "raises"
               ELSE "found"

\* record: an earlier record ends it, and the answer is the new request.
Search(d) ==
    LET o == delivery[d].obs
        found == Retrieve(o)
    IN  /\ delivery[d].pc = "search"
        /\ delivery' = [delivery EXCEPT ![d] =
              CASE found = "none"   -> [@ EXCEPT !.pc = "append"]
                [] found = "raises" -> [@ EXCEPT !.pc = "failed"]
                [] found = "found"  -> Idle]
        /\ overlapped' = IF found = "none" /\ Busy(o) # {} THEN overlapped \cup {o}
                         ELSE overlapped
        /\ UNCHANGED <<files, noops, abstentions, posts, tears>>

\* One write; a line without its newline is spoilt together with the next.
Written(record) == IF unended THEN [lines EXCEPT ![Len(lines)] = Junk]
                   ELSE Append(lines, record)

AppendRecord(d) ==
    LET mine == [obs |-> delivery[d].obs]
    IN  /\ delivery[d].pc = "append"
        /\ lines' = Written(mine) /\ unended' = FALSE
        /\ delivery' = [delivery EXCEPT ![d] = Idle]
        /\ UNCHANGED <<noops, abstentions, overlapped, posts, tears>>

\* The write fails with part of the line, or all but its newline, in the file.
AppendFails(d) ==
    LET mine == [obs |-> delivery[d].obs]
    IN  /\ delivery[d].pc = "append"
        /\ tears < MaxTears /\ tears' = tears + 1
        /\ lines' \in {Written(Junk), Written(mine)} /\ unended' = TRUE
        /\ delivery' = [delivery EXCEPT ![d].pc = "failed"]
        /\ UNCHANGED <<noops, abstentions, overlapped, posts>>

\* The client has its error; the thread takes another delivery, a retry too.
Fail(d) ==
    /\ delivery[d].pc = "failed"
    /\ delivery' = [delivery EXCEPT ![d] = Idle]
    /\ UNCHANGED <<files, noops, abstentions, overlapped, posts, tears>>

----------------------------------------------------------------------------

Init ==
    /\ lines = <<>> /\ unended = FALSE
    /\ delivery = [d \in Deliveries |-> Idle]
    /\ noops = 0 /\ abstentions = 0
    /\ overlapped = {} /\ posts = 0 /\ tears = 0

Process(d) ==
    \/ Govern(d) \/ Abstain(d) \/ VerifyLineage(d) \/ Search(d)
    \/ AppendRecord(d) \/ AppendFails(d) \/ Fail(d)

Next == \E d \in Deliveries :
    \/ \E o \in Observations \cup {Stranger}, ruling \in Rulings,
          eligible, abstain \in BOOLEAN : Post(d, o, ruling, eligible, abstain)
    \/ Process(d)

Spec == Init /\ [][Next]_vars

----------------------------------------------------------------------------
(* Properties *)

RecordsOf(o) == {i \in DOMAIN lines : lines[i].obs = o}

\* "Duplicate delivery is idempotent." (GROUP4_HANDOVER.md): a request has one
\* record, unless two of its deliveries searched before either appended.
OnlyOverlapRepeatsRequests ==
    \A o \in Observations \ overlapped : Cardinality(RecordsOf(o)) <= 1

=============================================================================
