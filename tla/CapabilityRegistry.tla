-------------------------- MODULE CapabilityRegistry --------------------------
(***************************************************************************)
(* The registry of capabilities (control_plane/capabilities/) and what an  *)
(* execution asks of it.  A capability is a file, written in place where   *)
(* there was none; the capabilities of VANA come with the repository in a  *)
(* directory of their own.  authorize_execution looks the capability up,   *)
(* finds the mapping the code has of it, and checks that the evidence of   *)
(* the mapping, a line of a file, is still there: every time it is asked.  *)
(***************************************************************************)
EXTENDS Naturals, FiniteSets

CONSTANTS
    Ids,        \* capability ids
    Vana,       \* those of the VANA directory
    Admins,     \* processes that register
    Specs,      \* the specifications they register
    Mappings,   \* VERIFIED_CAPABILITY_MAPPINGS
    Actions,    \* actions executions ask for
    Lengths,    \* lines the file of the evidence may have, 0 when it is gone
    MaxCrashes  \* bound: registering processes that are killed

VARIABLES
    files,      \* registry directory: nothing, half a file, or who wrote it
    admins,     \* what each process registers and how far it is
    told,       \* ids: the process that was told REGISTERED last
    together,   \* ids two processes found unregistered at once
    killed,     \* processes that were killed while they wrote
    evidence,   \* lines of the file of the evidence
    ask         \* the execution that asks

capabilityVars == <<files, admins, told, together, killed, evidence, ask>>

Nothing == "nothing"
Half == "half"

-----------------------------------------------------------------------------
(* The schema *)

Required == {"registry_version", "registry_kind", "capability_id", "capability_name",
             "capability_type", "owner", "maturity", "status", "runtime", "produces"}

\* A field is right or wrong; those that are only required are never wrong.
Checked == Required \ {"registry_version", "capability_id", "capability_name"}
Valid(spec) ==
    /\ Required \subseteq DOMAIN spec
    /\ \A field \in Checked : spec[field] = "right"

-----------------------------------------------------------------------------
(* register_capability *)

Idle == [at |-> "idle", id |-> "none"]
Writing == {a \in Admins : admins[a].at = "write"}
Beyond(a, id) == \E b \in Admins \ {a} : admins[b] = [at |-> "absent", id |-> id]
                                          \/ admins[b] = [at |-> "write", id |-> id]

\* An invalid specification and a file that exists are exceptions.  Only its
\* own directory is looked at.
Unregistered(id) == files[id] = Nothing

\* Mutant: that the capability exists is not looked at.
RegisterAnyway(a, id, spec) ==
    /\ admins[a] = Idle /\ a \notin killed
    /\ Valid(spec)
    /\ admins' = [admins EXCEPT ![a] = [at |-> "absent", id |-> id]]
    /\ together' = together \cup {i \in {id} : Beyond(a, id)}
    /\ UNCHANGED <<files, told, killed, evidence, ask>>

Register(a, id, spec) ==
    /\ admins[a] = Idle /\ a \notin killed
    /\ Valid(spec) /\ Unregistered(id)
    /\ admins' = [admins EXCEPT ![a] = [at |-> "absent", id |-> id]]
    /\ together' = together \cup {i \in {id} : Beyond(a, id)}
    /\ UNCHANGED <<files, told, killed, evidence, ask>>

OpenFile(a) ==
    /\ admins[a].at = "absent"
    /\ admins' = [admins EXCEPT ![a].at = "write"]
    /\ files' = [files EXCEPT ![admins[a].id] = Half]
    /\ UNCHANGED <<told, together, killed, evidence, ask>>

\* What two write at once may be neither.
WriteSpec(a) ==
    /\ a \in Writing
    /\ LET id == admins[a].id IN
       /\ files' \in {[files EXCEPT ![id] = content] : content \in
                          {a} \cup {h \in {Half} : Beyond(a, id)}}
       /\ told' = [told EXCEPT ![id] = a]
    /\ admins' = [admins EXCEPT ![a] = Idle]
    /\ UNCHANGED <<together, killed, evidence, ask>>

Kill(a) ==
    /\ a \in Writing /\ Cardinality(killed) < MaxCrashes
    /\ killed' = killed \cup {a}
    /\ admins' = [admins EXCEPT ![a] = Idle]
    /\ UNCHANGED <<files, told, together, evidence, ask>>

-----------------------------------------------------------------------------
(* authorize_execution *)

\* get_capability: the registry first, then VANA; half a file is not JSON.
Lookup(id) ==
    CASE files[id] = Half -> "undecodable"
      [] files[id] = Nothing /\ id \notin Vana -> "absent"
      [] OTHER -> "found"

NoAsk == [at |-> "idle", id |-> "none", action |-> "none", answer |-> "none"]

Ask(id, action) ==
    /\ ask.at = "idle"
    /\ ask' = CASE Lookup(id) = "found" -> [NoAsk EXCEPT !.at = "found", !.id = id,
                                                         !.action = action]
                [] Lookup(id) = "absent" -> [NoAsk EXCEPT !.at = "answered", !.id = id,
                                                !.answer = "CAPABILITY_NOT_FOUND"]
                [] OTHER -> [NoAsk EXCEPT !.at = "answered", !.id = id, !.answer = "raised"]
    /\ UNCHANGED <<files, admins, told, together, killed, evidence>>

\* _validate_mapping: a source, actions, verified, and a line the file has
ValidMapping(m) ==
    /\ m.source_id # "" /\ m.allowed_actions # {} /\ m.status = "VERIFIED"
    /\ m.line >= 1 /\ m.line <= evidence

Permitted(id, action) ==
    /\ id \in DOMAIN Mappings /\ ValidMapping(Mappings[id])
    /\ action \in Mappings[id].allowed_actions

Authorize ==
    /\ ask.at = "found"
    /\ ask' = [ask EXCEPT !.at = "answered",
                   !.answer = IF Permitted(ask.id, ask.action) THEN "authorized"
                              ELSE "MAPPING_NOT_FOUND"]
    /\ UNCHANGED <<files, admins, told, together, killed, evidence>>

\* The execution goes on or is refused (module ExecuteAction); the next asks.
NextAsk ==
    /\ ask.at = "answered" /\ ask' = NoAsk
    /\ UNCHANGED <<files, admins, told, together, killed, evidence>>

\* Another version of the file of the evidence is deployed.
Deploy ==
    /\ evidence' \in Lengths \ {evidence}
    /\ ask' = IF ask.at = "answered" THEN NoAsk ELSE ask
    /\ UNCHANGED <<files, admins, told, together, killed>>

-----------------------------------------------------------------------------
(* discover_all: every file of both directories *)

Shown(id) == (IF files[id] = Nothing THEN 0 ELSE 1) + (IF id \in Vana THEN 1 ELSE 0)
DiscoverRaises == \E id \in Ids : files[id] = Half

CapabilitiesInit ==
    /\ files = [id \in Ids |-> Nothing] /\ admins = [a \in Admins |-> Idle]
    /\ told = [id \in Ids |-> Nothing] /\ together = {} /\ killed = {}
    /\ evidence \in Lengths /\ ask = NoAsk

CapabilitiesNext ==
    \/ \E a \in Admins, id \in Ids, spec \in Specs : Register(a, id, spec)
    \/ \E a \in Admins : OpenFile(a) \/ WriteSpec(a) \/ Kill(a)
    \/ \E id \in Ids, action \in Actions : Ask(id, action)
    \/ Authorize \/ NextAsk \/ Deploy

CapabilitiesSpec == CapabilitiesInit /\ [][CapabilitiesNext]_capabilityVars

-----------------------------------------------------------------------------
\* A registered capability stays as it was registered, unless two processes
\* found it unregistered at once; all capabilities can be listed and asked
\* about unless one is being written or its writer was killed, and an id is
\* listed twice only if it is one of VANA's (register_capability,
\* discover_all, authorize_execution).
OnlyOverlapSpoilsCapabilities ==
    /\ \A id \in Ids \ together : told[id] # Nothing => files[id] = told[id]
    /\ DiscoverRaises => Writing # {} \/ killed # {} \/ together # {}
    /\ \A id \in Ids : Shown(id) > 1 => id \in Vana

\* What is authorized is an action of a mapping with its evidence in place, of
\* a capability that was registered or is VANA's (authorize_execution).
AuthorizedIsRegistered ==
    ask.answer = "authorized" =>
        /\ Permitted(ask.id, ask.action)
        /\ ask.id \in Vana \cup {id \in Ids : told[id] # Nothing}
=============================================================================
