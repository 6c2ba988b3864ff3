---------------------------- MODULE EvidenceStore ----------------------------
(***************************************************************************)
(* The evidence store of the control plane (control_plane/api/agent_api.py *)
(* and control_plane/core/registry_manager.py).  A request of the API adds *)
(* its bundle to a copy of the whole store, writes it to a temporary file  *)
(* of one fixed name and renames that over the store; the registry manager *)
(* rewrites the same store in place.  The requests run in threads without  *)
(* a lock.                                                                 *)
(***************************************************************************)
EXTENDS Naturals

CONSTANTS
    Bundles,      \* evidence posted to the API, each under its own reference
    ByRegistry,   \* bundles published by the registry manager
    MaxTroubles   \* bound: failing writes and crashes

VARIABLES
    evidence,   \* the file that has the name of the store, or NoFile
    temp,       \* the file that has the temporary name, or NoFile
    files,      \* content of every file
    saving,     \* publications: [stage, held, file]
    published,  \* bundles answered with a reference
    overlapped, \* two publications were in progress at once
    registryDied, troubles

storeVars == <<evidence, temp, files, saving, published, overlapped, registryDied, troubles>>

NoFile == "none"
All == Bundles \cup ByRegistry
Truncated == [whole |-> FALSE, bundles |-> {}]
Whole(bundles) == [whole |-> TRUE, bundles |-> bundles]
Idle == [stage |-> "new", held |-> {}, file |-> NoFile]

Saving(b, stage, held, file) ==
    saving' = [saving EXCEPT ![b] = [stage |-> stage, held |-> held, file |-> file]]

InProgress == {b \in All : saving[b].stage \in {"loaded", "open", "written"}}
Began == overlapped' = (overlapped \/ InProgress # {})

Unreadable == evidence # NoFile /\ ~files[evidence].whole
Readable == IF evidence = NoFile \/ Unreadable THEN {} ELSE files[evidence].bundles

-----------------------------------------------------------------------------
(* POST /evidence *)

\* load_evidence_bundles: an unreadable store fails the request
Load(b) ==
    /\ saving[b].stage = "new" /\ Began
    /\ IF Unreadable THEN Saving(b, "failed", {}, NoFile) ELSE Saving(b, "loaded", Readable, NoFile)
    /\ UNCHANGED <<evidence, temp, files, published, registryDied, troubles>>

\* Mutant: the store is written in place.
OpenStore(b) ==
    /\ saving[b].stage = "loaded"
    /\ LET file == IF evidence = NoFile THEN b ELSE evidence
       IN /\ evidence' = file /\ temp' = file
          /\ files' = [files EXCEPT ![file] = Truncated]
          /\ Saving(b, "open", saving[b].held, file)
    /\ UNCHANGED <<published, overlapped, registryDied, troubles>>

\* save_evidence_bundle opens the temporary file: a file another request
\* has open is truncated, not replaced
OpenTemp(b) ==
    /\ saving[b].stage = "loaded"
    /\ LET file == IF temp = NoFile THEN b ELSE temp
       IN /\ temp' = file
          /\ files' = [files EXCEPT ![file] = Truncated]
          /\ Saving(b, "open", saving[b].held, file)
    /\ UNCHANGED <<evidence, published, overlapped, registryDied, troubles>>

\* over what another request has written, a shorter text leaves its tail
Written(file, bundles) ==
    IF files[file] = Truncated THEN {Whole(bundles)}
    ELSE {Whole(bundles), [whole |-> FALSE, bundles |-> bundles]}

WriteTemp(b) ==
    /\ saving[b].stage = "open"
    /\ \E text \in Written(saving[b].file, saving[b].held \cup {b}) :
          files' = [files EXCEPT ![saving[b].file] = text]
    /\ Saving(b, "written", saving[b].held, saving[b].file)
    /\ UNCHANGED <<evidence, temp, published, overlapped, registryDied, troubles>>

\* A full disk: the request is answered with an error
WriteFails(b) ==
    /\ saving[b].stage = "open"
    /\ troubles < MaxTroubles /\ troubles' = troubles + 1
    /\ Saving(b, "failed", {}, NoFile)
    /\ UNCHANGED <<evidence, temp, files, published, overlapped, registryDied>>

\* os.replace and the answer; the name may be gone already
Replace(b) ==
    /\ saving[b].stage = "written"
    /\ IF temp = NoFile
       THEN Saving(b, "failed", {}, NoFile) /\ UNCHANGED <<evidence, temp, published>>
       ELSE /\ evidence' = temp /\ temp' = NoFile
            /\ published' = published \cup {b}
            /\ Saving(b, "saved", {}, NoFile)
    /\ UNCHANGED <<files, overlapped, registryDied, troubles>>

-----------------------------------------------------------------------------
(* RegistryManager.publish_evidence_bundle *)

\* an unreadable store counts as an empty one
RegistryLoad(b) ==
    /\ saving[b].stage = "new" /\ Began
    /\ Saving(b, "loaded", Readable, NoFile)
    /\ UNCHANGED <<evidence, temp, files, published, registryDied, troubles>>

RegistryOpen(b) ==
    /\ saving[b].stage = "loaded"
    /\ LET file == IF evidence = NoFile THEN b ELSE evidence
       IN /\ evidence' = file
          /\ files' = [files EXCEPT ![file] = Truncated]
          /\ Saving(b, "open", saving[b].held, file)
    /\ UNCHANGED <<temp, published, overlapped, registryDied, troubles>>

RegistryWrite(b) ==
    /\ saving[b].stage = "open"
    /\ \E text \in Written(saving[b].file, saving[b].held \cup {b}) :
          files' = [files EXCEPT ![saving[b].file] = text]
    /\ published' = published \cup {b}
    /\ Saving(b, "saved", {}, NoFile)
    /\ UNCHANGED <<evidence, temp, overlapped, registryDied, troubles>>

RegistryDies(b) ==
    /\ saving[b].stage \in {"loaded", "open"}
    /\ troubles < MaxTroubles /\ troubles' = troubles + 1
    /\ registryDied' = (registryDied \/ saving[b].stage = "open")
    /\ Saving(b, "failed", {}, NoFile)
    /\ UNCHANGED <<evidence, temp, files, published, overlapped>>

-----------------------------------------------------------------------------
\* The process of the API ends: nobody is answered, the files stay
Crash ==
    /\ InProgress \cap Bundles # {}
    /\ troubles < MaxTroubles /\ troubles' = troubles + 1
    /\ saving' = [b \in All |-> IF b \in InProgress \cap Bundles
                                THEN [Idle EXCEPT !.stage = "failed"] ELSE saving[b]]
    /\ UNCHANGED <<evidence, temp, files, published, overlapped, registryDied>>

StoreInit ==
    /\ evidence = NoFile /\ temp = NoFile
    /\ files = [b \in All |-> Truncated]
    /\ saving = [b \in All |-> Idle]
    /\ published = {} /\ overlapped = FALSE /\ registryDied = FALSE
    /\ troubles = 0

StoreNext ==
    \/ \E b \in Bundles :
          Load(b) \/ OpenTemp(b) \/ WriteTemp(b) \/ WriteFails(b) \/ Replace(b)
    \/ \E b \in ByRegistry :
          RegistryLoad(b) \/ RegistryOpen(b) \/ RegistryWrite(b) \/ RegistryDies(b)
    \/ Crash

StoreSpec == StoreInit /\ [][StoreNext]_storeVars

-----------------------------------------------------------------------------
\* Every bundle that was answered with a reference can be read back, and the
\* store is readable, unless two publications overlapped or the registry
\* manager, which writes in place, died: failing writes and crashes of the
\* API lose nothing (agent_api.save_evidence_bundle).
OnlyOverlapLosesEvidence ==
    \/ published \subseteq Readable /\ ~Unreadable
    \/ overlapped \/ registryDied
    \/ InProgress \cap ByRegistry # {}
=============================================================================
