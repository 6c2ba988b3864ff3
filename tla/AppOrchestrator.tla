--------------------------- MODULE AppOrchestrator ---------------------------
(***************************************************************************)
(* The state of deployed applications (orchestrator/app_orchestrator.py).  *)
(* Each process reads the state file when it creates its orchestrator,     *)
(* changes its copy and writes it whole; the file is opened for writing,   *)
(* which empties it, and filled.  A process that finds the file unfinished *)
(* does not start.  Stopping and scaling an application change its record  *)
(* whatever the container commands returned.                               *)
(***************************************************************************)
EXTENDS Naturals, FiniteSets

CONSTANTS
    Operators,      \* processes with an orchestrator
    Apps,
    MaxOperations,  \* bound
    MaxCrashes      \* bound: processes that end in a save

VARIABLES
    appFile,    \* app_state_<env>.json
    copies,     \* [operator]: its self.state, or NotLoaded
    saving,     \* [operator]: the application whose record it is saving, or Nothing
    operations,
    crashes,
    \* history
    answered,   \* [app]: the record of the last operation that was answered
    overlapped, \* an operator loaded or saved while another had the file loaded
    damaged     \* a process ended in a save

orchestratorVars ==
    <<appFile, copies, saving, operations, crashes, answered, overlapped, damaged>>

Unknown == [status |-> "unknown", workers |-> 0]
NoApps == [a \in Apps |-> Unknown]
Unfinished == [unfinished |-> TRUE]
NotLoaded == [loaded |-> FALSE]
Nothing == "nothing"

Loaded == {o \in Operators : copies[o] # NotLoaded}
Saving == {o \in Operators : saving[o] # Nothing}

\* Mutant: a file that cannot be read is taken for an absent one.
ReadsOrEmpty == IF appFile = Unfinished THEN NoApps ELSE appFile

\* _load_state: the error of an unfinished file ends the process
Reads == appFile

Load(o) ==
    /\ o \notin Loaded /\ Reads # Unfinished
    /\ copies' = [copies EXCEPT ![o] = Reads]
    /\ overlapped' = (overlapped \/ Loaded # {})
    /\ UNCHANGED <<appFile, saving, operations, crashes, answered, damaged>>

\* deploy_app, stop_app and scale_app: the records they may leave
Deployed(record) == {[status |-> "running", workers |-> 1]}
Stopped(record) == IF record = Unknown THEN {} ELSE {[record EXCEPT !.status = "stopped"]}
Scaled(record) == IF record = Unknown THEN {} ELSE {[record EXCEPT !.workers = n] : n \in 1..2}

\* The copy is changed and the file opened: it is empty now.
Operate(o, a, record) ==
    /\ o \in Loaded \ Saving
    /\ operations < MaxOperations /\ operations' = operations + 1
    /\ record \in Deployed(copies[o][a]) \cup Stopped(copies[o][a]) \cup Scaled(copies[o][a])
    /\ copies' = [copies EXCEPT ![o][a] = record]
    /\ saving' = [saving EXCEPT ![o] = a]
    /\ appFile' = Unfinished
    /\ UNCHANGED <<crashes, answered, overlapped, damaged>>

\* _save_state is through, and the operation is answered; what two of them write
\* at once may be neither.
Saved(o) ==
    /\ o \in Saving /\ saving' = [saving EXCEPT ![o] = Nothing]
    /\ appFile' \in {copies[o]} \cup (IF Saving = {o} THEN {} ELSE {Unfinished})
    /\ answered' = [answered EXCEPT ![saving[o]] = copies[o][saving[o]]]
    /\ UNCHANGED <<copies, operations, crashes, overlapped, damaged>>

CrashInSave(o) ==
    /\ o \in Saving /\ saving' = [saving EXCEPT ![o] = Nothing]
    /\ crashes < MaxCrashes /\ crashes' = crashes + 1
    /\ copies' = [copies EXCEPT ![o] = NotLoaded]
    /\ appFile' = Unfinished
    /\ damaged' = TRUE
    /\ UNCHANGED <<operations, answered, overlapped>>

\* The process of an operator ends, as the command does after one operation.
Leave(o) ==
    /\ o \in Loaded \ Saving
    /\ copies' = [copies EXCEPT ![o] = NotLoaded]
    /\ UNCHANGED <<appFile, saving, operations, crashes, answered, overlapped, damaged>>

OrchestratorInit ==
    /\ appFile = NoApps /\ copies = [o \in Operators |-> NotLoaded]
    /\ saving = [o \in Operators |-> Nothing] /\ operations = 0 /\ crashes = 0
    /\ answered = NoApps /\ overlapped = FALSE /\ damaged = FALSE

Records == [status : {"running", "stopped"}, workers : 1..2]

OrchestratorNext ==
    \/ \E o \in Operators : Load(o) \/ Saved(o) \/ CrashInSave(o) \/ Leave(o)
    \/ \E o \in Operators, a \in Apps, r \in Records : Operate(o, a, r)

OrchestratorSpec == OrchestratorInit /\ [][OrchestratorNext]_orchestratorVars

----------------------------------------------------------------------------
(* Properties *)

\* As long as no operator had the file loaded while another did, the file holds
\* every record that was answered; and once a process ended in a save it stays
\* unfinished: no later process takes it for an empty one.
OnlyOverlapForgetsApps ==
    ~overlapped /\ Saving = {} => appFile = IF damaged THEN Unfinished ELSE answered
=============================================================================
