-------------------------- MODULE VanaControlCenter --------------------------
(***************************************************************************)
(* The VANA page of the dashboard (frontend/src/app/vana/page.tsx and      *)
(* services/api.ts).  A pipeline fetches an observation, derives a ruling  *)
(* and submits it for execution, and shows every answer by an action of a  *)
(* reducer that does not say which pipeline it belongs to.  The buttons    *)
(* that start a pipeline are disabled while one is running, except the     *)
(* list of regions.                                                        *)
(***************************************************************************)
EXTENDS Naturals, FiniteSets

CONSTANTS
    Regions,       \* observations offered in the list
    Custom,        \* observations typed in
    MaxPipelines   \* bound: pipelines started

VARIABLES
    selected,   \* selectedObservationId
    shown,      \* stage -> [status, of]: of is the observation of the answer
    pipelines,  \* number -> [stage, of]: calls awaited
    started,
    overlapped  \* a region was selected while a pipeline was running

pageVars == <<selected, shown, pipelines, started, overlapped>>

None == "none"
Observations == Regions \cup Custom
Stages == {"group1", "group2", "group4"}
Blank == [status |-> "idle", of |-> None]
Done == [stage |-> "done", of |-> None]

\* isPipelineRunning
Running == \E stage \in Stages : shown[stage].status = "loading"

\* The reducer
Loading(show, stage) == [show EXCEPT ![stage] = [status |-> "loading", of |-> None]]
Success(show, stage, of) == [show EXCEPT ![stage] = [status |-> "success", of |-> of]]
Failure(show, stage) == [show EXCEPT ![stage].status = "error"]

\* SELECT_REGION and runPipeline up to its first await
Begin(of) ==
    /\ started < MaxPipelines /\ started' = started + 1
    /\ selected' = of
    /\ shown' = Loading([stage \in Stages |-> Blank], "group1")
    /\ pipelines' = [pipelines EXCEPT ![started + 1] = [stage |-> "group1", of |-> of]]

\* handleRegionSelect
SelectRegion(of) ==
    /\ of \in Regions /\ Begin(of)
    /\ overlapped' = (overlapped \/ \E p \in 1..started : pipelines[p].stage # "done")

\* Mutant: the button is not disabled.
SubmitAnyTime(of) ==
    /\ of \in Custom /\ Begin(of) /\ UNCHANGED overlapped

\* handleCustomSubmit: the button is disabled while a pipeline runs
SubmitCustom(of) == of \in Custom /\ ~Running /\ Begin(of) /\ UNCHANGED overlapped

\* handleRefresh
Replay == selected # None /\ ~Running /\ Begin(selected) /\ UNCHANGED overlapped

StageAfter(stage) == IF stage = "group1" THEN "group2" ELSE "group4"

\* The answer a pipeline waits for, and the next call; the third is
\* submitVanaExecute
Answered(p) ==
    LET stage == pipelines[p].stage
        of == pipelines[p].of
    IN /\ stage # "done"
       /\ IF stage = "group4"
          THEN /\ shown' = Success(shown, stage, of)
               /\ pipelines' = [pipelines EXCEPT ![p] = Done]
                     ELSE /\ shown' = Loading(Success(shown, stage, of), StageAfter(stage))
               /\ pipelines' = [pipelines EXCEPT ![p].stage = StageAfter(stage)]
       /\ UNCHANGED <<selected, started, overlapped>>

Failed(p) ==
    /\ pipelines[p].stage # "done"
    /\ shown' = Failure(shown, pipelines[p].stage)
    /\ pipelines' = [pipelines EXCEPT ![p] = Done]
    /\ UNCHANGED <<selected, started, overlapped>>

PageInit ==
    /\ selected = None /\ started = 0 /\ overlapped = FALSE
    /\ shown = [stage \in Stages |-> Blank]
    /\ pipelines = [p \in 1..MaxPipelines |-> Done]

PageNext ==
    \/ \E of \in Observations : SelectRegion(of) \/ SubmitCustom(of)
    \/ Replay
    \/ \E p \in 1..MaxPipelines : Answered(p) \/ Failed(p)

PageSpec == PageInit /\ [][PageNext]_pageVars

-----------------------------------------------------------------------------
\* Every answer on the page is about the selected observation, and an outcome
\* stands under the ruling it was derived from, unless a region was selected
\* while an earlier pipeline still waited (page.tsx, pipelineReducer).
OnlyOverlapMixesObservations ==
    \/ overlapped
    \/ /\ \A stage \in Stages : shown[stage].status = "success" => shown[stage].of = selected
       /\ shown["group4"].status = "success" =>
              shown["group1"].status = "success" /\ shown["group2"].status = "success"
=============================================================================
