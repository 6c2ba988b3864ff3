------------------------- MODULE ExecutionLifecycle -------------------------
(***************************************************************************)
(* What the execution lineage promises: every execution goes through its   *)
(* life cycle one legal transition at a time, and the last state recorded  *)
(* is never taken back.  LEGAL_STATE_TRANSITIONS of                        *)
(* contracts/execution_contract.py is the whole specification.             *)
(***************************************************************************)
CONSTANT Executions

VARIABLE recorded  \* the last state recorded of each execution

States == {"CREATED", "APPROVED", "EXECUTED", "COMPLETED", "FAILED"}

\* "NONE" is an execution that has no event yet.
Legal ==
    [s \in States \cup {"NONE"} |->
        CASE s = "NONE"     -> {"CREATED"}
          [] s = "CREATED"  -> {"APPROVED", "FAILED"}
          [] s = "APPROVED" -> {"EXECUTED", "FAILED"}
          [] s = "EXECUTED" -> {"COMPLETED", "FAILED"}
          [] OTHER          -> {}]

Init == recorded = [e \in Executions |-> "NONE"]

Record(e, s) ==
    /\ s \in Legal[recorded[e]]
    /\ recorded' = [recorded EXCEPT ![e] = s]

Next == \E e \in Executions, s \in States : Record(e, s)

Spec == Init /\ [][Next]_recorded
=============================================================================
