--------------------------- MODULE DurableLinkSet ---------------------------
(***************************************************************************)
(* What the monitored-links service promises: a set of links on disk, the  *)
(* set the API shows, at most one change between them at a time, and a     *)
(* restart that shows exactly what is on disk.  When the service could not *)
(* undo a failed write (`diverged`) the two may drift apart until the next *)
(* restart; they never do otherwise.                                       *)
(***************************************************************************)
CONSTANT Links
VARIABLES durable, visible, up, diverged
abstractVars == <<durable, visible, up, diverged>>

Changes(s) == {s \cup {l} : l \in Links} \cup {s \ {l} : l \in Links}

Init == durable = {} /\ visible = {} /\ up = FALSE /\ diverged = FALSE

\* One change reaches the disk before anybody can see it.
Persist ==
    /\ up
    /\ diverged \/ visible = durable
    /\ durable' \in Changes(durable)
    /\ UNCHANGED <<visible, up, diverged>>

\* It becomes visible.
Publish ==
    /\ up
    /\ IF diverged THEN visible' \in Changes(visible) ELSE visible' = durable
    /\ UNCHANGED <<durable, up, diverged>>

\* A failed write is not undone: the disk may have changed unnoticed.
Diverge ==
    /\ up
    /\ diverged \/ visible = durable
    /\ durable' \in Changes(durable) \cup {durable}
    /\ diverged' = TRUE
    /\ UNCHANGED <<visible, up>>

\* The process dies, between two changes or while it makes one.
Crash ==
    /\ up
    /\ up' = FALSE
    /\ visible' = {}
    /\ \/ durable' = durable
       \/ (diverged \/ visible = durable) /\ durable' \in Changes(durable)
    /\ diverged' = FALSE

Recover ==
    /\ ~up
    /\ up' = TRUE
    /\ visible' = durable
    /\ UNCHANGED <<durable, diverged>>

Next == Persist \/ Publish \/ Diverge \/ Crash \/ Recover
Spec == Init /\ [][Next]_abstractVars
=============================================================================
