----------------------------- MODULE MetricsFiles -----------------------------
(***************************************************************************)
(* The CSV files of the metrics collector (core/metrics_collector.py) and  *)
(* of the runtime poller (monitoring/runtime_poller.py).  Every process    *)
(* that uses one of them creates the files it does not find, each with its *)
(* header, and appends a row, or one to each of two files, per measurement.*)
(* A file is created by opening it for writing: a process that found it    *)
(* missing empties what another created and filled since.                  *)
(***************************************************************************)
EXTENDS Integers, Sequences, FiniteSets

CONSTANTS
    Processes,
    Files,        \* the files, in the order they are created in
    FilesOf,      \* measurements: the files they add a row to, in order
    MaxRows,      \* bound: measurements
    MaxKills      \* bound: processes that are killed

VARIABLES
    file,      \* [header, rows, torn] of each file, or Missing
    process,   \* what each process does
    taken,     \* measurements taken so far
    recorded,  \* rows appended, as pairs of file and measurement
    shared,    \* files a process came to while another created them
    kills,
    summary    \* get_metrics_summary, being counted or answered

metricsVars == <<file, process, taken, recorded, shared, kills, summary>>

Missing == [header |-> FALSE, rows |-> {}, exists |-> FALSE, torn |-> FALSE]
Empty == [Missing EXCEPT !.exists = TRUE]

New == [at |-> "new", next |-> 1, what |-> "none", row |-> 0]
AtFile(p) == Files[process[p].next]
Creating(f) == {p \in Processes : process[p].at \in {"missing", "empty"} /\ AtFile(p) = f}

Ready(n) == IF n = Len(Files) THEN [New EXCEPT !.at = "ready"]
            ELSE [New EXCEPT !.at = "look", !.next = n + 1]

-----------------------------------------------------------------------------
(* _initialize_metrics, _initialize_log *)

Start(p) ==
    /\ process[p].at = "new"
    /\ process' = [process EXCEPT ![p].at = "look"]
    /\ UNCHANGED <<file, taken, recorded, shared, kills, summary>>

Coming(p) == IF Creating(AtFile(p)) = {} THEN shared ELSE shared \cup {AtFile(p)}

\* Mutant: a file is created whether it is there or not.
LookAway(p) ==
    /\ process[p].at = "look" /\ shared' = Coming(p)
    /\ process' = [process EXCEPT ![p].at = "missing"]
    /\ UNCHANGED <<file, taken, recorded, kills, summary>>

Look(p) ==
    /\ process[p].at = "look" /\ shared' = Coming(p)
    /\ process' = [process EXCEPT ![p] = IF file[AtFile(p)].exists
                                         THEN Ready(process[p].next) ELSE [@ EXCEPT !.at = "missing"]]
    /\ UNCHANGED <<file, taken, recorded, kills, summary>>

OpenNew(p) ==
    /\ process[p].at = "missing"
    /\ process' = [process EXCEPT ![p].at = "empty"]
    /\ file' = [file EXCEPT ![AtFile(p)] = Empty]
    /\ summary' = [summary EXCEPT !.disturbed = TRUE]
    /\ UNCHANGED <<taken, recorded, shared, kills>>

\* The header is written where the file began: over rows added since.
WriteHeader(p) ==
    /\ process[p].at = "empty"
    /\ process' = [process EXCEPT ![p] = Ready(process[p].next)]
    /\ file' = [file EXCEPT ![AtFile(p)].header = TRUE,
                            ![AtFile(p)].torn = @ \/ file[AtFile(p)].rows # {}]
    /\ summary' = [summary EXCEPT !.disturbed = TRUE]
    /\ UNCHANGED <<taken, recorded, shared, kills>>

-----------------------------------------------------------------------------
(* record_..._metric, _log_result and _log_runtime_payload *)

Measure(p, m) ==
    /\ process[p].at = "ready"
    /\ taken < MaxRows /\ taken' = taken + 1
    /\ process' = [process EXCEPT ![p] = [at |-> "write", next |-> 1, what |-> m,
                                          row |-> taken + 1]]
    /\ UNCHANGED <<file, recorded, shared, kills, summary>>

WriteRow(p) ==
    /\ process[p].at = "write"
    /\ LET now == process[p]
           f == FilesOf[now.what][now.next]
       IN /\ file' = [file EXCEPT ![f].rows = @ \cup {now.row}, ![f].exists = TRUE]
          /\ recorded' = recorded \cup {<<f, now.row>>}
          /\ process' = [process EXCEPT ![p] =
                IF now.next = Len(FilesOf[now.what]) THEN [New EXCEPT !.at = "ready"]
                ELSE [now EXCEPT !.next = @ + 1]]
    /\ UNCHANGED <<taken, shared, kills, summary>>

\* A process is killed: what it was at stays as it is.
Kill(p) ==
    /\ process[p].at \notin {"new", "look", "ready"} /\ kills < MaxKills /\ kills' = kills + 1
    /\ process' = [process EXCEPT ![p] = New]
    /\ UNCHANGED <<file, taken, recorded, shared, summary>>

-----------------------------------------------------------------------------
(* get_metrics_summary *)

NoSummary == [next |-> 0, count |-> 0, before |-> 0, disturbed |-> FALSE]

Summarize ==
    /\ summary.next = 0
    /\ summary' = [NoSummary EXCEPT !.next = 1, !.before = Cardinality(recorded),
                       !.disturbed = \E f \in DOMAIN file : file[f].exists /\ ~file[f].header]
    /\ UNCHANGED <<file, process, taken, recorded, shared, kills>>

\* One file: a line is taken off for its header, there or not.
CountFile ==
    /\ summary.next \in DOMAIN Files
    /\ LET f == file[Files[summary.next]]
           lines == Cardinality(f.rows) + IF f.header THEN 1 ELSE 0
       IN summary' = [summary EXCEPT !.next = @ + 1,
                                     !.count = IF f.exists THEN @ + lines - 1 ELSE @]
    /\ UNCHANGED <<file, process, taken, recorded, shared, kills>>

MetricsInit ==
    /\ file = [f \in {Files[n] : n \in DOMAIN Files} |-> Missing]
    /\ process = [p \in Processes |-> New]
    /\ taken = 0 /\ recorded = {} /\ shared = {} /\ kills = 0 /\ summary = NoSummary

MetricsNext ==
    \/ \E p \in Processes :
        \/ Start(p) \/ Look(p) \/ OpenNew(p) \/ WriteHeader(p) \/ WriteRow(p) \/ Kill(p)
        \/ \E m \in DOMAIN FilesOf : Measure(p, m)
    \/ Summarize \/ CountFile

MetricsSpec == MetricsInit /\ [][MetricsNext]_metricsVars

-----------------------------------------------------------------------------
\* A row stays in its file, and the file readable, unless a process came to the
\* file while another created it; and a file has its header unless it is being
\* created or its creator was killed (MetricsCollector._initialize_metrics).
OnlyLateCreationLosesRows ==
    /\ \A fr \in recorded : fr[1] \notin shared =>
          fr[2] \in file[fr[1]].rows /\ ~file[fr[1]].torn
    /\ \A f \in DOMAIN file : file[f].exists /\ ~file[f].header =>
          Creating(f) # {} \/ f \in shared \/ kills > 0

\* A summary counts no fewer rows than there were when it was asked for and no
\* more than there are, unless files were created meanwhile
\* (MetricsCollector.get_metrics_summary).
SummaryCountsRows ==
    summary.next = Len(Files) + 1 /\ ~summary.disturbed /\ shared = {} =>
        summary.before <= summary.count /\ summary.count <= Cardinality(recorded)
=============================================================================
