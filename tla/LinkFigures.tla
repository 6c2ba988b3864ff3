----------------------------- MODULE LinkFigures -----------------------------
(***************************************************************************)
(* What the backend shows of the monitored links (backend/app/main.py):    *)
(* their rows of the live dashboard and their averages in /metrics and     *)
(* /orchestration/metrics.  ingest_link and remove_link change the list    *)
(* and the metadata under a lock (module MonitoredLinks); the readers take *)
(* none and read both, link by link, while they change.  An ingest appends *)
(* to the list in place; a removal binds the name to a new list, and a     *)
(* reader that iterates over the old one goes on with the old one.         *)
(***************************************************************************)
EXTENDS Integers, Sequences

CONSTANTS
    Links,
    NameOf,      \* _extract_link_name: links of one domain share a name
    Reported,    \* names of the services that report runtimes, shown first
    ResponseOf,  \* avg_response_time of the metadata of a link
    MaxIngests   \* bound: links ingested

VARIABLES
    listed,    \* _INGESTED_LINKS: the links, each with the number of its ingest
    metadata,  \* _LINK_METADATA: the ingest it is of, 0 when there is none
    changing,  \* what the holder of _INGESTION_LOCK has yet to publish
    ingests,   \* links ingested so far
    page,      \* the links of one GET /live-dashboard
    figures    \* one _calculate_aggregate_metrics

figureVars == <<listed, metadata, changing, ingests, page, figures>>

Free == [what |-> "nothing", link |-> "none"]
Item(l) == [link |-> l, ingest |-> ingests]
Listed(l) == \E i \in DOMAIN listed : listed[i].link = l

-----------------------------------------------------------------------------
(* The writers *)

\* A reader that is at work notes what happens meanwhile.
Noting(reader, what, l) ==
    IF reader.phase \in {"sum", "links", "count"} THEN [reader EXCEPT ![what] = @ \cup {l}] ELSE reader

\* ingest_link after the durable write: the metadata, and then the item.
Ingest(l) ==
    /\ changing = Free /\ ~Listed(l) /\ ingests < MaxIngests
    /\ ingests' = ingests + 1
    /\ metadata' = [metadata EXCEPT ![l] = ingests + 1]
    /\ changing' = [what |-> "append", link |-> l]
    /\ figures' = Noting(figures, "added", l)
    /\ UNCHANGED <<listed, page>>

FinishIngest ==
    /\ changing.what = "append" /\ changing' = Free
    /\ listed' = Append(listed, Item(changing.link))
    /\ UNCHANGED <<metadata, ingests, page, figures>>

\* The list has a link once: ingest_link looks for it first.
Without(i) == SubSeq(listed, 1, i - 1) \o SubSeq(listed, i + 1, Len(listed))

\* A reader of the old list keeps it.
Keeping(reader) ==
    IF reader.live THEN [reader EXCEPT !.live = FALSE, !.list = listed] ELSE reader

\* Mutant: the item is taken out of the list readers iterate over.
RemoveInPlace(l) ==
    /\ changing = Free
    /\ \E i \in DOMAIN listed : listed[i].link = l /\ listed' = Without(i)
    /\ changing' = [what |-> "forget", link |-> l]
    /\ page' = [Noting(page, "removed", l) EXCEPT !.throughout = @ \ {l}]
    /\ figures' = Noting(figures, "removed", l)
    /\ UNCHANGED <<metadata, ingests>>

\* remove_link after the durable write: the list, and then the metadata.
Remove(l) ==
    /\ changing = Free
    /\ \E i \in DOMAIN listed : listed[i].link = l /\ listed' = Without(i)
    /\ changing' = [what |-> "forget", link |-> l]
    /\ page' = [Noting(Keeping(page), "removed", l) EXCEPT !.throughout = @ \ {l}]
    /\ figures' = Noting(Keeping(figures), "removed", l)
    /\ UNCHANGED <<metadata, ingests>>

FinishRemove ==
    /\ changing.what = "forget" /\ changing' = Free
    /\ metadata' = [metadata EXCEPT ![changing.link] = 0]
    /\ UNCHANGED <<listed, ingests, page, figures>>

-----------------------------------------------------------------------------
(* The readers *)

Iterated(reader) == IF reader.live THEN listed ELSE reader.list

\* Bound: one request, of either kind; readers change nothing of each other.
Unasked == page.phase = "idle" /\ figures.phase = "idle"

NoPage == [phase |-> "idle", live |-> FALSE, list |-> <<>>, next |-> 1, rows |-> <<>>,
           throughout |-> {}, removed |-> {}]

AskPage ==
    /\ Unasked
    /\ page' = [NoPage EXCEPT !.phase = "links", !.live = TRUE,
                    !.throughout = {l \in Links : Listed(l)}]
    /\ UNCHANGED <<listed, metadata, changing, ingests, figures>>

RowNames == {page.rows[i].name : i \in DOMAIN page.rows}

\* What the link is called and its status are of the item, its score of the
\* metadata there is now: without any, _calculate_health_score starts from 85
\* and takes nothing off.
RowOf(item) == [name |-> NameOf[item.link], link |-> item.link, ingest |-> item.ingest,
                score |-> metadata[item.link]]

\* One link: a second one of the same name, or of a service, has no row.
ShowLink ==
    /\ page.phase = "links" /\ page.next <= Len(Iterated(page))
    /\ LET item == Iterated(page)[page.next]
           hidden == NameOf[item.link] \in RowNames \cup Reported
       IN page' = [page EXCEPT !.next = @ + 1,
                        !.rows = IF hidden THEN @ ELSE Append(@, RowOf(item))]
    /\ UNCHANGED <<listed, metadata, changing, ingests, figures>>

PageShown ==
    /\ page.phase = "links" /\ page.next > Len(Iterated(page))
    /\ page' = [page EXCEPT !.phase = "shown", !.live = FALSE]
    /\ UNCHANGED <<listed, metadata, changing, ingests, figures>>

NoFigures == [phase |-> "idle", live |-> FALSE, list |-> <<>>, next |-> 1, sum |-> 0,
              average |-> 0, monitored |-> 0, added |-> {}, removed |-> {}]

\* What is measured of the machine, of git and of the history files comes
\* first and is left out when it fails; then, if there are links...
AskFigures ==
    /\ Unasked
    /\ figures' = [NoFigures EXCEPT
                      !.phase = IF listed = <<>> THEN "count" ELSE "sum",
                      !.added = IF changing.what = "append" THEN {changing.link} ELSE {}]
    /\ UNCHANGED <<listed, metadata, changing, ingests, page>>

\* ... their response times are added up, of the list there is now,
StartSum ==
    /\ figures.phase = "sum" /\ figures' = [figures EXCEPT !.phase = "links", !.live = TRUE]
    /\ UNCHANGED <<listed, metadata, changing, ingests, page>>

AddLink ==
    /\ figures.phase = "links" /\ figures.next <= Len(Iterated(figures))
    /\ LET link == Iterated(figures)[figures.next].link
           time == IF metadata[link] = 0 THEN 0 ELSE ResponseOf[link]
       IN figures' = [figures EXCEPT !.next = @ + 1, !.sum = @ + time]
    /\ UNCHANGED <<listed, metadata, changing, ingests, page>>

\* ... and divided by the length of the list there is then.
Divide ==
    /\ figures.phase = "links" /\ figures.next > Len(Iterated(figures))
    /\ figures' = IF listed = <<>> THEN [figures EXCEPT !.phase = "raised", !.live = FALSE]
                  ELSE [figures EXCEPT !.phase = "count", !.live = FALSE, !.list = listed,
                                       !.average = @ + figures.sum \div Len(listed)]
    /\ UNCHANGED <<listed, metadata, changing, ingests, page>>

\* prometheus_metrics and orchestration_metrics count the links once more.
CountLinks ==
    /\ figures.phase = "count"
    /\ figures' = [figures EXCEPT !.phase = "answered", !.monitored = Len(listed)]
    /\ UNCHANGED <<listed, metadata, changing, ingests, page>>

-----------------------------------------------------------------------------
FiguresInit ==
    /\ listed = <<>> /\ metadata = [l \in Links |-> 0] /\ changing = Free /\ ingests = 0
    /\ page = NoPage /\ figures = NoFigures

FiguresNext ==
    \/ \E l \in Links : Ingest(l) \/ Remove(l)
    \/ FinishIngest \/ FinishRemove
    \/ AskPage \/ ShowLink \/ PageShown
    \/ AskFigures \/ StartSum \/ AddLink \/ Divide \/ CountLinks

FiguresSpec == FiguresInit /\ [][FiguresNext]_figureVars

-----------------------------------------------------------------------------
\* A link that is monitored from the question to the answer is on the
\* dashboard, under a name it may share, whatever is ingested and removed
\* meanwhile; and a row is of one ingest unless its link was removed
\* meanwhile (main._build_live_dashboard_payload, remove_link).
LinkRowsAreWhole ==
    /\ page.phase = "shown" =>
          \A l \in page.throughout : NameOf[l] \in RowNames \cup Reported
    /\ \A i \in DOMAIN page.rows :
          \/ page.rows[i].score = page.rows[i].ingest
          \/ page.rows[i].link \in page.removed

\* The figures are an answer, and their average and their number those of the
\* links there are, unless a link was added or removed meanwhile; only a
\* removal makes them an exception, of the last link
\* (main._calculate_aggregate_metrics, prometheus_metrics).
OnlyChangesSpoilFigures ==
    /\ figures.phase = "raised" => figures.removed # {}
    /\ figures.phase = "answered" /\ figures.added = {} /\ figures.removed = {} =>
          LET times == {ResponseOf[figures.list[i].link] : i \in DOMAIN figures.list}
          IN /\ figures.monitored = Len(figures.list)
             /\ figures.list # <<>> =>
                  \E least, most \in times : least <= figures.average /\ figures.average <= most
=============================================================================
