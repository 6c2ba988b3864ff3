---------------------------- MODULE MessageBridge ----------------------------
(***************************************************************************)
(* The mail between the MCP agents and the sovereign bus                   *)
(* (core/mcp_bridge.py, mcp_adapter.py, mcp_manager.py, sovereign_bus.py). *)
(* A letter is an entry of a JSON list in a file, the inbox of the bridge  *)
(* or the board of the manager; whoever adds or marks an entry reads the   *)
(* list, opens the file for writing, which empties it, and writes the list *)
(* whole.  Nobody takes a lock.  The bridge publishes the entries that are *)
(* not marked and marks them; the adapter publishes the entries that are   *)
(* newer than its last check.                                              *)
(***************************************************************************)
EXTENDS Naturals, FiniteSets

CONSTANTS
    Letters,     \* put in the inbox with add_inbox_message
    Notes,       \* put on the board with send_message, for the bus
    Parties,     \* bound: sets of those who write in one behaviour
    MaxTroubles  \* bound: deaths, restarts and failing publications

VARIABLES
    text,        \* files: the entries <<mail, processed>> of the last whole list
    torn,        \* files that cannot be parsed
    phase,       \* writers: "idle", "read", "open", "done", "gone", or "absent"
    copy,        \* writers: the list they read, as they will write it
    published,   \* mail: times the bus got it
    interrupted, \* a run of the bridge ended between a publication and its write
    spoiled,     \* files with overlapping changes, or a writer that died in one
    stamped,     \* notes that have their timestamp
    old,         \* those stamped up to MCPAdapter.last_check
    checking,    \* the adapter is in a check
    found,       \* the notes it has yet to publish
    excused,     \* notes on their way while the adapter checked or was not there
    brokenOff,   \* notes published in a check that did not come to its end
    mailTroubles

fileVars == <<text, torn, phase, copy, spoiled>>
adapterVars == <<stamped, old, checking, found, excused, brokenOff>>
mailVars == <<fileVars, adapterVars, published, interrupted, mailTroubles>>

Mail == Letters \cup Notes
Bridge == "bridge"   \* process_mcp_inbox
Marker == "marker"   \* mark_processed of another agent
Writers == Mail \cup {Bridge, Marker}
Files == {"inbox", "board"}
File(w) == IF w \in Letters \cup {Bridge} THEN "inbox" ELSE "board"

Busy(f) == {w \in Writers : File(w) = f /\ phase[w] \in {"read", "open"}}
Phase(w, p) == phase' = [phase EXCEPT ![w] = p]
Spoil(f) == spoiled' = spoiled \cup {f}
Happened(m) == published' = [published EXCEPT ![m] = @ + 1]
Trouble == mailTroubles < MaxTroubles /\ mailTroubles' = mailTroubles + 1

-----------------------------------------------------------------------------
(* Changing a file *)

\* Who adds mail takes a list it cannot parse for an empty one ...
StartSending(m) ==
    /\ m \in Mail /\ phase[m] = "idle" /\ Phase(m, "read")
    /\ copy' = [copy EXCEPT ![m] = {<<m, FALSE>>} \cup
                    IF File(m) \in torn THEN {} ELSE text[File(m)]]
    /\ IF Busy(File(m)) = {} THEN UNCHANGED spoiled ELSE Spoil(File(m))
    /\ stamped' = stamped \cup ({m} \cap Notes)
    /\ excused' = IF checking THEN excused \cup ({m} \cap Notes) ELSE excused
    /\ UNCHANGED <<text, torn, old, checking, found, brokenOff, published, interrupted,
                   mailTroubles>>

\* ... who marks it does nothing then
StartMarking(w) ==
    /\ w \in {Bridge, Marker} /\ phase[w] = "idle" /\ File(w) \notin torn /\ Phase(w, "read")
    /\ copy' = [copy EXCEPT ![w] = text[File(w)]]
    /\ IF Busy(File(w)) = {} THEN UNCHANGED spoiled ELSE Spoil(File(w))
    /\ UNCHANGED <<text, torn, adapterVars, published, interrupted, mailTroubles>>

Unmarked == {m \in Mail : <<m, FALSE>> \in copy[Bridge]}

\* open(path, "w")
Open(w) ==
    /\ phase[w] = "read" /\ (w = Bridge => Unmarked = {}) /\ Phase(w, "open")
    /\ torn' = torn \cup {File(w)}
    /\ UNCHANGED <<text, copy, spoiled, adapterVars, published, interrupted, mailTroubles>>

\* The list is written over what another writer wrote meanwhile, of which
\* a longer end may remain.
Write(w) ==
    /\ phase[w] = "open"
    /\ Phase(w, IF w \in Mail THEN "done" ELSE "idle")
    /\ text' = [text EXCEPT ![File(w)] = copy[w]]
    /\ copy' = [copy EXCEPT ![w] = {}]
    /\ torn' \in IF File(w) \in torn THEN {torn \ {File(w)}} ELSE {torn, torn \cup {File(w)}}
    /\ UNCHANGED <<spoiled, adapterVars, published, interrupted, mailTroubles>>

\* The process ends; the bridge and the agent that marks come back
Die(w) ==
    /\ phase[w] \in {"read", "open"} /\ Trouble
    /\ Phase(w, IF w \in Mail THEN "gone" ELSE "idle")
    /\ copy' = [copy EXCEPT ![w] = {}]
    /\ IF phase[w] = "open" THEN Spoil(File(w)) ELSE UNCHANGED spoiled
    /\ interrupted' = (interrupted \/ w = Bridge)
    /\ UNCHANGED <<text, torn, adapterVars, published>>

-----------------------------------------------------------------------------
(* The bridge *)

Publish(m) ==
    /\ phase[Bridge] = "read" /\ m \in Unmarked
    /\ Happened(m)
    /\ copy' = [copy EXCEPT ![Bridge] = (@ \ {<<m, FALSE>>}) \cup {<<m, TRUE>>}]
    /\ UNCHANGED <<text, torn, phase, spoiled, adapterVars, interrupted, mailTroubles>>

\* EventBus.publish raises, its Redis is gone: the marks are not written
PublishFails(m) ==
    /\ phase[Bridge] = "read" /\ m \in Unmarked /\ Trouble
    /\ Phase(Bridge, "idle") /\ copy' = [copy EXCEPT ![Bridge] = {}]
    /\ interrupted' = TRUE
    /\ UNCHANGED <<text, torn, spoiled, adapterVars, published>>

-----------------------------------------------------------------------------
(* The adapter *)

Sending == {m \in Notes : phase[m] \in {"read", "open"}}

\* What read_messages returns, marked or not, and is newer than the last check
StartCheck ==
    /\ ~checking /\ checking' = TRUE
    /\ IF "board" \in torn
       THEN found' = {} /\ excused' = excused \cup stamped
       ELSE /\ found' = {m \in Notes \ old : \E mark \in BOOLEAN : <<m, mark>> \in text["board"]}
            /\ excused' = excused \cup Sending
    /\ UNCHANGED <<fileVars, stamped, old, brokenOff, published, interrupted, mailTroubles>>

PublishNote(m) ==
    /\ m \in found /\ found' = found \ {m} /\ Happened(m)
    /\ UNCHANGED <<fileVars, stamped, old, checking, excused, brokenOff, interrupted,
                   mailTroubles>>

\* bus.publish raises, or the note cannot be read, out of the check: the notes
\* before it have been published, and last_check is as it was
PublishNoteFails(m) ==
    /\ m \in found /\ Trouble
    /\ checking' = FALSE /\ found' = {}
    /\ brokenOff' = brokenOff \cup {n \in Notes \ old : published[n] > 0}
    /\ UNCHANGED <<fileVars, stamped, old, excused, published, interrupted>>

\* Mutant: the time of the last check is not kept.
EndCheckOnly ==
    /\ checking /\ found = {} /\ checking' = FALSE
    /\ UNCHANGED <<fileVars, stamped, old, found, excused, brokenOff, published, interrupted,
                   mailTroubles>>

\* last_check is the time at the end
EndCheck ==
    /\ checking /\ found = {} /\ checking' = FALSE
    /\ old' = stamped
    /\ UNCHANGED <<fileVars, stamped, found, excused, brokenOff, published, interrupted,
                   mailTroubles>>

\* A new adapter begins with the present time
RestartAdapter ==
    /\ Trouble
    /\ checking' = FALSE /\ found' = {} /\ old' = stamped /\ excused' = excused \cup stamped
    /\ UNCHANGED <<fileVars, stamped, brokenOff, published, interrupted>>

-----------------------------------------------------------------------------
MailInit ==
    /\ text = [f \in Files |-> {}] /\ torn = {} /\ spoiled = {}
    /\ \E party \in Parties : phase = [w \in Writers |-> IF w \in party THEN "idle" ELSE "absent"]
    /\ copy = [w \in Writers |-> {}]
    /\ published = [m \in Mail |-> 0] /\ interrupted = FALSE
    /\ stamped = {} /\ old = {} /\ checking = FALSE /\ found = {} /\ excused = {}
    /\ brokenOff = {} /\ mailTroubles = 0

MailNext ==
    \/ \E w \in Writers : StartSending(w) \/ StartMarking(w) \/ Open(w) \/ Write(w) \/ Die(w)
    \/ \E m \in Letters : Publish(m) \/ PublishFails(m)
    \/ \E m \in Notes : PublishNote(m) \/ PublishNoteFails(m)
    \/ StartCheck \/ EndCheck \/ RestartAdapter

MailSpec == MailInit /\ [][MailNext]_mailVars

-----------------------------------------------------------------------------
\* Mail that was sent stays in its file unless two changes of the file
\* overlapped or a writer died in one; a letter is published twice only when
\* a run of the bridge broke off or the marks of one were overwritten; a note
\* is published twice only when a check that had published it broke off; and
\* one that the adapter has checked past without publishing it was on its way
\* during a check, or no adapter was there: a check that breaks off passes by
\* no note (MCPBridge.process_mcp_inbox, MCPAdapter.process_mcp_messages).
OnlyCausesMishandleMail ==
    /\ \A m \in Mail :
        phase[m] = "done" /\ File(m) \notin spoiled =>
            \E mark \in BOOLEAN : <<m, mark>> \in text[File(m)]
    /\ \A m \in Letters : published[m] > 1 => interrupted \/ "inbox" \in spoiled
    /\ \A m \in Notes :
        /\ published[m] > 1 => m \in brokenOff
        /\ m \in old \ excused /\ phase[m] = "done" /\ ~checking /\ published[m] = 0 =>
            "board" \in spoiled
=============================================================================
