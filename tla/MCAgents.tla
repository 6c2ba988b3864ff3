------------------------------- MODULE MCAgents -------------------------------
(***************************************************************************)
(* The agent and what works beside it, for TLC: the runtime of the agent,  *)
(* its memory over its lives, what it perceives and emits at its start,    *)
(* the observer server that polls the services, and the mail of the MCP    *)
(* agents.  They share no state, so a behaviour is one of any of them:     *)
(* machine says which, and the variables of the others stay off.           *)
(***************************************************************************)
EXTENDS AgentRuntime

CONSTANTS
    Capacity, MaxBlocks, MaxLives,                   \* of AgentMemory
    EventSinks, MaxLines, MaxBadStarts, MaxEnds,     \* of AgentSenses
    Services, Statuses, PoolSize, MaxEvents, MaxPolls, MaxPushed,   \* of ObserverServer
    Letters, Notes, Parties, MaxMailTroubles,        \* of MessageBridge
    Off    \* value of the variables of what does not run

\* All requests at one worker, or its run() thread while other workers run.
SmallDeployments == {<<Requests, {}>>, <<{}, Elsewhere>>}

\* Those who write in the inbox, or on the board: no step needs both.
SmallParties == {Letters \cup {"bridge"}, Notes \cup {"marker"}}

\* AgentRuntime makes its memory for 50 decisions (max_decisions).
ASSUME MemoryAssumption == Capacity \in Nat \ {0}

\* _probe_service; MAX_EVENTS is a positive number.
ASSUME ObserverAssumption ==
    /\ Statuses \subseteq {"healthy", "degraded", "unreachable", "timeout", "error"}
    /\ MaxEvents \in Nat \ {0}

\* What is put in the inbox is not put on the board, and nobody is called
\* as the two that mark entries are.
ASSUME MailAssumption ==
    /\ Letters \cap Notes = {}
    /\ {"bridge", "marker"} \cap (Letters \cup Notes) = {}

VARIABLES
    machine,
    alive, decisions, seen, snapshot, lives, blocked, lost,
    stage, lines, read, perceived, timeline, emitted, badStarts, ends,
    services, feed, polls, cycle, waiting, probes, request, pushed,
    mailText, mailTorn, mailPhase, mailCopy, mailPublished, mailInterrupted, mailSpoiled,
    mailStamped, mailOld, mailChecking, mailFound, mailExcused, mailBrokenOff,
    mailTroubles

Memory == INSTANCE AgentMemory
Senses == INSTANCE AgentSenses WITH history <- perceived
Observer == INSTANCE ObserverServer

Post == INSTANCE MessageBridge WITH
    MaxTroubles <- MaxMailTroubles,
    text <- mailText, torn <- mailTorn, phase <- mailPhase, copy <- mailCopy,
    published <- mailPublished, interrupted <- mailInterrupted, spoiled <- mailSpoiled,
    stamped <- mailStamped, old <- mailOld, checking <- mailChecking, found <- mailFound,
    excused <- mailExcused, brokenOff <- mailBrokenOff

agentMemoryVars == <<alive, decisions, seen, snapshot, lives, blocked, lost>>
agentSensesVars == <<stage, lines, read, perceived, timeline, emitted, badStarts, ends>>
serverVars == <<services, feed, polls, cycle, waiting, probes, request, pushed>>
mailVars == <<mailText, mailTorn, mailPhase, mailCopy, mailPublished, mailInterrupted,
              mailSpoiled, mailStamped, mailOld, mailChecking, mailFound, mailExcused,
              mailBrokenOff, mailTroubles>>

MemoryOff ==
    /\ alive = Off /\ decisions = Off /\ seen = Off /\ snapshot = Off /\ lives = Off
    /\ blocked = Off /\ lost = Off
SensesOff ==
    /\ stage = Off /\ lines = Off /\ read = Off /\ perceived = Off /\ timeline = Off
    /\ emitted = Off /\ badStarts = Off /\ ends = Off
ObserverOff ==
    /\ services = Off /\ feed = Off /\ polls = Off /\ cycle = Off /\ waiting = Off
    /\ probes = Off /\ request = Off /\ pushed = Off
MailOff ==
    /\ mailText = Off /\ mailTorn = Off /\ mailPhase = Off /\ mailCopy = Off
    /\ mailPublished = Off /\ mailInterrupted = Off /\ mailSpoiled = Off
    /\ mailStamped = Off /\ mailOld = Off /\ mailChecking = Off /\ mailFound = Off
    /\ mailExcused = Off /\ mailBrokenOff = Off /\ mailTroubles = Off

AgentsInit ==
    /\ machine \in {"agent", "memory", "senses", "observer", "mail"}
    /\ Init
    /\ IF machine = "memory" THEN Memory!MemoryInit ELSE MemoryOff
    /\ IF machine = "senses" THEN Senses!SensesInit ELSE SensesOff
    /\ IF machine = "observer" THEN Observer!ObserverInit ELSE ObserverOff
    /\ IF machine = "mail" THEN Post!MailInit ELSE MailOff

AgentsNext ==
    /\ UNCHANGED machine
    /\ \/ machine = "agent" /\ Next
          /\ UNCHANGED <<agentMemoryVars, agentSensesVars, serverVars, mailVars>>
       \/ machine = "memory" /\ Memory!MemoryNext
          /\ UNCHANGED <<vars, agentSensesVars, serverVars, mailVars>>
       \/ machine = "senses" /\ Senses!SensesNext
          /\ UNCHANGED <<vars, agentMemoryVars, serverVars, mailVars>>
       \/ machine = "observer" /\ Observer!ObserverNext
          /\ UNCHANGED <<vars, agentMemoryVars, agentSensesVars, mailVars>>
       \/ machine = "mail" /\ Post!MailNext
          /\ UNCHANGED <<vars, agentMemoryVars, agentSensesVars, serverVars>>

allVars == <<machine, vars, agentMemoryVars, agentSensesVars, serverVars, mailVars>>
\* Threads run.  The run() thread sleeps between its cycles without the lock, so
\* a handler that waits gets it in the end.
AgentsSpec ==
    /\ AgentsInit /\ [][AgentsNext]_allVars
    /\ WF_vars(machine = "agent" /\ LoopStep)
    /\ \A t \in Threads :
          /\ WF_vars(machine = "agent" /\ Step(t))
          /\ SF_vars(machine = "agent" /\ Acquire(t))

-----------------------------------------------------------------------------
(* The properties of the instances, stated in their modules *)

\* AgentMemory: a running agent remembers the newest decisions of all its
\* lives, of as many as fit, but for those that an end which was not orderly
\* took (AgentMemory, AgentRuntime._shutdown).
OnlyDisorderForgets == machine = "memory" => Memory!OnlyDisorderForgets

\* AgentSenses and ObserverServer: a status in the timeline was emitted to every
\* sink, and is emitted again only for a start that failed or crashed; and the
\* status shown of a service is that of the newest event that a probe of it
\* recorded (UptimeMonitor, emit_runtime_event; poll_service and record_event
\* in observer_server.py).
StatusesMatchEvents ==
    /\ machine = "senses" => Senses!StatusesAreEmitted
    /\ machine = "observer" => Observer!FeedAgreesWithStatus

\* MessageBridge: mail stays in its file, a letter is published once and a note
\* at most once, except for the overlaps, deaths and broken checks named there
\* (MCPBridge.process_mcp_inbox, MCPAdapter.process_mcp_messages).
OnlyCausesMishandleMail == machine = "mail" => Post!OnlyCausesMishandleMail

\* AgentRuntime: every event that comes is answered, also when its cycle or another
\* one raises, while the runtime shuts down and after it did (handle_external_event).
EveryEventAnswered ==
    \A r \in Requests : machine = "agent" /\ At(r, "wait") ~> At(r, "done")
=============================================================================
