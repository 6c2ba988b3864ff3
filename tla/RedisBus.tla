------------------------------ MODULE RedisBus ------------------------------
(***************************************************************************)
(* The event bus of one process over Redis (core/redis_event_bus.py).      *)
(* Every pattern a callback subscribes is subscribed at the server, which  *)
(* sends a message once for each pattern that matches it; one listener     *)
(* thread takes the messages and hands each to the callbacks of all the    *)
(* patterns that match, going through a dictionary that subscribe changes. *)
(* Without a server at the start the bus is mock: it keeps and prints.     *)
(***************************************************************************)
EXTENDS Naturals, Sequences, FiniteSets

CONSTANTS
    Callbacks,    \* each subscribed once, with
    PatternOf,    \* its pattern
    Matching,     \* pairs <<pattern, event>> that match
    Events,       \* each published at most once
    MaxListeners  \* bound: listener threads ever started

VARIABLES
    connected,    \* redis_client is not None
    history,      \* message_history
    subscribers,  \* patterns: their callbacks
    server,       \* patterns subscribed at the server
    wire,         \* messages the server has sent, in order
    running,      \* self.running
    listeners,    \* threads: [at, event, left, size]
    subscribing,  \* callbacks: "no", "registered", "subscribed", "starting",
                  \* "done", "refused"
    calls,        \* times a callback got an event
    stopped,      \* stop() was called
    broken,       \* the connection of a listener broke
    raced,        \* two subscriptions found no listener before one started it
    late          \* a pattern was added while a message was handed out

busVars == <<connected, history, subscribers, server, wire, running, listeners, subscribing,
             calls, stopped, broken, late, raced>>

Patterns == {PatternOf[c] : c \in Callbacks}
Known == {p \in Patterns : subscribers[p] # {}}
Matches(p, e) == <<p, e>> \in Matching
Idle == [at |-> "wait", event |-> "none", left |-> {}, size |-> 0]
Alive == {t \in DOMAIN listeners : listeners[t].at \notin {"ended"}}
Dispatching == {t \in Alive : listeners[t].at = "dispatch"}
At(t, place) == listeners' = [listeners EXCEPT ![t].at = place]

-----------------------------------------------------------------------------
(* publish *)

\* What the server sends for one message: a copy for each pattern it matches
Copies(e) == [i \in 1..Cardinality({p \in server : Matches(p, e)}) |-> e]

\* The mock bus only prints, and so does a failing publication.
Publish(e) ==
    /\ e \notin history /\ history' = history \cup {e}
    /\ wire' = IF connected THEN wire \o Copies(e) ELSE wire
    /\ UNCHANGED <<connected, subscribers, server, running, listeners, subscribing, calls,
                   stopped, broken, late, raced>>

PublishFails(e) ==
    /\ connected
    /\ e \notin history /\ history' = history \cup {e}
    /\ UNCHANGED <<connected, subscribers, server, wire, running, listeners, subscribing,
                   calls, stopped, broken, late, raced>>

-----------------------------------------------------------------------------
(* subscribe and stop *)

Step(c, place) == subscribing' = [subscribing EXCEPT ![c] = place]

Register(c) ==
    /\ subscribing[c] = "no"
    /\ subscribers' = [subscribers EXCEPT ![PatternOf[c]] = @ \cup {c}]
    /\ late' = (late \/ (Dispatching # {} /\ PatternOf[c] \notin Known))
    /\ Step(c, IF connected THEN "registered" ELSE "done")
    /\ UNCHANGED <<connected, history, server, wire, running, listeners, calls, stopped, broken,
                   raced>>

\* psubscribe
SubscribeAtServer(c) ==
    /\ subscribing[c] = "registered" /\ Step(c, "subscribed")
    /\ server' = server \cup {PatternOf[c]}
    /\ UNCHANGED <<connected, history, subscribers, wire, running, listeners, calls, stopped,
                   broken, late, raced>>

\* The error of Redis is printed: the callback stays registered, whether the
\* server has its pattern by now or not, and nobody looks for a listener.
SubscribeFails(c) ==
    /\ subscribing[c] = "registered" /\ Step(c, "refused")
    /\ server' \in {server, server \cup {PatternOf[c]}}
    /\ UNCHANGED <<connected, history, subscribers, wire, running, listeners, calls, stopped,
                   broken, late, raced>>

\* Mutant: a listener is started for every subscription.
CheckNoFlag(c) ==
    /\ subscribing[c] = "subscribed" /\ Step(c, "starting")
    /\ UNCHANGED <<connected, history, subscribers, server, wire, running, listeners, calls,
                   stopped, broken, late, raced>>

\* start_listener, unless the flag says that there is one ...
CheckFlag(c) ==
    /\ subscribing[c] = "subscribed" /\ Step(c, IF running THEN "done" ELSE "starting")
    /\ raced' = (raced \/ (~running /\ \E d \in Callbacks : subscribing[d] = "starting"))
    /\ UNCHANGED <<connected, history, subscribers, server, wire, running, listeners, calls,
                   stopped, broken, late>>

StartListener(c) ==
    /\ subscribing[c] = "starting" /\ Step(c, "done")
    /\ running' = TRUE
    /\ Len(listeners) < MaxListeners /\ listeners' = Append(listeners, Idle)
    /\ UNCHANGED <<connected, history, subscribers, server, wire, calls, stopped, broken, late,
                   raced>>

\* stop closes the connection of the listener and waits a second for it.
Stop ==
    /\ connected /\ ~stopped /\ stopped' = TRUE
    /\ running' = FALSE
    /\ server' = {} /\ wire' = <<>>
    /\ UNCHANGED <<connected, history, subscribers, listeners, subscribing, calls, broken,
                   late, raced>>

-----------------------------------------------------------------------------
(* _listen_for_messages, a thread per listener *)

\* A listener that is to stop notices it when it is handed a message.
Take(t) ==
    /\ t \in Alive /\ listeners[t].at = "wait" /\ wire # <<>>
    /\ wire' = Tail(wire)
    /\ IF running
       THEN listeners' = [listeners EXCEPT ![t] =
                [at |-> "dispatch", event |-> Head(wire), left |-> Known,
                 size |-> Cardinality(Known)]]
       ELSE At(t, "ending")
    /\ UNCHANGED <<connected, history, subscribers, server, running, subscribing, calls,
                   stopped, broken, late, raced>>

\* The next pattern: its callbacks are called if it matches.  A dictionary
\* that has grown is an exception that ends the thread.
HandOut(t) ==
    /\ t \in Dispatching
    /\ IF Cardinality(Known) # listeners[t].size
       THEN At(t, "ending") /\ UNCHANGED calls
       ELSE IF listeners[t].left = {} THEN At(t, "wait") /\ UNCHANGED calls
       ELSE \E p \in listeners[t].left :
            /\ listeners' = [listeners EXCEPT ![t].left = @ \ {p}]
            /\ calls' = [c \in Callbacks |->
                    IF c \in subscribers[p] /\ Matches(p, listeners[t].event)
                    THEN [calls[c] EXCEPT ![listeners[t].event] = @ + 1] ELSE calls[c]]
    /\ UNCHANGED <<connected, history, subscribers, server, wire, running, subscribing,
                   stopped, broken, late, raced>>

\* The connection of the listener breaks, or is closed under it
Break(t) ==
    /\ t \in Alive /\ listeners[t].at = "wait" /\ At(t, "ending")
    /\ IF stopped THEN UNCHANGED broken ELSE ~broken /\ broken' = TRUE
    /\ UNCHANGED <<connected, history, subscribers, server, wire, running, subscribing,
                   calls, stopped, late, raced>>

\* finally: self.running = False, whoever set it to True
End(t) ==
    /\ t \in Alive /\ listeners[t].at = "ending" /\ At(t, "ended")
    /\ running' = FALSE
    /\ UNCHANGED <<connected, history, subscribers, server, wire, subscribing, calls,
                   stopped, broken, late, raced>>

-----------------------------------------------------------------------------
BusInit ==
    /\ connected \in BOOLEAN   \* _connect, or _setup_mock_mode after five attempts
    /\ history = {} /\ server = {} /\ wire = <<>> /\ running = FALSE /\ listeners = <<>>
    /\ subscribers = [p \in Patterns |-> {}]
    /\ subscribing = [c \in Callbacks |-> "no"]
    /\ calls = [c \in Callbacks |-> [e \in Events |-> 0]]
    /\ stopped = FALSE /\ broken = FALSE /\ late = FALSE /\ raced = FALSE

BusNext ==
    \/ \E e \in Events : Publish(e) \/ PublishFails(e)
    \/ \E c \in Callbacks :
        \/ Register(c) \/ SubscribeAtServer(c) \/ SubscribeFails(c)
        \/ CheckFlag(c) \/ StartListener(c)
    \/ \E t \in 1..MaxListeners : Take(t) \/ HandOut(t) \/ Break(t) \/ End(t)
    \/ Stop

BusSpec == BusInit /\ [][BusNext]_busVars

-----------------------------------------------------------------------------
\* A connected bus that accepted a subscription has a listener, and one only,
\* unless it was stopped, the connection of the listener broke, two
\* subscriptions started one, or a pattern was subscribed while a message was
\* handed out, which ends the listener in silence; and a callback, whether the
\* server took its own subscription or not, gets a message once, unless another
\* pattern of the process matches it too
\* (RedisEventBus._listen_for_messages, subscribe).
OnlyCausesSilenceTheBus ==
    /\ connected /\ (\E c \in Callbacks : subscribing[c] = "done") /\ ~(stopped \/ broken \/ late \/ raced)
        => Cardinality(Alive) = 1
    /\ \A c \in Callbacks, e \in Events :
        calls[c][e] > 1 => \E p \in Known \ {PatternOf[c]} : Matches(p, e)
=============================================================================
