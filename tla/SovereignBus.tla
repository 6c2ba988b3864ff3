----------------------------- MODULE SovereignBus -----------------------------
(***************************************************************************)
(* The sovereign bus of one process (core/sovereign_bus.py) and the event  *)
(* bus under it (core/event_bus.py).  A subscriber is known to both: it is *)
(* called by the publisher and by a listener thread of the event bus.      *)
(* Without Redis the event bus keeps the messages and a thread hands those *)
(* kept before to a new subscriber: it goes through a copy of the list and *)
(* removes at the places of the copy.                                      *)
(***************************************************************************)
EXTENDS Naturals, Sequences, FiniteSets

CONSTANTS
    Messages,    \* each published once
    Subscribers, \* callbacks, each subscribed once
    ChannelOf    \* event type of a message, or of a subscriber

VARIABLES
    redis,       \* EventBus.use_redis
    logged,      \* SovereignBus.message_log
    kept,        \* EventBus._messages
    publishing,  \* messages: "no", "sent", "done", "failed"
    subscribed,  \* subscribers: "no", "local", "starting" (a thread was), "both"
    told,        \* messages: the subscribers the publisher has yet to call
    sent,        \* subscribers: messages Redis has for their listener thread
    replay,      \* subscribers: [copy, at, heard] of their replay thread
    delivered,   \* subscribers: times they got each message
    early,       \* pairs of a message and a subscriber: its publication met the
                 \* subscription, or the thread of it before its first step
    removed      \* messages removed from kept

busVars == <<logged, publishing, told, early>>
eventVars == <<redis, kept, subscribed, sent, replay, removed>>
sovereignVars == <<busVars, eventVars, delivered>>

Same(m, s) == ChannelOf[m] = ChannelOf[s]
NoReplay == [copy |-> <<>>, at |-> 1, heard |-> FALSE]
Deliver(s, m) == delivered' = [delivered EXCEPT ![s][m] = @ + 1]
Publishing(m, stage) == publishing' = [publishing EXCEPT ![m] = stage]

-----------------------------------------------------------------------------
(* publish: the log, the event bus, the subscribers *)

\* publish saves the message and gives it to EventBus.publish
Send(m) ==
    /\ publishing[m] = "no" /\ Publishing(m, "sent")
    /\ logged' = logged \cup {m}
    /\ IF redis
       THEN /\ sent' = [s \in Subscribers |->
                    IF subscribed[s] = "both" /\ Same(m, s) THEN sent[s] \cup {m} ELSE sent[s]]
            /\ UNCHANGED kept
       ELSE kept' = Append(kept, m) /\ UNCHANGED sent
    /\ told' = [told EXCEPT ![m] =
                    {s \in Subscribers : subscribed[s] # "no" /\ Same(m, s)}]
    /\ early' = early \cup {<<m, s>> :
                    s \in {r \in Subscribers : subscribed[r] \in {"local", "starting"}}}
    /\ UNCHANGED <<redis, subscribed, replay, removed, delivered>>

\* Redis refuses: the error leaves publish before any subscriber is called.
SendFails(m) ==
    /\ redis /\ publishing[m] = "no" /\ Publishing(m, "failed")
    /\ logged' = logged \cup {m}
    /\ UNCHANGED <<told, early, eventVars, delivered>>

\* for callback in self.listeners[...]: one that subscribes now is called too
Tell(m, s) ==
    /\ publishing[m] = "sent" /\ s \in told[m]
    /\ told' = [told EXCEPT ![m] = @ \ {s}]
    /\ Deliver(s, m)
    /\ UNCHANGED <<logged, publishing, early, eventVars>>

EndPublish(m) ==
    /\ publishing[m] = "sent" /\ told[m] = {} /\ Publishing(m, "done")
    /\ UNCHANGED <<logged, told, early, eventVars, delivered>>

-----------------------------------------------------------------------------
(* subscribe *)

InPublication(s) == {m \in Messages : Same(m, s) /\ publishing[m] = "sent"}

Subscribe(s) ==
    /\ subscribed[s] = "no" /\ subscribed' = [subscribed EXCEPT ![s] = "local"]
    /\ told' = [m \in Messages |->
                    IF m \in InPublication(s) THEN told[m] \cup {s} ELSE told[m]]
    /\ early' = early \cup (InPublication(s) \X {s})
    /\ UNCHANGED <<logged, publishing, redis, kept, sent, replay, removed, delivered>>

\* EventBus.subscribe starts a thread, and both calls of subscribe return.
SubscribeBelow(s) ==
    /\ subscribed[s] = "local" /\ subscribed' = [subscribed EXCEPT ![s] = "starting"]
    /\ UNCHANGED <<busVars, redis, kept, sent, replay, removed, delivered>>

\* The thread begins: it subscribes at Redis, or copies what is kept by now.
BeginThread(s) ==
    /\ subscribed[s] = "starting" /\ subscribed' = [subscribed EXCEPT ![s] = "both"]
    /\ replay' = IF redis THEN replay
                 ELSE [replay EXCEPT ![s].copy = kept]
    /\ UNCHANGED <<busVars, redis, kept, sent, removed, delivered>>

Hear(s, m) ==
    /\ m \in sent[s] /\ sent' = [sent EXCEPT ![s] = @ \ {m}]
    /\ Deliver(s, m)
    /\ UNCHANGED <<busVars, redis, kept, subscribed, replay, removed>>

Replaying(s) == replay[s].at <= Len(replay[s].copy)
Onward(s) == [replay EXCEPT ![s].at = @ + 1, ![s].heard = FALSE]

\* process_messages: a message of another channel is passed over ...
PassOver(s) ==
    /\ Replaying(s) /\ ~Same(replay[s].copy[replay[s].at], s)
    /\ replay' = Onward(s)
    /\ UNCHANGED <<busVars, redis, kept, subscribed, sent, removed, delivered>>

\* ... one of this channel is handed over ...
HandOver(s) ==
    /\ Replaying(s) /\ ~replay[s].heard /\ Same(replay[s].copy[replay[s].at], s)
    /\ replay' = [replay EXCEPT ![s].heard = TRUE]
    /\ Deliver(s, replay[s].copy[replay[s].at])
    /\ UNCHANGED <<busVars, redis, kept, subscribed, sent, removed>>

\* ... and what is at its place by now is removed, if anything is.
Remove(s) ==
    LET i == replay[s].at IN
    /\ Replaying(s) /\ replay[s].heard /\ replay' = Onward(s)
    /\ IF i <= Len(kept)
       THEN /\ removed' = removed \cup {kept[i]}
            /\ kept' = SubSeq(kept, 1, i - 1) \o SubSeq(kept, i + 1, Len(kept))
       ELSE UNCHANGED <<kept, removed>>
    /\ UNCHANGED <<busVars, redis, subscribed, sent, delivered>>

-----------------------------------------------------------------------------
SovereignInit ==
    /\ redis \in BOOLEAN   \* _lazy_connect
    /\ logged = {} /\ kept = <<>> /\ early = {} /\ removed = {}
    /\ publishing = [m \in Messages |-> "no"] /\ told = [m \in Messages |-> {}]
    /\ subscribed = [s \in Subscribers |-> "no"] /\ sent = [s \in Subscribers |-> {}]
    /\ replay = [s \in Subscribers |-> NoReplay]
    /\ delivered = [s \in Subscribers |-> [m \in Messages |-> 0]]

SovereignNext ==
    \/ \E m \in Messages : Send(m) \/ SendFails(m) \/ EndPublish(m)
    \/ \E m \in Messages, s \in Subscribers : Tell(m, s) \/ Hear(s, m)
    \/ \E s \in Subscribers :
        \/ Subscribe(s) \/ SubscribeBelow(s) \/ BeginThread(s)
        \/ PassOver(s) \/ HandOver(s) \/ Remove(s)

SovereignSpec == SovereignInit /\ [][SovereignNext]_sovereignVars

-----------------------------------------------------------------------------
\* A kept message leaves the list without having been handed to anybody only
\* when another one left it before, which moves the places; and a subscriber
\* gets a message twice, never three times, and only over Redis or when the
\* message was being published as it subscribed, or was published before its
\* thread had taken the first step (EventBus.subscribe and process_messages,
\* SovereignBus.publish and subscribe).
OnlyCausesLoseOrRepeat ==
    /\ \A m \in removed :
        (\E s \in Subscribers : delivered[s][m] > 0) \/ Cardinality(removed) > 1
    /\ \A s \in Subscribers, m \in Messages :
        /\ delivered[s][m] <= 2
        /\ delivered[s][m] = 2 => redis \/ <<m, s>> \in early
=============================================================================
