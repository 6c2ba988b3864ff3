--------------------------- MODULE ServiceRequests ---------------------------
(***************************************************************************)
(* Signed requests between services (core_hooks/service_auth.py and        *)
(* executer/guard.py): a request carries a nonce, a timestamp and a        *)
(* signature.  Its nonce is looked up and stored first                     *)
(* (security/nonce_store.py), then its time and signature are verified     *)
(* (security/signing.py).                                                  *)
(*                                                                         *)
(* Every process has a store of its own in memory, loaded from the file    *)
(* when it is first used and saved to it whole.  The service is started    *)
(* with several workers.  A check with its save is one step here; how the  *)
(* saves of two threads meet in the temporary file is in TraceRegistry,    *)
(* whose store is the same code with another life time.                    *)
(***************************************************************************)
EXTENDS Integers, FiniteSets

CONSTANTS
    Workers,     \* processes that serve requests
    Nonces,
    Ttl,         \* how long a store keeps a nonce
    Age,         \* MAX_SERVICE_REQUEST_AGE_SECONDS, either way
    Drift,       \* how far the clock of a client is ahead or behind
    MaxTime,     \* bound: the clock
    MaxTroubles  \* bound: failing saves and restarts

VARIABLES
    time,     \* the clock of the servers
    store,    \* [worker]: when each nonce was stored, or Unread
    saved,    \* nonce_store.json
    requests, \* requests that were signed; the network may deliver one again
    \* history
    accepted, \* [request]: how often it was accepted
    stale,    \* a nonce was checked by a worker that lacked one of the file
    shaken    \* failing saves and restarts

vars == <<time, store, saved, requests, accepted, stale, shaken>>

Never == -1    \* a nonce that is not in a store
Empty == [n \in Nonces |-> Never]
Unread == [n \in Nonces |-> -2]
Requests == [nonce : Nonces, at : -Drift..MaxTime + Drift, genuine : BOOLEAN]

Known(copy) == {n \in Nonces : copy[n] # Never}

\* Mutant: a nonce is dropped when it has just reached its life time.
CleanupEarly(copy) == [n \in Nonces |-> IF time - copy[n] >= Ttl THEN Never ELSE copy[n]]

\* _cleanup_expired
Cleanup(copy) == [n \in Nonces |-> IF copy[n] # Never /\ time - copy[n] > Ttl THEN Never
                                   ELSE copy[n]]

\* get_nonce_store, _load_store
Loaded(w) == IF store[w] = Unread THEN Cleanup(saved) ELSE store[w]

\* sign_service_request, by a client with the key of the servers or another.
\* A nonce is a fresh identifier: it is signed once.
Sign(r) ==
    /\ \A q \in requests : q.nonce # r.nonce
    /\ r.at \in time - Drift..time + Drift
    /\ requests' = requests \cup {r}
    /\ UNCHANGED <<time, store, saved, accepted, stale, shaken>>

\* verify_service_request
Verifies(r) == r.genuine /\ r.at \in time - Age..time + Age

\* What a check of the nonce of r by w says of the copies of the others
FileLeads(w) == ~(Known(Cleanup(saved)) \subseteq Known(Cleanup(Loaded(w))))

\* The nonce is known: "Replay attack detected".
Refuse(w, r) ==
    /\ r \in requests
    /\ r.nonce \in Known(Cleanup(Loaded(w)))
    /\ store' = [store EXCEPT ![w] = Cleanup(Loaded(w))]
    /\ stale' = (stale \/ FileLeads(w))
    /\ UNCHANGED <<time, saved, requests, accepted, shaken>>

\* verify_service_auth: the nonce is stored and saved, then r is verified.
Serve(w, r) ==
    LET copy == [Cleanup(Loaded(w)) EXCEPT ![r.nonce] = time]
    IN  /\ r \in requests
        /\ r.nonce \notin Known(Cleanup(Loaded(w)))
        /\ store' = [store EXCEPT ![w] = copy]
        /\ saved' = copy
        /\ stale' = (stale \/ FileLeads(w))
        /\ accepted' = [accepted EXCEPT ![r] = IF Verifies(r) THEN @ + 1 ELSE @]
        /\ UNCHANGED <<time, requests, shaken>>

\* The save raises: the copy of before is put back and the request fails.
ServeSaveFails(w, r) ==
    /\ r \in requests
    /\ shaken < MaxTroubles /\ shaken' = shaken + 1
    /\ r.nonce \notin Known(Cleanup(Loaded(w)))
    /\ store' = [store EXCEPT ![w] = Loaded(w)]
    /\ stale' = (stale \/ FileLeads(w))
    /\ UNCHANGED <<time, saved, requests, accepted>>

Restart(w) ==
    /\ shaken < MaxTroubles /\ shaken' = shaken + 1
    /\ store' = [store EXCEPT ![w] = Unread]
    /\ UNCHANGED <<time, saved, requests, accepted, stale>>

Pass ==
    /\ time < MaxTime /\ time' = time + 1
    /\ UNCHANGED <<store, saved, requests, accepted, stale, shaken>>

Init ==
    /\ time = 0
    /\ store = [w \in Workers |-> Unread] /\ saved = Empty
    /\ requests = {} /\ accepted = [r \in Requests |-> 0]
    /\ stale = FALSE /\ shaken = 0

Next ==
    \/ Pass
    \/ \E r \in Requests : Sign(r)
    \/ \E w \in Workers : Restart(w)
    \/ \E w \in Workers, r \in Requests : Refuse(w, r) \/ Serve(w, r) \/ ServeSaveFails(w, r)

Spec == Init /\ [][Next]_vars

----------------------------------------------------------------------------
(* Properties *)

\* A request that is delivered again is not accepted again: not after its nonce
\* has expired in the store, when it is too old itself, and not after a
\* restart; only a worker whose copy lacks nonces of the file accepts it twice.
OnlyStaleCopiesAcceptTwice ==
    stale \/ \A r \in requests : accepted[r] <= 1

=============================================================================
