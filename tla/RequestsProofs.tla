---------------------------- MODULE RequestsProofs ----------------------------
(***************************************************************************)
(* Proofs about the parts that MCRequests puts beside the registry of      *)
(* single-use traces, for any sets of workers, nonces, bundles, events,    *)
(* regions, calls and links and any bounds.  Each part has an inductive    *)
(* invariant of its own; the parts share no state, so the theorems about   *)
(* RequestsSpec follow from those invariants one by one.                   *)
(***************************************************************************)
EXTENDS MCRequests, Integers, Sequences, FiniteSetTheorems, SequenceTheorems, TLAPS

----------------------------------------------------------------------------
(* Nonces of signed requests: no nonce is forgotten while its request is    *)
(* young enough to be accepted.                                             *)

NonceStores == [Traces -> Int]

\* A nonce that a check finds in a copy
Held(copy, n) == copy[n] # -1 /\ serviceTime - copy[n] <= Ttl

\* A request whose time a server accepts, late or early
YoungEnough(r) == serviceTime <= r.at + Age

ServiceTypeOK ==
    /\ serviceTime \in Nat
    /\ savedNonces \in NonceStores
    /\ nonceStore \in [Threads -> NonceStores]
    /\ signedRequests \in SUBSET Service!Requests
    /\ acceptedRequests \in [Service!Requests -> Nat]
    /\ stale \in BOOLEAN

\* What a copy still holds, the file holds from the same time.
CopiesFollowFile ==
    \A w \in Threads, n \in Traces :
        nonceStore[w] # Service!Unread /\ Held(nonceStore[w], n) =>
            savedNonces[n] = nonceStore[w][n]

\* A request that was accepted and may be once more is in the file, from a time
\* when it was accepted.
AcceptedIsFiled ==
    \A r \in signedRequests :
        /\ acceptedRequests[r] <= 1
        /\ acceptedRequests[r] = 1 /\ YoungEnough(r) =>
              savedNonces[r.nonce] # -1 /\ savedNonces[r.nonce] >= r.at - Age

SignedOnce == \A q, r \in signedRequests : q.nonce = r.nonce => q = r
UnsignedUnaccepted == \A r \in Service!Requests \ signedRequests : acceptedRequests[r] = 0

ServiceInv ==
    /\ ServiceTypeOK /\ SignedOnce /\ UnsignedUnaccepted
    /\ ~stale => CopiesFollowFile /\ AcceptedIsFiled

LEMMA RequestFields ==
    \A r \in Service!Requests : r.nonce \in Traces /\ r.at \in Int /\ r.genuine \in BOOLEAN
<1>1. /\ Drift \in Nat /\ MaxTime \in Nat
  BY NoncesAssumption
<1>. QED  BY <1>1 DEF Service!Requests

LEMMA CleanupTyped ==
    ASSUME NEW copy \in NonceStores, serviceTime \in Nat
    PROVE  /\ Service!Cleanup(copy) \in NonceStores
           /\ \A n \in Traces :
                 Service!Cleanup(copy)[n] = IF Held(copy, n) THEN copy[n] ELSE -1
<1>1. Ttl \in Nat
  BY NoncesAssumption
<1>. QED  BY <1>1 DEF Service!Cleanup, NonceStores, Held, Service!Never

LEMMA LoadedTyped ==
    ASSUME ServiceTypeOK, NEW w \in Threads
    PROVE  /\ Service!Loaded(w) \in NonceStores
           /\ nonceStore[w] # Service!Unread => Service!Loaded(w) = nonceStore[w]
           /\ nonceStore[w] = Service!Unread =>
                 Service!Loaded(w) = Service!Cleanup(savedNonces)
BY CleanupTyped DEF Service!Loaded, ServiceTypeOK

\* What a thread goes on with is what the file holds, if the copies do.
LEMMA LoadedFollowsFile ==
    ASSUME ServiceTypeOK, CopiesFollowFile, NEW w \in Threads, NEW n \in Traces,
           Held(Service!Cleanup(Service!Loaded(w)), n)
    PROVE  /\ savedNonces[n] = Service!Cleanup(Service!Loaded(w))[n]
           /\ Service!Loaded(w)[n] = Service!Cleanup(Service!Loaded(w))[n]
<1>1. /\ savedNonces \in NonceStores /\ nonceStore[w] \in NonceStores /\ serviceTime \in Nat
      /\ Service!Loaded(w) \in NonceStores
  BY LoadedTyped DEF ServiceTypeOK
<1>2. Service!Cleanup(Service!Loaded(w))[n]
          = IF Held(Service!Loaded(w), n) THEN Service!Loaded(w)[n] ELSE -1
  BY <1>1, CleanupTyped
<1>3. Held(Service!Loaded(w), n)
  BY <1>2 DEF Held
<1>4. CASE nonceStore[w] = Service!Unread
  <2>1. Service!Loaded(w)[n] = IF Held(savedNonces, n) THEN savedNonces[n] ELSE -1
    BY <1>1, <1>4, LoadedTyped, CleanupTyped
  <2>2. Service!Loaded(w)[n] # -1
    BY <1>3 DEF Held
  <2>. QED  BY <1>2, <1>3, <2>1, <2>2
<1>5. CASE nonceStore[w] # Service!Unread
  BY <1>2, <1>3, <1>5, LoadedTyped DEF CopiesFollowFile
<1>. QED  BY <1>4, <1>5

\* What the file holds, the thread that checks has, or it is stale.
LEMMA FileIsLoaded ==
    ASSUME ServiceTypeOK, NEW w \in Threads, NEW n \in Traces,
           ~Service!FileLeads(w), Held(savedNonces, n)
    PROVE  Held(Service!Loaded(w), n)
<1>1. /\ savedNonces \in NonceStores /\ serviceTime \in Nat
      /\ Service!Loaded(w) \in NonceStores
  BY LoadedTyped DEF ServiceTypeOK
<1>2. Service!Cleanup(savedNonces)[n] # -1
  BY <1>1, CleanupTyped DEF Held
<1>3. Service!Cleanup(Service!Loaded(w))[n] # -1
  BY <1>2 DEF Service!FileLeads, Service!Known, Service!Never
<1>. QED  BY <1>1, <1>3, CleanupTyped

\* A copy that was cleaned or loaded follows the file as well.
LEMMA CleanedFollows ==
    ASSUME ServiceTypeOK, CopiesFollowFile, NEW w \in Threads,
           NEW copy \in {Service!Loaded(w), Service!Cleanup(Service!Loaded(w))},
           UNCHANGED <<serviceTime, savedNonces>>,
           nonceStore' = [nonceStore EXCEPT ![w] = copy]
    PROVE  CopiesFollowFile'
<1>1. /\ nonceStore \in [Threads -> NonceStores] /\ serviceTime \in Nat
      /\ Service!Loaded(w) \in NonceStores /\ copy \in NonceStores
  BY LoadedTyped, CleanupTyped DEF ServiceTypeOK
<1>2. ASSUME NEW n \in Traces, Held(copy, n) PROVE savedNonces[n] = copy[n]
  <2>1. Held(Service!Loaded(w), n) /\ copy[n] = Service!Loaded(w)[n]
    BY <1>1, <1>2, CleanupTyped DEF Held
  <2>2. Service!Cleanup(Service!Loaded(w))[n] = Service!Loaded(w)[n]
    BY <1>1, <2>1, CleanupTyped
  <2>3. Held(Service!Cleanup(Service!Loaded(w)), n)
    BY <2>1, <2>2 DEF Held
  <2>. QED  BY <2>1, <2>2, <2>3, LoadedFollowsFile
<1>3. ASSUME NEW v \in Threads, NEW n \in Traces, nonceStore'[v] # Service!Unread,
             Held(nonceStore'[v], n)
      PROVE  savedNonces[n] = nonceStore'[v][n]
  <2>1. CASE v = w
    BY <1>1, <1>2, <1>3, <2>1
  <2>2. CASE v # w
    BY <1>1, <1>3, <2>2 DEF CopiesFollowFile
  <2>. QED  BY <2>1, <2>2
<1>. QED  BY <1>3 DEF CopiesFollowFile, Held, Service!Unread

LEMMA Stamped ==
    ASSUME NEW copy \in NonceStores, NEW n, NEW t \in Int
    PROVE  [copy EXCEPT ![n] = t] \in NonceStores
<1>1. copy \in [Traces -> Int]
  BY DEF NonceStores
<1>2. [copy EXCEPT ![n] = t] \in [Traces -> Int]
  BY <1>1
<1>. QED  BY <1>2 DEF NonceStores

LEMMA ServiceInvInit == Service!Init => ServiceInv
<1>. SUFFICES ASSUME Service!Init PROVE ServiceInv
  OBVIOUS
<1>1. Service!Empty \in NonceStores /\ Service!Unread \in NonceStores
  BY DEF Service!Empty, Service!Unread, Service!Never, NonceStores
<1>2. ServiceTypeOK
  BY <1>1 DEF Service!Init, ServiceTypeOK
<1>. QED
  BY <1>2 DEF Service!Init, ServiceInv, SignedOnce, UnsignedUnaccepted, CopiesFollowFile,
              AcceptedIsFiled, Service!Unread

LEMMA ServiceTypeStep == ServiceTypeOK /\ [Service!Next]_serviceVars => ServiceTypeOK'
<1>. SUFFICES ASSUME ServiceTypeOK, [Service!Next]_serviceVars PROVE ServiceTypeOK'
  OBVIOUS
<1>1. CASE Service!Pass
  BY <1>1 DEF Service!Pass, ServiceTypeOK
<1>2. ASSUME NEW r \in Service!Requests, Service!Sign(r) PROVE ServiceTypeOK'
  BY <1>2 DEF Service!Sign, ServiceTypeOK
<1>3. ASSUME NEW w \in Threads, Service!Restart(w) PROVE ServiceTypeOK'
  <2>1. Service!Unread \in NonceStores
    BY DEF Service!Unread, NonceStores
  <2>. QED  BY <1>3, <2>1 DEF Service!Restart, ServiceTypeOK
<1>4. ASSUME NEW w \in Threads, NEW r \in Service!Requests,
             Service!Refuse(w, r) \/ Service!Serve(w, r) \/ Service!ServeSaveFails(w, r)
      PROVE  ServiceTypeOK'
  <2>1. /\ Service!Loaded(w) \in NonceStores
        /\ Service!Cleanup(Service!Loaded(w)) \in NonceStores
    BY LoadedTyped, CleanupTyped DEF ServiceTypeOK
  <2>6. serviceTime \in Int
    BY DEF ServiceTypeOK
  <2>2. CASE Service!Refuse(w, r)
    BY <2>1, <2>2 DEF Service!Refuse, ServiceTypeOK, Service!FileLeads
  <2>3. CASE Service!Serve(w, r)
    <3>. DEFINE copy == [Service!Cleanup(Service!Loaded(w)) EXCEPT ![r.nonce] = serviceTime]
    <3>1. copy \in NonceStores
      BY <2>1, <2>6, Stamped
    <3>. HIDE DEF copy
    <3>2. /\ nonceStore' = [nonceStore EXCEPT ![w] = copy] /\ savedNonces' = copy
          /\ stale' = (stale \/ Service!FileLeads(w))
          /\ acceptedRequests' = [acceptedRequests EXCEPT ![r] =
                                     IF Service!Verifies(r) THEN @ + 1 ELSE @]
          /\ UNCHANGED <<serviceTime, signedRequests>>
      BY <2>3 DEF Service!Serve, copy
    <3>3. acceptedRequests' \in [Service!Requests -> Nat]
      BY <3>2 DEF ServiceTypeOK
    <3>. QED  BY <3>1, <3>2, <3>3 DEF ServiceTypeOK, Service!FileLeads
  <2>4. CASE Service!ServeSaveFails(w, r)
    BY <2>1, <2>4 DEF Service!ServeSaveFails, ServiceTypeOK, Service!FileLeads
  <2>. QED  BY <1>4, <2>2, <2>3, <2>4
<1>5. CASE UNCHANGED serviceVars
  BY <1>5 DEF serviceVars, ServiceTypeOK
<1>. QED
  BY <1>1, <1>2, <1>3, <1>4, <1>5 DEF Service!Next, serviceVars, Service!vars

\* A nonce that is served again was not held by the file any more.
LEMMA ServeKeeps ==
    ASSUME ServiceInv, NEW w \in Threads, NEW r \in Service!Requests, Service!Serve(w, r),
           ~stale'
    PROVE  CopiesFollowFile' /\ AcceptedIsFiled'
<1>. DEFINE loaded == Service!Loaded(w)
            clean == Service!Cleanup(loaded)
            copy == [clean EXCEPT ![r.nonce] = serviceTime]
<1>1. /\ ServiceTypeOK /\ ~stale /\ ~Service!FileLeads(w)
      /\ CopiesFollowFile /\ AcceptedIsFiled /\ SignedOnce
  BY DEF ServiceInv, ServiceTypeOK, Service!Serve
<1>2. /\ loaded \in NonceStores /\ clean \in NonceStores /\ copy \in NonceStores
      /\ \A n \in Traces : clean[n] = IF Held(loaded, n) THEN loaded[n] ELSE -1
      /\ r.nonce \in Traces /\ r.at \in Int
      /\ Ttl \in Nat /\ Age \in Nat /\ Ttl >= 2 * Age /\ serviceTime \in Nat
  <2>1. loaded \in NonceStores
    BY <1>1, LoadedTyped
  <2>2. clean \in NonceStores /\ \A n \in Traces : clean[n] = IF Held(loaded, n) THEN loaded[n] ELSE -1
    BY <1>1, <2>1, CleanupTyped DEF ServiceTypeOK
  <2>3. serviceTime \in Nat
    BY <1>1 DEF ServiceTypeOK
  <2>5. serviceTime \in Int
    BY <2>3
  <2>4. copy \in NonceStores
    BY <2>2, <2>5, Stamped
  <2>. QED  BY <2>1, <2>2, <2>3, <2>4, RequestFields, NoncesAssumption
<1>. HIDE DEF loaded, clean
<1>3. /\ r \in signedRequests
      /\ clean[r.nonce] = -1
      /\ nonceStore' = [nonceStore EXCEPT ![w] = copy] /\ savedNonces' = copy
      /\ acceptedRequests' = [acceptedRequests EXCEPT ![r] =
                                 IF Service!Verifies(r) THEN @ + 1 ELSE @]
      /\ UNCHANGED <<serviceTime, signedRequests>>
  BY <1>2 DEF Service!Serve, Service!Known, Service!Never, clean, loaded
<1>4. \A n \in Traces : copy[n] = IF n = r.nonce THEN serviceTime ELSE clean[n]
  BY <1>2 DEF NonceStores
\* What the file held it still holds, and the nonce of r it did not hold.
<1>5. ASSUME NEW n \in Traces, Held(savedNonces, n)
      PROVE  n # r.nonce /\ copy[n] = savedNonces[n]
  <2>1. Held(loaded, n)
    BY <1>1, <1>5, FileIsLoaded DEF loaded
  <2>2. clean[n] = loaded[n] /\ clean[n] # -1
    BY <1>2, <2>1 DEF Held
  <2>3. n # r.nonce
    BY <1>3, <2>2
  <2>4. Held(clean, n)
    BY <2>1, <2>2 DEF Held
  <2>5. savedNonces[n] = clean[n]
    BY <1>1, <2>4, LoadedFollowsFile DEF clean, loaded
  <2>. QED  BY <1>4, <2>3, <2>5
<1>6. CopiesFollowFile'
  <2>1. ASSUME NEW v \in Threads, NEW n \in Traces, nonceStore'[v] # Service!Unread,
               Held(nonceStore'[v], n)
        PROVE  copy[n] = nonceStore'[v][n]
    <3>1. CASE v = w
      BY <1>1, <1>3, <3>1 DEF ServiceTypeOK
    <3>2. CASE v # w
      <4>1. nonceStore'[v] = nonceStore[v]
        BY <1>1, <1>3, <3>2 DEF ServiceTypeOK
      <4>2. savedNonces[n] = nonceStore[v][n]
        BY <1>1, <2>1, <4>1 DEF CopiesFollowFile
      <4>3. Held(savedNonces, n)
        BY <2>1, <4>1, <4>2 DEF Held
      <4>. QED  BY <1>5, <4>1, <4>2, <4>3
    <3>. QED  BY <3>1, <3>2
  <2>. QED  BY <1>3, <2>1 DEF CopiesFollowFile, Held, Service!Unread
<1>7. AcceptedIsFiled'
  <2>1. ASSUME NEW q \in signedRequests, acceptedRequests[q] = 1, YoungEnough(q)
        PROVE  Held(savedNonces, q.nonce) /\ savedNonces[q.nonce] >= q.at - Age
    <3>1. /\ savedNonces[q.nonce] # -1 /\ savedNonces[q.nonce] >= q.at - Age
          /\ serviceTime <= q.at + Age
      BY <1>1, <2>1 DEF AcceptedIsFiled, YoungEnough
    <3>2. q \in Service!Requests
      BY <1>1 DEF ServiceTypeOK
    <3>3. q.at \in Int /\ q.nonce \in Traces
      BY <3>2, RequestFields
    <3>4. savedNonces[q.nonce] \in Int
      BY <1>1, <3>3 DEF ServiceTypeOK, NonceStores
    <3>5. serviceTime - savedNonces[q.nonce] <= Ttl
      BY <1>2, <3>1, <3>3, <3>4
    <3>. QED  BY <3>1, <3>5 DEF Held
  <2>2. Service!Verifies(r) => serviceTime <= r.at + Age /\ serviceTime >= r.at - Age
    BY <1>2 DEF Service!Verifies
  <2>3. Service!Verifies(r) => acceptedRequests[r] = 0
    <3>1. acceptedRequests[r] \in Nat /\ acceptedRequests[r] <= 1
      BY <1>1, <1>3 DEF AcceptedIsFiled, ServiceTypeOK
    <3>2. Service!Verifies(r) => acceptedRequests[r] # 1
      BY <1>2, <1>3, <1>5, <2>1, <2>2 DEF YoungEnough
    <3>. QED  BY <3>1, <3>2
  <2>4. ASSUME NEW q \in signedRequests
        PROVE  /\ acceptedRequests'[q] <= 1
               /\ acceptedRequests'[q] = 1 /\ YoungEnough(q) =>
                     copy[q.nonce] # -1 /\ copy[q.nonce] >= q.at - Age
    <3>1. q \in Service!Requests /\ q.nonce \in Traces
      BY <1>1, RequestFields DEF ServiceTypeOK
    <3>2. CASE q # r
      <4>1. acceptedRequests'[q] = acceptedRequests[q]
        BY <1>1, <1>3, <3>1, <3>2 DEF ServiceTypeOK
      <4>2. acceptedRequests[q] <= 1
        BY <1>1 DEF AcceptedIsFiled
      <4>3. ASSUME acceptedRequests[q] = 1, YoungEnough(q)
            PROVE  copy[q.nonce] # -1 /\ copy[q.nonce] >= q.at - Age
        <5>1. Held(savedNonces, q.nonce) /\ savedNonces[q.nonce] >= q.at - Age
          BY <2>1, <4>3
        <5>2. copy[q.nonce] = savedNonces[q.nonce]
          BY <1>5, <3>1, <5>1
        <5>. QED  BY <5>1, <5>2 DEF Held
      <4>. QED  BY <4>1, <4>2, <4>3
    <3>3. CASE q = r
      <4>1. acceptedRequests'[r] = IF Service!Verifies(r) THEN acceptedRequests[r] + 1
                                   ELSE acceptedRequests[r]
        BY <1>1, <1>3 DEF ServiceTypeOK
      <4>2. copy[r.nonce] = serviceTime
        BY <1>2, <1>4
      <4>3. CASE Service!Verifies(r)
        BY <1>2, <2>2, <2>3, <3>3, <4>1, <4>2, <4>3
      <4>4. CASE ~Service!Verifies(r)
        <5>1. acceptedRequests[r] <= 1
          BY <1>1, <1>3 DEF AcceptedIsFiled
        <5>2. ~(acceptedRequests[r] = 1 /\ YoungEnough(r))
          BY <1>2, <1>3, <1>5, <2>1
        <5>. QED  BY <3>3, <4>1, <4>4, <5>1, <5>2
      <4>. QED  BY <4>3, <4>4
    <3>. QED  BY <3>2, <3>3
  <2>. QED  BY <1>3, <2>4 DEF AcceptedIsFiled, YoungEnough
<1>. QED  BY <1>6, <1>7

LEMMA ServiceInvStep == ServiceInv /\ [Service!Next]_serviceVars => ServiceInv'
<1>. SUFFICES ASSUME ServiceInv, [Service!Next]_serviceVars PROVE ServiceInv'
  OBVIOUS
<1>1. ServiceTypeOK /\ ServiceTypeOK'
  BY ServiceTypeStep DEF ServiceInv
<1>2. CASE Service!Pass
  <2>1. /\ serviceTime' = serviceTime + 1
        /\ UNCHANGED <<nonceStore, savedNonces, signedRequests, acceptedRequests, stale>>
    BY <1>2 DEF Service!Pass
  <2>2. SignedOnce' /\ UnsignedUnaccepted'
    BY <2>1 DEF ServiceInv, SignedOnce, UnsignedUnaccepted, Service!Requests
  <2>3. ASSUME ~stale PROVE CopiesFollowFile' /\ AcceptedIsFiled'
    <3>1. CopiesFollowFile /\ AcceptedIsFiled
      BY <2>3 DEF ServiceInv
    <3>2. \A w \in Threads, n \in Traces : Held(nonceStore[w], n)' => Held(nonceStore[w], n)
      BY <1>1, <2>1, NoncesAssumption DEF Held, ServiceTypeOK, NonceStores
    <3>3. \A r \in signedRequests : YoungEnough(r)' => YoungEnough(r)
      <4>1. \A r \in signedRequests : r.at \in Int
        BY <1>1, RequestFields DEF ServiceTypeOK
      <4>. QED  BY <1>1, <2>1, <4>1, NoncesAssumption DEF YoungEnough, ServiceTypeOK
    <3>4. CopiesFollowFile'
      BY <2>1, <3>1, <3>2 DEF CopiesFollowFile, Service!Unread
    <3>5. AcceptedIsFiled'
      BY <2>1, <3>1, <3>3 DEF AcceptedIsFiled
    <3>. QED  BY <3>4, <3>5
  <2>. QED  BY <1>1, <2>1, <2>2, <2>3 DEF ServiceInv
<1>3. ASSUME NEW r \in Service!Requests, Service!Sign(r) PROVE ServiceInv'
  <2>1. /\ \A q \in signedRequests : q.nonce # r.nonce
        /\ signedRequests' = signedRequests \cup {r}
        /\ UNCHANGED <<serviceTime, nonceStore, savedNonces, acceptedRequests, stale>>
    BY <1>3 DEF Service!Sign
  <2>2. SignedOnce'
    BY <2>1 DEF ServiceInv, SignedOnce
  <2>3. UnsignedUnaccepted'
    BY <2>1 DEF ServiceInv, UnsignedUnaccepted, Service!Requests
  <2>4. r \in signedRequests \/ acceptedRequests[r] = 0
    BY DEF ServiceInv, UnsignedUnaccepted
  <2>5. ASSUME ~stale PROVE CopiesFollowFile' /\ AcceptedIsFiled'
    <3>1. CopiesFollowFile /\ AcceptedIsFiled
      BY <2>5 DEF ServiceInv
    <3>2. CopiesFollowFile'
      BY <2>1, <3>1 DEF CopiesFollowFile, Held, Service!Unread
    <3>3. AcceptedIsFiled'
      BY <2>1, <2>4, <3>1 DEF AcceptedIsFiled, YoungEnough
    <3>. QED  BY <3>2, <3>3
  <2>. QED  BY <1>1, <2>1, <2>2, <2>3, <2>5 DEF ServiceInv
<1>4. ASSUME NEW w \in Threads, Service!Restart(w) PROVE ServiceInv'
  <2>1. /\ nonceStore' = [nonceStore EXCEPT ![w] = Service!Unread]
        /\ UNCHANGED <<serviceTime, savedNonces, signedRequests, acceptedRequests, stale>>
    BY <1>4 DEF Service!Restart
  <2>2. SignedOnce' /\ UnsignedUnaccepted' /\ (~stale => AcceptedIsFiled')
    BY <2>1 DEF ServiceInv, SignedOnce, UnsignedUnaccepted, AcceptedIsFiled, YoungEnough,
                Service!Requests
  <2>3. ~stale => CopiesFollowFile'
    BY <1>1, <2>1 DEF ServiceInv, CopiesFollowFile, Held, ServiceTypeOK, Service!Unread
  <2>. QED  BY <1>1, <2>1, <2>2, <2>3 DEF ServiceInv
<1>5. ASSUME NEW w \in Threads, NEW r \in Service!Requests,
             Service!Refuse(w, r) \/ Service!ServeSaveFails(w, r)
      PROVE  ServiceInv'
  <2>1. /\ UNCHANGED <<serviceTime, savedNonces, signedRequests, acceptedRequests>>
        /\ stale' = (stale \/ Service!FileLeads(w))
        /\ \E copy \in {Service!Loaded(w), Service!Cleanup(Service!Loaded(w))} :
              nonceStore' = [nonceStore EXCEPT ![w] = copy]
    BY <1>5 DEF Service!Refuse, Service!ServeSaveFails
  <2>2. SignedOnce' /\ UnsignedUnaccepted'
    BY <2>1 DEF ServiceInv, SignedOnce, UnsignedUnaccepted, Service!Requests
  <2>3. ASSUME ~stale' PROVE CopiesFollowFile' /\ AcceptedIsFiled'
    <3>1. CopiesFollowFile /\ AcceptedIsFiled
      BY <1>1, <2>1, <2>3 DEF ServiceInv, ServiceTypeOK
    <3>2. CopiesFollowFile'
      BY <1>1, <2>1, <3>1, CleanedFollows
    <3>3. AcceptedIsFiled'
      BY <2>1, <3>1 DEF AcceptedIsFiled, YoungEnough
    <3>. QED  BY <3>2, <3>3
  <2>. QED  BY <1>1, <2>2, <2>3 DEF ServiceInv
<1>6. ASSUME NEW w \in Threads, NEW r \in Service!Requests, Service!Serve(w, r)
      PROVE  ServiceInv'
  <2>1. /\ r \in signedRequests
        /\ acceptedRequests' = [acceptedRequests EXCEPT ![r] =
                                   IF Service!Verifies(r) THEN @ + 1 ELSE @]
        /\ UNCHANGED signedRequests
    BY <1>6 DEF Service!Serve
  <2>2. SignedOnce'
    BY <2>1 DEF ServiceInv, SignedOnce
  <2>3. UnsignedUnaccepted'
    BY <1>1, <2>1 DEF ServiceInv, UnsignedUnaccepted, ServiceTypeOK, Service!Requests
  <2>. QED  BY <1>1, <1>6, <2>2, <2>3, ServeKeeps DEF ServiceInv
<1>7. CASE UNCHANGED serviceVars
  BY <1>1, <1>7 DEF serviceVars, ServiceInv, SignedOnce, UnsignedUnaccepted, CopiesFollowFile,
     AcceptedIsFiled, Held, YoungEnough, Service!Requests, Service!Unread
<1>. QED
  BY <1>2, <1>3, <1>4, <1>5, <1>6, <1>7 DEF Service!Next, serviceVars, Service!vars

LEMMA ServiceInvShows == ServiceInv => Service!OnlyStaleCopiesAcceptTwice
BY DEF ServiceInv, AcceptedIsFiled, Service!OnlyStaleCopiesAcceptTwice
----------------------------------------------------------------------------
(* Evidence bundles: as long as one publication is in progress at a time,   *)
(* the store is whole, and what was answered is in it, but while the        *)
(* registry manager writes it in place.                                     *)

AllBundles == Bundles \cup ByRegistry
BundleFiles == [whole : BOOLEAN, bundles : SUBSET AllBundles]
FileNames == AllBundles \cup {"none"}
Stages == {"new", "loaded", "open", "written", "saved", "failed"}

EvidenceTypeOK ==
    /\ evidenceFile \in FileNames /\ temp \in FileNames
    /\ files \in [AllBundles -> BundleFiles]
    /\ saving \in [AllBundles -> [stage : Stages, held : SUBSET AllBundles, file : FileNames]]
    /\ published \in SUBSET AllBundles
    /\ overlappedSaves \in BOOLEAN /\ registryDied \in BOOLEAN

\* A publication that has no file yet finds none of its own, and the temporary
\* file is never the store.
FilesApart ==
    /\ \A b \in AllBundles :
          saving[b].stage \in {"new", "loaded"} => evidenceFile # b /\ temp # b
    /\ temp # "none" => temp # evidenceFile
    /\ \A b \in ByRegistry : saving[b].stage # "written"

OneInProgress == \A b, c \in Evidence!InProgress : b = c

StoreHolds == published \subseteq Evidence!Readable /\ ~Evidence!Unreadable

\* What the one publication in progress works on
BundleGoesOn ==
    \A b \in Bundles :
        /\ saving[b].stage \in {"loaded", "open", "written"} =>
              saving[b].held = Evidence!Readable
        /\ saving[b].stage \in {"open", "written"} =>
              temp \in AllBundles /\ saving[b].file = temp
        /\ saving[b].stage = "open" => files[temp] = Evidence!Truncated
        /\ saving[b].stage = "written" =>
              files[temp] = Evidence!Whole(saving[b].held \cup {b})
RegistryGoesOn ==
    \A b \in ByRegistry :
        /\ saving[b].stage = "loaded" => saving[b].held = Evidence!Readable
        /\ saving[b].stage = "open" =>
              /\ evidenceFile \in AllBundles /\ saving[b].file = evidenceFile
              /\ files[evidenceFile] = Evidence!Truncated
              /\ published \subseteq saving[b].held

StoreInv ==
    /\ OneInProgress /\ BundleGoesOn /\ RegistryGoesOn
    /\ (\A b \in ByRegistry : saving[b].stage # "open") => StoreHolds

EvidenceInv ==
    /\ EvidenceTypeOK /\ FilesApart
    /\ ~overlappedSaves /\ ~registryDied => StoreInv

LEMMA BundlesApart ==
    /\ \A b \in Bundles : b \notin ByRegistry
    /\ \A b \in AllBundles : b # "none"
    /\ Evidence!All = AllBundles /\ Evidence!NoFile = "none"
BY EvidenceAssumption DEF AllBundles, Evidence!All, Evidence!NoFile

LEMMA FileKinds ==
    /\ Evidence!Truncated \in BundleFiles /\ ~Evidence!Truncated.whole
    /\ \A B \in SUBSET AllBundles :
          /\ Evidence!Whole(B) \in BundleFiles
          /\ Evidence!Whole(B).whole /\ Evidence!Whole(B).bundles = B
          /\ [whole |-> FALSE, bundles |-> B] \in BundleFiles
BY DEF Evidence!Truncated, Evidence!Whole, BundleFiles

LEMMA ReadableTyped ==
    EvidenceTypeOK => Evidence!Readable \in SUBSET AllBundles
BY BundlesApart DEF EvidenceTypeOK, Evidence!Readable, Evidence!Unreadable, BundleFiles, FileNames

\* What a publication says when it goes to its next stage
LEMMA SavingSays ==
    ASSUME EvidenceTypeOK, NEW b \in AllBundles, NEW to \in Stages,
           NEW kept \in SUBSET AllBundles, NEW file \in FileNames,
           Evidence!Saving(b, to, kept, file)
    PROVE  /\ saving' \in [AllBundles -> [stage : Stages, held : SUBSET AllBundles,
                                          file : FileNames]]
           /\ saving'[b].stage = to /\ saving'[b].held = kept /\ saving'[b].file = file
           /\ \A c \in AllBundles : c # b => saving'[c] = saving[c]
<1>. DEFINE r == [stage |-> to, held |-> kept, file |-> file]
<1>1. saving' = [saving EXCEPT ![b] = r]
  BY DEF Evidence!Saving
<1>2. r \in [stage : Stages, held : SUBSET AllBundles, file : FileNames]
  OBVIOUS
<1>3. r.stage = to /\ r.held = kept /\ r.file = file
  OBVIOUS
<1>. HIDE DEF r
<1>. QED  BY <1>1, <1>2, <1>3 DEF EvidenceTypeOK

LEMMA EvidenceInvInit == Evidence!StoreInit => EvidenceInv
<1>. SUFFICES ASSUME Evidence!StoreInit PROVE EvidenceInv
  OBVIOUS
<1>1. EvidenceTypeOK
  BY BundlesApart, FileKinds DEF Evidence!StoreInit, EvidenceTypeOK, FileNames, Stages,
     Evidence!Idle
<1>2. /\ \A b \in AllBundles : saving[b].stage = "new"
      /\ evidenceFile = "none" /\ temp = "none" /\ published = {}
  BY BundlesApart DEF Evidence!StoreInit, Evidence!Idle
<1>3. FilesApart
  BY <1>2, BundlesApart DEF FilesApart, AllBundles
<1>4. Evidence!InProgress = {}
  BY <1>2, BundlesApart DEF Evidence!InProgress
<1>5. StoreHolds
  BY <1>2, BundlesApart DEF StoreHolds, Evidence!Unreadable
<1>6. BundleGoesOn /\ RegistryGoesOn
  BY <1>2 DEF BundleGoesOn, RegistryGoesOn, AllBundles
<1>. QED  BY <1>1, <1>3, <1>4, <1>5, <1>6 DEF EvidenceInv, StoreInv, OneInProgress

\* Who begins while nobody is in progress is the only one after that.
LEMMA OneBegins ==
    ASSUME EvidenceTypeOK, OneInProgress, NEW b \in AllBundles,
           b \in Evidence!InProgress \/ Evidence!InProgress = {},
           \A c \in AllBundles : c # b => saving'[c].stage = saving[c].stage
    PROVE  OneInProgress'
BY BundlesApart DEF OneInProgress, Evidence!InProgress

\* A publication leaves the store and the others alone.
OthersWait(b) == \A c \in AllBundles : c # b =>
                     saving[c].stage \notin {"loaded", "open", "written"}
LEMMA OthersDoWait ==
    ASSUME OneInProgress, NEW b \in AllBundles, b \in Evidence!InProgress \/ Evidence!InProgress = {}
    PROVE  OthersWait(b)
BY BundlesApart DEF OneInProgress, Evidence!InProgress, OthersWait

\* What is kept of everybody else while b goes on, when the store stays
LEMMA StoreStays ==
    ASSUME EvidenceTypeOK, NEW b \in AllBundles,
           UNCHANGED <<evidenceFile, published>>,
           \A f \in AllBundles : f = evidenceFile => files'[f] = files[f]
    PROVE  /\ Evidence!Readable' = Evidence!Readable
           /\ Evidence!Unreadable' = Evidence!Unreadable
           /\ StoreHolds' = StoreHolds
<1>1. evidenceFile # "none" => evidenceFile \in AllBundles
  BY DEF EvidenceTypeOK, FileNames
<1>2. Evidence!Unreadable' = Evidence!Unreadable
  BY <1>1, BundlesApart DEF Evidence!Unreadable
<1>3. Evidence!Readable' = Evidence!Readable
  BY <1>1, <1>2, BundlesApart DEF Evidence!Readable
<1>. QED  BY <1>2, <1>3 DEF StoreHolds

LEMMA EvidenceTypeStep ==
    EvidenceTypeOK /\ [Evidence!StoreNext]_evidenceVars => EvidenceTypeOK'
<1>. SUFFICES ASSUME EvidenceTypeOK, [Evidence!StoreNext]_evidenceVars PROVE EvidenceTypeOK'
  OBVIOUS
<1>. USE DEF Stages
<1>1. /\ Evidence!Readable \in SUBSET AllBundles /\ {} \in SUBSET AllBundles
      /\ "none" \in FileNames /\ AllBundles \subseteq FileNames
      /\ overlappedSaves \in BOOLEAN /\ registryDied \in BOOLEAN
      /\ Bundles \subseteq AllBundles /\ ByRegistry \subseteq AllBundles
      /\ \A b \in AllBundles : /\ saving[b].held \in SUBSET AllBundles
                               /\ saving[b].held \cup {b} \in SUBSET AllBundles
                               /\ saving[b].file \in FileNames
  BY ReadableTyped DEF FileNames, AllBundles, EvidenceTypeOK
<1>2. \A f \in AllBundles, B \in SUBSET AllBundles :
         Evidence!Written(f, B) \subseteq BundleFiles
  BY FileKinds DEF Evidence!Written
<1>3. ASSUME NEW b \in AllBundles, Evidence!Load(b) \/ Evidence!RegistryLoad(b)
      PROVE  EvidenceTypeOK'
  <2>1. /\ UNCHANGED <<evidenceFile, temp, files, published, registryDied>>
        /\ overlappedSaves' \in BOOLEAN
        /\ \/ Evidence!Saving(b, "failed", {}, "none")
           \/ Evidence!Saving(b, "loaded", Evidence!Readable, "none")
    BY <1>1, <1>3, BundlesApart DEF Evidence!Load, Evidence!RegistryLoad, Evidence!Began
  <2>2. saving' \in [AllBundles -> [stage : Stages, held : SUBSET AllBundles, file : FileNames]]
    BY <1>1, <2>1, SavingSays
  <2>. QED  BY <2>1, <2>2 DEF EvidenceTypeOK
<1>4. ASSUME NEW b \in AllBundles, Evidence!OpenTemp(b) \/ Evidence!RegistryOpen(b)
      PROVE  EvidenceTypeOK'
  <2>1. PICK f \in AllBundles :
           /\ evidenceFile' \in {evidenceFile, f} /\ temp' \in {temp, f}
           /\ files' = [files EXCEPT ![f] = Evidence!Truncated]
           /\ Evidence!Saving(b, "open", saving[b].held, f)
    <3>1. \A f \in FileNames : f # "none" => f \in AllBundles
      BY DEF FileNames
    <3>2. CASE Evidence!OpenTemp(b)
      BY <3>1, <3>2, BundlesApart DEF Evidence!OpenTemp, EvidenceTypeOK
    <3>3. CASE Evidence!RegistryOpen(b)
      BY <3>1, <3>3, BundlesApart DEF Evidence!RegistryOpen, EvidenceTypeOK
    <3>. QED  BY <1>4, <3>2, <3>3
  <2>2. UNCHANGED <<published, overlappedSaves, registryDied>>
    BY <1>4 DEF Evidence!OpenTemp, Evidence!RegistryOpen
  <2>3. saving' \in [AllBundles -> [stage : Stages, held : SUBSET AllBundles, file : FileNames]]
    BY <1>1, <2>1, SavingSays
  <2>. QED  BY <1>1, <2>1, <2>2, <2>3, FileKinds DEF EvidenceTypeOK
<1>5. ASSUME NEW b \in AllBundles, Evidence!WriteTemp(b) \/ Evidence!RegistryWrite(b)
      PROVE  EvidenceTypeOK'
  <2>1. PICK text \in Evidence!Written(saving[b].file, saving[b].held \cup {b}) :
           files' = [files EXCEPT ![saving[b].file] = text]
    BY <1>5 DEF Evidence!WriteTemp, Evidence!RegistryWrite
  <2>2. text \in BundleFiles
    BY <1>1, <2>1, FileKinds DEF Evidence!Written
  <2>3. files' \in [AllBundles -> BundleFiles]
    BY <2>1, <2>2 DEF EvidenceTypeOK
  <2>4. /\ UNCHANGED <<evidenceFile, temp, overlappedSaves, registryDied>>
        /\ published' \in {published, published \cup {b}}
        /\ \/ Evidence!Saving(b, "saved", {}, "none")
           \/ Evidence!Saving(b, "written", saving[b].held, saving[b].file)
    BY <1>5, BundlesApart DEF Evidence!WriteTemp, Evidence!RegistryWrite
  <2>5. saving' \in [AllBundles -> [stage : Stages, held : SUBSET AllBundles, file : FileNames]]
    BY <1>1, <2>4, SavingSays
  <2>. QED  BY <2>3, <2>4, <2>5 DEF EvidenceTypeOK
<1>6. ASSUME NEW b \in AllBundles,
             Evidence!WriteFails(b) \/ Evidence!Replace(b) \/ Evidence!RegistryDies(b)
      PROVE  EvidenceTypeOK'
  <2>1. /\ UNCHANGED <<files, overlappedSaves>> /\ registryDied' \in BOOLEAN
        /\ evidenceFile' \in {evidenceFile, temp} /\ temp' \in {temp, "none"}
        /\ published' \in {published, published \cup {b}}
        /\ \/ Evidence!Saving(b, "saved", {}, "none")
           \/ Evidence!Saving(b, "failed", {}, "none")
    BY <1>1, <1>6, BundlesApart DEF Evidence!WriteFails, Evidence!Replace, Evidence!RegistryDies
  <2>2. saving' \in [AllBundles -> [stage : Stages, held : SUBSET AllBundles, file : FileNames]]
    BY <1>1, <2>1, SavingSays
  <2>. QED  BY <1>1, <2>1, <2>2 DEF EvidenceTypeOK
<1>7. CASE Evidence!Crash
  <2>1. [Evidence!Idle EXCEPT !.stage = "failed"]
            \in [stage : Stages, held : SUBSET AllBundles, file : FileNames]
    BY <1>1, BundlesApart DEF Evidence!Idle
  <2>2. saving' \in [AllBundles -> [stage : Stages, held : SUBSET AllBundles, file : FileNames]]
    BY <1>7, <2>1, BundlesApart DEF Evidence!Crash, EvidenceTypeOK
  <2>. QED  BY <1>7, <2>2 DEF Evidence!Crash, EvidenceTypeOK
<1>8. CASE UNCHANGED evidenceVars
  BY <1>8 DEF evidenceVars, EvidenceTypeOK
<1>. QED
  BY <1>1, <1>3, <1>4, <1>5, <1>6, <1>7, <1>8
     DEF Evidence!StoreNext, evidenceVars, Evidence!storeVars

\* A step of b after which the store is as before, and so are the others.
LEMMA OthersKeep ==
    ASSUME EvidenceTypeOK, FilesApart, NEW b \in AllBundles, OthersWait(b),
           \A c \in AllBundles : c # b => saving'[c] = saving[c]
    PROVE  \A c \in AllBundles : c # b =>
              /\ saving'[c].stage \notin {"loaded", "open", "written"}
              /\ saving[c].stage \notin {"loaded", "open", "written"}
BY DEF OthersWait

LEMMA LoadKeeps ==
    ASSUME EvidenceInv, EvidenceTypeOK', NEW b \in AllBundles,
           Evidence!Load(b) \/ Evidence!RegistryLoad(b),
           b \in Bundles => Evidence!Load(b)
    PROVE  EvidenceInv'
<1>1. EvidenceTypeOK /\ FilesApart
  BY DEF EvidenceInv
<1>2. /\ saving[b].stage = "new"
      /\ overlappedSaves' = (overlappedSaves \/ Evidence!InProgress # {})
      /\ UNCHANGED <<evidenceFile, temp, files, published, registryDied>>
      /\ \/ Evidence!Unreadable /\ Evidence!Saving(b, "failed", {}, "none")
         \/ (b \in ByRegistry \/ ~Evidence!Unreadable)
            /\ Evidence!Saving(b, "loaded", Evidence!Readable, "none")
  BY BundlesApart DEF Evidence!Load, Evidence!RegistryLoad, Evidence!Began, AllBundles
<1>3. PICK to \in {"failed", "loaded"} :
         /\ saving'[b].stage = to
         /\ to = "loaded" => saving'[b].held = Evidence!Readable
         /\ \A c \in AllBundles : c # b => saving'[c] = saving[c]
  <2>1. CASE Evidence!Saving(b, "failed", {}, "none")
    BY <1>1, <2>1, SavingSays DEF Stages, FileNames
  <2>2. CASE Evidence!Saving(b, "loaded", Evidence!Readable, "none")
    BY <1>1, <2>2, SavingSays, ReadableTyped DEF Stages, FileNames
  <2>. QED  BY <1>2, <2>1, <2>2
<1>4. FilesApart'
  BY <1>1, <1>2, <1>3 DEF FilesApart, AllBundles
<1>5. ASSUME ~overlappedSaves', ~registryDied' PROVE StoreInv'
  <2>1. Evidence!InProgress = {} /\ StoreInv
    BY <1>1, <1>2, <1>5 DEF EvidenceInv, EvidenceTypeOK
  <2>2. OneInProgress'
    BY <1>1, <1>3, <2>1, OneBegins DEF StoreInv
  <2>3. OthersWait(b)
    BY <2>1, OthersDoWait DEF StoreInv
  <2>4. /\ Evidence!Readable' = Evidence!Readable
        /\ StoreHolds' = StoreHolds
    BY <1>1, <1>2, StoreStays
  <2>5. \A c \in AllBundles : saving'[c].stage \notin {"open", "written"}
    BY <1>3, <2>3 DEF OthersWait
  <2>6. \A c \in AllBundles : saving'[c].stage = "loaded" => c = b
    BY <1>3, <2>3 DEF OthersWait
  <2>7. BundleGoesOn' /\ RegistryGoesOn'
    BY <1>3, <2>4, <2>5, <2>6 DEF BundleGoesOn, RegistryGoesOn, AllBundles
  <2>8. \A c \in ByRegistry : saving[c].stage # "open"
    BY <2>1, BundlesApart DEF Evidence!InProgress, AllBundles
  <2>9. StoreHolds'
    BY <2>1, <2>4, <2>8 DEF StoreInv
  <2>. QED  BY <2>2, <2>7, <2>9 DEF StoreInv
<1>. QED  BY <1>4, <1>5 DEF EvidenceInv

LEMMA OpenTempKeeps ==
    ASSUME EvidenceInv, EvidenceTypeOK', NEW b \in Bundles, Evidence!OpenTemp(b)
    PROVE  EvidenceInv'
<1>1. EvidenceTypeOK /\ FilesApart /\ b \in AllBundles
  BY DEF EvidenceInv, AllBundles
<1>2. PICK f \in AllBundles :
         /\ saving[b].stage = "loaded" /\ f = IF temp = "none" THEN b ELSE temp
         /\ temp' = f /\ files' = [files EXCEPT ![f] = Evidence!Truncated]
         /\ Evidence!Saving(b, "open", saving[b].held, f)
         /\ UNCHANGED <<evidenceFile, published, overlappedSaves, registryDied>>
  BY <1>1, BundlesApart DEF Evidence!OpenTemp, EvidenceTypeOK, FileNames
<1>3. /\ saving'[b].stage = "open" /\ saving'[b].held = saving[b].held /\ saving'[b].file = f
      /\ \A c \in AllBundles : c # b => saving'[c] = saving[c]
  <2>1. PICK kept \in SUBSET AllBundles : kept = saving[b].held
    BY <1>1 DEF EvidenceTypeOK
  <2>2. "open" \in Stages /\ f \in FileNames /\ Evidence!Saving(b, "open", kept, f)
    BY <1>2, <2>1 DEF Stages, FileNames
  <2>3. /\ saving'[b].stage = "open" /\ saving'[b].held = kept /\ saving'[b].file = f
        /\ \A c \in AllBundles : c # b => saving'[c] = saving[c]
    BY <1>1, <2>2, SavingSays
  <2>. QED  BY <2>1, <2>3
<1>4. f # evidenceFile
  BY <1>1, <1>2, BundlesApart DEF FilesApart
<1>5. FilesApart'
  BY <1>1, <1>2, <1>3, <1>4, BundlesApart DEF FilesApart, AllBundles
<1>6. ASSUME ~overlappedSaves', ~registryDied' PROVE StoreInv'
  <2>1. StoreInv /\ b \in Evidence!InProgress
    BY <1>1, <1>2, <1>6, BundlesApart DEF EvidenceInv, Evidence!InProgress
  <2>2. OneInProgress'
    BY <1>1, <1>3, <2>1, OneBegins DEF StoreInv, OneInProgress, Evidence!InProgress
  <2>3. OthersWait(b)
    BY <1>1, <2>1, OthersDoWait DEF StoreInv
  <2>4. /\ Evidence!Readable' = Evidence!Readable
        /\ StoreHolds' = StoreHolds
    BY <1>1, <1>2, <1>4, StoreStays DEF EvidenceTypeOK
  <2>5. \A c \in AllBundles : c # b => saving'[c].stage \notin {"loaded", "open", "written"}
    BY <1>3, <2>3 DEF OthersWait
  <2>6. saving[b].held = Evidence!Readable /\ files'[f] = Evidence!Truncated
    BY <1>1, <1>2, <2>1 DEF StoreInv, BundleGoesOn, EvidenceTypeOK
  <2>7. BundleGoesOn' /\ RegistryGoesOn'
    BY <1>2, <1>3, <2>4, <2>5, <2>6, BundlesApart DEF BundleGoesOn, RegistryGoesOn, AllBundles
  <2>8. \A c \in ByRegistry : saving[c].stage # "open"
    BY <2>3, BundlesApart DEF OthersWait, AllBundles
  <2>. QED  BY <2>1, <2>2, <2>4, <2>7, <2>8 DEF StoreInv
<1>. QED  BY <1>5, <1>6 DEF EvidenceInv

LEMMA WriteTempKeeps ==
    ASSUME EvidenceInv, EvidenceTypeOK', NEW b \in Bundles, Evidence!WriteTemp(b)
    PROVE  EvidenceInv'
<1>1. EvidenceTypeOK /\ FilesApart /\ b \in AllBundles
  BY DEF EvidenceInv, AllBundles
<1>2. /\ saving[b].stage = "open"
      /\ Evidence!Saving(b, "written", saving[b].held, saving[b].file)
      /\ UNCHANGED <<evidenceFile, temp, published, overlappedSaves, registryDied>>
  BY DEF Evidence!WriteTemp
<1>3. /\ saving'[b].stage = "written" /\ saving'[b].held = saving[b].held
      /\ saving'[b].file = saving[b].file
      /\ \A c \in AllBundles : c # b => saving'[c] = saving[c]
  <2>1. PICK kept \in SUBSET AllBundles, f \in FileNames :
           kept = saving[b].held /\ f = saving[b].file
    BY <1>1 DEF EvidenceTypeOK
  <2>2. "written" \in Stages /\ Evidence!Saving(b, "written", kept, f)
    BY <1>2, <2>1 DEF Stages
  <2>3. /\ saving'[b].stage = "written" /\ saving'[b].held = kept /\ saving'[b].file = f
        /\ \A c \in AllBundles : c # b => saving'[c] = saving[c]
    BY <1>1, <2>2, SavingSays
  <2>. QED  BY <2>1, <2>3
<1>5. FilesApart'
  BY <1>1, <1>2, <1>3, BundlesApart DEF FilesApart, AllBundles
<1>6. ASSUME ~overlappedSaves', ~registryDied' PROVE StoreInv'
  <2>1. StoreInv /\ b \in Evidence!InProgress
    BY <1>1, <1>2, <1>6, BundlesApart DEF EvidenceInv, Evidence!InProgress
  <2>2. OneInProgress'
    BY <1>1, <1>3, <2>1, OneBegins DEF StoreInv, OneInProgress, Evidence!InProgress
  <2>3. OthersWait(b)
    BY <1>1, <2>1, OthersDoWait DEF StoreInv
  <2>4. /\ temp \in AllBundles /\ saving[b].file = temp /\ files[temp] = Evidence!Truncated
        /\ saving[b].held = Evidence!Readable /\ temp # evidenceFile
    BY <1>1, <1>2, <2>1, BundlesApart DEF StoreInv, BundleGoesOn, FilesApart
  <2>5. files' = [files EXCEPT ![temp] = Evidence!Whole(saving[b].held \cup {b})]
    BY <2>4 DEF Evidence!WriteTemp, Evidence!Written
  <2>6. /\ Evidence!Readable' = Evidence!Readable
        /\ StoreHolds' = StoreHolds
    BY <1>1, <1>2, <2>4, <2>5, StoreStays DEF EvidenceTypeOK
  <2>7. \A c \in AllBundles : c # b => saving'[c].stage \notin {"loaded", "open", "written"}
    BY <1>3, <2>3 DEF OthersWait
  <2>8. files'[temp] = Evidence!Whole(saving'[b].held \cup {b})
    BY <1>1, <1>3, <2>4, <2>5 DEF EvidenceTypeOK
  <2>9. BundleGoesOn' /\ RegistryGoesOn'
    BY <1>2, <1>3, <2>4, <2>6, <2>7, <2>8, BundlesApart
       DEF BundleGoesOn, RegistryGoesOn, AllBundles, Evidence!Whole
  <2>10. \A c \in ByRegistry : saving[c].stage # "open"
    BY <2>3, BundlesApart DEF OthersWait, AllBundles
  <2>. QED  BY <2>1, <2>2, <2>6, <2>9, <2>10 DEF StoreInv
<1>. QED  BY <1>5, <1>6 DEF EvidenceInv

LEMMA FailKeeps ==
    ASSUME EvidenceInv, EvidenceTypeOK', NEW b \in AllBundles,
           saving[b].stage \in {"loaded", "open", "written"},
           b \in ByRegistry /\ saving[b].stage = "open" => registryDied',
           registryDied => registryDied',
           Evidence!Saving(b, "failed", {}, "none"),
           UNCHANGED <<evidenceFile, temp, files, published, overlappedSaves>>
    PROVE  EvidenceInv'
<1>1. EvidenceTypeOK /\ FilesApart
  BY DEF EvidenceInv
<1>2. /\ saving'[b].stage = "failed"
      /\ \A c \in AllBundles : c # b => saving'[c] = saving[c]
  BY <1>1, SavingSays DEF Stages, FileNames
<1>3. FilesApart'
  BY <1>1, <1>2, BundlesApart DEF FilesApart, AllBundles
<1>4. ASSUME ~overlappedSaves', ~registryDied' PROVE StoreInv'
  <2>1. StoreInv /\ b \in Evidence!InProgress
    BY <1>1, <1>4, BundlesApart DEF EvidenceInv, Evidence!InProgress
  <2>2. OneInProgress'
    BY <1>1, <1>2, <2>1, OneBegins DEF StoreInv, OneInProgress, Evidence!InProgress
  <2>3. OthersWait(b)
    BY <1>1, <2>1, OthersDoWait DEF StoreInv
  <2>4. StoreHolds' = StoreHolds
    BY <1>1, StoreStays
  <2>5. \A c \in AllBundles : saving'[c].stage \notin {"loaded", "open", "written"}
    BY <1>2, <2>3 DEF OthersWait
  <2>6. BundleGoesOn' /\ RegistryGoesOn'
    BY <2>5 DEF BundleGoesOn, RegistryGoesOn, AllBundles
  <2>7. \A c \in ByRegistry : saving[c].stage # "open"
    BY <1>4, <2>3 DEF OthersWait, AllBundles
  <2>. QED  BY <2>1, <2>2, <2>4, <2>6, <2>7 DEF StoreInv
<1>. QED  BY <1>3, <1>4 DEF EvidenceInv

LEMMA ReplaceKeeps ==
    ASSUME EvidenceInv, EvidenceTypeOK', NEW b \in Bundles, Evidence!Replace(b)
    PROVE  EvidenceInv'
<1>1. EvidenceTypeOK /\ FilesApart /\ b \in AllBundles /\ b \notin ByRegistry
  BY BundlesApart DEF EvidenceInv, AllBundles
<1>2. CASE temp = "none"
  BY <1>1, <1>2, FailKeeps, BundlesApart DEF Evidence!Replace
<1>3. CASE temp # "none"
  <2>1. /\ saving[b].stage = "written" /\ Evidence!Saving(b, "saved", {}, "none")
        /\ evidenceFile' = temp /\ temp' = "none" /\ published' = published \cup {b}
        /\ UNCHANGED <<files, overlappedSaves, registryDied>>
    BY <1>3, BundlesApart DEF Evidence!Replace
  <2>2. /\ saving'[b].stage = "saved"
        /\ \A c \in AllBundles : c # b => saving'[c] = saving[c]
    BY <1>1, <2>1, SavingSays DEF Stages, FileNames
  <2>3. FilesApart'
    BY <1>1, <2>1, <2>2, BundlesApart DEF FilesApart, AllBundles
  <2>4. ASSUME ~overlappedSaves', ~registryDied' PROVE StoreInv'
    <3>1. StoreInv /\ b \in Evidence!InProgress
      BY <1>1, <2>1, <2>4, BundlesApart DEF EvidenceInv, Evidence!InProgress
    <3>2. OneInProgress'
      BY <1>1, <2>2, <3>1, OneBegins DEF StoreInv, OneInProgress, Evidence!InProgress
    <3>3. OthersWait(b)
      BY <1>1, <3>1, OthersDoWait DEF StoreInv
    <3>4. /\ temp \in AllBundles /\ saving[b].held = Evidence!Readable
          /\ files[temp] = Evidence!Whole(saving[b].held \cup {b})
      BY <2>1, <3>1 DEF StoreInv, BundleGoesOn
    <3>5. StoreHolds
      BY <1>1, <3>1, <3>3 DEF StoreInv, OthersWait, AllBundles
    <3>6. files'[evidenceFile'] = Evidence!Whole(Evidence!Readable \cup {b})
      BY <2>1, <3>4
    <3>7. StoreHolds'
      <4>1. Evidence!Readable \cup {b} \in SUBSET AllBundles
        BY <1>1, ReadableTyped
      <4>2. ~Evidence!Unreadable'
        BY <3>6, <4>1, FileKinds DEF Evidence!Unreadable
      <4>3. Evidence!Readable' = Evidence!Readable \cup {b}
        BY <1>3, <2>1, <3>6, <4>1, <4>2, FileKinds, BundlesApart DEF Evidence!Readable
      <4>. QED  BY <2>1, <3>5, <4>2, <4>3 DEF StoreHolds
    <3>8. \A c \in AllBundles : saving'[c].stage \notin {"loaded", "open", "written"}
      BY <2>2, <3>3 DEF OthersWait
    <3>9. BundleGoesOn' /\ RegistryGoesOn'
      BY <3>8 DEF BundleGoesOn, RegistryGoesOn, AllBundles
    <3>. QED  BY <3>2, <3>7, <3>9 DEF StoreInv
  <2>. QED  BY <2>3, <2>4 DEF EvidenceInv
<1>. QED  BY <1>2, <1>3

LEMMA RegistryOpenKeeps ==
    ASSUME EvidenceInv, EvidenceTypeOK', NEW b \in ByRegistry, Evidence!RegistryOpen(b)
    PROVE  EvidenceInv'
<1>1. EvidenceTypeOK /\ FilesApart /\ b \in AllBundles /\ b \notin Bundles
  BY BundlesApart DEF EvidenceInv, AllBundles
<1>2. PICK f \in AllBundles :
         /\ saving[b].stage = "loaded" /\ f = IF evidenceFile = "none" THEN b ELSE evidenceFile
         /\ evidenceFile' = f /\ files' = [files EXCEPT ![f] = Evidence!Truncated]
         /\ Evidence!Saving(b, "open", saving[b].held, f)
         /\ UNCHANGED <<temp, published, overlappedSaves, registryDied>>
  BY <1>1, BundlesApart DEF Evidence!RegistryOpen, EvidenceTypeOK, FileNames
<1>3. /\ saving'[b].stage = "open" /\ saving'[b].held = saving[b].held /\ saving'[b].file = f
      /\ \A c \in AllBundles : c # b => saving'[c] = saving[c]
  <2>1. PICK kept \in SUBSET AllBundles : kept = saving[b].held
    BY <1>1 DEF EvidenceTypeOK
  <2>2. "open" \in Stages /\ f \in FileNames /\ Evidence!Saving(b, "open", kept, f)
    BY <1>2, <2>1 DEF Stages, FileNames
  <2>3. /\ saving'[b].stage = "open" /\ saving'[b].held = kept /\ saving'[b].file = f
        /\ \A c \in AllBundles : c # b => saving'[c] = saving[c]
    BY <1>1, <2>2, SavingSays
  <2>. QED  BY <2>1, <2>3
<1>4. FilesApart'
  BY <1>1, <1>2, <1>3, BundlesApart DEF FilesApart, AllBundles
<1>5. ASSUME ~overlappedSaves', ~registryDied' PROVE StoreInv'
  <2>1. StoreInv /\ b \in Evidence!InProgress
    BY <1>1, <1>2, <1>5, BundlesApart DEF EvidenceInv, Evidence!InProgress
  <2>2. OneInProgress'
    BY <1>1, <1>3, <2>1, OneBegins DEF StoreInv, OneInProgress, Evidence!InProgress
  <2>3. OthersWait(b)
    BY <1>1, <2>1, OthersDoWait DEF StoreInv
  <2>4. \A c \in AllBundles : c # b => saving'[c].stage \notin {"loaded", "open", "written"}
    BY <1>3, <2>3 DEF OthersWait
  <2>5. saving[b].held = Evidence!Readable
    BY <1>2, <2>1 DEF StoreInv, RegistryGoesOn
  <2>6. StoreHolds
    BY <1>2, <2>1, <2>3 DEF StoreInv, OthersWait, AllBundles
  <2>7. files'[f] = Evidence!Truncated
    BY <1>1, <1>2 DEF EvidenceTypeOK
  <2>8. BundleGoesOn' /\ RegistryGoesOn'
    BY <1>1, <1>2, <1>3, <2>4, <2>5, <2>6, <2>7
       DEF BundleGoesOn, RegistryGoesOn, StoreHolds, AllBundles
  <2>. QED  BY <1>3, <2>2, <2>8 DEF StoreInv
<1>. QED  BY <1>4, <1>5 DEF EvidenceInv

LEMMA RegistryWriteKeeps ==
    ASSUME EvidenceInv, EvidenceTypeOK', NEW b \in ByRegistry, Evidence!RegistryWrite(b)
    PROVE  EvidenceInv'
<1>1. EvidenceTypeOK /\ FilesApart /\ b \in AllBundles
  BY DEF EvidenceInv, AllBundles
<1>2. /\ saving[b].stage = "open" /\ Evidence!Saving(b, "saved", {}, "none")
      /\ published' = published \cup {b}
      /\ UNCHANGED <<evidenceFile, temp, overlappedSaves, registryDied>>
  BY BundlesApart DEF Evidence!RegistryWrite
<1>3. /\ saving'[b].stage = "saved"
      /\ \A c \in AllBundles : c # b => saving'[c] = saving[c]
  BY <1>1, <1>2, SavingSays DEF Stages, FileNames
<1>4. FilesApart'
  BY <1>1, <1>2, <1>3, BundlesApart DEF FilesApart, AllBundles
<1>5. ASSUME ~overlappedSaves', ~registryDied' PROVE StoreInv'
  <2>1. StoreInv /\ b \in Evidence!InProgress
    BY <1>1, <1>2, <1>5, BundlesApart DEF EvidenceInv, Evidence!InProgress
  <2>2. OneInProgress'
    BY <1>1, <1>3, <2>1, OneBegins DEF StoreInv, OneInProgress, Evidence!InProgress
  <2>3. OthersWait(b)
    BY <1>1, <2>1, OthersDoWait DEF StoreInv
  <2>4. \A c \in AllBundles : saving'[c].stage \notin {"loaded", "open", "written"}
    BY <1>3, <2>3 DEF OthersWait
  <2>5. BundleGoesOn' /\ RegistryGoesOn'
    BY <2>4 DEF BundleGoesOn, RegistryGoesOn, AllBundles
  <2>6. /\ evidenceFile \in AllBundles /\ saving[b].file = evidenceFile
        /\ files[evidenceFile] = Evidence!Truncated /\ published \subseteq saving[b].held
        /\ saving[b].held \cup {b} \in SUBSET AllBundles
    BY <1>1, <1>2, <2>1 DEF StoreInv, RegistryGoesOn, EvidenceTypeOK
  <2>7. files' = [files EXCEPT ![evidenceFile] = Evidence!Whole(saving[b].held \cup {b})]
    BY <2>6 DEF Evidence!RegistryWrite, Evidence!Written
  <2>8. files'[evidenceFile'] = Evidence!Whole(saving[b].held \cup {b})
    BY <1>1, <1>2, <2>6, <2>7 DEF EvidenceTypeOK
  <2>9. StoreHolds'
    <3>1. ~Evidence!Unreadable'
      BY <2>6, <2>8, FileKinds DEF Evidence!Unreadable
    <3>2. Evidence!Readable' = saving[b].held \cup {b}
      BY <1>2, <2>6, <2>8, <3>1, FileKinds, BundlesApart DEF Evidence!Readable
    <3>. QED  BY <1>2, <2>6, <3>1, <3>2 DEF StoreHolds
  <2>. QED  BY <2>2, <2>5, <2>9 DEF StoreInv
<1>. QED  BY <1>4, <1>5 DEF EvidenceInv

LEMMA CrashKeeps ==
    ASSUME EvidenceInv, EvidenceTypeOK', Evidence!Crash
    PROVE  EvidenceInv'
<1>1. EvidenceTypeOK /\ FilesApart
  BY DEF EvidenceInv
<1>2. UNCHANGED <<evidenceFile, temp, files, published, overlappedSaves, registryDied>>
  BY DEF Evidence!Crash
<1>3. \A c \in AllBundles : saving'[c] = saving[c] \/ saving'[c].stage = "failed"
  BY BundlesApart DEF Evidence!Crash, Evidence!Idle
<1>4. FilesApart'
  BY <1>1, <1>2, <1>3 DEF FilesApart, AllBundles
<1>5. \A c \in ByRegistry : saving'[c] = saving[c]
  BY BundlesApart DEF Evidence!Crash, AllBundles
<1>6. StoreHolds' = StoreHolds /\ Evidence!Readable' = Evidence!Readable
  <2>. PICK b \in AllBundles : TRUE
    BY DEF Evidence!Crash, AllBundles
  <2>. QED  BY <1>1, <1>2, StoreStays
<1>7. ASSUME ~overlappedSaves', ~registryDied' PROVE StoreInv'
  <2>1. StoreInv
    BY <1>2, <1>7 DEF EvidenceInv
  <2>2. OneInProgress'
    BY <1>3, <2>1, BundlesApart DEF StoreInv, OneInProgress, Evidence!InProgress
  <2>3. BundleGoesOn'
    BY <1>2, <1>3, <1>6, <2>1 DEF StoreInv, BundleGoesOn, AllBundles, Evidence!Truncated, Evidence!Whole
  <2>4. RegistryGoesOn'
    BY <1>2, <1>5, <1>6, <2>1 DEF StoreInv, RegistryGoesOn, AllBundles, Evidence!Truncated
  <2>. QED  BY <1>5, <1>6, <2>1, <2>2, <2>3, <2>4 DEF StoreInv
<1>. QED  BY <1>4, <1>7 DEF EvidenceInv

LEMMA EvidenceInvStep == EvidenceInv /\ [Evidence!StoreNext]_evidenceVars => EvidenceInv'
<1>. SUFFICES ASSUME EvidenceInv, [Evidence!StoreNext]_evidenceVars PROVE EvidenceInv'
  OBVIOUS
<1>1. EvidenceTypeOK /\ EvidenceTypeOK'
  BY EvidenceTypeStep DEF EvidenceInv
<1>2. ASSUME NEW b \in Bundles, Evidence!Load(b) PROVE EvidenceInv'
  BY <1>1, <1>2, LoadKeeps DEF AllBundles
<1>3. ASSUME NEW b \in ByRegistry, Evidence!RegistryLoad(b) PROVE EvidenceInv'
  BY <1>1, <1>3, LoadKeeps, BundlesApart DEF AllBundles
<1>4. ASSUME NEW b \in Bundles, Evidence!WriteFails(b) PROVE EvidenceInv'
  BY <1>1, <1>4, FailKeeps, BundlesApart DEF Evidence!WriteFails, AllBundles
<1>5. ASSUME NEW b \in ByRegistry, Evidence!RegistryDies(b) PROVE EvidenceInv'
  <2>1. /\ saving[b].stage \in {"loaded", "open"}
        /\ registryDied' = (registryDied \/ saving[b].stage = "open")
        /\ Evidence!Saving(b, "failed", {}, "none")
        /\ UNCHANGED <<evidenceFile, temp, files, published, overlappedSaves>>
    BY <1>5, BundlesApart DEF Evidence!RegistryDies
  <2>. QED  BY <1>1, <2>1, FailKeeps DEF AllBundles
<1>6. CASE UNCHANGED evidenceVars
  <2>. USE <1>6 DEF evidenceVars
  <2>1. FilesApart'
    BY DEF EvidenceInv, FilesApart
  <2>2. Evidence!Readable' = Evidence!Readable /\ Evidence!Unreadable' = Evidence!Unreadable
    BY DEF Evidence!Readable, Evidence!Unreadable
  <2>3. StoreInv => StoreInv'
    BY <2>2 DEF StoreInv, OneInProgress, BundleGoesOn, RegistryGoesOn, StoreHolds,
       Evidence!InProgress, Evidence!Truncated, Evidence!Whole
  <2>. QED  BY <1>1, <2>1, <2>3 DEF EvidenceInv
<1>. QED
  BY <1>1, <1>2, <1>3, <1>4, <1>5, <1>6, OpenTempKeeps, WriteTempKeeps, ReplaceKeeps,
     RegistryOpenKeeps, RegistryWriteKeeps, CrashKeeps
     DEF Evidence!StoreNext, evidenceVars, Evidence!storeVars

LEMMA EvidenceInvShows == EvidenceInv => Evidence!OnlyOverlapLosesEvidence
<1>. SUFFICES ASSUME EvidenceInv, ~overlappedSaves, ~registryDied,
                     Evidence!InProgress \cap ByRegistry = {}
              PROVE  published \subseteq Evidence!Readable /\ ~Evidence!Unreadable
  BY DEF EvidenceInv, EvidenceTypeOK, Evidence!OnlyOverlapLosesEvidence
<1>1. \A b \in ByRegistry : saving[b].stage # "open"
  BY BundlesApart DEF Evidence!InProgress, AllBundles
<1>. QED  BY <1>1 DEF EvidenceInv, StoreInv, StoreHolds
----------------------------------------------------------------------------
(* Events of the control plane: a row is written before its signal, and a   *)
(* failing write hides one row at most.                                     *)

LEMMA SameCardinality == \A S : Api!Cardinality(S) = Cardinality(S)
BY Zenon DEF Api!Cardinality, Cardinality

EventRows == Events \cup Decisions

EventsTypeOK ==
    /\ history \in [EventRows -> Nat] /\ rows \in [EventRows -> Nat]
    /\ rowOpen \in BOOLEAN /\ rowSpoiled \in BOOLEAN
    /\ publishing \in [Events -> {"no", "posted", "recorded"}]
    /\ ran \in [Events -> Nat]
    /\ accepted \in SUBSET Events
    /\ writeFailures \in Nat

\* A row is written before its signal, and a signal comes once for a row.
RanOnlyRecorded ==
    /\ \A e \in Events : /\ ran[e] <= rows[e]
                         /\ publishing[e] = "recorded" => ran[e] < rows[e]
    /\ \A e \in accepted : rows[e] > 0

\* Rows of which one was hidden on the line of an unfinished one
HiddenRows == {r \in EventRows : history[r] < rows[r]}

\* Each failing write hides one row at most, the next one if at all.
HiddenRowsInv ==
    /\ \A r \in EventRows : history[r] <= rows[r]
    /\ Cardinality(HiddenRows) + (IF rowOpen THEN 1 ELSE 0) <= writeFailures
    /\ rowOpen => rowSpoiled
    /\ rowSpoiled => writeFailures > 0
    /\ ~rowSpoiled => history = rows

ApiInv == EventsTypeOK /\ RanOnlyRecorded /\ HiddenRowsInv

----------------------------------------------------------------------------

LEMMA HiddenFinite ==
    ASSUME NEW S \in SUBSET EventRows
    PROVE  IsFiniteSet(S) /\ Cardinality(S) \in Nat
  BY EventsAssumption, FS_Union, FS_Subset, FS_CardinalityType DEF EventRows

\* A row that is written is found by every reader, or was the one to be hidden.
LEMMA RowKept ==
    ASSUME EventsTypeOK, HiddenRowsInv, NEW r \in EventRows, Api!WriteRow(r),
           UNCHANGED writeFailures
    PROVE  /\ history' \in [EventRows -> Nat] /\ rows' \in [EventRows -> Nat]
           /\ rowOpen' \in BOOLEAN /\ rowSpoiled' \in BOOLEAN
           /\ rows' = [rows EXCEPT ![r] = @ + 1]
           /\ HiddenRowsInv'
  <1>1. /\ history' \in [EventRows -> Nat] /\ rows' \in [EventRows -> Nat]
        /\ rowOpen' = FALSE /\ UNCHANGED rowSpoiled
        /\ rows' = [rows EXCEPT ![r] = @ + 1]
    BY DEF EventsTypeOK, Api!WriteRow
  <1>2. CASE rowOpen
    <2>1. UNCHANGED history
      BY <1>2 DEF Api!WriteRow
    <2>2. HiddenRows' \in SUBSET (HiddenRows \cup {r})
      BY <1>1, <2>1 DEF HiddenRows, EventsTypeOK
    <2>3. IsFiniteSet(HiddenRows) /\ Cardinality(HiddenRows) \in Nat
      BY HiddenFinite DEF HiddenRows
    <2>4. /\ IsFiniteSet(HiddenRows \cup {r})
          /\ Cardinality(HiddenRows \cup {r}) <= Cardinality(HiddenRows) + 1
      <3>1. /\ IsFiniteSet(HiddenRows \cup {r})
            /\ Cardinality(HiddenRows \cup {r}) =
                   IF r \in HiddenRows THEN Cardinality(HiddenRows)
                   ELSE Cardinality(HiddenRows) + 1
        BY <2>3, FS_AddElement, Zenon
      <3>. QED  BY <2>3, <3>1
    <2>5. Cardinality(HiddenRows') <= Cardinality(HiddenRows \cup {r})
      BY <2>2, <2>4, FS_Subset
    <2>6. Cardinality(HiddenRows') \in Nat
      BY HiddenFinite DEF HiddenRows
    <2>7. Cardinality(HiddenRows') <= writeFailures
      <3>1. Cardinality(HiddenRows) + 1 <= writeFailures
        BY <1>2 DEF HiddenRowsInv
      <3>2. Cardinality(HiddenRows \cup {r}) \in Nat
        BY <2>4, FS_CardinalityType
      <3>. QED  BY <2>3, <2>4, <2>5, <2>6, <3>1, <3>2 DEF EventsTypeOK
    <2>8. Cardinality(HiddenRows)' <= writeFailures'
      BY <2>7
    <2>9. \A x \in EventRows : history'[x] <= rows'[x]
      BY <1>1, <2>1 DEF HiddenRowsInv, EventsTypeOK
    <2>10. rowSpoiled = TRUE /\ writeFailures > 0
      BY <1>2 DEF HiddenRowsInv, EventsTypeOK
    <2>11. HiddenRowsInv'
      BY <1>1, <2>6, <2>8, <2>9, <2>10 DEF HiddenRowsInv
    <2>. QED  BY <1>1, <2>11 DEF EventsTypeOK
  <1>3. CASE ~rowOpen
    <2>1. history' = [history EXCEPT ![r] = @ + 1]
      BY <1>3 DEF Api!WriteRow
    <2>2. HiddenRows' = HiddenRows
      BY <1>1, <2>1 DEF HiddenRows, EventsTypeOK
    <2>3. \A x \in EventRows : history'[x] <= rows'[x]
      BY <1>1, <2>1 DEF HiddenRowsInv, EventsTypeOK
    <2>4. ~rowSpoiled => history' = rows'
      BY <1>1, <2>1 DEF HiddenRowsInv
    <2>5. Cardinality(HiddenRows) \in Nat
      BY HiddenFinite DEF HiddenRows
    <2>. QED  BY <1>1, <1>3, <2>2, <2>3, <2>4, <2>5 DEF HiddenRowsInv, EventsTypeOK
  <1>. QED  BY <1>1, <1>2, <1>3

\* A write that fails uses up one failure for the row it may hide.
LEMMA RowFailsKept ==
    ASSUME EventsTypeOK, HiddenRowsInv, Api!RowFails
    PROVE  /\ rowOpen' \in BOOLEAN /\ rowSpoiled' \in BOOLEAN /\ writeFailures' \in Nat
           /\ UNCHANGED <<history, rows>>
           /\ HiddenRowsInv'
  <1>1. /\ rowOpen' \in BOOLEAN /\ rowSpoiled' = (rowSpoiled \/ rowOpen')
        /\ writeFailures' = writeFailures + 1 /\ UNCHANGED <<history, rows>>
    BY DEF Api!RowFails, EventsTypeOK
  <1>2. HiddenRows' = HiddenRows /\ Cardinality(HiddenRows) \in Nat
    BY <1>1, HiddenFinite DEF HiddenRows
  <1>3. Cardinality(HiddenRows)' + 1 <= writeFailures'
    BY <1>1, <1>2 DEF HiddenRowsInv, EventsTypeOK
  <1>. QED  BY <1>1, <1>2, <1>3 DEF HiddenRowsInv, EventsTypeOK

\* A step that leaves the file alone.
LEMMA FileKept ==
    ASSUME EventsTypeOK, HiddenRowsInv,
           UNCHANGED <<history, rowOpen, rowSpoiled, rows>>,
           writeFailures' \in {writeFailures, writeFailures + 1}
    PROVE  HiddenRowsInv'
  <1>1. HiddenRows' = HiddenRows
    BY DEF HiddenRows
  <1>2. Cardinality(HiddenRows) \in Nat
    BY HiddenFinite DEF HiddenRows
  <1>3. Cardinality(HiddenRows) + (IF rowOpen THEN 1 ELSE 0) <= writeFailures'
    BY <1>2 DEF HiddenRowsInv, EventsTypeOK
  <1>. QED  BY <1>1, <1>3 DEF HiddenRowsInv, EventsTypeOK

LEMMA ApiInvInit == Api!ApiInit => ApiInv
  <1>. SUFFICES ASSUME Api!ApiInit PROVE ApiInv
    OBVIOUS
  <1>1. EventsTypeOK /\ \A r \in EventRows : history[r] = 0 /\ rows[r] = 0
    BY DEF Api!ApiInit, EventsTypeOK, EventRows
  <1>2. RanOnlyRecorded
    BY <1>1 DEF Api!ApiInit, RanOnlyRecorded, EventRows
  <1>3. HiddenRows = {}
    BY <1>1 DEF HiddenRows
  <1>4. Cardinality(HiddenRows) = 0
    BY <1>3, FS_EmptySet
  <1>5. HiddenRowsInv
    BY <1>1, <1>4 DEF Api!ApiInit, HiddenRowsInv
  <1>. QED  BY <1>1, <1>2, <1>5 DEF ApiInv

LEMMA ApiInvStep ==
    ASSUME ApiInv, [Api!ApiNext]_apiVars
    PROVE  ApiInv'
  <1> USE DEF ApiInv
  <1>1. ASSUME NEW e \in Events, Api!Post(e)
        PROVE  ApiInv'
    <2>1. HiddenRowsInv'
      BY <1>1, FileKept DEF Api!Post, Api!fileVars, EventsTypeOK
    <2>. QED  BY <1>1, <2>1 DEF Api!Post, Api!Publishing, Api!fileVars, EventsTypeOK,
              RanOnlyRecorded
  <1>2. ASSUME NEW e \in Events, Api!Record(e)
        PROVE  ApiInv'
    <2>1. Api!WriteRow(e) /\ e \in EventRows /\ UNCHANGED <<ran, accepted, writeFailures>>
      BY <1>2 DEF Api!Record, EventRows
    <2>2. /\ history' \in [EventRows -> Nat] /\ rows' \in [EventRows -> Nat]
          /\ rowOpen' \in BOOLEAN /\ rowSpoiled' \in BOOLEAN
          /\ rows' = [rows EXCEPT ![e] = @ + 1]
          /\ HiddenRowsInv'
      BY <2>1, RowKept
    <2>3. publishing' = [publishing EXCEPT ![e] = "recorded"]
      BY <1>2 DEF Api!Record, Api!Publishing
    <2>4. EventsTypeOK'
      BY <2>1, <2>2, <2>3 DEF EventsTypeOK
    <2>5. \A x \in EventRows : rows'[x] = IF x = e THEN rows[x] + 1 ELSE rows[x]
      BY <2>2 DEF EventsTypeOK
    <2>6. RanOnlyRecorded'
      BY <2>1, <2>3, <2>5 DEF RanOnlyRecorded, EventsTypeOK, EventRows
    <2>. QED  BY <2>2, <2>4, <2>6
  <1>3. ASSUME NEW e \in Events, Api!RecordFails(e)
        PROVE  ApiInv'
    <2>1. Api!RowFails /\ UNCHANGED <<ran, accepted>>
      BY <1>3 DEF Api!RecordFails
    <2>2. /\ rowOpen' \in BOOLEAN /\ rowSpoiled' \in BOOLEAN /\ writeFailures' \in Nat
          /\ UNCHANGED <<history, rows>>
          /\ HiddenRowsInv'
      BY <2>1, RowFailsKept
    <2>. QED  BY <1>3, <2>1, <2>2 DEF Api!RecordFails, Api!Publishing, EventsTypeOK,
              RanOnlyRecorded
  <1>4. ASSUME NEW e \in Events, Api!Signal(e)
        PROVE  ApiInv'
    <2>1. HiddenRowsInv'
      BY <1>4, FileKept DEF Api!Signal, Api!fileVars, EventsTypeOK
    <2>2. ran[e] < rows[e] /\ ran[e] \in Nat /\ rows[e] \in Nat
      BY <1>4 DEF Api!Signal, RanOnlyRecorded, EventsTypeOK, EventRows
    <2>3. /\ ran' \in [Events -> Nat]
          /\ \A x \in Events \ {e} : ran'[x] = ran[x]
          /\ ran'[e] <= rows[e]
      BY <1>4, <2>2 DEF Api!Signal, EventsTypeOK
    <2>4. /\ publishing' = [publishing EXCEPT ![e] = "no"] /\ UNCHANGED rows
          /\ accepted' = accepted \cup {e}
      BY <1>4 DEF Api!Signal, Api!Publishing, Api!fileVars
    <2>5. RanOnlyRecorded'
      BY <2>2, <2>3, <2>4 DEF RanOnlyRecorded, EventsTypeOK
    <2>. QED  BY <1>4, <2>1, <2>3, <2>4, <2>5 DEF Api!Signal, Api!fileVars, EventsTypeOK
  <1>5. CASE Api!Crash
    <2>1. HiddenRowsInv'
      BY <1>5, FileKept DEF Api!Crash, Api!fileVars, EventsTypeOK
    <2>. QED  BY <1>5, <2>1 DEF Api!Crash, Api!fileVars, EventsTypeOK, RanOnlyRecorded
  <1>6. ASSUME NEW d \in Decisions, Api!Tell(d)
        PROVE  ApiInv'
    <2>1. UNCHANGED <<publishing, ran, accepted>> /\ d \in EventRows
      BY <1>6 DEF Api!Tell, EventRows
    <2>2. CASE Api!WriteRow(d) /\ UNCHANGED writeFailures
      <3>1. /\ history' \in [EventRows -> Nat] /\ rows' \in [EventRows -> Nat]
            /\ rowOpen' \in BOOLEAN /\ rowSpoiled' \in BOOLEAN
            /\ rows' = [rows EXCEPT ![d] = @ + 1]
            /\ HiddenRowsInv'
        BY <2>1, <2>2, RowKept
      <3>2. \A x \in EventRows : rows'[x] >= rows[x]
        BY <3>1 DEF EventsTypeOK
      <3>3. RanOnlyRecorded'
        BY <2>1, <3>1, <3>2 DEF RanOnlyRecorded, EventsTypeOK, EventRows
      <3>. QED  BY <2>1, <2>2, <3>1, <3>3 DEF EventsTypeOK
    <2>3. CASE Api!RowFails
      <3>1. /\ rowOpen' \in BOOLEAN /\ rowSpoiled' \in BOOLEAN /\ writeFailures' \in Nat
            /\ UNCHANGED <<history, rows>>
            /\ HiddenRowsInv'
        BY <2>3, RowFailsKept
      <3>. QED  BY <2>1, <3>1 DEF EventsTypeOK, RanOnlyRecorded
    <2>. QED  BY <1>6, <2>2, <2>3 DEF Api!Tell
  <1>7. ASSUME NEW app, NEW action, Api!Override(app, action)
        PROVE  ApiInv'
    <2>1. HiddenRowsInv'
      BY <1>7, FileKept DEF Api!Override, Api!eventVars, Api!fileVars, EventsTypeOK
    <2>. QED  BY <1>7, <2>1 DEF Api!Override, Api!eventVars, Api!fileVars, EventsTypeOK,
              RanOnlyRecorded
  <1>8. CASE UNCHANGED apiVars
    <2>1. HiddenRowsInv'
      BY <1>8, FileKept DEF apiVars, Api!eventVars, Api!fileVars, EventsTypeOK
    <2>. QED  BY <1>8, <2>1 DEF apiVars, Api!eventVars, Api!fileVars, EventsTypeOK,
              RanOnlyRecorded
  <1>. QED  BY <1>1, <1>2, <1>3, <1>4, <1>5, <1>6, <1>7, <1>8 DEF Api!ApiNext

\* An accepted event that the timeline does not show is a hidden row.
LEMMA ApiInvShows ==
    ASSUME ApiInv
    PROVE  Api!EventsRunOnlyRecorded
  <1> USE DEF ApiInv
  <1>1. \A e \in Events : ran[e] <= rows[e]
    BY DEF RanOnlyRecorded
  <1>2. Cardinality(accepted \ Api!Timeline) <= writeFailures
    <2>1. accepted \ Api!Timeline \in SUBSET HiddenRows
      BY DEF Api!Timeline, HiddenRows, RanOnlyRecorded, EventsTypeOK, EventRows
    <2>2. IsFiniteSet(HiddenRows) /\ Cardinality(HiddenRows) \in Nat
      BY HiddenFinite DEF HiddenRows
    <2>3. Cardinality(accepted \ Api!Timeline) <= Cardinality(HiddenRows)
      BY <2>1, <2>2, FS_Subset
    <2>4. Cardinality(accepted \ Api!Timeline) \in Nat
      BY <2>1, HiddenFinite DEF HiddenRows
    <2>5. Cardinality(HiddenRows) <= writeFailures
      BY <2>2 DEF HiddenRowsInv, EventsTypeOK
    <2>. QED  BY <2>2, <2>3, <2>4, <2>5 DEF EventsTypeOK
  <1>3. IF Api!Metrics.status = "available" THEN Api!Metrics.score = Api!Score(rows)
        ELSE writeFailures > 0
    <2>1. CASE rowSpoiled
      BY <2>1 DEF Api!Metrics, Api!Unavailable, HiddenRowsInv
    <2>2. CASE ~rowSpoiled
      <3>1. history = rows
        BY <2>2 DEF HiddenRowsInv
      <3>2. Api!Metrics = [status |-> "available", score |-> Api!Score(rows)]
        BY <2>2, <3>1 DEF Api!Metrics
      <3>. QED  BY <3>2
    <2>. QED  BY <2>1, <2>2
  <1>4. Api!Cardinality(accepted \ Api!Timeline) <= writeFailures
    BY <1>2, SameCardinality
  <1>. QED  BY <1>1, <1>3, <1>4 DEF Api!EventsRunOnlyRecorded

----------------------------------------------------------------------------
(* The VANA page: as long as no region was selected over a waiting pipeline *)
(* one pipeline waits at a time, and what is shown is as far as it got.      *)

Panels == {"group1", "group2", "group4"}
Panel == [status : {"idle", "loading", "success", "error"},
          of : Page!Observations \cup {Page!None}]
Pipeline == [stage : Panels \cup {"done"}, of : Page!Observations \cup {Page!None}]

PageTypeOK ==
    /\ selected \in Page!Observations \cup {Page!None}
    /\ started \in 0..MaxPipelines
    /\ shown \in [Panels -> Panel]
    /\ pipelines \in [1..MaxPipelines -> Pipeline]
    /\ overlapped \in BOOLEAN

\* A pipeline that was not started waits for nothing.
LaterPipelinesRest == \A p \in 1..MaxPipelines : p > started => pipelines[p].stage = "done"

\* The one pipeline that waits is about the selected observation, and its stage
\* is the one that loads.
OneWaits ==
    /\ \A p, q \in 1..MaxPipelines :
          pipelines[p].stage # "done" /\ pipelines[q].stage # "done" => p = q
    /\ \A p \in 1..MaxPipelines : pipelines[p].stage # "done" =>
          pipelines[p].of = selected /\ shown[pipelines[p].stage].status = "loading"
    /\ \A g \in Panels : shown[g].status = "loading" =>
          \E p \in 1..MaxPipelines : pipelines[p].stage = g

\* A stage shows an answer when the ones before it do.
AnswersInOrder ==
    /\ \A g \in Panels : shown[g].status = "success" => shown[g].of = selected
    /\ shown["group2"].status \in {"loading", "success"} => shown["group1"].status = "success"
    /\ shown["group4"].status \in {"loading", "success"} =>
          shown["group1"].status = "success" /\ shown["group2"].status = "success"

PageInv ==
    /\ PageTypeOK /\ LaterPipelinesRest
    /\ ~overlapped => OneWaits /\ AnswersInOrder

LEMMA PageNames == Page!Stages = Panels /\ Page!Done \in Pipeline /\ Page!Done.stage = "done"
BY DEF Page!Stages, Panels, Page!Done, Pipeline

LEMMA PageInvInit == Page!PageInit => PageInv
<1>. SUFFICES ASSUME Page!PageInit PROVE PageInv
  OBVIOUS
<1>1. /\ shown \in [Panels -> Panel] /\ \A g \in Panels : shown[g].status = "idle"
  BY PageNames DEF Page!PageInit, Page!Blank, Panel
<1>2. /\ pipelines \in [1..MaxPipelines -> Pipeline]
      /\ \A p \in 1..MaxPipelines : pipelines[p].stage = "done"
  BY PageNames DEF Page!PageInit
<1>3. selected = Page!None /\ started = 0 /\ overlapped = FALSE
  BY DEF Page!PageInit
<1>4. PageTypeOK
  <2>1. started \in 0..MaxPipelines
    BY <1>3, PipelinesAssumption
  <2>2. overlapped \in BOOLEAN /\ selected \in Page!Observations \cup {Page!None}
    BY <1>3
  <2>. QED  BY <1>1, <1>2, <2>1, <2>2 DEF PageTypeOK
<1>5. OneWaits /\ AnswersInOrder /\ LaterPipelinesRest
  BY <1>1, <1>2 DEF OneWaits, AnswersInOrder, LaterPipelinesRest, Panels
<1>. QED  BY <1>4, <1>5 DEF PageInv

LEMMA PanelsShow ==
    ASSUME NEW show \in [Panels -> Panel], NEW g \in Panels,
           NEW of \in Page!Observations \cup {Page!None}
    PROVE  /\ Page!Loading(show, g) \in [Panels -> Panel]
           /\ Page!Success(show, g, of) \in [Panels -> Panel]
           /\ Page!Failure(show, g) \in [Panels -> Panel]
           /\ Page!Loading(show, g)[g].status = "loading"
           /\ Page!Success(show, g, of)[g].status = "success"
           /\ Page!Success(show, g, of)[g].of = of
           /\ Page!Failure(show, g)[g].status = "error"
           /\ \A h \in Panels : h # g =>
                 /\ Page!Loading(show, g)[h] = show[h]
                 /\ Page!Success(show, g, of)[h] = show[h]
                 /\ Page!Failure(show, g)[h] = show[h]
<1>1. show[g] \in Panel
  OBVIOUS
<1>2. /\ [status |-> "loading", of |-> Page!None] \in Panel
      /\ [status |-> "success", of |-> of] \in Panel
      /\ [show[g] EXCEPT !.status = "error"] \in Panel
      /\ [show[g] EXCEPT !.status = "error"].status = "error"
  BY <1>1 DEF Panel
<1>. QED  BY <1>2 DEF Page!Loading, Page!Success, Page!Failure

\* What a start of a pipeline does
LEMMA BeginEffect ==
    ASSUME PageTypeOK, LaterPipelinesRest, NEW of \in Page!Observations, Page!Begin(of)
    PROVE  /\ started' = started + 1 /\ started + 1 \in 1..MaxPipelines /\ selected' = of
           /\ shown' \in [Panels -> Panel]
           /\ shown'["group1"].status = "loading"
           /\ shown'["group2"].status = "idle" /\ shown'["group4"].status = "idle"
           /\ pipelines' \in [1..MaxPipelines -> Pipeline]
           /\ pipelines'[started + 1].stage = "group1" /\ pipelines'[started + 1].of = of
           /\ \A p \in 1..MaxPipelines : p # started + 1 => pipelines'[p] = pipelines[p]
<1>1. /\ started' = started + 1 /\ started + 1 \in 1..MaxPipelines /\ selected' = of
  BY PipelinesAssumption DEF Page!Begin, PageTypeOK
<1>. DEFINE blanks == [g \in Panels |-> Page!Blank]
<1>2. /\ blanks \in [Panels -> Panel] /\ \A g \in Panels : blanks[g].status = "idle"
  BY DEF Page!Blank, Panel
<1>3. shown' = Page!Loading(blanks, "group1")
  BY PageNames DEF Page!Begin
<1>. HIDE DEF blanks
<1>4. /\ shown' \in [Panels -> Panel]
      /\ shown'["group1"].status = "loading"
      /\ shown'["group2"].status = "idle" /\ shown'["group4"].status = "idle"
  BY <1>2, <1>3, PanelsShow DEF Panels
<1>. DEFINE r == [stage |-> "group1", of |-> of]
<1>5. r \in Pipeline /\ r.stage = "group1" /\ r.of = of
  BY DEF Pipeline, Panels
<1>6. pipelines' = [pipelines EXCEPT ![started + 1] = r]
  BY DEF Page!Begin
<1>. HIDE DEF r
<1>7. /\ pipelines' \in [1..MaxPipelines -> Pipeline]
      /\ pipelines'[started + 1] = r
      /\ \A p \in 1..MaxPipelines : p # started + 1 => pipelines'[p] = pipelines[p]
  BY <1>1, <1>5, <1>6 DEF PageTypeOK
<1>. QED  BY <1>1, <1>4, <1>5, <1>7

\* A pipeline that begins while nobody waits is the one that waits.
LEMMA BeginKeeps ==
    ASSUME PageInv, NEW of \in Page!Observations, Page!Begin(of),
           overlapped' \in BOOLEAN, overlapped => overlapped',
           ~overlapped' => \A p \in 1..MaxPipelines : pipelines[p].stage = "done"
    PROVE  PageInv'
<1>1. PageTypeOK /\ LaterPipelinesRest
  BY DEF PageInv
<1>2. PageTypeOK'
  BY <1>1, BeginEffect DEF PageTypeOK
<1>3. LaterPipelinesRest'
  BY <1>1, BeginEffect DEF LaterPipelinesRest, PageTypeOK
<1>4. ASSUME ~overlapped' PROVE OneWaits' /\ AnswersInOrder'
  <2>1. \A p \in 1..MaxPipelines : pipelines'[p].stage # "done" => p = started + 1
    BY <1>1, <1>4, BeginEffect
  <2>2. OneWaits'
    <3>1. \A p, q \in 1..MaxPipelines :
             pipelines'[p].stage # "done" /\ pipelines'[q].stage # "done" => p = q
      BY <2>1
    <3>2. \A p \in 1..MaxPipelines : pipelines'[p].stage # "done" =>
             pipelines'[p].of = selected' /\ shown'[pipelines'[p].stage].status = "loading"
      BY <1>1, <2>1, BeginEffect
    <3>3. \A g \in Panels : shown'[g].status = "loading" => g = "group1"
      BY <1>1, BeginEffect DEF Panels
    <3>4. \A g \in Panels : shown'[g].status = "loading" =>
             \E p \in 1..MaxPipelines : pipelines'[p].stage = g
      BY <1>1, <3>3, BeginEffect
    <3>. QED  BY <3>1, <3>2, <3>4 DEF OneWaits
  <2>3. AnswersInOrder'
    BY <1>1, BeginEffect DEF AnswersInOrder, Panels
  <2>. QED  BY <2>2, <2>3
<1>. QED  BY <1>2, <1>3, <1>4 DEF PageInv

LEMMA NobodyWaits ==
    ASSUME PageInv, ~overlapped, ~Page!Running
    PROVE  \A p \in 1..MaxPipelines : pipelines[p].stage = "done"
<1>1. \A p \in 1..MaxPipelines : pipelines[p].stage \in Panels \cup {"done"}
  BY DEF PageInv, PageTypeOK, Pipeline
<1>. QED  BY <1>1, PageNames DEF PageInv, OneWaits, Page!Running

\* What an answer or a failure does: the stage g of p, and the next one
LEMMA AnsweredEffect ==
    ASSUME PageTypeOK, NEW p \in 1..MaxPipelines, Page!Answered(p),
           NEW g \in Panels, g = pipelines[p].stage
    PROVE  /\ UNCHANGED <<selected, started, overlapped>>
           /\ shown' \in [Panels -> Panel]
           /\ pipelines' \in [1..MaxPipelines -> Pipeline]
           /\ \A q \in 1..MaxPipelines : q # p => pipelines'[q] = pipelines[q]
           /\ shown'[g].status = "success" /\ shown'[g].of = pipelines[p].of
           /\ IF g = "group4"
              THEN /\ pipelines'[p].stage = "done"
                   /\ \A h \in Panels : h # g => shown'[h] = shown[h]
              ELSE /\ pipelines'[p].stage = Page!StageAfter(g)
                   /\ pipelines'[p].of = pipelines[p].of
                   /\ Page!StageAfter(g) \in Panels /\ Page!StageAfter(g) # g
                   /\ shown'[Page!StageAfter(g)].status = "loading"
                   /\ \A h \in Panels : h \notin {g, Page!StageAfter(g)} =>
                         shown'[h] = shown[h]
<1>1. /\ shown \in [Panels -> Panel]
      /\ pipelines \in [1..MaxPipelines -> Pipeline] /\ pipelines[p] \in Pipeline
  BY DEF PageTypeOK
<1>2. PICK of \in Page!Observations \cup {Page!None} : of = pipelines[p].of
  BY <1>1 DEF Pipeline
<1>. DEFINE answered1 == Page!Success(shown, g, of)
<1>3. /\ answered1 \in [Panels -> Panel]
      /\ answered1[g].status = "success" /\ answered1[g].of = of
      /\ \A h \in Panels : h # g => answered1[h] = shown[h]
  BY <1>1, PanelsShow
<1>. HIDE DEF answered1
<1>4. UNCHANGED <<selected, started, overlapped>>
  BY DEF Page!Answered
<1>5. CASE g = "group4"
  <2>1. shown' = answered1 /\ pipelines' = [pipelines EXCEPT ![p] = Page!Done]
    BY <1>2, <1>5 DEF Page!Answered, answered1
  <2>2. /\ pipelines' \in [1..MaxPipelines -> Pipeline]
        /\ pipelines'[p].stage = "done"
        /\ \A q \in 1..MaxPipelines : q # p => pipelines'[q] = pipelines[q]
    BY <1>1, <2>1, PageNames
  <2>. QED  BY <1>2, <1>3, <1>4, <1>5, <2>1, <2>2
<1>6. CASE g # "group4"
  <2>. DEFINE next == Page!StageAfter(g)
  <2>1. next \in Panels /\ next # g
    BY <1>6 DEF Page!StageAfter, Panels
  <2>2. /\ shown' = Page!Loading(answered1, next)
        /\ pipelines' = [pipelines EXCEPT ![p].stage = next]
    BY <1>2, <1>6 DEF Page!Answered, answered1
  <2>. HIDE DEF next
  <2>3. /\ shown' \in [Panels -> Panel] /\ shown'[next].status = "loading"
        /\ \A h \in Panels : h # next => shown'[h] = answered1[h]
    BY SMTT(20), <1>2, <1>3, <2>1, <2>2, PanelsShow
  <2>4. PICK r \in Pipeline : r = [pipelines[p] EXCEPT !.stage = next]
    BY <1>1, <2>1 DEF Pipeline
  <2>5. r.stage = next /\ r.of = of
    BY <1>1, <1>2, <2>4 DEF Pipeline
  <2>6. pipelines' = [pipelines EXCEPT ![p] = r]
    BY <1>1, <2>2, <2>4
  <2>7. /\ pipelines' \in [1..MaxPipelines -> Pipeline] /\ pipelines'[p] = r
        /\ \A q \in 1..MaxPipelines : q # p => pipelines'[q] = pipelines[q]
    BY <1>1, <2>6
  <2>. QED  BY <1>2, <1>3, <1>4, <1>6, <2>1, <2>3, <2>5, <2>7 DEF next
<1>. QED  BY <1>5, <1>6

LEMMA AnsweredKeeps ==
    ASSUME PageInv, NEW p \in 1..MaxPipelines, Page!Answered(p)
    PROVE  PageInv'
<1>1. PageTypeOK /\ LaterPipelinesRest /\ pipelines[p] \in Pipeline
  BY DEF PageInv, PageTypeOK
<1>2. PICK g \in Panels : g = pipelines[p].stage
  BY <1>1 DEF Page!Answered, Pipeline
<1>3. PageTypeOK'
  BY <1>1, <1>2, AnsweredEffect DEF PageTypeOK
<1>4. LaterPipelinesRest'
  <2>1. ~(p > started)
    BY <1>1, <1>2 DEF LaterPipelinesRest, Panels
  <2>. QED  BY <1>1, <1>2, <2>1, AnsweredEffect DEF LaterPipelinesRest
<1>5. ASSUME ~overlapped' PROVE OneWaits' /\ AnswersInOrder'
  <2>1. OneWaits /\ AnswersInOrder
    BY <1>1, <1>2, <1>5, AnsweredEffect DEF PageInv
  <2>2. \A q \in 1..MaxPipelines : q # p => pipelines[q].stage = "done"
    BY <1>2, <2>1 DEF OneWaits, Panels
  <2>3. \A q \in 1..MaxPipelines : q # p => pipelines'[q].stage = "done"
    BY <1>1, <1>2, <2>2, AnsweredEffect
  <2>4. pipelines[p].of = selected /\ shown[g].status = "loading" /\ selected' = selected
    BY <1>1, <1>2, <2>1, AnsweredEffect DEF OneWaits, Panels
  <2>5. \A h \in Panels : h # g => shown[h].status # "loading"
    BY <1>2, <2>1, <2>2 DEF OneWaits, Panels
  <2>6. CASE g = "group4"
    <3>1. /\ pipelines'[p].stage = "done"
          /\ \A h \in Panels : h # g => shown'[h] = shown[h]
          /\ shown'[g].status = "success" /\ shown'[g].of = selected
      <4>1. /\ shown'[g].status = "success" /\ shown'[g].of = pipelines[p].of
            /\ pipelines'[p].stage = "done"
            /\ \A h \in Panels : h # g => shown'[h] = shown[h]
        BY ZenonT(40), <1>1, <1>2, <2>6, AnsweredEffect
      <4>. QED  BY <2>4, <4>1
    <3>2. OneWaits'
      BY <2>3, <2>5, <3>1 DEF OneWaits
    <3>3. AnswersInOrder'
      BY <2>1, <2>4, <2>6, <3>1 DEF AnswersInOrder, Panels
    <3>. QED  BY <3>2, <3>3
  <2>7. CASE g # "group4"
    <3>. DEFINE next == Page!StageAfter(g)
    <3>1. /\ pipelines'[p].stage = next /\ pipelines'[p].of = selected
          /\ next \in Panels /\ next # g /\ shown'[next].status = "loading"
          /\ \A h \in Panels : h \notin {g, next} => shown'[h] = shown[h]
          /\ shown'[g].status = "success" /\ shown'[g].of = selected
      BY <1>1, <1>2, <2>4, <2>7, AnsweredEffect
    <3>2. \/ g = "group1" /\ next = "group2"
          \/ g = "group2" /\ next = "group4"
      BY <2>7 DEF Page!StageAfter, Panels
    <3>. HIDE DEF next
    <3>3. OneWaits'
      <4>1. \A q \in 1..MaxPipelines : pipelines'[q].stage # "done" => q = p
        BY <2>3
      <4>2. \A h \in Panels : shown'[h].status = "loading" => h = next
        BY <2>5, <3>1
      <4>3. \A q \in 1..MaxPipelines : pipelines'[q].stage # "done" =>
               pipelines'[q].of = selected' /\ shown'[pipelines'[q].stage].status = "loading"
        BY <2>4, <3>1, <4>1
      <4>. QED  BY <3>1, <4>1, <4>2, <4>3 DEF OneWaits
    <3>4. AnswersInOrder'
      BY <2>1, <2>4, <3>1, <3>2 DEF AnswersInOrder, Panels
    <3>. QED  BY <3>3, <3>4
  <2>. QED  BY <2>6, <2>7
<1>. QED  BY <1>3, <1>4, <1>5 DEF PageInv

LEMMA FailedKeeps ==
    ASSUME PageInv, NEW p \in 1..MaxPipelines, Page!Failed(p)
    PROVE  PageInv'
<1>1. PageTypeOK /\ LaterPipelinesRest /\ pipelines[p] \in Pipeline
  BY DEF PageInv, PageTypeOK
<1>2. PICK g \in Panels : g = pipelines[p].stage
  BY <1>1 DEF Page!Failed, Pipeline
<1>3. /\ shown' \in [Panels -> Panel] /\ shown'[g].status = "error"
      /\ \A h \in Panels : h # g => shown'[h] = shown[h]
      /\ pipelines' \in [1..MaxPipelines -> Pipeline] /\ pipelines'[p].stage = "done"
      /\ \A q \in 1..MaxPipelines : q # p => pipelines'[q] = pipelines[q]
      /\ UNCHANGED <<selected, started, overlapped>>
  <2>1. /\ shown' = Page!Failure(shown, g) /\ pipelines' = [pipelines EXCEPT ![p] = Page!Done]
        /\ UNCHANGED <<selected, started, overlapped>>
    BY <1>2 DEF Page!Failed
  <2>2. /\ shown' \in [Panels -> Panel] /\ shown'[g].status = "error"
        /\ \A h \in Panels : h # g => shown'[h] = shown[h]
    <3>1. shown \in [Panels -> Panel]
      BY <1>1 DEF PageTypeOK
    <3>2. PICK of \in Page!Observations \cup {Page!None} : TRUE
      OBVIOUS
    <3>. QED  BY <2>1, <3>1, <3>2, PanelsShow
  <2>3. /\ pipelines' \in [1..MaxPipelines -> Pipeline] /\ pipelines'[p].stage = "done"
        /\ \A q \in 1..MaxPipelines : q # p => pipelines'[q] = pipelines[q]
    BY <1>1, <2>1, PageNames DEF PageTypeOK
  <2>. QED  BY <2>1, <2>2, <2>3
<1>4. PageTypeOK' /\ LaterPipelinesRest'
  BY <1>1, <1>3 DEF PageTypeOK, LaterPipelinesRest
<1>5. ASSUME ~overlapped' PROVE OneWaits' /\ AnswersInOrder'
  <2>1. OneWaits /\ AnswersInOrder
    BY <1>3, <1>5 DEF PageInv
  <2>2. \A q \in 1..MaxPipelines : pipelines[q].stage # "done" => q = p
    BY <1>2, <2>1 DEF OneWaits, Panels
  <2>3. \A q \in 1..MaxPipelines : pipelines'[q].stage = "done"
    BY <1>3, <2>2
  <2>4. \A h \in Panels : h # g => shown[h].status # "loading"
    BY <1>2, <2>1, <2>2 DEF OneWaits, Panels
  <2>5. shown[g].status = "loading"
    BY <1>2, <2>1 DEF OneWaits, Panels
  <2>6. OneWaits'
    BY <1>3, <2>3, <2>4 DEF OneWaits
  <2>7. AnswersInOrder'
    BY <1>3, <2>1, <2>4, <2>5 DEF AnswersInOrder, Panels
  <2>. QED  BY <2>6, <2>7
<1>. QED  BY <1>4, <1>5 DEF PageInv

LEMMA PageInvStep == PageInv /\ [Page!PageNext]_pageVars => PageInv'
<1>. SUFFICES ASSUME PageInv, [Page!PageNext]_pageVars PROVE PageInv'
  OBVIOUS
<1>1. ASSUME NEW of \in Page!Observations, Page!SelectRegion(of) PROVE PageInv'
  <2>1. overlapped' = (overlapped \/ \E p \in 1..started : pipelines[p].stage # "done")
    BY <1>1 DEF Page!SelectRegion
  <2>2. ~overlapped' => \A p \in 1..MaxPipelines : pipelines[p].stage = "done"
    <3>. SUFFICES ASSUME ~overlapped', NEW p \in 1..MaxPipelines
                  PROVE  pipelines[p].stage = "done"
      OBVIOUS
    <3>1. p > started \/ p \in 1..started
      BY PipelinesAssumption DEF PageInv, PageTypeOK
    <3>. QED  BY <2>1, <3>1 DEF PageInv, LaterPipelinesRest
  <2>3. overlapped' \in BOOLEAN /\ (overlapped => overlapped')
    BY <2>1 DEF PageInv, PageTypeOK
  <2>. QED  BY <1>1, <2>2, <2>3, BeginKeeps DEF Page!SelectRegion
<1>2. ASSUME NEW of \in Page!Observations, Page!SubmitCustom(of) PROVE PageInv'
  <2>1. Page!Begin(of) /\ ~Page!Running /\ UNCHANGED overlapped
    BY <1>2 DEF Page!SubmitCustom
  <2>2. overlapped \in BOOLEAN
    BY DEF PageInv, PageTypeOK
  <2>. QED  BY <2>1, <2>2, BeginKeeps, NobodyWaits
<1>3. CASE Page!Replay
  <2>1. /\ Page!Begin(selected) /\ ~Page!Running /\ UNCHANGED overlapped
        /\ selected \in Page!Observations
    BY <1>3 DEF Page!Replay, PageInv, PageTypeOK
  <2>2. overlapped \in BOOLEAN
    BY DEF PageInv, PageTypeOK
  <2>3. PICK of \in Page!Observations : of = selected
    BY <2>1
  <2>4. Page!Begin(of)
    BY <2>1, <2>3
  <2>. QED  BY <2>1, <2>2, <2>4, BeginKeeps, NobodyWaits
<1>4. CASE UNCHANGED pageVars
  BY <1>4 DEF pageVars, PageInv, PageTypeOK, LaterPipelinesRest, OneWaits, AnswersInOrder
<1>. QED
  BY <1>1, <1>2, <1>3, <1>4, AnsweredKeeps, FailedKeeps
     DEF Page!PageNext, pageVars, Page!pageVars

LEMMA PageInvShows == PageInv => Page!OnlyOverlapMixesObservations
BY PageNames DEF PageInv, PageTypeOK, AnswersInOrder, Page!OnlyOverlapMixesObservations
----------------------------------------------------------------------------
(* Runtime reports: the stage of the trace is that of the one ingest that   *)
(* is in flight, and the rows of the dashboard show the last action, as     *)
(* long as nothing comes in between.                                        *)

IngestPlaces == {"idle", "detection", "decide", "payload_emitted", "action_received", "execute",
                 "execution_result", "verification", "ensure", "done"}

IngestTypeOK ==
    /\ ingestAt \in [Calls -> IngestPlaces]
    /\ ingestAnswer \in [Calls -> {"none", "executed", "blocked", "raised"}]
    /\ confirmed \in SUBSET Calls /\ unbuilt \in SUBSET Calls
    /\ overlappedIngests \in SUBSET Calls /\ unlogged \in SUBSET Calls
    /\ disorder \in BOOLEAN

\* The stage that was logged last when an ingest gets to a place
StageBefore(p) ==
    CASE p = "detection" -> "none"
      [] p \in {"decide", "payload_emitted"} -> "detection"
      [] p = "action_received" -> "payload_emitted"
      [] p \in {"execute", "execution_result"} -> "action_received"
      [] p = "verification" -> "execution_result"
      [] OTHER -> "verification"

\* An ingest that nothing overlapped is alone, the trace is at its stage, and
\* if nothing ever overlapped the file ends with that.
OnTrack(i) ==
    i \in Runtime!InFlight \ overlappedIngests =>
        /\ \A j \in Runtime!InFlight : j = i
        /\ lastStage = StageBefore(ingestAt[i])
        /\ overlappedIngests = {} => ingestAt[i] = "detection" \/ lastLine = lastStage

\* What an ingest is told is what execute_action said, or it has a cause.
ToldRight(i) ==
    ingestAt[i] = "done" =>
        /\ ingestAnswer[i] \in {"executed", "blocked", "raised"}
        /\ ingestAnswer[i] = "executed" => i \in confirmed
        /\ ingestAnswer[i] = "blocked" => i \notin confirmed
        /\ ingestAnswer[i] = "raised" => i \in overlappedIngests \cup unlogged \cup unbuilt

IngestInv ==
    /\ IngestTypeOK
    /\ \A i \in Calls : OnTrack(i) /\ ToldRight(i)
    /\ disorder => overlappedIngests # {}

\* The dashboard is a record, and what it has shown it shows of one moment.
DashboardInv ==
    /\ dashboard = [phase |-> dashboard.phase, size |-> dashboard.size,
                    rows |-> dashboard.rows, disturbed |-> dashboard.disturbed]
    /\ dashboard.disturbed \in BOOLEAN
    /\ ~dashboard.disturbed =>
          /\ dashboard.phase # "raised"
          /\ dashboard.phase = "rows" =>
                /\ dashboard.size = Runtime!Cardinality(DOMAIN runtimeState)
                /\ dashboard.rows \in Seq({Runtime!LastAction})
          /\ \A j, k \in 1..Len(dashboard.rows) : dashboard.rows[j] = dashboard.rows[k]

\* The places of an ingest whose execute_action has not returned
Untried == {"idle", "detection", "decide", "payload_emitted", "action_received", "execute"}

\* What execute_action said, and what the executor did
EffectOf(i) ==
    /\ i \in confirmed => i \in ingestRan
    /\ i \in ingestRan => i \in confirmed \cup unanswered
    /\ i \in unbuilt => i \notin unanswered \cup ingestRan
    /\ i \in unbuilt => ingestAt[i] = "done"
    /\ ingestAt[i] \in Untried => i \notin ingestRan \cup unanswered
EffectInv ==
    /\ ingestAt \in [Calls -> IngestPlaces]
    /\ ingestRan \in SUBSET Calls
    /\ confirmed \in SUBSET Calls
    /\ unanswered \in SUBSET Calls
    /\ unbuilt \in SUBSET Calls
    /\ \A i \in Calls : EffectOf(i)

RuntimeInv == IngestInv /\ EffectInv /\ DashboardInv

LEMMA StagesKnown ==
    /\ Runtime!Stages = {"detection", "payload_emitted", "action_received",
                         "execution_result", "verification"}
    /\ \A s, t : Runtime!Follows(s, t) <=>
          <<t, s>> \in {<<"detection", "payload_emitted">>,
                        <<"payload_emitted", "action_received">>,
                        <<"action_received", "execution_result">>,
                        <<"execution_result", "verification">>}
<1>1. /\ Len(Runtime!Flow) = 5
      /\ Runtime!Flow[1] = "detection" /\ Runtime!Flow[2] = "payload_emitted"
      /\ Runtime!Flow[3] = "action_received" /\ Runtime!Flow[4] = "execution_result"
      /\ Runtime!Flow[5] = "verification"
  BY DEF Runtime!Flow
<1>2. 1..5 = {1, 2, 3, 4, 5} /\ 1..(5 - 1) = {1, 2, 3, 4}
  OBVIOUS
<1>3. Runtime!Stages = {"detection", "payload_emitted", "action_received",
                        "execution_result", "verification"}
  BY <1>1, <1>2 DEF Runtime!Stages
<1>4. ASSUME NEW s, NEW t
      PROVE  Runtime!Follows(s, t) <=>
          <<t, s>> \in {<<"detection", "payload_emitted">>,
                        <<"payload_emitted", "action_received">>,
                        <<"action_received", "execution_result">>,
                        <<"execution_result", "verification">>}
  <2>1. Runtime!Follows(s, t) <=>
           \E i \in {1, 2, 3, 4} : t = Runtime!Flow[i] /\ s = Runtime!Flow[i + 1]
    BY <1>1, <1>2 DEF Runtime!Follows
  <2>2. 1 + 1 = 2 /\ 2 + 1 = 3 /\ 3 + 1 = 4 /\ 4 + 1 = 5
    OBVIOUS
  <2>. QED  BY <1>1, <2>1, <2>2
<1>. QED  BY <1>3, <1>4

LEMMA StagesBefore ==
    ASSUME NEW s \in Runtime!Stages
    PROVE  /\ Runtime!After(s) \in IngestPlaces \ {"idle", "done", "detection"}
           /\ StageBefore(Runtime!After(s)) = s
           /\ s # "detection" => Runtime!Follows(s, StageBefore(s))
           /\ StageBefore("detection") = "none"
           /\ s \in IngestPlaces
BY StagesKnown DEF Runtime!After, StageBefore, IngestPlaces

LEMMA RuntimeInvInit == Runtime!RuntimeInit => RuntimeInv
<1>. SUFFICES ASSUME Runtime!RuntimeInit PROVE RuntimeInv
  OBVIOUS
<1>1. IngestInv
  BY DEF Runtime!RuntimeInit, IngestInv, IngestTypeOK, OnTrack, ToldRight, Runtime!InFlight,
         IngestPlaces
<1>2. DashboardInv
  BY DEF Runtime!RuntimeInit, DashboardInv, Runtime!NoDashboard
<1>3. EffectInv
  BY DEF Runtime!RuntimeInit, EffectInv, EffectOf, IngestPlaces
<1>. QED  BY <1>1, <1>2, <1>3 DEF RuntimeInv

\* A step of a call in flight that leaves the others alone
LEMMA CallGoesOn ==
    ASSUME IngestInv, NEW i \in Runtime!InFlight, NEW p \in IngestPlaces \ {"idle"},
           ingestAt' = [ingestAt EXCEPT ![i] = p],
           UNCHANGED overlappedIngests,
           ingestAnswer' \in [Calls -> {"none", "executed", "blocked", "raised"}],
           confirmed' \in SUBSET Calls, unlogged' \in SUBSET Calls, disorder' \in BOOLEAN,
           unlogged \subseteq unlogged',
           unbuilt' \in SUBSET Calls, unbuilt \subseteq unbuilt',
           \A j \in Calls \ {i} : /\ ingestAnswer'[j] = ingestAnswer[j]
                                  /\ j \in confirmed' <=> j \in confirmed,
           p = "done" => ToldRight(i)',
           p # "done" /\ i \notin overlappedIngests =>
               /\ lastStage' = StageBefore(p)
               /\ overlappedIngests = {} => p = "detection" \/ lastLine' = lastStage',
           disorder' => overlappedIngests # {}
    PROVE  IngestInv'
<1>1. IngestTypeOK /\ i \in Calls
  BY DEF IngestInv, Runtime!InFlight
<1>2. IngestTypeOK'
  BY <1>1 DEF IngestTypeOK
<1>3. /\ ingestAt'[i] = p
      /\ \A j \in Calls : j # i => ingestAt'[j] = ingestAt[j]
  BY <1>1 DEF IngestTypeOK
<1>4. \A j \in Calls : j # i => (j \in Runtime!InFlight' <=> j \in Runtime!InFlight)
  BY <1>3 DEF Runtime!InFlight
<1>5. \A j \in Runtime!InFlight \ overlappedIngests : j = i
  BY DEF IngestInv, OnTrack, Runtime!InFlight
<1>6. \A j \in Calls : OnTrack(j)'
  <2>. SUFFICES ASSUME NEW j \in Calls, j \in Runtime!InFlight' \ overlappedIngests
                PROVE  /\ \A k \in Runtime!InFlight' : k = j
                       /\ lastStage' = StageBefore(ingestAt'[j])
                       /\ overlappedIngests = {} =>
                             ingestAt'[j] = "detection" \/ lastLine' = lastStage'
    BY DEF OnTrack
  <2>1. j = i
    BY <1>4, <1>5
  <2>2. p # "done"
    BY <1>3, <2>1 DEF Runtime!InFlight
  <2>3. \A k \in Runtime!InFlight : k = i
    BY <1>1, <2>1 DEF IngestInv, OnTrack
  <2>4. \A k \in Runtime!InFlight' : k = i
    BY <1>4, <2>3 DEF Runtime!InFlight
  <2>. QED  BY <1>3, <2>1, <2>2, <2>4
<1>7. \A j \in Calls : ToldRight(j)'
  <2>1. ASSUME NEW j \in Calls, j # i PROVE ToldRight(j)'
    <3>1. ToldRight(j)
      BY DEF IngestInv
    <3>. QED  BY <1>3, <2>1, <3>1 DEF ToldRight
  <2>2. p # "done" => ToldRight(i)'
    BY <1>3 DEF ToldRight
  <2>. QED  BY <2>1, <2>2
<1>. QED  BY <1>2, <1>6, <1>7 DEF IngestInv

\* What a call says that goes to a place, and what one says that is answered
LEMMA AnsweredSays ==
    ASSUME IngestTypeOK, NEW i \in Calls, NEW what \in {"executed", "blocked", "raised"},
           Runtime!Answered(i, what)
    PROVE  /\ ingestAt' = [ingestAt EXCEPT ![i] = "done"]
           /\ ingestAnswer' \in [Calls -> {"none", "executed", "blocked", "raised"}]
           /\ ingestAnswer'[i] = what
           /\ \A j \in Calls \ {i} : ingestAnswer'[j] = ingestAnswer[j]
<1>1. ingestAnswer' = [ingestAnswer EXCEPT ![i] = what]
  BY DEF Runtime!Answered
<1>2. ingestAt' = [ingestAt EXCEPT ![i] = "done"]
  BY DEF Runtime!Answered, Runtime!Go
<1>. QED  BY <1>1, <1>2 DEF IngestTypeOK

\* What becomes of the action of an ingest
LEMMA EffectInvStep ==
    ASSUME EffectInv, NEW i \in Calls,
           \/ Runtime!Receive(i) \/ Runtime!StoreState(i) \/ Runtime!Execute(i)
           \/ Runtime!RunsLate(i) \/ Runtime!Finish(i)
           \/ \E s \in Runtime!Stages :
                 Runtime!CheckStage(i, s) \/ Runtime!WriteStage(i, s) \/ Runtime!WriteFails(i, s)
    PROVE  EffectInv'
<1>1. ASSUME NEW p \in IngestPlaces, ingestAt' = [ingestAt EXCEPT ![i] = p],
             p \in Untried => ingestAt[i] \in Untried,
             i \in unbuilt => p = "done",
             UNCHANGED Runtime!effectVars
      PROVE  EffectInv'
  BY <1>1 DEF EffectInv, EffectOf, Runtime!effectVars
<1>2. ASSUME UNCHANGED ingestAt, UNCHANGED Runtime!effectVars PROVE EffectInv'
  BY <1>2 DEF EffectInv, EffectOf, Runtime!effectVars
<1>3. i \in unbuilt => ingestAt[i] = "done"
  BY DEF EffectInv, EffectOf
<1>4. CASE Runtime!Receive(i)
  BY <1>1, <1>3, <1>4 DEF Runtime!Receive, Runtime!Go, IngestPlaces, Untried
<1>5. CASE Runtime!StoreState(i)
  BY <1>1, <1>3, <1>5 DEF Runtime!StoreState, Runtime!Go, IngestPlaces, Untried
<1>6. CASE Runtime!Execute(i)
  BY <1>6 DEF Runtime!Execute, Runtime!Go, Runtime!Answered, Runtime!effectVars, EffectInv,
     EffectOf, IngestPlaces, Untried
<1>7. CASE Runtime!RunsLate(i)
  BY <1>7 DEF Runtime!RunsLate, EffectInv, EffectOf
<1>8. CASE Runtime!Finish(i)
  BY <1>1, <1>8 DEF Runtime!Finish, Runtime!Go, Runtime!Answered, IngestPlaces, Untried
<1>9. ASSUME NEW s \in Runtime!Stages, Runtime!CheckStage(i, s) PROVE EffectInv'
  BY <1>1, <1>2, <1>9 DEF Runtime!CheckStage, Runtime!Go, Runtime!Answered, IngestPlaces, Untried
<1>10. ASSUME NEW s \in Runtime!Stages, Runtime!WriteStage(i, s) PROVE EffectInv'
  <2>1. s \in {"detection", "payload_emitted", "action_received", "execution_result",
               "verification"} /\ ingestAt[i] = s
    BY <1>10, StagesKnown DEF Runtime!WriteStage
  <2>2. /\ Runtime!After(s) \in IngestPlaces
        /\ Runtime!After(s) \in Untried => s \in Untried
    BY <2>1 DEF Runtime!After, IngestPlaces, Untried
  <2>. QED  BY <1>1, <1>3, <1>10, <2>1, <2>2 DEF Runtime!WriteStage, Runtime!Go
<1>11. ASSUME NEW s \in Runtime!Stages, Runtime!WriteFails(i, s) PROVE EffectInv'
  BY <1>1, <1>11 DEF Runtime!WriteFails, Runtime!Go, Runtime!Answered, IngestPlaces, Untried
<1>. QED  BY <1>4, <1>5, <1>6, <1>7, <1>8, <1>9, <1>10, <1>11

LEMMA IngestInvStep ==
    ASSUME IngestInv, NEW i \in Calls,
           \/ Runtime!Receive(i) \/ Runtime!StoreState(i) \/ Runtime!Execute(i)
           \/ Runtime!Finish(i)
           \/ \E s \in Runtime!Stages :
                 Runtime!CheckStage(i, s) \/ Runtime!WriteStage(i, s) \/ Runtime!WriteFails(i, s)
    PROVE  IngestInv'
<1>. USE DEF IngestPlaces
<1>1. IngestTypeOK
  BY DEF IngestInv
<1>2. ASSUME ingestAt[i] \notin {"idle", "done"}, i \notin overlappedIngests
      PROVE  /\ lastStage = StageBefore(ingestAt[i])
             /\ overlappedIngests = {} => ingestAt[i] = "detection" \/ lastLine = lastStage
  BY <1>2 DEF IngestInv, OnTrack, Runtime!InFlight
<1>3. CASE Runtime!Receive(i)
  <2>1. /\ ingestAt[i] = "idle" /\ ingestAt' = [ingestAt EXCEPT ![i] = "detection"]
        /\ lastStage' = "none" /\ overlappedIngests' = Runtime!Overlaps(i)
        /\ UNCHANGED <<lastLine, disorder, confirmed, ingestAnswer, unlogged, unbuilt>>
    BY <1>3 DEF Runtime!Receive, Runtime!Go, Runtime!effectVars
  <2>2. /\ ingestAt'[i] = "detection"
        /\ \A j \in Calls : j # i => ingestAt'[j] = ingestAt[j]
        /\ overlappedIngests \subseteq overlappedIngests'
        /\ overlappedIngests' \in SUBSET Calls
        /\ \A j \in Runtime!InFlight : j \in overlappedIngests' /\ i \in overlappedIngests'
    BY <1>1, <2>1 DEF IngestTypeOK, Runtime!Overlaps, Runtime!InFlight
  <2>3. IngestTypeOK'
    BY <1>1, <2>1, <2>2 DEF IngestTypeOK
  <2>4. \A j \in Runtime!InFlight' : j \in Runtime!InFlight \/ j = i
    BY <2>2 DEF Runtime!InFlight
  <2>5. ASSUME NEW j \in Calls PROVE OnTrack(j)'
    <3>. SUFFICES ASSUME j \in Runtime!InFlight' \ overlappedIngests'
                  PROVE  /\ \A k \in Runtime!InFlight' : k = j
                         /\ lastStage' = StageBefore(ingestAt'[j])
                         /\ ingestAt'[j] = "detection"
      BY DEF OnTrack
    <3>1. j = i /\ Runtime!InFlight = {}
      BY <2>2, <2>4
    <3>. QED  BY <2>1, <2>2, <2>4, <3>1 DEF StageBefore
  <2>6. ASSUME NEW j \in Calls PROVE ToldRight(j)'
    <3>1. ToldRight(j)
      BY DEF IngestInv
    <3>. QED  BY <2>1, <2>2, <3>1 DEF ToldRight
  <2>7. disorder' => overlappedIngests' # {}
    BY <2>1, <2>2 DEF IngestInv
  <2>. QED  BY <2>3, <2>5, <2>6, <2>7 DEF IngestInv
<1>4. CASE Runtime!StoreState(i)
  <2>1. /\ ingestAt[i] = "decide" /\ ingestAt' = [ingestAt EXCEPT ![i] = "payload_emitted"]
        /\ UNCHANGED <<lastStage, lastLine, disorder, confirmed, ingestAnswer,
                       overlappedIngests, unlogged, unbuilt>>
    BY <1>4 DEF Runtime!StoreState, Runtime!Go, Runtime!effectVars
  <2>2. StageBefore("decide") = StageBefore("payload_emitted")
    BY DEF StageBefore
  <2>3. i \in Runtime!InFlight
    BY <2>1 DEF Runtime!InFlight
  <2>. QED  BY <1>1, <1>2, <2>1, <2>2, <2>3, CallGoesOn DEF IngestInv, IngestTypeOK
<1>5. CASE Runtime!Execute(i)
  <2>1. /\ ingestAt[i] = "execute"
        /\ UNCHANGED <<lastStage, lastLine, disorder, overlappedIngests, unlogged>>
    BY <1>5 DEF Runtime!Execute
  <2>2. StageBefore("execute") = StageBefore("execution_result")
    BY DEF StageBefore
  <2>3. i \in Runtime!InFlight
    BY <2>1 DEF Runtime!InFlight
  <2>4. CASE /\ ingestAt' = [ingestAt EXCEPT ![i] = "execution_result"]
             /\ confirmed' \in {confirmed, confirmed \cup {i}}
             /\ UNCHANGED <<unbuilt, ingestAnswer>>
    BY <1>1, <1>2, <2>1, <2>2, <2>3, <2>4, CallGoesOn DEF IngestInv, IngestTypeOK
  <2>5. CASE /\ Runtime!Answered(i, "raised")
             /\ unbuilt' = unbuilt \cup {i} /\ UNCHANGED confirmed
    <3>1. /\ ingestAt' = [ingestAt EXCEPT ![i] = "done"]
          /\ ingestAnswer' \in [Calls -> {"none", "executed", "blocked", "raised"}]
          /\ ingestAnswer'[i] = "raised"
          /\ \A j \in Calls \ {i} : ingestAnswer'[j] = ingestAnswer[j]
      BY <1>1, <2>5, AnsweredSays
    <3>2. ToldRight(i)'
      BY <2>5, <3>1 DEF ToldRight
    <3>3. unbuilt' \in SUBSET Calls /\ unbuilt \subseteq unbuilt'
      BY <1>1, <2>5 DEF IngestTypeOK
    <3>. QED  BY <1>1, <2>1, <2>3, <2>5, <3>1, <3>2, <3>3, CallGoesOn
              DEF IngestInv, IngestTypeOK
  <2>6. \/ /\ ingestAt' = [ingestAt EXCEPT ![i] = "execution_result"]
           /\ confirmed' \in {confirmed, confirmed \cup {i}}
           /\ UNCHANGED <<unbuilt, ingestAnswer>>
        \/ /\ Runtime!Answered(i, "raised")
           /\ unbuilt' = unbuilt \cup {i} /\ UNCHANGED confirmed
    BY <1>5 DEF Runtime!Execute, Runtime!Go, Runtime!effectVars
  <2>. QED  BY <2>4, <2>5, <2>6
<1>6. CASE Runtime!Finish(i)
  <2>. DEFINE what == IF lastStage # "verification" THEN "raised"
                      ELSE IF i \in confirmed THEN "executed" ELSE "blocked"
  <2>1. /\ ingestAt[i] = "ensure" /\ Runtime!Answered(i, what)
        /\ UNCHANGED <<lastStage, lastLine, disorder, confirmed, overlappedIngests, unlogged, unbuilt>>
    BY <1>6 DEF Runtime!Finish, Runtime!effectVars
  <2>2. what \in {"executed", "blocked", "raised"}
    OBVIOUS
  <2>3. i \notin overlappedIngests => lastStage = "verification"
    BY <1>2, <2>1 DEF StageBefore
  <2>4. /\ lastStage = "verification" =>
              what = IF i \in confirmed THEN "executed" ELSE "blocked"
        /\ lastStage # "verification" => what = "raised"
    OBVIOUS
  <2>. HIDE DEF what
  <2>5. /\ ingestAt' = [ingestAt EXCEPT ![i] = "done"]
        /\ ingestAnswer' \in [Calls -> {"none", "executed", "blocked", "raised"}]
        /\ ingestAnswer'[i] = what
        /\ \A j \in Calls \ {i} : ingestAnswer'[j] = ingestAnswer[j]
    BY <1>1, <2>1, <2>2, AnsweredSays
  <2>6. ToldRight(i)'
    BY <2>1, <2>3, <2>4, <2>5 DEF ToldRight
  <2>7. i \in Runtime!InFlight
    BY <2>1 DEF Runtime!InFlight
  <2>. QED  BY <1>1, <2>1, <2>5, <2>6, <2>7, CallGoesOn DEF IngestInv, IngestTypeOK
<1>7. ASSUME NEW s \in Runtime!Stages, Runtime!CheckStage(i, s) PROVE IngestInv'
  <2>1. /\ ingestAt[i] = s
        /\ UNCHANGED <<lastStage, lastLine, disorder, confirmed, overlappedIngests, unlogged, unbuilt>>
    BY <1>7 DEF Runtime!CheckStage, Runtime!effectVars
  <2>2. i \in Runtime!InFlight
    BY <2>1, StagesKnown DEF Runtime!InFlight
  <2>3. CASE Runtime!InOrder(s)
    <3>1. UNCHANGED <<ingestAt, ingestAnswer>>
      BY <1>7, <2>3 DEF Runtime!CheckStage, Runtime!effectVars
    <3>. QED  BY <2>1, <3>1 DEF IngestInv, IngestTypeOK, OnTrack, ToldRight, Runtime!InFlight,
              StageBefore
  <2>4. CASE ~Runtime!InOrder(s)
    <3>1. Runtime!Answered(i, "raised")
      BY <1>7, <2>4 DEF Runtime!CheckStage, Runtime!effectVars
    <3>2. i \in overlappedIngests
      <4>1. ASSUME i \notin overlappedIngests PROVE Runtime!InOrder(s)
        <5>1. lastStage = StageBefore(s)
          BY <1>2, <2>1, <4>1, StagesKnown
        <5>2. s = "detection" => lastStage = "none"
          BY <5>1, StagesBefore
        <5>. QED  BY <5>1, <5>2, StagesBefore DEF Runtime!InOrder
      <4>. QED  BY <2>4, <4>1
    <3>4. /\ ingestAt' = [ingestAt EXCEPT ![i] = "done"]
          /\ ingestAnswer' \in [Calls -> {"none", "executed", "blocked", "raised"}]
          /\ ingestAnswer'[i] = "raised"
          /\ \A j \in Calls \ {i} : ingestAnswer'[j] = ingestAnswer[j]
      BY <1>1, <3>1, AnsweredSays
    <3>3. ToldRight(i)'
      BY <2>1, <3>2, <3>4 DEF ToldRight
    <3>. QED  BY <1>1, <2>1, <2>2, <3>3, <3>4, CallGoesOn DEF IngestInv, IngestTypeOK
  <2>. QED  BY <2>3, <2>4
<1>8. ASSUME NEW s \in Runtime!Stages, Runtime!WriteStage(i, s) PROVE IngestInv'
  <2>1. /\ ingestAt[i] = s /\ ingestAt' = [ingestAt EXCEPT ![i] = Runtime!After(s)]
        /\ lastStage' = s /\ lastLine' = s
        /\ disorder' = (disorder \/ ~(s = "detection" \/ Runtime!Follows(s, lastLine)))
        /\ UNCHANGED <<confirmed, ingestAnswer, overlappedIngests, unlogged, unbuilt>>
    BY <1>8 DEF Runtime!WriteStage, Runtime!Go, Runtime!effectVars
  <2>2. i \in Runtime!InFlight
    BY <2>1, StagesKnown DEF Runtime!InFlight
  <2>3. disorder' => overlappedIngests # {}
    <3>1. ASSUME overlappedIngests = {} PROVE s = "detection" \/ Runtime!Follows(s, lastLine)
      BY <1>2, <2>1, <3>1, StagesBefore, StagesKnown
    <3>. QED  BY <2>1, <3>1 DEF IngestInv
  <2>4. PICK p \in IngestPlaces \ {"idle", "done"} : p = Runtime!After(s)
    BY StagesBefore
  <2>5. StageBefore(p) = s
    BY <2>4, StagesBefore
  <2>6. disorder' \in BOOLEAN
    BY <1>1, <2>1 DEF IngestTypeOK
  <2>. QED  BY <1>1, <2>1, <2>2, <2>3, <2>4, <2>5, <2>6, CallGoesOn DEF IngestInv, IngestTypeOK
<1>9. ASSUME NEW s \in Runtime!Stages, Runtime!WriteFails(i, s) PROVE IngestInv'
  <2>1. /\ ingestAt[i] = s /\ unlogged' = unlogged \cup {i} /\ Runtime!Answered(i, "raised")
        /\ UNCHANGED <<lastLine, disorder, confirmed, overlappedIngests, unbuilt>>
    BY <1>9 DEF Runtime!WriteFails, Runtime!effectVars
  <2>2. i \in Runtime!InFlight
    BY <2>1, StagesKnown DEF Runtime!InFlight
  <2>4. /\ ingestAt' = [ingestAt EXCEPT ![i] = "done"]
        /\ ingestAnswer' \in [Calls -> {"none", "executed", "blocked", "raised"}]
        /\ ingestAnswer'[i] = "raised"
        /\ \A j \in Calls \ {i} : ingestAnswer'[j] = ingestAnswer[j]
    BY <1>1, <2>1, AnsweredSays
  <2>3. ToldRight(i)'
    BY <1>1, <2>1, <2>4 DEF ToldRight, IngestTypeOK
  <2>5. unlogged' \in SUBSET Calls /\ unlogged \subseteq unlogged'
    BY <1>1, <2>1 DEF IngestTypeOK
  <2>. QED  BY <1>1, <2>1, <2>2, <2>3, <2>4, <2>5, CallGoesOn DEF IngestInv, IngestTypeOK
<1>. QED  BY <1>3, <1>4, <1>5, <1>6, <1>7, <1>8, <1>9

\* What the dashboard is after one of its fields changed
LEMMA DashboardFields ==
    ASSUME DashboardInv
    PROVE  /\ \A v : LET d == [dashboard EXCEPT !.disturbed = v]
                     IN /\ d = [phase |-> dashboard.phase, size |-> dashboard.size,
                                rows |-> dashboard.rows, disturbed |-> v]
                        /\ d.phase = dashboard.phase /\ d.size = dashboard.size
                        /\ d.rows = dashboard.rows /\ d.disturbed = v
           /\ \A v : LET d == [dashboard EXCEPT !.phase = v]
                     IN /\ d = [phase |-> v, size |-> dashboard.size,
                                rows |-> dashboard.rows, disturbed |-> dashboard.disturbed]
                        /\ d.phase = v /\ d.size = dashboard.size
                        /\ d.rows = dashboard.rows /\ d.disturbed = dashboard.disturbed
           /\ \A v : LET d == [dashboard EXCEPT !.rows = v]
                     IN /\ d = [phase |-> dashboard.phase, size |-> dashboard.size,
                                rows |-> v, disturbed |-> dashboard.disturbed]
                        /\ d.phase = dashboard.phase /\ d.size = dashboard.size
                        /\ d.rows = v /\ d.disturbed = dashboard.disturbed
BY DEF DashboardInv

\* A dashboard that is disturbed promises nothing.
LEMMA DisturbedPromisesNothing ==
    ASSUME DashboardInv, dashboard' = [dashboard EXCEPT !.disturbed = TRUE]
    PROVE  DashboardInv'
<1>1. /\ dashboard' = [phase |-> dashboard.phase, size |-> dashboard.size,
                       rows |-> dashboard.rows, disturbed |-> TRUE]
      /\ dashboard'.phase = dashboard.phase /\ dashboard'.size = dashboard.size
      /\ dashboard'.rows = dashboard.rows /\ dashboard'.disturbed = TRUE
  BY DashboardFields
<1>. QED  BY <1>1 DEF DashboardInv

LEMMA DashboardStays ==
    ASSUME DashboardInv, UNCHANGED <<dashboard, decisions>>,
           DOMAIN runtimeState' = DOMAIN runtimeState
    PROVE  DashboardInv'
<1>1. Runtime!LastAction' = Runtime!LastAction
  BY DEF Runtime!LastAction
<1>2. Runtime!Cardinality(DOMAIN runtimeState)' = Runtime!Cardinality(DOMAIN runtimeState)
  BY DEF Runtime!Cardinality
<1>. QED  BY <1>1, <1>2 DEF DashboardInv

LEMMA DashboardInvStep ==
    ASSUME DashboardInv, [Runtime!RuntimeNext]_runtimeVars
    PROVE  DashboardInv'
<1>1. ASSUME NEW i \in Calls, Runtime!StoreState(i) PROVE DashboardInv'
  <2>1. /\ dashboard' = [dashboard EXCEPT !.disturbed =
                            dashboard.disturbed \/ ServiceOf[i] \notin DOMAIN runtimeState]
        /\ DOMAIN runtimeState' = DOMAIN runtimeState \cup {ServiceOf[i]}
        /\ UNCHANGED decisions
    BY <1>1 DEF Runtime!StoreState
  <2>2. CASE ServiceOf[i] \in DOMAIN runtimeState
    <3>1. DOMAIN runtimeState' = DOMAIN runtimeState
      BY <2>1, <2>2
    <3>2. dashboard' = [dashboard EXCEPT !.disturbed = dashboard.disturbed]
      BY <2>1, <2>2 DEF DashboardInv
    <3>3. dashboard' = dashboard
      BY <3>2 DEF DashboardInv
    <3>. QED  BY <2>1, <3>1, <3>3, DashboardStays
  <2>3. CASE ServiceOf[i] \notin DOMAIN runtimeState
    BY <2>1, <2>3, DisturbedPromisesNothing DEF DashboardInv
  <2>. QED  BY <2>2, <2>3
<1>2. ASSUME NEW load \in Loads, Runtime!ProcessRuntime(load) PROVE DashboardInv'
  BY <1>2, DisturbedPromisesNothing DEF Runtime!ProcessRuntime
<1>3. CASE Runtime!AskDashboard
  <2>1. /\ dashboard' = [phase |-> "rows", size |-> Runtime!Cardinality(DOMAIN runtimeState),
                         rows |-> << >>, disturbed |-> FALSE]
        /\ UNCHANGED <<runtimeState, decisions>>
    BY <1>3 DEF Runtime!AskDashboard, Runtime!NoDashboard
  <2>2. /\ dashboard'.phase = "rows" /\ dashboard'.rows = << >> /\ dashboard'.disturbed = FALSE
        /\ dashboard'.size = Runtime!Cardinality(DOMAIN runtimeState)
    BY <2>1
  <2>3. Runtime!Cardinality(DOMAIN runtimeState)' = Runtime!Cardinality(DOMAIN runtimeState)
    BY <2>1 DEF Runtime!Cardinality
  <2>4. << >> \in Seq({Runtime!LastAction'}) /\ Len(<< >>) = 0
    OBVIOUS
  <2>. QED  BY <2>1, <2>2, <2>3, <2>4 DEF DashboardInv
<1>4. CASE Runtime!ShowRow
  <2>1. /\ dashboard.phase = "rows"
        /\ UNCHANGED <<runtimeState, decisions>>
    BY <1>4 DEF Runtime!ShowRow
  <2>2. Runtime!LastAction' = Runtime!LastAction
    BY <2>1 DEF Runtime!LastAction
  <2>3. Runtime!Cardinality(DOMAIN runtimeState)' = Runtime!Cardinality(DOMAIN runtimeState)
    BY <2>1 DEF Runtime!Cardinality
  <2>4. CASE Runtime!Cardinality(DOMAIN runtimeState) # dashboard.size
    <3>1. dashboard' = [dashboard EXCEPT !.phase = "raised"]
      BY <1>4, <2>4 DEF Runtime!ShowRow
    <3>2. dashboard.disturbed
      BY <2>1, <2>4 DEF DashboardInv
    <3>3. /\ dashboard' = [phase |-> "raised", size |-> dashboard.size,
                           rows |-> dashboard.rows, disturbed |-> dashboard.disturbed]
          /\ dashboard'.phase = "raised" /\ dashboard'.size = dashboard.size
          /\ dashboard'.rows = dashboard.rows /\ dashboard'.disturbed = dashboard.disturbed
      BY <3>1, DashboardFields
    <3>. QED  BY <3>2, <3>3 DEF DashboardInv
  <2>5. CASE /\ Runtime!Cardinality(DOMAIN runtimeState) = dashboard.size
             /\ Len(dashboard.rows) = dashboard.size
    <3>1. dashboard' = [dashboard EXCEPT !.phase = "answered"]
      BY <1>4, <2>5 DEF Runtime!ShowRow
    <3>2. /\ dashboard' = [phase |-> "answered", size |-> dashboard.size,
                           rows |-> dashboard.rows, disturbed |-> dashboard.disturbed]
          /\ dashboard'.phase = "answered" /\ dashboard'.size = dashboard.size
          /\ dashboard'.rows = dashboard.rows /\ dashboard'.disturbed = dashboard.disturbed
      BY <3>1, DashboardFields
    <3>. QED  BY <3>2 DEF DashboardInv
  <2>6. CASE /\ Runtime!Cardinality(DOMAIN runtimeState) = dashboard.size
             /\ Len(dashboard.rows) # dashboard.size
    <3>. DEFINE longer == Append(dashboard.rows, Runtime!LastAction)
    <3>1. dashboard' = [dashboard EXCEPT !.rows = longer]
      BY <1>4, <2>6 DEF Runtime!ShowRow
    <3>2. ~dashboard.disturbed =>
             /\ longer \in Seq({Runtime!LastAction})
             /\ \A j, k \in 1..Len(longer) : longer[j] = longer[k]
      <4>1. ~dashboard.disturbed => longer \in Seq({Runtime!LastAction})
        BY <2>1, AppendProperties DEF DashboardInv
      <4>2. ASSUME longer \in Seq({Runtime!LastAction}), NEW j \in 1..Len(longer)
            PROVE  longer[j] = Runtime!LastAction
        BY <4>2, ElementOfSeq
      <4>. QED  BY <4>1, <4>2
    <3>. HIDE DEF longer
    <3>3. /\ dashboard' = [phase |-> dashboard.phase, size |-> dashboard.size,
                           rows |-> longer, disturbed |-> dashboard.disturbed]
          /\ dashboard'.phase = dashboard.phase /\ dashboard'.size = dashboard.size
          /\ dashboard'.rows = longer /\ dashboard'.disturbed = dashboard.disturbed
      BY <3>1, DashboardFields
    <3>. QED  BY <2>1, <2>2, <2>3, <2>6, <3>2, <3>3 DEF DashboardInv
  <2>. QED  BY <2>4, <2>5, <2>6
<1>5. ASSUME NEW i \in Calls,
             \/ Runtime!Receive(i) \/ Runtime!Execute(i) \/ Runtime!RunsLate(i) \/ Runtime!Finish(i)
             \/ \E s \in Runtime!Stages :
                   Runtime!CheckStage(i, s) \/ Runtime!WriteStage(i, s) \/ Runtime!WriteFails(i, s)
      PROVE  DashboardInv'
  <2>1. UNCHANGED <<runtimeState, decisions, dashboard>>
    BY <1>5 DEF Runtime!Receive, Runtime!Execute, Runtime!RunsLate, Runtime!Finish,
       Runtime!CheckStage, Runtime!WriteStage, Runtime!WriteFails, Runtime!shownVars
  <2>. QED  BY <2>1, DashboardStays
<1>6. CASE UNCHANGED runtimeVars
  BY <1>6, DashboardStays DEF runtimeVars
<1>7. \/ UNCHANGED runtimeVars
      \/ \E i \in Calls : Runtime!StoreState(i)
      \/ \E load \in Loads : Runtime!ProcessRuntime(load)
      \/ Runtime!AskDashboard
      \/ Runtime!ShowRow
      \/ \E i \in Calls :
            \/ Runtime!Receive(i) \/ Runtime!Execute(i) \/ Runtime!RunsLate(i) \/ Runtime!Finish(i)
            \/ \E s \in Runtime!Stages :
                  Runtime!CheckStage(i, s) \/ Runtime!WriteStage(i, s) \/ Runtime!WriteFails(i, s)
  <2>. HIDE DEF runtimeVars
  <2>. QED  BY Zenon DEF Runtime!RuntimeNext
<1>. QED
  BY <1>1, <1>2, <1>3, <1>4, <1>5, <1>6, <1>7

LEMMA RuntimeInvStep == RuntimeInv /\ [Runtime!RuntimeNext]_runtimeVars => RuntimeInv'
<1>. SUFFICES ASSUME RuntimeInv, [Runtime!RuntimeNext]_runtimeVars PROVE RuntimeInv'
  OBVIOUS
<1>1. DashboardInv'
  BY DashboardInvStep DEF RuntimeInv
<1>2. ASSUME NEW i \in Calls,
             \/ Runtime!Receive(i) \/ Runtime!StoreState(i) \/ Runtime!Execute(i)
             \/ Runtime!Finish(i)
             \/ \E s \in Runtime!Stages :
                   Runtime!CheckStage(i, s) \/ Runtime!WriteStage(i, s) \/ Runtime!WriteFails(i, s)
      PROVE  IngestInv' /\ EffectInv'
  BY <1>2, IngestInvStep, EffectInvStep DEF RuntimeInv
<1>3. ASSUME UNCHANGED Runtime!ingestVars PROVE IngestInv' /\ EffectInv'
  BY <1>3 DEF Runtime!ingestVars, Runtime!effectVars, RuntimeInv, IngestInv, IngestTypeOK,
     OnTrack, ToldRight, EffectInv, EffectOf, Runtime!InFlight, StageBefore
<1>4. ASSUME \/ \E load \in Loads : Runtime!ProcessRuntime(load)
             \/ Runtime!AskDashboard \/ Runtime!ShowRow \/ UNCHANGED runtimeVars
      PROVE  UNCHANGED Runtime!ingestVars
  BY <1>4 DEF Runtime!ProcessRuntime, Runtime!AskDashboard, Runtime!ShowRow, runtimeVars,
     Runtime!ingestVars, Runtime!effectVars
<1>5. ASSUME NEW i \in Calls, Runtime!RunsLate(i) PROVE IngestInv' /\ EffectInv'
  <2>1. IngestInv'
    BY <1>5 DEF Runtime!RunsLate, RuntimeInv, IngestInv, IngestTypeOK, OnTrack, ToldRight,
       Runtime!InFlight, StageBefore
  <2>. QED  BY <1>5, <2>1, EffectInvStep DEF RuntimeInv
<1>6. \/ \E i \in Calls :
            \/ Runtime!Receive(i) \/ Runtime!StoreState(i) \/ Runtime!Execute(i)
            \/ Runtime!Finish(i)
            \/ \E s \in Runtime!Stages :
                  Runtime!CheckStage(i, s) \/ Runtime!WriteStage(i, s) \/ Runtime!WriteFails(i, s)
      \/ \E i \in Calls : Runtime!RunsLate(i)
      \/ \E load \in Loads : Runtime!ProcessRuntime(load)
      \/ Runtime!AskDashboard \/ Runtime!ShowRow \/ UNCHANGED runtimeVars
  BY Zenon DEF Runtime!RuntimeNext
<1>7. IngestInv' /\ EffectInv'
  BY <1>2, <1>3, <1>4, <1>5, <1>6
<1>. QED  BY <1>1, <1>7 DEF RuntimeInv

LEMMA RuntimeInvShows ==
    RuntimeInv => Runtime!OnlyOverlapHidesExecutions /\ Runtime!DashboardIsOneMoment
<1>. SUFFICES ASSUME RuntimeInv
              PROVE  Runtime!OnlyOverlapHidesExecutions /\ Runtime!DashboardIsOneMoment
  OBVIOUS
<1>1. Runtime!OnlyOverlapHidesExecutions
  BY DEF RuntimeInv, IngestInv, ToldRight, EffectInv, EffectOf,
     Runtime!OnlyOverlapHidesExecutions
<1>2. Runtime!DashboardIsOneMoment
  BY DEF RuntimeInv, DashboardInv, Runtime!DashboardIsOneMoment
<1>. QED  BY <1>1, <1>2
----------------------------------------------------------------------------
(* Monitored links: what a reader goes through is what there was when it    *)
(* began, and only changes it has noted can tell the two apart.             *)

LinkItems == [link : Links, ingest : Nat \ {0}]

\* The list, the metadata and what is yet to be published
LinksInv ==
    /\ listed \in Seq(LinkItems)
    /\ metadata \in [Links -> Nat]
    /\ ingests \in Nat
    /\ \/ changing = Figures!Free
       \/ changing \in [what : {"append", "forget"}, link : Links]
    /\ \A i, j \in 1..Len(listed) : listed[i].link = listed[j].link => i = j
    /\ \A i \in 1..Len(listed) : metadata[listed[i].link] = listed[i].ingest
    /\ changing.what \in {"append", "forget"} =>
          \A i \in 1..Len(listed) : listed[i].link # changing.link
    /\ changing.what = "append" => metadata[changing.link] = ingests /\ ingests >= 1

LinkRows == [name : {NameOf[l] : l \in Links}, link : Links, ingest : Nat, score : Nat]

LinkPageTypeOK ==
    linkPage \in [phase : {"idle", "links", "shown"}, live : BOOLEAN, list : Seq(LinkItems),
                  next : Nat \ {0}, rows : Seq(LinkRows), throughout : SUBSET Links,
                  removed : SUBSET Links]

\* A link of the list that a reader goes through is still there, or the
\* reader has noted its removal.
ThereOrNoted(list, removed) ==
    \A k \in 1..Len(list) :
        \/ list[k].link \in removed
        \/ \E i \in 1..Len(listed) : listed[i] = list[k]

\* A link that is there throughout has a row, or its turn comes.
ShownOrNext(l) ==
    \/ NameOf[l] \in Figures!RowNames \cup Reported
    \/ /\ linkPage.phase = "links"
       /\ \E k \in 1..Len(Figures!Iterated(linkPage)) :
             k >= linkPage.next /\ Figures!Iterated(linkPage)[k].link = l

LinkPageInv ==
    /\ LinkPageTypeOK
    /\ linkPage.live => linkPage.phase = "links"
    /\ linkPage.phase = "links" =>
          ThereOrNoted(Figures!Iterated(linkPage), linkPage.removed)
    /\ \A l \in linkPage.throughout : ShownOrNext(l)
    /\ \A i \in 1..Len(linkPage.rows) :
          \/ linkPage.rows[i].score = linkPage.rows[i].ingest
          \/ linkPage.rows[i].link \in linkPage.removed

LEMMA WithoutSays ==
    ASSUME listed \in Seq(LinkItems), NEW i \in 1..Len(listed)
    PROVE  /\ Figures!Without(i) \in Seq(LinkItems)
           /\ Len(Figures!Without(i)) = Len(listed) - 1
           /\ \A j \in 1..Len(listed) - 1 :
                 Figures!Without(i)[j] = listed[IF j < i THEN j ELSE j + 1]
<1>. DEFINE n == Len(listed)
            front == SubSeq(listed, 1, i - 1)
            back == SubSeq(listed, i + 1, n)
<1>1. n \in Nat /\ i \in 1..n
  BY LenProperties
<1>2. /\ front \in Seq(LinkItems) /\ Len(front) = i - 1
      /\ \A j \in 1..i - 1 : front[j] = listed[j]
  BY <1>1, SubSeqProperties
<1>3. /\ back \in Seq(LinkItems) /\ Len(back) = n - i
      /\ \A j \in 1..n - i : back[j] = listed[i + j]
  <2>1. CASE i < n
    <3>1. \A x \in i + 1..n : x \in 1..Len(listed)
      BY <1>1
    <3>2. \A j \in 1..n - i : (i + 1) + j - 1 = i + j
      BY <1>1
    <3>. QED  BY <1>1, <2>1, <3>1, <3>2, SubSeqProperties
  <2>2. CASE i = n
    BY <1>1, <2>2, SubSeqProperties
  <2>. QED  BY <1>1, <2>1, <2>2
<1>. HIDE DEF front, back
<1>4. Figures!Without(i) = front \o back
  BY DEF Figures!Without, front, back
<1>5. /\ front \o back \in Seq(LinkItems)
      /\ Len(front \o back) = n - 1
      /\ \A j \in 1..n - 1 :
            (front \o back)[j] = IF j <= i - 1 THEN front[j] ELSE back[j - (i - 1)]
  <2>1. /\ front \o back \in Seq(LinkItems)
        /\ Len(front \o back) = Len(front) + Len(back)
        /\ \A j \in 1..Len(front) + Len(back) :
              (front \o back)[j] = IF j <= Len(front) THEN front[j] ELSE back[j - Len(front)]
    BY <1>2, <1>3, ConcatProperties
  <2>2. Len(front) + Len(back) = n - 1
    BY <1>1, <1>2, <1>3
  <2>. QED  BY <1>2, <2>1, <2>2
<1>6. ASSUME NEW j \in 1..n - 1
      PROVE  (front \o back)[j] = listed[IF j < i THEN j ELSE j + 1]
  <2>1. CASE j < i
    BY <1>1, <1>2, <1>5, <2>1
  <2>2. CASE ~(j < i)
    <3>1. /\ (front \o back)[j] = back[j - (i - 1)]
          /\ j - (i - 1) \in 1..n - i /\ i + (j - (i - 1)) = j + 1
      BY <1>1, <1>5, <2>2
    <3>. QED  BY <1>3, <2>2, <3>1
  <2>. QED  BY <2>1, <2>2
<1>. QED  BY <1>4, <1>5, <1>6

\* What a removal does to the list
LEMMA RemovedFromList ==
    ASSUME LinksInv, NEW i \in 1..Len(listed), listed' = Figures!Without(i)
    PROVE  /\ listed' \in Seq(LinkItems)
           /\ \A j \in 1..Len(listed') :
                 \E k \in 1..Len(listed) \ {i} : listed'[j] = listed[k]
           /\ \A k \in 1..Len(listed) \ {i} :
                 \E j \in 1..Len(listed') : listed'[j] = listed[k]
           /\ \A j, k \in 1..Len(listed') : listed'[j].link = listed'[k].link => j = k
<1>. DEFINE n == Len(listed)
            old(j) == IF j < i THEN j ELSE j + 1
<1>1. n \in Nat /\ i \in 1..n
  BY LenProperties DEF LinksInv
<1>2. /\ listed' \in Seq(LinkItems) /\ Len(listed') = n - 1
      /\ \A j \in 1..n - 1 : listed'[j] = listed[old(j)]
  BY WithoutSays DEF LinksInv
<1>3. \A j \in 1..n - 1 : old(j) \in 1..n \ {i}
  BY <1>1
<1>4. \A k \in 1..n \ {i} : \E j \in 1..n - 1 : old(j) = k
  <2>. SUFFICES ASSUME NEW k \in 1..n \ {i} PROVE \E j \in 1..n - 1 : old(j) = k
    OBVIOUS
  <2>1. CASE k < i
    BY <1>1, <2>1
  <2>2. CASE k > i
    <3>1. k - 1 \in 1..n - 1 /\ old(k - 1) = k
      BY <1>1, <2>2
    <3>. QED  BY <3>1
  <2>. QED  BY <1>1, <2>1, <2>2
<1>5. \A j, k \in 1..n - 1 : old(j) = old(k) => j = k
  BY <1>1
<1>. HIDE DEF old
<1>6. \A j \in 1..n - 1 : \E k \in 1..n \ {i} : listed'[j] = listed[k]
  BY <1>2, <1>3
<1>7. \A k \in 1..n \ {i} : \E j \in 1..n - 1 : listed'[j] = listed[k]
  BY <1>2, <1>4
<1>8. ASSUME NEW j \in 1..n - 1, NEW k \in 1..n - 1, listed'[j].link = listed'[k].link
      PROVE  j = k
  <2>1. listed[old(j)].link = listed[old(k)].link /\ old(j) \in 1..n /\ old(k) \in 1..n
    BY <1>2, <1>3, <1>8
  <2>2. old(j) = old(k)
    BY <2>1 DEF LinksInv
  <2>. QED  BY <1>5, <2>2
<1>. QED  BY <1>2, <1>6, <1>7, <1>8

LEMMA LinksInvInit == Figures!FiguresInit => LinksInv /\ LinkPageInv
<1>. SUFFICES ASSUME Figures!FiguresInit PROVE LinksInv /\ LinkPageInv
  OBVIOUS
<1>0. << >> \in Seq(LinkItems) /\ << >> \in Seq(LinkRows) /\ Len(<< >>) = 0
  OBVIOUS
<1>1. LinksInv
  BY <1>0 DEF Figures!FiguresInit, LinksInv, Figures!Free
<1>2. linkPage = [phase |-> "idle", live |-> FALSE, list |-> <<>>, next |-> 1, rows |-> <<>>,
                  throughout |-> {}, removed |-> {}]
  BY DEF Figures!FiguresInit, Figures!NoPage
<1>3. LinkPageTypeOK
  BY <1>0, <1>2 DEF LinkPageTypeOK
<1>. QED  BY <1>0, <1>1, <1>2, <1>3 DEF LinkPageInv

\* What each of the writers does
LEMMA IngestSays ==
    ASSUME LinksInv, NEW l \in Links, Figures!Ingest(l)
    PROVE  /\ changing = Figures!Free /\ changing' = [what |-> "append", link |-> l]
           /\ \A i \in 1..Len(listed) : listed[i].link # l
           /\ ingests' = ingests + 1 /\ metadata' \in [Links -> Nat]
           /\ metadata'[l] = ingests + 1
           /\ \A m \in Links \ {l} : metadata'[m] = metadata[m]
           /\ figures' = Figures!Noting(figures, "added", l)
           /\ UNCHANGED <<listed, linkPage>>
<1>1. DOMAIN listed = 1..Len(listed)
  BY DEF LinksInv
<1>. QED  BY <1>1 DEF LinksInv, Figures!Ingest, Figures!Listed

LEMMA FinishIngestSays ==
    ASSUME LinksInv, Figures!FinishIngest
    PROVE  /\ changing.what = "append" /\ changing' = Figures!Free
           /\ changing.link \in Links
           /\ listed' \in Seq(LinkItems) /\ Len(listed') = Len(listed) + 1
           /\ \A i \in 1..Len(listed) : listed'[i] = listed[i]
           /\ listed'[Len(listed) + 1].link = changing.link
           /\ listed'[Len(listed) + 1].ingest = ingests
           /\ UNCHANGED <<metadata, ingests, linkPage, figures>>
<1>1. /\ changing.what = "append" /\ changing' = Figures!Free
      /\ listed' = Append(listed, Figures!Item(changing.link))
      /\ UNCHANGED <<metadata, ingests, linkPage, figures>>
  BY DEF Figures!FinishIngest
<1>2. changing.link \in Links
  BY <1>1 DEF LinksInv, Figures!Free
<1>3. Figures!Item(changing.link) = [link |-> changing.link, ingest |-> ingests]
  BY DEF Figures!Item
<1>4. Figures!Item(changing.link) \in LinkItems
  BY <1>1, <1>2, <1>3 DEF LinksInv, LinkItems
<1>5. listed \in Seq(LinkItems)
  BY DEF LinksInv
<1>. QED  BY <1>1, <1>2, <1>3, <1>4, <1>5, AppendProperties

LEMMA FinishRemoveSays ==
    ASSUME LinksInv, Figures!FinishRemove
    PROVE  /\ changing.what = "forget" /\ changing' = Figures!Free
           /\ metadata' \in [Links -> Nat]
           /\ \A m \in Links : m # changing.link => metadata'[m] = metadata[m]
           /\ UNCHANGED <<listed, ingests, linkPage, figures>>
BY DEF LinksInv, Figures!FinishRemove

LEMMA RemoveSays ==
    ASSUME LinksInv, NEW l \in Links, Figures!Remove(l)
    PROVE  /\ changing = Figures!Free /\ changing' = [what |-> "forget", link |-> l]
           /\ \E i \in 1..Len(listed) : listed[i].link = l /\ listed' = Figures!Without(i)
           /\ figures' = Figures!Noting(Figures!Keeping(figures), "removed", l)
           /\ UNCHANGED <<metadata, ingests>>
<1>1. DOMAIN listed = 1..Len(listed)
  BY DEF LinksInv
<1>. QED  BY <1>1 DEF Figures!Remove

LEMMA LinksInvStep ==
    ASSUME LinksInv, [Figures!FiguresNext]_figureVars
    PROVE  LinksInv'
<1>0. \A i \in 1..Len(listed) : listed[i] \in LinkItems
  BY ElementOfSeq DEF LinksInv
<1>1. ASSUME NEW l \in Links, Figures!Ingest(l) PROVE LinksInv'
  <2>1. /\ changing' = [what |-> "append", link |-> l]
        /\ \A i \in 1..Len(listed) : listed[i].link # l
        /\ ingests' = ingests + 1 /\ metadata' \in [Links -> Nat]
        /\ metadata'[l] = ingests + 1
        /\ \A m \in Links \ {l} : metadata'[m] = metadata[m]
        /\ UNCHANGED listed
    BY <1>1, IngestSays
  <2>2. changing'.what = "append" /\ changing'.link = l
        /\ changing' \in [what : {"append", "forget"}, link : Links]
    BY <2>1
  <2>3. \A i \in 1..Len(listed) : metadata'[listed[i].link] = listed[i].ingest
    BY <1>0, <2>1 DEF LinksInv, LinkItems
  <2>. QED  BY <2>1, <2>2, <2>3 DEF LinksInv
<1>2. ASSUME NEW l \in Links, Figures!Remove(l) PROVE LinksInv'
  <2>1. /\ changing' = [what |-> "forget", link |-> l]
        /\ UNCHANGED <<metadata, ingests>>
    BY <1>2, RemoveSays
  <2>2. PICK i \in 1..Len(listed) : listed[i].link = l /\ listed' = Figures!Without(i)
    BY <1>2, RemoveSays
  <2>3. /\ listed' \in Seq(LinkItems)
        /\ \A j \in 1..Len(listed') :
              \E k \in 1..Len(listed) \ {i} : listed'[j] = listed[k]
        /\ \A j, k \in 1..Len(listed') : listed'[j].link = listed'[k].link => j = k
    BY <2>2, RemovedFromList
  <2>4. changing'.what = "forget" /\ changing'.link = l
        /\ changing' \in [what : {"append", "forget"}, link : Links]
    BY <2>1
  <2>5. \A j \in 1..Len(listed') :
           metadata'[listed'[j].link] = listed'[j].ingest /\ listed'[j].link # l
    <3>. SUFFICES ASSUME NEW j \in 1..Len(listed')
                  PROVE  metadata'[listed'[j].link] = listed'[j].ingest /\ listed'[j].link # l
      OBVIOUS
    <3>1. PICK k \in 1..Len(listed) \ {i} : listed'[j] = listed[k]
      BY <2>3
    <3>2. metadata[listed[k].link] = listed[k].ingest /\ listed[k].link # l
      BY <2>2 DEF LinksInv
    <3>. QED  BY <2>1, <3>1, <3>2
  <2>. QED  BY <2>1, <2>3, <2>4, <2>5 DEF LinksInv
<1>3. CASE Figures!FinishIngest
  <2>1. /\ changing.what = "append" /\ changing' = Figures!Free
        /\ changing.link \in Links
        /\ listed' \in Seq(LinkItems) /\ Len(listed') = Len(listed) + 1
        /\ \A i \in 1..Len(listed) : listed'[i] = listed[i]
        /\ listed'[Len(listed) + 1].link = changing.link
        /\ listed'[Len(listed) + 1].ingest = ingests
        /\ UNCHANGED <<metadata, ingests>>
    BY <1>3, FinishIngestSays
  <2>2. changing'.what \notin {"append", "forget"}
    BY <2>1 DEF Figures!Free
  <2>3. Len(listed) \in Nat
    BY DEF LinksInv
  <2>4. \A i \in 1..Len(listed') : i \in 1..Len(listed) \/ i = Len(listed) + 1
    BY <2>1, <2>3
  <2>5. \A i, j \in 1..Len(listed') : listed'[i].link = listed'[j].link => i = j
    BY <2>1, <2>4 DEF LinksInv
  <2>6. \A i \in 1..Len(listed') : metadata'[listed'[i].link] = listed'[i].ingest
    BY <2>1, <2>4 DEF LinksInv
  <2>. QED  BY <2>1, <2>2, <2>5, <2>6 DEF LinksInv
<1>4. CASE Figures!FinishRemove
  <2>1. /\ changing.what = "forget" /\ changing' = Figures!Free
        /\ metadata' \in [Links -> Nat]
        /\ \A m \in Links : m # changing.link => metadata'[m] = metadata[m]
        /\ UNCHANGED <<listed, ingests>>
    BY <1>4, FinishRemoveSays
  <2>2. changing'.what \notin {"append", "forget"}
    BY <2>1 DEF Figures!Free
  <2>3. \A i \in 1..Len(listed) : metadata'[listed[i].link] = listed[i].ingest
    BY <1>0, <2>1 DEF LinksInv, LinkItems
  <2>. QED  BY <2>1, <2>2, <2>3 DEF LinksInv
<1>5. ASSUME UNCHANGED <<listed, metadata, changing, ingests>> PROVE LinksInv'
  BY <1>5 DEF LinksInv
<1>6. ASSUME \/ Figures!AskPage \/ Figures!ShowLink \/ Figures!PageShown
             \/ Figures!AskFigures \/ Figures!StartSum \/ Figures!AddLink \/ Figures!Divide
             \/ Figures!CountLinks \/ UNCHANGED figureVars
      PROVE  UNCHANGED <<listed, metadata, changing, ingests>>
  BY <1>6 DEF Figures!AskPage, Figures!ShowLink, Figures!PageShown, Figures!AskFigures,
     Figures!StartSum, Figures!AddLink, Figures!Divide, Figures!CountLinks, figureVars
<1>7. \/ \E l \in Links : Figures!Ingest(l) \/ Figures!Remove(l)
      \/ Figures!FinishIngest \/ Figures!FinishRemove
      \/ Figures!AskPage \/ Figures!ShowLink \/ Figures!PageShown
      \/ Figures!AskFigures \/ Figures!StartSum \/ Figures!AddLink \/ Figures!Divide
      \/ Figures!CountLinks \/ UNCHANGED figureVars
  BY Zenon DEF Figures!FiguresNext
<1>. QED  BY <1>1, <1>2, <1>3, <1>4, <1>5, <1>6, <1>7

\* A list that is there, or was there, with what its reader has noted
LEMMA NewerLists ==
    ASSUME LinksInv, NEW list \in Seq(LinkItems), NEW gone \in SUBSET Links,
           ThereOrNoted(list, gone),
           \/ listed' = listed
           \/ Figures!FinishIngest
    PROVE  ThereOrNoted(list, gone)'
<1>1. CASE listed' = listed
  BY <1>1 DEF ThereOrNoted
<1>2. CASE Figures!FinishIngest
  <2>1. /\ Len(listed') = Len(listed) + 1 /\ Len(listed) \in Nat
        /\ \A i \in 1..Len(listed) : listed'[i] = listed[i]
    BY <1>2, FinishIngestSays DEF LinksInv
  <2>. QED  BY <2>1 DEF ThereOrNoted
<1>. QED  BY <1>1, <1>2

\* The metadata of an item that is there, or was, is of the item, or the
\* reader has noted the removal of its link.
LEMMA MetadataOfItems ==
    ASSUME LinksInv, NEW list \in Seq(LinkItems), NEW gone \in SUBSET Links,
           ThereOrNoted(list, gone), NEW k \in 1..Len(list)
    PROVE  \/ list[k].link \in gone
           \/ metadata[list[k].link] = list[k].ingest
BY DEF ThereOrNoted, LinksInv

LEMMA RemovePage ==
    ASSUME LinksInv, LinkPageTypeOK, NEW l \in Links, Figures!Remove(l)
    PROVE  /\ LinkPageTypeOK'
           /\ ~linkPage'.live
           /\ Figures!Iterated(linkPage)' = Figures!Iterated(linkPage)
           /\ UNCHANGED <<linkPage.phase, linkPage.next, linkPage.rows>>
           /\ linkPage'.throughout = linkPage.throughout \ {l}
           /\ linkPage'.removed = IF linkPage.phase = "links" THEN linkPage.removed \cup {l}
                                  ELSE linkPage.removed
<1>1. PICK p \in [phase : {"idle", "links", "shown"}, live : BOOLEAN, list : Seq(LinkItems),
                  next : Nat \ {0}, rows : Seq(LinkRows), throughout : SUBSET Links,
                  removed : SUBSET Links] : p = linkPage
  BY DEF LinkPageTypeOK
<1>2. PICK q : q = Figures!Keeping(p)
  OBVIOUS
<1>3. /\ q \in [phase : {"idle", "links", "shown"}, live : BOOLEAN, list : Seq(LinkItems),
                next : Nat \ {0}, rows : Seq(LinkRows), throughout : SUBSET Links,
                removed : SUBSET Links]
      /\ ~q.live /\ q.list = IF p.live THEN listed ELSE p.list
      /\ q.phase = p.phase /\ q.next = p.next /\ q.rows = p.rows
      /\ q.throughout = p.throughout /\ q.removed = p.removed
  BY <1>2 DEF Figures!Keeping, LinksInv
<1>4. PICK n : n = Figures!Noting(q, "removed", l)
  OBVIOUS
<1>5. /\ n \in [phase : {"idle", "links", "shown"}, live : BOOLEAN, list : Seq(LinkItems),
                next : Nat \ {0}, rows : Seq(LinkRows), throughout : SUBSET Links,
                removed : SUBSET Links]
      /\ n.live = q.live /\ n.list = q.list
      /\ n.phase = q.phase /\ n.next = q.next /\ n.rows = q.rows
      /\ n.throughout = q.throughout
      /\ n.removed = IF q.phase = "links" THEN q.removed \cup {l} ELSE q.removed
  BY <1>3, <1>4 DEF Figures!Noting
<1>6. linkPage' = [n EXCEPT !.throughout = n.throughout \ {l}]
  BY <1>1, <1>2, <1>4 DEF Figures!Remove
<1>7. /\ linkPage' \in [phase : {"idle", "links", "shown"}, live : BOOLEAN,
                        list : Seq(LinkItems), next : Nat \ {0}, rows : Seq(LinkRows),
                        throughout : SUBSET Links, removed : SUBSET Links]
      /\ linkPage'.live = n.live /\ linkPage'.list = n.list
      /\ linkPage'.phase = n.phase /\ linkPage'.next = n.next /\ linkPage'.rows = n.rows
      /\ linkPage'.throughout = n.throughout \ {l} /\ linkPage'.removed = n.removed
  BY <1>5, <1>6
<1>. QED  BY <1>1, <1>3, <1>5, <1>7 DEF LinkPageTypeOK, Figures!Iterated

LEMMA LinkPageInvRemove ==
    ASSUME LinksInv, LinkPageInv, NEW l \in Links, Figures!Remove(l)
    PROVE  LinkPageInv'
<1>. DEFINE list == Figures!Iterated(linkPage)
            gone == linkPage.removed
<1>1. /\ LinkPageTypeOK'
      /\ ~linkPage'.live
      /\ Figures!Iterated(linkPage)' = list
      /\ UNCHANGED <<linkPage.phase, linkPage.next, linkPage.rows>>
      /\ linkPage'.throughout = linkPage.throughout \ {l}
      /\ linkPage'.removed = IF linkPage.phase = "links" THEN gone \cup {l} ELSE gone
  BY RemovePage DEF LinkPageInv
<1>2. PICK i \in 1..Len(listed) : listed[i].link = l /\ listed' = Figures!Without(i)
  BY RemoveSays
<1>3. \A k \in 1..Len(listed) \ {i} : \E j \in 1..Len(listed') : listed'[j] = listed[k]
  BY <1>2, RemovedFromList
<1>4. ASSUME linkPage.phase = "links", NEW k \in 1..Len(list)
      PROVE  \/ list[k].link \in gone \cup {l}
             \/ \E j \in 1..Len(listed') : listed'[j] = list[k]
  <2>1. \/ list[k].link \in gone
        \/ \E j \in 1..Len(listed) : listed[j] = list[k]
    BY <1>4 DEF LinkPageInv, ThereOrNoted
  <2>. QED  BY <1>2, <1>3, <2>1
<1>5. Figures!RowNames' = Figures!RowNames
  BY <1>1 DEF Figures!RowNames
<1>6. \A m \in linkPage'.throughout : ShownOrNext(m)'
  BY <1>1, <1>5 DEF LinkPageInv, ShownOrNext
<1>7. linkPage'.phase = "links" => ThereOrNoted(Figures!Iterated(linkPage), linkPage.removed)'
  BY <1>1, <1>4 DEF ThereOrNoted
<1>. QED  BY <1>1, <1>6, <1>7 DEF LinkPageInv

LEMMA LinkPageInvAsk ==
    ASSUME LinksInv, LinkPageInv, Figures!AskPage
    PROVE  LinkPageInv'
<1>1. linkPage' = [phase |-> "links", live |-> TRUE, list |-> <<>>, next |-> 1, rows |-> <<>>,
                   throughout |-> {l \in Links : Figures!Listed(l)}, removed |-> {}]
  BY DEF Figures!AskPage, Figures!NoPage
<1>2. << >> \in Seq(LinkItems) /\ << >> \in Seq(LinkRows) /\ Len(<< >>) = 0
  OBVIOUS
<1>3. LinkPageTypeOK'
  BY <1>1, <1>2 DEF LinkPageTypeOK
<1>4. /\ linkPage'.phase = "links" /\ linkPage'.live /\ linkPage'.next = 1
      /\ linkPage'.rows = << >>
      /\ linkPage'.throughout = {l \in Links : Figures!Listed(l)}
      /\ Figures!Iterated(linkPage)' = listed /\ listed' = listed
  <2>1. listed' = listed
    BY DEF Figures!AskPage
  <2>2. /\ linkPage'.phase = "links" /\ linkPage'.live = TRUE /\ linkPage'.next = 1
        /\ linkPage'.rows = << >>
        /\ linkPage'.throughout = {l \in Links : Figures!Listed(l)}
    BY <1>1
  <2>3. Figures!Iterated(linkPage)' = listed
    BY <2>1, <2>2 DEF Figures!Iterated
  <2>. QED  BY <2>1, <2>2, <2>3
<1>5. DOMAIN listed = 1..Len(listed) /\ \A k \in 1..Len(listed) : k >= 1
  BY DEF LinksInv
<1>6. \A l \in linkPage'.throughout : ShownOrNext(l)'
  BY <1>4, <1>5 DEF ShownOrNext, Figures!Listed
<1>7. ThereOrNoted(Figures!Iterated(linkPage), linkPage.removed)'
  BY <1>4 DEF ThereOrNoted
<1>. QED  BY <1>2, <1>3, <1>4, <1>6, <1>7 DEF LinkPageInv

LEMMA LinkPageInvShow ==
    ASSUME LinksInv, LinkPageInv, Figures!ShowLink
    PROVE  LinkPageInv'
<1>. DEFINE list == Figures!Iterated(linkPage)
            item == list[linkPage.next]
            hidden == NameOf[item.link] \in Figures!RowNames \cup Reported
            after == IF hidden THEN linkPage.rows
                     ELSE Append(linkPage.rows, Figures!RowOf(item))
<1>1. /\ linkPage.phase = "links" /\ linkPage.next <= Len(list)
      /\ linkPage' = [linkPage EXCEPT !.next = linkPage.next + 1, !.rows = after]
      /\ UNCHANGED <<listed, metadata>>
  BY DEF Figures!ShowLink
<1>2. /\ linkPage.next \in Nat \ {0} /\ linkPage.rows \in Seq(LinkRows)
      /\ linkPage.removed \in SUBSET Links
  BY DEF LinkPageInv, LinkPageTypeOK
<1>3. list \in Seq(LinkItems) /\ Len(list) \in Nat
  BY DEF LinkPageInv, LinkPageTypeOK, LinksInv, Figures!Iterated
<1>4. item \in LinkItems /\ linkPage.next \in 1..Len(list)
  BY <1>1, <1>2, <1>3, ElementOfSeq
<1>5. Figures!RowOf(item) \in LinkRows
  BY <1>4 DEF Figures!RowOf, LinkRows, LinkItems, LinksInv
<1>6. Figures!RowOf(item).score = Figures!RowOf(item).ingest
         \/ Figures!RowOf(item).link \in linkPage.removed
  <2>1. \/ item.link \in linkPage.removed
        \/ metadata[item.link] = item.ingest
    BY <1>1, <1>2, <1>3, <1>4, MetadataOfItems DEF LinkPageInv
  <2>. QED  BY <2>1 DEF Figures!RowOf
<1>7. /\ after \in Seq(LinkRows)
      /\ \A k \in 1..Len(after) :
            after[k] = Figures!RowOf(item) \/ \E j \in 1..Len(linkPage.rows) :
                                                 after[k] = linkPage.rows[j]
      /\ \A j \in 1..Len(linkPage.rows) : j \in 1..Len(after) /\ after[j] = linkPage.rows[j]
      /\ ~hidden => \E k \in 1..Len(after) : after[k] = Figures!RowOf(item)
  <2>1. CASE hidden
    BY <1>2, <2>1
  <2>2. CASE ~hidden
    <3>1. after = Append(linkPage.rows, Figures!RowOf(item)) /\ Len(linkPage.rows) \in Nat
      BY <1>2, <2>2
    <3>. HIDE DEF after
    <3>2. /\ after \in Seq(LinkRows) /\ Len(after) = Len(linkPage.rows) + 1
          /\ \A k \in 1..Len(linkPage.rows) : after[k] = linkPage.rows[k]
          /\ after[Len(linkPage.rows) + 1] = Figures!RowOf(item)
      BY <1>2, <1>5, <3>1, AppendProperties
    <3>3. \A k \in 1..Len(after) : k \in 1..Len(linkPage.rows) \/ k = Len(linkPage.rows) + 1
      BY <3>1, <3>2
    <3>4. Len(linkPage.rows) + 1 \in 1..Len(after)
      BY <3>1, <3>2
    <3>5. \A j \in 1..Len(linkPage.rows) : j \in 1..Len(after)
      BY <3>1, <3>2
    <3>. QED  BY <3>2, <3>3, <3>4, <3>5
  <2>. QED  BY <2>1, <2>2
<1>. HIDE DEF after
<1>8. /\ linkPage'.next = linkPage.next + 1 /\ linkPage'.rows = after
      /\ UNCHANGED <<linkPage.phase, linkPage.live, linkPage.list, linkPage.throughout,
                     linkPage.removed>>
      /\ LinkPageTypeOK'
  <2>1. linkPage.next + 1 \in Nat \ {0}
    BY <1>2
  <2>. QED  BY <1>1, <1>7, <2>1 DEF LinkPageInv, LinkPageTypeOK
<1>9. Figures!Iterated(linkPage)' = list
  BY <1>1, <1>8 DEF Figures!Iterated
<1>10. Figures!RowNames \subseteq Figures!RowNames'
  <2>1. DOMAIN linkPage.rows = 1..Len(linkPage.rows) /\ DOMAIN after = 1..Len(after)
    BY <1>2, <1>7
  <2>. QED  BY <1>7, <1>8, <2>1 DEF Figures!RowNames
<1>11. NameOf[item.link] \in Figures!RowNames' \cup Reported
  <2>1. CASE hidden
    BY <1>10, <2>1
  <2>2. CASE ~hidden
    <3>1. PICK k \in 1..Len(after) : after[k] = Figures!RowOf(item)
      BY <1>7, <2>2
    <3>2. after[k].name = NameOf[item.link]
      BY <3>1 DEF Figures!RowOf
    <3>3. k \in DOMAIN linkPage'.rows
      BY <1>7, <1>8, <3>1
    <3>. QED  BY <1>8, <3>2, <3>3 DEF Figures!RowNames
  <2>. QED  BY <2>1, <2>2
<1>12. ASSUME NEW l \in linkPage'.throughout PROVE ShownOrNext(l)'
  <2>1. CASE NameOf[l] \in Figures!RowNames \cup Reported
    BY <1>10, <2>1 DEF ShownOrNext
  <2>2. CASE NameOf[l] \notin Figures!RowNames \cup Reported
    <3>1. PICK k \in 1..Len(list) : k >= linkPage.next /\ list[k].link = l
      BY <1>8, <1>12, <2>2 DEF LinkPageInv, ShownOrNext
    <3>2. CASE k = linkPage.next
      BY <1>11, <3>1, <3>2 DEF ShownOrNext
    <3>3. CASE k # linkPage.next
      <4>1. k >= linkPage.next + 1
        BY <1>2, <1>3, <3>1, <3>3
      <4>. HIDE DEF list
      <4>. QED  BY <1>1, <1>8, <1>9, <3>1, <4>1 DEF ShownOrNext
    <3>. QED  BY <3>2, <3>3
  <2>. QED  BY <2>1, <2>2
<1>13. ThereOrNoted(Figures!Iterated(linkPage), linkPage.removed)'
  BY <1>1, <1>8, <1>9 DEF LinkPageInv, ThereOrNoted
<1>14. \A k \in 1..Len(after) : \/ after[k].score = after[k].ingest
                               \/ after[k].link \in linkPage.removed
  <2>. SUFFICES ASSUME NEW k \in 1..Len(after)
                PROVE  \/ after[k].score = after[k].ingest
                       \/ after[k].link \in linkPage.removed
    OBVIOUS
  <2>1. CASE after[k] = Figures!RowOf(item)
    BY <1>6, <2>1
  <2>2. ASSUME NEW j \in 1..Len(linkPage.rows), after[k] = linkPage.rows[j]
        PROVE  \/ after[k].score = after[k].ingest
               \/ after[k].link \in linkPage.removed
    BY <2>2 DEF LinkPageInv
  <2>. QED  BY <1>7, <2>1, <2>2
<1>. QED  BY <1>8, <1>12, <1>13, <1>14 DEF LinkPageInv

LEMMA LinkPageInvShown ==
    ASSUME LinksInv, LinkPageInv, Figures!PageShown
    PROVE  LinkPageInv'
<1>. DEFINE list == Figures!Iterated(linkPage)
<1>1. /\ linkPage.phase = "links" /\ linkPage.next > Len(list)
      /\ linkPage' = [linkPage EXCEPT !.phase = "shown", !.live = FALSE]
  BY DEF Figures!PageShown
<1>2. /\ linkPage'.phase = "shown" /\ ~linkPage'.live
      /\ UNCHANGED <<linkPage.rows, linkPage.throughout, linkPage.removed>>
      /\ LinkPageTypeOK'
  BY <1>1 DEF LinkPageInv, LinkPageTypeOK
<1>3. linkPage.next \in Nat \ {0} /\ Len(list) \in Nat
  BY DEF LinkPageInv, LinkPageTypeOK, LinksInv, Figures!Iterated
<1>4. ~ \E k \in 1..Len(list) : k >= linkPage.next
  BY <1>1, <1>3
<1>5. \A l \in linkPage.throughout : NameOf[l] \in Figures!RowNames \cup Reported
  BY <1>4 DEF LinkPageInv, ShownOrNext
<1>6. Figures!RowNames' = Figures!RowNames
  BY <1>2 DEF Figures!RowNames
<1>. QED  BY <1>2, <1>5, <1>6 DEF LinkPageInv, ShownOrNext

LEMMA LinkPageInvStep ==
    ASSUME LinksInv, LinkPageInv, [Figures!FiguresNext]_figureVars
    PROVE  LinkPageInv'
<1>1. ASSUME UNCHANGED linkPage, listed' = listed \/ Figures!FinishIngest PROVE LinkPageInv'
  <2>1. Figures!Iterated(linkPage) \in Seq(LinkItems) /\ linkPage.removed \in SUBSET Links
    BY DEF LinkPageInv, LinkPageTypeOK, LinksInv, Figures!Iterated
  <2>2. linkPage.phase = "links" =>
           ThereOrNoted(Figures!Iterated(linkPage), linkPage.removed)'
    <3>1. PICK old \in Seq(LinkItems) : old = Figures!Iterated(linkPage)
      BY <2>1
    <3>2. PICK gone \in SUBSET Links : gone = linkPage.removed
      BY <2>1
    <3>3. linkPage.phase = "links" => ThereOrNoted(old, gone)
      BY <3>1, <3>2 DEF LinkPageInv
    <3>4. linkPage.phase = "links" => ThereOrNoted(old, gone)'
      BY <1>1, <3>3, NewerLists
    <3>5. CASE ~linkPage.live
      <4>1. Figures!Iterated(linkPage)' = old
        BY <1>1, <3>1, <3>5 DEF Figures!Iterated
      <4>. QED  BY <1>1, <3>2, <3>4, <4>1 DEF ThereOrNoted
    <3>6. CASE linkPage.live
      <4>1. Figures!Iterated(linkPage)' = listed'
        BY <1>1, <3>6 DEF Figures!Iterated
      <4>. QED  BY <4>1 DEF ThereOrNoted
    <3>. QED  BY <3>5, <3>6 DEF LinkPageInv, LinkPageTypeOK
  <2>3. /\ Len(Figures!Iterated(linkPage)') >= Len(Figures!Iterated(linkPage))
        /\ Len(Figures!Iterated(linkPage)) \in Nat /\ Len(Figures!Iterated(linkPage)') \in Nat
        /\ \A k \in 1..Len(Figures!Iterated(linkPage)) :
              Figures!Iterated(linkPage)'[k] = Figures!Iterated(linkPage)[k]
    <3>1. CASE listed' = listed
      <4>1. Figures!Iterated(linkPage)' = Figures!Iterated(linkPage)
        BY <1>1, <3>1 DEF Figures!Iterated
      <4>2. Len(Figures!Iterated(linkPage)) \in Nat
        BY <2>1
      <4>. QED  BY <4>1, <4>2
    <3>2. CASE Figures!FinishIngest
      <4>1. /\ Len(listed') = Len(listed) + 1 /\ Len(listed) \in Nat
            /\ \A i \in 1..Len(listed) : listed'[i] = listed[i]
        BY <3>2, FinishIngestSays DEF LinksInv
      <4>2. linkPage.live =>
               Figures!Iterated(linkPage) = listed /\ Figures!Iterated(linkPage)' = listed'
        BY <1>1 DEF Figures!Iterated
      <4>3. ~linkPage.live => Figures!Iterated(linkPage)' = Figures!Iterated(linkPage)
        BY <1>1 DEF Figures!Iterated
      <4>4. Len(Figures!Iterated(linkPage)) \in Nat
        BY <2>1
      <4>5. CASE linkPage.live
        BY <4>1, <4>2, <4>5
      <4>6. CASE ~linkPage.live
        BY <4>3, <4>4, <4>6
      <4>. QED  BY <4>5, <4>6
    <3>. QED  BY <1>1, <3>1, <3>2
  <2>4. Figures!RowNames' = Figures!RowNames
    BY <1>1 DEF Figures!RowNames
  <2>5. ASSUME NEW l \in linkPage.throughout PROVE ShownOrNext(l)'
    <3>1. ShownOrNext(l)
      BY DEF LinkPageInv
    <3>2. CASE NameOf[l] \in Figures!RowNames \cup Reported
      BY <2>4, <3>2 DEF ShownOrNext
    <3>3. CASE NameOf[l] \notin Figures!RowNames \cup Reported
      <4>1. /\ linkPage.phase = "links"
            /\ \E k \in 1..Len(Figures!Iterated(linkPage)) :
                  k >= linkPage.next /\ Figures!Iterated(linkPage)[k].link = l
        BY <3>1, <3>3 DEF ShownOrNext
      <4>2. PICK k \in 1..Len(Figures!Iterated(linkPage)) :
                  k >= linkPage.next /\ Figures!Iterated(linkPage)[k].link = l
        BY <4>1
      <4>3. /\ k \in 1..Len(Figures!Iterated(linkPage)')
            /\ Figures!Iterated(linkPage)'[k].link = l
        BY <2>3, <4>2
      <4>. QED  BY <1>1, <4>1, <4>2, <4>3 DEF ShownOrNext
    <3>. QED  BY <3>2, <3>3
  <2>. QED  BY <1>1, <2>2, <2>5 DEF LinkPageInv, LinkPageTypeOK
<1>2. ASSUME NEW l \in Links, Figures!Ingest(l) PROVE UNCHANGED <<linkPage, listed>>
  BY <1>2, IngestSays
<1>3. Figures!FinishIngest => UNCHANGED linkPage
  BY FinishIngestSays
<1>4. ASSUME \/ Figures!FinishRemove
             \/ Figures!AskFigures \/ Figures!StartSum \/ Figures!AddLink \/ Figures!Divide
             \/ Figures!CountLinks \/ UNCHANGED figureVars
      PROVE  UNCHANGED <<linkPage, listed>>
  BY <1>4 DEF Figures!FinishRemove, Figures!AskFigures,
     Figures!StartSum, Figures!AddLink, Figures!Divide, Figures!CountLinks, figureVars
<1>5. \/ \E l \in Links : Figures!Ingest(l) \/ Figures!Remove(l)
      \/ Figures!FinishIngest \/ Figures!FinishRemove
      \/ Figures!AskPage \/ Figures!ShowLink \/ Figures!PageShown
      \/ Figures!AskFigures \/ Figures!StartSum \/ Figures!AddLink \/ Figures!Divide
      \/ Figures!CountLinks \/ UNCHANGED figureVars
  BY Zenon DEF Figures!FiguresNext
<1>. QED
  BY <1>1, <1>2, <1>3, <1>4, <1>5, LinkPageInvRemove, LinkPageInvAsk, LinkPageInvShow,
     LinkPageInvShown

LEMMA LinkPageInvShows == LinkPageInv => Figures!LinkRowsAreWhole
<1>. SUFFICES ASSUME LinkPageInv PROVE Figures!LinkRowsAreWhole
  OBVIOUS
<1>1. DOMAIN linkPage.rows = 1..Len(linkPage.rows)
  BY DEF LinkPageInv, LinkPageTypeOK
<1>. QED  BY <1>1 DEF LinkPageInv, ShownOrNext, Figures!LinkRowsAreWhole

----------------------------------------------------------------------------
(* The figures: the sum so far lies between as many times the least and the *)
(* most of the times added.                                                 *)

Time(list, i) == ResponseOf[list[i].link]

Summed(list, n, sum) ==
    /\ n = 0 => sum = 0
    /\ n > 0 => \E a, b \in 1..n : n * Time(list, a) <= sum /\ sum <= n * Time(list, b)

Averaged(list, average) ==
    list # <<>> =>
        \E a, b \in 1..Len(list) : Time(list, a) <= average /\ average <= Time(list, b)

FigurePhases == {"idle", "sum", "links", "count", "answered", "raised"}
FigureType ==
    [phase : FigurePhases, live : BOOLEAN, list : Seq(LinkItems), next : Nat \ {0}, sum : Nat,
     average : Int, monitored : Int, added : SUBSET Links, removed : SUBSET Links]

Working == figures.phase \in {"sum", "links", "count"}
Quiet == figures.added = {} /\ figures.removed = {}

FiguresInv ==
    /\ figures \in FigureType
    /\ figures.live => figures.phase = "links"
    /\ Working /\ figures.added = {} => changing.what # "append"
    /\ figures.phase \in {"sum", "links"} /\ figures.removed = {} => listed # <<>>
    /\ figures.phase = "raised" => figures.removed # {}
    /\ figures.phase \in {"sum", "links"} => figures.average = 0
    /\ figures.phase = "sum" => figures.next = 1 /\ figures.sum = 0
    /\ figures.phase = "links" /\ Quiet =>
          /\ figures.live /\ figures.next <= Len(listed) + 1
          /\ Summed(listed, figures.next - 1, figures.sum)
    /\ figures.phase = "count" /\ Quiet =>
          figures.list = listed /\ Averaged(figures.list, figures.average)
    /\ figures.phase = "answered" /\ Quiet =>
          /\ figures.monitored = Len(figures.list)
          /\ Averaged(figures.list, figures.average)

LEMMA OneMoreTime ==
    ASSUME NEW n \in Nat, NEW m \in Nat, NEW a \in Nat, NEW t \in Nat, NEW s \in Nat
    PROVE  /\ n * a <= s /\ m <= a /\ m <= t => (n + 1) * m <= s + t
           /\ s <= n * a /\ a <= m /\ t <= m => s + t <= (n + 1) * m
<1>1. (n + 1) * m = n * m + m
  OBVIOUS
<1>2. ASSUME NEW x \in Nat, NEW y \in Nat, x <= y PROVE n * x <= n * y
  BY <1>2
<1>3. n * a \in Nat /\ n * m \in Nat
  OBVIOUS
<1>4. m <= a => n * m <= n * a
  BY <1>2
<1>5. a <= m => n * a <= n * m
  BY <1>2
<1>. HIDE DEF Time
<1>. QED  BY <1>1, <1>3, <1>4, <1>5

LEMMA SummedGoesOn ==
    ASSUME NEW list \in Seq(LinkItems), NEW n \in Nat, n + 1 <= Len(list), NEW sum \in Nat,
           Summed(list, n, sum)
    PROVE  Summed(list, n + 1, sum + Time(list, n + 1))
<1>1. ASSUME NEW i \in 1..n + 1 PROVE Time(list, i) \in Nat
  <2>1. i \in 1..Len(list)
    OBVIOUS
  <2>2. list[i] \in LinkItems
    BY <2>1, ElementOfSeq
  <2>3. list[i].link \in Links
    BY <2>2 DEF LinkItems
  <2>. QED  BY <2>3, LinksAssumption DEF Time
<1>2. n + 1 \in 1..n + 1 /\ \A i \in 1..n : i \in 1..n + 1
  OBVIOUS
<1>. DEFINE t == Time(list, n + 1)
<1>3. t \in Nat
  BY <1>1, <1>2
<1>. HIDE DEF t
<1>4. \E a, b \in 1..n + 1 : /\ (n + 1) * Time(list, a) <= sum + t
                             /\ sum + t <= (n + 1) * Time(list, b)
  <2>1. CASE n = 0
    <3>1. sum = 0 /\ (n + 1) * t = t /\ sum + t = t
      BY <1>3, <2>1 DEF Summed
    <3>2. (n + 1) * Time(list, n + 1) = t
      BY <3>1 DEF t
    <3>. QED  BY <1>2, <1>3, <3>1, <3>2
  <2>2. CASE n # 0
    <3>1. PICK a, b \in 1..n : n * Time(list, a) <= sum /\ sum <= n * Time(list, b)
      BY <2>2 DEF Summed
    <3>2. Time(list, a) \in Nat /\ Time(list, b) \in Nat
      BY <1>1, <1>2
    <3>3. \E c \in 1..n + 1 : (n + 1) * Time(list, c) <= sum + t
      <4>1. CASE Time(list, a) <= t
        <5>1. (n + 1) * Time(list, a) <= sum + t
          BY <1>3, <3>1, <3>2, <4>1, OneMoreTime
        <5>. QED  BY <1>2, <5>1
      <4>2. CASE t <= Time(list, a)
        <5>1. (n + 1) * t <= sum + t
          BY <1>3, <3>1, <3>2, <4>2, OneMoreTime
        <5>. QED  BY <1>2, <5>1 DEF t
      <4>. QED  BY <1>3, <3>2, <4>1, <4>2
    <3>4. \E c \in 1..n + 1 : sum + t <= (n + 1) * Time(list, c)
      <4>1. CASE t <= Time(list, b)
        <5>1. sum + t <= (n + 1) * Time(list, b)
          BY <1>3, <3>1, <3>2, <4>1, OneMoreTime
        <5>. QED  BY <1>2, <5>1
      <4>2. CASE Time(list, b) <= t
        <5>1. sum + t <= (n + 1) * t
          BY SMTT(20), <1>3, <3>1, <3>2, <4>2, OneMoreTime
        <5>. QED  BY <1>2, <5>1 DEF t
      <4>. QED  BY <1>3, <3>2, <4>1, <4>2
    <3>. QED  BY <3>3, <3>4
  <2>. QED  BY <2>1, <2>2
<1>. QED  BY <1>4 DEF Summed, t

LEMMA SummedIsAveraged ==
    ASSUME NEW list \in Seq(LinkItems), list # <<>>, NEW sum \in Nat,
           Summed(list, Len(list), sum)
    PROVE  /\ sum \div Len(list) \in Int
           /\ Averaged(list, sum \div Len(list))
<1>1. Len(list) \in Nat /\ Len(list) > 0
  OBVIOUS
<1>2. PICK a, b \in 1..Len(list) : /\ Len(list) * Time(list, a) <= sum
                                   /\ sum <= Len(list) * Time(list, b)
  BY <1>1 DEF Summed
<1>3. ASSUME NEW i \in 1..Len(list) PROVE Time(list, i) \in Nat
  <2>1. list[i] \in LinkItems
    BY ElementOfSeq
  <2>2. list[i].link \in Links
    BY <2>1 DEF LinkItems
  <2>. QED  BY <2>2, LinksAssumption DEF Time
<1>4. ASSUME NEW n \in Nat, n > 0, NEW x \in Nat, NEW y \in Nat, n * x <= sum, sum <= n * y
      PROVE  x <= sum \div n /\ sum \div n <= y /\ sum \div n \in Int
  <2>1. PICK q \in Int : q = sum \div n
    BY <1>4
  <2>2. n * q <= sum /\ sum < n * q + n
    BY <1>4, <2>1
  <2>3. n * x < n * (q + 1) /\ n * q <= n * y
    BY <1>4, <2>2
  <2>4. x < q + 1 /\ q <= y
    BY <1>4, <2>3
  <2>. QED  BY <1>4, <2>1, <2>4
<1>5. /\ Time(list, a) <= sum \div Len(list) /\ sum \div Len(list) <= Time(list, b)
      /\ sum \div Len(list) \in Int
  BY <1>1, <1>2, <1>3, <1>4
<1>. QED  BY <1>5 DEF Averaged

LEMMA FiguresInvInit == Figures!FiguresInit => FiguresInv
<1>. SUFFICES ASSUME Figures!FiguresInit PROVE FiguresInv
  OBVIOUS
<1>1. figures = [phase |-> "idle", live |-> FALSE, list |-> <<>>, next |-> 1, sum |-> 0,
                 average |-> 0, monitored |-> 0, added |-> {}, removed |-> {}]
  BY DEF Figures!FiguresInit, Figures!NoFigures
<1>2. << >> \in Seq(LinkItems)
  OBVIOUS
<1>3. figures \in FigureType
  BY <1>1, <1>2 DEF FigureType, FigurePhases
<1>. QED  BY <1>1, <1>3 DEF FiguresInv, Working

\* What a reader at work notes, and what one does that is not
LEMMA NotedAddition ==
    ASSUME FiguresInv, NEW l \in Links, figures' = Figures!Noting(figures, "added", l)
    PROVE  /\ Working => figures' = [figures EXCEPT !.added = figures.added \cup {l}]
           /\ ~Working => figures' = figures
BY DEF FiguresInv, FigureType, Figures!Noting, Working

LEMMA NotedRemoval ==
    ASSUME LinksInv, FiguresInv, NEW l \in Links,
           figures' = Figures!Noting(Figures!Keeping(figures), "removed", l)
    PROVE  /\ figures' \in FigureType /\ ~figures'.live
           /\ UNCHANGED <<figures.phase, figures.next, figures.sum, figures.average,
                          figures.monitored, figures.added>>
           /\ Working => figures'.removed = figures.removed \cup {l}
           /\ ~Working => figures' = figures
<1>1. PICK f \in FigureType : f = figures
  BY DEF FiguresInv
<1>2. PICK q : q = Figures!Keeping(f)
  OBVIOUS
<1>3. /\ q \in FigureType /\ ~q.live
      /\ q.phase = f.phase /\ q.next = f.next /\ q.sum = f.sum /\ q.average = f.average
      /\ q.monitored = f.monitored /\ q.added = f.added /\ q.removed = f.removed
      /\ ~f.live => q = f
  BY <1>2 DEF Figures!Keeping, FigureType, LinksInv
<1>4. CASE Working
  <2>1. figures' = [q EXCEPT !.removed = q.removed \cup {l}]
    BY <1>1, <1>2, <1>3, <1>4 DEF Figures!Noting, Working
  <2>. QED  BY <1>1, <1>3, <1>4, <2>1 DEF FigureType
<1>5. CASE ~Working
  <2>1. figures' = q
    BY <1>1, <1>2, <1>3, <1>5 DEF Figures!Noting, Working
  <2>2. ~f.live
    BY <1>1, <1>5 DEF FiguresInv, Working
  <2>. QED  BY <1>1, <1>3, <1>5, <2>1, <2>2
<1>. QED  BY <1>4, <1>5

LEMMA FiguresInvWriters ==
    ASSUME LinksInv, FiguresInv,
           \/ \E l \in Links : Figures!Ingest(l) \/ Figures!Remove(l)
           \/ Figures!FinishIngest \/ Figures!FinishRemove
    PROVE  FiguresInv'
<1>1. ASSUME NEW l \in Links, Figures!Ingest(l) PROVE FiguresInv'
  <2>1. /\ figures' = Figures!Noting(figures, "added", l)
        /\ UNCHANGED listed
    BY <1>1, IngestSays
  <2>2. CASE Working
    <3>1. figures' = [figures EXCEPT !.added = figures.added \cup {l}]
      BY <2>1, <2>2, NotedAddition
    <3>2. /\ figures' \in FigureType
          /\ UNCHANGED <<figures.phase, figures.live, figures.next, figures.sum,
                         figures.average, figures.removed>>
          /\ figures'.added # {}
      BY <3>1 DEF FiguresInv, FigureType
    <3>3. ~Quiet'
      BY <3>2 DEF Quiet
    <3>4. figures.phase \in {"sum", "links", "count"}
      BY <2>2 DEF Working
    <3>. QED  BY <2>1, <3>2, <3>3, <3>4 DEF FiguresInv
  <2>3. CASE ~Working
    <3>1. figures' = figures
      BY <2>1, <2>3, NotedAddition
    <3>. QED  BY <2>1, <2>3, <3>1 DEF FiguresInv, Working, Quiet, Summed, Averaged, Time
  <2>. QED  BY <2>2, <2>3
<1>2. ASSUME NEW l \in Links, Figures!Remove(l) PROVE FiguresInv'
  <2>1. /\ figures' = Figures!Noting(Figures!Keeping(figures), "removed", l)
        /\ changing' = [what |-> "forget", link |-> l]
    BY <1>2, RemoveSays
  <2>2. /\ figures' \in FigureType /\ ~figures'.live
        /\ UNCHANGED <<figures.phase, figures.next, figures.sum, figures.average,
                       figures.monitored, figures.added>>
        /\ Working => figures'.removed = figures.removed \cup {l}
        /\ ~Working => figures' = figures
    BY <2>1, NotedRemoval
  <2>3. changing'.what # "append"
    BY <2>1
  <2>4. CASE Working
    <3>1. figures'.removed # {}
      BY <2>2, <2>4
    <3>2. ~Quiet'
      BY <3>1 DEF Quiet
    <3>3. figures.phase \in {"sum", "links", "count"}
      BY <2>4 DEF Working
    <3>. QED  BY <2>2, <2>3, <3>1, <3>2, <3>3 DEF FiguresInv
  <2>5. CASE ~Working
    <3>1. figures' = figures /\ figures.phase \notin {"sum", "links", "count"}
      BY <2>2, <2>5 DEF Working
    <3>. QED  BY <3>1 DEF FiguresInv, Working, Quiet, Averaged, Time
  <2>. QED  BY <2>4, <2>5
<1>3. CASE Figures!FinishIngest
  <2>1. /\ changing.what = "append" /\ changing' = Figures!Free
        /\ listed' \in Seq(LinkItems) /\ Len(listed') = Len(listed) + 1
        /\ UNCHANGED figures
    BY <1>3, FinishIngestSays
  <2>2. listed' # <<>>
    BY <2>1 DEF LinksInv
  <2>3. Working => figures.added # {}
    BY <2>1 DEF FiguresInv
  <2>4. Working => ~Quiet
    BY <2>3 DEF Quiet
  <2>5. changing'.what # "append"
    BY <2>1 DEF Figures!Free
  <2>6. Quiet' = Quiet /\ Working' = Working
    BY <2>1 DEF Quiet, Working
  <2>7. figures.phase \in {"links", "count"} => ~Quiet
    BY <2>4 DEF Working
  <2>. QED  BY <2>1, <2>2, <2>5, <2>6, <2>7 DEF FiguresInv, Averaged, Time
<1>4. CASE Figures!FinishRemove
  <2>1. changing' = Figures!Free /\ UNCHANGED <<listed, figures>>
    BY <1>4, FinishRemoveSays
  <2>2. changing'.what # "append"
    BY <2>1 DEF Figures!Free
  <2>. QED  BY <2>1, <2>2 DEF FiguresInv, Working, Quiet, Summed, Averaged, Time
<1>. QED  BY <1>1, <1>2, <1>3, <1>4

LEMMA FiguresInvReaders ==
    ASSUME LinksInv, FiguresInv,
           \/ Figures!AskFigures \/ Figures!StartSum \/ Figures!AddLink \/ Figures!Divide
           \/ Figures!CountLinks
    PROVE  FiguresInv'
<1>0. UNCHANGED <<listed, metadata, changing>>
  BY DEF Figures!AskFigures, Figures!StartSum, Figures!AddLink, Figures!Divide,
     Figures!CountLinks
<1>1. CASE Figures!AskFigures
  <2>. DEFINE p == IF listed = <<>> THEN "count" ELSE "sum"
              new == IF changing.what = "append" THEN {changing.link} ELSE {}
  <2>1. figures' = [phase |-> p, live |-> FALSE, list |-> <<>>, next |-> 1, sum |-> 0,
                    average |-> 0, monitored |-> 0, added |-> new, removed |-> {}]
    BY <1>1 DEF Figures!AskFigures, Figures!NoFigures
  <2>2. new \in SUBSET Links /\ p \in FigurePhases /\ << >> \in Seq(LinkItems)
    BY DEF LinksInv, Figures!Free, FigurePhases
  <2>3. p = "count" => listed = <<>>
    OBVIOUS
  <2>4. p = "sum" => listed # <<>>
    OBVIOUS
  <2>5. p \in {"count", "sum"} /\ (new = {} => changing.what # "append")
    OBVIOUS
  <2>. HIDE DEF p, new
  <2>6. figures' \in FigureType
    BY <2>1, <2>2 DEF FigureType
  <2>7. /\ figures'.phase = p /\ ~figures'.live /\ figures'.list = << >> /\ figures'.next = 1
        /\ figures'.sum = 0 /\ figures'.average = 0 /\ figures'.added = new
    BY <2>1
  <2>8. p = "count" => figures'.list = listed' /\ Averaged(figures.list, figures.average)'
    BY <1>0, <2>3, <2>7 DEF Averaged
  <2>. QED  BY <1>0, <2>4, <2>5, <2>6, <2>7, <2>8 DEF FiguresInv, Working, Quiet
<1>2. CASE Figures!StartSum
  <2>1. /\ figures.phase = "sum"
        /\ figures' = [figures EXCEPT !.phase = "links", !.live = TRUE]
    BY <1>2 DEF Figures!StartSum
  <2>2. /\ figures' \in FigureType /\ figures'.phase = "links" /\ figures'.live
        /\ UNCHANGED <<figures.next, figures.sum, figures.average, figures.added,
                       figures.removed>>
    BY <2>1 DEF FiguresInv, FigureType, FigurePhases
  <2>3. /\ figures.next = 1 /\ figures.sum = 0 /\ 1 <= Len(listed) + 1 /\ 1 - 1 = 0
        /\ figures.average = 0
    BY <2>1 DEF FiguresInv, LinksInv
  <2>4. Summed(listed, 0, 0)
    BY DEF Summed
  <2>5. figures'.next <= Len(listed') + 1
          /\ Summed(listed, figures.next - 1, figures.sum)'
    BY <1>0, <2>2, <2>3, <2>4
  <2>. QED  BY <1>0, <2>1, <2>2, <2>3, <2>5 DEF FiguresInv, Working, Quiet
<1>3. CASE Figures!AddLink
  <2>. DEFINE link == Figures!Iterated(figures)[figures.next].link
              time == IF metadata[link] = 0 THEN 0 ELSE ResponseOf[link]
              n == figures.next
  <2>1. /\ figures.phase = "links" /\ n <= Len(Figures!Iterated(figures))
        /\ figures' = [figures EXCEPT !.next = n + 1, !.sum = figures.sum + time]
    BY <1>3 DEF Figures!AddLink
  <2>2. /\ n \in Nat \ {0} /\ figures.sum \in Nat
        /\ Figures!Iterated(figures) \in Seq(LinkItems)
    BY DEF FiguresInv, FigureType, LinksInv, Figures!Iterated
  <2>3. Figures!Iterated(figures)[n] \in LinkItems
    BY <2>1, <2>2, ElementOfSeq
  <2>4. link \in Links
    BY <2>3 DEF LinkItems
  <2>5. time \in Nat
    BY <2>4, LinksAssumption
  <2>6. Quiet => /\ n + 1 <= Len(listed) + 1
                 /\ Summed(listed, n, figures.sum + time)
    <3>1. SUFFICES ASSUME Quiet PROVE /\ n + 1 <= Len(listed) + 1
                                      /\ Summed(listed, n, figures.sum + time)
      OBVIOUS
    <3>2. figures.live /\ Figures!Iterated(figures) = listed
      BY <2>1, <3>1 DEF FiguresInv, Figures!Iterated
    <3>3. Summed(listed, n - 1, figures.sum)
      BY <2>1, <3>1 DEF FiguresInv
    <3>4. n \in 1..Len(listed) /\ n - 1 \in Nat /\ (n - 1) + 1 = n
      BY <2>1, <2>2, <3>2
    <3>5. metadata[link] = listed[n].ingest /\ listed[n] \in LinkItems
      BY <2>3, <3>2, <3>4 DEF LinksInv
    <3>6. time = Time(listed, n)
      BY <3>2, <3>5 DEF Time, LinkItems
    <3>. HIDE DEF time, n
    <3>7. Summed(listed, (n - 1) + 1, figures.sum + Time(listed, (n - 1) + 1))
      BY <2>2, <3>3, <3>4, SummedGoesOn DEF LinksInv
    <3>8. n + 1 <= Len(listed) + 1
      BY <2>1, <2>2, <3>2, <3>4
    <3>. QED  BY <3>4, <3>6, <3>7, <3>8
  <2>. HIDE DEF time
  <2>7. /\ figures' \in FigureType /\ figures'.next = n + 1
        /\ figures'.sum = figures.sum + time
        /\ UNCHANGED <<figures.phase, figures.live, figures.average, figures.added,
                       figures.removed>>
    <3>1. n + 1 \in Nat \ {0} /\ figures.sum + time \in Nat
      BY <2>2, <2>5
    <3>. QED  BY <2>1, <3>1 DEF FiguresInv, FigureType
  <2>8. Quiet' = Quiet
    BY <2>7 DEF Quiet
  <2>9. figures'.next - 1 = n
    BY <2>2, <2>7
  <2>10. Quiet' => /\ figures'.next <= Len(listed') + 1
                   /\ Summed(listed, figures.next - 1, figures.sum)'
    <3>1. Summed(listed, figures.next - 1, figures.sum)' <=>
             Summed(listed, n, figures.sum + time)
      BY <1>0, <2>7, <2>9
    <3>. QED  BY <1>0, <2>6, <2>7, <2>8, <3>1
  <2>. QED  BY <1>0, <2>1, <2>7, <2>8, <2>10 DEF FiguresInv, Working
<1>4. CASE Figures!Divide
  <2>1. /\ figures.phase = "links" /\ figures.next > Len(Figures!Iterated(figures))
        /\ figures' = IF listed = <<>> THEN [figures EXCEPT !.phase = "raised", !.live = FALSE]
                      ELSE [figures EXCEPT !.phase = "count", !.live = FALSE, !.list = listed,
                                  !.average = figures.average + figures.sum \div Len(listed)]
    BY <1>4 DEF Figures!Divide
  <2>2. CASE listed = <<>>
    <3>1. figures' = [figures EXCEPT !.phase = "raised", !.live = FALSE]
      BY <2>1, <2>2
    <3>2. /\ figures' \in FigureType /\ figures'.phase = "raised" /\ ~figures'.live
          /\ figures'.removed = figures.removed
      BY <3>1 DEF FiguresInv, FigureType, FigurePhases
    <3>3. figures.removed # {}
      BY <2>1, <2>2 DEF FiguresInv
    <3>. QED  BY <3>2, <3>3 DEF FiguresInv, Working
  <2>3. CASE listed # <<>>
    <3>1. figures.average = 0
      BY <2>1 DEF FiguresInv
    <3>2. listed \in Seq(LinkItems) /\ Len(listed) \in Nat /\ Len(listed) > 0
      BY <2>3 DEF LinksInv
    <3>3. PICK v \in Int : v = figures.sum \div Len(listed)
      BY <3>2 DEF FiguresInv, FigureType
    <3>4. figures.average + figures.sum \div Len(listed) = v
      BY <3>1, <3>3
    <3>5. figures' = [figures EXCEPT !.phase = "count", !.live = FALSE, !.list = listed,
                                     !.average = v]
      BY <2>1, <2>3, <3>4
    <3>6. /\ figures' \in FigureType /\ figures'.phase = "count" /\ ~figures'.live
          /\ figures'.list = listed /\ figures'.average = v
          /\ UNCHANGED <<figures.added, figures.removed>>
      BY <3>2, <3>5 DEF FiguresInv, FigureType, FigurePhases
    <3>7. Quiet => Averaged(listed, v)
      <4>1. SUFFICES ASSUME Quiet PROVE Averaged(listed, v)
        OBVIOUS
      <4>2. /\ figures.live /\ figures.next <= Len(listed) + 1
            /\ Summed(listed, figures.next - 1, figures.sum)
        BY <2>1, <4>1 DEF FiguresInv
      <4>3. Figures!Iterated(figures) = listed
        BY <4>2 DEF Figures!Iterated
      <4>4. figures.next \in Nat /\ figures.sum \in Nat
        BY DEF FiguresInv, FigureType
      <4>5. figures.next - 1 = Len(listed)
        BY <2>1, <3>2, <4>2, <4>3, <4>4
      <4>. QED  BY <2>3, <3>2, <3>3, <4>2, <4>4, <4>5, SummedIsAveraged
    <3>8. Quiet' = Quiet
      BY <3>6 DEF Quiet
    <3>9. Quiet' => figures'.list = listed' /\ Averaged(figures.list, figures.average)'
      <4>1. Averaged(figures.list, figures.average)' <=> Averaged(listed, v)
        BY <3>6 DEF Averaged, Time
      <4>. QED  BY <1>0, <3>6, <3>7, <3>8, <4>1
    <3>10. Working' /\ figures'.added = {} => changing'.what # "append"
      BY <1>0, <2>1, <3>6 DEF FiguresInv, Working
    <3>. QED  BY <3>6, <3>9, <3>10 DEF FiguresInv
  <2>. QED  BY <2>2, <2>3
<1>5. CASE Figures!CountLinks
  <2>1. /\ figures.phase = "count"
        /\ figures' = [figures EXCEPT !.phase = "answered", !.monitored = Len(listed)]
    BY <1>5 DEF Figures!CountLinks
  <2>2. /\ figures' \in FigureType /\ figures'.phase = "answered"
        /\ figures'.monitored = Len(listed)
        /\ UNCHANGED <<figures.live, figures.list, figures.average, figures.added,
                       figures.removed>>
    <3>1. Len(listed) \in Int
      BY DEF LinksInv
    <3>. QED  BY <2>1, <3>1 DEF FiguresInv, FigureType, FigurePhases
  <2>3. ~figures'.live
    BY <2>1, <2>2 DEF FiguresInv
  <2>4. Quiet' = Quiet
    BY <2>2 DEF Quiet
  <2>5. Averaged(figures.list, figures.average)' = Averaged(figures.list, figures.average)
    BY <2>2 DEF Averaged, Time
  <2>. QED  BY <2>1, <2>2, <2>3, <2>4, <2>5 DEF FiguresInv, Working
<1>. QED  BY <1>1, <1>2, <1>3, <1>4, <1>5

LEMMA FiguresInvStep ==
    ASSUME LinksInv, FiguresInv, [Figures!FiguresNext]_figureVars
    PROVE  FiguresInv'
<1>1. ASSUME \/ Figures!AskPage \/ Figures!ShowLink \/ Figures!PageShown
             \/ UNCHANGED figureVars
      PROVE  FiguresInv'
  <2>1. UNCHANGED <<figures, listed, changing>>
    BY <1>1 DEF Figures!AskPage, Figures!ShowLink, Figures!PageShown, figureVars
  <2>. QED  BY <2>1 DEF FiguresInv, Working, Quiet, Summed, Averaged, Time
<1>2. \/ \/ \E l \in Links : Figures!Ingest(l) \/ Figures!Remove(l)
         \/ Figures!FinishIngest \/ Figures!FinishRemove
      \/ Figures!AskPage \/ Figures!ShowLink \/ Figures!PageShown \/ UNCHANGED figureVars
      \/ \/ Figures!AskFigures \/ Figures!StartSum \/ Figures!AddLink \/ Figures!Divide
         \/ Figures!CountLinks
  BY Zenon DEF Figures!FiguresNext
<1>. QED  BY <1>1, <1>2, FiguresInvWriters, FiguresInvReaders

LEMMA FiguresInvShows == FiguresInv => Figures!OnlyChangesSpoilFigures
<1>. SUFFICES ASSUME FiguresInv PROVE Figures!OnlyChangesSpoilFigures
  OBVIOUS
<1>1. DOMAIN figures.list = 1..Len(figures.list)
  BY DEF FiguresInv, FigureType
<1>. DEFINE times == {ResponseOf[figures.list[i].link] : i \in DOMAIN figures.list}
<1>2. ASSUME figures.phase = "answered", Quiet, figures.list # <<>>
      PROVE  \E least, most \in times : least <= figures.average /\ figures.average <= most
  <2>1. PICK a, b \in 1..Len(figures.list) :
           /\ Time(figures.list, a) <= figures.average
           /\ figures.average <= Time(figures.list, b)
    BY <1>2 DEF FiguresInv, Averaged
  <2>2. Time(figures.list, a) \in times /\ Time(figures.list, b) \in times
    BY <1>1 DEF Time
  <2>. HIDE DEF times
  <2>. QED  BY <2>1, <2>2
<1>. QED  BY <1>2 DEF FiguresInv, Quiet, Figures!OnlyChangesSpoilFigures

----------------------------------------------------------------------------
(* The parts together. *)

LEMMA PartsStart ==
    RequestsInit =>
        /\ Init
        /\ machine = "nonces" => Service!Init
        /\ machine = "evidence" => Evidence!StoreInit
        /\ machine = "events" => Api!ApiInit
        /\ machine = "page" => Page!PageInit
        /\ machine = "runtime" => Runtime!RuntimeInit
        /\ machine = "links" => Figures!FiguresInit
BY DEF RequestsInit

LEMMA PartsStep ==
    [RequestsNext]_allVars =>
        /\ UNCHANGED machine
        /\ [Next]_vars
        /\ machine = "nonces" => [Service!Next]_serviceVars
        /\ machine = "evidence" => [Evidence!StoreNext]_evidenceVars
        /\ machine = "events" => [Api!ApiNext]_apiVars
        /\ machine = "page" => [Page!PageNext]_pageVars
        /\ machine = "runtime" => [Runtime!RuntimeNext]_runtimeVars
        /\ machine = "links" => [Figures!FiguresNext]_figureVars
BY DEF RequestsNext, allVars

\* The theorems about single-use traces are about the registry beside the others
\* too (execution_trace_registry).
LEMMA RegistryRuns == RequestsSpec => Spec
<1>1. RequestsInit => Init
  BY PartsStart
<1>2. [RequestsNext]_allVars => [Next]_vars
  BY PartsStep
<1>. QED  BY <1>1, <1>2, PTL DEF RequestsSpec, Spec

\* A signed request that is delivered again is not accepted again, at any time
\* and by any worker, unless the copy of one lacked some of the file of nonces
\* (NonceStore.check_and_store, verify_service_auth).
THEOREM RepeatsRefused == RequestsSpec => []OnlyStaleCopiesAcceptTwice
<1>. DEFINE Inv == machine = "nonces" => ServiceInv
<1>1. RequestsInit => Inv
  BY PartsStart, ServiceInvInit
<1>2. Inv /\ [RequestsNext]_allVars => Inv'
  BY PartsStep, ServiceInvStep
<1>3. Inv => OnlyStaleCopiesAcceptTwice
  BY ServiceInvShows DEF OnlyStaleCopiesAcceptTwice
<1>. QED  BY <1>1, <1>2, <1>3, PTL DEF RequestsSpec

\* A bundle whose publication was answered can be read back for ever, unless
\* publications overlapped or the registry manager died while it wrote
\* (save_evidence_bundle, RegistryManager).
THEOREM EvidenceKept == RequestsSpec => []OnlyOverlapLosesEvidence
<1>. DEFINE Inv == machine = "evidence" => EvidenceInv
<1>1. RequestsInit => Inv
  BY PartsStart, EvidenceInvInit
<1>2. Inv /\ [RequestsNext]_allVars => Inv'
  BY PartsStep, EvidenceInvStep
<1>3. Inv => OnlyOverlapLosesEvidence
  BY EvidenceInvShows DEF OnlyOverlapLosesEvidence
<1>. QED  BY <1>1, <1>2, <1>3, PTL DEF RequestsSpec

\* No event runs more often than the history has rows of it, each failing write
\* hides at most one accepted event from the timeline, and the metrics miss no
\* row, whatever fails and however often events are published
\* (append_decision_history, shakti_events, prometheus_metrics).
THEOREM RecordedBeforeRun == RequestsSpec => []EventsRunOnlyRecorded
<1>. DEFINE Inv == machine = "events" => ApiInv
<1>1. RequestsInit => Inv
  BY PartsStart, ApiInvInit
<1>2. Inv /\ [RequestsNext]_allVars => Inv'
  BY PartsStep, ApiInvStep
<1>3. Inv => EventsRunOnlyRecorded
  BY ApiInvShows DEF EventsRunOnlyRecorded
<1>. QED  BY <1>1, <1>2, <1>3, PTL DEF RequestsSpec

\* Whatever was selected and however late its answers come, the page shows
\* answers about the selected observation, unless a region was selected while an
\* earlier pipeline waited (pipelineReducer, runPipeline).
THEOREM PageAboutSelection == RequestsSpec => []OnlyOverlapMixesObservations
<1>. DEFINE Inv == machine = "page" => PageInv
<1>1. RequestsInit => Inv
  BY PartsStart, PageInvInit
<1>2. Inv /\ [RequestsNext]_allVars => Inv'
  BY PartsStep, PageInvStep
<1>3. Inv => OnlyOverlapMixesObservations
  BY PageInvShows DEF OnlyOverlapMixesObservations
<1>. QED  BY <1>1, <1>2, <1>3, PTL DEF RequestsSpec

\* An ingest that ran alone is answered with what it did, a dashboard nothing
\* came in between shows one moment, every link monitored throughout has a row,
\* and the average response time lies between those of the links there are,
\* unless links changed meanwhile (runtime_ingest, live dashboard, metrics).
THEOREM AnswersHold == RequestsSpec => []OnlyOverlapSpoilsAnswers
<1>. DEFINE Inv == /\ machine = "runtime" => RuntimeInv
                   /\ machine = "links" => LinksInv /\ LinkPageInv /\ FiguresInv
<1>1. RequestsInit => Inv
  BY PartsStart, RuntimeInvInit, LinksInvInit, FiguresInvInit
<1>2. Inv /\ [RequestsNext]_allVars => Inv'
  BY PartsStep, RuntimeInvStep, LinksInvStep, LinkPageInvStep, FiguresInvStep
<1>3. Inv => OnlyOverlapSpoilsAnswers
  BY RuntimeInvShows, LinkPageInvShows, FiguresInvShows DEF OnlyOverlapSpoilsAnswers
<1>. QED  BY <1>1, <1>2, <1>3, PTL DEF RequestsSpec
=============================================================================
