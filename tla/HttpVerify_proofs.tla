-------------------------- MODULE HttpVerify_proofs --------------------------
(***************************************************************************)
(* Proofs about HttpVerify, for any sets of calls, clients, nonces and      *)
(* paths, any skew and any bounds.                                          *)
(***************************************************************************)
EXTENDS HttpVerify, SequenceTheorems, TLAPS

(* A call that has started keeps the shape of a call when it goes on, and   *)
(* changes its step and the instant of its answer only.                     *)
LEMMA GoToShape ==
    ASSUME TypeOK, NEW c \in Calls, call[c].step # "none",
           NEW step \in Running \cup Outcomes
    PROVE  /\ call[c] \in CallStates
           /\ GoTo(c, step) \in CallStates
           /\ GoTo(c, step).step = step
           /\ GoTo(c, step).request = call[c].request
           /\ GoTo(c, step).clock = call[c].clock
<1>1. call[c] \in CallStates
  BY DEF TypeOK, NotStarted
<1> QED
  BY <1>1 DEF TypeOK, CallStates, GoTo

(* What is delivered is a request, from an address or from nowhere.         *)
LEMMA DeliveryType ==
    ASSUME NEW delivery \in Deliveries
    PROVE  delivery[1] \in Requests /\ delivery[2] \in Addresses \cup {NoAddress}
  BY DeliveryAssumption

(* The check of a request leaves everything but the call's step and its     *)
(* clock alone; a request that goes on fits the clock that was read.        *)
LEMMA CheckRequestShape ==
    ASSUME TypeOK, NEW c \in Calls, NEW wellFormed \in BOOLEAN,
           CheckRequest(c, wellFormed)
    PROVE  /\ call[c].step = "headers" /\ call[c] \in CallStates
           /\ call'[c] \in CallStates
           /\ call' = [call EXCEPT ![c] = call'[c]]
           /\ \A d \in Calls \ {c} : call'[d] = call[d]
           /\ call'[c].step \in {"client", "refused"}
           /\ call'[c].step = "client" => WithinSkew(call[c].request.timestamp)
           /\ call'[c].request = call[c].request
           /\ call'[c].clock = now /\ call'[c].retried = call[c].retried
           /\ UNCHANGED <<now, credential, nonceExpiry, held, edits>>
<1> DEFINE next == IF wellFormed /\ WithinSkew(call[c].request.timestamp)
                   THEN "client" ELSE "refused"
           state == [GoTo(c, next) EXCEPT !.clock = now]
<1>1. call[c].step = "headers" /\ call[c] \in CallStates
  BY DEF CheckRequest, At, TypeOK, NotStarted
<1>2. /\ next \in {"client", "refused"}
      /\ next = "client" => WithinSkew(call[c].request.timestamp)
  OBVIOUS
<1>3. call' = [call EXCEPT ![c] = state]
      /\ UNCHANGED <<now, credential, nonceExpiry, held, edits>>
  BY DEF CheckRequest
<1> HIDE DEF next
<1>4. /\ state \in CallStates /\ state.step = next /\ state.clock = now
      /\ state.request = call[c].request /\ state.retried = call[c].retried
  BY <1>1, <1>2 DEF TypeOK, CallStates, GoTo, Running, Clocked, Outcomes
<1> HIDE DEF state
<1>5. call'[c] = state /\ \A d \in Calls \ {c} : call'[d] = call[d]
  BY <1>3 DEF TypeOK
<1> QED
  BY <1>1, <1>2, <1>3, <1>4, <1>5

(* A nonce lives for a number of ticks.                                     *)
LEMMA LifetimeType == NonceLifetime \in Int
<1>1. NonceTtlSeconds \in Int
  BY TimeAssumption DEF NonceTtlSeconds
<1> QED
  BY <1>1, TimeAssumption DEF NonceLifetime

(* Setting a nonce key leaves every other key alone and never shortens the  *)
(* life of the key itself.                                                  *)
LEMMA SetNonceEffect ==
    ASSUME TypeOK, NEW c \in Calls, call[c] \in CallStates, SetNonce(c)
    PROVE  /\ nonceExpiry' \in [NonceKeys -> Int]
           /\ \A key \in NonceKeys : nonceExpiry'[key] >= nonceExpiry[key]
           /\ ~Alive(NonceKey(call[c].request)) =>
                 nonceExpiry'[NonceKey(call[c].request)] = now + NonceLifetime
<1>1. NonceKey(call[c].request) \in NonceKeys
  BY DEF CallStates, NonceKeys
<1>2. NonceLifetime \in Int /\ now \in Int
  BY LifetimeType, TimeAssumption DEF TypeOK, Times
<1>3. NonceLifetime >= 0
  <2>1. NonceTtlSeconds \in Int /\ NonceTtlSeconds >= 0
    BY TimeAssumption DEF NonceTtlSeconds
  <2> QED
    BY <2>1, TimeAssumption DEF NonceLifetime
<1> QED
  BY <1>1, <1>2, <1>3 DEF SetNonce, Alive, TypeOK
-----------------------------------------------------------------------------
(* Every state has its type: the records stored, the calls and the history. *)
THEOREM TypeCorrect == Spec => []TypeOK
<1>1. Init => TypeOK
  BY ClientAssumption, TimeAssumption DEF Init, TypeOK, Times, NotStarted
<1>2. TypeOK /\ [Next]_vars => TypeOK'
  <2> SUFFICES ASSUME TypeOK, [Next]_vars PROVE TypeOK'
    OBVIOUS
  <2>1. ASSUME NEW c \in Calls, NEW request \in Requests,
               NEW from \in Addresses \cup {NoAddress},
               ReadBootstrap(c, request, from)
        PROVE  TypeOK'
    <3>1. call' \in [Calls -> CallStates \cup {NotStarted}]
      BY <2>1 DEF TypeOK, ReadBootstrap, CallStates, Running, Clocked, Outcomes
    <3>2. held' \in [Calls -> SUBSET (ClientIds \X (Records \cup {NoRecord}))]
      <4>1. request.client \in ClientIds /\ BootstrapId \in ClientIds
        BY ClientAssumption DEF Requests
      <4>2. {<<k, credential[k]>> : k \in {BootstrapId, request.client}}
               \in SUBSET (ClientIds \X (Records \cup {NoRecord}))
        BY <4>1 DEF TypeOK
      <4> QED
        BY <2>1, <4>2 DEF TypeOK, ReadBootstrap
    <3> QED
      BY <2>1, <3>1, <3>2 DEF TypeOK, ReadBootstrap
  <2>0. ASSUME NEW c \in Calls, NEW wellFormed \in BOOLEAN, CheckRequest(c, wellFormed)
        PROVE  TypeOK'
    <3>1. /\ call' = [call EXCEPT ![c] = call'[c]] /\ call'[c] \in CallStates
          /\ UNCHANGED <<now, credential, nonceExpiry, held, edits>>
      BY <2>0, CheckRequestShape
    <3> QED
      BY <3>1 DEF TypeOK
  <2>2. ASSUME NEW c \in Calls, CheckClient(c) PROVE TypeOK'
    <3> DEFINE record == credential[call[c].request.client]
               next   == IF Authentic(record, c) THEN "nonce" ELSE "refused"
    <3>1. call[c].step # "none" /\ next \in Running \cup Outcomes
      BY <2>2 DEF CheckClient, At, Running, Clocked, Outcomes
    <3>2. GoTo(c, next) \in CallStates /\ call[c] \in CallStates
      BY <3>1, GoToShape
    <3>3. record \in Records \cup {NoRecord}
      BY <3>2 DEF TypeOK, CallStates, Requests
    <3>4. [GoTo(c, next) EXCEPT !.record = record] \in CallStates
      BY <3>2, <3>3 DEF CallStates
    <3> HIDE DEF record, next
    <3>5. call' = [call EXCEPT ![c] = [GoTo(c, next) EXCEPT !.record = record]]
      BY <2>2 DEF CheckClient, record, next
    <3> QED
      BY <2>2, <3>4, <3>5 DEF TypeOK, CheckClient
  <2>3. ASSUME NEW c \in Calls, ConsumeNonce(c) PROVE TypeOK'
    <3>1. PICK outcome \in Outcomes :
             call' = [call EXCEPT ![c] = GoTo(c, outcome)]
      BY <2>3 DEF ConsumeNonce, Outcomes
    <3>2. GoTo(c, outcome) \in CallStates /\ call[c] \in CallStates
      BY <2>3, GoToShape DEF ConsumeNonce, At
    <3>3. nonceExpiry' \in [NonceKeys -> Int]
      BY <2>3, <3>2, SetNonceEffect DEF ConsumeNonce
    <3> QED
      BY <2>3, <3>1, <3>2, <3>3 DEF TypeOK, ConsumeNonce
  <2>4. ASSUME NEW c \in Calls, SetNxThrows(c) PROVE TypeOK'
    <3>1. GoTo(c, "fallback") \in CallStates /\ call[c] \in CallStates
      BY <2>4, GoToShape DEF SetNxThrows, At, Running, Clocked
    <3>2. [GoTo(c, "fallback") EXCEPT !.retried = TRUE] \in CallStates
      BY <3>1 DEF CallStates
    <3>3. nonceExpiry' \in [NonceKeys -> Int]
      BY <2>4, <3>1, SetNonceEffect DEF SetNxThrows, TypeOK
    <3> QED
      BY <2>4, <3>2, <3>3 DEF TypeOK, SetNxThrows
  <2>5. ASSUME NEW c \in Calls, RedisFails(c) PROVE TypeOK'
    <3>1. GoTo(c, "failed") \in CallStates /\ call[c] \in CallStates
      BY <2>5, GoToShape DEF RedisFails, At, Outcomes
    <3>2. nonceExpiry' \in [NonceKeys -> Int]
      BY <2>5, <3>1, SetNonceEffect DEF RedisFails, TypeOK
    <3> QED
      BY <2>5, <3>1, <3>2 DEF TypeOK, RedisFails
  <2>6. ASSUME NEW k \in ClientIds, NEW record \in StoredRecords \cup {NoRecord},
               EditCredential(k, record)
        PROVE  TypeOK'
    <3>1. record \in Records \cup {NoRecord}
      BY ClientAssumption
    <3> QED
      BY <2>6, <3>1 DEF TypeOK, EditCredential
  <2>7. ASSUME Tick PROVE TypeOK'
    BY <2>7, TimeAssumption DEF TypeOK, Tick, Times
  <2>8. ASSUME UNCHANGED vars PROVE TypeOK'
    BY <2>8 DEF TypeOK, vars
  <2> QED
    BY <2>0, <2>1, <2>2, <2>3, <2>4, <2>5, <2>6, <2>7, <2>8, DeliveryType DEF Next, Step
<1> QED
  BY <1>1, <1>2, PTL DEF Spec
-----------------------------------------------------------------------------
(* A call that has not passed the nonce store stays out of the invariant's  *)
(* last two conjuncts, which compare calls by their keys.                   *)
LEMMA ReplayInvInit == Init => ReplayInv
<1> SUFFICES ASSUME Init PROVE ReplayInv
  OBVIOUS
<1>1. TypeOK
  BY ClientAssumption, TimeAssumption DEF Init, TypeOK, Times, NotStarted
<1>2. \A c \in Calls : call[c].step = "none"
  BY DEF Init, NotStarted
<1> QED
  BY <1>1, <1>2
  DEF ReplayInv, CallsTimely, NoncesRemembered, NonceUsedOnce, Reached, Running, Clocked

(* What one step of a call must establish for the invariant: the call alone *)
(* has moved, it is timely if it is still running, and if it now passes the *)
(* nonce store the key was free and is remembered long enough.              *)
LEMMA OneCallMoves ==
    ASSUME ReplayInv, TypeOK', UNCHANGED now, NEW c \in Calls,
           \A d \in Calls \ {c} : call'[d] = call[d],
           \A key \in NonceKeys : nonceExpiry'[key] >= nonceExpiry[key],
           call'[c].step \in Running => call'[c].request.timestamp <= now + Ahead,
           call'[c].step \in Clocked =>
               /\ call'[c].clock <= now
               /\ now <= call'[c].clock + Lag
               /\ call'[c].clock - call'[c].request.timestamp <= MaxSkew,
           Reached(c)' =>
               /\ \A d \in Calls \ {c} : Reached(d) =>
                     NonceKey(call[d].request) # NonceKey(call'[c].request)
               /\ nonceExpiry'[NonceKey(call'[c].request)] + Ahead
                     >= call'[c].request.timestamp + NonceLifetime
    PROVE  ReplayInv'
<1>1. CallsTimely'
  BY DEF ReplayInv, CallsTimely
<1>2. NoncesRemembered'
  <2> SUFFICES ASSUME NEW d \in Calls, Reached(d)'
               PROVE  nonceExpiry'[NonceKey(call'[d].request)] + Ahead
                        >= call'[d].request.timestamp + NonceLifetime
    BY DEF NoncesRemembered, NonceKey
  <2>1. CASE d = c
    BY <2>1
  <2>2. CASE d # c
    <3>1. call'[d] = call[d] /\ Reached(d)
      BY <2>2 DEF Reached
    <3>2. call[d] \in CallStates
      BY <3>1 DEF ReplayInv, TypeOK, Reached, NotStarted
    <3> DEFINE key == NonceKey(call[d].request)
               t   == call[d].request.timestamp
    <3>3. key \in NonceKeys /\ t \in Nat
      BY <3>2, TimeAssumption DEF CallStates, Requests, NonceKeys
    <3>4. nonceExpiry[key] + Ahead >= t + NonceLifetime
      BY <3>1 DEF ReplayInv, NoncesRemembered
    <3>5. nonceExpiry'[key] >= nonceExpiry[key]
      BY <3>3
    <3>6. nonceExpiry[key] \in Int /\ nonceExpiry'[key] \in Int
      BY <3>3 DEF ReplayInv, TypeOK
    <3> HIDE DEF key, t
    <3>7. nonceExpiry'[key] + Ahead >= t + NonceLifetime
      BY <3>3, <3>4, <3>5, <3>6, LifetimeType, TimeAssumption
    <3> QED
      BY <3>1, <3>7 DEF key, t
  <2> QED
    BY <2>1, <2>2
<1>3. NonceUsedOnce'
  BY ZenonT(40) DEF ReplayInv, NonceUsedOnce, Reached, NonceKey
<1> QED
  BY <1>1, <1>2, <1>3 DEF ReplayInv

(* Why a free key means that nobody used it: the key of a timely call, had  *)
(* it been used, would still be alive.                                      *)
LEMMA FreeKeyUnused ==
    ASSUME NonceOutlivesWindow, ReplayInv, NEW c \in Calls,
           call[c].step \in Clocked, ~Alive(NonceKey(call[c].request)),
           NEW d \in Calls, Reached(d)
    PROVE  NonceKey(call[d].request) # NonceKey(call[c].request)
<1> SUFFICES ASSUME NonceKey(call[d].request) = NonceKey(call[c].request)
             PROVE  FALSE
  OBVIOUS
<1> DEFINE key == NonceKey(call[c].request)
           t   == call[c].request.timestamp
           r   == call[c].clock
           e   == nonceExpiry[key]
<1>1. call[c] \in CallStates
  BY DEF ReplayInv, TypeOK, NotStarted, Clocked
<1>2. t \in Nat /\ r \in Nat /\ key \in NonceKeys
  BY <1>1, TimeAssumption DEF CallStates, Requests, Times, NonceKeys
<1>3. e \in Int /\ now \in Nat
  BY <1>2, TimeAssumption DEF ReplayInv, TypeOK, Times
<1>4. call[d].request.timestamp = t
  BY DEF NonceKey
<1>5. e + Ahead >= t + NonceLifetime
  BY <1>4 DEF ReplayInv, NoncesRemembered
<1>6. now <= r + Lag /\ r - t <= MaxSkew
  BY DEF ReplayInv, CallsTimely
<1>7. now > e
  BY <1>3 DEF Alive
<1> HIDE DEF key, t, r, e
<1> QED
  BY <1>2, <1>3, <1>5, <1>6, <1>7, TimeAssumption, LifetimeType
  DEF NonceOutlivesWindow

(* Every step preserves the invariant.                                      *)
LEMMA ReplayInvStep ==
    ASSUME NonceOutlivesWindow, ReplayInv, TypeOK', [Next]_vars
    PROVE  ReplayInv'
<1>1. ASSUME NEW c \in Calls, NEW request \in Requests,
             NEW from \in Addresses \cup {NoAddress},
             ReadBootstrap(c, request, from)
      PROVE  ReplayInv'
  <2>1. /\ call'[c].request = request
        /\ call'[c].step \in {"headers", "refused"}
        /\ request.timestamp <= now + Ahead
    BY <1>1 DEF ReadBootstrap, ReplayInv, TypeOK
  <2>2. /\ UNCHANGED now
        /\ \A d \in Calls \ {c} : call'[d] = call[d]
        /\ \A key \in NonceKeys : nonceExpiry'[key] >= nonceExpiry[key]
    BY <1>1 DEF ReadBootstrap, ReplayInv, TypeOK
  <2>3. ~Reached(c)' /\ call'[c].step \notin Clocked
    BY <2>1 DEF Reached, Clocked
  <2> QED
    BY <2>1, <2>2, <2>3, OneCallMoves
<1>0. ASSUME NEW c \in Calls, NEW wellFormed \in BOOLEAN, CheckRequest(c, wellFormed)
      PROVE  ReplayInv'
  <2>0. TypeOK
    BY DEF ReplayInv
  <2>1. /\ call[c].step = "headers"
        /\ call'[c].step \in {"client", "refused"}
        /\ call'[c].step = "client" => WithinSkew(call'[c].request.timestamp)
        /\ call'[c].request = call[c].request /\ call'[c].clock = now
        /\ UNCHANGED <<now, nonceExpiry>>
        /\ \A d \in Calls \ {c} : call'[d] = call[d]
    BY <1>0, <2>0, CheckRequestShape
  <2>2. \A key \in NonceKeys : nonceExpiry'[key] >= nonceExpiry[key]
    BY <2>0, <2>1 DEF TypeOK
  <2>3. now \in Int /\ now <= now + Lag
    BY <2>0, TimeAssumption DEF TypeOK, Times
  <2>4. ~Reached(c)' /\ call'[c].request.timestamp <= now + Ahead
    BY <2>1 DEF Reached, ReplayInv, CallsTimely, Running
  <2> QED
    BY <2>1, <2>2, <2>3, <2>4, OneCallMoves DEF WithinSkew, Clocked
<1>2. ASSUME NEW c \in Calls, CheckClient(c) PROVE ReplayInv'
  <2>1. call[c].step = "client" /\ call[c] \in CallStates
    BY <1>2 DEF CheckClient, At, ReplayInv, TypeOK, NotStarted
  <2>2. /\ call'[c].request = call[c].request
        /\ call'[c].clock = call[c].clock
        /\ call'[c].step \in {"nonce", "refused"}
    <3>1. PICK next \in {"nonce", "refused"} :
             call' = [call EXCEPT ![c] = [GoTo(c, next) EXCEPT
                         !.record = credential[call[c].request.client]]]
      BY <1>2 DEF CheckClient
    <3>2. /\ GoTo(c, next) \in CallStates
          /\ GoTo(c, next).step = next
          /\ GoTo(c, next).request = call[c].request
          /\ GoTo(c, next).clock = call[c].clock
      BY <2>1, GoToShape DEF ReplayInv, Running, Clocked, Outcomes
    <3> QED
      BY <3>1, <3>2 DEF ReplayInv, TypeOK, CallStates
  <2>3. /\ UNCHANGED now
        /\ \A d \in Calls \ {c} : call'[d] = call[d]
        /\ \A key \in NonceKeys : nonceExpiry'[key] >= nonceExpiry[key]
    BY <1>2 DEF CheckClient, ReplayInv, TypeOK
  <2>4. ~Reached(c)'
    BY <2>2 DEF Reached
  <2> QED
    BY <2>1, <2>2, <2>3, <2>4, OneCallMoves DEF ReplayInv, CallsTimely, Running, Clocked
<1>3. ASSUME NEW c \in Calls, ConsumeNonce(c) PROVE ReplayInv'
  <2>1. /\ call[c].step \in Clocked /\ call[c].step # "none"
        /\ call[c] \in CallStates
    BY <1>3 DEF ConsumeNonce, At, ReplayInv, TypeOK, NotStarted, Clocked
  <2>2. PICK outcome \in {"replayed", "forbidden", "accepted"} :
          /\ call' = [call EXCEPT ![c] = GoTo(c, outcome)]
          /\ outcome # "replayed" => ~Alive(NonceKey(call[c].request))
    BY <1>3 DEF ConsumeNonce
  <2>3. /\ call'[c].request = call[c].request
        /\ call'[c].step = outcome
    BY <2>1, <2>2, GoToShape DEF Outcomes, ReplayInv, TypeOK
  <2>4. /\ UNCHANGED now
        /\ \A d \in Calls \ {c} : call'[d] = call[d]
        /\ \A key \in NonceKeys : nonceExpiry'[key] >= nonceExpiry[key]
    BY <1>3, <2>1, <2>2, SetNonceEffect DEF ConsumeNonce, ReplayInv, TypeOK
  <2>5. ASSUME Reached(c)'
        PROVE  /\ \A d \in Calls \ {c} : Reached(d) =>
                     NonceKey(call[d].request) # NonceKey(call'[c].request)
               /\ nonceExpiry'[NonceKey(call'[c].request)] + Ahead
                     >= call'[c].request.timestamp + NonceLifetime
    <3>1. ~Alive(NonceKey(call[c].request))
      BY <2>2, <2>3, <2>5 DEF Reached
    <3>2. nonceExpiry'[NonceKey(call[c].request)] = now + NonceLifetime
      BY <1>3, <2>1, <3>1, SetNonceEffect DEF ConsumeNonce, ReplayInv
    <3>3. call[c].request.timestamp <= now + Ahead
      BY <2>1 DEF ReplayInv, CallsTimely, Running
    <3>4. call[c].request.timestamp \in Nat /\ now \in Nat
      <4>1. now \in Nat
        BY TimeAssumption DEF Times, ReplayInv, TypeOK
      <4> QED
        BY <2>1, <4>1, TimeAssumption DEF CallStates, Requests
    <3>5. now + NonceLifetime + Ahead >= call[c].request.timestamp + NonceLifetime
      BY <3>3, <3>4, LifetimeType, TimeAssumption
    <3> QED
      BY <2>1, <2>3, <3>1, <3>2, <3>5, FreeKeyUnused
  <2> QED
    BY <2>3, <2>4, <2>5, <2>2, OneCallMoves DEF Running, Clocked
<1>4. ASSUME NEW c \in Calls, SetNxThrows(c) PROVE ReplayInv'
  <2>1. call[c].step = "nonce" /\ call[c] \in CallStates
    BY <1>4 DEF SetNxThrows, At, ReplayInv, TypeOK, NotStarted
  <2>2. /\ GoTo(c, "fallback") \in CallStates
        /\ GoTo(c, "fallback").step = "fallback"
        /\ GoTo(c, "fallback").request = call[c].request
        /\ GoTo(c, "fallback").clock = call[c].clock
    BY <2>1, GoToShape DEF ReplayInv, Running, Clocked
  <2>3. /\ call'[c].request = call[c].request
        /\ call'[c].clock = call[c].clock
        /\ call'[c].step = "fallback"
    BY <1>4, <2>2 DEF SetNxThrows, ReplayInv, TypeOK, CallStates
  <2>4. /\ UNCHANGED now
        /\ \A d \in Calls \ {c} : call'[d] = call[d]
        /\ \A key \in NonceKeys : nonceExpiry'[key] >= nonceExpiry[key]
    BY <1>4, <2>1, SetNonceEffect DEF SetNxThrows, ReplayInv, TypeOK
  <2>5. ~Reached(c)'
    BY <2>3 DEF Reached
  <2> QED
    BY <2>1, <2>3, <2>4, <2>5, OneCallMoves DEF ReplayInv, CallsTimely, Running, Clocked
<1>5. ASSUME NEW c \in Calls, RedisFails(c) PROVE ReplayInv'
  <2>1. call[c].step # "none" /\ call[c] \in CallStates
    BY <1>5 DEF RedisFails, At, ReplayInv, TypeOK, NotStarted
  <2>2. call'[c].step = "failed"
    BY <1>5, <2>1, GoToShape DEF RedisFails, ReplayInv, TypeOK, Outcomes
  <2>3. /\ UNCHANGED now
        /\ \A d \in Calls \ {c} : call'[d] = call[d]
        /\ \A key \in NonceKeys : nonceExpiry'[key] >= nonceExpiry[key]
    BY <1>5, <2>1, SetNonceEffect DEF RedisFails, ReplayInv, TypeOK
  <2> QED
    BY <2>2, <2>3, OneCallMoves DEF Reached, Running, Clocked
<1>6. ASSUME NEW k \in ClientIds, NEW record \in StoredRecords \cup {NoRecord},
             EditCredential(k, record)
      PROVE  ReplayInv'
  BY <1>6 DEF EditCredential, ReplayInv, CallsTimely, NoncesRemembered,
              NonceUsedOnce, Reached, NonceKey
<1>7. ASSUME Tick PROVE ReplayInv'
  <2>1. CallsTimely'
    <3> SUFFICES ASSUME NEW c \in Calls, call[c].step \in Running
                 PROVE  /\ call[c].request.timestamp <= now' + Ahead
                        /\ call[c].step \in Clocked =>
                              /\ call[c].clock <= now'
                              /\ now' <= call[c].clock + Lag
                              /\ call[c].clock - call[c].request.timestamp <= MaxSkew
      BY <1>7 DEF Tick, CallsTimely, Running
    <3>1. call[c] \in CallStates
      BY DEF ReplayInv, TypeOK, NotStarted, Running, Clocked
    <3>2. call[c].clock \in Nat /\ call[c].request.timestamp \in Nat /\ now \in Nat
      <4>1. now \in Nat
        BY TimeAssumption DEF Times, ReplayInv, TypeOK
      <4>2. call[c].clock \in Times /\ call[c].request \in Requests
        BY <3>1 DEF CallStates
      <4>3. call[c].clock \in Nat
        BY <4>2, TimeAssumption DEF Times
      <4>4. call[c].request.timestamp \in Nat
        BY <4>2, TimeAssumption DEF Requests
      <4> QED
        BY <4>1, <4>3, <4>4
    <3>3. /\ call[c].request.timestamp <= now + Ahead
          /\ call[c].step \in Clocked =>
                /\ call[c].clock <= now
                /\ call[c].clock - call[c].request.timestamp <= MaxSkew
      BY DEF ReplayInv, CallsTimely
    <3>4. now' = now + 1 /\ (call[c].step \in Clocked => now < call[c].clock + Lag)
      BY <1>7 DEF Tick
    <3> QED
      BY <3>2, <3>3, <3>4, TimeAssumption
  <2>2. NoncesRemembered' /\ NonceUsedOnce'
    BY <1>7 DEF Tick, ReplayInv, NoncesRemembered, NonceUsedOnce, Reached, NonceKey
  <2> QED
    BY <2>1, <2>2 DEF ReplayInv
<1>8. ASSUME UNCHANGED vars PROVE ReplayInv'
  BY <1>8 DEF vars, ReplayInv, CallsTimely, NoncesRemembered, NonceUsedOnce,
              Reached, NonceKey
<1> QED
  BY <1>0, <1>1, <1>2, <1>3, <1>4, <1>5, <1>6, <1>7, <1>8, DeliveryType DEF Next, Step

(* When the nonces outlive the window of acceptable timestamps, the whole   *)
(* invariant holds in every reachable state.                                *)
THEOREM ReplayInvariant == NonceOutlivesWindow => (Spec => []ReplayInv)
<1> SUFFICES ASSUME NonceOutlivesWindow PROVE Spec => []ReplayInv
  OBVIOUS
<1>1. Init => ReplayInv
  BY ReplayInvInit
<1>2. ReplayInv /\ TypeOK' /\ [Next]_vars => ReplayInv'
  BY ReplayInvStep
<1>3. Spec => []TypeOK
  BY TypeCorrect
<1> QED
  BY <1>1, <1>2, <1>3, PTL DEF Spec

(* The replay guard: no request is accepted twice.                          *)
THEOREM ReplayGuard == NonceOutlivesWindow => (Spec => []AcceptedAtMostOnce)
<1> SUFFICES ASSUME NonceOutlivesWindow PROVE Spec => []AcceptedAtMostOnce
  OBVIOUS
<1>1. ReplayInv => AcceptedAtMostOnce
  BY DEF ReplayInv, NonceUsedOnce, AcceptedAtMostOnce, Reached, At
<1> QED
  BY <1>1, ReplayInvariant, PTL

(* A nonce burnt by a misused credential is not accepted any more.          *)
THEOREM MisuseBurns == NonceOutlivesWindow => (Spec => []MisuseBurnsNonce)
<1> SUFFICES ASSUME NonceOutlivesWindow PROVE Spec => []MisuseBurnsNonce
  OBVIOUS
<1>1. ReplayInv => MisuseBurnsNonce
  BY DEF ReplayInv, NonceUsedOnce, MisuseBurnsNonce, Reached, At
<1> QED
  BY <1>1, ReplayInvariant, PTL
-----------------------------------------------------------------------------
(* The argument for what an acceptance is worth.  It needs no condition on  *)
(* the nonces.  A call in progress sees in its history what its client has  *)
(* now and a bootstrap credential; once it has read its clock the reading   *)
(* is at most Lag old, and past its second read it has seen the record that *)
(* it works with, which was authentic.                                      *)
ClockRead(c) ==
    call[c].step \in Clocked => call[c].clock <= now /\ now <= call[c].clock + Lag

StoreFollowed(c) ==
    call[c].step \in Running =>
        <<call[c].request.client, credential[call[c].request.client]>> \in held[c]

BootstrapSeen(c) ==
    call[c].step \in Running \cup {"accepted"} =>
        \E pair \in held[c] : pair[1] = BootstrapId /\ pair[2] # NoRecord

RecordAuthentic(c) ==
    call[c].step \in {"nonce", "fallback", "accepted"} =>
        /\ <<call[c].request.client, call[c].record>> \in held[c]
        /\ Authentic(call[c].record, c)

AnswerTimely(c) ==
    At(c, "accepted") =>
        /\ call[c].answered - call[c].clock <= Lag
        /\ ~Misused(call[c].record, call[c].request)

Entitled(c) ==
    /\ ClockRead(c)
    /\ StoreFollowed(c)
    /\ BootstrapSeen(c)
    /\ RecordAuthentic(c)
    /\ AnswerTimely(c)

EntitledInv == TypeOK /\ \A c \in Calls : Entitled(c)

(* What is known of a call that is not touched stays.                       *)
LEMMA EntitledStays ==
    ASSUME NEW c \in Calls, Entitled(c), call'[c] = call[c], held'[c] = held[c],
           credential' = credential, now' = now
    PROVE  Entitled(c)'
  BY DEF Entitled, ClockRead, StoreFollowed, BootstrapSeen, RecordAuthentic,
         AnswerTimely, Authentic, At

(* No call has begun.                                                       *)
LEMMA EntitledInit == Init => \A c \in Calls : Entitled(c)
  BY DEF Init, NotStarted, Entitled, ClockRead, StoreFollowed, BootstrapSeen,
         RecordAuthentic, AnswerTimely, At, Running, Clocked

(* The first step: the history starts with what is stored.                  *)
LEMMA ReadBootstrapEntitles ==
    ASSUME EntitledInv, NEW c \in Calls, NEW request \in Requests,
           NEW from \in Addresses \cup {NoAddress}, ReadBootstrap(c, request, from)
    PROVE  \A d \in Calls : Entitled(d)'
<1>1. /\ call'[c].request = request
      /\ call'[c].step \in {"headers", "refused"}
      /\ call'[c].step = "headers" => credential[BootstrapId] # NoRecord
      /\ held'[c] = {<<k, credential[k]>> : k \in {BootstrapId, request.client}}
  BY DEF ReadBootstrap, EntitledInv, TypeOK
<1>2. <<BootstrapId, credential[BootstrapId]>> \in held'[c]
      /\ <<request.client, credential[request.client]>> \in held'[c]
  BY <1>1
<1>3. UNCHANGED <<now, credential>>
  BY DEF ReadBootstrap
<1>4. ClockRead(c)'
  BY <1>1 DEF ClockRead, Clocked
<1>5. StoreFollowed(c)'
  BY <1>1, <1>2, <1>3 DEF StoreFollowed
<1>6. BootstrapSeen(c)'
  BY <1>1, <1>2 DEF BootstrapSeen, Running, Clocked
<1>7. RecordAuthentic(c)' /\ AnswerTimely(c)'
  BY <1>1 DEF RecordAuthentic, AnswerTimely, At
<1>8. Entitled(c)'
  BY <1>4, <1>5, <1>6, <1>7 DEF Entitled
<1>9. \A d \in Calls \ {c} : Entitled(d)'
  BY EntitledStays DEF EntitledInv, ReadBootstrap, TypeOK
<1> QED
  BY <1>8, <1>9

(* The second: the clock is read now.                                       *)
LEMMA CheckRequestEntitles ==
    ASSUME EntitledInv, NEW c \in Calls, NEW wellFormed \in BOOLEAN,
           CheckRequest(c, wellFormed)
    PROVE  \A d \in Calls : Entitled(d)'
<1>1. /\ call[c].step = "headers" /\ Entitled(c)
      /\ call'[c].step \in {"client", "refused"}
      /\ call'[c].request = call[c].request /\ call'[c].clock = now
      /\ UNCHANGED <<now, credential, held>>
      /\ \A d \in Calls \ {c} : call'[d] = call[d]
  BY CheckRequestShape DEF EntitledInv
<1>2. now \in Int /\ now <= now + Lag
  BY TimeAssumption DEF EntitledInv, TypeOK, Times
<1>3. ClockRead(c)'
  BY <1>1, <1>2 DEF ClockRead
<1>4. StoreFollowed(c)' /\ BootstrapSeen(c)'
  BY <1>1 DEF Entitled, StoreFollowed, BootstrapSeen, Running
<1>5. RecordAuthentic(c)' /\ AnswerTimely(c)'
  BY <1>1 DEF RecordAuthentic, AnswerTimely, At
<1>6. Entitled(c)'
  BY <1>3, <1>4, <1>5 DEF Entitled
<1>7. \A d \in Calls \ {c} : Entitled(d)'
  BY <1>1, EntitledStays DEF EntitledInv
<1> QED
  BY <1>6, <1>7

(* Every later step of a call keeps its request and its clock reading, and  *)
(* leaves the stores and the history alone.                                 *)
LEMMA CallGoesOn ==
    ASSUME EntitledInv, NEW c \in Calls, NEW state \in CallStates,
           call[c].step \in Clocked,
           call' = [call EXCEPT ![c] = state],
           UNCHANGED <<now, credential, held>>,
           state.step \notin {"headers", "client"},
           state.request = call[c].request, state.clock = call[c].clock,
           state.from = call[c].from,
           state.step \in {"nonce", "fallback", "accepted"} =>
               /\ <<state.request.client, state.record>> \in held[c]
               /\ Authentic(state.record, c),
           state.step = "accepted" =>
               /\ state.answered = now
               /\ ~Misused(state.record, state.request)
    PROVE  \A d \in Calls : Entitled(d)'
<1>1. call'[c] = state
  BY DEF EntitledInv, TypeOK
<1>2. Entitled(c)
  BY DEF EntitledInv
<1>3. ClockRead(c)'
  BY <1>1, <1>2 DEF Entitled, ClockRead
<1>4. StoreFollowed(c)'
  BY <1>1, <1>2 DEF Entitled, StoreFollowed, Running
<1>5. BootstrapSeen(c)'
  BY <1>1, <1>2 DEF Entitled, BootstrapSeen, Running
<1>6. RecordAuthentic(c)'
  BY <1>1 DEF RecordAuthentic, Authentic
<1>7. AnswerTimely(c)'
  <2> SUFFICES ASSUME state.step = "accepted"
               PROVE  state.answered - state.clock <= Lag
    BY <1>1 DEF AnswerTimely, At
  <2>1. now \in Int /\ call[c].clock \in Int
    BY TimeAssumption DEF EntitledInv, TypeOK, Times, CallStates
  <2>2. now <= call[c].clock + Lag
    BY <1>2 DEF Entitled, ClockRead
  <2> QED
    BY <2>1, <2>2, TimeAssumption
<1>8. Entitled(c)'
  BY <1>3, <1>4, <1>5, <1>6, <1>7 DEF Entitled
<1>9. \A d \in Calls \ {c} : Entitled(d)'
  BY EntitledStays DEF EntitledInv, TypeOK
<1> QED
  BY <1>8, <1>9

(* The client's read: a call that goes on has an authentic record, which    *)
(* its history shows as of this instant.                                    *)
LEMMA CheckClientEntitles ==
    ASSUME EntitledInv, NEW c \in Calls, CheckClient(c)
    PROVE  \A d \in Calls : Entitled(d)'
<1> DEFINE record == credential[call[c].request.client]
           next   == IF Authentic(record, c) THEN "nonce" ELSE "refused"
           state  == [GoTo(c, next) EXCEPT !.record = record]
<1>1. call[c].step = "client" /\ call[c] \in CallStates
  BY DEF CheckClient, At, EntitledInv, TypeOK, NotStarted
<1>2. next \in {"nonce", "refused"} /\ (next = "nonce" => Authentic(record, c))
  OBVIOUS
<1>3. record \in Records \cup {NoRecord} /\ <<call[c].request.client, record>> \in held[c]
  BY <1>1 DEF EntitledInv, TypeOK, Entitled, StoreFollowed, Running, Clocked, CallStates, Requests
<1>4. call' = [call EXCEPT ![c] = state] /\ UNCHANGED <<now, credential, held>>
  BY DEF CheckClient
<1> HIDE DEF record, next
<1>5. /\ GoTo(c, next) \in CallStates /\ GoTo(c, next).step = next
      /\ GoTo(c, next).request = call[c].request /\ GoTo(c, next).clock = call[c].clock
      /\ GoTo(c, next).from = call[c].from
  BY <1>1, <1>2 DEF EntitledInv, TypeOK, CallStates, GoTo, Running, Clocked, Outcomes
<1>6. /\ state \in CallStates /\ state.step = next /\ state.record = record
      /\ state.request = call[c].request /\ state.clock = call[c].clock
      /\ state.from = call[c].from
  BY <1>3, <1>5 DEF CallStates
<1> HIDE DEF state
<1> QED
  BY <1>1, <1>2, <1>3, <1>4, <1>6, CallGoesOn DEF Clocked

(* The steps that go on with the record that was read.                      *)
LEMMA GoToEntitles ==
    ASSUME EntitledInv, NEW c \in Calls, call[c].step \in Clocked,
           NEW step \in {"fallback"} \cup Outcomes, NEW retried \in BOOLEAN,
           call' = [call EXCEPT ![c] = [GoTo(c, step) EXCEPT !.retried = retried]],
           UNCHANGED <<now, credential, held>>,
           step \in {"fallback", "accepted"} => call[c].step \in {"nonce", "fallback"},
           step = "accepted" => ~Misused(call[c].record, call[c].request)
    PROVE  \A d \in Calls : Entitled(d)'
<1> DEFINE state == [GoTo(c, step) EXCEPT !.retried = retried]
<1>1. call[c] \in CallStates
  BY DEF EntitledInv, TypeOK, NotStarted, Clocked
<1>2. /\ state \in CallStates /\ state.step = step /\ state.record = call[c].record
      /\ state.request = call[c].request /\ state.clock = call[c].clock
      /\ state.from = call[c].from /\ state.answered = now
  BY <1>1 DEF EntitledInv, TypeOK, CallStates, GoTo, Running, Clocked, Outcomes
<1>3. call' = [call EXCEPT ![c] = state]
  OBVIOUS
<1>4. step \in {"fallback", "accepted"} =>
          /\ <<call[c].request.client, call[c].record>> \in held[c]
          /\ Authentic(call[c].record, c)
  BY DEF EntitledInv, Entitled, RecordAuthentic
<1>5. step \notin {"headers", "client", "nonce"}
  BY DEF Outcomes
<1> HIDE DEF state
<1> QED
  BY <1>2, <1>3, <1>4, <1>5, CallGoesOn

(* The nonce decides; an acceptance is not a misuse.                        *)
LEMMA ConsumeNonceEntitles ==
    ASSUME EntitledInv, NEW c \in Calls, ConsumeNonce(c)
    PROVE  \A d \in Calls : Entitled(d)'
<1>1. call[c].step \in {"nonce", "fallback"} /\ call[c] \in CallStates
  BY DEF ConsumeNonce, At, EntitledInv, TypeOK, NotStarted
<1>2. PICK step \in {"replayed", "forbidden", "accepted"} :
          /\ call' = [call EXCEPT ![c] = GoTo(c, step)]
          /\ step = "accepted" => ~Misused(call[c].record, call[c].request)
  BY DEF ConsumeNonce
<1> DEFINE retried == call[c].retried
<1>3. retried \in BOOLEAN /\ [GoTo(c, step) EXCEPT !.retried = retried] = GoTo(c, step)
  BY <1>1 DEF CallStates, GoTo
<1>4. call' = [call EXCEPT ![c] = [GoTo(c, step) EXCEPT !.retried = retried]]
  BY <1>2, <1>3
<1>5. UNCHANGED <<now, credential, held>>
  BY DEF ConsumeNonce
<1>6. /\ step \in {"fallback"} \cup Outcomes /\ call[c].step \in Clocked
      /\ step \in {"fallback", "accepted"} => call[c].step \in {"nonce", "fallback"}
      /\ step = "accepted" => ~Misused(call[c].record, call[c].request)
  BY <1>1, <1>2 DEF Clocked, Outcomes
<1> HIDE DEF retried
<1>7. retried \in BOOLEAN
  BY <1>3
<1> QED
  BY <1>4, <1>5, <1>6, <1>7, GoToEntitles

(* The error paths accept nothing.                                          *)
LEMMA FailuresEntitle ==
    ASSUME EntitledInv, NEW c \in Calls, SetNxThrows(c) \/ RedisFails(c)
    PROVE  \A d \in Calls : Entitled(d)'
<1>1. CASE SetNxThrows(c)
  <2>1. call[c].step = "nonce"
    BY <1>1 DEF SetNxThrows, At
  <2> QED
    BY <1>1, <2>1, GoToEntitles DEF SetNxThrows, Clocked, Outcomes
<1>2. CASE RedisFails(c)
  <2>1. call[c].step \in {"client", "fallback"} /\ call[c] \in CallStates
    BY <1>2 DEF RedisFails, At, EntitledInv, TypeOK, NotStarted
  <2>2. call[c].retried \in BOOLEAN
        /\ [GoTo(c, "failed") EXCEPT !.retried = call[c].retried] = GoTo(c, "failed")
    BY <2>1 DEF CallStates, GoTo
  <2>3. call' = [call EXCEPT ![c] =
                   [GoTo(c, "failed") EXCEPT !.retried = call[c].retried]]
    BY <1>2, <2>2 DEF RedisFails
  <2> QED
    BY <1>2, <2>1, <2>2, <2>3, GoToEntitles, ZenonT(40) DEF RedisFails, Clocked, Outcomes
<1> QED
  BY <1>1, <1>2

(* An edit adds to the history of every call in progress that it concerns.  *)
LEMMA EditEntitles ==
    ASSUME EntitledInv, NEW k \in ClientIds, NEW record \in StoredRecords \cup {NoRecord},
           EditCredential(k, record)
    PROVE  \A d \in Calls : Entitled(d)'
<1> SUFFICES ASSUME NEW d \in Calls PROVE Entitled(d)'
  OBVIOUS
<1>1. /\ call' = call /\ now' = now
      /\ held[d] \subseteq held'[d]
      /\ call[d].step \in Running /\ k = call[d].request.client
            => <<k, record>> \in held'[d]
      /\ credential' = [credential EXCEPT ![k] = record]
  BY DEF EditCredential
<1>2. Entitled(d)
  BY DEF EntitledInv
<1>3. StoreFollowed(d)'
  <2> SUFFICES ASSUME call[d].step \in Running
               PROVE  <<call[d].request.client, credential'[call[d].request.client]>>
                          \in held'[d]
    BY <1>1 DEF StoreFollowed
  <2>1. call[d].request.client \in ClientIds
    BY DEF EntitledInv, TypeOK, CallStates, Requests, NotStarted, Running, Clocked
  <2> QED
    BY <1>1, <1>2, <2>1 DEF Entitled, StoreFollowed, EntitledInv, TypeOK
<1>4. ClockRead(d)' /\ BootstrapSeen(d)' /\ RecordAuthentic(d)' /\ AnswerTimely(d)'
  BY <1>1, <1>2 DEF Entitled, ClockRead, BootstrapSeen, RecordAuthentic, AnswerTimely,
                    Authentic, At
<1> QED
  BY <1>3, <1>4 DEF Entitled

(* The clock waits for a call that is Lag old.                              *)
LEMMA TickEntitles ==
    ASSUME EntitledInv, Tick
    PROVE  \A d \in Calls : Entitled(d)'
<1> SUFFICES ASSUME NEW d \in Calls PROVE Entitled(d)'
  OBVIOUS
<1>1. Entitled(d)
  BY DEF EntitledInv
<1>2. ClockRead(d)'
  <2> SUFFICES ASSUME call[d].step \in Clocked
               PROVE  call[d].clock <= now' /\ now' <= call[d].clock + Lag
    BY DEF Tick, ClockRead
  <2>1. call[d] \in CallStates
    BY DEF EntitledInv, TypeOK, NotStarted, Clocked
  <2>2. now \in Int /\ call[d].clock \in Int
    BY <2>1, TimeAssumption DEF EntitledInv, TypeOK, Times, CallStates
  <2>3. now' = now + 1 /\ now < call[d].clock + Lag /\ call[d].clock <= now
    BY <1>1 DEF Tick, Entitled, ClockRead
  <2> QED
    BY <2>2, <2>3, TimeAssumption
<1>3. StoreFollowed(d)' /\ BootstrapSeen(d)' /\ RecordAuthentic(d)' /\ AnswerTimely(d)'
  BY <1>1 DEF Tick, Entitled, StoreFollowed, BootstrapSeen, RecordAuthentic,
              AnswerTimely, Authentic, At
<1> QED
  BY <1>2, <1>3 DEF Entitled

(* Every step keeps what the calls know.                                    *)
LEMMA EntitledStep ==
    ASSUME EntitledInv, [Next]_vars PROVE \A d \in Calls : Entitled(d)'
<1>1. ASSUME NEW c \in Calls, Step(c) PROVE \A d \in Calls : Entitled(d)'
  BY <1>1, DeliveryType, ReadBootstrapEntitles, CheckRequestEntitles,
     CheckClientEntitles, ConsumeNonceEntitles, FailuresEntitle DEF Step
<1>2. ASSUME NEW k \in ClientIds, NEW record \in StoredRecords \cup {NoRecord},
             EditCredential(k, record)
      PROVE  \A d \in Calls : Entitled(d)'
  BY <1>2, EditEntitles
<1>3. CASE Tick
  BY <1>3, TickEntitles
<1>4. CASE UNCHANGED vars
  BY <1>4, EntitledStays DEF EntitledInv, vars
<1> QED
  BY <1>1, <1>2, <1>3, <1>4 DEF Next

(* A request is accepted only if, while the call ran, the lock was open and *)
(* its client had one credential that entitled it, whatever the             *)
(* administrators did in between; the answer is at most Lag after the clock *)
(* was read.                                                                *)
THEOREM AcceptanceEntitled == Spec => []AcceptanceJustified
<1>1. Spec => []TypeOK
  BY TypeCorrect
<1>2. Init => \A c \in Calls : Entitled(c)
  BY EntitledInit
<1>3. TypeOK /\ (\A c \in Calls : Entitled(c)) /\ [Next]_vars
          => (\A c \in Calls : Entitled(c))'
  BY EntitledStep DEF EntitledInv
<1>4. TypeOK /\ (\A c \in Calls : Entitled(c)) => AcceptanceJustified
  <2> SUFFICES ASSUME TypeOK, NEW c \in Calls, Entitled(c), At(c, "accepted")
               PROVE  /\ call[c].answered - call[c].clock <= Lag
                      /\ \E pair \in held[c] : pair[1] = BootstrapId /\ pair[2] # NoRecord
                      /\ \E pair \in held[c] :
                            /\ pair[1] = call[c].request.client
                            /\ pair[2] # NoRecord
                            /\ pair[2].hash = call[c].request.hash
                            /\ pair[2].expiresAt # Never =>
                                  call[c].answered <= pair[2].expiresAt + Lag
                            /\ pair[2].allowedIps # {} => call[c].from \in pair[2].allowedIps
                            /\ pair[2].purpose = "propagation-only" =>
                                  call[c].request.path = ManagementRoute
    BY DEF AcceptanceJustified
  <2> DEFINE record == call[c].record
             pair == <<call[c].request.client, record>>
  <2>1. call[c] \in CallStates
    BY DEF TypeOK, At, NotStarted
  <2>2. /\ pair \in held[c]
        /\ record # NoRecord
        /\ ~Expired(record, call[c].clock)
        /\ AddressAllowed(record, call[c].from)
        /\ record.hash = call[c].request.hash
        /\ call[c].answered - call[c].clock <= Lag
        /\ ~Misused(record, call[c].request)
    BY DEF Entitled, RecordAuthentic, AnswerTimely, Authentic, At
  <2>3. \E bootstrap \in held[c] : bootstrap[1] = BootstrapId /\ bootstrap[2] # NoRecord
    BY DEF Entitled, BootstrapSeen, At
  <2>4. record.expiresAt # Never => call[c].answered <= record.expiresAt + Lag
    <3> SUFFICES ASSUME record.expiresAt # Never
                 PROVE  call[c].answered <= record.expiresAt + Lag
      OBVIOUS
    <3>1. record \in Records
      BY <2>1, <2>2 DEF CallStates
    <3>2. record.expiresAt \in Int
      BY <3>1, TimeAssumption DEF Records
    <3>3. call[c].answered \in Int /\ call[c].clock \in Int
      BY <2>1, TimeAssumption DEF CallStates, Times
    <3>4. call[c].clock <= record.expiresAt
      BY <2>2, <3>2, <3>3 DEF Expired
    <3> HIDE DEF record
    <3> QED
      BY <2>2, <3>2, <3>3, <3>4, TimeAssumption
  <2>5. record.allowedIps # {} => call[c].from \in record.allowedIps
    BY <2>2 DEF AddressAllowed
  <2>6. record.purpose = "propagation-only" => call[c].request.path = ManagementRoute
    BY <2>2 DEF Misused
  <2> QED
    BY <2>2, <2>3, <2>4, <2>5, <2>6
<1> QED
  BY <1>1, <1>2, <1>3, <1>4, PTL DEF Spec
-----------------------------------------------------------------------------
(* Where everything is in two sequences that are joined by a ":".           *)
LEMMA JoinShape ==
    ASSUME NEW S, ":" \in S, NEW c \in Seq(S), NEW m \in Seq(S)
    PROVE  LET s == c \o <<":">> \o m
           IN  /\ Len(s) = Len(c) + 1 + Len(m)
               /\ s[Len(c) + 1] = ":"
               /\ \A i \in 1..Len(c) : s[i] = c[i]
               /\ \A i \in 1..Len(m) : s[Len(c) + 1 + i] = m[i]
<1> DEFINE u == c \o <<":">>
<1>1. <<":">> \in Seq(S) /\ Len(<<":">>) = 1 /\ <<":">>[1] = ":"
  OBVIOUS
<1>2. /\ u \in Seq(S) /\ Len(u) = Len(c) + 1
      /\ u[Len(c) + 1] = ":" /\ \A i \in 1..Len(c) : u[i] = c[i]
  BY <1>1, ConcatProperties
<1>3. Len(c) \in Nat /\ Len(m) \in Nat
  BY LenProperties
<1> HIDE DEF u
<1>4. /\ Len(u \o m) = Len(u) + Len(m)
      /\ \A i \in 1..Len(u) + Len(m) :
            (u \o m)[i] = IF i <= Len(u) THEN u[i] ELSE m[i - Len(u)]
  BY <1>2, ConcatProperties
<1>5. /\ Len(u \o m) = Len(c) + 1 + Len(m)
      /\ (u \o m)[Len(c) + 1] = ":"
      /\ \A i \in 1..Len(c) : (u \o m)[i] = c[i]
      /\ \A i \in 1..Len(m) : (u \o m)[Len(c) + 1 + i] = m[i]
  BY <1>2, <1>3, <1>4
<1> QED
  BY <1>5 DEF u

(* The ":" of a join is not in the second part, so that the first is not     *)
(* shorter in one of two equal joins than in the other.                     *)
LEMMA JoinNotShorter ==
    ASSUME NEW S, ":" \in S, NEW c \in Seq(S), NEW d \in Seq(S),
           NEW m \in Seq(S), NEW n \in Seq(S),
           \A i \in 1..Len(m) : m[i] # ":",
           c \o <<":">> \o m = d \o <<":">> \o n
    PROVE  Len(d) <= Len(c)
<1> DEFINE s == c \o <<":">> \o m
<1>1. /\ Len(s) = Len(c) + 1 + Len(m)
      /\ \A i \in 1..Len(m) : s[Len(c) + 1 + i] = m[i]
  BY JoinShape
<1>2. Len(s) = Len(d) + 1 + Len(n) /\ s[Len(d) + 1] = ":"
  BY JoinShape
<1>3. Len(c) \in Nat /\ Len(d) \in Nat /\ Len(m) \in Nat /\ Len(n) \in Nat
  BY LenProperties
<1> HIDE DEF s
<1> SUFFICES ASSUME Len(c) < Len(d) PROVE FALSE
  BY <1>3
<1>4. Len(d) - Len(c) \in 1..Len(m)
  BY <1>1, <1>2, <1>3
<1>5. s[Len(c) + 1 + (Len(d) - Len(c))] = m[Len(d) - Len(c)]
  BY <1>1, <1>4
<1> QED
  BY <1>2, <1>3, <1>4, <1>5

Characters    == STRING \cup {":"}
Separable(m)  == \A i \in 1..Len(m) : m[i] # ":"
Joined(c, m)  == c \o <<":">> \o m

(* Two joins whose second parts have no ":" are equal only part by part.     *)
LEMMA JoinInjective ==
    \A c, d, m, n \in Seq(Characters) :
        /\ Separable(m)
        /\ Separable(n)
        /\ Joined(c, m) = Joined(d, n)
        => c = d /\ m = n
<1> SUFFICES ASSUME NEW c \in Seq(Characters), NEW d \in Seq(Characters),
                    NEW m \in Seq(Characters), NEW n \in Seq(Characters),
                    Separable(m), Separable(n), Joined(c, m) = Joined(d, n)
             PROVE  c = d /\ m = n
  OBVIOUS
<1> DEFINE s == c \o <<":">> \o m
<1>1. ":" \in Characters
  BY DEF Characters
<1>2. /\ Len(s) = Len(c) + 1 + Len(m)
      /\ \A i \in 1..Len(c) : s[i] = c[i]
      /\ \A i \in 1..Len(m) : s[Len(c) + 1 + i] = m[i]
  BY <1>1, JoinShape
<1>3. s = d \o <<":">> \o n
  BY DEF Joined
<1>4. /\ Len(s) = Len(d) + 1 + Len(n)
      /\ \A i \in 1..Len(d) : s[i] = d[i]
      /\ \A i \in 1..Len(n) : s[Len(d) + 1 + i] = n[i]
  BY <1>1, <1>3, JoinShape, SMTT(40)
<1>5. \A i \in 1..Len(m) : m[i] # ":"
  BY DEF Separable
<1>6. \A i \in 1..Len(n) : n[i] # ":"
  BY DEF Separable
<1>7. Len(d) <= Len(c)
  BY <1>1, <1>3, <1>5, JoinNotShorter
<1>8. Len(c) <= Len(d)
  BY <1>1, <1>3, <1>6, JoinNotShorter
<1>9. Len(c) \in Nat /\ Len(d) \in Nat /\ Len(m) \in Nat /\ Len(n) \in Nat
  BY LenProperties
<1> HIDE DEF s
<1>10. Len(c) = Len(d) /\ Len(m) = Len(n)
  BY <1>2, <1>4, <1>7, <1>8, <1>9
<1>11. /\ \A i \in 1..Len(c) : c[i] = d[i]
       /\ \A i \in 1..Len(m) : m[i] = n[i]
  BY <1>2, <1>4, <1>10
<1> QED
  BY <1>10, <1>11, SeqEqual

(* A nonce key is that of one client, nonce and timestamp.                   *)
LEMMA KeySeparates ==
    ASSUME NoncesWithoutSeparator, NEW r \in Requests, NEW s \in Requests,
           NonceKey(r) = NonceKey(s)
    PROVE  r.client = s.client /\ r.nonce = s.nonce /\ r.timestamp = s.timestamp
<1>1. /\ r.client \in Seq(Characters) /\ s.client \in Seq(Characters)
      /\ r.nonce \in Seq(Characters) /\ s.nonce \in Seq(Characters)
  <2>1. \A seq \in Seq(STRING) : seq \in Seq(Characters)
    BY SeqMonotonic DEF Characters
  <2> QED
    BY <2>1 DEF NoncesWithoutSeparator, Requests
<1>2. Separable(r.nonce) /\ Separable(s.nonce)
  BY DEF NoncesWithoutSeparator, Requests, Separable
<1>3. /\ Joined(r.client, r.nonce) = Joined(s.client, s.nonce)
      /\ r.timestamp = s.timestamp
  BY DEF NonceKey, Joined
<1>4. r.client = s.client /\ r.nonce = s.nonce
  BY <1>1, <1>2, <1>3, JoinInjective
<1> QED
  BY <1>3, <1>4
-----------------------------------------------------------------------------
(* A call that has, or may have, set the key of its nonce.                  *)
Used(d) == Reached(d) \/ (call[d].step # "none" /\ call[d].retried)

(* Whoever finds a key finds the key of a call that set it: a key that was  *)
(* ever set is that of a call, a call that repeats its command is marked,   *)
(* and a refusal as replay has another call's key.                          *)
KeysHaveUsers ==
    \A key \in NonceKeys : nonceExpiry[key] # -1 =>
        \E d \in Calls : Used(d) /\ NonceKey(call[d].request) = key

RetriesMarked == \A c \in Calls : At(c, "fallback") => call[c].retried

ReplaysCaused ==
    \A c \in Calls : At(c, "replayed") /\ ~call[c].retried =>
        \E d \in Calls \ {c} :
            Used(d) /\ NonceKey(call[d].request) = NonceKey(call[c].request)

CauseInv == TypeOK /\ KeysHaveUsers /\ RetriesMarked /\ ReplaysCaused

(* What one step of a call must establish for the invariant: a key that it   *)
(* sets is its own, and it remains the user of the keys it has used.         *)
LEMMA OneCallUses ==
    ASSUME CauseInv, TypeOK', NEW c \in Calls,
           \A d \in Calls \ {c} : call'[d] = call[d],
           Used(c) => Used(c)' /\ call'[c].request = call[c].request,
           \A key \in NonceKeys : nonceExpiry'[key] # nonceExpiry[key] =>
               Used(c)' /\ key = NonceKey(call'[c].request),
           At(c, "fallback")' => call'[c].retried,
           At(c, "replayed")' /\ ~call'[c].retried =>
               \E d \in Calls \ {c} :
                   Used(d) /\ NonceKey(call[d].request) = NonceKey(call'[c].request)
    PROVE  CauseInv'
<1>1. \A d \in Calls : Used(d) => Used(d)' /\ call'[d].request = call[d].request
  BY DEF Used, Reached
<1>2. KeysHaveUsers'
  BY <1>1, ZenonT(40) DEF CauseInv, KeysHaveUsers, NonceKey
<1>3. RetriesMarked'
  BY DEF CauseInv, RetriesMarked, At
<1>4. ReplaysCaused'
  <2> SUFFICES ASSUME NEW b \in Calls, At(b, "replayed")', ~call'[b].retried
               PROVE  \E d \in Calls \ {b} :
                         /\ Used(d)'
                         /\ NonceKey(call'[d].request) = NonceKey(call'[b].request)
    BY DEF ReplaysCaused, NonceKey
  <2>1. PICK d \in Calls \ {b} :
           Used(d) /\ NonceKey(call[d].request) = NonceKey(call'[b].request)
    <3>1. CASE b = c
      BY <3>1
    <3>2. CASE b # c
      BY <3>2 DEF CauseInv, ReplaysCaused, At
    <3> QED
      BY <3>1, <3>2
  <2> QED
    BY <1>1, <2>1
<1> QED
  BY <1>2, <1>3, <1>4 DEF CauseInv

(* A step of a call on SET NX sets no key but its own.                       *)
LEMMA SetNonceOwn ==
    ASSUME TypeOK, NEW c \in Calls, SetNonce(c) \/ UNCHANGED nonceExpiry
    PROVE  \A key \in NonceKeys :
              nonceExpiry'[key] # nonceExpiry[key] => key = NonceKey(call[c].request)
  BY DEF SetNonce, TypeOK

(* Every step keeps what is known of the keys.                               *)
LEMMA CauseInvStep ==
    ASSUME CauseInv, TypeOK', [Next]_vars
    PROVE  CauseInv'
<1> USE DEF At
<1>0. TypeOK
  BY DEF CauseInv
<1>1. ASSUME NEW c \in Calls, NEW request \in Requests,
             NEW from \in Addresses \cup {NoAddress},
             ReadBootstrap(c, request, from)
      PROVE  CauseInv'
  <2>1. /\ call'[c].step \in {"headers", "refused"}
        /\ \A d \in Calls \ {c} : call'[d] = call[d]
        /\ UNCHANGED nonceExpiry
        /\ ~Used(c)
    BY <1>0, <1>1 DEF ReadBootstrap, TypeOK, Used, Reached
  <2> QED
    BY <1>0, <2>1, OneCallUses
<1>9. ASSUME NEW c \in Calls, NEW wellFormed \in BOOLEAN, CheckRequest(c, wellFormed)
      PROVE  CauseInv'
  <2>1. /\ call[c].step = "headers"
        /\ call'[c].step \in {"client", "refused"}
        /\ call'[c].request = call[c].request /\ call'[c].retried = call[c].retried
        /\ \A d \in Calls \ {c} : call'[d] = call[d]
        /\ UNCHANGED nonceExpiry
    BY <1>0, <1>9, CheckRequestShape
  <2> QED
    BY <1>0, <2>1, OneCallUses DEF Used, Reached
<1>2. ASSUME NEW c \in Calls, CheckClient(c) PROVE CauseInv'
  <2>1. call[c].step = "client" /\ call[c] \in CallStates
    BY <1>0, <1>2 DEF CheckClient, TypeOK, NotStarted
  <2>2. /\ call'[c].step \in {"nonce", "refused"}
        /\ call'[c].request = call[c].request /\ call'[c].retried = call[c].retried
        /\ \A d \in Calls \ {c} : call'[d] = call[d]
        /\ UNCHANGED nonceExpiry
    BY <1>0, <1>2, <2>1 DEF CheckClient, TypeOK, GoTo, CallStates
  <2> QED
    BY <1>0, <2>1, <2>2, OneCallUses DEF Used, Reached
<1>3. ASSUME NEW c \in Calls, ConsumeNonce(c) PROVE CauseInv'
  <2> DEFINE key == NonceKey(call[c].request)
  <2>1. call[c].step \in {"nonce", "fallback"} /\ call[c] \in CallStates
    BY <1>0, <1>3 DEF ConsumeNonce, TypeOK, NotStarted
  <2>2. PICK outcome \in {"replayed", "forbidden", "accepted"} :
          /\ call' = [call EXCEPT ![c] = GoTo(c, outcome)]
          /\ outcome = "replayed" <=> Alive(key)
    BY <1>3 DEF ConsumeNonce
  <2>3. /\ call'[c].step = outcome
        /\ call'[c].request = call[c].request /\ call'[c].retried = call[c].retried
        /\ \A d \in Calls \ {c} : call'[d] = call[d]
    BY <1>0, <2>1, <2>2 DEF TypeOK, GoTo, CallStates
  <2>4. /\ \A k \in NonceKeys : nonceExpiry'[k] # nonceExpiry[k] => k = key
        /\ Alive(key) => nonceExpiry' = nonceExpiry
    BY <1>0, <1>3, SetNonceOwn DEF ConsumeNonce, SetNonce
  <2>5. \A k \in NonceKeys : nonceExpiry'[k] # nonceExpiry[k] =>
            Used(c)' /\ k = NonceKey(call'[c].request)
    BY <2>2, <2>3, <2>4 DEF Used, Reached
  <2>6. ASSUME call'[c].step = "replayed", ~call'[c].retried
        PROVE  \E d \in Calls \ {c} : Used(d) /\ NonceKey(call[d].request) = key
    <3>1. call[c].step = "nonce" /\ ~Used(c)
      BY <2>1, <2>3, <2>6 DEF CauseInv, RetriesMarked, Used, Reached
    <3>2. key \in NonceKeys /\ nonceExpiry[key] # -1
      <4>1. key \in NonceKeys
        BY <2>1 DEF CallStates, NonceKeys
      <4>2. now <= nonceExpiry[key]
        BY <2>2, <2>3, <2>6 DEF Alive
      <4>3. now \in Nat
        BY <1>0, TimeAssumption DEF TypeOK, Times
      <4> HIDE DEF key
      <4> QED
        BY <4>1, <4>2, <4>3
    <3> QED
      BY <3>1, <3>2 DEF CauseInv, KeysHaveUsers
  <2>7. Used(c) => Used(c)' /\ call'[c].request = call[c].request
    BY <2>1, <2>2, <2>3 DEF Used, Reached
  <2> QED
    BY <1>0, <2>2, <2>3, <2>5, <2>6, <2>7, OneCallUses
<1>4. ASSUME NEW c \in Calls, SetNxThrows(c) PROVE CauseInv'
  <2>1. call[c].step = "nonce" /\ call[c] \in CallStates
    BY <1>0, <1>4 DEF SetNxThrows, TypeOK, NotStarted
  <2>2. /\ call'[c].step = "fallback" /\ call'[c].retried
        /\ call'[c].request = call[c].request
        /\ \A d \in Calls \ {c} : call'[d] = call[d]
    BY <1>0, <1>4, <2>1 DEF SetNxThrows, TypeOK, GoTo, CallStates
  <2>3. \A key \in NonceKeys :
            nonceExpiry'[key] # nonceExpiry[key] => key = NonceKey(call[c].request)
    BY <1>0, <1>4, SetNonceOwn DEF SetNxThrows
  <2>4. Used(c)'
    BY <2>2 DEF Used
  <2> QED
    BY <1>0, <2>2, <2>3, <2>4, OneCallUses
<1>5. ASSUME NEW c \in Calls, RedisFails(c) PROVE CauseInv'
  <2>1. call[c].step \in {"client", "fallback"} /\ call[c] \in CallStates
    BY <1>0, <1>5 DEF RedisFails, TypeOK, NotStarted
  <2>2. /\ call'[c].step = "failed" /\ call'[c].retried = call[c].retried
        /\ call'[c].request = call[c].request
        /\ \A d \in Calls \ {c} : call'[d] = call[d]
    BY <1>0, <1>5, <2>1 DEF RedisFails, TypeOK, GoTo, CallStates
  <2>3. \A key \in NonceKeys :
            nonceExpiry'[key] # nonceExpiry[key] => key = NonceKey(call[c].request)
    BY <1>0, <1>5, SetNonceOwn DEF RedisFails
  <2>4. call[c].step = "fallback" => Used(c)'
    BY <2>2 DEF Used, CauseInv, RetriesMarked
  <2>5. call[c].step = "client" => UNCHANGED nonceExpiry
    BY <1>5 DEF RedisFails
  <2>6. Used(c) => Used(c)'
    BY <2>1, <2>2 DEF Used, Reached
  <2> QED
    BY <1>0, <2>1, <2>2, <2>3, <2>4, <2>5, <2>6, OneCallUses
<1>6. ASSUME UNCHANGED <<call, nonceExpiry>> PROVE CauseInv'
  BY <1>6 DEF CauseInv, KeysHaveUsers, RetriesMarked, ReplaysCaused, Used, Reached
<1>7. ASSUME NEW k \in ClientIds, NEW record \in StoredRecords \cup {NoRecord},
             EditCredential(k, record)
      PROVE  CauseInv'
  BY <1>6, <1>7 DEF EditCredential
<1>8. ASSUME Tick \/ UNCHANGED vars PROVE CauseInv'
  BY <1>6, <1>8 DEF Tick, vars
<1> QED
  BY <1>1, <1>2, <1>3, <1>4, <1>5, <1>7, <1>8, <1>9, DeliveryType DEF Next, Step

(* Where nonces have no ":", a request is refused as a replay only because   *)
(* another call carried the same client, nonce and timestamp and got as far  *)
(* as the nonce store, or because its own SET NX was repeated.               *)
THEOREM ReplayCaused == NoncesWithoutSeparator => (Spec => []ReplayHasCause)
<1> SUFFICES ASSUME NoncesWithoutSeparator PROVE Spec => []ReplayHasCause
  OBVIOUS
<1>1. Init /\ TypeOK => CauseInv
  BY DEF Init, CauseInv, KeysHaveUsers, RetriesMarked, ReplaysCaused, At, NotStarted
<1>2. CauseInv /\ TypeOK' /\ [Next]_vars => CauseInv'
  BY CauseInvStep
<1>3. CauseInv => ReplayHasCause
  <2> SUFFICES ASSUME CauseInv, NEW c \in Calls, At(c, "replayed"), ~call[c].retried
               PROVE  \E d \in Calls \ {c} :
                         /\ Used(d)
                         /\ call[d].request.client = call[c].request.client
                         /\ call[d].request.nonce = call[c].request.nonce
                         /\ call[d].request.timestamp = call[c].request.timestamp
    BY DEF ReplayHasCause, Used
  <2>1. PICK d \in Calls \ {c} :
           Used(d) /\ NonceKey(call[d].request) = NonceKey(call[c].request)
    BY DEF CauseInv, ReplaysCaused
  <2>2. call[c] \in CallStates /\ call[d] \in CallStates
    BY <2>1 DEF CauseInv, TypeOK, NotStarted, At, Used, Reached
  <2>3. call[c].request \in Requests /\ call[d].request \in Requests
    BY <2>2 DEF CallStates
  <2> QED
    BY <2>1, <2>3, KeySeparates
<1> QED
  BY <1>1, <1>2, <1>3, TypeCorrect, PTL DEF Spec
=============================================================================
