----------------------------- MODULE HttpVerify -----------------------------
(***************************************************************************)
(* verifyHttpSignature: the decision to accept a signed request.           *)
(*                                                                         *)
(* The function awaits Redis three times (the bootstrap credential, the    *)
(* client's credential, the single-use nonce) and between two awaits       *)
(* everything else runs: other verifications, edits of the credentials,    *)
(* and the clock.  Each element of Calls is one invocation, so two calls   *)
(* that carry the same request are a request delivered twice.              *)
(*                                                                         *)
(* Time is counted in ticks.  The verifier reads its clock once, when the  *)
(* bootstrap credential has arrived and before it asks for the client's,   *)
(* and judges the timestamp and the expiry by that reading.  What the      *)
(* environment is assumed to do is bounded by two constants: a signer's    *)
(* clock runs at most Ahead ticks ahead of the verifier's, and a call that *)
(* has read its clock has its answer from the nonce store at most Lag      *)
(* ticks later.  How long the bootstrap credential takes is not bounded.   *)
(***************************************************************************)
EXTENDS Integers, Sequences, CredentialRecords

CONSTANTS Calls,            \* invocations of verifyHttpSignature
          ClientIds,
          BootstrapId,      \* the resolved requireBootstrapClientId
          Nonces,
          Paths,
          ManagementRoute,  \* a path, or a value outside Paths if undefined
          Timestamps,       \* the x-timestamp values signers send
          NoAddress,        \* no address could be extracted from the delivery
          Deliveries,       \* requests, each with an address it comes from
          StoredRecords,    \* the records administrators store
          InitialRecords,   \* what is stored when the verifier starts
          MaxEdits,         \* bound: edits of the credentials
          MaxTime,          \* bound: the last instant
          MaxSkew,          \* maxSkewMs, in ticks
          TicksPerSecond,
          Ahead,
          Lag

ASSUME ClientAssumption ==
    /\ BootstrapId \in ClientIds
    /\ StoredRecords \subseteq Records
    /\ InitialRecords \subseteq StoredRecords \cup {NoRecord}
    /\ NoAddress \notin Addresses

ASSUME TimeAssumption ==
    /\ MaxTime \in Nat /\ MaxSkew \in Nat /\ Ahead \in Nat /\ Lag \in Nat
    /\ Timestamps \subseteq Nat /\ Instants \subseteq Int
    /\ TicksPerSecond \in Nat \ {0}
    /\ MaxEdits \in Nat

VARIABLES now,         \* the instant, on the clock of the verifier and of Redis
          credential,  \* the hash NAMESPACE:clients
          nonceExpiry, \* for each nonce key, the last instant it is alive
          call,        \* the invocations
          held,        \* history: what was stored while each call was running
          edits        \* counter of the bound MaxEdits

vars == <<now, credential, nonceExpiry, call, held, edits>>

-----------------------------------------------------------------------------
Times == 0..MaxTime

(* What the signature covers, and the client it is sent for.  The hash a    *)
(* signer used stands for the signature: it verifies against that hash only.*)
Requests == [client : ClientIds, hash : Hashes, nonce : Nonces,
             timestamp : Timestamps, path : Paths]

ASSUME DeliveryAssumption ==
    Deliveries \subseteq Requests \X (Addresses \cup {NoAddress})

(* Mutant: the key leaves out the client.                                   *)
NonceKeyMutant(request) == <<request.nonce, request.timestamp>>

(* clientId:nonce:timestamp.  Client ids and nonces are sequences in which  *)
(* a ":" may occur, a timestamp is a number; so the last separator is       *)
(* certain and the first is not.                                            *)
NonceKey(request) ==
    <<request.client \o <<":">> \o request.nonce, request.timestamp>>

NonceKeys == {NonceKey(request) : request \in Requests}

(* Mutant: the TTL is rounded down.                                         *)
NonceTtlSecondsMutant ==
    IF MaxSkew \div TicksPerSecond > 1 THEN MaxSkew \div TicksPerSecond ELSE 1

(* The nonce's TTL is a whole number of seconds, at least one.              *)
NonceTtlSeconds ==
    LET ceiling == (MaxSkew + TicksPerSecond - 1) \div TicksPerSecond
    IN  IF ceiling > 1 THEN ceiling ELSE 1

NonceLifetime == NonceTtlSeconds * TicksPerSecond

(* Redis keeps a key up to and including the instant it expires at.         *)
Alive(key) == now <= nonceExpiry[key]

(* The steps of a call that has read its clock.                             *)
Clocked  == {"client", "nonce", "fallback"}
Running  == {"headers"} \cup Clocked
Outcomes == {"refused", "replayed", "forbidden", "accepted", "failed"}

(* A call has its request, the address its delivery came from, its reading  *)
(* of the clock (at first the instant it began) and the credential record   *)
(* it works with; retried says that its SET NX threw once, and answered is  *)
(* the instant of its last step.                                            *)
NotStarted == [step |-> "none"]

CallStates == [step : Running \cup Outcomes, request : Requests,
               from : Addresses \cup {NoAddress}, clock : Times,
               record : Records \cup {NoRecord},
               retried : BOOLEAN, answered : Times]

At(c, step) == call[c].step = step

(* The call goes on to a step, or to its outcome.                           *)
GoTo(c, step) == [call[c] EXCEPT !.step = step, !.answered = now]

-----------------------------------------------------------------------------
(* The guards of verifyHttpSignature.                                       *)
(* Mutant: a timestamp is compared without the absolute value.              *)
WithinSkewMutant(timestamp) == timestamp - now <= MaxSkew

(* The timestamp is at most maxSkewMs from the verifier's clock.            *)
WithinSkew(timestamp) ==
    /\ now - timestamp <= MaxSkew
    /\ timestamp - now <= MaxSkew

AddressAllowed(record, from) ==
    record.allowedIps = {} \/ from \in record.allowedIps

Expired(record, clock) == record.expiresAt # Never /\ clock > record.expiresAt

(* Mutant: the allowlist of the credential is not looked at.                *)
AuthenticMutant(record, c) ==
    /\ record # NoRecord
    /\ ~Expired(record, call[c].clock)
    /\ record.hash = call[c].request.hash

Authentic(record, c) ==
    /\ record # NoRecord
    /\ ~Expired(record, call[c].clock)
    /\ AddressAllowed(record, call[c].from)
    /\ record.hash = call[c].request.hash

(* A propagation-only credential away from the management route.            *)
Misused(record, request) ==
    record.purpose = "propagation-only" /\ request.path # ManagementRoute

-----------------------------------------------------------------------------
(* A request is delivered and Redis reads the bootstrap credential.         *)
ReadBootstrap(c, request, from) ==
    /\ At(c, "none")
    /\ request.timestamp <= now + Ahead
    /\ call' = [call EXCEPT ![c] =
          [step     |-> IF credential[BootstrapId] = NoRecord
                        THEN "refused" ELSE "headers",
           request  |-> request, from |-> from, clock |-> now,
           record   |-> NoRecord, retried |-> FALSE, answered |-> now]]
    /\ held' = [held EXCEPT ![c] =
                   {<<k, credential[k]>> : k \in {BootstrapId, request.client}}]
    /\ UNCHANGED <<now, credential, nonceExpiry, edits>>

(* The reply has come: in one turn the headers are checked, the clock is    *)
(* read and the timestamp is compared with it.                              *)
CheckRequest(c, wellFormed) ==
    /\ At(c, "headers")
    /\ LET next == IF wellFormed /\ WithinSkew(call[c].request.timestamp)
                   THEN "client" ELSE "refused"
       IN  call' = [call EXCEPT ![c] = [GoTo(c, next) EXCEPT !.clock = now]]
    /\ UNCHANGED <<now, credential, nonceExpiry, held, edits>>

(* The client's credential has been read: unknown client, expiry, allowlist *)
(* and signature.                                                           *)
CheckClient(c) ==
    /\ At(c, "client")
    /\ LET record == credential[call[c].request.client]
           next   == IF Authentic(record, c) THEN "nonce" ELSE "refused"
       IN  call' = [call EXCEPT ![c] = [GoTo(c, next) EXCEPT !.record = record]]
    /\ UNCHANGED <<now, credential, nonceExpiry, held, edits>>

(* Mutant: SET NX without EX, the key stays for ever.                       *)
SetNonceMutant(c) ==
    LET key == NonceKey(call[c].request)
    IN  nonceExpiry' = IF Alive(key) THEN nonceExpiry
                       ELSE [nonceExpiry EXCEPT ![key] = Never]

(* The effect of SET NX EX for the nonce of call c.                         *)
SetNonce(c) ==
    LET key == NonceKey(call[c].request)
    IN  nonceExpiry' = IF Alive(key) THEN nonceExpiry
                       ELSE [nonceExpiry EXCEPT ![key] = now + NonceLifetime]

(* Mutant: the purpose is looked at before the nonce is consumed.           *)
ConsumeNonceMutant(c) ==
    /\ \/ At(c, "nonce")
       \/ At(c, "fallback")
    /\ IF Misused(call[c].record, call[c].request)
       THEN /\ call' = [call EXCEPT ![c] = GoTo(c, "forbidden")]
            /\ UNCHANGED nonceExpiry
       ELSE /\ SetNonce(c)
            /\ call' = [call EXCEPT ![c] =
                   GoTo(c, IF Alive(NonceKey(call[c].request))
                           THEN "replayed" ELSE "accepted")]
    /\ UNCHANGED <<now, credential, held, edits>>

(* The nonce is consumed, and only then the purpose is looked at.           *)
ConsumeNonce(c) ==
    /\ \/ At(c, "nonce")
       \/ At(c, "fallback")
    /\ SetNonce(c)
    /\ LET outcome ==
             IF Alive(NonceKey(call[c].request)) THEN "replayed"
             ELSE IF Misused(call[c].record, call[c].request)
                  THEN "forbidden" ELSE "accepted"
       IN  call' = [call EXCEPT ![c] = GoTo(c, outcome)]
    /\ UNCHANGED <<now, credential, held, edits>>

(* The first form of SET NX throws, before or after it took effect, and the *)
(* second form is tried.                                                    *)
SetNxThrows(c) ==
    /\ At(c, "nonce")
    /\ SetNonce(c) \/ UNCHANGED nonceExpiry
    /\ call' = [call EXCEPT ![c] = [GoTo(c, "fallback") EXCEPT !.retried = TRUE]]
    /\ UNCHANGED <<now, credential, held, edits>>

(* A Redis command rejects and the error leaves verifyHttpSignature.        *)
RedisFails(c) ==
    /\ \/ At(c, "client") /\ UNCHANGED nonceExpiry
       \/ At(c, "fallback") /\ (SetNonce(c) \/ UNCHANGED nonceExpiry)
    /\ call' = [call EXCEPT ![c] = GoTo(c, "failed")]
    /\ UNCHANGED <<now, credential, held, edits>>

-----------------------------------------------------------------------------
(* Whoever administers the credentials stores or removes one.               *)
EditCredential(k, record) ==
    /\ edits < MaxEdits
    /\ record # credential[k]
    /\ credential' = [credential EXCEPT ![k] = record]
    /\ held' = [c \in Calls |->
                  IF /\ call[c].step \in Running
                     /\ k \in {BootstrapId, call[c].request.client}
                  THEN held[c] \cup {<<k, record>>} ELSE held[c]]
    /\ edits' = edits + 1
    /\ UNCHANGED <<now, nonceExpiry, call>>

(* Time passes, but not beyond the Lag of a call that has read its clock.   *)
Tick ==
    /\ now < MaxTime
    /\ \A c \in Calls :
          call[c].step \in Clocked => now < call[c].clock + Lag
    /\ now' = now + 1
    /\ UNCHANGED <<credential, nonceExpiry, call, held, edits>>

-----------------------------------------------------------------------------
Init ==
    /\ now = 0
    /\ credential \in [ClientIds -> InitialRecords]
    /\ nonceExpiry = [key \in NonceKeys |-> -1]
    /\ call = [c \in Calls |-> NotStarted]
    /\ held = [c \in Calls |-> {}]
    /\ edits = 0

Step(c) ==
    \/ \E delivery \in Deliveries : ReadBootstrap(c, delivery[1], delivery[2])
    \/ \E wellFormed \in BOOLEAN : CheckRequest(c, wellFormed)
    \/ CheckClient(c)
    \/ ConsumeNonce(c)
    \/ SetNxThrows(c)
    \/ RedisFails(c)

Next ==
    \/ \E c \in Calls : Step(c)
    \/ \E k \in ClientIds, record \in StoredRecords \cup {NoRecord} :
          EditCredential(k, record)
    \/ Tick

Spec == Init /\ [][Next]_vars

-----------------------------------------------------------------------------
TypeOK ==
    /\ now \in Times
    /\ credential \in [ClientIds -> Records \cup {NoRecord}]
    /\ nonceExpiry \in [NonceKeys -> Int]
    /\ call \in [Calls -> CallStates \cup {NotStarted}]
    /\ held \in [Calls -> SUBSET (ClientIds \X (Records \cup {NoRecord}))]
    /\ edits \in Nat

(* The call passed the nonce store.                                         *)
Reached(c) == call[c].step \in {"accepted", "forbidden"}

(* The replay guard: two invocations that carry the same client, nonce and  *)
(* timestamp are never both accepted, however the request was delivered     *)
(* twice and whatever Redis and the administrators did in between.          *)
AcceptedAtMostOnce ==
    \A c, d \in Calls :
        /\ c # d
        /\ At(c, "accepted") /\ At(d, "accepted")
        => NonceKey(call[c].request) # NonceKey(call[d].request)

(* The condition on the environment under which the nonce of a request is   *)
(* remembered for as long as its timestamp is acceptable.                   *)
NonceOutlivesWindow == Ahead + MaxSkew + Lag <= NonceLifetime

(* A propagation-only credential used away from the management route burns  *)
(* the nonce: the same nonce is not accepted afterwards, on no path and not *)
(* after the purpose of the credential has been widened.                    *)
MisuseBurnsNonce ==
    \A c, d \in Calls :
        At(c, "forbidden") /\ At(d, "accepted")
        => NonceKey(call[c].request) # NonceKey(call[d].request)

(* An accepted request was entitled to be: while the call ran the bootstrap *)
(* credential was stored, and the client had one credential with the hash   *)
(* that signed the request, that had not expired, allowed the address and   *)
(* was not restricted to another route.  From the clock reading to the      *)
(* answer it is at most Lag ticks; what came before, the read of the        *)
(* bootstrap credential, may have taken any time.                           *)
AcceptanceJustified ==
    \A c \in Calls : At(c, "accepted") =>
        LET request == call[c].request IN
        /\ call[c].answered - call[c].clock <= Lag
        /\ \E pair \in held[c] : pair[1] = BootstrapId /\ pair[2] # NoRecord
        /\ \E pair \in held[c] :
              /\ pair[1] = request.client
              /\ pair[2] # NoRecord
              /\ pair[2].hash = request.hash
              /\ pair[2].expiresAt # Never =>
                    call[c].answered <= pair[2].expiresAt + Lag
              /\ pair[2].allowedIps # {} => call[c].from \in pair[2].allowedIps
              /\ pair[2].purpose = "propagation-only" =>
                    request.path = ManagementRoute

(* A nonce is refused as used only because another call used it, or because *)
(* the reply of a SET NX was lost and the command was repeated.             *)
ReplayHasCause ==
    \A c \in Calls : At(c, "replayed") /\ ~call[c].retried =>
        \E d \in Calls \ {c} :
            /\ Reached(d) \/ (call[d].step # "none" /\ call[d].retried)
            /\ call[d].request.client = call[c].request.client
            /\ call[d].request.nonce = call[c].request.nonce
            /\ call[d].request.timestamp = call[c].request.timestamp

(* The condition on client ids and nonces under which a nonce key can be    *)
(* taken apart: the ":" that joins the two is the last one in it.  Nonces   *)
(* of the library's signer are UUIDs.                                       *)
NoncesWithoutSeparator ==
    /\ ClientIds \subseteq Seq(STRING) /\ Nonces \subseteq Seq(STRING)
    /\ \A nonce \in Nonces : \A i \in 1..Len(nonce) : nonce[i] # ":"

-----------------------------------------------------------------------------
(* The inductive argument for the replay guard: a call in progress is not   *)
(* too far ahead, and once it has read its clock the reading is timely and  *)
(* the timestamp fits it; the nonce of a call that used one is remembered   *)
(* for a NonceLifetime from the earliest instant its timestamp was          *)
(* acceptable at; and no two calls used one.                                *)
CallsTimely ==
    \A c \in Calls :
        /\ call[c].step \in Running => call[c].request.timestamp <= now + Ahead
        /\ call[c].step \in Clocked =>
              /\ call[c].clock <= now
              /\ now <= call[c].clock + Lag
              /\ call[c].clock - call[c].request.timestamp <= MaxSkew

NoncesRemembered ==
    \A c \in Calls : Reached(c) =>
        nonceExpiry[NonceKey(call[c].request)] + Ahead
            >= call[c].request.timestamp + NonceLifetime

NonceUsedOnce ==
    \A c, d \in Calls :
        c # d /\ Reached(c) /\ Reached(d)
        => NonceKey(call[c].request) # NonceKey(call[d].request)

ReplayInv == TypeOK /\ CallsTimely /\ NoncesRemembered /\ NonceUsedOnce
=============================================================================
