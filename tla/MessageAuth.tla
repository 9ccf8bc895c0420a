----------------------------- MODULE MessageAuth -----------------------------
(***************************************************************************)
(* signMessage and verifyMessage of several APIs.                          *)
(*                                                                         *)
(* A message is signed by one API and verified by the same or by another    *)
(* one, each with the credentials of its own message store.  Both functions *)
(* await Redis twice (the bootstrap credential, the client's credential)    *)
(* and read the clock after that; between the awaits administrators store    *)
(* and remove credentials and time passes.  Nothing is single-use here: a   *)
(* signed message may be delivered any number of times, or never.            *)
(*                                                                         *)
(* A signature is the triple of what it covers and the hash it was made     *)
(* with: HMAC and SHA-256 are taken to be collision free, and a signature   *)
(* that no API made verifies nowhere.                                        *)
(***************************************************************************)
EXTENDS Integers, Sequences, FiniteSetsExt, CredentialRecords

CONSTANTS Apis,
          Calls,          \* invocations of signMessage and verifyMessage
          ClientIds,      \* the ids callers pass, as sequences of characters
          BootstrapId,    \* the resolved requireBootstrapClientId
          Contents,       \* what messages say, in canonical text
          Orders,         \* the orders the keys of an object can be written in
          SortedOrder,    \* the order localeCompare gives on each API's host
          Messages,       \* the messages that are signed and verified
          Requests,       \* what callers ask of the APIs
          NoSignature,    \* a signature that is missing or blank
          ForeignSignature, \* a signature made by no API
          StoredRecords,  \* the records administrators store
          InitialStores,  \* what the message stores may hold at first
          MaxEdits,       \* bound: edits of the credentials
          MaxTime         \* bound: the last instant

(* A message is an object, whose keys have an order, or a text.             *)
AllMessages == [form : {"object", "text"}, content : Contents, order : Orders]

ASSUME MessageAssumption ==
    /\ BootstrapId \in ClientIds
    /\ SortedOrder \in [Apis -> Orders]
    /\ Messages \subseteq AllMessages
    /\ Requests \subseteq [api : Apis, operation : {"sign", "verify"},
                           client : ClientIds, message : Messages]
    /\ StoredRecords \subseteq Records
    /\ InitialStores \subseteq [Apis -> [ClientIds -> StoredRecords \cup {NoRecord}]]
    /\ Instants \subseteq Int /\ MaxTime \in Nat /\ MaxEdits \in Nat

VARIABLES now,
          credential, \* the hash NAMESPACE:clients of each API's message store
          call,       \* the invocations
          held,       \* history: what was stored while each call was running
          opened,     \* history: the APIs that have held the bootstrap credential
          edits       \* counter of the bound MaxEdits

vars == <<now, credential, call, held, opened, edits>>

-----------------------------------------------------------------------------
Times == 0..MaxTime

Running  == {"bootstrap", "client", "decide"}
Refusals == {"noClientId", "locked", "noSignature", "notFound", "expired",
             "restricted", "badSignature"}
Outcomes == Refusals \cup {"signed", "verified", "failed"}

At(c, step) == call[c].step = step

(* Mutant: an object is signed with its keys as they come.                  *)
MessageTextMutant(api, message) ==
    [content |-> message.content, order |-> message.order]

(* toMessageString: the keys of an object are sorted, a text is kept.  What  *)
(* it writes alike (an absent value and an empty text, a number and its      *)
(* digits, a date and its ISO text) is one content.                          *)
MessageText(api, message) ==
    [content |-> message.content,
     order   |-> IF message.form = "object" THEN SortedOrder[api]
                 ELSE message.order]

Letters(id) == {i \in DOMAIN id : id[i] # " "}

Blank(id) == Letters(id) = {}

(* The id that is signed is trimmed, the id that is looked up is not.       *)
Trimmed(id) == SubSeq(id, Min(Letters(id)), Max(Letters(id)))

(* Mutant: the payload does not depend on the client.                       *)
SignatureMutant(api, client, message, hash) ==
    [client |-> Trimmed(BootstrapId), text |-> MessageText(api, message), hash |-> hash]

(* HMAC with the stored hash over the trimmed id and the message's digest.  *)
Signature(api, client, message, hash) ==
    [client |-> Trimmed(client), text |-> MessageText(api, message), hash |-> hash]

Signatures == [client : {Trimmed(id) : id \in {k \in ClientIds : ~Blank(k)}},
               text : [content : Contents, order : Orders], hash : Hashes]

ASSUME SignatureAssumption ==
    NoSignature \notin Signatures /\ ForeignSignature \notin Signatures

SignatureOf(c) ==
    Signature(call[c].api, call[c].client, call[c].message, call[c].record.hash)

(* The signatures that APIs have given to their callers.                    *)
Made == {SignatureOf(c) : c \in {d \in Calls : At(d, "signed")}}

NotStarted == [step |-> "none"]

(* The steps at which a call works with a record it has read.               *)
WithRecord == {"decide", "expired", "restricted", "badSignature", "signed", "verified"}

(* A call has its arguments, the record it has read and the instant of its  *)
(* last step.                                                               *)
CallStates ==
    {state \in [step : Running \cup Outcomes, api : Apis,
                operation : {"sign", "verify"}, client : ClientIds,
                message : Messages,
                signature : Signatures \cup {NoSignature, ForeignSignature},
                record : Records \cup {NoRecord}, answered : Times] :
        state.step \in WithRecord => state.record # NoRecord}

GoTo(c, step) ==
    call' = [call EXCEPT ![c].step = step, ![c].answered = now]

Expired(record) == record.expiresAt # Never /\ now > record.expiresAt

-----------------------------------------------------------------------------
(* assertClientId, and the HGET of the bootstrap credential is sent.        *)
Start(c, request, signature) ==
    /\ At(c, "none")
    /\ request.operation = "sign" => signature = NoSignature
    /\ call' = [call EXCEPT ![c] =
          [step |-> IF Blank(request.client) THEN "noClientId" ELSE "bootstrap",
           api |-> request.api, operation |-> request.operation,
           client |-> request.client, message |-> request.message,
           signature |-> signature, record |-> NoRecord, answered |-> now]]
    /\ held' = [held EXCEPT ![c] =
                   {<<k, credential[request.api][k]>> :
                       k \in {BootstrapId, request.client}}]
    /\ UNCHANGED <<now, credential, opened, edits>>

(* Mutant: a client that is stored shows that the lock has been released.   *)
ReadBootstrapMutant(c) ==
    /\ At(c, "bootstrap")
    /\ GoTo(c, IF \A k \in {BootstrapId, call[c].client} :
                     credential[call[c].api][k] = NoRecord THEN "locked"
               ELSE IF call[c].operation = "verify"
                       /\ call[c].signature = NoSignature THEN "noSignature"
               ELSE "client")
    /\ UNCHANGED <<now, credential, held, opened, edits>>

(* assertBootstrapUnlocked; verifyMessage goes on to look for a signature.  *)
ReadBootstrap(c) ==
    /\ At(c, "bootstrap")
    /\ GoTo(c, IF credential[call[c].api][BootstrapId] = NoRecord THEN "locked"
               ELSE IF call[c].operation = "verify"
                       /\ call[c].signature = NoSignature THEN "noSignature"
               ELSE "client")
    /\ UNCHANGED <<now, credential, held, opened, edits>>

(* Mutant: a client that is not found goes on like the others.              *)
ReadClientMutant(c) ==
    /\ At(c, "client")
    /\ call' = [call EXCEPT
          ![c].step = "decide",
          ![c].record = credential[call[c].api][call[c].client],
          ![c].answered = now]
    /\ UNCHANGED <<now, credential, held, opened, edits>>

(* The HGET of the client's credential is answered.                         *)
ReadClient(c) ==
    /\ At(c, "client")
    /\ LET record == credential[call[c].api][call[c].client] IN
       call' = [call EXCEPT
          ![c].step = IF record = NoRecord THEN "notFound" ELSE "decide",
          ![c].record = record, ![c].answered = now]
    /\ UNCHANGED <<now, credential, held, opened, edits>>

(* Mutant: the purpose is looked at for signing only.                       *)
DecisionMutant(c) ==
    LET record == call[c].record IN
    IF Expired(record) THEN "expired"
    ELSE IF call[c].operation = "verify"
         THEN IF call[c].signature = SignatureOf(c)
              THEN "verified" ELSE "badSignature"
    ELSE IF record.purpose = "propagation-only" THEN "restricted"
    ELSE "signed"

(* The order of the checks: expiry by the clock as it is now, the purpose,  *)
(* and for verifyMessage the signature.                                     *)
Decision(c) ==
    LET record == call[c].record IN
    IF Expired(record) THEN "expired"
    ELSE IF record.purpose = "propagation-only" THEN "restricted"
    ELSE IF call[c].operation = "sign" THEN "signed"
    ELSE IF call[c].signature = SignatureOf(c) THEN "verified"
    ELSE "badSignature"

Decide(c) ==
    /\ At(c, "decide")
    /\ GoTo(c, Decision(c))
    /\ UNCHANGED <<now, credential, held, opened, edits>>

(* A command rejects and the error leaves the function.                     *)
RedisFails(c) ==
    /\ \/ At(c, "bootstrap")
       \/ At(c, "client")
    /\ GoTo(c, "failed")
    /\ UNCHANGED <<now, credential, held, opened, edits>>

-----------------------------------------------------------------------------
(* The clients factory of one API's message store changes a credential.     *)
EditCredential(api, k, record) ==
    /\ edits < MaxEdits
    /\ record # credential[api][k]
    /\ credential' = [credential EXCEPT ![api][k] = record]
    /\ held' = [c \in Calls |->
                  IF /\ call[c].step \in Running
                     /\ call[c].api = api
                     /\ k \in {BootstrapId, call[c].client}
                  THEN held[c] \cup {<<k, record>>} ELSE held[c]]
    /\ opened' = opened \cup {a \in {api} : k = BootstrapId /\ record # NoRecord}
    /\ edits' = edits + 1
    /\ UNCHANGED <<now, call>>

Tick ==
    /\ now < MaxTime
    /\ now' = now + 1
    /\ UNCHANGED <<credential, call, held, opened, edits>>

-----------------------------------------------------------------------------
Init ==
    /\ now = 0
    /\ credential \in InitialStores
    /\ call = [c \in Calls |-> NotStarted]
    /\ held = [c \in Calls |-> {}]
    /\ opened = {api \in Apis : credential[api][BootstrapId] # NoRecord}
    /\ edits = 0

Step(c) ==
    \/ \E request \in Requests,
          signature \in Made \cup {NoSignature, ForeignSignature} :
             Start(c, request, signature)
    \/ ReadBootstrap(c)
    \/ ReadClient(c)
    \/ Decide(c)
    \/ RedisFails(c)

Next ==
    \/ \E c \in Calls : Step(c)
    \/ \E api \in Apis, k \in ClientIds, record \in StoredRecords \cup {NoRecord} :
          EditCredential(api, k, record)
    \/ Tick

Spec == Init /\ [][Next]_vars

-----------------------------------------------------------------------------
TypeOK ==
    /\ now \in Times
    /\ credential \in [Apis -> [ClientIds -> Records \cup {NoRecord}]]
    /\ call \in [Calls -> CallStates \cup {NotStarted}]
    /\ held \in [Calls -> SUBSET (ClientIds \X (Records \cup {NoRecord}))]
    /\ opened \subseteq Apis
    /\ edits \in Nat

Succeeded(c) == call[c].step \in {"signed", "verified"}

(* The bootstrap lock: until an API has first held the bootstrap credential  *)
(* it signs and verifies nothing, whatever else is stored in the meantime.   *)
(* Whether it locks again once the credential is removed is left open.       *)
NothingServedUnopened ==
    \A c \in Calls : Succeeded(c) => call[c].api \in opened

(* A call succeeds only for a client that was entitled during the call: at  *)
(* one instant of it the client's credential was stored, had the hash of    *)
(* the signature and no restricted purpose, and an expiry that is not over  *)
(* at the answer.                                                           *)
SuccessIsEntitled ==
    \A c \in Calls : Succeeded(c) =>
        \E pair \in held[c] :
            /\ pair[1] = call[c].client
            /\ pair[2] # NoRecord
            /\ pair[2].purpose # "propagation-only"
            /\ pair[2].expiresAt # Never => call[c].answered <= pair[2].expiresAt
            /\ At(c, "verified") =>
                  /\ call[c].signature \in Signatures
                  /\ call[c].signature.hash = pair[2].hash

(* A message that is verified anywhere was signed by some API, for the same *)
(* client up to blanks, with the same content and the same hash: neither a  *)
(* signature of another client with the same secret nor one of another      *)
(* content is taken for it.                                                 *)
VerifiedWasSigned ==
    \A c \in Calls : At(c, "verified") =>
        \E d \in Calls :
            /\ At(d, "signed")
            /\ Trimmed(call[d].client) = Trimmed(call[c].client)
            /\ call[d].message.content = call[c].message.content
            /\ call[d].record.hash = call[c].record.hash

(* Calls c and d are about the same message: objects whose keys may have    *)
(* been reordered on the way, between hosts that sort keys alike.           *)
SameMessage(c, d) ==
    /\ Trimmed(call[c].client) = Trimmed(call[d].client)
    /\ call[c].message.form = "object" /\ call[d].message.form = "object"
    /\ call[c].message.content = call[d].message.content
    /\ SortedOrder[call[c].api] = SortedOrder[call[d].api]

(* The credentials of its client that were stored while a call was running. *)
Seen(c) ==
    {pair[2] : pair \in {q \in held[c] : q[1] = call[c].client /\ q[2] # NoRecord}}

(* A refusal has the cause it names, in the stores during the call: no       *)
(* bootstrap credential, no credential of the client, one that was over at    *)
(* the answer, or a restricted one.  And the signature that a call gave for   *)
(* an object is bad for the same object, its keys reordered or not, only      *)
(* where the client had another hash.                                         *)
RefusalHasCause ==
    \A c \in Calls :
        /\ At(c, "locked")   => <<BootstrapId, NoRecord>> \in held[c]
        /\ At(c, "notFound") => <<call[c].client, NoRecord>> \in held[c]
        /\ At(c, "expired")  => \E record \in Seen(c) :
              record.expiresAt # Never /\ call[c].answered > record.expiresAt
        /\ At(c, "restricted") => \E record \in Seen(c) :
              record.purpose = "propagation-only"
        /\ call[c].step \in {"noSignature", "badSignature"} => \A d \in Calls :
              At(d, "signed") /\ call[c].signature = SignatureOf(d) /\ SameMessage(c, d)
              => /\ At(c, "badSignature")
                 /\ \E record \in Seen(c) : record.hash # call[d].record.hash
=============================================================================
