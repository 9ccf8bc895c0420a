---------------------------- MODULE SignedExchange ----------------------------
(***************************************************************************)
(* A signed HTTP request from the caller's code to the handler's answer.   *)
(*                                                                         *)
(* The caller signs either with a client object, which has captured a hash *)
(* when it was created, or by client id, which reads the hash from the     *)
(* caller's store for every call.  The request goes through the body parser *)
(* of the server's framework, the authentication middleware, the whitelist  *)
(* of hmacHttpMiddleware and the handler, or through the management         *)
(* middleware.  Meanwhile both stores are rotated by administrators.        *)
(*                                                                         *)
(* Of the request its method, body and content type are kept: they decide   *)
(* which text each side takes for the body.  Path, timestamp and nonce are  *)
(* judged in HttpVerify, which also tells what happens between the awaits   *)
(* of the verification: here the two sides' text and hash decide at once.   *)
(***************************************************************************)
EXTENDS Integers, Sequences, SequencesExt

CONSTANTS Exchanges,
          ClientIds,
          Signers,    \* client objects
          Hashes,
          NoHash,     \* the store has no credential of the client
          Contents,   \* what a body says
          Nothing,    \* the content of {} and of an absent body
          Requests,   \* what the callers' code asks for
          Setups,     \* how a server is set up
          MaxEdits    \* bound: rotations of the two stores

Texts == [spelling : {"blank", "own", "json", "params", "opaque"},
          content : Contents]

(* A caller's body: an object, a text with JSON in the caller's spelling,    *)
(* URLSearchParams, or a stream that is none of them (FormData, Blob).       *)
Bodies == [form : {"none", "text", "json", "params", "opaque"}, content : Contents]

Types == {"json", "params", "other"}

ASSUME ExchangeAssumption ==
    /\ NoHash \notin Hashes
    /\ Nothing \in Contents
    /\ Requests \subseteq [client : ClientIds, path : {"secure", "manage"},
                           method : {"default", "GET", "HEAD", "POST"},
                           body : Bodies, type : Types \cup {"default"}]
    /\ \A request \in Requests :
          request.body.form = "none" => request.body.content = Nothing
    /\ Setups \subseteq [parses : SUBSET Types, captures : BOOLEAN,
                         normalises : BOOLEAN, fills : BOOLEAN,
                         answers : BOOLEAN, listed : SUBSET ClientIds]
    /\ MaxEdits \in Nat

VARIABLES setup,    \* how the server is set up; never changes
          source,   \* the hash of each client in the caller's store
          target,   \* the hash of each client in the server's store
          signer,   \* the client objects
          exchange, \* the requests on their way
          heldSource, \* history: the caller's hashes while an exchange ran
          heldTarget, \* history: the server's hashes while an exchange ran
          edits     \* counter of the bound MaxEdits

vars == <<setup, source, target, signer, exchange, heldSource, heldTarget, edits>>

-----------------------------------------------------------------------------
(* The client.                                                              *)
NoText == [spelling |-> "blank", content |-> Nothing]

(* options.method in upper case, or by whether there is a body.             *)
Method(request) ==
    IF request.method # "default" THEN request.method
    ELSE IF request.body.form = "none" THEN "GET" ELSE "POST"

Bodiless(request) == Method(request) \in {"GET", "HEAD"}

JsonText(content) == [spelling |-> "json", content |-> content]

(* Mutant: a body that will not be sent is not signed.                      *)
SignedTextMutant(request) ==
    IF request.body.form = "none" \/ Bodiless(request) THEN NoText
    ELSE IF request.body.form = "opaque" THEN JsonText(Nothing)
    ELSE [spelling |-> IF request.body.form = "text" THEN "own" ELSE request.body.form,
          content |-> request.body.content]

(* bodyForSignature: JSON.stringify makes {} of a stream.                   *)
SignedText(request) ==
    IF request.body.form = "none" THEN NoText
    ELSE IF request.body.form = "opaque" THEN JsonText(Nothing)
    ELSE [spelling |-> IF request.body.form = "text" THEN "own" ELSE request.body.form,
          content |-> request.body.content]

(* bodyForRequest, which fetch is given unless the method takes no body.    *)
SentText(request) ==
    IF Bodiless(request) THEN NoText
    ELSE IF request.body.form = "opaque"
         THEN [spelling |-> "opaque", content |-> request.body.content]
    ELSE SignedText(request)

(* Mutant: the body does not matter for the type.                           *)
ContentTypeMutant(request, default) ==
    IF request.type # "default" THEN request.type ELSE default

(* The caller's content type goes before the default one of the client      *)
(* object, and both before the one that belongs to the body.                *)
ContentType(request, default) ==
    IF request.type # "default" THEN request.type
    ELSE IF default # "default" THEN default
    ELSE IF request.body.form \in {"json", "params"} THEN request.body.form
    ELSE "other"

NotMade == [made |-> FALSE]

SignerStates ==
    [made : {TRUE}, client : ClientIds, hash : Hashes, type : Types \cup {"default"}]

-----------------------------------------------------------------------------
(* The server.                                                              *)
Matched(e) ==
    exchange[e].sent # NoText /\ exchange[e].type \in setup.parses

(* The parser answers 400 to a body that is not what its type says.         *)
Unparsable(e) ==
    /\ Matched(e)
    /\ \/ exchange[e].sent.spelling = "opaque"
       \/ exchange[e].type = "json" /\ exchange[e].sent.spelling = "params"

(* What req.body says: Express 4 fills in {} where nothing was parsed.      *)
ReadContent(e) == IF Matched(e) THEN exchange[e].sent.content ELSE Nothing

HasBody(e) == Matched(e) \/ setup.fills

(* The captured bytes, the empty buffer that the application puts in their   *)
(* place, or else what req.body becomes when it is made JSON again.          *)
ServerText(e) ==
    IF setup.captures /\ Matched(e) THEN exchange[e].sent
    ELSE IF setup.normalises \/ ~HasBody(e) THEN NoText
    ELSE JsonText(ReadContent(e))

(* Mutant: for a client without a credential there is nothing to compare.   *)
VerifiedMutant(e) ==
    /\ target[exchange[e].request.client] \in {exchange[e].hash, NoHash}
    /\ ServerText(e) = exchange[e].signed

(* The signature is over the server's text and by the server's hash.        *)
Verified(e) ==
    /\ target[exchange[e].request.client] = exchange[e].hash
    /\ ServerText(e) = exchange[e].signed

(* Mutant: an error does not let the whitelist step aside.                  *)
GateMutant(client, failed) ==
    IF setup.listed = {} \/ client \in setup.listed THEN "next" ELSE "throws"

(* The callback of hmacHttpMiddleware; client is the verified one, if any.  *)
Gate(client, failed) ==
    IF failed \/ setup.listed = {} \/ client \in setup.listed
    THEN "next" ELSE "throws"

(* The catch clause: an answer, or next(error) through the callback again,  *)
(* where a second exception would leave the request without an answer.      *)
Caught(error, client, gated) ==
    IF setup.answers THEN << error >>
    ELSE IF gated /\ Gate(client, TRUE) = "throws" THEN <<>>
    ELSE << error >>

(* The answers to a request whose verification ended as outcome.            *)
Answers(e, outcome) ==
    LET client == exchange[e].request.client
    IN  IF exchange[e].request.path = "manage"
        THEN IF outcome # "verified" THEN Caught(outcome, "none", FALSE)
             ELSE IF setup.answers THEN <<"handled">> ELSE <<"passedOn">>
        ELSE IF outcome # "verified" THEN Caught(outcome, "none", TRUE)
        ELSE IF Gate(client, FALSE) = "next" THEN <<"served">>
        ELSE Caught("internal", client, TRUE)

-----------------------------------------------------------------------------
At(e, step) == exchange[e].step = step

(* createSignedFetchFromClientId, or createHttpSignedFetchClient with what   *)
(* the store says.                                                           *)
MakeSigner(s, k, type) ==
    /\ source[k] # NoHash
    /\ signer' = [signer EXCEPT ![s] =
          [made |-> TRUE, client |-> k, hash |-> source[k], type |-> type]]
    /\ UNCHANGED <<setup, source, target, exchange, heldSource, heldTarget, edits>>

Sent(request, hash, default, by) ==
    [step |-> "sent", request |-> request, hash |-> hash, by |-> by,
     signed |-> SignedText(request), sent |-> SentText(request),
     type |-> ContentType(request, default), answers |-> <<>>]

Begin(e, state) ==
    /\ exchange' = [exchange EXCEPT ![e] = state]
    /\ heldSource' = [heldSource EXCEPT ![e] = {source[state.request.client]}]
    /\ heldTarget' = [heldTarget EXCEPT ![e] = {target[state.request.client]}]
    /\ UNCHANGED <<setup, source, target, signer, edits>>

(* The function that createHttpSignedFetchClient returns is called.         *)
CallObject(e, s, request) ==
    /\ At(e, "none")
    /\ signer[s].made
    /\ request.client = signer[s].client
    /\ Begin(e, Sent(request, signer[s].hash, signer[s].type, "object"))

(* signedFetchWithClientId is called: the store is asked for the hash.      *)
CallById(e, request) ==
    /\ At(e, "none")
    /\ Begin(e, [step |-> "looking", request |-> request])

(* Mutant: a client object that exists is used instead of the store.        *)
LookUpMutant(e) ==
    /\ At(e, "looking")
    /\ LET request == exchange[e].request
           known   == {s \in Signers : signer[s].made /\ signer[s].client = request.client}
           hash    == IF known # {} THEN signer[CHOOSE s \in known : TRUE].hash
                      ELSE source[request.client]
       IN  exchange' = [exchange EXCEPT ![e] =
               IF hash = NoHash
               THEN [step |-> "notFound", request |-> request]
               ELSE Sent(request, hash, "default", "id")]
    /\ UNCHANGED <<setup, source, target, signer, heldSource, heldTarget, edits>>

(* The store answers; the request is signed and sent, or the call throws.   *)
LookUp(e) ==
    /\ At(e, "looking")
    /\ LET request == exchange[e].request
           hash    == source[request.client]
       IN  exchange' = [exchange EXCEPT ![e] =
               IF hash = NoHash
               THEN [step |-> "notFound", request |-> request]
               ELSE Sent(request, hash, "default", "id")]
    /\ UNCHANGED <<setup, source, target, signer, heldSource, heldTarget, edits>>

Answer(e, answers) ==
    /\ exchange' = [exchange EXCEPT ![e].step = "done", ![e].answers = answers]
    /\ UNCHANGED <<setup, source, target, signer, heldSource, heldTarget, edits>>

(* The request arrives: the parser refuses it, or the middleware verifies.  *)
Arrive(e) ==
    /\ At(e, "sent")
    /\ Answer(e, IF Unparsable(e) THEN <<"unparsable">>
                 ELSE Answers(e, IF Verified(e) THEN "verified" ELSE "refused"))

(* A command of the verification rejects: INTERNAL_ERROR.                   *)
RedisFails(e) ==
    /\ At(e, "sent")
    /\ ~Unparsable(e)
    /\ Answer(e, Answers(e, "internal"))

-----------------------------------------------------------------------------
Going(e) == exchange[e].step \in {"looking", "sent"}

Seen(held, k, hash) ==
    [e \in Exchanges |->
        IF Going(e) /\ exchange[e].request.client = k
        THEN held[e] \cup {hash} ELSE held[e]]

(* An administrator changes or removes the credential on the caller's side. *)
RotateSource(k, hash) ==
    /\ edits < MaxEdits /\ source[k] # hash
    /\ source' = [source EXCEPT ![k] = hash]
    /\ heldSource' = Seen(heldSource, k, hash)
    /\ edits' = edits + 1
    /\ UNCHANGED <<setup, target, signer, exchange, heldTarget>>

(* A propagation or an administrator changes it on the server's side.       *)
RotateTarget(k, hash) ==
    /\ edits < MaxEdits /\ target[k] # hash
    /\ target' = [target EXCEPT ![k] = hash]
    /\ heldTarget' = Seen(heldTarget, k, hash)
    /\ edits' = edits + 1
    /\ UNCHANGED <<setup, source, signer, exchange, heldSource>>

-----------------------------------------------------------------------------
Init ==
    /\ setup \in Setups
    /\ source \in [ClientIds -> Hashes]
    /\ target = source
    /\ signer = [s \in Signers |-> NotMade]
    /\ exchange = [e \in Exchanges |-> [step |-> "none"]]
    /\ heldSource = [e \in Exchanges |-> {}]
    /\ heldTarget = [e \in Exchanges |-> {}]
    /\ edits = 0

Next ==
    \/ \E s \in Signers, k \in ClientIds, type \in {"default", "json"} :
          MakeSigner(s, k, type)
    \/ \E e \in Exchanges, s \in Signers, request \in Requests :
          CallObject(e, s, request)
    \/ \E e \in Exchanges, request \in Requests : CallById(e, request)
    \/ \E e \in Exchanges : LookUp(e) \/ Arrive(e) \/ RedisFails(e)
    \/ \E k \in ClientIds, hash \in Hashes \cup {NoHash} :
          RotateSource(k, hash) \/ RotateTarget(k, hash)

Spec == Init /\ [][Next]_vars

-----------------------------------------------------------------------------
AnswerKinds == {"unparsable", "refused", "internal", "served", "handled", "passedOn"}

Transmitted ==
    [step : {"sent", "done"}, request : Requests, hash : Hashes,
     by : {"id", "object"}, signed : Texts, sent : Texts, type : Types,
     answers : {<<>>} \cup {<< a >> : a \in AnswerKinds}]

ExchangeStates ==
    {[step |-> "none"]} \cup [step : {"looking", "notFound"}, request : Requests]
        \cup Transmitted

TypeOK ==
    /\ setup \in Setups
    /\ source \in [ClientIds -> Hashes \cup {NoHash}]
    /\ target \in [ClientIds -> Hashes \cup {NoHash}]
    /\ signer \in [Signers -> SignerStates \cup {NotMade}]
    /\ exchange \in [Exchanges -> ExchangeStates]
    /\ heldSource \in [Exchanges -> SUBSET (Hashes \cup {NoHash})]
    /\ heldTarget \in [Exchanges -> SUBSET (Hashes \cup {NoHash})]
    /\ edits \in Nat

Was(e, answer) == At(e, "done") /\ Contains(exchange[e].answers, answer)

(* The two sides agree on the text of a body if there is none and the       *)
(* server takes nothing for none, or if it is sent as JSON to a server that *)
(* keeps the bytes, or that can restore them because the library made them. *)
Travels(e) ==
    LET body == exchange[e].request.body
    IN  \/ /\ body.form = "none"
           /\ setup.normalises \/ ~setup.fills
        \/ /\ body.form \in {"text", "json"}
           /\ ~Bodiless(exchange[e].request)
           /\ exchange[e].type = "json" /\ "json" \in setup.parses
           /\ setup.captures \/ (body.form = "json" /\ ~setup.normalises)

(* A request whose body travels is refused only because of the stores: by   *)
(* client id, because the two did not hold one and the same hash throughout *)
(* the call; with a client object, because the server did not hold the hash *)
(* that was captured.  So a credential that is rotated on both sides keeps  *)
(* the callers by id in service, and a rotated signer's object does not.    *)
RefusalHasCause ==
    \A e \in Exchanges : Was(e, "refused") /\ Travels(e) =>
        IF exchange[e].by = "id"
        THEN \E a \in heldSource[e], b \in heldTarget[e] : a # b
        ELSE \E b \in heldTarget[e] : b # exchange[e].hash

(* A handler that serves a request has read what the caller passed: a body   *)
(* that GET or HEAD does not send, or that the parser does not take, is      *)
(* signed and so refused.  Streams are exempt where the application puts no  *)
(* empty buffer in place of the bytes: there {} is signed for any stream and *)
(* {} is what the server makes of it, so that its content is lost.           *)
ServedAsCalled ==
    \A e \in Exchanges :
        /\ Was(e, "served")
        /\ exchange[e].request.body.form = "opaque" => setup.normalises
        => ReadContent(e) = exchange[e].request.body.content

(* Only a caller that the server knew by the hash of the signature, at some  *)
(* instant of the exchange, and that is on the list, reaches the handler.    *)
ServedWasEntitled ==
    \A e \in Exchanges : Was(e, "served") =>
        /\ exchange[e].hash \in heldTarget[e]
        /\ setup.listed # {} => exchange[e].request.client \in setup.listed

(* Every request is answered, and only once, although the whitelist throws  *)
(* inside the try clause that turns errors into answers.                    *)
AnsweredOnce ==
    \A e \in Exchanges : At(e, "done") => Len(exchange[e].answers) = 1
=============================================================================
