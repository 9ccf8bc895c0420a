------------------------- MODULE SignedExchange_proofs -------------------------
(***************************************************************************)
(* Proofs about SignedExchange, for any sets of exchanges, clients, client  *)
(* objects, hashes, requests and server setups, and any bound.              *)
(***************************************************************************)
EXTENDS SignedExchange, TLAPS

Posted(e) == exchange[e].step \in {"sent", "done"}

(* What was signed and sent is what the request says, and a hash that was   *)
(* looked up is one that the caller's store held during the exchange.       *)
WellPosted(e) ==
    Posted(e) =>
        /\ exchange[e].signed = SignedText(exchange[e].request)
        /\ exchange[e].sent = SentText(exchange[e].request)
        /\ exchange[e].by = "id" => exchange[e].hash \in heldSource[e]

(* While an exchange runs its histories have what the stores hold now.      *)
Followed(e) ==
    Going(e) =>
        /\ source[exchange[e].request.client] \in heldSource[e]
        /\ target[exchange[e].request.client] \in heldTarget[e]

(* The ground of each of the answers that a property is about.              *)
Grounded(e, a) ==
    /\ a = "served" =>
          /\ exchange[e].hash \in heldTarget[e]
          /\ setup.listed # {} => exchange[e].request.client \in setup.listed
          /\ ServerText(e) = exchange[e].signed
    /\ a = "refused" =>
          \/ \E b \in heldTarget[e] : b # exchange[e].hash
          \/ ServerText(e) # exchange[e].signed

WellAnswered(e) ==
    At(e, "done") => \E a \in AnswerKinds : exchange[e].answers = << a >> /\ Grounded(e, a)

Facts(e) == WellPosted(e) /\ Followed(e) /\ WellAnswered(e)

Inv == TypeOK /\ \A e \in Exchanges : Facts(e)
-----------------------------------------------------------------------------
(* The two sides' texts: what each is for a request that was posted.        *)
LEMMA PostedShape ==
    ASSUME Inv, NEW e \in Exchanges, Posted(e)
    PROVE  /\ exchange[e] \in Transmitted
           /\ exchange[e].request \in Requests
           /\ exchange[e].request.body \in Bodies
           /\ exchange[e].signed = SignedText(exchange[e].request)
           /\ exchange[e].sent = SentText(exchange[e].request)
<1>1. exchange[e] \in ExchangeStates
  BY DEF Inv, TypeOK
<1>2. exchange[e] \in Transmitted
  BY <1>1 DEF Posted, ExchangeStates
<1>3. exchange[e].request \in Requests
  BY <1>2 DEF Transmitted
<1>4. exchange[e].request.body \in Bodies
  BY <1>3, ExchangeAssumption
<1> QED
  BY <1>2, <1>3, <1>4 DEF Inv, Facts, WellPosted

(* A body that travels gives the server the text that was signed.           *)
LEMMA TravelsAgrees ==
    ASSUME Inv, NEW e \in Exchanges, Posted(e), Travels(e)
    PROVE  ServerText(e) = exchange[e].signed
<1> DEFINE request == exchange[e].request
           body == request.body
<1>1. /\ body \in Bodies
      /\ exchange[e].signed = SignedText(request)
      /\ exchange[e].sent = SentText(request)
  BY PostedShape
<1>2. CASE body.form = "none" /\ (setup.normalises \/ ~setup.fills)
  <2>1. exchange[e].sent = NoText /\ exchange[e].signed = NoText
    BY <1>1, <1>2 DEF SentText, SignedText
  <2>2. ~Matched(e)
    BY <2>1 DEF Matched
  <2> QED
    BY <1>2, <2>1, <2>2 DEF ServerText, HasBody
<1>3. CASE /\ body.form \in {"text", "json"}
           /\ ~Bodiless(request)
           /\ exchange[e].type = "json" /\ "json" \in setup.parses
           /\ setup.captures \/ (body.form = "json" /\ ~setup.normalises)
  <2>1. exchange[e].sent = SignedText(request) /\ exchange[e].signed = SignedText(request)
    BY <1>1, <1>3 DEF SentText
  <2>2. SignedText(request) =
            [spelling |-> IF body.form = "text" THEN "own" ELSE body.form,
             content |-> body.content]
    BY <1>3 DEF SignedText
  <2>3. SignedText(request) # NoText
    BY <1>3, <2>2 DEF NoText
  <2>4. Matched(e) /\ HasBody(e)
    BY <1>3, <2>1, <2>3 DEF Matched, HasBody
  <2>5. CASE setup.captures
    BY <2>1, <2>4, <2>5 DEF ServerText
  <2>6. CASE ~setup.captures
    <3>1. body.form = "json" /\ ~setup.normalises
      BY <1>3, <2>6
    <3>2. ServerText(e) = JsonText(body.content)
      BY <2>1, <2>2, <2>4, <2>6, <3>1 DEF ServerText, ReadContent
    <3> QED
      BY <2>1, <2>2, <3>1, <3>2 DEF JsonText
  <2> QED
    BY <2>5, <2>6
<1> QED
  BY <1>2, <1>3 DEF Travels

(* Where the texts agree the handler reads what the caller passed, unless   *)
(* the body is a stream and its JSON text is not taken for an empty one.    *)
LEMMA AgreedContent ==
    ASSUME Inv, NEW e \in Exchanges, Posted(e),
           ServerText(e) = exchange[e].signed,
           exchange[e].request.body.form = "opaque" => setup.normalises
    PROVE  ReadContent(e) = exchange[e].request.body.content
<1> DEFINE request == exchange[e].request
           body == request.body
<1>1. /\ body \in Bodies
      /\ request \in Requests
      /\ exchange[e].signed = SignedText(request)
      /\ exchange[e].sent = SentText(request)
  BY PostedShape
<1>2. CASE body.form = "none"
  <2>1. body.content = Nothing
    BY <1>1, <1>2, ExchangeAssumption
  <2>2. exchange[e].sent = NoText
    BY <1>1, <1>2 DEF SentText, SignedText
  <2> QED
    BY <2>1, <2>2 DEF ReadContent, Matched
<1>3. CASE body.form = "opaque"
  <2>1. exchange[e].signed = JsonText(Nothing)
    BY <1>1, <1>3 DEF SignedText
  <2>2. exchange[e].sent \in {NoText, [spelling |-> "opaque", content |-> body.content]}
    BY <1>1, <1>3 DEF SentText
  <2>3. ServerText(e) \in {exchange[e].sent, NoText}
    BY <1>3 DEF ServerText
  <2> QED
    BY <2>1, <2>2, <2>3 DEF JsonText, NoText
<1>4. CASE body.form \in {"text", "json", "params"}
  <2>1. exchange[e].signed =
            [spelling |-> IF body.form = "text" THEN "own" ELSE body.form,
             content |-> body.content]
    BY <1>1, <1>4 DEF SignedText
  <2>2. ServerText(e) # NoText
    BY <1>4, <2>1 DEF NoText
  <2>3. CASE setup.captures /\ Matched(e)
    BY <2>1, <2>3 DEF ServerText, ReadContent
  <2>4. CASE ~(setup.captures /\ Matched(e))
    <3>1. ServerText(e) = JsonText(ReadContent(e))
      BY <2>2, <2>4 DEF ServerText
    <3> QED
      BY <2>1, <3>1 DEF JsonText
  <2> QED
    BY <2>3, <2>4
<1> QED
  BY <1>1, <1>2, <1>3, <1>4 DEF Bodies

(* What the middlewares answer: once, served only to a listed client whose  *)
(* request is verified, and refused only if it is not.                      *)
LEMMA AnswersShape ==
    ASSUME NEW e \in Exchanges, NEW outcome \in {"verified", "refused", "internal"}
    PROVE  \E a \in AnswerKinds :
              /\ Answers(e, outcome) = << a >>
              /\ a = "served" =>
                    /\ outcome = "verified"
                    /\ setup.listed # {} => exchange[e].request.client \in setup.listed
              /\ a = "refused" => outcome = "refused"
<1>1. \A error, client, gated : Caught(error, client, gated) = << error >>
  BY DEF Caught, Gate
<1>2. CASE exchange[e].request.path = "manage"
  <2>1. CASE outcome # "verified"
    <3>1. Answers(e, outcome) = << outcome >>
      BY <1>1, <1>2, <2>1 DEF Answers
    <3> QED
      BY <2>1, <3>1 DEF AnswerKinds
  <2>2. CASE outcome = "verified"
    <3>1. Answers(e, outcome) = <<IF setup.answers THEN "handled" ELSE "passedOn">>
      BY <1>2, <2>2 DEF Answers
    <3> QED
      BY <3>1 DEF AnswerKinds
  <2> QED
    BY <2>1, <2>2
<1>3. CASE exchange[e].request.path # "manage"
  <2>1. CASE outcome # "verified"
    <3>1. Answers(e, outcome) = << outcome >>
      BY <1>1, <1>3, <2>1 DEF Answers
    <3> QED
      BY <2>1, <3>1 DEF AnswerKinds
  <2>2. CASE outcome = "verified" /\ Gate(exchange[e].request.client, FALSE) = "next"
    <3>1. Answers(e, outcome) = <<"served">>
      BY <1>3, <2>2 DEF Answers
    <3>2. setup.listed # {} => exchange[e].request.client \in setup.listed
      BY <2>2 DEF Gate
    <3> QED
      BY <2>2, <3>1, <3>2 DEF AnswerKinds
  <2>3. CASE outcome = "verified" /\ Gate(exchange[e].request.client, FALSE) # "next"
    <3>1. Answers(e, outcome) = <<"internal">>
      BY <1>1, <1>3, <2>3 DEF Answers
    <3> QED
      BY <3>1 DEF AnswerKinds
  <2> QED
    BY <2>1, <2>2, <2>3
<1> QED
  BY <1>2, <1>3
-----------------------------------------------------------------------------
(* A request that is sent is well typed.                                    *)
LEMMA SentType ==
    ASSUME NEW request \in Requests, NEW hash \in Hashes,
           NEW default \in Types \cup {"default"}, NEW by \in {"id", "object"}
    PROVE  Sent(request, hash, default, by) \in Transmitted
<1>1. request.body \in Bodies /\ request.type \in Types \cup {"default"}
  BY ExchangeAssumption
<1>2. NoText \in Texts
  BY ExchangeAssumption DEF NoText, Texts
<1>3. SignedText(request) \in Texts
  <2>1. CASE request.body.form = "none"
    BY <1>2, <2>1 DEF SignedText
  <2>2. CASE request.body.form = "opaque"
    BY <2>2, ExchangeAssumption DEF SignedText, JsonText, Texts
  <2>3. CASE request.body.form \in {"text", "json", "params"}
    BY <1>1, <2>3 DEF SignedText, Texts, Bodies
  <2> QED
    BY <1>1, <2>1, <2>2, <2>3 DEF Bodies
<1>4. SentText(request) \in Texts
  <2>1. [spelling |-> "opaque", content |-> request.body.content] \in Texts
    BY <1>1 DEF Bodies, Texts
  <2> QED
    BY <1>2, <1>3, <2>1 DEF SentText
<1>5. ContentType(request, default) \in Types
  BY <1>1 DEF ContentType, Types
<1> QED
  BY <1>3, <1>4, <1>5 DEF Sent, Transmitted

(* The texts of an exchange depend on it and on the setup alone.            *)
LEMMA TextsStay ==
    ASSUME NEW e \in Exchanges, setup' = setup,
           exchange'[e].sent = exchange[e].sent,
           exchange'[e].type = exchange[e].type
    PROVE  ServerText(e)' = ServerText(e)
<1>1. Matched(e)' = Matched(e)
  BY DEF Matched
<1>2. ReadContent(e)' = ReadContent(e) /\ HasBody(e)' = HasBody(e)
  BY <1>1 DEF ReadContent, HasBody
<1> QED
  BY <1>1, <1>2 DEF ServerText

(* What is known of an exchange that is not touched stays.                  *)
LEMMA FactsStay ==
    ASSUME NEW e \in Exchanges, Facts(e), exchange'[e] = exchange[e], setup' = setup,
           source' = source, target' = target,
           heldSource'[e] = heldSource[e], heldTarget'[e] = heldTarget[e]
    PROVE  Facts(e)'
<1>1. ServerText(e)' = ServerText(e)
  BY TextsStay
<1>2. WellPosted(e)'
  BY DEF Facts, WellPosted, Posted
<1>3. Followed(e)'
  BY DEF Facts, Followed, Going
<1>4. WellAnswered(e)'
  <2> SUFFICES ASSUME At(e, "done")
               PROVE  \E a \in AnswerKinds :
                         exchange'[e].answers = << a >> /\ Grounded(e, a)'
    BY DEF WellAnswered, At
  <2>1. PICK a \in AnswerKinds : exchange[e].answers = << a >> /\ Grounded(e, a)
    BY DEF Facts, WellAnswered
  <2>2. Grounded(e, a)'
    BY <1>1, <2>1 DEF Grounded
  <2> QED
    BY <2>1, <2>2
<1> QED
  BY <1>2, <1>3, <1>4 DEF Facts

(* Nothing is sent at first.                                                *)
LEMMA InitHolds == Init => Inv
<1> SUFFICES ASSUME Init PROVE Inv
  OBVIOUS
<1>1. TypeOK
  BY ExchangeAssumption DEF Init, TypeOK, ExchangeStates
<1>2. ASSUME NEW e \in Exchanges PROVE Facts(e)
  BY DEF Init, Facts, WellPosted, Posted, Followed, Going, WellAnswered, At
<1> QED
  BY <1>1, <1>2 DEF Inv

(* A new client object is no part of an exchange.                           *)
LEMMA MakePreserves ==
    ASSUME Inv, NEW s \in Signers, NEW k \in ClientIds,
           NEW type \in {"default", "json"}, MakeSigner(s, k, type)
    PROVE  Inv'
<1>1. source[k] \in Hashes
  BY DEF Inv, TypeOK, MakeSigner
<1>2. [made |-> TRUE, client |-> k, hash |-> source[k], type |-> type] \in SignerStates
  BY <1>1 DEF SignerStates, Types
<1>3. TypeOK'
  BY <1>2 DEF Inv, TypeOK, MakeSigner
<1>4. ASSUME NEW d \in Exchanges PROVE Facts(d)'
  BY FactsStay DEF Inv, MakeSigner
<1> QED
  BY <1>3, <1>4 DEF Inv

(* An exchange begins with what the two stores hold.                        *)
LEMMA BeginPreserves ==
    ASSUME Inv, NEW e \in Exchanges, NEW state \in ExchangeStates, Begin(e, state),
           state.step \in {"looking", "sent"},
           state.request \in Requests,
           state.step = "sent" =>
               /\ state.signed = SignedText(state.request)
               /\ state.sent = SentText(state.request)
               /\ state.by = "object"
    PROVE  Inv'
<1> DEFINE k == state.request.client
<1>1. k \in ClientIds
  BY ExchangeAssumption
<1>2. TypeOK'
  BY <1>1 DEF Inv, TypeOK, Begin
<1>3. exchange'[e] = state /\ heldSource'[e] = {source[k]} /\ heldTarget'[e] = {target[k]}
  BY DEF Inv, TypeOK, Begin
<1>4. Facts(e)'
  <2>1. WellPosted(e)'
    BY <1>3 DEF WellPosted, Posted
  <2>2. Followed(e)'
    BY <1>3 DEF Followed, Begin
  <2>3. WellAnswered(e)'
    BY <1>3 DEF WellAnswered, At
  <2> QED
    BY <2>1, <2>2, <2>3 DEF Facts
<1>5. ASSUME NEW d \in Exchanges \ {e} PROVE Facts(d)'
  BY FactsStay DEF Inv, TypeOK, Begin
<1> QED
  BY <1>2, <1>4, <1>5 DEF Inv

(* A client object sends at once.                                           *)
LEMMA ObjectPreserves ==
    ASSUME Inv, NEW e \in Exchanges, NEW s \in Signers, NEW request \in Requests,
           CallObject(e, s, request)
    PROVE  Inv'
<1> DEFINE state == Sent(request, signer[s].hash, signer[s].type, "object")
<1>1. signer[s] \in SignerStates
  BY DEF Inv, TypeOK, CallObject, NotMade
<1>2. state \in Transmitted
  BY <1>1, SentType DEF SignerStates
<1>3. /\ state.step = "sent" /\ state.request = request /\ state.by = "object"
      /\ state.signed = SignedText(request) /\ state.sent = SentText(request)
  BY DEF Sent
<1>4. Begin(e, state)
  BY DEF CallObject
<1>5. state \in ExchangeStates
  BY <1>2 DEF ExchangeStates
<1> HIDE DEF state
<1> QED
  BY <1>3, <1>4, <1>5, BeginPreserves

(* A call by id begins with a look-up.                                      *)
LEMMA ByIdPreserves ==
    ASSUME Inv, NEW e \in Exchanges, NEW request \in Requests, CallById(e, request)
    PROVE  Inv'
<1> DEFINE state == [step |-> "looking", request |-> request]
<1>1. state \in ExchangeStates
  BY DEF ExchangeStates
<1>2. state.step = "looking" /\ state.request = request /\ Begin(e, state)
  BY DEF CallById
<1> HIDE DEF state
<1> QED
  BY <1>1, <1>2, BeginPreserves

(* The hash that is looked up is what the store holds at this instant.      *)
LEMMA LookUpPreserves ==
    ASSUME Inv, NEW e \in Exchanges, LookUp(e)
    PROVE  Inv'
<1> DEFINE request == exchange[e].request
           hash == source[request.client]
           state == IF hash = NoHash
                    THEN [step |-> "notFound", request |-> request]
                    ELSE Sent(request, hash, "default", "id")
<1>1. request \in Requests
  <2>1. exchange[e] \in ExchangeStates /\ exchange[e].step = "looking"
    BY DEF Inv, TypeOK, LookUp, At
  <2> QED
    BY <2>1 DEF ExchangeStates, Transmitted
<1>2. request.client \in ClientIds
  BY <1>1, ExchangeAssumption
<1>3. hash \in Hashes \cup {NoHash} /\ hash \in heldSource[e] /\ target[request.client] \in heldTarget[e]
  BY <1>2 DEF Inv, TypeOK, Facts, Followed, Going, LookUp, At
<1>4. state \in ExchangeStates
  <2>1. CASE hash = NoHash
    BY <1>1, <2>1 DEF ExchangeStates
  <2>2. CASE hash # NoHash
    <3>1. Sent(request, hash, "default", "id") \in Transmitted
      BY <1>1, <1>3, <2>2, SentType
    <3> QED
      BY <2>2, <3>1 DEF ExchangeStates
  <2> QED
    BY <2>1, <2>2
<1>5. \/ state.step = "notFound"
      \/ /\ state.step = "sent" /\ state.request = request /\ state.hash = hash
         /\ state.signed = SignedText(request) /\ state.sent = SentText(request)
  BY DEF Sent
<1>6. exchange' = [exchange EXCEPT ![e] = state]
  BY DEF LookUp
<1> HIDE DEF state
<1>7. exchange'[e] = state
  BY <1>6 DEF Inv, TypeOK
<1>8. TypeOK'
  BY <1>4, <1>6 DEF Inv, TypeOK, LookUp
<1>9. Facts(e)'
  <2>1. WellPosted(e)'
    BY <1>3, <1>5, <1>7 DEF WellPosted, Posted, LookUp
  <2>2. Followed(e)'
    BY <1>3, <1>5, <1>7 DEF Followed, Going, LookUp
  <2>3. WellAnswered(e)'
    BY <1>5, <1>7 DEF WellAnswered, At
  <2> QED
    BY <2>1, <2>2, <2>3 DEF Facts
<1>10. ASSUME NEW d \in Exchanges \ {e} PROVE Facts(d)'
  BY <1>6, FactsStay DEF Inv, TypeOK, LookUp
<1> QED
  BY <1>8, <1>9, <1>10 DEF Inv
-----------------------------------------------------------------------------
(* An exchange ends with one answer that has its ground.                    *)
LEMMA AnswerPreserves ==
    ASSUME Inv, NEW e \in Exchanges, At(e, "sent"),
           NEW a \in AnswerKinds, Answer(e, << a >>), Grounded(e, a)
    PROVE  Inv'
<1>1. exchange[e] \in Transmitted
  BY PostedShape DEF At, Posted
<1> DEFINE state == [exchange[e] EXCEPT !.step = "done", !.answers = << a >>]
<1>2. exchange' = [exchange EXCEPT ![e] = state]
  BY DEF Answer
<1>3. state \in Transmitted
  BY <1>1 DEF Transmitted
<1>4. /\ state.step = "done" /\ state.answers = << a >>
      /\ state.request = exchange[e].request /\ state.hash = exchange[e].hash
      /\ state.by = exchange[e].by /\ state.signed = exchange[e].signed
      /\ state.sent = exchange[e].sent /\ state.type = exchange[e].type
  BY <1>1 DEF Transmitted
<1> HIDE DEF state
<1>5. exchange'[e] = state
  BY <1>2 DEF Inv, TypeOK
<1>6. TypeOK'
  BY <1>2, <1>3 DEF Inv, TypeOK, Answer, ExchangeStates
<1>7. Facts(e)'
  <2>1. WellPosted(e)'
    BY <1>4, <1>5 DEF Inv, Facts, WellPosted, Posted, At, Answer
  <2>2. Followed(e)'
    BY <1>4, <1>5 DEF Followed, Going
  <2>3. ServerText(e)' = ServerText(e)
    BY <1>4, <1>5, TextsStay DEF Answer
  <2>4. Grounded(e, a)'
    BY <1>4, <1>5, <2>3 DEF Grounded, Answer
  <2>5. WellAnswered(e)'
    BY <1>4, <1>5, <2>4 DEF WellAnswered
  <2> QED
    BY <2>1, <2>2, <2>5 DEF Facts
<1>8. ASSUME NEW d \in Exchanges \ {e} PROVE Facts(d)'
  BY <1>2, FactsStay DEF Inv, TypeOK, Answer
<1> QED
  BY <1>6, <1>7, <1>8 DEF Inv

(* The outcome is the one on the hash that the server's store holds now.    *)
LEMMA DecisionGrounded ==
    ASSUME Inv, NEW e \in Exchanges, At(e, "sent"),
           NEW outcome \in {"verified", "refused", "internal"},
           outcome = "verified" => Verified(e), outcome = "refused" => ~Verified(e),
           NEW a \in AnswerKinds,
           a = "served" =>
              /\ outcome = "verified"
              /\ setup.listed # {} => exchange[e].request.client \in setup.listed,
           a = "refused" => outcome = "refused"
    PROVE  Grounded(e, a)
<1>1. target[exchange[e].request.client] \in heldTarget[e]
  BY DEF Inv, Facts, Followed, Going, At
<1> QED
  BY <1>1 DEF Grounded, Verified

(* The server's answer has its ground in what it holds at this instant.     *)
LEMMA ArrivePreserves ==
    ASSUME Inv, NEW e \in Exchanges, Arrive(e)
    PROVE  Inv'
<1>1. At(e, "sent")
  BY DEF Arrive
<1>2. CASE Unparsable(e)
  <2>1. "unparsable" \in AnswerKinds /\ Answer(e, <<"unparsable">>)
    BY <1>2 DEF AnswerKinds, Arrive
  <2>2. Grounded(e, "unparsable")
    BY DEF Grounded
  <2> QED
    BY <1>1, <2>1, <2>2, AnswerPreserves
<1>3. CASE ~Unparsable(e)
  <2> DEFINE outcome == IF Verified(e) THEN "verified" ELSE "refused"
  <2>1. Answer(e, Answers(e, outcome))
    BY <1>3 DEF Arrive
  <2>2. /\ outcome \in {"verified", "refused", "internal"}
        /\ outcome = "verified" => Verified(e)
        /\ outcome = "refused" => ~Verified(e)
    OBVIOUS
  <2> HIDE DEF outcome
  <2>3. PICK a \in AnswerKinds :
              /\ Answers(e, outcome) = << a >>
              /\ a = "served" =>
                    /\ outcome = "verified"
                    /\ setup.listed # {} => exchange[e].request.client \in setup.listed
              /\ a = "refused" => outcome = "refused"
    BY <2>2, AnswersShape
  <2>4. Grounded(e, a)
    BY <1>1, <2>2, <2>3, DecisionGrounded
  <2> QED
    BY <1>1, <2>1, <2>3, <2>4, AnswerPreserves
<1> QED
  BY <1>2, <1>3

(* An error is an answer that serves nobody.                                *)
LEMMA FailurePreserves ==
    ASSUME Inv, NEW e \in Exchanges, RedisFails(e)
    PROVE  Inv'
<1>1. At(e, "sent") /\ Answer(e, Answers(e, "internal"))
  BY DEF RedisFails
<1>2. PICK a \in AnswerKinds :
          Answers(e, "internal") = << a >> /\ a # "served" /\ a # "refused"
  BY AnswersShape
<1>3. Grounded(e, a)
  BY <1>2 DEF Grounded
<1> QED
  BY <1>1, <1>2, <1>3, AnswerPreserves
-----------------------------------------------------------------------------
(* A rotation only adds to the histories of the exchanges that run.         *)
LEMMA RotationPreserves ==
    ASSUME Inv, NEW k \in ClientIds, NEW hash \in Hashes \cup {NoHash},
           RotateSource(k, hash) \/ RotateTarget(k, hash)
    PROVE  Inv'
<1>1. TypeOK'
  BY DEF Inv, TypeOK, RotateSource, RotateTarget, Seen
<1>2. /\ exchange' = exchange /\ setup' = setup
      /\ \A e \in Exchanges :
            heldSource[e] \subseteq heldSource'[e] /\ heldTarget[e] \subseteq heldTarget'[e]
  BY DEF RotateSource, RotateTarget, Seen
<1>3. ASSUME NEW e \in Exchanges PROVE Facts(e)'
  <2>1. WellPosted(e)'
    BY <1>2 DEF Inv, Facts, WellPosted, Posted
  <2>2. Followed(e)'
    <3> SUFFICES ASSUME Going(e)
                 PROVE  /\ source'[exchange[e].request.client] \in heldSource'[e]
                        /\ target'[exchange[e].request.client] \in heldTarget'[e]
      BY <1>2 DEF Followed, Going
    <3>1. CASE RotateSource(k, hash)
      BY <3>1 DEF RotateSource, Seen, Inv, TypeOK, Facts, Followed
    <3>2. CASE RotateTarget(k, hash)
      BY <3>2 DEF RotateTarget, Seen, Inv, TypeOK, Facts, Followed
    <3> QED
      BY <3>1, <3>2
  <2>3. ServerText(e)' = ServerText(e)
    BY <1>2, TextsStay
  <2>4. WellAnswered(e)'
    <3> SUFFICES ASSUME At(e, "done")
                 PROVE  \E a \in AnswerKinds :
                           exchange'[e].answers = << a >> /\ Grounded(e, a)'
      BY <1>2 DEF WellAnswered, At
    <3>1. PICK a \in AnswerKinds : exchange[e].answers = << a >> /\ Grounded(e, a)
      BY DEF Inv, Facts, WellAnswered
    <3>2. Grounded(e, a)'
      BY <1>2, <2>3, <3>1 DEF Grounded
    <3> QED
      BY <1>2, <3>1, <3>2
  <2> QED
    BY <2>1, <2>2, <2>4 DEF Facts
<1> QED
  BY <1>1, <1>3 DEF Inv

(* Nothing changes when nothing does.                                       *)
LEMMA StillPreserves == ASSUME Inv, UNCHANGED vars PROVE Inv'
<1>1. TypeOK'
  BY DEF Inv, TypeOK, vars
<1>2. ASSUME NEW e \in Exchanges PROVE Facts(e)'
  BY FactsStay DEF Inv, vars
<1> QED
  BY <1>1, <1>2 DEF Inv

(* Every step keeps the facts.                                              *)
LEMMA NextPreserves == Inv /\ [Next]_vars => Inv'
<1> SUFFICES ASSUME Inv, [Next]_vars PROVE Inv'
  OBVIOUS
<1>1. ASSUME NEW s \in Signers, NEW k \in ClientIds,
             NEW type \in {"default", "json"}, MakeSigner(s, k, type)
      PROVE  Inv'
  BY <1>1, MakePreserves
<1>2. ASSUME NEW e \in Exchanges, NEW s \in Signers, NEW request \in Requests,
             CallObject(e, s, request)
      PROVE  Inv'
  BY <1>2, ObjectPreserves
<1>3. ASSUME NEW e \in Exchanges, NEW request \in Requests, CallById(e, request)
      PROVE  Inv'
  BY <1>3, ByIdPreserves
<1>4. ASSUME NEW e \in Exchanges, LookUp(e) \/ Arrive(e) \/ RedisFails(e)
      PROVE  Inv'
  BY <1>4, LookUpPreserves, ArrivePreserves, FailurePreserves
<1>5. ASSUME NEW k \in ClientIds, NEW hash \in Hashes \cup {NoHash},
             RotateSource(k, hash) \/ RotateTarget(k, hash)
      PROVE  Inv'
  BY <1>5, RotationPreserves
<1>6. CASE UNCHANGED vars
  BY <1>6, StillPreserves
<1> QED
  BY <1>1, <1>2, <1>3, <1>4, <1>5, <1>6 DEF Next
-----------------------------------------------------------------------------
(* What was signed and sent, what the stores held meanwhile and the ground  *)
(* of every answer are as Inv says, in every reachable state.               *)
THEOREM Invariance == Spec => []Inv
  BY InitHolds, NextPreserves, PTL DEF Spec

(* Every reachable state of callers and servers is well typed.              *)
THEOREM TypeCorrect == Spec => []TypeOK
<1>1. Inv => TypeOK
  BY DEF Inv
<1> QED
  BY <1>1, Invariance, PTL

(* What the answers of a finished exchange tell.                            *)
LEMMA AnswerTold ==
    ASSUME Inv, NEW e \in Exchanges, At(e, "done")
    PROVE  \E a \in AnswerKinds :
              /\ exchange[e].answers = << a >>
              /\ Grounded(e, a)
              /\ \A b : Was(e, b) <=> b = a
<1>1. PICK a \in AnswerKinds : exchange[e].answers = << a >> /\ Grounded(e, a)
  BY DEF Inv, Facts, WellAnswered
<1>2. \A b : Was(e, b) <=> b = a
  BY <1>1 DEF Was, Contains
<1> QED
  BY <1>1, <1>2

(* Whatever the setup, the whitelist that throws inside the try clause      *)
(* leaves no request without an answer, nor with two.                       *)
THEOREM OneAnswer == Spec => []AnsweredOnce
<1>1. Inv => AnsweredOnce
  <2> SUFFICES ASSUME Inv, NEW e \in Exchanges, At(e, "done")
               PROVE  Len(exchange[e].answers) = 1
    BY DEF AnsweredOnce
  <2> QED
    BY AnswerTold
<1> QED
  BY <1>1, Invariance, PTL

(* However often both stores are rotated, the handler is reached only with  *)
(* a hash that the server held during the exchange, by a listed client.     *)
THEOREM ServedEntitled == Spec => []ServedWasEntitled
<1>1. Inv => ServedWasEntitled
  <2> SUFFICES ASSUME Inv, NEW e \in Exchanges, Was(e, "served")
               PROVE  /\ exchange[e].hash \in heldTarget[e]
                      /\ setup.listed # {} => exchange[e].request.client \in setup.listed
    BY DEF ServedWasEntitled
  <2>1. Grounded(e, "served")
    BY AnswerTold DEF Was
  <2> QED
    BY <2>1 DEF Grounded
<1> QED
  BY <1>1, Invariance, PTL

(* For any method, content type and parsers, and any body but a stream to a *)
(* server without the empty-buffer normalisation, a handler that serves a   *)
(* request has read what the caller passed.                                 *)
THEOREM ServedRead == Spec => []ServedAsCalled
<1>1. Inv => ServedAsCalled
  <2> SUFFICES ASSUME Inv, NEW e \in Exchanges, Was(e, "served"),
                      exchange[e].request.body.form = "opaque" => setup.normalises
               PROVE  ReadContent(e) = exchange[e].request.body.content
    BY DEF ServedAsCalled
  <2>1. Grounded(e, "served") /\ Posted(e)
    BY AnswerTold DEF Was, At, Posted
  <2> QED
    BY <2>1, AgreedContent DEF Grounded
<1> QED
  BY <1>1, Invariance, PTL

(* A request whose body travels is refused only because a hash of the one   *)
(* store was not that of the other during the exchange.                     *)
THEOREM RefusalCaused == Spec => []RefusalHasCause
<1>1. Inv => RefusalHasCause
  <2> SUFFICES ASSUME Inv, NEW e \in Exchanges, Was(e, "refused"), Travels(e)
               PROVE  IF exchange[e].by = "id"
                      THEN \E a \in heldSource[e], b \in heldTarget[e] : a # b
                      ELSE \E b \in heldTarget[e] : b # exchange[e].hash
    BY DEF RefusalHasCause
  <2>1. Grounded(e, "refused") /\ Posted(e)
    BY AnswerTold DEF Was, At, Posted
  <2>2. ServerText(e) = exchange[e].signed
    BY <2>1, TravelsAgrees
  <2>3. PICK b \in heldTarget[e] : b # exchange[e].hash
    BY <2>1, <2>2 DEF Grounded
  <2>4. exchange[e].by = "id" => exchange[e].hash \in heldSource[e]
    BY <2>1 DEF Inv, Facts, WellPosted
  <2> QED
    BY <2>3, <2>4
<1> QED
  BY <1>1, Invariance, PTL
=============================================================================
