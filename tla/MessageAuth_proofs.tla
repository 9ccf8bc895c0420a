-------------------------- MODULE MessageAuth_proofs --------------------------
(***************************************************************************)
(* Proofs about MessageAuth, for any sets of APIs, calls, client ids,       *)
(* messages and records, and any bounds.                                    *)
(***************************************************************************)
EXTENDS MessageAuth, TLAPS

(* What each call knows, by the step it is at.  A call that is signed or     *)
(* verified for has a name.                                                 *)
NamedClient(c) == ~At(c, "noClientId") => ~Blank(call[c].client)

(* The signature a call works on comes from a call that has signed.         *)
SignatureKnown(c) ==
    call[c].signature \in Made \cup {NoSignature, ForeignSignature}

(* While a call runs its history has what its API holds now.                *)
StoreFollowed(c) ==
    call[c].step \in Running =>
        \A k \in {BootstrapId, call[c].client} :
            <<k, credential[call[c].api][k]>> \in held[c]

(* Past its first read a call works for an API that has held the bootstrap  *)
(* credential.                                                              *)
LockPassed(c) ==
    call[c].step \in {"client"} \cup WithRecord => call[c].api \in opened

RecordRead(c) ==
    call[c].step \in WithRecord => <<call[c].client, call[c].record>> \in held[c]

(* Every answer but an error has the ground it names.                       *)
Overdue(c) ==
    call[c].record.expiresAt # Never /\ call[c].answered > call[c].record.expiresAt

RefusalGrounded(c) ==
    /\ At(c, "locked") => <<BootstrapId, NoRecord>> \in held[c]
    /\ At(c, "notFound") => <<call[c].client, NoRecord>> \in held[c]
    /\ At(c, "noSignature") => call[c].signature = NoSignature
    /\ At(c, "expired") => Overdue(c)
    /\ At(c, "restricted") => call[c].record.purpose = "propagation-only"
    /\ At(c, "badSignature") => call[c].signature # SignatureOf(c)

SuccessGrounded(c) ==
    /\ Succeeded(c) => call[c].record.purpose # "propagation-only" /\ ~Overdue(c)
    /\ At(c, "verified") => call[c].signature = SignatureOf(c)

Grounds(c) ==
    /\ NamedClient(c)
    /\ SignatureKnown(c)
    /\ StoreFollowed(c)
    /\ LockPassed(c)
    /\ RecordRead(c)
    /\ RefusalGrounded(c)
    /\ SuccessGrounded(c)

(* What an API holds it has held.                                           *)
OpenedFollowed ==
    \A api \in Apis : credential[api][BootstrapId] # NoRecord => api \in opened

Inv ==
    /\ TypeOK
    /\ OpenedFollowed
    /\ \A c \in Calls : ~At(c, "none") => Grounds(c)
-----------------------------------------------------------------------------
(* A call that has begun has the state of one.                              *)
LEMMA CallShape ==
    ASSUME TypeOK, NEW c \in Calls, ~At(c, "none")
    PROVE  call[c] \in CallStates
  BY DEF TypeOK, NotStarted, At

(* What a call signs with, once it has a name and a record.                 *)
LEMMA SignatureType ==
    ASSUME Inv, NEW c \in Calls, call[c].step \in WithRecord
    PROVE  SignatureOf(c) \in Signatures
<1>1. ~At(c, "none") /\ ~At(c, "noClientId")
  BY DEF At, WithRecord
<1>2. call[c] \in CallStates
  BY <1>1, CallShape DEF Inv
<1>3. call[c].client \in {k \in ClientIds : ~Blank(k)}
  BY <1>1, <1>2 DEF Inv, Grounds, NamedClient, CallStates
<1>4. call[c].record \in Records /\ call[c].message \in Messages /\ call[c].api \in Apis
  BY <1>2 DEF CallStates
<1>5. call[c].record.hash \in Hashes
  BY <1>4 DEF Records
<1>6. MessageText(call[c].api, call[c].message) \in [content : Contents, order : Orders]
  BY <1>4, MessageAssumption DEF MessageText, AllMessages
<1> QED
  BY <1>3, <1>5, <1>6 DEF SignatureOf, Signature, Signatures

(* What has been signed is a signature.                                     *)
LEMMA MadeType == ASSUME Inv PROVE Made \subseteq Signatures
<1> SUFFICES ASSUME NEW d \in Calls, At(d, "signed") PROVE SignatureOf(d) \in Signatures
  BY DEF Made
<1> QED
  BY SignatureType DEF At, WithRecord

(* A step of one call loses no signature that others have made.             *)
LEMMA MadeGrows ==
    ASSUME NEW c \in Calls, ~At(c, "signed"),
           \A d \in Calls \ {c} : call'[d] = call[d]
    PROVE  Made \subseteq Made'
<1> SUFFICES ASSUME NEW d \in Calls, At(d, "signed")
             PROVE  At(d, "signed")' /\ SignatureOf(d)' = SignatureOf(d)
  BY DEF Made
<1>1. call'[d] = call[d]
  BY DEF At
<1> QED
  BY <1>1 DEF At, SignatureOf

(* The grounds of a call that is not touched stay.                          *)
LEMMA GroundsStay ==
    ASSUME NEW d \in Calls, Grounds(d), call'[d] = call[d], held'[d] = held[d],
           UNCHANGED <<credential, opened>>, Made \subseteq Made'
    PROVE  Grounds(d)'
<1>1. SignatureOf(d)' = SignatureOf(d)
  BY DEF SignatureOf
<1>2. NamedClient(d)' /\ SignatureKnown(d)'
  BY DEF Grounds, NamedClient, SignatureKnown, At
<1>3. StoreFollowed(d)' /\ LockPassed(d)' /\ RecordRead(d)'
  BY DEF Grounds, StoreFollowed, LockPassed, RecordRead
<1>4. RefusalGrounded(d)' /\ SuccessGrounded(d)'
  BY <1>1 DEF Grounds, RefusalGrounded, SuccessGrounded, Overdue, Succeeded, At
<1> QED
  BY <1>2, <1>3, <1>4 DEF Grounds
-----------------------------------------------------------------------------
(* A call that goes on keeps its arguments, and its shape if the step it     *)
(* goes to fits the record it has read.                                     *)
LEMMA GoToShape ==
    ASSUME TypeOK, NEW c \in Calls, ~At(c, "none"),
           NEW step \in Running \cup Outcomes,
           step \in WithRecord => call[c].record # NoRecord,
           GoTo(c, step)
    PROVE  /\ call' \in [Calls -> CallStates \cup {NotStarted}]
           /\ call'[c] = [call[c] EXCEPT !.step = step, !.answered = now]
           /\ \A d \in Calls \ {c} : call'[d] = call[d]
<1>1. call[c] \in CallStates
  BY CallShape
<1>2. call'[c] = [call[c] EXCEPT !.step = step, !.answered = now]
  BY DEF GoTo, TypeOK
<1>3. call'[c] \in CallStates
  BY <1>1, <1>2 DEF CallStates, TypeOK
<1> QED
  BY <1>2, <1>3 DEF GoTo, TypeOK

(* A step of a running call preserves the invariant if it preserves the     *)
(* type and gives the call that takes it its grounds.                       *)
LEMMA OneCallSteps ==
    ASSUME Inv, NEW c \in Calls, ~At(c, "signed"), TypeOK',
           \A d \in Calls \ {c} : call'[d] = call[d] /\ held'[d] = held[d],
           UNCHANGED <<credential, opened>>,
           Made \subseteq Made' => Grounds(c)'
    PROVE  Inv'
<1>1. Made \subseteq Made'
  BY MadeGrows
<1>2. ASSUME NEW d \in Calls, ~At(d, "none")' PROVE Grounds(d)'
  <2>1. CASE d = c
    BY <1>1, <2>1
  <2>2. CASE d # c
    <3>1. ~At(d, "none") /\ call'[d] = call[d] /\ held'[d] = held[d]
      BY <1>2, <2>2 DEF At
    <3> QED
      BY <1>1, <3>1, GroundsStay DEF Inv
  <2> QED
    BY <2>1, <2>2
<1>3. OpenedFollowed'
  BY DEF Inv, OpenedFollowed
<1> QED
  BY <1>2, <1>3 DEF Inv

(* A call that begins has a name or is refused for want of one, and its     *)
(* history starts with what its API holds.                                  *)
LEMMA StartPreserves ==
    ASSUME Inv, NEW c \in Calls, NEW request \in Requests,
           NEW signature \in Made \cup {NoSignature, ForeignSignature},
           Start(c, request, signature)
    PROVE  Inv'
<1>1. request.api \in Apis /\ request.client \in ClientIds
      /\ request.operation \in {"sign", "verify"} /\ request.message \in Messages
  BY MessageAssumption
<1>2. signature \in Signatures \cup {NoSignature, ForeignSignature}
  BY MadeType
<1> DEFINE step == IF Blank(request.client) THEN "noClientId" ELSE "bootstrap"
           new == [step |-> step,
                   api |-> request.api, operation |-> request.operation,
                   client |-> request.client, message |-> request.message,
                   signature |-> signature, record |-> NoRecord, answered |-> now]
<1>3. call'[c] = new /\ \A d \in Calls \ {c} : call'[d] = call[d] /\ held'[d] = held[d]
  BY DEF Start, Inv, TypeOK
<1>4. new \in CallStates
  BY <1>1, <1>2 DEF CallStates, Running, Outcomes, Refusals, WithRecord, Inv, TypeOK
<1>5. held'[c] = {<<k, credential[request.api][k]>> : k \in {BootstrapId, request.client}}
  BY DEF Start, Inv, TypeOK
<1>6. TypeOK'
  <2>1. call' \in [Calls -> CallStates \cup {NotStarted}]
    BY <1>3, <1>4 DEF Start, Inv, TypeOK
  <2>2. held'[c] \subseteq ClientIds \X (Records \cup {NoRecord})
    BY <1>1, <1>5, MessageAssumption DEF Inv, TypeOK
  <2>3. held' \in [Calls -> SUBSET (ClientIds \X (Records \cup {NoRecord}))]
    BY <2>2 DEF Start, Inv, TypeOK
  <2> QED
    BY <2>1, <2>3 DEF Start, Inv, TypeOK
<1>7. ASSUME Made \subseteq Made' PROVE Grounds(c)'
  <2>1. NamedClient(c)' /\ SignatureKnown(c)'
    BY <1>3, <1>7 DEF NamedClient, SignatureKnown, At
  <2>2. StoreFollowed(c)'
    BY <1>3, <1>5 DEF StoreFollowed, Start
  <2>3. step \notin {"client", "locked", "notFound", "noSignature"} \cup WithRecord
    BY DEF WithRecord
  <2>4. LockPassed(c)' /\ RecordRead(c)'
    BY <1>3, <2>3 DEF LockPassed, RecordRead
  <2>5. RefusalGrounded(c)' /\ SuccessGrounded(c)'
    BY <1>3, <2>3 DEF RefusalGrounded, SuccessGrounded, Succeeded, At, WithRecord
  <2> QED
    BY <2>1, <2>2, <2>4, <2>5 DEF Grounds
<1> QED
  BY <1>3, <1>6, <1>7, OneCallSteps DEF Start, At

(* The bootstrap credential is read: its absence locks the call.            *)
LEMMA ReadBootstrapPreserves ==
    ASSUME Inv, NEW c \in Calls, ReadBootstrap(c)
    PROVE  Inv'
<1> DEFINE boot == credential[call[c].api][BootstrapId]
           step == IF boot = NoRecord THEN "locked"
                   ELSE IF call[c].operation = "verify"
                           /\ call[c].signature = NoSignature THEN "noSignature"
                   ELSE "client"
<1>1. ~At(c, "none") /\ call[c] \in CallStates /\ Grounds(c)
  BY CallShape DEF ReadBootstrap, At, Inv
<1>2. step \in Running \cup Outcomes /\ step \notin WithRecord
  BY DEF Running, Outcomes, Refusals, WithRecord
<1>3. /\ call' \in [Calls -> CallStates \cup {NotStarted}]
      /\ call'[c] = [call[c] EXCEPT !.step = step, !.answered = now]
      /\ \A d \in Calls \ {c} : call'[d] = call[d]
  <2>1. GoTo(c, step)
    BY DEF ReadBootstrap
  <2> HIDE DEF step
  <2> QED
    BY <1>1, <1>2, <2>1, GoToShape DEF Inv
<1>4. call'[c].step = step /\ call'[c].client = call[c].client
      /\ call'[c].api = call[c].api /\ call'[c].signature = call[c].signature
  BY <1>1, <1>3 DEF CallStates
<1>5. TypeOK'
  BY <1>3 DEF ReadBootstrap, Inv, TypeOK
<1>6. ASSUME Made \subseteq Made' PROVE Grounds(c)'
  <2>1. NamedClient(c)' /\ SignatureKnown(c)'
    BY <1>1, <1>4, <1>6 DEF Grounds, NamedClient, SignatureKnown, At, ReadBootstrap
  <2>2. StoreFollowed(c)
    BY <1>1 DEF Grounds
  <2>3. /\ <<BootstrapId, boot>> \in held[c]
        /\ <<call[c].client, credential[call[c].api][call[c].client]>> \in held[c]
    BY <2>2 DEF StoreFollowed, ReadBootstrap, At, Running
  <2>4. StoreFollowed(c)'
    BY <1>4, <2>3 DEF StoreFollowed, ReadBootstrap
  <2>6. LockPassed(c)'
    BY <1>1, <1>2, <1>4 DEF LockPassed, ReadBootstrap, Inv, OpenedFollowed, CallStates
  <2>7. RecordRead(c)' /\ SuccessGrounded(c)'
    BY <1>2, <1>4 DEF RecordRead, SuccessGrounded, Succeeded, At, WithRecord
  <2>8. RefusalGrounded(c)'
    BY <1>2, <1>4, <2>3 DEF RefusalGrounded, At, WithRecord, ReadBootstrap
  <2> QED
    BY <2>1, <2>4, <2>6, <2>7, <2>8 DEF Grounds
<1> QED
  BY <1>3, <1>5, <1>6, OneCallSteps DEF ReadBootstrap, At

(* The client's record is read: its absence ends the call.                  *)
LEMMA ReadClientPreserves ==
    ASSUME Inv, NEW c \in Calls, ReadClient(c)
    PROVE  Inv'
<1> DEFINE record == credential[call[c].api][call[c].client]
           step == IF record = NoRecord THEN "notFound" ELSE "decide"
<1>1. call[c] \in CallStates /\ Grounds(c) /\ At(c, "client")
  BY CallShape DEF ReadClient, At, Inv
<1>2. record \in Records \cup {NoRecord}
  BY <1>1 DEF Inv, TypeOK, CallStates
<1>3. /\ call'[c] = [call[c] EXCEPT !.step = step, !.record = record, !.answered = now]
      /\ \A d \in Calls \ {c} : call'[d] = call[d]
  BY DEF ReadClient, Inv, TypeOK
<1>4. call'[c] \in CallStates
  BY <1>1, <1>2, <1>3
  DEF CallStates, Inv, TypeOK, Running, Outcomes, Refusals, WithRecord
<1>5. TypeOK'
  BY <1>3, <1>4 DEF ReadClient, Inv, TypeOK
<1>6. call'[c].step = step /\ call'[c].client = call[c].client
      /\ call'[c].api = call[c].api /\ call'[c].signature = call[c].signature
      /\ call'[c].record = record
  BY <1>1, <1>3 DEF CallStates
<1>7. ASSUME Made \subseteq Made' PROVE Grounds(c)'
  <2>1. NamedClient(c)' /\ SignatureKnown(c)'
    BY <1>1, <1>6, <1>7 DEF Grounds, NamedClient, SignatureKnown, At
  <2>2. StoreFollowed(c) /\ LockPassed(c)
    BY <1>1 DEF Grounds
  <2>3. /\ <<BootstrapId, credential[call[c].api][BootstrapId]>> \in held[c]
        /\ <<call[c].client, record>> \in held[c]
    BY <1>1, <2>2 DEF StoreFollowed, At, Running
  <2>4. StoreFollowed(c)'
    BY <1>6, <2>3 DEF StoreFollowed, ReadClient
  <2>5. LockPassed(c)'
    <3>1. call[c].api \in opened
      BY <1>1, <2>2 DEF LockPassed, At
    <3>2. opened' = opened
      BY DEF ReadClient
    <3> QED
      BY <1>6, <3>1, <3>2 DEF LockPassed
  <2>6. RecordRead(c)'
    BY <1>6, <2>3 DEF RecordRead, ReadClient
  <2>7. step \in {"notFound", "decide"} /\ (step = "notFound" => record = NoRecord)
    OBVIOUS
  <2>8. held'[c] = held[c]
    BY DEF ReadClient
  <2>9. RefusalGrounded(c)' /\ SuccessGrounded(c)'
    <3> HIDE DEF step
    <3> QED
      BY <1>6, <2>3, <2>7, <2>8 DEF RefusalGrounded, SuccessGrounded, Succeeded, At
  <2> QED
    BY <2>1, <2>4, <2>5, <2>6, <2>9 DEF Grounds
<1> QED
  BY <1>1, <1>3, <1>5, <1>7, OneCallSteps DEF ReadClient, At

(* The decision has its ground in the record that was read.                 *)
LEMMA DecidePreserves ==
    ASSUME Inv, NEW c \in Calls, Decide(c)
    PROVE  Inv'
<1> DEFINE step == Decision(c)
<1>1. call[c] \in CallStates /\ Grounds(c) /\ At(c, "decide") /\ ~At(c, "none")
  BY CallShape DEF Decide, At, Inv
<1>2. call[c].record \in Records
  BY <1>1 DEF CallStates, At, WithRecord
<1>3. step \in {"expired", "restricted", "signed", "verified", "badSignature"}
  BY DEF Decision
<1>4. /\ call' \in [Calls -> CallStates \cup {NotStarted}]
      /\ call'[c] = [call[c] EXCEPT !.step = step, !.answered = now]
      /\ \A d \in Calls \ {c} : call'[d] = call[d]
  <2>1. GoTo(c, step)
    BY DEF Decide
  <2>2. step \in Running \cup Outcomes
    BY <1>3 DEF Outcomes, Refusals
  <2> HIDE DEF step
  <2> QED
    BY <1>1, <1>2, <2>1, <2>2, NoRecordAssumption, GoToShape DEF Inv
<1>5. call'[c].step = step /\ call'[c].client = call[c].client
      /\ call'[c].signature = call[c].signature /\ call'[c].record = call[c].record
      /\ call'[c].answered = now /\ SignatureOf(c)' = SignatureOf(c)
  BY <1>1, <1>4 DEF CallStates, SignatureOf
<1>6. TypeOK'
  BY <1>4 DEF Decide, Inv, TypeOK
<1>7. ASSUME Made \subseteq Made' PROVE Grounds(c)'
  <2>1. NamedClient(c)' /\ SignatureKnown(c)'
    BY <1>1, <1>5, <1>7 DEF Grounds, NamedClient, SignatureKnown, At
  <2>2. StoreFollowed(c)'
    BY <1>3, <1>5 DEF StoreFollowed, Running
  <2>3. LockPassed(c)' /\ RecordRead(c)'
    BY <1>1, <1>4, <1>5
    DEF Grounds, LockPassed, RecordRead, At, WithRecord, Decide, CallStates
  <2>4. RefusalGrounded(c)'
    <3>1. step = "expired" => Expired(call[c].record)
      BY DEF Decision
    <3>2. step = "restricted" => call[c].record.purpose = "propagation-only"
      BY DEF Decision
    <3>3. step = "badSignature" => call[c].signature # SignatureOf(c)
      BY DEF Decision
    <3> HIDE DEF step
    <3> QED
      BY <1>3, <1>5, <3>1, <3>2, <3>3 DEF RefusalGrounded, At, Overdue, Expired
  <2>5. SuccessGrounded(c)'
    <3>1. step \in {"signed", "verified"} =>
             call[c].record.purpose # "propagation-only" /\ ~Expired(call[c].record)
      BY DEF Decision
    <3>2. step = "verified" => call[c].signature = SignatureOf(c)
      BY DEF Decision
    <3> HIDE DEF step
    <3> QED
      BY <1>5, <3>1, <3>2 DEF SuccessGrounded, Succeeded, At, Overdue, Expired
  <2> QED
    BY <2>1, <2>2, <2>3, <2>4, <2>5 DEF Grounds
<1> QED
  BY <1>1, <1>4, <1>6, <1>7, OneCallSteps DEF Decide, At

(* A call that fails answers nothing else.                                  *)
LEMMA RedisFailsPreserves ==
    ASSUME Inv, NEW c \in Calls, RedisFails(c)
    PROVE  Inv'
<1>1. ~At(c, "none") /\ ~At(c, "signed") /\ ~At(c, "noClientId")
      /\ call[c] \in CallStates /\ Grounds(c)
  BY CallShape DEF RedisFails, At, Inv
<1>2. /\ call' \in [Calls -> CallStates \cup {NotStarted}]
      /\ call'[c] = [call[c] EXCEPT !.step = "failed", !.answered = now]
      /\ \A d \in Calls \ {c} : call'[d] = call[d]
  BY <1>1, GoToShape DEF RedisFails, Inv, Outcomes, WithRecord
<1>3. call'[c].step = "failed" /\ call'[c].client = call[c].client
      /\ call'[c].signature = call[c].signature
  BY <1>1, <1>2 DEF CallStates
<1>4. TypeOK'
  BY <1>2 DEF RedisFails, Inv, TypeOK
<1>5. ASSUME Made \subseteq Made' PROVE Grounds(c)'
  <2>1. NamedClient(c)' /\ SignatureKnown(c)'
    BY <1>1, <1>3, <1>5 DEF Grounds, NamedClient, SignatureKnown, At
  <2>2. StoreFollowed(c)' /\ LockPassed(c)' /\ RecordRead(c)'
    BY <1>3 DEF StoreFollowed, LockPassed, RecordRead, Running, WithRecord
  <2>3. RefusalGrounded(c)' /\ SuccessGrounded(c)'
    BY <1>3 DEF RefusalGrounded, SuccessGrounded, Succeeded, At
  <2> QED
    BY <2>1, <2>2, <2>3 DEF Grounds
<1> QED
  BY <1>1, <1>2, <1>4, <1>5, OneCallSteps DEF RedisFails

(* What a store holds next joins the histories of the calls it concerns.    *)
LEMMA EditPreserves ==
    ASSUME Inv, NEW api \in Apis, NEW k \in ClientIds,
           NEW record \in StoredRecords \cup {NoRecord},
           EditCredential(api, k, record)
    PROVE  Inv'
<1>1. record \in Records \cup {NoRecord}
  BY MessageAssumption
<1>2. credential' \in [Apis -> [ClientIds -> Records \cup {NoRecord}]]
  BY <1>1 DEF EditCredential, Inv, TypeOK
<1>3. /\ held' \in [Calls -> SUBSET (ClientIds \X (Records \cup {NoRecord}))]
      /\ \A c \in Calls : held[c] \subseteq held'[c]
  BY <1>1 DEF EditCredential, Inv, TypeOK
<1>4. TypeOK'
  BY <1>2, <1>3 DEF EditCredential, Inv, TypeOK
<1>5. opened \subseteq opened' /\ OpenedFollowed'
  <2>1. opened \subseteq opened'
    BY DEF EditCredential
  <2>2. ASSUME NEW a \in Apis, credential'[a][BootstrapId] # NoRecord
        PROVE  a \in opened'
    <3>1. CASE a = api /\ k = BootstrapId
      BY <2>2, <3>1, MessageAssumption DEF EditCredential, Inv, TypeOK
    <3>2. CASE ~(a = api /\ k = BootstrapId)
      <4>1. credential'[a][BootstrapId] = credential[a][BootstrapId]
        BY <2>2, <3>2, MessageAssumption DEF EditCredential, Inv, TypeOK
      <4> QED
        BY <2>1, <2>2, <4>1 DEF Inv, OpenedFollowed
    <3> QED
      BY <3>1, <3>2
  <2> QED
    BY <2>1, <2>2 DEF OpenedFollowed
<1>6. call' = call /\ Made' = Made
  BY DEF EditCredential, Made, SignatureOf, At
<1>7. ASSUME NEW c \in Calls, ~At(c, "none")' PROVE Grounds(c)'
  <2>1. Grounds(c) /\ call[c] \in CallStates
    BY <1>6, <1>7, CallShape DEF Inv, At
  <2>2. NamedClient(c)' /\ SignatureKnown(c)' /\ SuccessGrounded(c)'
    BY <1>6, <2>1
    DEF Grounds, NamedClient, SignatureKnown, SuccessGrounded, Succeeded,
        Overdue, SignatureOf, At
  <2>3. StoreFollowed(c)'
    <3> SUFFICES ASSUME call[c].step \in Running,
                        NEW id \in {BootstrapId, call[c].client}
                 PROVE  <<id, credential'[call[c].api][id]>> \in held'[c]
      BY <1>6 DEF StoreFollowed
    <3>1. <<id, credential[call[c].api][id]>> \in held[c]
      BY <2>1 DEF Grounds, StoreFollowed
    <3>2. CASE call[c].api = api /\ id = k
      <4>1. <<k, record>> \in held'[c]
        BY <3>2 DEF EditCredential
      <4>2. credential'[call[c].api][id] = record
        BY <2>1, <3>2 DEF EditCredential, Inv, TypeOK, CallStates
      <4> QED
        BY <3>2, <4>1, <4>2
    <3>3. CASE ~(call[c].api = api /\ id = k)
      <4>1. id \in ClientIds /\ call[c].api \in Apis
        BY <2>1, MessageAssumption DEF CallStates
      <4>2. credential'[call[c].api][id] = credential[call[c].api][id]
        BY <3>3, <4>1 DEF EditCredential, Inv, TypeOK
      <4> QED
        BY <1>3, <3>1, <4>2
    <3> QED
      BY <3>2, <3>3
  <2>4. LockPassed(c)' /\ RecordRead(c)'
    BY <1>3, <1>6, <1>5, <2>1 DEF Grounds, LockPassed, RecordRead
  <2>5. RefusalGrounded(c)'
    BY <1>3, <1>6, <2>1 DEF Grounds, RefusalGrounded, Overdue, SignatureOf, At
  <2> QED
    BY <2>2, <2>3, <2>4, <2>5 DEF Grounds
<1> QED
  BY <1>4, <1>7, <1>5 DEF Inv

(* Steps that change neither calls, stores nor histories.                   *)
LEMMA StillPreserves ==
    ASSUME Inv, TypeOK', UNCHANGED <<call, credential, held, opened>>
    PROVE  Inv'
<1>1. Made \subseteq Made'
  BY DEF Made, SignatureOf, At
<1>2. ASSUME NEW c \in Calls, ~At(c, "none")' PROVE Grounds(c)'
  BY <1>1, <1>2, GroundsStay DEF Inv, At
<1> QED
  BY <1>2 DEF Inv, OpenedFollowed
-----------------------------------------------------------------------------
(* The inductive invariant: every call has the grounds of its step.         *)
THEOREM Invariance == Spec => []Inv
<1>1. Init => Inv
  <2> SUFFICES ASSUME Init PROVE Inv
    OBVIOUS
  <2>1. TypeOK
    BY MessageAssumption DEF Init, TypeOK, Times
  <2>2. \A c \in Calls : At(c, "none")
    BY DEF Init, At, NotStarted
  <2> QED
    BY <2>1, <2>2 DEF Inv, Init, OpenedFollowed
<1>2. Inv /\ [Next]_vars => Inv'
  <2> SUFFICES ASSUME Inv, [Next]_vars PROVE Inv'
    OBVIOUS
  <2>1. ASSUME NEW c \in Calls, Step(c) PROVE Inv'
    <3>1. CASE \E request \in Requests,
                  signature \in Made \cup {NoSignature, ForeignSignature} :
                     Start(c, request, signature)
      BY <3>1, StartPreserves
    <3>2. CASE ReadBootstrap(c)
      BY <3>2, ReadBootstrapPreserves
    <3>3. CASE ReadClient(c)
      BY <3>3, ReadClientPreserves
    <3>4. CASE Decide(c)
      BY <3>4, DecidePreserves
    <3>5. CASE RedisFails(c)
      BY <3>5, RedisFailsPreserves
    <3> QED
      BY <2>1, <3>1, <3>2, <3>3, <3>4, <3>5 DEF Step
  <2>2. ASSUME NEW api \in Apis, NEW k \in ClientIds,
               NEW record \in StoredRecords \cup {NoRecord},
               EditCredential(api, k, record)
        PROVE  Inv'
    BY <2>2, EditPreserves
  <2>3. CASE Tick
    <3>1. TypeOK'
      BY <2>3, MessageAssumption DEF Tick, Inv, TypeOK, Times
    <3> QED
      BY <2>3, <3>1, StillPreserves DEF Tick
  <2>4. CASE UNCHANGED vars
    <3>1. TypeOK'
      BY <2>4 DEF vars, Inv, TypeOK
    <3> QED
      BY <2>4, <3>1, StillPreserves DEF vars
  <2> QED
    BY <2>1, <2>2, <2>3, <2>4 DEF Next
<1> QED
  BY <1>1, <1>2, PTL DEF Spec

-----------------------------------------------------------------------------
(* Every reachable state is well typed.                                     *)
THEOREM TypeCorrect == Spec => []TypeOK
  BY Invariance, PTL DEF Inv

(* An API that has never held the bootstrap credential signs and verifies   *)
(* nothing (assertBootstrapUnlocked).                                       *)
THEOREM UnopenedServesNothing == Spec => []NothingServedUnopened
<1>1. Inv => NothingServedUnopened
  BY DEF Inv, Grounds, LockPassed, NothingServedUnopened, Succeeded, At, WithRecord
<1> QED
  BY <1>1, Invariance, PTL

(* A call succeeds only for a client that was entitled during the call      *)
(* (signMessage, verifyMessage).                                            *)
THEOREM SuccessEntitled == Spec => []SuccessIsEntitled
<1>1. Inv => SuccessIsEntitled
  <2> SUFFICES ASSUME Inv, NEW c \in Calls, Succeeded(c)
               PROVE  \E pair \in held[c] :
                         /\ pair[1] = call[c].client
                         /\ pair[2] # NoRecord
                         /\ pair[2].purpose # "propagation-only"
                         /\ pair[2].expiresAt # Never =>
                               call[c].answered <= pair[2].expiresAt
                         /\ At(c, "verified") =>
                               /\ call[c].signature \in Signatures
                               /\ call[c].signature.hash = pair[2].hash
    BY DEF SuccessIsEntitled
  <2>1. /\ call[c].step \in WithRecord /\ ~At(c, "none")
        /\ RecordRead(c) /\ SuccessGrounded(c) /\ call[c] \in CallStates
    BY CallShape DEF Inv, Grounds, Succeeded, At, WithRecord
  <2>2. call[c].record \in Records
    BY <2>1 DEF CallStates
  <2>3. call[c].record.expiresAt # Never => call[c].answered <= call[c].record.expiresAt
    <3>1. SUFFICES ASSUME call[c].record.expiresAt # Never
                   PROVE  call[c].answered <= call[c].record.expiresAt
      OBVIOUS
    <3>2. call[c].record.expiresAt \in Int
      BY <2>2, <3>1, MessageAssumption DEF Records
    <3>3. call[c].answered \in Int
      BY <2>1, MessageAssumption DEF CallStates, Times
    <3> QED
      BY <2>1, <3>1, <3>2, <3>3 DEF SuccessGrounded, Overdue
  <2>4. At(c, "verified") => /\ call[c].signature \in Signatures
                             /\ call[c].signature.hash = call[c].record.hash
    BY <2>1, SignatureType DEF SuccessGrounded, SignatureOf, Signature
  <2>5. /\ <<call[c].client, call[c].record>> \in held[c]
        /\ call[c].record.purpose # "propagation-only"
    BY <2>1 DEF RecordRead, SuccessGrounded
  <2> QED
    BY <2>2, <2>3, <2>4, <2>5, NoRecordAssumption
<1> QED
  BY <1>1, Invariance, PTL

(* What is verified was signed, for the same client and content and with    *)
(* the same hash (signMessageCore, verifyMessageCore).                      *)
THEOREM VerifiedSigned == Spec => []VerifiedWasSigned
<1>1. Inv => VerifiedWasSigned
  <2> SUFFICES ASSUME Inv, NEW c \in Calls, At(c, "verified")
               PROVE  \E d \in Calls :
                         /\ At(d, "signed")
                         /\ Trimmed(call[d].client) = Trimmed(call[c].client)
                         /\ call[d].message.content = call[c].message.content
                         /\ call[d].record.hash = call[c].record.hash
    BY DEF VerifiedWasSigned
  <2>1. /\ call[c].step \in WithRecord /\ call[c].signature = SignatureOf(c)
        /\ SignatureKnown(c)
    BY DEF Inv, Grounds, SuccessGrounded, At, WithRecord
  <2>2. SignatureOf(c) \in Made
    BY <2>1, SignatureType, SignatureAssumption DEF SignatureKnown
  <2>3. PICK d \in Calls : At(d, "signed") /\ SignatureOf(d) = SignatureOf(c)
    BY <2>2 DEF Made
  <2> QED
    BY <2>3 DEF SignatureOf, Signature, MessageText
<1> QED
  BY <1>1, Invariance, PTL

(* The record a call has read is one of those seen during it.               *)
LEMMA ReadIsSeen ==
    ASSUME Inv, NEW c \in Calls, call[c].step \in WithRecord
    PROVE  call[c].record \in Seen(c)
<1>1. ~At(c, "none")
  BY DEF At, WithRecord
<1>2. call[c].record # NoRecord
  BY <1>1, CallShape DEF Inv, CallStates
<1>3. <<call[c].client, call[c].record>> \in held[c]
  BY <1>1 DEF Inv, Grounds, RecordRead
<1> QED
  BY <1>2, <1>3 DEF Seen

(* A call that is refused for the lock, for want of a credential, for its   *)
(* expiry or for its purpose found just that in the store during the call;  *)
(* the signature of an object is bad only under another hash.               *)
THEOREM RefusalCaused == Spec => []RefusalHasCause
<1>1. Inv => RefusalHasCause
  <2> SUFFICES ASSUME Inv, NEW c \in Calls
               PROVE  /\ At(c, "locked")   => <<BootstrapId, NoRecord>> \in held[c]
                      /\ At(c, "notFound") => <<call[c].client, NoRecord>> \in held[c]
                      /\ At(c, "expired")  => \E record \in Seen(c) :
                            record.expiresAt # Never /\ call[c].answered > record.expiresAt
                      /\ At(c, "restricted") => \E record \in Seen(c) :
                            record.purpose = "propagation-only"
                      /\ call[c].step \in {"noSignature", "badSignature"} => \A d \in Calls :
                            At(d, "signed") /\ call[c].signature = SignatureOf(d)
                                           /\ SameMessage(c, d)
                            => /\ At(c, "badSignature")
                               /\ \E record \in Seen(c) : record.hash # call[d].record.hash
    BY DEF RefusalHasCause
  <2>1. ~At(c, "none") => RefusalGrounded(c)
    BY DEF Inv, Grounds
  <2>2. At(c, "locked") \/ At(c, "notFound")
        => \/ At(c, "locked") /\ <<BootstrapId, NoRecord>> \in held[c]
           \/ At(c, "notFound") /\ <<call[c].client, NoRecord>> \in held[c]
    BY <2>1 DEF RefusalGrounded, At
  <2>3. ASSUME At(c, "expired") \/ At(c, "restricted")
        PROVE  /\ call[c].record \in Seen(c)
               /\ At(c, "expired") => /\ call[c].record.expiresAt # Never
                                      /\ call[c].answered > call[c].record.expiresAt
               /\ At(c, "restricted") => call[c].record.purpose = "propagation-only"
    BY <2>1, <2>3, ReadIsSeen DEF RefusalGrounded, Overdue, At, WithRecord
  <2>4. ASSUME call[c].step \in {"noSignature", "badSignature"}, NEW d \in Calls,
               At(d, "signed"), call[c].signature = SignatureOf(d), SameMessage(c, d)
        PROVE  /\ At(c, "badSignature")
               /\ \E record \in Seen(c) : record.hash # call[d].record.hash
    <3>1. call[c].signature # NoSignature
      BY <2>4, SignatureType, SignatureAssumption DEF At, WithRecord
    <3>2. At(c, "badSignature") /\ call[c].signature # SignatureOf(c)
      BY <2>1, <2>4, <3>1 DEF RefusalGrounded, At
    <3>3. call[c].record \in Seen(c)
      BY <3>2, ReadIsSeen DEF At, WithRecord
    <3>4. call[c].record.hash # call[d].record.hash
      BY <2>4, <3>2 DEF SignatureOf, Signature, MessageText, SameMessage
    <3> QED
      BY <3>2, <3>3, <3>4
  <2> QED
    BY <2>2, <2>3, <2>4 DEF At
<1> QED
  BY <1>1, Invariance, PTL
=============================================================================
