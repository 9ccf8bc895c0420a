-------------------------- MODULE Propagation_proofs --------------------------
(***************************************************************************)
(* Theorems about Propagation, for every value of its constants: any        *)
(* targets, clients, hashes and losses.                                     *)
(***************************************************************************)
EXTENDS Propagation, TLAPS

-----------------------------------------------------------------------------
(* A rotation is described by the hashes it met and the one it pushed.       *)
Rotations == [client : ClientIds, hash : Hashes, quiet : BOOLEAN,
              before : [Targets -> Hashes \cup {NoHash}]]

(* What every request under way is: it carries a payload where the target   *)
(* writes one.                                                              *)
Built(request) ==
    /\ request \in Requests
    /\ request.operation \in {"create", "update"} => request.write \in Payloads

(* The invariant the types rest on.                                         *)
TypeInv ==
    /\ TypeOK
    /\ Built(call.request)
    /\ \A message \in late : Built(message[2])
    /\ rotation = NoRotation \/ rotation \in Rotations

-----------------------------------------------------------------------------
(* The records that payloads make are records.                              *)
LEMMA PayloadStored ==
    ASSUME NEW write \in Payloads, NEW existing \in Records \cup {NoRecord}
    PROVE  /\ Created(write) \in Records
           /\ Rotated(existing, write) \in Records
           /\ Rotated(existing, write).hash = write.hash
           /\ Created(write).hash = write.hash
<1> USE UnsetAssumption, NoRecordAssumption
<1>1. PICK hash \in Hashes, seeded \in BOOLEAN : write = Payload(hash, seeded)
  BY DEF Payloads
<1>2. /\ write.hash = hash /\ write.expiresAt = Unset /\ write.allowedIps = {}
      /\ write.fromDbSeed = seeded /\ write.purpose = Unset
  BY <1>1 DEF Payload
<1>3. {} # Unset /\ seeded # Unset
  OBVIOUS
<1>4. Created(write) = [hash |-> hash, expiresAt |-> Never, allowedIps |-> {},
                        fromDbSeed |-> seeded, purpose |-> "any"]
  BY <1>2, <1>3 DEF Created, OrElse
<1>5. Created(write) \in Records
  BY <1>4 DEF Records, Purposes
<1>6. CASE existing = NoRecord
  BY <1>2, <1>4, <1>5, <1>6 DEF Rotated
<1>7. CASE existing # NoRecord
  <2>1. Rotated(existing, write) =
            [hash |-> hash, expiresAt |-> existing.expiresAt, allowedIps |-> {},
             fromDbSeed |-> seeded, purpose |-> existing.purpose]
    BY <1>2, <1>3, <1>7 DEF Rotated, OrElse
  <2> QED
    BY <1>2, <1>4, <1>5, <1>7, <2>1 DEF Records
<1> QED
  BY <1>6, <1>7

(* A record has a hash, and no record has none.                             *)
LEMMA HashType ==
    ASSUME NEW r \in Records \cup {NoRecord}
    PROVE  /\ Hash(r) \in Hashes \cup {NoHash}
           /\ r # NoRecord <=> Hash(r) # NoHash
           /\ r # NoRecord => Hash(r) = r.hash
  BY PropagationAssumption DEF Hash, Records

(* The register computes the records that the factory does.                 *)
LEMMA SameRecords ==
    /\ \A old, write : /\ Register!Rotated(old, write) = Rotated(old, write)
                       /\ Register!NeedsBackup(old, write) = NeedsBackup(old, write)
    /\ \A old, hash : Register!Reverted(old, hash) = Reverted(old, hash)
    /\ \A k : Register!CurrentHash(k) = Hash(record[k])
<1>1. \A argument, default : Register!OrElse(argument, default) = OrElse(argument, default)
  BY DEF Register!OrElse, OrElse
<1>2. \A write : Register!Created(write) = Created(write)
  BY <1>1 DEF Register!Created, Created
<1>3. \A old, write : Register!Rotated(old, write) = Rotated(old, write)
  BY <1>1, <1>2 DEF Register!Rotated, Rotated
<1>4. \A old, write : Register!NeedsBackup(old, write) = NeedsBackup(old, write)
  BY DEF Register!NeedsBackup, NeedsBackup
<1>5. \A old, hash : Register!Reverted(old, hash) = Reverted(old, hash)
  BY DEF Register!Reverted, Reverted
<1>6. \A k : Register!CurrentHash(k) = Hash(record[k])
  BY DEF Register!CurrentHash, Hash
<1> QED
  BY <1>3, <1>4, <1>5, <1>6

(* A step that writes one key of a target, and keeps the types.             *)
WritesOnly(k) ==
    /\ record' \in [Keys -> Records \cup {NoRecord}]
    /\ undo' \in [Keys -> Hashes \cup {NoHash}]
    /\ \A key \in Keys \ {k} : record'[key] = record[key] /\ undo'[key] = undo[key]

(* One key is set, the undo hash to a value that the register allows.       *)
LEMMA SetOne ==
    ASSUME TypeOK, NEW k \in Keys, NEW new \in Records \cup {NoRecord},
           NEW hash \in Hashes \cup {NoHash},
           record' = [record EXCEPT ![k] = new],
           undo' = [undo EXCEPT ![k] = hash]
    PROVE  WritesOnly(k) /\ record'[k] = new /\ undo'[k] = hash
  BY DEF TypeOK, WritesOnly

(* What an update leaves behind: its hash, and a way back if it changed one. *)
LEMMA SetSecretWrites ==
    ASSUME TypeOK, NEW k \in Keys, NEW write \in Payloads,
           Register!SetSecret(k, write)
    PROVE  /\ WritesOnly(k)
           /\ Hash(record'[k]) = write.hash
           /\ NeedsBackup(record[k], write) => undo'[k] \in {Hash(record[k]), NoHash}
<1>1. record[k] \in Records \cup {NoRecord} /\ undo[k] \in Hashes \cup {NoHash}
  BY DEF TypeOK
<1>2. Hash(record[k]) \in Hashes \cup {NoHash}
  BY <1>1, HashType
<1> DEFINE new == Rotated(record[k], write)
<1>3. new \in Records /\ new.hash = write.hash
  BY <1>1, PayloadStored
<1>4. Hash(new) = write.hash
  BY <1>3, HashType, NoRecordAssumption
<1> HIDE DEF new
<1>5. record' = [record EXCEPT ![k] = new]
  BY SameRecords DEF Register!SetSecret, Register!Store, new
<1>6. PICK hash \in {undo[k], Hash(record[k]), NoHash} :
          /\ undo' = [undo EXCEPT ![k] = hash]
          /\ NeedsBackup(record[k], write) => hash \in {Hash(record[k]), NoHash}
  <2>1. CASE NeedsBackup(record[k], write)
    <3>1. Register!UndoIs(k, Hash(record[k])) \/ Register!UndoIs(k, NoHash)
      BY <2>1, SameRecords DEF Register!SetSecret
    <3> QED
      BY <3>1 DEF Register!UndoIs
  <2>2. CASE ~NeedsBackup(record[k], write)
    <3>1. Register!UndoMayLinger(k)
      BY <2>2, SameRecords DEF Register!SetSecret
    <3> QED
      BY <2>2, <3>1, SameRecords DEF Register!UndoIs, Register!UndoMayLinger
  <2> QED
    BY <2>1, <2>2
<1>7. WritesOnly(k) /\ record'[k] = new /\ undo'[k] = hash
  BY <1>1, <1>2, <1>3, <1>5, <1>6, SetOne, ZenonT(40)
<1> QED
  BY <1>4, <1>6, <1>7

(* A delete leaves other clients and targets alone.                         *)
LEMMA DeleteWrites ==
    ASSUME TypeOK, NEW k \in Keys, Register!Delete(k)
    PROVE  WritesOnly(k)
<1>1. Hash(record[k]) \in Hashes \cup {NoHash} /\ undo[k] \in Hashes \cup {NoHash}
  BY HashType DEF TypeOK
<1>2. PICK hash \in {undo[k], Hash(record[k]), NoHash} :
          undo' = [undo EXCEPT ![k] = hash]
  BY SameRecords DEF Register!Delete, Register!UndoMayLinger, Register!UndoIs
<1>3. record' = [record EXCEPT ![k] = NoRecord]
  BY DEF Register!Delete, Register!Store
<1> QED
  BY <1>1, <1>2, <1>3, SetOne

(* A revert puts the undo hash back.                                        *)
LEMMA RevertWrites ==
    ASSUME TypeOK, NEW k \in Keys, Register!Revert(k)
    PROVE  /\ WritesOnly(k)
           /\ undo[k] # NoHash
           /\ Hash(record'[k]) = undo[k]
<1>1. record[k] \in Records /\ undo[k] \in Hashes /\ undo[k] # NoHash
  BY DEF TypeOK, Register!Revert
<1> DEFINE new == Reverted(record[k], undo[k])
<1>2. new \in Records /\ new.hash = undo[k]
  BY <1>1 DEF Reverted, Records
<1>3. Hash(new) = undo[k]
  BY <1>2, HashType, NoRecordAssumption
<1> HIDE DEF new
<1>4. record' = [record EXCEPT ![k] = new] /\ undo' = [undo EXCEPT ![k] = NoHash]
  BY SameRecords DEF Register!Revert, Register!Store, Register!UndoIs, new
<1>5. WritesOnly(k) /\ record'[k] = new
  BY <1>2, <1>4, SetOne
<1> QED
  BY <1>1, <1>3, <1>5

(* What handling a request may do: nothing at another key, and at its own    *)
(* only what the request says.                                              *)
LEMMA HandlesWrites ==
    ASSUME TypeOK, NEW t \in Targets, NEW request, Built(request),
           Handles(t, request)
    PROVE  LET k == <<t, request.client>>
           IN  /\ WritesOnly(k)
               /\ request.operation = "update" /\ Accepted(t, request) =>
                     /\ Hash(record'[k]) = request.write.hash
                     /\ NeedsBackup(record[k], request.write) =>
                           undo'[k] \in {Hash(record[k]), NoHash}
               /\ Accepted(t, request) /\ Reverts(t, request) =>
                     /\ undo[k] # NoHash
                     /\ Hash(record'[k]) = undo[k]
<1> DEFINE k == <<t, request.client>>
<1>1. k \in Keys
  BY DEF Built, Requests, Keys
<1>2. UNCHANGED <<record, undo>> => WritesOnly(k)
  BY DEF TypeOK, WritesOnly
<1>3. Reverts(t, request) => request.operation = "revert"
  BY DEF Reverts
<1>4. CASE /\ Accepted(t, request)
           /\ request.operation \in {"create", "update"}
           /\ Register!SetSecret(k, request.write)
  <2>1. request.write \in Payloads
    BY <1>4 DEF Built
  <2> QED
    BY <1>1, <1>3, <1>4, <2>1, SetSecretWrites
<1>5. CASE request.operation = "delete" /\ Register!Delete(k)
  BY <1>1, <1>3, <1>5, DeleteWrites
<1>6. CASE request.operation = "revert" /\ Register!Revert(k)
  BY <1>1, <1>6, RevertWrites
<1>7. CASE /\ UNCHANGED <<record, undo>>
           /\ \/ ~Accepted(t, request)
              \/ request.operation = "health"
              \/ request.operation = "revert" /\ ~Reverts(t, request)
  BY <1>2, <1>3, <1>7
<1> QED
  BY <1>3, <1>4, <1>5, <1>6, <1>7 DEF Handles
-----------------------------------------------------------------------------
(* While a call has targets left, it is about to ask the first of them.      *)
LEMMA HeadOfRest ==
    ASSUME TypeOK, Sending
    PROVE  /\ Head(call.rest) \in Targets
           /\ Tail(call.rest) \in Seq(Targets)
           /\ Len(call.rest) > 0
  BY DEF TypeOK, Sending

(* Noting an answer keeps the types of the call and its request.            *)
LEMMA NoteTyped ==
    ASSUME TypeOK, Sending, NEW result \in Answers, Note(result)
    PROVE  /\ call'.request = call.request
           /\ call'.rest = Tail(call.rest)
           /\ call' \in [request : Requests, rest : Seq(Targets),
                         results : [Targets -> Answers \cup {"none"}]]
           /\ call'.results[Head(call.rest)] = result
           /\ \A t \in Targets \ {Head(call.rest)} :
                 call'.results[t] = call.results[t]
<1> DEFINE t == Head(call.rest)
           results == [call.results EXCEPT ![t] = result]
<1>1. t \in Targets /\ Tail(call.rest) \in Seq(Targets)
  BY HeadOfRest
<1>2. call.results \in [Targets -> Answers \cup {"none"}]
  BY DEF TypeOK
<1>3. /\ call'.request = call.request /\ call'.rest = Tail(call.rest)
      /\ call'.results = results
  BY DEF Note, TypeOK
<1> HIDE DEF t
<1>4. /\ results \in [Targets -> Answers \cup {"none"}]
      /\ results[t] = result
      /\ \A u \in Targets \ {t} : results[u] = call.results[u]
  BY <1>1, <1>2
<1>5. call' = [request |-> call.request, rest |-> Tail(call.rest),
               results |-> results]
  BY DEF Note, TypeOK, t
<1> HIDE DEF results
<1>6. call' \in [request : Requests, rest : Seq(Targets),
                 results : [Targets -> Answers \cup {"none"}]]
  BY <1>1, <1>4, <1>5 DEF TypeOK
<1> QED
  BY <1>3, <1>4, <1>6 DEF t

(* A propagation begins with a request the target can handle.               *)
LEMMA PropagateTyped ==
    ASSUME NEW operation \in Verbs, NEW client \in ClientIds,
           NEW hash \in Hashes \cup {NoHash}, NEW seeded \in BOOLEAN,
           NEW targets \in Seq(Targets),
           Propagate(operation, client, hash, seeded, targets)
    PROVE  /\ call' \in [request : Requests, rest : Seq(Targets),
                         results : [Targets -> Answers \cup {"none"}]]
           /\ Built(call'.request)
<1> DEFINE write == IF operation \in {"create", "update"}
                    THEN Payload(hash, seeded) ELSE Unset
<1>1. operation \in {"create", "update"} => write \in Payloads
  BY DEF Propagate, Resolves, Payloads
<1>2. write \in Payloads \cup {Unset}
  BY <1>1
<1> HIDE DEF write
<1>3. call' = [request |-> [operation |-> operation, client |-> client,
                            write |-> write],
               rest |-> targets, results |-> [t \in Targets |-> "none"]]
  BY DEF Propagate, write
<1> QED
  BY <1>1, <1>2, <1>3 DEF Requests, Built

(* The payloads of local hashes, which are sent and stored unseeded.         *)
LEMMA UnseededPayload ==
    ASSUME NEW hash \in Hashes
    PROVE  /\ Payload(hash, FALSE) \in Payloads
           /\ Created(Payload(hash, FALSE)) \in Records
<1>1. \A seeded \in BOOLEAN : Payload(hash, seeded) \in Payloads
  BY DEF Payloads
<1>2. Payload(hash, FALSE) \in Payloads
  BY <1>1, Zenon
<1> QED
  BY <1>2, PayloadStored

(* The types hold at first.                                                 *)
LEMMA TypeInit == Init => TypeInv
<1> SUFFICES ASSUME Init PROVE TypeInv
  OBVIOUS
<1> USE PropagationAssumption DEF Init
<1>1. \A hash \in LocalHashes \cup {SignedWith} : Created(Payload(hash, FALSE)) \in Records
  BY UnseededPayload
<1>2. local \in [ClientIds -> Records \cup {NoRecord}]
  <2>1. {NoRecord} \cup {Created(Payload(hash, FALSE)) :
                            hash \in LocalHashes \cup {SignedWith}}
        \subseteq Records \cup {NoRecord}
    BY <1>1, ZenonT(40)
  <2> QED
    BY <2>1
<1>3. record \in [Keys -> Records \cup {NoRecord}]
  <2>1. PICK start \in [Targets -> InitialTargets] :
            record = [k \in Keys |-> start[k[1]][k[2]]]
    OBVIOUS
  <2>2. \A k \in Keys : start[k[1]][k[2]] \in Records \cup {NoRecord}
    BY DEF Keys
  <2> QED
    BY <2>1, <2>2
<1>4. undo \in [Keys -> Hashes \cup {NoHash}]
  OBVIOUS
<1>5. call.request \in Requests /\ Built(call.request)
  BY DEF Requests, Verbs, Built
<1>6. call \in [request : Requests, rest : Seq(Targets),
                results : [Targets -> Answers \cup {"none"}]]
  BY <1>5
<1> QED
  BY <1>2, <1>3, <1>4, <1>5, <1>6 DEF TypeInv, TypeOK

(* Every step keeps the types.                                              *)
LEMMA TypeStep ==
    ASSUME TypeInv, [Next]_vars
    PROVE  TypeInv'
<1> USE PropagationAssumption
<1> DEFINE Stores == /\ record' \in [Keys -> Records \cup {NoRecord}]
                     /\ undo' \in [Keys -> Hashes \cup {NoHash}]
           CallTyped == /\ call' \in [request : Requests, rest : Seq(Targets),
                                      results : [Targets -> Answers \cup {"none"}]]
                        /\ Built(call'.request)
<1>1. \A t \in Targets : \A request : Built(request) /\ Handles(t, request) => Stores
  BY HandlesWrites DEF TypeInv, WritesOnly
<1>2. \A result \in Answers : Sending /\ Note(result) => CallTyped
  BY NoteTyped DEF TypeInv
<1>3. \A operation \in Verbs, client \in ClientIds, hash \in Hashes \cup {NoHash},
         seeded \in BOOLEAN, targets \in Seq(Targets) :
            Propagate(operation, client, hash, seeded, targets) => CallTyped
  BY PropagateTyped
<1>4. Sending => Head(call.rest) \in Targets
  BY HeadOfRest DEF TypeInv
<1>5. /\ UNCHANGED <<record, undo>> => Stores
      /\ UNCHANGED call => CallTyped
  BY DEF TypeInv, TypeOK
<1>6. \A c \in ClientIds : Hash(local[c]) \in Hashes \cup {NoHash}
  BY HashType DEF TypeInv, TypeOK
<1> HIDE DEF Stores, CallTyped
<1>7. SUFFICES /\ local' \in [ClientIds -> Records \cup {NoRecord}]
               /\ Stores
               /\ CallTyped
               /\ late' \subseteq Targets \X Requests
               /\ \A message \in late' : Built(message[2])
               /\ rotation' = NoRotation \/ rotation' \in Rotations
               /\ edits' \in 0..MaxEdits
  BY DEF TypeInv, TypeOK, Stores, CallTyped
<1> USE DEF TypeInv, TypeOK
<1>8. CASE Answered
  <2>1. Answer(Head(call.rest), call.request) \in Answers
    BY DEF Answer, Answers
  <2> QED
    BY <1>1, <1>2, <1>4, <1>8, <2>1 DEF Answered
<1>9. CASE Rejected
  <2>1. "rejected" \in Answers
    BY DEF Answers
  <2> QED
    BY <1>1, <1>2, <1>4, <1>5, <1>9, <2>1 DEF Rejected
<1>10. CASE GivenUp
  <2>1. "rejected" \in Answers
    BY DEF Answers
  <2>2. <<Head(call.rest), call.request>> \in Targets \X Requests
    BY <1>4, <1>10 DEF GivenUp
  <2>3. edits' \in 0..MaxEdits
    BY <1>10 DEF GivenUp
  <2> QED
    BY <1>2, <1>5, <1>10, <2>1, <2>2, <2>3 DEF GivenUp
<1>11. CASE ArrivesLate
  <2>1. PICK message \in late : /\ Handles(message[1], message[2])
                                /\ late' = late \ {message}
    BY <1>11 DEF ArrivesLate
  <2>2. message[1] \in Targets /\ Built(message[2])
    OBVIOUS
  <2> QED
    BY <1>1, <1>5, <1>11, <2>1, <2>2 DEF ArrivesLate
<1>12. CASE UndoExpires
  <2>1. PICK k \in Keys : Register!Forget(k)
    BY <1>12 DEF UndoExpires
  <2>2. record' = record /\ undo' = [undo EXCEPT ![k] = NoHash]
    BY <2>1 DEF Register!Forget, Register!UndoIs
  <2>3. Stores
    BY <2>2 DEF Stores
  <2> QED
    BY <1>5, <1>12, <2>3 DEF UndoExpires
<1>13. CASE RollBack
  <2>1. rotation \in Rotations
    BY <1>13 DEF RollBack
  <2>2. PICK n \in 1..Len(TargetList) :
            \E targets \in Bijection(1..n, {t \in Targets : call.results[t] = "accepted"}) :
               Propagate("revert", rotation.client, NoHash, FALSE, targets)
    BY <1>13 DEF RollBack
  <2>3. PICK targets \in Bijection(1..n, {t \in Targets : call.results[t] = "accepted"}) :
            Propagate("revert", rotation.client, NoHash, FALSE, targets)
    BY <2>2
  <2>4. targets \in Seq(Targets)
    <3>1. targets \in [1..n -> {t \in Targets : call.results[t] = "accepted"}]
      BY DEF Bijection, Injection, Surjection
    <3>2. n \in Nat
      OBVIOUS
    <3> QED
      BY <3>1, <3>2
  <2>5. CallTyped
    BY <1>3, <2>1, <2>3, <2>4 DEF Verbs, Rotations
  <2> QED
    BY <1>5, <1>13, <2>5 DEF RollBack
<1>14. CASE \E push \in Pipeline : Sync(push[1], push[2])
  <2>1. PICK push \in Pipeline : Sync(push[1], push[2])
    BY <1>14
  <2>2. push[1] \in Verbs /\ push[2] \in ClientIds
    BY DEF Pipeline, Verbs
  <2>3. CallTyped
    BY <1>3, <1>6, <2>1, <2>2 DEF Sync
  <2> QED
    BY <1>5, <2>1, <2>3 DEF Sync
<1>15. ASSUME NEW client \in ClientIds, NEW operation \in Operations,
              Other(operation, client)
       PROVE  <1>7!1
  <2>1. CallTyped
    <3>1. operation \in Verbs
      BY DEF Verbs
    <3>2. Propagate(operation, client, NoHash, FALSE, TargetList)
      BY <1>15 DEF Other
    <3> QED
      BY <1>3, <3>1, <3>2
  <2>2. edits' \in 0..MaxEdits
    BY <1>15 DEF Other
  <2> QED
    BY <1>5, <1>15, <2>1, <2>2 DEF Other
<1>16. ASSUME NEW client \in ClientIds, NEW hash \in LocalHashes,
              LocalRotation(client, hash)
       PROVE  <1>7!1
  <2>1. Created(Payload(hash, FALSE)) \in Records
    BY UnseededPayload
  <2>2. local' \in [ClientIds -> Records \cup {NoRecord}]
    BY <1>16, <2>1 DEF LocalRotation
  <2>3. edits' \in 0..MaxEdits
    BY <1>16 DEF LocalRotation
  <2> QED
    BY <1>5, <1>16, <2>2, <2>3 DEF LocalRotation
<1>17. ASSUME NEW client \in ClientIds, NEW hash \in PushHashes,
              Rotation(client, hash)
       PROVE  <1>7!1
  <2>1. CallTyped
    BY <1>3, <1>17 DEF Rotation, Verbs
  <2>2. \A t \in Targets : Hash(record[<<t, client>>]) \in Hashes \cup {NoHash}
    BY HashType DEF Keys
  <2>3. rotation' \in Rotations
    BY <1>17, <2>2 DEF Rotation, Rotations
  <2>4. edits' \in 0..MaxEdits
    BY <1>17 DEF Rotation
  <2> QED
    BY <1>5, <1>17, <2>1, <2>3, <2>4 DEF Rotation
<1>18. CASE UNCHANGED vars
  BY <1>5, <1>18 DEF vars
<1> QED
  BY <1>8, <1>9, <1>10, <1>11, <1>12, <1>13, <1>14, <1>15, <1>16, <1>17, <1>18
     DEF Next

(* Everything the propagation and its targets hold has its type.            *)
THEOREM PropagationTyped == Spec => []TypeOK
<1>1. TypeInv => TypeOK
  BY DEF TypeInv
<1> QED
  BY <1>1, TypeInit, TypeStep, PTL DEF Spec
-----------------------------------------------------------------------------
(* The targets a call has not asked yet.                                    *)
Remaining == {call.rest[i] : i \in 1..Len(call.rest)}

HashOf(t) == Hash(record[<<t, rotation.client>>])

(* A target has the hash of the rotation, and a way back if it had another. *)
TookRotation(t) ==
    /\ HashOf(t) = rotation.hash
    /\ rotation.before[t] # rotation.hash =>
          undo[<<t, rotation.client>>] \in {rotation.before[t], NoHash}

(* No request that was given up can still reach the target.                 *)
Undisturbed(t) == \A message \in late : message[1] # t

(* Where a target stands in a rotation or in its rollback.                  *)
Follows(t) ==
    /\ t \in Remaining => call.results[t] = "none" /\ Undisturbed(t)
    /\ call.results[t] \in {"accepted", "reverted"} => Undisturbed(t)
    /\ call.request.operation = "update" =>
          /\ t \in Remaining => HashOf(t) = rotation.before[t]
          /\ call.results[t] = "accepted" => TookRotation(t)
    /\ call.request.operation = "revert" =>
          /\ t \in Remaining => TookRotation(t)
          /\ call.results[t] = "reverted" /\ rotation.before[t] # rotation.hash =>
                HashOf(t) = rotation.before[t]

(* The call in progress is the rotation or its rollback.                    *)
OfRotation ==
    /\ call.request.client = rotation.client
    /\ \/ /\ call.request.operation = "update"
          /\ call.request.write = Payload(rotation.hash, TRUE)
       \/ call.request.operation = "revert"
    /\ IsInjective(call.rest)

(* From a rotation that began with no request under way to the end of its   *)
(* rollback, every target follows.                                          *)
RotationInv ==
    rotation # NoRotation /\ rotation.quiet =>
        OfRotation /\ \A t \in Targets : Follows(t)

-----------------------------------------------------------------------------
(* The loop over the targets leaves behind the one it has asked.            *)
LEMMA RestMoves ==
    ASSUME TypeOK, Sending, IsInjective(call.rest), call'.rest = Tail(call.rest)
    PROVE  /\ IsInjective(call'.rest)
           /\ Head(call.rest) \in Remaining
           /\ Remaining' = Remaining \ {Head(call.rest)}
<1>1. call.rest \in Seq(Targets) /\ Len(call.rest) > 0 /\ Len(call.rest) \in Nat
  BY HeadOfRest DEF TypeOK
<1> DEFINE rest == call.rest
           tail == Tail(rest)
<1> HIDE DEF rest
<1>2. /\ tail \in Seq(Targets) /\ Len(tail) = Len(rest) - 1
      /\ \A i \in 1..Len(tail) : tail[i] = rest[i + 1]
      /\ Head(rest) = rest[1]
      /\ DOMAIN tail = 1..Len(tail) /\ DOMAIN rest = 1..Len(rest)
  BY <1>1 DEF rest
<1>3. \A i, j \in 1..Len(rest) : rest[i] = rest[j] => i = j
  BY <1>2 DEF IsInjective, rest
<1> HIDE DEF tail
<1>4. IsInjective(tail)
  BY <1>1, <1>2, <1>3 DEF IsInjective, rest
<1>5. {tail[i] : i \in 1..Len(tail)} = {rest[i] : i \in 1..Len(rest)} \ {Head(rest)}
  <2>1. \A i \in 1..Len(tail) : i + 1 \in 1..Len(rest) /\ i + 1 # 1
    BY <1>1, <1>2 DEF rest
  <2>2. \A i \in 1..Len(rest) : i # 1 => i - 1 \in 1..Len(tail) /\ (i - 1) + 1 = i
    BY <1>1, <1>2 DEF rest
  <2>3. 1 \in 1..Len(rest)
    BY <1>1 DEF rest
  <2>4. ASSUME NEW i \in 1..Len(tail)
        PROVE  tail[i] \in {rest[j] : j \in 1..Len(rest)} \ {Head(rest)}
    BY <1>2, <1>3, <2>1, <2>3
  <2>5. ASSUME NEW j \in 1..Len(rest), rest[j] # Head(rest)
        PROVE  rest[j] \in {tail[i] : i \in 1..Len(tail)}
    <3>1. j # 1
      BY <1>2, <2>5
    <3>2. j - 1 \in 1..Len(tail) /\ tail[j - 1] = rest[j]
      BY <1>2, <2>2, <3>1
    <3> QED
      BY <3>2
  <2> QED
    BY <2>4, <2>5
<1>6. Remaining = {rest[i] : i \in 1..Len(rest)}
  BY DEF Remaining, rest
<1>7. call'.rest = tail
  BY DEF rest, tail
<1>8. Remaining' = {tail[i] : i \in 1..Len(tail)}
  BY <1>7 DEF Remaining
<1>9. rest[1] \in Remaining
  BY <1>1, <1>6 DEF rest
<1> QED
  BY <1>2, <1>4, <1>5, <1>6, <1>7, <1>8, <1>9 DEF rest

(* A target that a step does not touch stands where it stood.               *)
LEMMA StandsStill ==
    ASSUME NEW t \in Targets, Follows(t),
           UNCHANGED rotation, call'.request = call.request,
           call'.results[t] = call.results[t],
           t \in Remaining' => t \in Remaining,
           Undisturbed(t) => Undisturbed(t)',
           \/ record'[<<t, rotation.client>>] = record[<<t, rotation.client>>]
           \/ ~(t \in Remaining \/ call.results[t] \in {"accepted", "reverted"}),
           \/ undo'[<<t, rotation.client>>] = undo[<<t, rotation.client>>]
           \/ undo'[<<t, rotation.client>>] = NoHash
           \/ ~(t \in Remaining \/ call.results[t] \in {"accepted", "reverted"})
    PROVE  Follows(t)'
<1> DEFINE Watched == t \in Remaining \/ call.results[t] \in {"accepted", "reverted"}
<1>1. Watched => HashOf(t)' = HashOf(t)
  BY DEF HashOf
<1>2. Watched /\ TookRotation(t) => TookRotation(t)'
  <2>1. Watched => undo'[<<t, rotation.client>>] \in {undo[<<t, rotation.client>>], NoHash}
    OBVIOUS
  <2> QED
    BY <1>1, <2>1 DEF TookRotation
<1> QED
  BY <1>1, <1>2 DEF Follows

(* The target that answers, too: it took the rotation, or restored its hash. *)
LEMMA AnswererFollows ==
    ASSUME TypeInv, Sending, OfRotation, rotation \in Rotations,
           NEW t \in Targets, t = Head(call.rest), Follows(t),
           UNCHANGED <<rotation, late>>,
           Handles(t, call.request), Note(Answer(t, call.request))
    PROVE  Follows(t)'
<1> DEFINE k == <<t, rotation.client>>
           answer == Answer(t, call.request)
<1>1. t \in Targets /\ answer \in Answers
  BY DEF Answer, Answers
<1>2. /\ call'.request = call.request /\ call'.results[t] = answer
      /\ call'.rest = Tail(call.rest)
  BY <1>1, NoteTyped DEF TypeInv
<1>3. t \notin Remaining' /\ t \in Remaining
  BY <1>2, RestMoves DEF TypeInv, OfRotation
<1>4. Undisturbed(t)
  BY <1>3 DEF Follows
<1>5. k \in Keys /\ record[k] \in Records \cup {NoRecord}
  BY <1>1 DEF Keys, Rotations, TypeInv, TypeOK
<1>6. call.request.client = rotation.client
  BY DEF OfRotation
<1>7. Built(call.request)
  BY DEF TypeInv
<1> HIDE DEF k, answer
<1>8. /\ call.request.operation = "update" /\ Accepted(t, call.request) =>
            /\ Hash(record'[k]) = call.request.write.hash
            /\ NeedsBackup(record[k], call.request.write) =>
                  undo'[k] \in {Hash(record[k]), NoHash}
      /\ Accepted(t, call.request) /\ Reverts(t, call.request) =>
            undo[k] # NoHash /\ Hash(record'[k]) = undo[k]
  <2>1. TypeOK /\ Handles(t, call.request)
    BY DEF TypeInv
  <2> QED
    BY <1>1, <1>6, <1>7, <2>1, HandlesWrites DEF k
<1>9. answer = "accepted" => Accepted(t, call.request)
  BY DEF answer, Answer
<1>10. answer = "reverted" => Accepted(t, call.request) /\ Reverts(t, call.request)
  BY DEF answer, Answer
<1>11. HashOf(t)' = Hash(record'[k]) /\ HashOf(t) = Hash(record[k])
  BY DEF HashOf, k
<1>12. Undisturbed(t)'
  BY <1>4 DEF Undisturbed
<1>13. CASE call.request.operation = "update" /\ call.request.write = Payload(rotation.hash, TRUE)
  <2>1. /\ call.request.write.hash = rotation.hash
        /\ call.request.write.fromDbSeed = TRUE
    BY <1>13 DEF Payload
  <2>2. Hash(record[k]) = rotation.before[t]
    BY <1>3, <1>11, <1>13 DEF Follows
  <2>3. ASSUME answer = "accepted"
        PROVE  TookRotation(t)'
    <3>1. record[k] # NoRecord
      BY <1>6, <1>9, <1>13, <2>3 DEF Accepted, Listed, k
    <3>2. rotation.before[t] # rotation.hash => NeedsBackup(record[k], call.request.write)
      BY <1>5, <2>1, <2>2, <3>1 DEF NeedsBackup, Hash
    <3> QED
      BY <1>8, <1>9, <1>11, <1>13, <2>1, <2>2, <2>3, <3>2 DEF TookRotation, k
  <2> QED
    BY <1>2, <1>3, <1>12, <1>13, <2>3 DEF Follows
<1>14. CASE call.request.operation = "revert"
  <2>1. TookRotation(t)
    BY <1>3, <1>14 DEF Follows
  <2>2. answer = "reverted" /\ rotation.before[t] # rotation.hash =>
            HashOf(t)' = rotation.before[t]
    BY <1>8, <1>10, <1>11, <2>1 DEF TookRotation, k
  <2> QED
    BY <1>2, <1>3, <1>12, <1>14, <2>2 DEF Follows
<1> QED
  BY <1>13, <1>14 DEF OfRotation

(* One round of the loop: whoever is not asked follows as before, and so    *)
(* does a target whose answer did not come.                                 *)
LEMMA OneRound ==
    ASSUME TypeInv, Sending, OfRotation, rotation \in Rotations,
           \A u \in Targets : Follows(u),
           NEW t \in Targets, t = Head(call.rest), NEW result \in Answers,
           Note(result), WritesOnly(<<t, rotation.client>>),
           UNCHANGED rotation, late' \subseteq late \cup {<<t, call.request>>}
    PROVE  /\ OfRotation'
           /\ \A u \in Targets \ {t} : Follows(u)'
           /\ result = "rejected" => Follows(t)'
<1>1. /\ call'.request = call.request /\ call'.rest = Tail(call.rest)
      /\ call'.results[t] = result
      /\ \A u \in Targets \ {t} : call'.results[u] = call.results[u]
  BY NoteTyped DEF TypeInv
<1>2. IsInjective(call'.rest) /\ Remaining' = Remaining \ {t}
  BY <1>1, RestMoves DEF TypeInv, OfRotation
<1>3. OfRotation'
  BY <1>1, <1>2 DEF OfRotation
<1>4. ASSUME NEW u \in Targets \ {t}
      PROVE  Follows(u)'
  <2>1. u \in Remaining' => u \in Remaining
    BY <1>2
  <2>2. Undisturbed(u) => Undisturbed(u)'
    BY DEF Undisturbed
  <2>3. <<u, rotation.client>> \in Keys \ {<<t, rotation.client>>}
    BY DEF Keys, Rotations
  <2>4. /\ record'[<<u, rotation.client>>] = record[<<u, rotation.client>>]
        /\ undo'[<<u, rotation.client>>] = undo[<<u, rotation.client>>]
    BY <2>3 DEF WritesOnly
  <2> QED
    BY <1>1, <2>1, <2>2, <2>4, StandsStill
<1>5. result = "rejected" => Follows(t)'
  BY <1>1, <1>2, <1>3 DEF Follows, OfRotation
<1> QED
  BY <1>3, <1>4, <1>5

(* Nothing about a rotation changes when its variables do not.              *)
LEMMA NothingMoves ==
    ASSUME OfRotation, \A t \in Targets : Follows(t),
           UNCHANGED <<record, undo, call, late, rotation>>
    PROVE  OfRotation' /\ \A t \in Targets : Follows(t)'
<1>1. OfRotation' /\ Remaining' = Remaining
  BY DEF OfRotation, Remaining
<1>2. ASSUME NEW t \in Targets
      PROVE  Follows(t)'
  <2>1. Undisturbed(t) => Undisturbed(t)'
    BY DEF Undisturbed
  <2> QED
    BY <1>1, <2>1, StandsStill
<1> QED
  BY <1>1, <1>2

(* The lists a rollback goes through hold each accepting target once.       *)
LEMMA RollbackList ==
    ASSUME NEW n \in Nat, NEW S, NEW targets \in Bijection(1..n, S)
    PROVE  /\ targets \in Seq(S) /\ IsInjective(targets)
           /\ {targets[i] : i \in 1..Len(targets)} = S
<1>1. /\ targets \in [1..n -> S]
      /\ \A i, j \in 1..n : targets[i] = targets[j] => i = j
      /\ \A t \in S : \E i \in 1..n : targets[i] = t
  BY DEF Bijection, Injection, Surjection, IsInjective
<1>2. targets \in Seq(S) /\ Len(targets) = n /\ DOMAIN targets = 1..n
  BY <1>1
<1> QED
  BY <1>1, <1>2 DEF IsInjective

(* Every step keeps the targets following.                                  *)
LEMMA RotationStep ==
    ASSUME TypeInv, RotationInv, [Next]_vars
    PROVE  RotationInv'
<1> SUFFICES ASSUME rotation' # NoRotation, rotation'.quiet
             PROVE  OfRotation' /\ \A t \in Targets : Follows(t)'
  BY DEF RotationInv
<1> DEFINE Goes == OfRotation /\ rotation \in Rotations /\ \A t \in Targets : Follows(t)
<1>1. UNCHANGED rotation => Goes
  BY DEF RotationInv, TypeInv
<1>2. Sending => Head(call.rest) \in Targets
  BY HeadOfRest DEF TypeInv
<1>3. UNCHANGED <<record, undo>> => \A k : WritesOnly(k)
  BY DEF TypeInv, TypeOK, WritesOnly
<1>4. Goes => call.request.client = rotation.client /\ Built(call.request)
  BY DEF TypeInv, OfRotation
<1>5. ASSUME Goes, NEW t \in Targets, Handles(t, call.request)
      PROVE  WritesOnly(<<t, rotation.client>>)
  BY <1>4, <1>5, HandlesWrites DEF TypeInv
<1>6. CASE Answered
  <2> DEFINE t == Head(call.rest)
  <2>1. /\ Sending /\ UNCHANGED <<rotation, late>> /\ t \in Targets
        /\ Handles(t, call.request) /\ Note(Answer(t, call.request))
    BY <1>2, <1>6 DEF Answered
  <2>2. Answer(t, call.request) \in Answers
    BY DEF Answer, Answers
  <2>3. Goes /\ WritesOnly(<<t, rotation.client>>)
    BY <1>1, <1>5, <2>1
  <2>4. OfRotation' /\ \A u \in Targets \ {t} : Follows(u)'
    BY <2>1, <2>2, <2>3, OneRound
  <2>5. ASSUME NEW u \in Targets, u = t
        PROVE  Follows(u)'
    BY <2>1, <2>3, <2>5, AnswererFollows
  <2> HIDE DEF t
  <2> QED
    BY <2>4, <2>5
<1>7. CASE Rejected \/ GivenUp
  <2> DEFINE t == Head(call.rest)
  <2>1. /\ Sending /\ UNCHANGED rotation /\ t \in Targets
        /\ late' \subseteq late \cup {<<t, call.request>>}
        /\ UNCHANGED <<record, undo>> \/ Handles(t, call.request)
        /\ Note("rejected")
    BY <1>2, <1>7 DEF Rejected, GivenUp
  <2>2. "rejected" \in Answers
    BY DEF Answers
  <2>3. Goes /\ WritesOnly(<<t, rotation.client>>)
    BY <1>1, <1>3, <1>5, <2>1
  <2>4. /\ OfRotation' /\ \A u \in Targets \ {t} : Follows(u)'
        /\ \A u \in {t} : Follows(u)'
    <3>1. ASSUME NEW u \in Targets, u = t
          PROVE  OfRotation' /\ (\A v \in Targets \ {u} : Follows(v)') /\ Follows(u)'
      BY <2>1, <2>2, <2>3, <3>1, OneRound
    <3> HIDE DEF t
    <3> QED
      BY <2>1, <3>1
  <2> HIDE DEF t
  <2> QED
    BY <2>4
<1>8. CASE ArrivesLate
  <2>1. PICK message \in late : /\ Handles(message[1], message[2])
                                /\ late' = late \ {message}
    BY <1>8 DEF ArrivesLate
  <2>2. UNCHANGED <<call, rotation>>
    BY <1>8 DEF ArrivesLate
  <2>3. Goes
    BY <1>1, <2>2
  <2>4. message[1] \in Targets /\ Built(message[2])
    BY DEF TypeInv, TypeOK
  <2>5. WritesOnly(<<message[1], message[2].client>>)
    BY <2>1, <2>4, HandlesWrites DEF TypeInv
  <2>6. OfRotation'
    BY <2>2, <2>3 DEF OfRotation
  <2>7. ASSUME NEW u \in Targets
        PROVE  Follows(u)'
    <3>1. Undisturbed(u) => Undisturbed(u)'
      BY <2>1 DEF Undisturbed
    <3>2. Remaining' = Remaining
      BY <2>2 DEF Remaining
    <3>3. CASE u = message[1]
      <4>1. ~Undisturbed(u)
        BY <3>3 DEF Undisturbed
      <4>2. ~(u \in Remaining \/ call.results[u] \in {"accepted", "reverted"})
        BY <2>3, <4>1 DEF Follows
      <4> QED
        BY <2>2, <2>3, <3>1, <3>2, <4>2, StandsStill
    <3>4. CASE u # message[1]
      <4>1. <<u, rotation.client>> \in Keys \ {<<message[1], message[2].client>>}
        BY <2>3, <3>4 DEF Keys, Rotations
      <4> QED
        BY <2>2, <2>3, <2>5, <3>1, <3>2, <4>1, StandsStill DEF WritesOnly
    <3> QED
      BY <3>3, <3>4
  <2> QED
    BY <2>6, <2>7
<1>9. CASE UndoExpires
  <2>1. PICK k \in Keys : Register!Forget(k)
    BY <1>9 DEF UndoExpires
  <2>2. record' = record /\ undo' = [undo EXCEPT ![k] = NoHash]
    BY <2>1 DEF Register!Forget, Register!UndoIs
  <2>3. UNCHANGED <<call, late, rotation>> /\ Goes
    BY <1>1, <1>9 DEF UndoExpires
  <2>4. \A key \in Keys : undo'[key] \in {undo[key], NoHash}
    BY <2>2 DEF TypeInv, TypeOK
  <2>5. OfRotation' /\ Remaining' = Remaining
    BY <2>3 DEF OfRotation, Remaining
  <2>6. ASSUME NEW u \in Targets
        PROVE  Follows(u)'
    <3>1. <<u, rotation.client>> \in Keys
      BY <2>3 DEF Keys, Rotations
    <3>2. Undisturbed(u)' <=> Undisturbed(u)
      BY <2>3 DEF Undisturbed
    <3> QED
      BY <2>2, <2>3, <2>4, <2>5, <3>1, <3>2, StandsStill
  <2> QED
    BY <2>5, <2>6
<1>10. CASE RollBack
  <2> DEFINE accepted == {t \in Targets : call.results[t] = "accepted"}
  <2>1. PICK n \in 1..Len(TargetList) :
            \E targets \in Bijection(1..n, accepted) :
               Propagate("revert", rotation.client, NoHash, FALSE, targets)
    BY <1>10 DEF RollBack
  <2>2. PICK targets \in Bijection(1..n, accepted) :
            Propagate("revert", rotation.client, NoHash, FALSE, targets)
    BY <2>1
  <2>3. n \in Nat
    OBVIOUS
  <2>4. /\ call'.request.operation = "revert"
        /\ call'.request.client = rotation.client
        /\ call'.rest = targets
        /\ call'.results = [t \in Targets |-> "none"]
    BY <2>2 DEF Propagate
  <2>5. /\ UNCHANGED <<record, undo, late, rotation>>
        /\ call.request.operation = "update" /\ Goes
    BY <1>1, <1>10 DEF RollBack
  <2>6. IsInjective(targets) /\ {targets[i] : i \in 1..Len(targets)} = accepted
    <3>1. accepted \subseteq Targets
      OBVIOUS
    <3> HIDE DEF accepted
    <3> QED
      BY <2>3, <3>1, RollbackList
  <2>7. OfRotation'
    <3>1. IsInjective(call'.rest)
      BY <2>4, <2>6
    <3> QED
      BY <2>4, <2>5, <3>1 DEF OfRotation
  <2>8. Remaining' = accepted
    BY <2>4, <2>6 DEF Remaining
  <2>9. ASSUME NEW u \in Targets
        PROVE  Follows(u)'
    <3>1. u \in accepted => TookRotation(u) /\ Undisturbed(u)
      BY <2>5 DEF Follows
    <3>2. u \in accepted => TookRotation(u)' /\ Undisturbed(u)'
      BY <2>5, <3>1 DEF TookRotation, Undisturbed, HashOf
    <3>3. call'.results[u] = "none"
      BY <2>4
    <3> HIDE DEF accepted
    <3> QED
      BY <2>4, <2>8, <3>2, <3>3 DEF Follows
  <2> QED
    BY <2>7, <2>9
<1>11. CASE \E push \in Pipeline : Sync(push[1], push[2])
  BY <1>11 DEF Sync
<1>12. ASSUME NEW client \in ClientIds, NEW operation \in Operations,
              Other(operation, client)
       PROVE  FALSE
  BY <1>12 DEF Other
<1>13. CASE \E client \in ClientIds, hash \in LocalHashes : LocalRotation(client, hash)
  <2>1. UNCHANGED <<record, undo, call, late, rotation>>
    BY <1>13 DEF LocalRotation
  <2> QED
    BY <1>1, <2>1, NothingMoves
<1>14. ASSUME NEW client \in ClientIds, NEW hash \in PushHashes, Rotation(client, hash)
       PROVE  OfRotation' /\ \A t \in Targets : Follows(t)'
  <2>1. Propagate("update", client, hash, TRUE, TargetList)
    BY <1>14 DEF Rotation
  <2>2. /\ call'.request.operation = "update"
        /\ call'.request.client = client
        /\ call'.request.write = Payload(hash, TRUE)
        /\ call'.rest = TargetList
        /\ call'.results = [t \in Targets |-> "none"]
    BY <2>1 DEF Propagate
  <2>3. /\ rotation'.client = client /\ rotation'.hash = hash
        /\ rotation'.before = [t \in Targets |-> Hash(record[<<t, client>>])]
        /\ UNCHANGED <<record, undo, late>>
    BY <1>14 DEF Rotation
  <2>4. late' = {}
    BY <1>14 DEF Rotation
  <2>5. OfRotation'
    <3>1. IsInjective(call'.rest)
      BY <2>2, PropagationAssumption
    <3> QED
      BY <2>2, <2>3, <3>1 DEF OfRotation
  <2>6. ASSUME NEW u \in Targets
        PROVE  Follows(u)'
    <3>1. Undisturbed(u)'
      BY <2>4 DEF Undisturbed
    <3>2. HashOf(u)' = rotation'.before[u]
      BY <2>3 DEF HashOf
    <3>3. call'.results[u] = "none"
      BY <2>2
    <3> QED
      BY <2>2, <3>1, <3>2, <3>3 DEF Follows
  <2> QED
    BY <2>5, <2>6
<1>15. CASE UNCHANGED vars
  <2>1. UNCHANGED <<record, undo, call, late, rotation>>
    BY <1>15 DEF vars
  <2> QED
    BY <1>1, <2>1, NothingMoves
<1> QED
  BY <1>6, <1>7, <1>8, <1>9, <1>10, <1>11, <1>12, <1>13, <1>14, <1>15 DEF Next

(* A target that reports a rotation reverted holds again the hash it held   *)
(* before, whatever the network did to the other targets.                   *)
THEOREM RollbackExact == Spec => []RollbackRestores
<1>1. Init => RotationInv
  BY DEF Init, RotationInv
<1>2. TypeInv /\ RotationInv /\ [Next]_vars => RotationInv'
  BY RotationStep
<1>3. RotationInv => RollbackRestores
  BY DEF RotationInv, RollbackRestores, Follows, HashOf
<1> QED
  BY <1>1, <1>2, <1>3, TypeInit, TypeStep, PTL DEF Spec
===============================================================================
