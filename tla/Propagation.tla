----------------------------- MODULE Propagation -----------------------------
(***************************************************************************)
(* propagateClientToApis: one API pushes credentials to the management      *)
(* routes of others, one target after another, over a network that loses    *)
(* requests and replies and may deliver a request long after its sender has *)
(* given it up.                                                             *)
(*                                                                         *)
(* A target handles a request in one step: its stores are a                 *)
(* CredentialRegister, which is what the clients factory implements for     *)
(* callers that take turns.  The application that uses the function is      *)
(* external: it pushes its local credentials again and again (the pipeline  *)
(* of the architecture document), and now and then rotates one with an      *)
(* explicit hash and rolls the rotation back where it was accepted.  It     *)
(* awaits one propagation before it starts the next.                        *)
(***************************************************************************)
EXTENDS CredentialRecords, Integers, Sequences, Functions

CONSTANTS Targets,
          TargetList,   \* options.targets, a sequence
          ClientIds,
          BootstrapId,  \* the signer of every propagation
          SignedWith,   \* the secret hash the signed client captured
          NoHash,       \* no secretHash given and none stored locally
          NoRotation,
          LocalHashes,  \* the hashes the source stores for its other clients,
          FirstHashes,  \* at first some of them
          PushHashes,   \* the hashes it rotates to explicitly
          Operations,   \* what else the application propagates
          InitialTargets, \* what a target may hold at first
          MaxEdits      \* bound: operations of the application, late requests

VARIABLES local,    \* the credential store of the source
          record,   \* the credential stores of the targets
          undo,     \* what a revert restores there
          call,     \* the propagation in progress, or the last one
          late,     \* requests given up that are still on their way
          rotation, \* history: the rotation the application may roll back
          edits     \* counter of the bound MaxEdits

vars == <<local, record, undo, call, late, rotation, edits>>

-----------------------------------------------------------------------------
Keys == Targets \X ClientIds

Hash(r) == IF r = NoRecord THEN NoHash ELSE r.hash

(* The payload: the hash, never the secret; fromDbSeed only when true, which *)
(* the target reads as false when it is missing.                            *)
Payload(hash, seeded) ==
    [hash |-> hash, expiresAt |-> Unset, allowedIps |-> {},
     fromDbSeed |-> seeded, purpose |-> Unset]

Payloads == {Payload(hash, seeded) : hash \in Hashes, seeded \in BOOLEAN}

ASSUME PropagationAssumption ==
    /\ BootstrapId \in ClientIds
    /\ SignedWith \in Hashes /\ NoHash \notin Hashes
    /\ LocalHashes \subseteq Hashes /\ PushHashes \subseteq Hashes
    /\ FirstHashes \subseteq LocalHashes
    /\ Operations \subseteq {"health", "delete"}
    /\ MaxEdits \in Nat
    /\ TargetList \in Seq(Targets) /\ IsInjective(TargetList)
    /\ InitialTargets \subseteq [ClientIds -> Records \cup {NoRecord}]

Register == INSTANCE CredentialRegister WITH
                WriteSet <- Payloads,
                InitialRecords <- {NoRecord}

Verbs   == {"create", "update", "revert", "delete", "health"}
Answers == {"accepted", "reverted", "refused", "rejected"}

Requests == [operation : Verbs, client : ClientIds,
             write : Payloads \cup {Unset}]

Sending == call.rest # <<>>

-----------------------------------------------------------------------------
(* The management route of a target, and how the sender reads its answer.   *)
Listed(t) == {c \in ClientIds : record[<<t, c>>] # NoRecord}

Verified(t) == Hash(record[<<t, BootstrapId>>]) = SignedWith

(* Mutant: an empty target asks for a signature too.                        *)
AdmittedMutant(t, request) == Verified(t)

(* A target without credentials takes the seed and the probe unsigned.      *)
Admitted(t, request) ==
    IF Listed(t) # {}
    THEN Verified(t)
    ELSE \/ request.operation = "health"
         \/ request.operation = "create" /\ request.client = BootstrapId

Accepted(t, request) ==
    /\ Admitted(t, request)
    /\ request.operation = "create" => request.client \notin Listed(t)
    /\ request.operation \in {"update", "delete"} => request.client \in Listed(t)

Reverts(t, request) ==
    /\ request.operation = "revert"
    /\ record[<<t, request.client>>] # NoRecord
    /\ undo[<<t, request.client>>] # NoHash

(* What the target does with a request.                                     *)
Handles(t, request) ==
    LET k == <<t, request.client>> IN
    IF Accepted(t, request)
    THEN \/ /\ request.operation \in {"create", "update"}
            /\ Register!SetSecret(k, request.write)
         \/ request.operation = "delete" /\ Register!Delete(k)
         \/ Reverts(t, request) /\ Register!Revert(k)
         \/ /\ \/ request.operation = "health"
               \/ request.operation = "revert" /\ ~Reverts(t, request)
            /\ UNCHANGED <<record, undo>>
    ELSE UNCHANGED <<record, undo>>

Answer(t, request) ==
    IF ~Accepted(t, request) THEN "refused"
    ELSE IF Reverts(t, request) THEN "reverted" ELSE "accepted"

-----------------------------------------------------------------------------
(* Mutant: a client that is not stored locally is sent without a hash.      *)
ResolvesMutant(operation, hash) == TRUE

(* An operation that carries a hash needs one, given or stored locally.     *)
Resolves(operation, hash) == operation \in {"create", "update"} => hash # NoHash

(* The call reads what it needs locally and builds the request once, for    *)
(* all its targets.                                                         *)
Propagate(operation, client, hash, seeded, targets) ==
    /\ ~Sending
    /\ targets # <<>>
    /\ Resolves(operation, hash)
    /\ call' = [request |-> [operation |-> operation, client |-> client,
                             write |-> IF operation \in {"create", "update"}
                                       THEN Payload(hash, seeded) ELSE Unset],
                rest    |-> targets,
                results |-> [t \in Targets |-> "none"]]

(* Mutant: a rejected fetch leaves the answer of the target before it.      *)
NoteMutant(result) ==
    LET reverted == \E t \in Targets : call.results[t] = "reverted"
    IN  call' = [call EXCEPT
                   !.results[Head(call.rest)] =
                       IF result = "rejected" /\ reverted THEN "reverted" ELSE result,
                   !.rest = Tail(call.rest)]

(* The result of a target is noted and the loop goes on.                    *)
Note(result) ==
    call' = [call EXCEPT !.results[Head(call.rest)] = result,
                         !.rest = Tail(call.rest)]

(* The request is handled and its answer arrives.                           *)
Answered ==
    /\ Sending
    /\ Handles(Head(call.rest), call.request)
    /\ Note(Answer(Head(call.rest), call.request))
    /\ UNCHANGED <<local, late, rotation, edits>>

(* fetch rejects; the request was lost, or its answer.                      *)
Rejected ==
    /\ Sending
    /\ \/ UNCHANGED <<record, undo>>
       \/ Handles(Head(call.rest), call.request)
    /\ Note("rejected")
    /\ UNCHANGED <<local, late, rotation, edits>>

(* fetch rejects; the request has not arrived yet.                          *)
GivenUp ==
    /\ Sending
    /\ edits < MaxEdits
    /\ edits' = edits + 1
    /\ late' = late \cup {<<Head(call.rest), call.request>>}
    /\ Note("rejected")
    /\ UNCHANGED <<local, record, undo, rotation>>

ArrivesLate ==
    /\ \E message \in late : /\ Handles(message[1], message[2])
                             /\ late' = late \ {message}
    /\ UNCHANGED <<local, call, rotation, edits>>

-----------------------------------------------------------------------------
(* What the application pushes again and again: every client, created where *)
(* it is missing and updated where it is not.  Its own signer it creates.   *)
Pipeline == ({"create", "update"} \X ClientIds) \ {<<"update", BootstrapId>>}

(* The application: it pushes the credentials it stores, by name ...        *)
Sync(operation, client) ==
    /\ Propagate(operation, client, Hash(local[client]), FALSE, TargetList)
    /\ rotation' = NoRotation
    /\ UNCHANGED <<local, record, undo, late, edits>>

Other(operation, client) ==
    /\ edits < MaxEdits
    /\ edits' = edits + 1
    /\ operation = "delete" => client # BootstrapId
    /\ Propagate(operation, client, NoHash, FALSE, TargetList)
    /\ rotation' = NoRotation
    /\ UNCHANGED <<local, record, undo, late>>

(* ... stores another hash locally ...                                      *)
LocalRotation(client, hash) ==
    /\ edits < MaxEdits
    /\ edits' = edits + 1
    /\ client # BootstrapId /\ hash # Hash(local[client])
    /\ local' = [local EXCEPT ![client] = Created(Payload(hash, FALSE))]
    /\ UNCHANGED <<record, undo, call, late, rotation>>

(* ... rotates a client with a hash of its own, so that it can be undone ...*)
Rotation(client, hash) ==
    /\ edits < MaxEdits
    /\ edits' = edits + 1
    /\ client # BootstrapId
    /\ Propagate("update", client, hash, TRUE, TargetList)
    /\ rotation' = [client |-> client, hash |-> hash, quiet |-> late = {},
                    before |-> [t \in Targets |-> Hash(record[<<t, client>>])]]
    /\ UNCHANGED <<local, record, undo, late>>

(* ... and has it reverted by the targets that accepted it, in any order.   *)
RollBack ==
    /\ rotation # NoRotation /\ call.request.operation = "update"
    /\ \E n \in 1..Len(TargetList) :
          \E targets \in Bijection(1..n, {t \in Targets : call.results[t] = "accepted"}) :
             Propagate("revert", rotation.client, NoHash, FALSE, targets)
    /\ UNCHANGED <<local, record, undo, late, rotation, edits>>

(* A backup expires at a target.                                            *)
UndoExpires ==
    /\ \E k \in Keys : undo[k] # NoHash /\ Register!Forget(k)
    /\ UNCHANGED <<local, call, late, rotation, edits>>

-----------------------------------------------------------------------------
Init ==
    /\ local \in [ClientIds -> {NoRecord} \cup
                     {Created(Payload(hash, FALSE)) : hash \in LocalHashes \cup {SignedWith}}]
    /\ Hash(local[BootstrapId]) = SignedWith
    /\ \A c \in ClientIds \ {BootstrapId} :
          Hash(local[c]) \in FirstHashes \cup {NoHash}
    /\ record \in {[k \in Keys |-> start[k[1]][k[2]]] :
                      start \in [Targets -> InitialTargets]}
    /\ undo = [k \in Keys |-> NoHash]
    /\ call = [request |-> [operation |-> "health", client |-> BootstrapId,
                            write |-> Unset],
               rest    |-> <<>>,
               results |-> [t \in Targets |-> "none"]]
    /\ late = {}
    /\ rotation = NoRotation
    /\ edits = 0

Next ==
    \/ Answered
    \/ Rejected
    \/ GivenUp
    \/ ArrivesLate
    \/ UndoExpires
    \/ RollBack
    \/ \E push \in Pipeline : Sync(push[1], push[2])
    \/ \E client \in ClientIds :
          \/ \E operation \in Operations : Other(operation, client)
          \/ \E hash \in LocalHashes : LocalRotation(client, hash)
          \/ \E hash \in PushHashes : Rotation(client, hash)

(* The pipeline comes round for each of its pushes, a fetch settles, and    *)
(* one that is tried again and again is answered sometimes.                 *)
Fairness ==
    /\ WF_vars(Answered \/ Rejected)
    /\ \A t \in Targets, push \in Pipeline :
          SF_vars(/\ Answered
                  /\ Head(call.rest) = t
                  /\ <<call.request.operation, call.request.client>> = push)
    /\ \A push \in Pipeline : SF_vars(Sync(push[1], push[2]))

Spec == Init /\ [][Next]_vars /\ Fairness

-----------------------------------------------------------------------------
TypeOK ==
    /\ local \in [ClientIds -> Records \cup {NoRecord}]
    /\ record \in [Keys -> Records \cup {NoRecord}]
    /\ undo \in [Keys -> Hashes \cup {NoHash}]
    /\ call \in [request : Requests, rest : Seq(Targets),
                 results : [Targets -> Answers \cup {"none"}]]
    /\ late \subseteq Targets \X Requests
    /\ edits \in 0..MaxEdits

(* A target that says it has reverted a rotation holds again what it held   *)
(* when the rotation began, whatever was lost on other targets: provided    *)
(* the rotation changed its hash and no earlier request was still under way.*)
RollbackRestores ==
    rotation # NoRotation /\ call.request.operation = "revert" =>
        \A t \in Targets :
            /\ call.results[t] = "reverted"
            /\ rotation.quiet
            /\ rotation.before[t] # rotation.hash
            => Hash(record[<<t, rotation.client>>]) = rotation.before[t]

InStep == \A k \in Keys : local[k[2]] # NoRecord => Hash(record[k]) = Hash(local[k[2]])

(* Whatever the network lost or delayed, and however rotations and          *)
(* rollbacks were cut short, the targets end with the hashes of the source, *)
(* the empty ones included, and stay there.                                 *)
Converges == <>[]InStep
=============================================================================
