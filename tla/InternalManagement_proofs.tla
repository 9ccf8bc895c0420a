----------------------- MODULE InternalManagement_proofs -----------------------
(***************************************************************************)
(* Proofs about InternalManagement, for any clients, handlers, requests and *)
(* deployments.  What the route does to a store it does by commands of      *)
(* CredentialStore, so that the lemmas about those are used here.           *)
(***************************************************************************)
EXTENDS InternalManagement, TLAPS

StoreProofs == INSTANCE CredentialStore_proofs WITH
            Callers       <- Handlers \cup Locals,
            Keys          <- Targets,
            WriteSet      <- FactoryWrites,
            InitialRecords <- InitialRecords \cup {NoRecord},
            deployment    <- "route",
            Deployments   <- [route |-> [serialised    |-> FALSE,
                                         backupsExpire |-> FALSE,
                                         operations    |-> FactoryCalls,
                                         writes        |-> FactoryWrites,
                                         initial       |-> InitialRecords]]

(* The route's store meets the assumptions of CredentialStore.              *)
LEMMA StoreAssumed ==
    /\ FactoryWrites \subseteq StoreProofs!Writes
    /\ [route |-> [serialised    |-> FALSE,
                   backupsExpire |-> FALSE,
                   operations    |-> FactoryCalls,
                   writes        |-> FactoryWrites,
                   initial       |-> InitialRecords]]
          \in [DOMAIN [route |-> [serialised    |-> FALSE,
                                  backupsExpire |-> FALSE,
                                  operations    |-> FactoryCalls,
                                  writes        |-> FactoryWrites,
                                  initial       |-> InitialRecords]]
                -> StoreProofs!DeploymentKinds]
    /\ CallersFail \in BOOLEAN
    /\ InitialRecords \cup {NoRecord} \subseteq StoreProofs!Records \cup {NoRecord}
    /\ NoHash \notin Hashes
<1> DEFINE use == [serialised    |-> FALSE,
                   backupsExpire |-> FALSE,
                   operations    |-> FactoryCalls,
                   writes        |-> FactoryWrites,
                   initial       |-> InitialRecords]
           route == [route |-> use]
<1>1. FactoryWrites \subseteq StoreProofs!Writes
  BY ManagementAssumption
  DEF FactoryWrites, Requests, Writes, Purposes, StoreProofs!Writes, StoreProofs!Purposes
<1>2. InitialRecords \cup {NoRecord} \subseteq StoreProofs!Records \cup {NoRecord}
  BY FactoryAssumption DEF Records, Purposes, StoreProofs!Records, StoreProofs!Purposes
<1>3. FactoryCalls \subseteq StoreProofs!Operations
  BY FactoryAssumption DEF Store!Operations, StoreProofs!Operations,
     Store!FactoryOperations, StoreProofs!FactoryOperations
<1>4. FactoryWrites # {}
  BY FactoryAssumption DEF FactoryWrites
<1>5. use \in StoreProofs!DeploymentKinds
  BY <1>3, <1>4 DEF StoreProofs!DeploymentKinds
<1>6. DOMAIN route = {"route"} /\ route["route"] = use
  OBVIOUS
<1>7. route \in [DOMAIN route -> StoreProofs!DeploymentKinds]
  BY <1>5, <1>6
<1> QED
  BY <1>1, <1>2, <1>7, ManagementAssumption, FactoryAssumption

(* Special values are none of the store's records or arguments.             *)
LEMMA RecordsAssumed ==
    /\ NoRecord \notin StoreProofs!Records
    /\ /\ Unset \notin Instants \cup {Never}
       /\ \A ips \in SUBSET Addresses : Unset # ips
       /\ Unset \notin BOOLEAN
       /\ Unset \notin StoreProofs!Purposes
  BY NoRecordAssumption, UnsetAssumption
  DEF Records, Purposes, StoreProofs!Records, StoreProofs!Purposes

(* The two instances of CredentialStore say the same.                       *)
LEMMA SameRecord == \A c : Store!NewRecord(c) = StoreProofs!NewRecord(c)
  BY Zenon DEF Store!NewRecord, StoreProofs!NewRecord, Store!Created, StoreProofs!Created,
     Store!Rotated, StoreProofs!Rotated, Store!Regenerated, StoreProofs!Regenerated,
     Store!WithAllowedIps, StoreProofs!WithAllowedIps, Store!Rehashed,
     StoreProofs!Rehashed, Store!Reverted, StoreProofs!Reverted,
     Store!OrElse, StoreProofs!OrElse

(* The step after a read is the same in both instances.                     *)
LEMMA SameAfterRead ==
    \A c, existing : Store!AfterRead(c, existing) = StoreProofs!AfterRead(c, existing)
  BY Zenon DEF Store!AfterRead, StoreProofs!AfterRead, Store!NeedsBackup, StoreProofs!NeedsBackup

(* So are the types of the state.                                           *)
LEMMA SameTypes == Store!TypeOK <=> StoreProofs!TypeOK
  BY Zenon DEF Store!TypeOK, StoreProofs!TypeOK, Store!Records, StoreProofs!Records,
     Store!Purposes, StoreProofs!Purposes, Store!CallStates, StoreProofs!CallStates,
     Store!Steps, StoreProofs!Steps, Store!Operations, StoreProofs!Operations,
     Store!FactoryOperations, StoreProofs!FactoryOperations,
     Store!Returned, StoreProofs!Returned, Store!Results, StoreProofs!Results

(* So is the begin of an operation.                                         *)
LEMMA SameBegin ==
    \A p, operation, k, write :
        Store!Begin(p, operation, k, write) <=> StoreProofs!Begin(p, operation, k, write)
  BY Zenon DEF Store!Begin, StoreProofs!Begin, Store!InOperation, StoreProofs!InOperation,
     Store!FirstStep, StoreProofs!FirstStep, Store!Usage, StoreProofs!Usage

(* So is every command.                                                     *)
LEMMA SameCommand ==
    \A p : Store!Command(p) <=> StoreProofs!Command(p)
<1> SUFFICES ASSUME NEW p PROVE Store!Command(p) <=> StoreProofs!Command(p)
  OBVIOUS
<1> USE DEF Store!At, StoreProofs!At, Store!Return, StoreProofs!Return,
     Store!Returned, StoreProofs!Returned, Store!GoTo, StoreProofs!GoTo,
     Store!InOperation, StoreProofs!InOperation
<1>1. Store!ReadBackup(p) <=> StoreProofs!ReadBackup(p)
  BY Zenon DEF Store!ReadBackup, StoreProofs!ReadBackup
<1>2. Store!ReadRecord(p) <=> StoreProofs!ReadRecord(p)
  BY Zenon, SameAfterRead DEF Store!ReadRecord, StoreProofs!ReadRecord
<1>3. Store!SetBackup(p) <=> StoreProofs!SetBackup(p)
  BY Zenon DEF Store!SetBackup, StoreProofs!SetBackup
<1>4. Store!StoreRecord(p) <=> StoreProofs!StoreRecord(p)
  BY Zenon, SameRecord DEF Store!StoreRecord, StoreProofs!StoreRecord
<1>5. Store!RemoveRecord(p) <=> StoreProofs!RemoveRecord(p)
  BY Zenon DEF Store!RemoveRecord, StoreProofs!RemoveRecord
<1>6. Store!ClearBackup(p) <=> StoreProofs!ClearBackup(p)
  BY Zenon DEF Store!ClearBackup, StoreProofs!ClearBackup
<1>7. Store!Abort(p) <=> StoreProofs!Abort(p)
  BY Zenon DEF Store!Abort, StoreProofs!Abort, Store!HalfDone, StoreProofs!HalfDone,
     Store!NeedsBackup, StoreProofs!NeedsBackup
<1> QED
  BY <1>1, <1>2, <1>3, <1>4, <1>5, <1>6, <1>7 DEF Store!Command, StoreProofs!Command
-----------------------------------------------------------------------------
(* The factory operation that a request leads to.                           *)
OperationOf(request) ==
    IF request.method = "PATCH" THEN "revert"
    ELSE IF request.method = "DELETE" THEN "delete" ELSE "setSecret"

(* What a handler knows of a request that has come to its look-up: without  *)
(* a verified signer the route is locked, and then it is the seed.          *)
Judged(h) ==
    h.step \in {"lookUp", "factory"} =>
        /\ h.request.method # "GET" /\ h.request.clientId \in ClientIds
        /\ h.step = "lookUp" => h.request.method # "PATCH"
        /\ Acceptable(h.request)
        /\ h.locked => IsSeed(h.request)
        /\ h.verified = NoClient => h.locked

(* A handler that awaits the factory is the caller of the operation its     *)
(* request asks for, on the credential it names.                            *)
CallMatches(p) ==
    /\ At(p, "factory") <=> StoreProofs!InOperation(p)
    /\ At(p, "factory") =>
          /\ call[p].key = Target(handler[p].request)
          /\ call[p].operation = OperationOf(handler[p].request)

HandlerTyped == handler \in [Handlers -> HandlerStates \cup {Answered("200")}]

Inv ==
    /\ deployment \in DOMAIN Deployments
    /\ StoreProofs!HeldInv
    /\ HandlerTyped
    /\ \A p \in Handlers : CallMatches(p) /\ Judged(handler[p])
-----------------------------------------------------------------------------
(* A command of the store keeps what CredentialStore_proofs knows of it.    *)
LEMMA CommandHeld ==
    ASSUME StoreProofs!HeldInv, NEW p \in Handlers \cup Locals, Store!Command(p)
    PROVE  StoreProofs!HeldInv'
<1>1. StoreProofs!Next
  BY SameCommand DEF StoreProofs!Next
<1> QED
  BY <1>1, StoreProofs!HeldStep, StoreAssumed, RecordsAssumed

(* So does the begin of an operation, of which this is the effect.          *)
LEMMA BeginKnown ==
    ASSUME StoreProofs!HeldInv, NEW p \in Handlers \cup Locals,
           NEW operation \in FactoryCalls, NEW k \in Targets, NEW write \in FactoryWrites,
           Store!Begin(p, operation, k, write)
    PROVE  /\ StoreProofs!HeldInv'
           /\ \A q \in (Handlers \cup Locals) \ {p} : call'[q] = call[q]
           /\ call'[p].operation = operation /\ call'[p].key = k
           /\ call'[p].step = StoreProofs!FirstStep(operation)
           /\ StoreProofs!InOperation(p)'
           /\ ~StoreProofs!InOperation(p)
           /\ UNCHANGED <<record, backup, past, replaced>>
<1>1. StoreProofs!Begin(p, operation, k, write)
  BY SameBegin
<1>2. operation \in StoreProofs!Usage.operations
  BY DEF StoreProofs!Usage
<1>3. StoreProofs!TypeOK
  BY DEF StoreProofs!HeldInv
<1>4. /\ StoreProofs!OthersStay(p)
      /\ call'[p].step = StoreProofs!FirstStep(operation)
      /\ call'[p].operation = operation /\ call'[p].key = k
      /\ StoreProofs!FirstStep(operation) \in StoreProofs!Steps
  BY <1>1, <1>2, <1>3, StoreProofs!BeginEffect, StoreAssumed, RecordsAssumed
<1>5. StoreProofs!HeldInv'
  BY <1>1, <1>2, StoreProofs!BeginHeld, StoreAssumed, RecordsAssumed
<1>6. StoreProofs!InOperation(p)'
  BY <1>4 DEF StoreProofs!InOperation, StoreProofs!Steps
<1> QED
  BY <1>1, <1>4, <1>5, <1>6 DEF StoreProofs!Begin, StoreProofs!OthersStay

(* What a command leaves alone, and what it changes.                        *)
LEMMA CommandFrame ==
    ASSUME StoreProofs!HeldInv, NEW p \in Handlers \cup Locals, Store!Command(p)
    PROVE  /\ StoreProofs!InOperation(p) /\ call[p].key \in Targets
           /\ \A q \in (Handlers \cup Locals) \ {p} : call'[q] = call[q]
           /\ call'[p].step # "returned" =>
                 call'[p].key = call[p].key /\ call'[p].operation = call[p].operation
           /\ record' # record =>
                 /\ call[p].step \in {"store", "remove"}
                 /\ call'[p].step \in {"returned", "clearBackup"}
           /\ \A j \in Targets :
                 /\ record'[j] # record[j] => j = call[p].key
                 /\ record'[j] = NoRecord /\ record[j] # NoRecord => call[p].step = "remove"
<1>1. StoreProofs!Command(p)
  BY SameCommand
<1>2. StoreProofs!TypeOK /\ StoreProofs!CallHeld(p)
  BY DEF StoreProofs!HeldInv
<1>3. StoreProofs!InOperation(p)
  BY <1>1 DEF StoreProofs!Command, StoreProofs!ReadBackup, StoreProofs!ReadRecord,
     StoreProofs!SetBackup, StoreProofs!StoreRecord, StoreProofs!RemoveRecord,
     StoreProofs!ClearBackup, StoreProofs!Abort, StoreProofs!At, StoreProofs!InOperation
<1>4. call[p] \in StoreProofs!CallStates
  BY <1>2, <1>3, StoreProofs!InOperationShape, StoreAssumed, RecordsAssumed
<1>5. call[p].key \in Targets
  BY <1>4 DEF StoreProofs!CallStates
<1>6. CASE StoreProofs!ReadBackup(p)
  <2>1. UNCHANGED <<record, past>> /\ call[p].step = "readBackup"
    BY <1>6 DEF StoreProofs!ReadBackup, StoreProofs!At
  <2> QED
    BY <1>2, <1>3, <1>5, <1>6, <2>1, StoreProofs!ReadBackupEffect, StoreAssumed, RecordsAssumed
    DEF StoreProofs!OthersStay, StoreProofs!SameArguments
<1>7. CASE StoreProofs!ReadRecord(p)
  <2>1. UNCHANGED <<record, past>> /\ call[p].step = "read"
    BY <1>7 DEF StoreProofs!ReadRecord, StoreProofs!At
  <2> QED
    BY <1>2, <1>3, <1>5, <1>7, <2>1, StoreProofs!ReadRecordEffect, StoreAssumed, RecordsAssumed
    DEF StoreProofs!OthersStay, StoreProofs!SameArguments
<1>8. CASE StoreProofs!SetBackup(p)
  <2>1. UNCHANGED <<record, past>>
    BY <1>8 DEF StoreProofs!SetBackup
  <2> QED
    BY <1>2, <1>3, <1>5, <1>8, <2>1, StoreProofs!SetBackupEffect, StoreAssumed, RecordsAssumed
    DEF StoreProofs!OthersStay, StoreProofs!SameArguments
<1>9. CASE StoreProofs!StoreRecord(p)
  <2> DEFINE new == StoreProofs!NewRecord(call[p])
  <2>1. /\ StoreProofs!OthersStay(p) /\ call[p].step = "store"
        /\ record' = [record EXCEPT ![call[p].key] = new]
        /\ past' = [past EXCEPT ![call[p].key] = past[call[p].key] \cup {new.hash}]
        /\ call'[p].step = "returned"
              \/ (call'[p].step = "clearBackup" /\ StoreProofs!SameArguments(p))
    BY <1>2, <1>9, StoreProofs!StoreEffect, StoreAssumed, RecordsAssumed
  <2>0. new \in StoreProofs!Records
    BY <1>2, <1>9, StoreProofs!StoreEffect, StoreAssumed, RecordsAssumed
  <2> HIDE DEF new
  <2>2. record \in [Targets -> StoreProofs!Records \cup {NoRecord}]
        /\ past \in [Targets -> SUBSET Hashes]
    BY <1>2 DEF StoreProofs!TypeOK
  <2>3. \A j \in Targets : record'[j] # record[j] => j = call[p].key
    BY <1>5, <2>1, <2>2
  <2>4. \A j \in Targets : record'[j] # record[j] => record'[j] # NoRecord
    <3>1. new # NoRecord
      BY <2>0, RecordsAssumed
    <3> QED
      BY <1>5, <2>1, <2>2, <3>1
  <2> QED
    BY <1>3, <1>5, <2>1, <2>3, <2>4 DEF StoreProofs!OthersStay, StoreProofs!SameArguments
<1>10. CASE \/ StoreProofs!RemoveRecord(p) \/ StoreProofs!ClearBackup(p)
            \/ StoreProofs!Abort(p)
  <2>1. /\ StoreProofs!OthersStay(p) /\ call'[p].step = "returned" /\ past' = past
        /\ record' = IF StoreProofs!RemoveRecord(p)
                     THEN [record EXCEPT ![call[p].key] = NoRecord] ELSE record
    BY <1>2, <1>10, StoreProofs!EndEffect, StoreAssumed, RecordsAssumed
  <2>2. StoreProofs!RemoveRecord(p) => call[p].step = "remove"
    BY DEF StoreProofs!RemoveRecord, StoreProofs!At
  <2>3. \A j \in Targets : /\ record'[j] # record[j] => j = call[p].key
                           /\ record'[j] \in {record[j], NoRecord}
    BY <1>2, <1>5, <2>1 DEF StoreProofs!TypeOK
  <2> QED
    BY <1>3, <1>5, <2>1, <2>2, <2>3 DEF StoreProofs!OthersStay
<1> QED
  BY <1>1, <1>6, <1>7, <1>8, <1>9, <1>10 DEF StoreProofs!Command

(* Only a delete comes to remove a record.                                  *)
LEMMA RemovalDeletes ==
    ASSUME StoreProofs!HeldInv, NEW p \in Handlers \cup Locals,
           StoreProofs!InOperation(p), call[p].step = "remove"
    PROVE  call[p].operation = "delete"
  BY DEF StoreProofs!HeldInv, StoreProofs!CallHeld, StoreProofs!Fits

(* An operation that waits to clear its backup has no other command left.   *)
LEMMA ClearingReturns ==
    ASSUME StoreProofs!HeldInv, NEW p \in Handlers \cup Locals, Store!Command(p),
           call[p].step = "clearBackup"
    PROVE  call'[p].step = "returned"
<1>1. StoreProofs!Command(p)
  BY SameCommand
<1>2. StoreProofs!ClearBackup(p) \/ StoreProofs!Abort(p)
  BY <1>1 DEF StoreProofs!Command, StoreProofs!ReadBackup, StoreProofs!ReadRecord,
     StoreProofs!SetBackup, StoreProofs!StoreRecord, StoreProofs!RemoveRecord, StoreProofs!At
<1>3. StoreProofs!TypeOK
  BY DEF StoreProofs!HeldInv
<1> QED
  BY <1>2, <1>3, StoreProofs!EndEffect, StoreAssumed, RecordsAssumed
-----------------------------------------------------------------------------
(* What follows authentication: only a request that passed every refusal    *)
(* comes to its look-up, or to the factory when it is a PATCH.              *)
LEMMA AuthenticationSettles ==
    ASSUME NEW request \in RequestSet, NEW locked \in BOOLEAN,
           NEW step, step = AfterAuthentication(request, locked)
    PROVE  /\ step \in {"200", "403", "locked", "lookUp", "factory"}
           /\ step = "factory" <=> step \in {"lookUp", "factory"} /\ request.method = "PATCH"
           /\ step \in {"lookUp", "factory"} =>
                 /\ request.method # "GET"
                 /\ request.clientId \in ClientIds
                 /\ Acceptable(request)
                 /\ locked => IsSeed(request)
<1>1. request.clientId \in ClientIds \cup {NoClient}
  BY ManagementAssumption DEF Requests
<1> QED
  BY <1>1 DEF AfterAuthentication

(* A request that passed names a credential of one of the stores.           *)
LEMMA TargetNamed ==
    ASSUME NEW request \in RequestSet, request.clientId \in ClientIds,
           request.method # "GET", Acceptable(request)
    PROVE  /\ Target(request) \in Targets
           /\ OperationOf(request) \in FactoryCalls
           /\ request.write \in FactoryWrites
  BY DEF Target, Targets, Kinds, Acceptable, StoreUsable, OperationOf, FactoryCalls,
         FactoryWrites

(* What is known of the handlers that a step leaves alone.                  *)
LEMMA OneHandlerMoves ==
    ASSUME Inv, StoreProofs!HeldInv', UNCHANGED deployment, NEW p \in Handlers,
           \A q \in Handlers \ {p} : handler'[q] = handler[q] /\ call'[q] = call[q],
           HandlerTyped', CallMatches(p)', Judged(handler'[p])
    PROVE  Inv'
<1>1. ASSUME NEW q \in Handlers \ {p} PROVE CallMatches(q)' /\ Judged(handler'[q])
  <2>1. handler'[q] = handler[q] /\ call'[q] = call[q]
    OBVIOUS
  <2> QED
    BY <2>1 DEF Inv, CallMatches, At, StoreProofs!InOperation, Target
<1>2. ASSUME NEW q \in Handlers, Judged(handler'[q]) PROVE Judged(handler[q])'
  BY <1>2 DEF Judged, Acceptable, StoreUsable, Setup, IsSeed
<1>3. deployment' \in DOMAIN Deployments
  BY DEF Inv
<1> QED
  BY <1>1, <1>2, <1>3 DEF Inv

(* Handler p has gone on to a state, or answered, and changed no store.     *)
Moves(p, state) ==
    /\ \A q \in Handlers \ {p} : handler'[q] = handler[q]
    /\ handler'[p] = IF state.step \in Working THEN state ELSE Answered(state.step)
    /\ UNCHANGED <<record, past, deployment>>
    /\ \A q \in (Handlers \cup Locals) \ {p} : call'[q] = call[q]
    /\ state.step # "factory" => call' = call
    /\ state.step = "factory" =>
          call'[p].step = "readBackup" /\ call'[p].operation = "revert"

(* A handler that goes on: it awaits the next command, begins a revert, or  *)
(* answers.                                                                 *)
LEMMA ProceedKeeps ==
    ASSUME Inv, NEW p \in Handlers, ~At(p, "factory"),
           NEW state, state.step \in Working => state \in HandlerStates,
           state.step \in {"200", "403", "locked"} \cup Working,
           state.step = "factory" => state.request.method = "PATCH",
           Judged(state), Proceed(p, state)
    PROVE  Inv' /\ Moves(p, state)
<1>1. StoreProofs!HeldInv /\ HandlerTyped /\ ~StoreProofs!InOperation(p)
  BY DEF Inv, CallMatches
<1>2. /\ handler' = [handler EXCEPT ![p] = IF state.step \in Working
                                           THEN state ELSE Answered(state.step)]
      /\ UNCHANGED deployment
  BY DEF Proceed
<1>3. HandlerTyped' /\ \A q \in Handlers \ {p} : handler'[q] = handler[q]
  BY <1>1, <1>2 DEF HandlerTyped, Answered
<1>4. handler'[p] = IF state.step \in Working THEN state ELSE Answered(state.step)
  BY <1>1, <1>2 DEF HandlerTyped
<1>5. Judged(handler'[p]) /\ (At(p, "factory")' <=> state.step = "factory")
  BY <1>4 DEF Judged, Answered, At, Working
<1>6. CASE state.step = "factory"
  <2>1. state \in HandlerStates
    BY <1>6 DEF Working
  <2>2. state.request \in RequestSet /\ handler'[p] = state
    BY <1>4, <1>6, <2>1 DEF HandlerStates, Working
  <2>3. /\ Target(state.request) \in Targets
        /\ "revert" \in FactoryCalls /\ state.request.write \in FactoryWrites
    BY <1>6, <2>2, TargetNamed DEF Judged, FactoryCalls
  <2>4. Store!Begin(p, "revert", Target(state.request), state.request.write)
    BY <1>6 DEF Proceed
  <2>5. /\ StoreProofs!HeldInv'
        /\ \A q \in (Handlers \cup Locals) \ {p} : call'[q] = call[q]
        /\ call'[p].operation = "revert" /\ call'[p].key = Target(state.request)
        /\ call'[p].step = "readBackup"
        /\ StoreProofs!InOperation(p)'
        /\ UNCHANGED <<record, backup, past>>
    BY <1>1, <2>3, <2>4, BeginKnown DEF StoreProofs!FirstStep
  <2>6. Target(handler'[p].request) = Target(state.request)
        /\ Target(handler'[p].request) = Target(handler[p].request)'
    BY <2>2 DEF Target
  <2>7. CallMatches(p)'
    BY <1>5, <1>6, <2>2, <2>5, <2>6 DEF CallMatches, OperationOf
  <2> QED
    BY <1>2, <1>3, <1>4, <1>5, <1>6, <2>5, <2>7, OneHandlerMoves DEF Moves
<1>7. CASE state.step # "factory"
  <2>1. UNCHANGED storeVars
    BY <1>7 DEF Proceed
  <2>2. StoreProofs!HeldInv'
    <3>1. UNCHANGED StoreProofs!vars
      BY <2>1 DEF storeVars, StoreProofs!vars, StoreProofs!storeVars
    <3> QED
      BY <1>1, <3>1, StoreProofs!HeldStep, StoreAssumed, RecordsAssumed
  <2>3. CallMatches(p)'
    BY <1>1, <1>5, <1>7, <2>1 DEF CallMatches, StoreProofs!InOperation, storeVars
  <2> QED
    BY <1>2, <1>3, <1>4, <1>5, <1>7, <2>1, <2>2, <2>3, OneHandlerMoves DEF storeVars, Moves
<1> QED
  BY <1>6, <1>7

(* Receive: without a client the route is locked and the handler judges the *)
(* request at once, otherwise it goes to verify the signature.              *)
LEMMA ReceiveMoves ==
    ASSUME Inv, NEW p \in Handlers, NEW request \in RequestSet, Receive(p, request)
    PROVE  /\ Inv' /\ ~Busy(p)
           /\ \E state :
                 /\ Moves(p, state)
                 /\ state.locked <=> BootstrapId \notin KnownClients
                 /\ state.step = "verifyBootstrap" <=> KnownClients # {}
                 /\ state.step \in {"200", "403", "locked", "verifyBootstrap",
                                    "lookUp", "factory"}
<1> DEFINE locked == BootstrapId \notin KnownClients
           settled == AfterAuthentication(request, locked)
           step == IF KnownClients # {} THEN "verifyBootstrap" ELSE settled
           state == [step |-> step, request |-> request, locked |-> locked,
                     verified |-> NoClient]
<1>1. ~Busy(p) /\ ~At(p, "factory")
  BY DEF Receive, Busy, At, Working
<1>2. Proceed(p, state)
  BY DEF Receive
<1>3. KnownClients = {} => locked
  OBVIOUS
<1>4. locked \in BOOLEAN /\ (locked <=> BootstrapId \notin KnownClients)
  OBVIOUS
<1> HIDE DEF locked
<1>5. /\ settled \in {"200", "403", "locked", "lookUp", "factory"}
      /\ settled = "factory" <=> settled \in {"lookUp", "factory"} /\ request.method = "PATCH"
      /\ settled \in {"lookUp", "factory"} =>
            /\ request.method # "GET" /\ request.clientId \in ClientIds
            /\ Acceptable(request) /\ (locked => IsSeed(request))
  BY <1>4, AuthenticationSettles
<1>6. /\ step \in {"200", "403", "locked", "verifyBootstrap", "lookUp", "factory"}
      /\ step = "verifyBootstrap" <=> KnownClients # {}
      /\ step # "verifyBootstrap" => step = settled
  BY <1>5
<1> HIDE DEF step
<1>7. /\ state.step = step /\ state.request = request /\ state.locked = locked
      /\ state.verified = NoClient
  BY <1>4, <1>6
<1>8. step \in Working => state \in HandlerStates
  BY <1>4, <1>6, <1>7 DEF HandlerStates
<1> HIDE DEF settled, state
<1>9. Judged(state) /\ (state.step = "factory" => state.request.method = "PATCH")
  BY <1>3, <1>4, <1>5, <1>6, <1>7 DEF Judged
<1>10. Inv' /\ Moves(p, state)
  BY <1>1, <1>2, <1>6, <1>7, <1>8, <1>9, ProceedKeeps DEF Working
<1> QED
  BY <1>1, <1>4, <1>6, <1>7, <1>10

(* VerifyBootstrap: it goes on where the bootstrap credential is there.     *)
LEMMA VerifyBootstrapMoves ==
    ASSUME Inv, NEW p \in Handlers, VerifyBootstrap(p)
    PROVE  /\ Inv'
           /\ \E state : /\ Moves(p, state)
                         /\ state.locked = handler[p].locked
                         /\ state.step \in {"verifyClient", "403"}
                         /\ state.step = "verifyClient" => BootstrapId \in KnownClients
<1> DEFINE step == IF BootstrapId \in KnownClients THEN "verifyClient" ELSE "403"
           state == [handler[p] EXCEPT !.step = step]
<1>1. Proceed(p, state) /\ At(p, "verifyBootstrap")
  BY DEF VerifyBootstrap
<1>2. handler[p] \in HandlerStates /\ ~At(p, "factory")
  BY <1>1 DEF Inv, HandlerTyped, At, Answered
<1>3. state.step = step /\ state.locked = handler[p].locked
      /\ (state.step \in Working => state \in HandlerStates)
  BY <1>2 DEF HandlerStates, Working
<1>4. step \in {"verifyClient", "403"} /\ (step = "verifyClient" => BootstrapId \in KnownClients)
  OBVIOUS
<1> HIDE DEF state, step
<1>5. Inv' /\ Moves(p, state)
  BY <1>1, <1>2, <1>3, <1>4, ProceedKeeps DEF Judged, Working
<1> QED
  BY <1>3, <1>4, <1>5

(* VerifyClient: it goes on with a signer.                                  *)
LEMMA VerifyClientMoves ==
    ASSUME Inv, NEW p \in Handlers, VerifyClient(p)
    PROVE  /\ Inv'
           /\ \E state : /\ Moves(p, state)
                         /\ state.locked = handler[p].locked
                         /\ state.step \in {"200", "403", "locked", "lookUp", "factory"}
<1>1. At(p, "verifyClient")
  BY DEF VerifyClient
<1>2. handler[p] \in HandlerStates /\ ~At(p, "factory")
  BY <1>1 DEF Inv, HandlerTyped, At, Answered
<1>3. CASE Proceed(p, [handler[p] EXCEPT !.step = "403"])
  <2> DEFINE state == [handler[p] EXCEPT !.step = "403"]
  <2>1. state.step = "403" /\ state.locked = handler[p].locked
    BY <1>2 DEF HandlerStates
  <2> HIDE DEF state
  <2>2. Inv' /\ Moves(p, state)
    BY <1>2, <1>3, <2>1, ProceedKeeps DEF state, Judged, Working
  <2> QED
    BY <2>1, <2>2
<1>4. CASE Proceed(p, [handler[p] EXCEPT
                          !.step = AfterAuthentication(handler[p].request, handler[p].locked),
                          !.verified = handler[p].request.signer])
  <2> DEFINE request == handler[p].request
             step == AfterAuthentication(request, handler[p].locked)
             state == [handler[p] EXCEPT !.step = step, !.verified = request.signer]
  <2>1. request \in RequestSet /\ handler[p].locked \in BOOLEAN
    BY <1>2 DEF HandlerStates
  <2>2. request.signer \in ClientIds
    BY <2>1, ManagementAssumption DEF Requests
  <2>3. /\ step \in {"200", "403", "locked", "lookUp", "factory"}
        /\ step = "factory" <=> step \in {"lookUp", "factory"} /\ request.method = "PATCH"
        /\ step \in {"lookUp", "factory"} =>
              /\ request.method # "GET" /\ request.clientId \in ClientIds
              /\ Acceptable(request) /\ (handler[p].locked => IsSeed(request))
    BY <2>1, AuthenticationSettles
  <2>4. Proceed(p, state)
    BY <1>4
  <2> HIDE DEF step
  <2>5. /\ state.step = step /\ state.request = request
        /\ state.locked = handler[p].locked /\ state.verified = request.signer
        /\ step \in Working => state \in HandlerStates
    BY <1>2, <2>2 DEF HandlerStates
  <2> HIDE DEF state, request
  <2>6. Judged(state)
    BY <2>2, <2>3, <2>5, ManagementAssumption DEF Judged
  <2>7. Inv' /\ Moves(p, state)
    BY <1>2, <2>3, <2>4, <2>5, <2>6, ProceedKeeps DEF Working
  <2> QED
    BY <2>3, <2>5, <2>7
<1> QED
  BY <1>3, <1>4 DEF VerifyClient

(* LookUp: the request is refused, or begins its factory operation.         *)
LEMMA LookUpMoves ==
    ASSUME Inv, NEW p \in Handlers, LookUp(p)
    PROVE  /\ Inv' /\ UNCHANGED <<record, past, deployment>> /\ At(p, "lookUp")
           /\ \A q \in Handlers \ {p} : handler'[q] = handler[q]
           /\ \A q \in (Handlers \cup Locals) \ {p} : call'[q] = call[q]
           /\ \/ handler'[p] = Answered("403") /\ call' = call
              \/ /\ At(p, "factory")' /\ handler'[p] = [handler[p] EXCEPT !.step = "factory"]
                 /\ call'[p].step # "clearBackup"
                 /\ call'[p].operation = OperationOf(handler[p].request)
                 /\ call'[p].key = Target(handler[p].request)
                 /\ record[Target(handler[p].request)] # NoRecord
                       <=> handler[p].request.method # "POST"
<1> DEFINE request == handler[p].request
           exists == record[Target(request)] # NoRecord
           operation == IF request.method = "DELETE" THEN "delete" ELSE "setSecret"
<1>1. At(p, "lookUp") /\ deployment' = deployment
  BY DEF LookUp
<1>2. /\ handler[p] \in HandlerStates /\ Judged(handler[p])
      /\ ~StoreProofs!InOperation(p) /\ HandlerTyped /\ StoreProofs!HeldInv
  BY <1>1 DEF Inv, HandlerTyped, At, Answered, CallMatches
<1>3. /\ request \in RequestSet /\ request.clientId \in ClientIds
      /\ request.method # "GET" /\ request.method # "PATCH" /\ Acceptable(request)
  BY <1>1, <1>2 DEF HandlerStates, Judged, At
<1>4. /\ Target(request) \in Targets /\ operation \in FactoryCalls
      /\ request.write \in FactoryWrites /\ operation = OperationOf(request)
  BY <1>3, TargetNamed DEF OperationOf
<1>5. CASE exists <=> request.method # "POST"
  <2> DEFINE state == [handler[p] EXCEPT !.step = "factory"]
  <2>1. /\ handler' = [handler EXCEPT ![p] = state]
        /\ Store!Begin(p, operation, Target(request), request.write)
    BY <1>5 DEF LookUp
  <2>2. /\ state.step = "factory" /\ state.request = request
        /\ state.locked = handler[p].locked /\ state.verified = handler[p].verified
        /\ state \in HandlerStates
    BY <1>2 DEF HandlerStates, Working
  <2>3. operation \in {"delete", "setSecret"}
    OBVIOUS
  <2> HIDE DEF state, operation
  <2>4. /\ StoreProofs!HeldInv'
        /\ \A q \in (Handlers \cup Locals) \ {p} : call'[q] = call[q]
        /\ call'[p].operation = operation /\ call'[p].key = Target(request)
        /\ call'[p].step = StoreProofs!FirstStep(operation)
        /\ StoreProofs!InOperation(p)'
        /\ UNCHANGED <<record, backup, past>>
    BY <1>2, <1>4, <2>1, BeginKnown
  <2>5. call'[p].step # "clearBackup"
    BY <2>3, <2>4 DEF StoreProofs!FirstStep
  <2>6. /\ handler'[p] = state /\ HandlerTyped'
        /\ \A q \in Handlers \ {p} : handler'[q] = handler[q]
    BY <1>2, <2>1, <2>2 DEF HandlerTyped
  <2>7. Judged(handler'[p])
    BY <1>1, <1>2, <2>2, <2>6 DEF Judged, At
  <2>8. CallMatches(p)'
    <3>1. handler'[p].step = "factory" /\ handler'[p].request = request
      BY <2>2, <2>6
    <3>2. Target(request) = Target(handler'[p].request)
          /\ OperationOf(request) = OperationOf(handler'[p].request)
      BY <3>1
    <3>3. call'[p].key = Target(handler'[p].request)
          /\ call'[p].operation = OperationOf(handler'[p].request)
      BY <1>4, <2>4, <3>2
    <3> QED
      BY <2>4, <3>1, <3>3 DEF CallMatches, At, Target, OperationOf
  <2>9. Inv'
    BY <1>1, <2>4, <2>6, <2>7, <2>8, OneHandlerMoves
  <2> QED
    BY <1>1, <1>4, <1>5, <2>2, <2>4, <2>5, <2>6, <2>9 DEF At, state
<1>6. CASE ~(exists <=> request.method # "POST")
  <2>1. handler' = [handler EXCEPT ![p] = Answered("403")] /\ UNCHANGED storeVars
    BY <1>6 DEF LookUp
  <2>2. /\ handler'[p] = Answered("403") /\ HandlerTyped'
        /\ \A q \in Handlers \ {p} : handler'[q] = handler[q]
    BY <1>2, <2>1 DEF HandlerTyped, Answered
  <2>3. StoreProofs!HeldInv'
    <3>1. UNCHANGED StoreProofs!vars
      BY <2>1 DEF storeVars, StoreProofs!vars, StoreProofs!storeVars
    <3> QED
      BY <1>2, <3>1, StoreProofs!HeldStep, StoreAssumed, RecordsAssumed
  <2>4. Judged(handler'[p]) /\ CallMatches(p)'
    BY <1>2, <2>1, <2>2 DEF Judged, CallMatches, At, Answered, StoreProofs!InOperation, storeVars
  <2>5. Inv'
    BY <1>1, <2>1, <2>2, <2>3, <2>4, OneHandlerMoves DEF storeVars
  <2> QED
    BY <1>1, <2>1, <2>2, <2>5 DEF storeVars
<1> QED
  BY <1>5, <1>6

(* FactoryCommand: the handler stays with its operation until it returns.   *)
LEMMA FactoryMoves ==
    ASSUME Inv, NEW p \in Handlers, FactoryCommand(p)
    PROVE  /\ Inv' /\ At(p, "factory") /\ deployment' = deployment
           /\ \A q \in Handlers \ {p} : handler'[q] = handler[q]
           /\ \/ Answered("200") = handler'[p]
              \/ handler'[p] = handler[p] /\ call'[p].step # "returned"
<1>1. /\ At(p, "factory") /\ Store!Command(p) /\ deployment' = deployment
      /\ handler' = [handler EXCEPT ![p] =
            IF call'[p].step # "returned" THEN handler[p] ELSE Answered("200")]
  BY DEF FactoryCommand, Answered
<1>2. StoreProofs!HeldInv /\ HandlerTyped /\ CallMatches(p) /\ Judged(handler[p])
  BY DEF Inv
<1>3. StoreProofs!HeldInv'
  BY <1>1, <1>2, CommandHeld
<1>4. /\ \A q \in (Handlers \cup Locals) \ {p} : call'[q] = call[q]
      /\ call'[p].step # "returned" =>
            call'[p].key = call[p].key /\ call'[p].operation = call[p].operation
  BY <1>1, <1>2, CommandFrame
<1>5. /\ handler'[p] = IF call'[p].step # "returned" THEN handler[p] ELSE Answered("200")
      /\ \A q \in Handlers \ {p} : handler'[q] = handler[q]
      /\ HandlerTyped'
  BY <1>1, <1>2 DEF HandlerTyped
<1>6. CallMatches(p)' /\ Judged(handler'[p])
  BY <1>1, <1>2, <1>4, <1>5 DEF CallMatches, At, StoreProofs!InOperation, Judged, Answered, Target
<1>7. Inv'
  BY <1>1, <1>3, <1>4, <1>5, <1>6, OneHandlerMoves
<1> QED
  BY <1>1, <1>5, <1>7

(* HandlerFails: an answer, and no change.                                  *)
LEMMA FailureMoves ==
    ASSUME Inv, NEW p \in Handlers, HandlerFails(p)
    PROVE  /\ Inv' /\ UNCHANGED <<record, past, call, deployment>>
           /\ \A q \in Handlers \ {p} : handler'[q] = handler[q]
           /\ handler'[p] = Answered("200")
<1>1. /\ ~At(p, "factory") /\ UNCHANGED <<deployment, storeVars>>
      /\ handler' = [handler EXCEPT ![p] = Answered("200")]
  BY DEF HandlerFails, Answered, At
<1>2. StoreProofs!HeldInv /\ HandlerTyped /\ CallMatches(p)
  BY DEF Inv
<1>3. StoreProofs!HeldInv'
  <2>1. UNCHANGED StoreProofs!vars
    BY <1>1 DEF storeVars, StoreProofs!vars, StoreProofs!storeVars
  <2> QED
    BY <1>2, <2>1, StoreProofs!HeldStep, StoreAssumed, RecordsAssumed
<1>4. /\ handler'[p] = Answered("200") /\ HandlerTyped'
      /\ \A q \in Handlers \ {p} : handler'[q] = handler[q]
  BY <1>1, <1>2 DEF HandlerTyped
<1>5. Judged(handler'[p]) /\ CallMatches(p)'
  BY <1>1, <1>2, <1>4 DEF Judged, CallMatches, At, Answered, StoreProofs!InOperation, storeVars
<1>6. Inv'
  BY <1>1, <1>3, <1>4, <1>5, OneHandlerMoves DEF storeVars
<1> QED
  BY <1>1, <1>4, <1>6 DEF storeVars

(* LocalCall: the application begins an operation, or goes on with one.     *)
LEMMA LocalMoves ==
    ASSUME Inv, NEW l \in Locals, LocalCall(l)
    PROVE  /\ Inv' /\ UNCHANGED <<deployment, handler>>
           /\ \A q \in Handlers : call'[q] = call[q]
           /\ \A q \in Locals \ {l} : call'[q] = call[q]
           /\ \/ Store!Command(l)
              \/ /\ UNCHANGED <<record, past>>
                 /\ \E operation \in LocalOperations :
                       call'[l].step = StoreProofs!FirstStep(operation)
<1>1. /\ UNCHANGED <<deployment, handler>>
      /\ \/ \E operation \in LocalOperations, k \in Targets, write \in LocalWrites :
               Store!Begin(l, operation, k, write)
         \/ Store!Command(l)
  BY DEF LocalCall
<1>2. l \notin Handlers /\ StoreProofs!HeldInv
  BY ManagementAssumption DEF Inv
<1>3. /\ StoreProofs!HeldInv'
      /\ \A q \in (Handlers \cup Locals) \ {l} : call'[q] = call[q]
      /\ \/ Store!Command(l)
         \/ /\ UNCHANGED <<record, past>>
            /\ \E operation \in LocalOperations :
                  call'[l].step = StoreProofs!FirstStep(operation)
  <2>1. CASE Store!Command(l)
    BY <1>2, <2>1, CommandHeld, CommandFrame
  <2>2. ASSUME NEW operation \in LocalOperations, NEW k \in Targets,
               NEW write \in LocalWrites, Store!Begin(l, operation, k, write)
        PROVE  /\ StoreProofs!HeldInv'
               /\ \A q \in (Handlers \cup Locals) \ {l} : call'[q] = call[q]
               /\ UNCHANGED <<record, past>>
               /\ call'[l].step = StoreProofs!FirstStep(operation)
    BY <1>2, <2>2, BeginKnown DEF FactoryCalls, FactoryWrites
  <2> QED
    BY <1>1, <2>1, <2>2
<1>4. \A q \in Handlers : call'[q] = call[q]
  BY <1>2, <1>3
<1>5. \A q \in Handlers : CallMatches(q)' /\ Judged(handler[q])'
  BY <1>1, <1>4 DEF Inv, CallMatches, At, StoreProofs!InOperation, Judged, Target,
     Acceptable, StoreUsable, Setup, IsSeed
<1>6. Inv'
  BY <1>1, <1>3, <1>5 DEF Inv, HandlerTyped
<1> QED
  BY <1>1, <1>3, <1>4, <1>6
-----------------------------------------------------------------------------
(* The first states.                                                        *)
LEMMA InvInit == Init => Inv
<1> SUFFICES ASSUME Init PROVE Inv
  OBVIOUS
<1>1. Setup.initial \subseteq Records \cup {NoRecord}
  <2>1. Setup \in DeploymentKinds
    BY ManagementAssumption DEF Init, Setup
  <2> QED
    BY <2>1, FactoryAssumption DEF DeploymentKinds
<1>2. record \in [Targets -> Records \cup {NoRecord}]
  <2>1. PICK http \in [ClientIds -> Setup.initial] :
           record = [k \in Targets |-> IF k[1] = "http" THEN http[k[2]] ELSE NoRecord]
    BY DEF Init
  <2>2. \A k \in Targets : k[2] \in ClientIds
    BY DEF Targets
  <2> QED
    BY <1>1, <2>1, <2>2
<1>3. /\ backup = [k \in Targets |-> NoHash]
      /\ call = [p \in Handlers \cup Locals |-> StoreProofs!Returned("none")]
      /\ past = [k \in Targets |-> {r.hash : r \in {record[k]} \ {NoRecord}}]
      /\ replaced = [k \in Targets |-> NoHash]
      /\ handler = [p \in Handlers |-> Answered("200")]
  BY DEF Init, Store!Returned, StoreProofs!Returned
<1>4. past \in [Targets -> SUBSET Hashes]
  BY <1>2, <1>3 DEF Records
<1>5. Records = StoreProofs!Records
  BY DEF Records, StoreProofs!Records, Purposes, StoreProofs!Purposes
<1>6. StoreProofs!TypeOK
  BY <1>2, <1>3, <1>4, <1>5 DEF StoreProofs!TypeOK, StoreProofs!Returned, StoreProofs!Results
<1>7. \A k \in Targets : StoreProofs!KeyHeld(k)
  BY <1>3 DEF StoreProofs!KeyHeld
<1>8. \A p \in Handlers \cup Locals : ~StoreProofs!InOperation(p)
  BY <1>3 DEF StoreProofs!InOperation, StoreProofs!Returned
<1>9. StoreProofs!HeldInv
  BY <1>6, <1>7, <1>8 DEF StoreProofs!HeldInv, StoreProofs!CallHeld
<1>10. HandlerTyped /\ \A p \in Handlers : CallMatches(p) /\ Judged(handler[p])
  BY <1>3, <1>8 DEF HandlerTyped, CallMatches, Judged, At, Answered
<1> QED
  BY <1>9, <1>10 DEF Inv, Init

(* Every step keeps what the handlers know.                                 *)
LEMMA InvStep == Inv /\ [Next]_vars => Inv'
<1> SUFFICES ASSUME Inv, [Next]_vars PROVE Inv'
  OBVIOUS
<1>1. ASSUME NEW p \in Handlers, NEW request \in Setup.requests, Receive(p, request)
      PROVE  Inv'
  <2>1. Setup \in DeploymentKinds
    BY ManagementAssumption DEF Inv, Setup
  <2>2. request \in RequestSet
    BY <2>1 DEF DeploymentKinds
  <2> QED
    BY <1>1, <2>2, ReceiveMoves
<1>2. ASSUME NEW p \in Handlers,
             \/ VerifyBootstrap(p) \/ VerifyClient(p) \/ LookUp(p)
             \/ FactoryCommand(p) \/ HandlerFails(p)
      PROVE  Inv'
  BY <1>2, VerifyBootstrapMoves, VerifyClientMoves, LookUpMoves, FactoryMoves, FailureMoves
<1>3. ASSUME NEW l \in Locals, LocalCall(l) PROVE Inv'
  BY <1>3, LocalMoves
<1>4. CASE UNCHANGED vars
  <2>1. StoreProofs!HeldInv /\ UNCHANGED StoreProofs!vars
    BY <1>4 DEF Inv, vars, storeVars, StoreProofs!vars, StoreProofs!storeVars
  <2>2. StoreProofs!HeldInv'
    BY <2>1, StoreProofs!HeldStep, StoreAssumed, RecordsAssumed
  <2>3. UNCHANGED <<deployment, handler, call>>
    BY <1>4 DEF vars, storeVars
  <2>4. \A q \in Handlers : CallMatches(q)' /\ Judged(handler[q])'
    BY <2>3 DEF Inv, CallMatches, At, StoreProofs!InOperation, Judged, Target,
       Acceptable, StoreUsable, Setup, IsSeed
  <2> QED
    BY <2>2, <2>3, <2>4 DEF Inv, HandlerTyped
<1>5. \A p \in Setup.handlers : p \in Handlers
  BY ManagementAssumption DEF Inv, Setup, DeploymentKinds
<1> QED
  BY <1>1, <1>2, <1>3, <1>4, <1>5 DEF Next

(* Requests and local calls may interleave in any way: a handler that waits *)
(* for the factory is the caller of what its request asks for.              *)
THEOREM Invariance == Spec => []Inv
  BY InvInit, InvStep, PTL DEF Spec

(* Every reachable state of the route and of its two stores is well typed.  *)
THEOREM TypeCorrect == Spec => []TypeOK
<1>1. Inv => TypeOK
  BY SameTypes DEF Inv, TypeOK, HandlerTyped, StoreProofs!HeldInv
<1> QED
  BY <1>1, Invariance, PTL

(* A step in which a handler's call changes a credential is a command of    *)
(* its factory operation, on the credential its request names.              *)
LEMMA RouteStep ==
    ASSUME Inv, [Next]_vars, NEW p \in Handlers, RouteWrites(p)
    PROVE  /\ FactoryCommand(p) /\ Judged(handler[p])
           /\ call[p].step \in {"store", "remove"}
           /\ call[p].key = Target(handler[p].request)
           /\ call[p].operation = OperationOf(handler[p].request)
           /\ \A j \in Targets : record'[j] # record[j] => j = call[p].key
<1> USE DEF RouteWrites
<1>1. ~UNCHANGED vars
  BY DEF vars, storeVars
<1>2. \A q \in Setup.handlers : q \in Handlers
  BY ManagementAssumption DEF Inv, Setup, DeploymentKinds
<1>3. ASSUME NEW q \in Handlers,
             \/ \E request \in Setup.requests : Receive(q, request)
             \/ VerifyBootstrap(q) \/ VerifyClient(q) \/ LookUp(q) \/ HandlerFails(q)
      PROVE  FALSE
  <2>1. Setup.requests \subseteq RequestSet
    BY ManagementAssumption DEF Inv, Setup, DeploymentKinds
  <2>2. record' = record
    BY <1>3, <2>1, ReceiveMoves, VerifyBootstrapMoves, VerifyClientMoves, LookUpMoves,
       FailureMoves DEF Moves
  <2> QED
    BY <2>2
<1>4. ASSUME NEW q \in Handlers, FactoryCommand(q) PROVE q = p
  BY <1>4, CommandFrame DEF FactoryCommand, Inv
<1>5. ASSUME NEW l \in Locals, LocalCall(l) PROVE FALSE
  BY <1>5, LocalMoves
<1>6. FactoryCommand(p)
  BY <1>1, <1>2, <1>3, <1>4, <1>5 DEF Next
<1> QED
  BY <1>6, CommandFrame DEF FactoryCommand, Inv, CallMatches

(* Whatever else is going on, a request that is not signed changes nothing  *)
(* but a credential of the bootstrap client.                                *)
THEOREM UnsignedSeeds == Spec => UnsignedWritesOnlySeed
<1> DEFINE A == \A p \in Handlers :
                  RouteWrites(p) /\ handler[p].verified = NoClient
                  => \A k \in Targets : record'[k] # record[k] => k[2] = BootstrapId
<1>1. Inv /\ [Next]_vars => A
  <2> SUFFICES ASSUME Inv, [Next]_vars, NEW p \in Handlers, RouteWrites(p),
                      handler[p].verified = NoClient,
                      NEW k \in Targets, record'[k] # record[k]
               PROVE  k[2] = BootstrapId
    OBVIOUS
  <2>1. At(p, "factory") /\ Judged(handler[p]) /\ k = Target(handler[p].request)
    BY RouteStep DEF RouteWrites
  <2>2. handler[p].request.clientId = BootstrapId
    BY <2>1 DEF Judged, At, IsSeed
  <2> QED
    BY <2>1, <2>2 DEF Target
<1> HIDE DEF A
<1>2. Spec => [][A]_vars
  BY <1>1, Invariance, PTL DEF Spec
<1> QED
  BY <1>2 DEF A, UnsignedWritesOnlySeed
-----------------------------------------------------------------------------
(* With requests and local calls in turn, a handler at work is alone, and   *)
(* what it has found still holds until its own call changes the credential: *)
(* the lock, that a locked API is empty, and whether the client exists.     *)
Alone(p) ==
    /\ \A q \in Handlers \ {p} : ~Busy(q)
    /\ \A l \in Locals : ~StoreProofs!InOperation(l)

Current(p) ==
    /\ handler[p].locked <=> BootstrapId \notin KnownClients
    /\ At(p, "verifyClient") => ~handler[p].locked
    /\ handler[p].step \in {"lookUp", "factory"} /\ handler[p].locked => KnownClients = {}
    /\ At(p, "factory") /\ call[p].operation = "setSecret" =>
          (handler[p].request.method = "POST" <=> record[call[p].key] = NoRecord)

Changed(p) == At(p, "factory") /\ call[p].step = "clearBackup"

InTurn == Setup.oneAtATime =>
    \A p \in Handlers : Busy(p) => Alone(p) /\ (Changed(p) \/ Current(p))

(* What one step of a handler that is alone must establish.                 *)
LEMMA OneInTurn ==
    ASSUME NEW p \in Handlers, Alone(p), UNCHANGED deployment,
           \A q \in Handlers \ {p} : handler'[q] = handler[q],
           \A q \in (Handlers \cup Locals) \ {p} : call'[q] = call[q],
           Busy(p)' => Changed(p)' \/ Current(p)'
    PROVE  InTurn'
<1>1. \A q \in Handlers \ {p} : ~Busy(q)'
  BY DEF Alone, Busy
<1>2. \A l \in Locals : l \notin Handlers
  BY ManagementAssumption
<1>3. \A l \in Locals : ~StoreProofs!InOperation(l)'
  BY <1>2 DEF Alone, StoreProofs!InOperation
<1>4. Alone(p)'
  BY <1>1, <1>3 DEF Alone
<1> QED
  BY <1>1, <1>4 DEF InTurn

(* A handler that goes on without a change of a store.                      *)
LEMMA MovesInTurn ==
    ASSUME NEW p \in Handlers, Alone(p), NEW state, Moves(p, state),
           state.step \in Working =>
              /\ state.locked <=> BootstrapId \notin KnownClients
              /\ state.step = "verifyClient" => ~state.locked
              /\ state.step \in {"lookUp", "factory"} /\ state.locked => KnownClients = {}
    PROVE  InTurn'
<1>1. KnownClients' = KnownClients
  BY DEF Moves, KnownClients
<1>2. ASSUME Busy(p)' PROVE Current(p)'
  <2>1. state.step \in Working /\ handler'[p] = state
    BY <1>2 DEF Moves, Busy, Answered, Working
  <2>2. At(p, "factory")' => call'[p].operation # "setSecret"
    BY <2>1 DEF Moves, At
  <2> QED
    BY <1>1, <2>1, <2>2 DEF Current, At
<1> QED
  BY <1>2, OneInTurn DEF Moves

(* Every step keeps the turns.                                              *)
LEMMA InTurnStep == Inv /\ InTurn /\ [Next]_vars => InTurn'
<1> SUFFICES ASSUME Inv, InTurn, [Next]_vars PROVE InTurn'
  OBVIOUS
<1>0. /\ \A p \in Setup.handlers : p \in Handlers
      /\ \A request \in Setup.requests : request \in RequestSet
  BY ManagementAssumption DEF Inv, Setup, DeploymentKinds
<1>1. deployment' = deployment
  BY DEF Next, Receive, VerifyBootstrap, VerifyClient, LookUp, FactoryCommand,
         HandlerFails, LocalCall, Proceed, vars
<1>2. CASE ~Setup.oneAtATime
  BY <1>1, <1>2 DEF InTurn, Setup
<1>3. CASE Setup.oneAtATime
  <2>1. ASSUME NEW p \in Handlers, Busy(p) PROVE Alone(p) /\ (Changed(p) \/ Current(p))
    BY <1>3, <2>1 DEF InTurn
  <2>2. ASSUME NEW p \in Handlers, Busy(p), ~At(p, "factory") PROVE Alone(p) /\ Current(p)
    BY <2>1, <2>2 DEF Changed
  <2>3. ASSUME NEW p \in Handlers, NEW request \in RequestSet, Receive(p, request)
        PROVE  InTurn'
    <3>1. PICK state : /\ Moves(p, state)
                       /\ state.locked <=> BootstrapId \notin KnownClients
                       /\ state.step = "verifyBootstrap" <=> KnownClients # {}
                       /\ state.step \in {"200", "403", "locked", "verifyBootstrap",
                                          "lookUp", "factory"}
      BY <2>3, ReceiveMoves
    <3>2. \A l \in Locals : Store!InOperation(l) <=> StoreProofs!InOperation(l)
      BY DEF Store!InOperation, StoreProofs!InOperation
    <3>3. Alone(p)
      BY <1>3, <2>3, <3>2 DEF Receive, Alone
    <3> QED
      BY <3>1, <3>3, MovesInTurn
  <2>4. ASSUME NEW p \in Handlers, VerifyBootstrap(p) PROVE InTurn'
    <3>1. PICK state : /\ Moves(p, state)
                       /\ state.locked = handler[p].locked
                       /\ state.step \in {"verifyClient", "403"}
                       /\ state.step = "verifyClient" => BootstrapId \in KnownClients
      BY <2>4, VerifyBootstrapMoves
    <3>2. Alone(p) /\ Current(p)
      BY <2>2, <2>4 DEF VerifyBootstrap, At, Busy, Working
    <3> QED
      BY <3>1, <3>2, MovesInTurn DEF Current, Working
  <2>5. ASSUME NEW p \in Handlers, VerifyClient(p) PROVE InTurn'
    <3>1. PICK state : /\ Moves(p, state)
                       /\ state.locked = handler[p].locked
                       /\ state.step \in {"200", "403", "locked", "lookUp", "factory"}
      BY <2>5, VerifyClientMoves
    <3>2. Alone(p) /\ Current(p) /\ At(p, "verifyClient")
      BY <2>2, <2>5 DEF VerifyClient, At, Busy, Working
    <3> QED
      BY <3>1, <3>2, MovesInTurn DEF Current, Working
  <2>6. ASSUME NEW p \in Handlers, LookUp(p) PROVE InTurn'
    <3>1. /\ UNCHANGED <<record, past, deployment>> /\ At(p, "lookUp")
          /\ \A q \in Handlers \ {p} : handler'[q] = handler[q]
          /\ \A q \in (Handlers \cup Locals) \ {p} : call'[q] = call[q]
      BY <2>6, LookUpMoves
    <3>2. Alone(p) /\ Current(p) /\ handler[p] \in HandlerStates
      BY <2>2, <3>1 DEF At, Busy, Working, Inv, HandlerTyped, Answered
    <3>3. CASE handler'[p] = Answered("403")
      BY <3>1, <3>2, <3>3, OneInTurn DEF Busy, Answered, Working
    <3>4. CASE /\ At(p, "factory")' /\ handler'[p] = [handler[p] EXCEPT !.step = "factory"]
               /\ call'[p].key = Target(handler[p].request)
               /\ call'[p].operation = OperationOf(handler[p].request)
               /\ record[Target(handler[p].request)] # NoRecord
                     <=> handler[p].request.method # "POST"
      <4>1. /\ handler'[p].locked = handler[p].locked /\ handler'[p].step = "factory"
            /\ handler'[p].request = handler[p].request
        BY <3>2, <3>4 DEF HandlerStates
      <4>2. KnownClients' = KnownClients
        BY <3>1 DEF KnownClients
      <4>3. record'[call'[p].key] = record[Target(handler[p].request)]
        BY <3>1, <3>4
      <4>4. Current(p)'
        BY <3>1, <3>2, <3>4, <4>1, <4>2, <4>3 DEF Current, At
      <4> QED
        BY <3>1, <3>2, <4>4, OneInTurn
    <3> QED
      BY <2>6, <3>3, <3>4, LookUpMoves
  <2>7. ASSUME NEW p \in Handlers, FactoryCommand(p) PROVE InTurn'
    <3>1. /\ At(p, "factory") /\ Store!Command(p)
          /\ \A q \in Handlers \ {p} : handler'[q] = handler[q]
          /\ \/ Answered("200") = handler'[p]
             \/ handler'[p] = handler[p] /\ call'[p].step # "returned"
      BY <2>7, FactoryMoves DEF FactoryCommand
    <3>2. Alone(p) /\ (Changed(p) \/ Current(p))
      BY <2>1, <3>1 DEF At, Busy, Working
    <3>3. /\ \A q \in (Handlers \cup Locals) \ {p} : call'[q] = call[q]
          /\ call'[p].step # "returned" =>
                call'[p].key = call[p].key /\ call'[p].operation = call[p].operation
          /\ record' # record => call'[p].step \in {"returned", "clearBackup"}
      BY <3>1, CommandFrame DEF Inv
    <3>4. ASSUME Busy(p)' PROVE Changed(p)' \/ Current(p)'
      <4>1. handler'[p] = handler[p] /\ call'[p].step # "returned"
        BY <3>1, <3>4 DEF Busy, Answered, Working
      <4>2. CASE Changed(p)
        <5>1. call[p].step = "clearBackup"
          BY <4>2 DEF Changed
        <5>2. call'[p].step = "returned"
          BY <3>1, <5>1, ClearingReturns DEF Inv
        <5> QED
          BY <4>1, <5>2
      <4>3. CASE Current(p) /\ record' = record
        <5>1. KnownClients' = KnownClients
          BY <4>3 DEF KnownClients
        <5> QED
          BY <3>3, <4>1, <4>3, <5>1 DEF Current, At
      <4>4. CASE record' # record
        BY <3>1, <3>3, <4>1, <4>4 DEF Changed, At
      <4> QED
        BY <3>2, <4>2, <4>3, <4>4
    <3> QED
      BY <1>1, <3>1, <3>2, <3>3, <3>4, OneInTurn
  <2>8. ASSUME NEW p \in Handlers, HandlerFails(p) PROVE InTurn'
    <3>1. /\ UNCHANGED <<record, past, call, deployment>>
          /\ \A q \in Handlers \ {p} : handler'[q] = handler[q]
          /\ handler'[p] = Answered("200")
      BY <2>8, FailureMoves
    <3>2. Alone(p)
      BY <2>1, <2>8 DEF HandlerFails, Busy
    <3> QED
      BY <3>1, <3>2, OneInTurn DEF Busy, Answered, Working
  <2>9. ASSUME NEW l \in Locals, LocalCall(l) PROVE InTurn'
    <3>1. \A p \in Handlers : ~Busy(p)
      BY <1>3, <2>9 DEF LocalCall
    <3>2. handler' = handler
      BY <2>9 DEF LocalCall
    <3> QED
      BY <3>1, <3>2 DEF InTurn, Busy
  <2>10. ASSUME UNCHANGED vars PROVE InTurn'
    BY <2>10 DEF vars, storeVars, InTurn, Setup, Busy, Alone, Changed, Current, At,
       KnownClients, StoreProofs!InOperation
  <2>11. ASSUME NEW p \in Setup.handlers,
                \/ \E request \in Setup.requests : Receive(p, request)
                \/ VerifyBootstrap(p) \/ VerifyClient(p) \/ LookUp(p)
                \/ FactoryCommand(p) \/ HandlerFails(p)
         PROVE  InTurn'
    BY <1>0, <2>3, <2>4, <2>5, <2>6, <2>7, <2>8, <2>11
  <2> QED
    BY <2>9, <2>10, <2>11 DEF Next
<1> QED
  BY <1>2, <1>3

(* Requests and local calls in turn see the store as they left it.          *)
THEOREM TurnInvariance == Spec => []InTurn
<1>1. Init => InTurn
  BY DEF Init, InTurn, Busy, Answered, Working
<1> QED
  BY <1>1, InTurnStep, Invariance, PTL DEF Spec

(* What a handler in turn knows when its call changes a credential.         *)
LEMMA WritesInTurn ==
    ASSUME Inv, InTurn, [Next]_vars, Setup.oneAtATime, NEW p \in Handlers, RouteWrites(p)
    PROVE  /\ Current(p) /\ Judged(handler[p]) /\ At(p, "factory")
           /\ \A k \in Targets : record'[k] # record[k] => k = Target(handler[p].request)
<1>1. At(p, "factory") /\ call[p].step \in {"store", "remove"} /\ Judged(handler[p])
  BY RouteStep DEF RouteWrites
<1>2. Current(p)
  BY <1>1 DEF InTurn, Changed, Busy, At, Working
<1> QED
  BY <1>1, <1>2, RouteStep

(* In turn, a route without the bootstrap credential writes only to an      *)
(* empty store, and only that credential.                                   *)
THEOREM LockKept == Spec => LockHolds
<1> DEFINE A == Setup.oneAtATime => \A p \in Handlers :
                  RouteWrites(p) /\ BootstrapId \notin KnownClients
                  => /\ KnownClients = {}
                     /\ \A k \in Targets : record'[k] # record[k] => k[2] = BootstrapId
<1>1. Inv /\ InTurn /\ [Next]_vars => A
  <2> SUFFICES ASSUME Inv, InTurn, [Next]_vars, Setup.oneAtATime, NEW p \in Handlers,
                      RouteWrites(p), BootstrapId \notin KnownClients
               PROVE  /\ KnownClients = {}
                      /\ \A k \in Targets : record'[k] # record[k] => k[2] = BootstrapId
    OBVIOUS
  <2>1. Current(p) /\ Judged(handler[p]) /\ At(p, "factory")
    BY WritesInTurn
  <2>2. KnownClients = {} /\ handler[p].request.clientId = BootstrapId
    BY <2>1 DEF Current, Judged, At, IsSeed
  <2> QED
    BY <2>2, WritesInTurn DEF Target
<1> HIDE DEF A
<1>2. Spec => [][A]_vars
  BY <1>1, Invariance, TurnInvariance, PTL DEF Spec
<1> QED
  BY <1>2 DEF A, LockHolds

(* A step of a handler that shuts everybody out is a command of a signed    *)
(* request; in turn, of the removal of the bootstrap client.                *)
THEOREM SignersShutOut == Spec => OnlySignersShutOut
<1> DEFINE A == ~ShutOut /\ ShutOut' => \A p \in Handlers : RouteWrites(p)
                  => /\ handler[p].verified # NoClient
                     /\ Setup.oneAtATime =>
                           /\ handler[p].request.method = "DELETE"
                           /\ handler[p].request.clientId = BootstrapId
<1>1. Inv /\ InTurn /\ [Next]_vars => A
  <2> SUFFICES ASSUME Inv, InTurn, [Next]_vars, ~ShutOut, ShutOut', NEW p \in Handlers,
                      RouteWrites(p)
               PROVE  /\ handler[p].verified # NoClient
                      /\ Setup.oneAtATime =>
                            /\ handler[p].request.method = "DELETE"
                            /\ handler[p].request.clientId = BootstrapId
    OBVIOUS
  <2> DEFINE request == handler[p].request
  <2>1. /\ At(p, "factory") /\ Judged(handler[p]) /\ Store!Command(p)
        /\ call[p].key = Target(request) /\ call[p].operation = OperationOf(request)
        /\ \A k \in Targets : record'[k] # record[k] => k = Target(request)
    BY RouteStep DEF FactoryCommand, RouteWrites
  <2>2. PICK c \in ClientIds : /\ record'[<<"http", c>>] # NoRecord
                              /\ c # BootstrapId
    BY DEF ShutOut, KnownClients
  <2>3. record'[<<"http", BootstrapId>>] = NoRecord
    BY ManagementAssumption DEF ShutOut, KnownClients
  <2>4. <<"http", BootstrapId>> \in Targets /\ <<"http", c>> \in Targets
    BY ManagementAssumption DEF Targets, Kinds
  <2>5. ASSUME request.clientId = BootstrapId
        PROVE  request.method = "DELETE"
    <3>1. record[<<"http", c>>] # NoRecord
      BY <2>1, <2>2, <2>4, <2>5 DEF Target
    <3>2. record[<<"http", BootstrapId>>] # NoRecord
      BY <3>1 DEF ShutOut, KnownClients
    <3>3. call[p].step = "remove"
      BY <2>1, <2>3, <2>4, <3>2, CommandFrame DEF Inv
    <3>4. call[p].operation = "delete"
      BY <2>1, <3>3, CommandFrame, RemovalDeletes DEF Inv
    <3> QED
      BY <2>1, <3>4 DEF OperationOf
  <2>6. handler[p].verified # NoClient
    BY <2>1, <2>5 DEF Judged, At, IsSeed
  <2>7. ASSUME Setup.oneAtATime PROVE request.clientId = BootstrapId
    <3>1. Current(p)
      BY <2>7, WritesInTurn
    <3>2. CASE handler[p].locked
      BY <2>1, <3>2 DEF Judged, At, IsSeed
    <3>3. CASE ~handler[p].locked
      <4>1. record[<<"http", BootstrapId>>] # NoRecord
        BY <3>1, <3>3 DEF Current, KnownClients
      <4>2. <<"http", BootstrapId>> = Target(request)
        BY <2>1, <2>3, <2>4, <4>1
      <4> QED
        BY <4>2 DEF Target
    <3> QED
      BY <3>2, <3>3
  <2> QED
    BY <2>5, <2>6, <2>7
<1> HIDE DEF A
<1>2. Spec => [][A]_vars
  BY <1>1, Invariance, TurnInvariance, PTL DEF Spec
<1> QED
  BY <1>2 DEF A, OnlySignersShutOut

(* In turn, an unsigned request is stored only while there is no client.    *)
THEOREM UnsignedNeedsEmpty == Spec => UnsignedWriteOnlyWhileEmpty
<1> DEFINE A == Setup.oneAtATime => \A p \in Handlers :
                  RouteWrites(p) /\ handler[p].verified = NoClient => KnownClients = {}
<1>1. Inv /\ InTurn /\ [Next]_vars => A
  BY WritesInTurn DEF Current, Judged, At
<1> HIDE DEF A
<1>2. Spec => [][A]_vars
  BY <1>1, Invariance, TurnInvariance, PTL DEF Spec
<1> QED
  BY <1>2 DEF A, UnsignedWriteOnlyWhileEmpty

(* In turn, a POST creates and a PUT overwrites, and neither does the other. *)
THEOREM ExistenceKept == Spec => ExistenceRespected
<1> DEFINE A == Setup.oneAtATime => \A p \in Handlers :
                  RouteWrites(p) /\ call[p].operation = "setSecret"
                  => (handler[p].request.method = "POST" <=> record[call[p].key] = NoRecord)
<1>1. Inv /\ InTurn /\ [Next]_vars => A
  BY WritesInTurn DEF Current
<1> HIDE DEF A
<1>2. Spec => [][A]_vars
  BY <1>1, Invariance, TurnInvariance, PTL DEF Spec
<1> QED
  BY <1>2 DEF A, ExistenceRespected
=============================================================================
