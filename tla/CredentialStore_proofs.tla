------------------------ MODULE CredentialStore_proofs ------------------------
(***************************************************************************)
(* Proofs about CredentialStore, for any sets of callers, clients, hashes   *)
(* and arguments, and any deployments.                                      *)
(***************************************************************************)
EXTENDS CredentialStore, TLAPS

(* What an operation is and has read, by the command it awaits.             *)
Fits(c) ==
    /\ c.step \in {"readBackup", "clearBackup"} => c.operation = "revert"
    /\ c.step = "remove" => c.operation = "delete"
    /\ c.step = "read" => c.operation \notin {"create", "delete"}
    /\ c.step = "setBackup" => c.operation = "setSecret" /\ NeedsBackup(c.existing, c.write)
    /\ c.step = "store" =>
          /\ c.operation # "delete"
          /\ c.operation \in {"regenerateSecret", "setAllowedIps", "revert"} =>
                c.existing # NoRecord
    /\ c.operation = "revert" /\ c.step # "readBackup" => c.backupHash # NoHash

(* Every hash in a record, in a backup or on its way from one to the other  *)
(* has been held.                                                           *)
KeyHeld(k) ==
    /\ record[k] # NoRecord => record[k].hash \in past[k]
    /\ backup[k] # NoHash => backup[k] \in past[k]

CallHeld(p) ==
    InOperation(p) =>
        /\ Fits(call[p])
        /\ call[p].existing # NoRecord => call[p].existing.hash \in past[call[p].key]
        /\ call[p].backupHash # NoHash => call[p].backupHash \in past[call[p].key]

HeldInv ==
    /\ TypeOK
    /\ \A k \in Keys : KeyHeld(k)
    /\ \A p \in Callers : CallHeld(p)
-----------------------------------------------------------------------------
(* What the factory computes from a record is a record.                     *)
LEMMA OptionsType ==
    ASSUME NEW write \in Writes
    PROVE  /\ Created(write) \in Records
           /\ Created(write).hash = write.hash
           /\ \A existing \in Records :
                 /\ Rotated(existing, write) \in Records
                 /\ Rotated(existing, write).hash = write.hash
<1>1. \A e \in Instants \cup {Never} : OrElse(write.expiresAt, e) \in Instants \cup {Never}
  BY DEF OrElse, Writes
<1>2. \A ips \in SUBSET Addresses : OrElse(write.allowedIps, ips) \in SUBSET Addresses
  BY DEF OrElse, Writes
<1>3. \A b \in BOOLEAN : OrElse(write.fromDbSeed, b) \in BOOLEAN
  BY DEF OrElse, Writes
<1>4. \A purpose \in Purposes : OrElse(write.purpose, purpose) \in Purposes
  BY DEF OrElse, Writes
<1>5. write.hash \in Hashes
  BY DEF Writes
<1>6. Created(write) \in Records /\ Created(write).hash = write.hash
  BY <1>1, <1>2, <1>3, <1>4, <1>5 DEF Created, Records, Purposes
<1>7. ASSUME NEW existing \in Records
      PROVE  Rotated(existing, write) \in Records /\ Rotated(existing, write).hash = write.hash
  <2>1. existing # NoRecord
    BY NoRecordAssumption
  <2> QED
    BY <1>1, <1>2, <1>3, <1>4, <1>5, <2>1 DEF Rotated, Records
<1> QED
  BY <1>6, <1>7

(* What a store command writes is a record.                                 *)
LEMMA NewRecordType ==
    ASSUME NEW c \in CallStates, c.step = "store", Fits(c)
    PROVE  NewRecord(c) \in Records
<1>1. c.write \in Writes /\ c.existing \in Records \cup {NoRecord}
  BY StoreAssumption DEF CallStates
<1>2. CASE c.operation = "create"
  BY <1>1, <1>2, OptionsType DEF NewRecord
<1>3. CASE c.operation = "setSecret"
  <2>1. NewRecord(c) = Rotated(c.existing, c.write)
    BY <1>3 DEF NewRecord
  <2>2. c.existing = NoRecord => Rotated(c.existing, c.write) = Created(c.write)
    BY DEF Rotated
  <2> QED
    BY <1>1, <2>1, <2>2, OptionsType
<1>4. CASE c.operation = "regenerateSecret"
  <2>1. c.existing \in Records
    BY <1>1, <1>4 DEF Fits
  <2>2. NewRecord(c) = Regenerated(c.existing, c.write)
    BY <1>4 DEF NewRecord
  <2>3. Rotated(c.existing, c.write) \in Records
    BY <1>1, <2>1, OptionsType
  <2>4. c.existing.fromDbSeed \in BOOLEAN /\ c.existing.purpose \in Purposes
    BY <2>1 DEF Records
  <2> QED
    BY <2>2, <2>3, <2>4 DEF Regenerated, Records
<1>5. CASE c.operation = "setAllowedIps"
  <2>1. c.existing \in Records
    BY <1>1, <1>5 DEF Fits
  <2>2. OrElse(c.write.allowedIps, {}) \in SUBSET Addresses
    BY <1>1 DEF OrElse, Writes
  <2> QED
    BY <1>5, <2>1, <2>2 DEF NewRecord, WithAllowedIps, Records
<1>6. CASE c.operation = "rawSetSecretHash"
  <2>1. NewRecord(c) = Rehashed(c.existing, c.write)
    BY <1>6 DEF NewRecord
  <2>2. CASE c.existing = NoRecord
    <3> DEFINE write == [c.write EXCEPT !.expiresAt = Unset, !.allowedIps = Unset,
                                        !.fromDbSeed = Unset, !.purpose = Unset]
    <3>1. write \in Writes
      BY <1>1 DEF Writes
    <3>2. NewRecord(c) = Created(write)
      BY <2>1, <2>2 DEF Rehashed
    <3> HIDE DEF write
    <3> QED
      BY <3>1, <3>2, OptionsType
  <2>3. CASE c.existing \in Records
    BY <1>1, <2>1, <2>3, NoRecordAssumption DEF Rehashed, Records, Writes, Purposes
  <2> QED
    BY <1>1, <2>2, <2>3
<1>7. CASE c.operation = "revert"
  <2>1. c.existing \in Records /\ c.backupHash \in Hashes
    BY <1>1, <1>7 DEF Fits, CallStates
  <2> QED
    BY <1>7, <2>1 DEF NewRecord, Reverted, Records
<1> QED
  BY <1>2, <1>3, <1>4, <1>5, <1>6, <1>7 DEF CallStates, Operations, FactoryOperations, Fits

(* A caller that is in an operation has the state of one.                   *)
LEMMA InOperationShape ==
    ASSUME TypeOK, NEW p \in Callers, InOperation(p)
    PROVE  call[p] \in CallStates
  BY DEF TypeOK, InOperation, Returned

(* The usage of a deployment.                                               *)
LEMMA UsageType ==
    ASSUME deployment \in DOMAIN Deployments
    PROVE  /\ Usage \in DeploymentKinds
           /\ Usage.operations \subseteq Operations
           /\ Usage.initial \subseteq InitialRecords
           /\ \A operation \in Usage.operations : Arguments(operation) \subseteq WriteSet
<1>1. Usage \in DeploymentKinds
  BY StoreAssumption DEF Usage
<1>2. Usage.writes \subseteq WriteSet /\ Usage.writes # {}
  BY <1>1 DEF DeploymentKinds
<1>3. (CHOOSE write \in Usage.writes : TRUE) \in Usage.writes
  BY <1>2
<1>4. \A operation \in Usage.operations : Arguments(operation) \subseteq WriteSet
  BY <1>2, <1>3 DEF Arguments
<1> QED
  BY <1>1, <1>4 DEF DeploymentKinds
-----------------------------------------------------------------------------
(* What one step of caller p must establish: it alone has moved, what has   *)
(* been held stays held, and p and the keys are as HeldInv says.            *)
LEMMA HeldMoves ==
    ASSUME HeldInv, TypeOK', NEW p \in Callers,
           \A q \in Callers \ {p} : call'[q] = call[q],
           \A k \in Keys : past[k] \subseteq past'[k],
           CallHeld(p)', \A k \in Keys : KeyHeld(k)'
    PROVE  HeldInv'
<1>1. ASSUME NEW q \in Callers \ {p} PROVE CallHeld(q)'
  <2>1. CallHeld(q) /\ call'[q] = call[q]
    BY DEF HeldInv
  <2>2. InOperation(q) => call[q].key \in Keys
    BY InOperationShape DEF HeldInv, CallStates
  <2> QED
    BY <2>1, <2>2 DEF CallHeld, InOperation
<1> QED
  BY <1>1 DEF HeldInv

(* A caller that returns is in no operation.                                *)
LEMMA ReturnShape ==
    ASSUME TypeOK, NEW p \in Callers, NEW result \in Results, Return(p, result)
    PROVE  /\ call' \in [Callers -> CallStates \cup {Returned(r) : r \in Results}]
           /\ call'[p].step = "returned"
           /\ \A q \in Callers \ {p} : call'[q] = call[q]
  BY DEF TypeOK, Return, Returned

(* The call and the stores after each action, as far as they matter.        *)
NextCallTyped ==
    call' \in [Callers -> CallStates \cup {Returned(r) : r \in Results}]

OthersStay(p) == \A q \in Callers \ {p} : call'[q] = call[q]

SameArguments(p) ==
    /\ call'[p].operation = call[p].operation
    /\ call'[p].key = call[p].key
    /\ call'[p].write = call[p].write

(* What the operations are called with is a write.                          *)
LEMMA ArgumentWrites ==
    ASSUME TypeOK
    PROVE  \A operation \in Usage.operations :
              \A write \in Arguments(operation) : write \in WriteSet
  BY UsageType DEF TypeOK

(* Begin: the caller's first command, with nothing read yet.                *)
LEMMA BeginEffect ==
    ASSUME TypeOK, NEW p \in Callers, NEW operation \in Usage.operations,
           NEW k \in Keys, NEW write \in WriteSet,
           Begin(p, operation, k, write)
    PROVE  /\ NextCallTyped /\ OthersStay(p)
           /\ call'[p].step = FirstStep(operation)
           /\ call'[p].operation = operation /\ call'[p].key = k
           /\ call'[p].existing = NoRecord /\ call'[p].backupHash = NoHash
           /\ operation \in Operations
           /\ FirstStep(operation) \in Steps
<1>1. write \in WriteSet /\ operation \in Operations
  BY UsageType DEF TypeOK
<1>2. FirstStep(operation) \in Steps
  BY <1>1 DEF FirstStep, Steps, Operations, FactoryOperations
<1> DEFINE state == [step |-> FirstStep(operation), operation |-> operation, key |-> k,
                     write |-> write, existing |-> NoRecord, backupHash |-> NoHash]
<1>3. state \in CallStates
  BY <1>1, <1>2 DEF CallStates
<1>4. call' = [call EXCEPT ![p] = state]
  BY DEF Begin
<1>5. /\ state.step = FirstStep(operation) /\ state.operation = operation
      /\ state.key = k /\ state.existing = NoRecord /\ state.backupHash = NoHash
  OBVIOUS
<1> HIDE DEF state
<1>6. call'[p] = state /\ NextCallTyped /\ OthersStay(p)
  BY <1>3, <1>4 DEF TypeOK, NextCallTyped, OthersStay
<1> QED
  BY <1>1, <1>2, <1>5, <1>6

(* ReadBackup: a revert has the backup, or ends without one.                *)
LEMMA ReadBackupEffect ==
    ASSUME TypeOK, NEW p \in Callers, ReadBackup(p)
    PROVE  /\ NextCallTyped /\ OthersStay(p)
           /\ \/ backup[call[p].key] = NoHash /\ call'[p].step = "returned"
              \/ /\ backup[call[p].key] # NoHash
                 /\ call'[p].step = "read"
                 /\ call'[p].existing = call[p].existing
                 /\ call'[p].backupHash = backup[call[p].key]
                 /\ SameArguments(p)
<1>1. InOperation(p) /\ call[p] \in CallStates
  BY InOperationShape DEF ReadBackup, At, InOperation
<1> DEFINE hash == backup[call[p].key]
<1>2. hash \in Hashes \cup {NoHash} /\ call[p].existing \in Records \cup {NoRecord}
  BY <1>1 DEF TypeOK, CallStates
<1>3. CASE hash = NoHash
  <2>1. Return(p, "notReverted") /\ "notReverted" \in Results
    BY <1>3 DEF ReadBackup, Results
  <2> QED
    BY <1>3, <2>1, ReturnShape DEF NextCallTyped, OthersStay
<1>4. CASE hash # NoHash
  <2> DEFINE state == [call[p] EXCEPT !.step = "read", !.backupHash = hash]
  <2>1. call' = [call EXCEPT ![p] = state]
    BY <1>4 DEF ReadBackup
  <2>2. /\ state \in CallStates
        /\ state.step = "read" /\ state.backupHash = hash
        /\ state.existing = call[p].existing /\ state.operation = call[p].operation
        /\ state.key = call[p].key /\ state.write = call[p].write
    BY <1>1, <1>2 DEF CallStates, Steps
  <2> HIDE DEF hash, state
  <2>3. call'[p] = state /\ NextCallTyped /\ OthersStay(p)
    BY <2>1, <2>2 DEF TypeOK, NextCallTyped, OthersStay
  <2> QED
    BY <1>4, <2>2, <2>3 DEF SameArguments, hash
<1> QED
  BY <1>3, <1>4

(* ReadRecord: the caller has the stored record, or ends without one.       *)
LEMMA ReadRecordEffect ==
    ASSUME TypeOK, NEW p \in Callers, ReadRecord(p)
    PROVE  /\ NextCallTyped /\ OthersStay(p)
           /\ \/ call'[p].step = "returned"
                 /\ call[p].operation \in {"regenerateSecret", "setAllowedIps"}
              \/ /\ record[call[p].key] = NoRecord
                      => call[p].operation \notin {"regenerateSecret", "setAllowedIps"}
                 /\ call'[p].step = AfterRead(call[p], record[call[p].key])
                 /\ call'[p].existing = record[call[p].key]
                 /\ call'[p].backupHash = call[p].backupHash
                 /\ SameArguments(p)
<1>1. InOperation(p) /\ call[p] \in CallStates
  BY InOperationShape DEF ReadRecord, At, InOperation
<1> DEFINE existing == record[call[p].key]
           step == AfterRead(call[p], existing)
<1>2. existing \in Records \cup {NoRecord} /\ call[p].backupHash \in Hashes \cup {NoHash}
  BY <1>1 DEF TypeOK, CallStates
<1>3. CASE existing = NoRecord /\ call[p].operation \in {"regenerateSecret", "setAllowedIps"}
  <2>1. Return(p, "notFound") /\ "notFound" \in Results
    BY <1>3 DEF ReadRecord, Results
  <2> QED
    BY <1>3, <2>1, ReturnShape DEF NextCallTyped, OthersStay
<1>4. CASE ~(existing = NoRecord /\ call[p].operation \in {"regenerateSecret", "setAllowedIps"})
  <2> DEFINE state == [call[p] EXCEPT !.step = step, !.existing = existing]
  <2>1. call' = [call EXCEPT ![p] = state]
    BY <1>4 DEF ReadRecord
  <2>2. step \in Steps
    BY DEF AfterRead, Steps
  <2> HIDE DEF existing, step
  <2>3. /\ state \in CallStates
        /\ state.step = step /\ state.existing = existing
        /\ state.backupHash = call[p].backupHash /\ state.operation = call[p].operation
        /\ state.key = call[p].key /\ state.write = call[p].write
    BY <1>1, <1>2, <2>2 DEF CallStates
  <2> HIDE DEF state
  <2>4. call'[p] = state /\ NextCallTyped /\ OthersStay(p)
    BY <2>1, <2>3 DEF TypeOK, NextCallTyped, OthersStay
  <2> QED
    BY <1>4, <2>3, <2>4 DEF SameArguments, existing, step
<1> QED
  BY <1>3, <1>4

(* A caller that goes to its next command with what it has.                 *)
LEMMA GoToEffect ==
    ASSUME TypeOK, NEW p \in Callers, InOperation(p), NEW step \in Steps, GoTo(p, step)
    PROVE  /\ NextCallTyped /\ OthersStay(p)
           /\ call'[p].step = step
           /\ call'[p].existing = call[p].existing
           /\ call'[p].backupHash = call[p].backupHash
           /\ SameArguments(p)
<1>1. call[p] \in CallStates
  BY InOperationShape
<1> DEFINE state == [call[p] EXCEPT !.step = step]
<1>2. call' = [call EXCEPT ![p] = state]
  BY DEF GoTo
<1>3. /\ state \in CallStates /\ state.step = step
      /\ state.existing = call[p].existing /\ state.backupHash = call[p].backupHash
      /\ state.operation = call[p].operation
      /\ state.key = call[p].key /\ state.write = call[p].write
  BY <1>1 DEF CallStates
<1> HIDE DEF state
<1>4. call'[p] = state /\ NextCallTyped /\ OthersStay(p)
  BY <1>2, <1>3 DEF TypeOK, NextCallTyped, OthersStay
<1> QED
  BY <1>3, <1>4 DEF SameArguments
-----------------------------------------------------------------------------
(* HeldInv holds at first and through every action.                         *)
LEMMA HeldInit == Init => HeldInv
<1> SUFFICES ASSUME Init PROVE HeldInv
  OBVIOUS
<1>1. Usage.initial \subseteq Records \cup {NoRecord}
  BY UsageType, StoreAssumption DEF Init
<1>2. \A k \in Keys : record[k] \in Records \cup {NoRecord}
  BY <1>1 DEF Init
<1>3. \A k \in Keys : /\ past[k] = {r.hash : r \in {record[k]} \ {NoRecord}}
                      /\ past[k] \subseteq Hashes
  BY <1>2 DEF Init, Records
<1>4. TypeOK
  BY <1>1, <1>3 DEF Init, TypeOK, Results
<1>5. \A k \in Keys : KeyHeld(k)
  BY <1>3 DEF Init, KeyHeld
<1>6. \A p \in Callers : CallHeld(p)
  BY DEF Init, CallHeld, InOperation, Returned
<1> QED
  BY <1>4, <1>5, <1>6 DEF HeldInv

(* A caller that begins has no hash yet.                                    *)
LEMMA BeginHeld ==
    ASSUME HeldInv, NEW p \in Callers, NEW operation \in Usage.operations,
           NEW k \in Keys, NEW write \in WriteSet,
           Begin(p, operation, k, write)
    PROVE  HeldInv'
<1>1. TypeOK
  BY DEF HeldInv
<1>2. UNCHANGED <<deployment, record, backup, past, replaced>>
  BY DEF Begin
<1>3. TypeOK'
  BY <1>1, <1>2, BeginEffect DEF TypeOK, NextCallTyped
<1>4. Fits(call[p])'
  BY <1>1, BeginEffect DEF Fits, FirstStep, Operations, FactoryOperations
<1>5. CallHeld(p)'
  BY <1>1, <1>4, BeginEffect DEF CallHeld
<1>6. OthersStay(p)
  BY <1>1, BeginEffect
<1> QED
  BY <1>2, <1>3, <1>5, <1>6, HeldMoves DEF HeldInv, KeyHeld, OthersStay

(* A read brings a hash to the caller from a key where it was held.         *)
LEMMA ReadHeld ==
    ASSUME HeldInv, NEW p \in Callers, ReadBackup(p) \/ ReadRecord(p)
    PROVE  HeldInv'
<1>1. TypeOK /\ InOperation(p) /\ CallHeld(p)
  BY DEF HeldInv, ReadBackup, ReadRecord, At, InOperation
<1>2. call[p] \in CallStates
  BY <1>1, InOperationShape
<1>3. UNCHANGED <<deployment, record, backup, past, replaced>>
  BY DEF ReadBackup, ReadRecord
<1>4. TypeOK' /\ OthersStay(p)
  BY <1>1, <1>3, ReadBackupEffect, ReadRecordEffect DEF TypeOK, NextCallTyped
<1>5. KeyHeld(call[p].key)
  BY <1>2 DEF HeldInv, CallStates
<1>6. CallHeld(p)'
  <2>1. CASE ReadBackup(p)
    <3>1. call[p].operation = "revert" /\ call[p].step = "readBackup"
      BY <1>1, <2>1 DEF CallHeld, Fits, ReadBackup, At
    <3> QED
      BY <1>1, <1>3, <1>5, <2>1, <3>1, ReadBackupEffect
      DEF CallHeld, Fits, InOperation, SameArguments, KeyHeld
  <2>2. CASE ReadRecord(p)
    <3>1. /\ call[p].step = "read" /\ call[p].operation \notin {"create", "delete"}
          /\ call[p].operation = "revert" => call[p].backupHash # NoHash
      BY <1>1, <2>2 DEF CallHeld, Fits, ReadRecord, At
    <3> QED
      BY <1>1, <1>3, <1>5, <2>2, <3>1, ReadRecordEffect
      DEF CallHeld, Fits, InOperation, SameArguments, KeyHeld, AfterRead
  <2> QED
    BY <2>1, <2>2
<1> QED
  BY <1>3, <1>4, <1>6, HeldMoves DEF HeldInv, KeyHeld, OthersStay

(* The store of a record: its key alone changes, to what was computed.      *)
LEMMA StoreEffect ==
    ASSUME TypeOK, NEW p \in Callers, CallHeld(p), StoreRecord(p)
    PROVE  /\ NextCallTyped /\ OthersStay(p)
           /\ call[p] \in CallStates /\ InOperation(p) /\ call[p].step = "store"
           /\ call[p].key \in Keys
           /\ NewRecord(call[p]) \in Records
           /\ record' = [record EXCEPT ![call[p].key] = NewRecord(call[p])]
           /\ past' = [past EXCEPT ![call[p].key] =
                          past[call[p].key] \cup {NewRecord(call[p]).hash}]
           /\ call[p].operation = "revert" =>
                 /\ call'[p].step = "clearBackup"
                 /\ call'[p].existing = call[p].existing
                 /\ call'[p].backupHash = call[p].backupHash
                 /\ SameArguments(p)
           /\ call[p].operation # "revert" => call'[p].step = "returned"
<1>1. InOperation(p) /\ call[p].step = "store"
  BY DEF StoreRecord, At, InOperation
<1>2. call[p] \in CallStates /\ call[p].key \in Keys
  BY <1>1, InOperationShape DEF CallStates
<1>3. NewRecord(call[p]) \in Records
  BY <1>1, <1>2, NewRecordType DEF CallHeld
<1>4. /\ record' = [record EXCEPT ![call[p].key] = NewRecord(call[p])]
      /\ past' = [past EXCEPT ![call[p].key] =
                     past[call[p].key] \cup {NewRecord(call[p]).hash}]
  BY DEF StoreRecord, TypeOK
<1>5. CASE call[p].operation = "revert"
  <2>1. GoTo(p, "clearBackup") /\ "clearBackup" \in Steps
    BY <1>5 DEF StoreRecord, Steps
  <2> QED
    BY <1>1, <1>2, <1>3, <1>4, <1>5, <2>1, GoToEffect
<1>6. CASE call[p].operation # "revert"
  <2>1. Return(p, "done") /\ "done" \in Results
    BY <1>6 DEF StoreRecord, Results
  <2> QED
    BY <1>1, <1>2, <1>3, <1>4, <1>6, <2>1, ReturnShape DEF NextCallTyped, OthersStay
<1> QED
  BY <1>5, <1>6

(* A stored hash is held from then on.                                      *)
LEMMA StoreHeld ==
    ASSUME HeldInv, NEW p \in Callers, StoreRecord(p)
    PROVE  HeldInv'
<1> DEFINE k == call[p].key
           new == NewRecord(call[p])
<1>1. TypeOK /\ CallHeld(p)
  BY DEF HeldInv
<1>2. /\ NextCallTyped /\ OthersStay(p) /\ InOperation(p)
      /\ k \in Keys /\ new \in Records /\ new.hash \in Hashes
      /\ record' = [record EXCEPT ![k] = new]
      /\ past' = [past EXCEPT ![k] = past[k] \cup {new.hash}]
  BY <1>1, StoreEffect DEF Records
<1>3. replaced' \in [Keys -> Hashes \cup {NoHash, Unset}]
  <2>1. PICK hash : replaced' = [replaced EXCEPT ![k] = hash]
                    /\ hash \in Hashes \cup {NoHash, Unset}
    <3>1. record[k] # NoRecord => record[k].hash \in Hashes
      BY <1>1, <1>2 DEF TypeOK, Records
    <3>2. replaced[k] \in Hashes \cup {NoHash, Unset}
      BY <1>1, <1>2 DEF TypeOK
    <3> QED
      BY <3>1, <3>2 DEF StoreRecord
  <2> QED
    BY <1>1, <2>1 DEF TypeOK
<1>4. UNCHANGED <<deployment, backup>>
  BY DEF StoreRecord
<1>5. past' \in [Keys -> SUBSET Hashes] /\ \A j \in Keys : past[j] \subseteq past'[j]
  BY <1>1, <1>2 DEF TypeOK
<1>6. TypeOK'
  BY <1>1, <1>2, <1>3, <1>4, <1>5 DEF TypeOK, NextCallTyped
<1>7. \A j \in Keys : KeyHeld(j)'
  <2> SUFFICES ASSUME NEW j \in Keys PROVE KeyHeld(j)'
    OBVIOUS
  <2>1. KeyHeld(j)
    BY DEF HeldInv
  <2>2. record'[j] # NoRecord => record'[j].hash \in past'[j]
    <3>1. CASE j = k
      BY <1>1, <1>2, <3>1 DEF TypeOK
    <3>2. CASE j # k
      BY <1>1, <1>2, <2>1, <3>2 DEF TypeOK, KeyHeld
    <3> QED
      BY <3>1, <3>2
  <2> QED
    BY <1>4, <1>5, <2>1, <2>2 DEF KeyHeld
<1>8. CallHeld(p)'
  <2>1. CASE call[p].operation = "revert"
    <3>1. /\ call'[p].step = "clearBackup" /\ call'[p].operation = "revert"
          /\ call'[p].existing = call[p].existing
          /\ call'[p].backupHash = call[p].backupHash /\ call'[p].key = k
      BY <1>1, <2>1, StoreEffect DEF SameArguments
    <3>2. call[p].step = "store"
      BY <1>1, StoreEffect
    <3> QED
      BY <1>1, <1>2, <1>5, <2>1, <3>1, <3>2 DEF CallHeld, Fits
  <2>2. CASE call[p].operation # "revert"
    BY <1>1, <2>2, StoreEffect DEF CallHeld, InOperation
  <2> QED
    BY <2>1, <2>2
<1> QED
  BY <1>2, <1>5, <1>6, <1>7, <1>8, HeldMoves DEF OthersStay

(* SetBackup: the hash that was read is the new backup.                     *)
LEMMA SetBackupEffect ==
    ASSUME TypeOK, NEW p \in Callers, CallHeld(p), SetBackup(p)
    PROVE  /\ NextCallTyped /\ OthersStay(p)
           /\ InOperation(p) /\ call[p].step = "setBackup"
           /\ call[p].operation = "setSecret" /\ NeedsBackup(call[p].existing, call[p].write)
           /\ call[p].key \in Keys
           /\ call[p].existing \in Records /\ call[p].existing.hash \in Hashes
           /\ backup' = [backup EXCEPT ![call[p].key] = call[p].existing.hash]
           /\ call'[p].step = "store"
           /\ call'[p].existing = call[p].existing
           /\ call'[p].backupHash = call[p].backupHash
           /\ SameArguments(p)
<1>1. InOperation(p) /\ call[p].step = "setBackup"
  BY DEF SetBackup, At, InOperation
<1>2. call[p] \in CallStates
  BY <1>1, InOperationShape
<1>3. call[p].operation = "setSecret" /\ NeedsBackup(call[p].existing, call[p].write)
  BY <1>1 DEF CallHeld, Fits
<1>4. call[p].key \in Keys /\ call[p].existing \in Records
  BY <1>2, <1>3 DEF CallStates, NeedsBackup
<1>5. call[p].existing.hash \in Hashes
  BY <1>4 DEF Records
<1>6. GoTo(p, "store") /\ "store" \in Steps
      /\ backup' = [backup EXCEPT ![call[p].key] = call[p].existing.hash]
  BY DEF SetBackup, Steps
<1> QED
  BY <1>1, <1>3, <1>4, <1>5, <1>6, GoToEffect

(* A backup is set to a hash that a record had.                             *)
LEMMA SetBackupHeld ==
    ASSUME HeldInv, NEW p \in Callers, SetBackup(p)
    PROVE  HeldInv'
<1>1. TypeOK /\ CallHeld(p)
  BY DEF HeldInv
<1>2. UNCHANGED <<deployment, record, past, replaced>>
  BY DEF SetBackup
<1>3. TypeOK' /\ OthersStay(p)
  BY <1>1, <1>2, SetBackupEffect DEF TypeOK, NextCallTyped
<1>4. call[p].existing # NoRecord /\ call[p].existing.hash \in past[call[p].key]
  BY <1>1, SetBackupEffect, NoRecordAssumption DEF CallHeld
<1>5. \A k \in Keys : KeyHeld(k)'
  BY <1>1, <1>2, <1>4, SetBackupEffect DEF HeldInv, KeyHeld, TypeOK
<1>6. CallHeld(p)'
  BY <1>1, <1>2, <1>4, SetBackupEffect DEF CallHeld, Fits, SameArguments
<1> QED
  BY <1>2, <1>3, <1>5, <1>6, HeldMoves DEF OthersStay

(* The commands that end an operation, and a stop.                          *)
LEMMA EndEffect ==
    ASSUME TypeOK, NEW p \in Callers, RemoveRecord(p) \/ ClearBackup(p) \/ Abort(p)
    PROVE  /\ NextCallTyped /\ OthersStay(p)
           /\ InOperation(p) /\ call[p] \in CallStates /\ call[p].key \in Keys
           /\ call'[p].step = "returned"
           /\ UNCHANGED <<deployment, past>>
           /\ record' = IF RemoveRecord(p)
                        THEN [record EXCEPT ![call[p].key] = NoRecord] ELSE record
           /\ backup' = IF ClearBackup(p)
                        THEN [backup EXCEPT ![call[p].key] = NoHash] ELSE backup
<1>1. InOperation(p)
  BY DEF RemoveRecord, ClearBackup, Abort, At, InOperation
<1>2. call[p] \in CallStates
  BY <1>1, InOperationShape
<1>3. call[p].key \in Keys
  BY <1>2 DEF CallStates
<1>4. PICK result \in Results : Return(p, result)
  BY DEF RemoveRecord, ClearBackup, Abort, Results
<1>5. ~(RemoveRecord(p) /\ ClearBackup(p))
  BY DEF RemoveRecord, ClearBackup, At
<1>6. /\ UNCHANGED <<deployment, past>>
      /\ record' = IF RemoveRecord(p)
                   THEN [record EXCEPT ![call[p].key] = NoRecord] ELSE record
  BY DEF RemoveRecord, ClearBackup, Abort
<1>7. backup' = IF ClearBackup(p)
                THEN [backup EXCEPT ![call[p].key] = NoHash] ELSE backup
  BY DEF RemoveRecord, ClearBackup, Abort
<1> QED
  BY <1>1, <1>2, <1>3, <1>4, <1>6, <1>7, ReturnShape DEF NextCallTyped, OthersStay

(* Removals and stops bring no hash.                                        *)
LEMMA EndHeld ==
    ASSUME HeldInv, NEW p \in Callers, RemoveRecord(p) \/ ClearBackup(p) \/ Abort(p)
    PROVE  HeldInv'
<1>1. TypeOK
  BY DEF HeldInv
<1>2. /\ NextCallTyped /\ OthersStay(p) /\ call[p].key \in Keys
      /\ UNCHANGED <<deployment, past>>
      /\ \A k \in Keys : record'[k] \in {record[k], NoRecord} /\ backup'[k] \in {backup[k], NoHash}
      /\ record' \in [Keys -> Records \cup {NoRecord}]
      /\ backup' \in [Keys -> Hashes \cup {NoHash}]
  BY <1>1, EndEffect DEF TypeOK
<1>3. replaced' \in [Keys -> Hashes \cup {NoHash, Unset}]
  BY <1>1, <1>2 DEF RemoveRecord, ClearBackup, Abort, TypeOK
<1>4. TypeOK'
  BY <1>1, <1>2, <1>3 DEF TypeOK, NextCallTyped
<1>5. \A k \in Keys : KeyHeld(k)'
  BY <1>2 DEF HeldInv, KeyHeld
<1>6. CallHeld(p)'
  BY <1>1, EndEffect DEF CallHeld, InOperation
<1> QED
  BY <1>2, <1>4, <1>5, <1>6, HeldMoves DEF OthersStay

(* An expiry brings no hash.                                                *)
LEMMA ExpiryHeld ==
    ASSUME HeldInv, NEW k \in Keys, BackupExpires(k)
    PROVE  HeldInv'
<1>1. TypeOK'
  BY DEF HeldInv, TypeOK, BackupExpires
<1>2. \A j \in Keys : KeyHeld(j)'
  BY DEF HeldInv, TypeOK, KeyHeld, BackupExpires
<1>3. \A p \in Callers : CallHeld(p)'
  BY DEF HeldInv, CallHeld, InOperation, BackupExpires
<1> QED
  BY <1>1, <1>2, <1>3 DEF HeldInv

(* Every step keeps the hashes known.                                       *)
LEMMA HeldStep == HeldInv /\ [Next]_vars => HeldInv'
<1> SUFFICES ASSUME HeldInv, [Next]_vars PROVE HeldInv'
  OBVIOUS
<1>1. ASSUME NEW p \in Callers, NEW operation \in Usage.operations, NEW k \in Keys,
             NEW write \in Arguments(operation), Begin(p, operation, k, write)
      PROVE  HeldInv'
  BY <1>1, BeginHeld, ArgumentWrites DEF HeldInv
<1>2. ASSUME NEW p \in Callers, Command(p) PROVE HeldInv'
  BY <1>2, ReadHeld, SetBackupHeld, StoreHeld, EndHeld DEF Command
<1>3. ASSUME NEW k \in Keys, BackupExpires(k) PROVE HeldInv'
  BY <1>3, ExpiryHeld
<1>4. CASE UNCHANGED vars
  <2>1. TypeOK'
    BY <1>4 DEF HeldInv, TypeOK, vars, storeVars
  <2>2. \A k \in Keys : KeyHeld(k)'
    BY <1>4 DEF HeldInv, KeyHeld, vars, storeVars
  <2>3. \A p \in Callers : CallHeld(p)'
    BY <1>4 DEF HeldInv, CallHeld, InOperation, vars, storeVars
  <2> QED
    BY <2>1, <2>2, <2>3 DEF HeldInv
<1> QED
  BY <1>1, <1>2, <1>3, <1>4 DEF Next

(* However callers interleave, stop and let backups expire, every hash in a *)
(* record or a backup has been held by its client.                          *)
THEOREM HeldInvariant == Spec => []HeldInv
  BY HeldInit, HeldStep, PTL DEF Spec

(* Every reachable state of the store is well typed.                        *)
THEOREM TypeCorrect == Spec => []TypeOK
<1>1. HeldInv => TypeOK
  BY DEF HeldInv
<1> QED
  BY <1>1, HeldInvariant, PTL

(* A revert never stores a hash that its client has not held.               *)
THEOREM BackupHeld == Spec => []BackupWasHeld
<1>1. HeldInv => BackupWasHeld
  BY DEF HeldInv, KeyHeld, CallHeld, BackupWasHeld
<1> QED
  BY <1>1, HeldInvariant, PTL
-----------------------------------------------------------------------------
(* With one caller at a time on each client: a caller is alone on its       *)
(* client, what it has read is still there, and the backup is what it has   *)
(* set or read, unless that has expired.                                    *)
Alone(p, k) == \A q \in Callers \ {p} : InOperation(q) => call[q].key # k

Lasts(k, hash) ==
    /\ backup[k] \in {hash, NoHash}
    /\ ~Usage.backupsExpire => backup[k] = hash

UpToDate(p) ==
    LET c == call[p] IN
    /\ c.step = "setBackup" \/ (c.step = "store" /\ c.operation # "create") =>
          c.existing = record[c.key]
    /\ c.step = "store" /\ c.operation = "setSecret" /\ NeedsBackup(c.existing, c.write) =>
          Lasts(c.key, c.existing.hash)
    /\ c.step \in {"read", "store"} /\ c.operation = "revert" => Lasts(c.key, c.backupHash)

(* Nothing but the operation that is between its change of the backup and   *)
(* its change of the record keeps a backup from being the undo hash.        *)
UndoTracked(k) ==
    /\ ~Usage.backupsExpire
    /\ replaced[k] # Unset
    /\ \A q \in Callers : InOperation(q) /\ call[q].key = k => ~HalfDone(call[q])
    => backup[k] = replaced[k]

TurnInv ==
    Usage.serialised =>
        /\ \A p \in Callers : InOperation(p) => Alone(p, call[p].key) /\ UpToDate(p)
        /\ \A k \in Keys : UndoTracked(k)

(* What one step of caller p, which is alone on k, must establish.          *)
LEMMA TurnMoves ==
    ASSUME TurnInv, Usage.serialised, UNCHANGED deployment,
           NEW p \in Callers, NEW k \in Keys, TypeOK, OthersStay(p), Alone(p, k),
           InOperation(p) => call[p].key = k,
           call'[p].step # "returned" => call'[p].key = k /\ UpToDate(p)',
           \A j \in Keys \ {k} : /\ record'[j] = record[j] /\ backup'[j] = backup[j]
                                 /\ replaced'[j] = replaced[j],
           UndoTracked(k)'
    PROVE  TurnInv'
<1>1. Usage' = Usage
  BY DEF Usage
<1>2. ASSUME NEW q \in Callers, InOperation(q)' PROVE Alone(q, call[q].key)' /\ UpToDate(q)'
  <2>1. CASE q = p
    BY <1>2, <2>1 DEF Alone, InOperation, OthersStay
  <2>2. CASE q # p
    <3>1. InOperation(q) /\ call'[q] = call[q] /\ call[q].key # k
      BY <1>2, <2>2 DEF InOperation, OthersStay, Alone
    <3>2. call[q].key \in Keys
      BY <3>1, InOperationShape DEF CallStates
    <3>3. Alone(q, call[q].key) /\ UpToDate(q)
      BY <3>1 DEF TurnInv
    <3>4. Alone(q, call[q].key)'
      <4> SUFFICES ASSUME NEW r \in Callers \ {q}, InOperation(r)'
                   PROVE  call'[r].key # call[q].key
        BY <3>1 DEF Alone
      <4>1. CASE r = p
        BY <3>1, <4>1 DEF InOperation
      <4>2. CASE r # p
        BY <3>3, <4>2 DEF Alone, InOperation, OthersStay
      <4> QED
        BY <4>1, <4>2
    <3>5. UpToDate(q)'
      BY <1>1, <3>1, <3>2, <3>3 DEF UpToDate, Lasts
    <3> QED
      BY <3>4, <3>5
  <2> QED
    BY <2>1, <2>2
<1>3. ASSUME NEW j \in Keys PROVE UndoTracked(j)'
  <2>1. CASE j = k
    BY <2>1
  <2>2. CASE j # k
    <3>1. UndoTracked(j)
      BY DEF TurnInv
    <3>2. \A q \in Callers : (InOperation(q) /\ call[q].key = j)
                             => (q # p /\ InOperation(q)' /\ call'[q] = call[q])
      BY <2>2 DEF InOperation, OthersStay
    <3> QED
      BY <1>1, <2>2, <3>1, <3>2 DEF UndoTracked
  <2> QED
    BY <2>1, <2>2
<1> QED
  BY <1>1, <1>2, <1>3 DEF TurnInv

(* A caller that was not between the two changes keeps the undo hash by     *)
(* leaving the backup and the history alone.                                *)
LEMMA UndoStays ==
    ASSUME TurnInv, Usage.serialised, UNCHANGED deployment,
           NEW p \in Callers, NEW k \in Keys, Alone(p, k),
           InOperation(p) => ~HalfDone(call[p]),
           backup'[k] = backup[k], replaced'[k] = replaced[k]
    PROVE  UndoTracked(k)'
<1>1. Usage' = Usage
  BY DEF Usage
<1>2. UndoTracked(k)
  BY DEF TurnInv
<1>3. \A q \in Callers : InOperation(q) /\ call[q].key = k => ~HalfDone(call[q])
  BY DEF Alone
<1> QED
  BY <1>1, <1>2, <1>3 DEF UndoTracked

(* At first nobody is in an operation and there is nothing to undo.         *)
LEMMA TurnInit == Init => TurnInv
<1> SUFFICES ASSUME Init PROVE TurnInv
  OBVIOUS
<1>1. \A p \in Callers : ~InOperation(p)
  BY DEF Init, InOperation, Returned
<1>2. \A k \in Keys : UndoTracked(k)
  BY DEF Init, UndoTracked
<1> QED
  BY <1>1, <1>2 DEF TurnInv

(* With callers in turn, Begin finds nobody else on its client.             *)
LEMMA BeginInTurn ==
    ASSUME HeldInv, TurnInv, Usage.serialised,
           NEW p \in Callers, NEW operation \in Usage.operations,
           NEW k \in Keys, NEW write \in Arguments(operation),
           Begin(p, operation, k, write)
    PROVE  TurnInv'
<1>1. TypeOK
  BY DEF HeldInv
<1>2. UNCHANGED <<deployment, record, backup, past, replaced>> /\ ~InOperation(p)
  BY DEF Begin
<1>3. Alone(p, k)
  BY DEF Begin, Alone
<1>4. /\ OthersStay(p) /\ call'[p].key = k /\ call'[p].step = FirstStep(operation)
      /\ call'[p].operation = operation /\ operation \in Operations
  BY <1>1, BeginEffect, ArgumentWrites
<1>5. UpToDate(p)'
  BY <1>4 DEF UpToDate, FirstStep, Operations, FactoryOperations
<1>6. UndoTracked(k)'
  BY <1>2, <1>3, UndoStays
<1> QED
  BY <1>1, <1>2, <1>3, <1>4, <1>5, <1>6, TurnMoves

(* What is known of a caller in an operation.                               *)
LEMMA TurnKnown ==
    ASSUME HeldInv, TurnInv, Usage.serialised, NEW p \in Callers, InOperation(p)
    PROVE  /\ call[p] \in CallStates /\ call[p].key \in Keys
           /\ Alone(p, call[p].key) /\ UpToDate(p) /\ Fits(call[p])
<1>1. call[p] \in CallStates
  BY InOperationShape DEF HeldInv
<1> QED
  BY <1>1 DEF HeldInv, TurnInv, CallHeld, CallStates

(* With callers in turn, what is read is up to date.                        *)
LEMMA ReadInTurn ==
    ASSUME HeldInv, TurnInv, Usage.serialised, NEW p \in Callers,
           ReadBackup(p) \/ ReadRecord(p)
    PROVE  TurnInv'
<1>1. TypeOK /\ InOperation(p) /\ call[p].step \in {"readBackup", "read"}
  BY DEF HeldInv, ReadBackup, ReadRecord, At, InOperation
<1>2. PICK k \in Keys : k = call[p].key /\ Alone(p, k) /\ UpToDate(p) /\ Fits(call[p])
  BY <1>1, TurnKnown
<1>3. UNCHANGED <<deployment, record, backup, past, replaced>> /\ Usage' = Usage
  BY DEF ReadBackup, ReadRecord, Usage
<1>4. OthersStay(p) /\ (call'[p].step # "returned" => SameArguments(p))
  BY <1>1, ReadBackupEffect, ReadRecordEffect
<1>5. UndoTracked(k)'
  BY <1>1, <1>2, <1>3, UndoStays DEF HalfDone
<1>6. call'[p].step # "returned" => UpToDate(p)'
  <2> SUFFICES ASSUME call'[p].step # "returned" PROVE UpToDate(p)'
    OBVIOUS
  <2>1. CASE ReadBackup(p)
    <3>1. /\ call'[p].step = "read" /\ call'[p].operation = call[p].operation
          /\ call'[p].backupHash = backup[k] /\ call'[p].key = k
      BY <1>1, <1>2, <2>1, ReadBackupEffect DEF SameArguments
    <3> QED
      BY <1>3, <3>1 DEF UpToDate, Lasts
  <2>2. CASE ReadRecord(p)
    <3>1. /\ call'[p].step = AfterRead(call[p], record[k])
          /\ call'[p].existing = record[k] /\ call'[p].backupHash = call[p].backupHash
          /\ call'[p].operation = call[p].operation /\ call'[p].key = k
          /\ call'[p].write = call[p].write
      BY <1>1, <1>2, <2>2, ReadRecordEffect DEF SameArguments
    <3>2. call[p].step = "read"
      BY <2>2 DEF ReadRecord, At
    <3>3. call[p].operation = "revert" => Lasts(k, call[p].backupHash)
      BY <1>2, <3>2 DEF UpToDate
    <3>4. call[p].operation = "setSecret" /\ NeedsBackup(record[k], call[p].write)
             => call'[p].step = "setBackup"
      BY <3>1 DEF AfterRead
    <3> QED
      BY <1>3, <3>1, <3>3, <3>4 DEF UpToDate, Lasts
  <2> QED
    BY <2>1, <2>2
<1> QED
  BY <1>1, <1>2, <1>3, <1>4, <1>5, <1>6, TurnMoves DEF SameArguments

(* With callers in turn, a new backup is the hash of the stored record,     *)
(* which the caller alone will replace.                                     *)
LEMMA SetBackupInTurn ==
    ASSUME HeldInv, TurnInv, Usage.serialised, NEW p \in Callers, SetBackup(p)
    PROVE  TurnInv'
<1>0. InOperation(p)
  BY DEF SetBackup, At, InOperation
<1>1. TypeOK /\ CallHeld(p)
  BY DEF HeldInv
<1>2. PICK k \in Keys : k = call[p].key /\ Alone(p, k) /\ UpToDate(p)
  BY <1>0, TurnKnown
<1> DEFINE hash == call[p].existing.hash
<1>3. /\ OthersStay(p) /\ InOperation(p) /\ call[p].step = "setBackup"
      /\ call[p].operation = "setSecret" /\ NeedsBackup(call[p].existing, call[p].write)
      /\ backup' = [backup EXCEPT ![k] = hash]
      /\ call'[p].step = "store" /\ call'[p].existing = call[p].existing
      /\ call'[p].operation = "setSecret" /\ call'[p].key = k
      /\ call'[p].write = call[p].write
  BY <1>1, <1>2, SetBackupEffect DEF SameArguments
<1>4. UNCHANGED <<deployment, record, past, replaced>> /\ Usage' = Usage
  BY DEF SetBackup, Usage
<1>5. backup'[k] = hash /\ \A j \in Keys \ {k} : backup'[j] = backup[j]
  BY <1>1, <1>2, <1>3 DEF TypeOK
<1> HIDE DEF hash
<1>6. UpToDate(p)'
  BY <1>2, <1>3, <1>4, <1>5 DEF UpToDate, Lasts, hash
<1>7. UndoTracked(k)'
  BY <1>3 DEF UndoTracked, HalfDone, InOperation
<1> QED
  BY <1>1, <1>2, <1>3, <1>4, <1>5, <1>6, <1>7, TurnMoves

(* The store of a record, once more: a caller on its own stores what its    *)
(* operation makes of the record that is there.                             *)
LEMMA StoreInTurn ==
    ASSUME HeldInv, TurnInv, Usage.serialised, NEW p \in Callers, StoreRecord(p)
    PROVE  TurnInv'
<1>1. TypeOK /\ CallHeld(p) /\ InOperation(p)
  BY DEF HeldInv, StoreRecord, At, InOperation
<1>2. PICK k \in Keys : /\ k = call[p].key /\ Alone(p, k) /\ UpToDate(p)
                        /\ Fits(call[p]) /\ call[p] \in CallStates
  BY <1>1, TurnKnown
<1>3. PICK new \in Records : new = NewRecord(call[p])
  BY <1>1, StoreEffect
<1>4. /\ OthersStay(p) /\ call[p].step = "store"
      /\ record' = [record EXCEPT ![k] = new]
  BY <1>1, <1>2, <1>3, StoreEffect
<1>5. UNCHANGED <<deployment, backup>> /\ Usage' = Usage
  BY DEF StoreRecord, Usage
<1>6. \A j \in Keys \ {k} : record'[j] = record[j] /\ replaced'[j] = replaced[j]
  BY <1>1, <1>2, <1>4 DEF TypeOK, StoreRecord
<1>7. CASE call[p].operation = "revert"
  <2>1. /\ call'[p].step = "clearBackup" /\ call'[p].key = k
        /\ call'[p].existing = call[p].existing
    BY <1>1, <1>2, <1>7, StoreEffect DEF SameArguments
  <2>2. UpToDate(p)'
    BY <2>1 DEF UpToDate
  <2>3. UndoTracked(k)'
    BY <1>2, <1>4, <1>7, <2>1 DEF UndoTracked, HalfDone, InOperation, Fits
  <2> QED
    BY <1>1, <1>2, <1>4, <1>5, <1>6, <2>1, <2>2, <2>3, TurnMoves
<1>8. CASE call[p].operation # "revert"
  <2>1. call'[p].step = "returned"
    BY <1>1, <1>8, StoreEffect
  <2>2. UndoTracked(k)'
    <3>1. CASE call[p].operation = "setSecret" /\ NeedsBackup(call[p].existing, call[p].write)
      <4>1. call[p].existing = record[k] /\ Lasts(k, record[k].hash)
        BY <1>2, <1>4, <3>1 DEF UpToDate
      <4>2. new.hash = call[p].write.hash
        <5>1. new = Rotated(call[p].existing, call[p].write)
          BY <1>3, <3>1 DEF NewRecord
        <5> QED
          BY <3>1, <5>1 DEF Rotated, NeedsBackup
      <4>3. replaced'[k] = record[k].hash
        <5>1. /\ call[p].write.fromDbSeed = TRUE /\ record[k] # NoRecord
              /\ record[k].hash # new.hash
          BY <3>1, <4>1, <4>2 DEF NeedsBackup
        <5> QED
          BY <1>1, <1>2, <1>3, <3>1, <5>1 DEF StoreRecord, TypeOK
      <4> QED
        BY <1>5, <4>1, <4>3 DEF UndoTracked, Lasts
    <3>2. CASE ~(call[p].operation = "setSecret" /\ NeedsBackup(call[p].existing, call[p].write))
      <4>1. ~HalfDone(call[p])
        BY <1>4, <3>2 DEF HalfDone
      <4>2. replaced'[k] \in {replaced[k], Unset}
        <5>1. ~( /\ call[p].operation = "setSecret" /\ call[p].write.fromDbSeed = TRUE
                 /\ record[k] # NoRecord /\ record[k].hash # new.hash)
          <6> SUFFICES ASSUME call[p].operation = "setSecret",
                              call[p].write.fromDbSeed = TRUE, record[k] # NoRecord
                       PROVE  record[k].hash = new.hash
            OBVIOUS
          <6>1. call[p].existing = record[k]
            BY <1>2, <1>4 DEF UpToDate
          <6>2. record[k].hash = call[p].write.hash
            BY <3>2, <6>1 DEF NeedsBackup
          <6>3. new = Rotated(call[p].existing, call[p].write)
            BY <1>3 DEF NewRecord
          <6> QED
            BY <6>1, <6>2, <6>3 DEF Rotated
        <5> QED
          BY <1>1, <1>2, <1>3, <1>8, <5>1 DEF StoreRecord, TypeOK
      <4>3. CASE replaced'[k] = Unset
        BY <4>3 DEF UndoTracked
      <4>4. CASE replaced'[k] = replaced[k]
        BY <1>2, <1>5, <4>1, <4>4, UndoStays
      <4> QED
        BY <4>2, <4>3, <4>4
    <3> QED
      BY <3>1, <3>2
  <2> QED
    BY <1>1, <1>2, <1>4, <1>5, <1>6, <2>1, <2>2, TurnMoves
<1> QED
  BY <1>7, <1>8

(* With callers in turn, an end in the middle of a rotation or a revert     *)
(* leaves the undo hash unknown, any other keeps it.                        *)
LEMMA EndInTurn ==
    ASSUME HeldInv, TurnInv, Usage.serialised, NEW p \in Callers,
           RemoveRecord(p) \/ ClearBackup(p) \/ Abort(p)
    PROVE  TurnInv'
<1>1. TypeOK /\ InOperation(p)
  BY DEF HeldInv, RemoveRecord, ClearBackup, Abort, At, InOperation
<1>2. PICK k \in Keys : k = call[p].key /\ Alone(p, k)
  BY <1>1, TurnKnown
<1>3. /\ OthersStay(p) /\ call'[p].step = "returned" /\ UNCHANGED deployment
      /\ \A j \in Keys \ {k} : record'[j] = record[j] /\ backup'[j] = backup[j]
  BY <1>1, <1>2, EndEffect DEF TypeOK
<1>4. \A j \in Keys \ {k} : replaced'[j] = replaced[j]
  BY <1>1, <1>2 DEF RemoveRecord, ClearBackup, Abort, TypeOK
<1>5. UndoTracked(k)'
  <2>1. CASE RemoveRecord(p)
    <3>1. UNCHANGED <<backup, replaced>> /\ ~HalfDone(call[p])
      BY <2>1 DEF RemoveRecord, At, HalfDone
    <3> QED
      BY <1>2, <1>3, <3>1, UndoStays
  <2>2. CASE ClearBackup(p)
    <3>1. backup'[k] = NoHash /\ replaced'[k] = NoHash
      BY <1>1, <1>2, <2>2 DEF ClearBackup, TypeOK
    <3> QED
      BY <3>1 DEF UndoTracked
  <2>3. CASE Abort(p) /\ HalfDone(call[p])
    <3>1. replaced'[k] = Unset
      BY <1>1, <1>2, <2>3 DEF Abort, TypeOK
    <3> QED
      BY <3>1 DEF UndoTracked
  <2>4. CASE Abort(p) /\ ~HalfDone(call[p])
    <3>1. backup'[k] = backup[k] /\ replaced'[k] = replaced[k]
      BY <1>1, <1>2, <2>4 DEF Abort, TypeOK
    <3> QED
      BY <1>2, <1>3, <2>4, <3>1, UndoStays
  <2> QED
    BY <2>1, <2>2, <2>3, <2>4
<1> QED
  BY <1>1, <1>2, <1>3, <1>4, <1>5, TurnMoves

(* An expiry only matters where backups expire.                             *)
LEMMA ExpiryInTurn ==
    ASSUME HeldInv, TurnInv, Usage.serialised, NEW k \in Keys, BackupExpires(k)
    PROVE  TurnInv'
<1>1. /\ UNCHANGED <<deployment, record, call, replaced>> /\ Usage' = Usage
      /\ Usage.backupsExpire
      /\ \A j \in Keys : backup'[j] \in {backup[j], NoHash}
  BY DEF BackupExpires, Usage, HeldInv, TypeOK
<1>2. ASSUME NEW q \in Callers, InOperation(q)' PROVE Alone(q, call[q].key)' /\ UpToDate(q)'
  <2>1. InOperation(q) /\ call'[q] = call[q]
    BY <1>1, <1>2 DEF InOperation
  <2>2. call[q].key \in Keys /\ Alone(q, call[q].key) /\ UpToDate(q)
    BY <2>1, TurnKnown
  <2> QED
    BY <1>1, <2>1, <2>2 DEF Alone, InOperation, UpToDate, Lasts
<1>3. \A j \in Keys : UndoTracked(j)'
  BY <1>1 DEF UndoTracked
<1> QED
  BY <1>2, <1>3 DEF TurnInv

(* Every step keeps callers in turn up to date.                             *)
LEMMA TurnStep == HeldInv /\ TurnInv /\ [Next]_vars => TurnInv'
<1> SUFFICES ASSUME HeldInv, TurnInv, [Next]_vars PROVE TurnInv'
  OBVIOUS
<1>1. deployment' = deployment
  BY DEF Next, Begin, Command, ReadBackup, ReadRecord, SetBackup, StoreRecord,
         RemoveRecord, ClearBackup, Abort, BackupExpires, vars
<1>2. CASE ~Usage.serialised
  BY <1>1, <1>2 DEF TurnInv, Usage
<1>3. CASE Usage.serialised
  <2>1. ASSUME NEW p \in Callers, NEW operation \in Usage.operations, NEW k \in Keys,
               NEW write \in Arguments(operation), Begin(p, operation, k, write)
        PROVE  TurnInv'
    BY <1>3, <2>1, BeginInTurn
  <2>2. ASSUME NEW p \in Callers, Command(p) PROVE TurnInv'
    BY <1>3, <2>2, ReadInTurn, SetBackupInTurn, StoreInTurn, EndInTurn DEF Command
  <2>3. ASSUME NEW k \in Keys, BackupExpires(k) PROVE TurnInv'
    BY <1>3, <2>3, ExpiryInTurn
  <2>4. CASE UNCHANGED vars
    BY <2>4 DEF TurnInv, vars, storeVars, Usage, Alone, UpToDate, Lasts, UndoTracked, InOperation
  <2> QED
    BY <2>1, <2>2, <2>3, <2>4 DEF Next
<1> QED
  BY <1>2, <1>3

(* With callers in turn, what an operation has read is what is stored, and  *)
(* the backup is the undo hash unless an operation is half done.            *)
THEOREM TurnInvariant == Spec => []TurnInv
  BY HeldInvariant, TurnInit, TurnStep, PTL DEF Spec

(* With callers in turn and backups that last, what a revert restores is    *)
(* the hash that the last seeded rotation replaced, until a static write.   *)
THEOREM UndoExact == Spec => []UndoIsExact
<1>1. TurnInv => UndoIsExact
  BY DEF TurnInv, UndoIsExact, UndoTracked, Settled
<1> QED
  BY <1>1, TurnInvariant, PTL
-----------------------------------------------------------------------------
(* A caller at its store that moves has stored or stopped.                  *)
LEMMA StoresOrStops ==
    ASSUME HeldInv, [Next]_vars, NEW p \in Callers, At(p, "store"), call'[p] # call[p]
    PROVE  StoreRecord(p) \/ Abort(p)
<1>1. TypeOK /\ InOperation(p)
  BY DEF HeldInv, At, InOperation
<1>2. ASSUME NEW q \in Callers, Command(q) PROVE StoreRecord(p) \/ Abort(p)
  <2>1. OthersStay(q)
    BY <1>1, <1>2, ReadBackupEffect, ReadRecordEffect, SetBackupEffect, StoreEffect,
       EndEffect DEF Command, HeldInv
  <2>2. q = p
    BY <2>1 DEF OthersStay
  <2> QED
    BY <1>2, <2>2 DEF Command, ReadBackup, ReadRecord, SetBackup, RemoveRecord,
       ClearBackup, At
<1>3. ASSUME NEW q \in Callers, NEW operation \in Usage.operations, NEW k \in Keys,
             NEW write \in Arguments(operation), Begin(q, operation, k, write)
      PROVE  FALSE
  <2>1. OthersStay(q) /\ q # p
    BY <1>1, <1>3, BeginEffect, ArgumentWrites DEF Begin
  <2> QED
    BY <2>1 DEF OthersStay
<1>4. ASSUME NEW k \in Keys, BackupExpires(k) PROVE FALSE
  BY <1>4 DEF BackupExpires
<1>5. CASE UNCHANGED vars
  BY <1>5 DEF vars, storeVars
<1> QED
  BY <1>2, <1>3, <1>4, <1>5 DEF Next

(* The backup of the replaced hash is in place before a seeded rotation     *)
(* changes the record, so that a crash never leaves a rotation for good.    *)
THEOREM RotationUndone == Spec => RotationCanBeUndone
<1> DEFINE A == Settled => \A k \in Keys :
                  /\ record[k] # NoRecord /\ record'[k] # NoRecord
                  /\ record'[k].hash # record[k].hash
                  /\ \E p \in Callers :
                        /\ At(p, "store") /\ call'[p] # call[p]
                        /\ call[p].key = k
                        /\ call[p].operation = "setSecret"
                        /\ call[p].write.fromDbSeed = TRUE
                  => backup'[k] = record[k].hash
<1>1. HeldInv /\ TurnInv /\ [Next]_vars => A
  <2> SUFFICES ASSUME HeldInv, TurnInv, [Next]_vars, Settled, NEW k \in Keys,
                      record[k] # NoRecord, record'[k].hash # record[k].hash,
                      NEW p \in Callers, At(p, "store"), call'[p] # call[p],
                      call[p].key = k, call[p].operation = "setSecret",
                      call[p].write.fromDbSeed = TRUE
               PROVE  backup'[k] = record[k].hash
    OBVIOUS
  <2>1. StoreRecord(p)
    <3>1. ~Abort(p)
      BY DEF Abort
    <3> QED
      BY <3>1, StoresOrStops
  <2>2. TypeOK /\ CallHeld(p) /\ InOperation(p) /\ call[p].step = "store"
    BY DEF HeldInv, At, InOperation
  <2>3. UpToDate(p)
    BY <2>2, TurnKnown DEF Settled
  <2>4. call[p].existing = record[k]
    BY <2>2, <2>3 DEF UpToDate
  <2>5. record'[k] = Rotated(record[k], call[p].write)
    <3>1. NewRecord(call[p]) = Rotated(call[p].existing, call[p].write)
      BY DEF NewRecord
    <3> QED
      BY <2>1, <2>2, <2>4, <3>1, StoreEffect DEF TypeOK
  <2>6. NeedsBackup(call[p].existing, call[p].write)
    BY <2>4, <2>5 DEF NeedsBackup, Rotated
  <2>7. backup[k] = record[k].hash
    BY <2>2, <2>3, <2>4, <2>6 DEF UpToDate, Lasts, Settled
  <2> QED
    BY <2>1, <2>7 DEF StoreRecord
<1> HIDE DEF A
<1>2. Spec => [][A]_vars
  BY <1>1, HeldInvariant, TurnInvariant, PTL DEF Spec
<1> QED
  BY <1>2 DEF A, RotationCanBeUndone

(* With callers in turn a restricted credential is widened only by a write  *)
(* that says so.                                                            *)
THEOREM PurposeKept == Spec => FactoryKeepsPurpose
<1> DEFINE A == Usage.serialised => \A p \in Callers, k \in Keys :
                  Replaces(p, k) /\ call[p].operation \in FactoryOperations
                  => KeepsPurpose(p, k)
<1>1. HeldInv /\ TurnInv /\ [Next]_vars => A
  <2> SUFFICES ASSUME HeldInv, TurnInv, [Next]_vars, Usage.serialised,
                      NEW p \in Callers, NEW k \in Keys, Replaces(p, k),
                      call[p].operation \in FactoryOperations
               PROVE  KeepsPurpose(p, k)
    OBVIOUS
  <2>1. /\ At(p, "store") /\ call[p].step = "store" /\ call'[p] # call[p]
        /\ call[p].key = k /\ record[k] # NoRecord
    BY DEF Replaces, At
  <2>2. TypeOK /\ CallHeld(p) /\ InOperation(p)
    BY <2>1 DEF HeldInv, InOperation
  <2>3. UpToDate(p) /\ Fits(call[p])
    BY <2>2, TurnKnown
  <2>4. CASE Abort(p)
    BY <2>4 DEF Abort, KeepsPurpose
  <2>5. CASE StoreRecord(p)
    <3>1. record'[k] = NewRecord(call[p])
      BY <2>1, <2>2, <2>5, StoreEffect DEF TypeOK
    <3>2. call[p].operation # "create" => call[p].existing = record[k]
      BY <2>1, <2>3 DEF UpToDate
    <3>3. record[k] \in Records
      BY <2>1, <2>2 DEF TypeOK
    <3>4. CASE call[p].operation = "create"
      BY <3>4 DEF KeepsPurpose
    <3>5. CASE call[p].operation = "setSecret"
      <4>1. record'[k] = Rotated(record[k], call[p].write)
        BY <3>1, <3>2, <3>5 DEF NewRecord
      <4> QED
        BY <2>1, <3>5, <4>1 DEF Rotated, OrElse, KeepsPurpose
    <3>6. CASE call[p].operation = "regenerateSecret"
      <4>1. record'[k] = Regenerated(record[k], call[p].write)
        BY <3>1, <3>2, <3>6 DEF NewRecord
      <4> QED
        BY <2>1, <4>1 DEF Rotated, Regenerated, KeepsPurpose
    <3>7. CASE call[p].operation = "setAllowedIps"
      <4>1. record'[k] = WithAllowedIps(record[k], call[p].write)
        BY <3>1, <3>2, <3>7 DEF NewRecord
      <4> QED
        BY <3>3, <4>1 DEF WithAllowedIps, KeepsPurpose, Records
    <3>8. CASE call[p].operation = "revert"
      <4>1. record'[k] = Reverted(record[k], call[p].backupHash)
        BY <3>1, <3>2, <3>8 DEF NewRecord
      <4> QED
        BY <3>3, <4>1 DEF Reverted, KeepsPurpose, Records
    <3>9. call[p].operation # "delete"
      BY <2>1, <2>3 DEF Fits
    <3> QED
      BY <3>4, <3>5, <3>6, <3>7, <3>8, <3>9 DEF FactoryOperations
  <2> QED
    BY <2>1, <2>4, <2>5, StoresOrStops
<1> HIDE DEF A
<1>2. Spec => [][A]_vars
  BY <1>1, HeldInvariant, TurnInvariant, PTL DEF Spec
<1> QED
  BY <1>2 DEF A, FactoryKeepsPurpose
-----------------------------------------------------------------------------
(* The refinement.  A caller that reverts k has read the backup and not yet *)
(* stored the record it makes of it.                                        *)
Reverting(q, k) ==
    /\ call[q].step \in {"read", "store"}
    /\ call[q].operation = "revert"
    /\ call[q].key = k

Undos == [k \in Keys |-> Undo(k)]

CandidatesKnown ==
    \A k \in Keys :
        /\ \A q \in Callers : Reverting(q, k) => Candidate(k) = call[q].backupHash
        /\ (\A q \in Callers : ~Reverting(q, k)) => Candidate(k) = backup[k]

(* The candidate of the refinement is what the reverting caller has read,   *)
(* and the backup where nobody reverts.                                     *)
LEMMA CandidateIs == HeldInv /\ TurnInv /\ Usage.serialised => CandidatesKnown
<1> SUFFICES ASSUME HeldInv, TurnInv, Usage.serialised, NEW k \in Keys
             PROVE  /\ \A q \in Callers : Reverting(q, k) => Candidate(k) = call[q].backupHash
                    /\ (\A q \in Callers : ~Reverting(q, k)) => Candidate(k) = backup[k]
  BY DEF CandidatesKnown
<1> DEFINE reverts == {p \in Callers : /\ call[p].step \in {"read", "store"}
                                       /\ call[p].operation = "revert"
                                       /\ call[p].key = k}
<1>1. Candidate(k) = IF reverts = {} THEN backup[k]
                     ELSE call[CHOOSE p \in reverts : TRUE].backupHash
  BY DEF Candidate
<1>2. \A q \in Callers : q \in reverts <=> Reverting(q, k)
  BY DEF Reverting
<1>3. ASSUME NEW q \in Callers, Reverting(q, k) PROVE Candidate(k) = call[q].backupHash
  <2>1. InOperation(q) /\ call[q].key = k
    BY <1>3 DEF Reverting, InOperation
  <2>2. Alone(q, k)
    BY <2>1 DEF TurnInv
  <2>3. ASSUME NEW r \in reverts PROVE r = q
    BY <2>2 DEF Alone, InOperation
  <2>4. q \in reverts
    BY <1>2, <1>3
  <2>5. (CHOOSE p \in reverts : TRUE) \in reverts
    BY <2>4
  <2>6. (CHOOSE p \in reverts : TRUE) = q
    BY <2>3, <2>5
  <2> QED
    BY <1>1, <2>4, <2>6
<1>4. ASSUME \A q \in Callers : ~Reverting(q, k) PROVE Candidate(k) = backup[k]
  <2>1. reverts = {}
    BY <1>2, <1>4
  <2> QED
    BY <1>1, <2>1
<1> QED
  BY <1>3, <1>4

(* The same after a step.                                                   *)
LEMMA CandidateIsNext ==
    HeldInv' /\ TurnInv' /\ (Usage.serialised)' => CandidatesKnown'
  BY CandidateIs, PTL

(* The state before and after a step with callers in turn.                  *)
BothInTurn ==
    /\ HeldInv /\ TurnInv /\ HeldInv' /\ TurnInv'
    /\ Usage.serialised /\ Usage' = Usage

(* Caller q reverts j before and after the step, with the same hash.        *)
SameRevert(q, j) ==
    /\ Reverting(q, j)' <=> Reverting(q, j)
    /\ Reverting(q, j) => call'[q].backupHash = call[q].backupHash

(* What a step leaves alone leaves the undo hash alone.                     *)
LEMMA UndoUntouched ==
    ASSUME BothInTurn, NEW j \in Keys, \A q \in Callers : SameRevert(q, j),
           backup'[j] = backup[j] \/ \E q \in Callers : Reverting(q, j)
    PROVE  Candidate(j)' = Candidate(j)
<1>1. CASE \E q \in Callers : Reverting(q, j)
  <2>1. PICK q \in Callers : Reverting(q, j)
    BY <1>1
  <2>2. Reverting(q, j)' /\ call'[q].backupHash = call[q].backupHash
    BY <2>1 DEF SameRevert
  <2> QED
    BY <2>1, <2>2, CandidateIs, CandidateIsNext DEF BothInTurn, CandidatesKnown
<1>2. CASE ~\E q \in Callers : Reverting(q, j)
  <2>1. \A q \in Callers : ~Reverting(q, j)'
    BY <1>2 DEF SameRevert
  <2> QED
    BY <1>2, <2>1, CandidateIs, CandidateIsNext DEF BothInTurn, CandidatesKnown
<1> QED
  BY <1>1, <1>2

(* A step on client k changes the register of k alone.                      *)
LEMMA OneKeyMoves ==
    ASSUME BothInTurn, NEW k \in Keys,
           \A j \in Keys \ {k} : /\ record'[j] = record[j] /\ backup'[j] = backup[j]
                                 /\ \A q \in Callers : SameRevert(q, j)
    PROVE  Undos' = [Undos EXCEPT ![k] = Undo(k)']
<1>1. ASSUME NEW j \in Keys \ {k} PROVE Undo(j)' = Undo(j)
  <2>1. Candidate(j)' = Candidate(j)
    BY <1>1, UndoUntouched
  <2> QED
    BY <1>1, <2>1 DEF Undo
<1> QED
  BY <1>1 DEF Undos

(* A caller that works on k reverts no other client.                        *)
LEMMA RevertsElsewhere ==
    ASSUME NEW p \in Callers, NEW k \in Keys, OthersStay(p),
           InOperation(p) => call[p].key = k,
           call'[p].step # "returned" => call'[p].key = k,
           NEW j \in Keys \ {k}, NEW q \in Callers
    PROVE  SameRevert(q, j)
<1>1. CASE q = p
  BY <1>1 DEF SameRevert, Reverting, InOperation
<1>2. CASE q # p
  BY <1>2 DEF SameRevert, Reverting, OthersStay
<1> QED
  BY <1>1, <1>2

(* A caller that is alone on k is the only one that may revert it.          *)
LEMMA RevertsHere ==
    ASSUME NEW p \in Callers, NEW k \in Keys, OthersStay(p), Alone(p, k)
    PROVE  \A q \in Callers \ {p} : ~Reverting(q, k) /\ ~Reverting(q, k)'
  BY DEF Reverting, OthersStay, Alone, InOperation

(* The register stutters, or it forgets.                                    *)
LEMMA ForgetOrStay ==
    ASSUME NEW k \in Keys, record' = record, Undos' = [Undos EXCEPT ![k] = Undo(k)'],
           Undo(k)' \in {Undo(k), NoHash}
    PROVE  Register!Next \/ UNCHANGED Register!vars
<1>1. Undo(k)' = Undo(k) => Undos' = Undos
  BY DEF Undos
<1>2. Undo(k)' = NoHash => Register!Forget(k)
  BY DEF Undos, Register!Forget, Register!UndoIs
<1> QED
  BY <1>1, <1>2 DEF Undos, Register!Next, Register!vars

(* A change of the record that leaves the candidate may make it the undo    *)
(* hash that a revert would restore, or none.                               *)
LEMMA CandidateLingers ==
    ASSUME NEW k \in Keys, Undos' = [Undos EXCEPT ![k] = Undo(k)'],
           Candidate(k)' = Candidate(k)
    PROVE  Register!UndoMayLinger(k)
<1>1. Undo(k)' \in {Undo(k), Register!CurrentHash(k), NoHash}
  BY DEF Undo, Register!CurrentHash
<1>2. Undos[k] = Undo(k)
  BY DEF Undos
<1> QED
  BY <1>1, <1>2 DEF Undos, Register!UndoMayLinger, Register!UndoIs

(* The register computes its records with the same operators.               *)
LEMMA SameRecords ==
    /\ \A write : Register!Created(write) = Created(write)
    /\ \A old, write : /\ Register!Rotated(old, write) = Rotated(old, write)
                       /\ Register!NeedsBackup(old, write) = NeedsBackup(old, write)
                       /\ Register!Regenerated(old, write) = Regenerated(old, write)
                       /\ Register!WithAllowedIps(old, write) = WithAllowedIps(old, write)
                       /\ Register!Rehashed(old, write) = Rehashed(old, write)
    /\ \A old, hash : Register!Reverted(old, hash) = Reverted(old, hash)
<1>1. \A argument, default : Register!OrElse(argument, default) = OrElse(argument, default)
  BY DEF Register!OrElse, OrElse
<1>2. \A write : Register!Created(write) = Created(write)
  BY <1>1 DEF Register!Created, Created
<1>3. \A old, write : Register!Rotated(old, write) = Rotated(old, write)
  BY <1>1, <1>2 DEF Register!Rotated, Rotated
<1>4. \A old, write : Register!NeedsBackup(old, write) = NeedsBackup(old, write)
  BY DEF Register!NeedsBackup, NeedsBackup
<1>5. \A old, write : Register!Regenerated(old, write) = Regenerated(old, write)
  BY <1>3 DEF Register!Regenerated, Regenerated
<1>6. \A old, write : Register!WithAllowedIps(old, write) = WithAllowedIps(old, write)
  BY <1>1 DEF Register!WithAllowedIps, WithAllowedIps
<1>7. \A old, write : Register!Rehashed(old, write) = Rehashed(old, write)
  BY <1>2 DEF Register!Rehashed, Rehashed
<1>8. \A old, hash : Register!Reverted(old, hash) = Reverted(old, hash)
  BY DEF Register!Reverted, Reverted
<1> QED
  BY <1>2, <1>3, <1>4, <1>5, <1>6, <1>7, <1>8

(* What is common to the steps of caller p on client k.                     *)
LEMMA CallerMoves ==
    ASSUME BothInTurn, NEW p \in Callers, NEW k \in Keys, OthersStay(p), Alone(p, k),
           InOperation(p) => call[p].key = k,
           call'[p].step # "returned" => call'[p].key = k,
           \A j \in Keys \ {k} : record'[j] = record[j] /\ backup'[j] = backup[j]
    PROVE  /\ Undos' = [Undos EXCEPT ![k] = Undo(k)']
           /\ Reverting(p, k) => Candidate(k) = call[p].backupHash
           /\ ~Reverting(p, k) => Candidate(k) = backup[k]
           /\ Reverting(p, k)' => Candidate(k)' = call'[p].backupHash
           /\ ~Reverting(p, k)' => Candidate(k)' = backup'[k]
<1>1. Undos' = [Undos EXCEPT ![k] = Undo(k)']
  BY OneKeyMoves, RevertsElsewhere
<1>2. CandidatesKnown /\ CandidatesKnown'
  BY CandidateIs, CandidateIsNext DEF BothInTurn
<1>3. \A q \in Callers \ {p} : ~Reverting(q, k) /\ ~Reverting(q, k)'
  BY RevertsHere
<1> QED
  BY <1>1, <1>2, <1>3 DEF CandidatesKnown

(* Begin is a stutter: a revert is not yet one before it has read.          *)
LEMMA BeginRefines ==
    ASSUME BothInTurn, NEW p \in Callers, NEW operation \in Usage.operations,
           NEW k \in Keys, NEW write \in Arguments(operation),
           Begin(p, operation, k, write)
    PROVE  Register!Next \/ UNCHANGED Register!vars
<1>1. TypeOK
  BY DEF BothInTurn, HeldInv
<1>2. UNCHANGED <<record, backup>> /\ ~InOperation(p)
  BY DEF Begin
<1>3. Alone(p, k)
  BY DEF Begin, Alone, BothInTurn
<1>4. /\ OthersStay(p) /\ call'[p].key = k /\ call'[p].step = FirstStep(operation)
      /\ call'[p].operation = operation /\ operation \in Operations
  BY <1>1, BeginEffect, ArgumentWrites
<1>5. ~Reverting(p, k) /\ ~Reverting(p, k)'
  BY <1>2, <1>4 DEF Reverting, FirstStep, InOperation
<1>6. Undos' = [Undos EXCEPT ![k] = Undo(k)'] /\ Candidate(k)' = Candidate(k)
  BY <1>2, <1>3, <1>4, <1>5, CallerMoves
<1>7. Undo(k)' = Undo(k)
  BY <1>2, <1>6 DEF Undo
<1> QED
  BY <1>2, <1>6, <1>7, ForgetOrStay

(* The commands that leave the record alone.                                *)
LEMMA ReadBackupRefines ==
    ASSUME BothInTurn, NEW p \in Callers, ReadBackup(p)
    PROVE  Register!Next \/ UNCHANGED Register!vars
<1>1. TypeOK /\ InOperation(p) /\ call[p].step = "readBackup"
  BY DEF BothInTurn, HeldInv, ReadBackup, At, InOperation
<1>2. PICK k \in Keys : k = call[p].key /\ Alone(p, k)
  BY <1>1, TurnKnown DEF BothInTurn
<1>3. UNCHANGED <<record, backup>>
  BY DEF ReadBackup
<1>4. /\ OthersStay(p)
      /\ call'[p].step # "returned" =>
            call'[p].key = k /\ call'[p].backupHash = backup[k]
  BY <1>1, <1>2, ReadBackupEffect DEF SameArguments
<1>5. ~Reverting(p, k) /\ (call'[p].step = "returned" => ~Reverting(p, k)')
  BY <1>1 DEF Reverting
<1>6. Undos' = [Undos EXCEPT ![k] = Undo(k)'] /\ Candidate(k)' = Candidate(k)
  BY <1>2, <1>3, <1>4, <1>5, CallerMoves
<1>7. Undo(k)' = Undo(k)
  BY <1>3, <1>6 DEF Undo
<1> QED
  BY <1>3, <1>6, <1>7, ForgetOrStay

(* ReadRecord is a stutter or, where a revert finds no record, a loss of    *)
(* the undo hash.                                                           *)
LEMMA ReadRecordRefines ==
    ASSUME BothInTurn, NEW p \in Callers, ReadRecord(p)
    PROVE  Register!Next \/ UNCHANGED Register!vars
<1>1. TypeOK /\ InOperation(p) /\ call[p].step = "read"
  BY DEF BothInTurn, HeldInv, ReadRecord, At, InOperation
<1>2. PICK k \in Keys : k = call[p].key /\ Alone(p, k) /\ UpToDate(p)
  BY <1>1, TurnKnown DEF BothInTurn
<1>3. UNCHANGED <<record, backup>>
  BY DEF ReadRecord
<1>4. /\ OthersStay(p)
      /\ call'[p].step # "returned" =>
            /\ call'[p].key = k /\ call'[p].backupHash = call[p].backupHash
            /\ call'[p].operation = call[p].operation
            /\ call'[p].step = AfterRead(call[p], record[k])
      /\ call'[p].step = "returned" => call[p].operation # "revert"
  <2>1. AfterRead(call[p], record[call[p].key]) # "returned"
    BY DEF AfterRead
  <2> QED
    BY <1>1, <1>2, <2>1, ReadRecordEffect DEF SameArguments
<1>5. /\ Undos' = [Undos EXCEPT ![k] = Undo(k)']
      /\ Reverting(p, k) => Candidate(k) = call[p].backupHash
      /\ ~Reverting(p, k) => Candidate(k) = backup[k]
      /\ Reverting(p, k)' => Candidate(k)' = call'[p].backupHash
      /\ ~Reverting(p, k)' => Candidate(k)' = backup[k]
  BY <1>2, <1>3, <1>4, CallerMoves
<1>6. CASE call[p].operation = "revert"
  <2>1. Reverting(p, k) /\ Lasts(k, call[p].backupHash)
    BY <1>1, <1>2, <1>6 DEF Reverting, UpToDate
  <2>2. CASE record[k] = NoRecord
    <3>1. ~Reverting(p, k)'
      BY <1>4, <1>6, <2>2 DEF Reverting, AfterRead
    <3>2. Undo(k) = call[p].backupHash /\ Undo(k)' = backup[k]
      BY <1>3, <1>5, <2>1, <2>2, <3>1 DEF Undo
    <3> QED
      BY <1>3, <1>5, <2>1, <3>2, ForgetOrStay DEF Lasts
  <2>3. CASE record[k] # NoRecord
    <3>1. Reverting(p, k)'
      BY <1>4, <1>6, <2>3 DEF Reverting, AfterRead
    <3>2. Candidate(k)' = Candidate(k)
      BY <1>4, <1>5, <2>1, <3>1 DEF Reverting
    <3>3. Undo(k)' = Undo(k)
      BY <1>3, <3>2 DEF Undo
    <3> QED
      BY <1>3, <1>5, <3>3, ForgetOrStay
  <2> QED
    BY <2>2, <2>3
<1>7. CASE call[p].operation # "revert"
  <2>1. ~Reverting(p, k) /\ ~Reverting(p, k)'
    BY <1>4, <1>7 DEF Reverting
  <2>2. Undo(k)' = Undo(k)
    BY <1>3, <1>5, <2>1 DEF Undo
  <2> QED
    BY <1>3, <1>5, <2>2, ForgetOrStay
<1> QED
  BY <1>6, <1>7

(* SetBackup is a stutter, for the backup is the hash of the record, or     *)
(* forgets what an earlier rotation could undo.                             *)
LEMMA SetBackupRefines ==
    ASSUME BothInTurn, NEW p \in Callers, SetBackup(p)
    PROVE  Register!Next \/ UNCHANGED Register!vars
<1>1. TypeOK /\ CallHeld(p) /\ InOperation(p) /\ call[p].step = "setBackup"
  BY DEF BothInTurn, HeldInv, SetBackup, At, InOperation
<1>2. PICK k \in Keys : k = call[p].key /\ Alone(p, k) /\ UpToDate(p)
  BY <1>1, TurnKnown DEF BothInTurn
<1>3. /\ OthersStay(p) /\ call[p].operation = "setSecret"
      /\ NeedsBackup(call[p].existing, call[p].write)
      /\ backup' = [backup EXCEPT ![k] = call[p].existing.hash]
      /\ call'[p].step = "store" /\ call'[p].key = k /\ call'[p].operation = "setSecret"
  BY <1>1, <1>2, SetBackupEffect DEF SameArguments
<1>4. record' = record /\ call[p].existing = record[k]
  BY <1>1, <1>2 DEF SetBackup, UpToDate
<1>5. /\ backup'[k] = record[k].hash
      /\ \A j \in Keys \ {k} : backup'[j] = backup[j]
  BY <1>1, <1>3, <1>4 DEF TypeOK
<1>6. ~Reverting(p, k) /\ ~Reverting(p, k)'
  BY <1>3 DEF Reverting
<1>7. Undos' = [Undos EXCEPT ![k] = Undo(k)'] /\ Candidate(k)' = record[k].hash
  BY <1>2, <1>3, <1>4, <1>5, <1>6, CallerMoves
<1>8. Undo(k)' = NoHash
  BY <1>3, <1>4, <1>7 DEF Undo, NeedsBackup
<1> QED
  BY <1>4, <1>7, <1>8, ForgetOrStay

(* The store of a revert: the record gets the undo hash, which is spent; or *)
(* the record had it already, and the register stutters.                    *)
LEMMA RevertRefines ==
    ASSUME BothInTurn, NEW p \in Callers, StoreRecord(p), call[p].operation = "revert"
    PROVE  Register!Next \/ UNCHANGED Register!vars
<1>1. TypeOK /\ CallHeld(p) /\ InOperation(p) /\ call[p].step = "store"
  BY DEF BothInTurn, HeldInv, StoreRecord, At, InOperation
<1>2. PICK k \in Keys : /\ k = call[p].key /\ Alone(p, k) /\ UpToDate(p)
                        /\ Fits(call[p]) /\ call[p] \in CallStates
  BY <1>1, TurnKnown DEF BothInTurn
<1>3. PICK hash : hash = call[p].backupHash
  OBVIOUS
<1>4. /\ hash # NoHash /\ Lasts(k, hash)
      /\ call[p].existing = record[k] /\ record[k] # NoRecord
  BY <1>1, <1>2, <1>3 DEF UpToDate, Fits
<1>5. record[k] \in Records
  BY <1>1, <1>4 DEF TypeOK
<1>6. /\ OthersStay(p)
      /\ record' = [record EXCEPT ![k] = Reverted(record[k], hash)]
      /\ call'[p].step = "clearBackup" /\ call'[p].key = k
  <2>1. NewRecord(call[p]) = Reverted(record[k], hash)
    BY <1>3, <1>4 DEF NewRecord
  <2> QED
    BY <1>1, <1>2, <2>1, StoreEffect DEF SameArguments
<1>7. backup' = backup
  BY DEF StoreRecord
<1>8. /\ \A j \in Keys \ {k} : record'[j] = record[j]
      /\ record'[k] = Reverted(record[k], hash)
  BY <1>1, <1>6 DEF TypeOK
<1>9. Reverting(p, k) /\ ~Reverting(p, k)'
  BY <1>1, <1>2, <1>6 DEF Reverting
<1>10. /\ Undos' = [Undos EXCEPT ![k] = Undo(k)']
       /\ Candidate(k) = hash /\ Candidate(k)' \in {hash, NoHash}
  BY <1>2, <1>3, <1>4, <1>6, <1>7, <1>8, <1>9, CallerMoves DEF Lasts
<1>11. record'[k] # NoRecord /\ record'[k].hash = hash
  <2>1. hash \in Hashes
    BY <1>2, <1>3, <1>4 DEF CallStates
  <2>2. Reverted(record[k], hash) \in Records
    BY <1>5, <2>1 DEF Reverted, Records
  <2> QED
    BY <1>5, <1>8, <2>2, NoRecordAssumption DEF Reverted, Records
<1>12. Undo(k)' = NoHash
  BY <1>10, <1>11 DEF Undo
<1>13. CASE record[k].hash = hash
  <2>1. Reverted(record[k], hash) = record[k]
    BY <1>5, <1>13 DEF Reverted, Records
  <2>2. record' = record
    BY <1>1, <1>6, <2>1 DEF TypeOK
  <2> QED
    BY <1>10, <1>12, <2>2, ForgetOrStay
<1>14. CASE record[k].hash # hash
  <2>1. Undos[k] = hash
    BY <1>10, <1>14 DEF Undo, Undos
  <2>2. Register!Revert(k)
    BY <1>4, <1>6, <1>10, <1>12, <2>1, SameRecords
    DEF Undos, Register!Revert, Register!Store, Register!UndoIs
  <2> QED
    BY <2>2 DEF Register!Next
<1> QED
  BY <1>13, <1>14

(* The store of any other operation is that operation of the register.      *)
LEMMA StoreRefines ==
    ASSUME BothInTurn, NEW p \in Callers, StoreRecord(p), call[p].operation # "revert"
    PROVE  Register!Next \/ UNCHANGED Register!vars
<1>1. TypeOK /\ CallHeld(p) /\ InOperation(p) /\ call[p].step = "store"
  BY DEF BothInTurn, HeldInv, StoreRecord, At, InOperation
<1>2. PICK k \in Keys : /\ k = call[p].key /\ Alone(p, k) /\ UpToDate(p)
                        /\ Fits(call[p]) /\ call[p] \in CallStates
  BY <1>1, TurnKnown DEF BothInTurn
<1>3. PICK write \in WriteSet : write = call[p].write
  BY <1>2 DEF CallStates
<1>4. /\ OthersStay(p)
      /\ record' = [record EXCEPT ![k] = NewRecord(call[p])]
      /\ call'[p].step = "returned" /\ UNCHANGED backup
  BY <1>1, <1>2, StoreEffect DEF StoreRecord
<1>5. \A j \in Keys \ {k} : record'[j] = record[j]
  BY <1>1, <1>4 DEF TypeOK
<1>6. ~Reverting(p, k) /\ ~Reverting(p, k)'
  BY <1>4 DEF Reverting
<1>7. /\ Undos' = [Undos EXCEPT ![k] = Undo(k)']
      /\ Candidate(k) = backup[k] /\ Candidate(k)' = backup[k]
  BY <1>2, <1>4, <1>5, <1>6, CallerMoves
<1>8. Register!UndoMayLinger(k)
  BY <1>7, CandidateLingers
<1>9. call[p].operation # "create" => call[p].existing = record[k]
  BY <1>1, <1>2 DEF UpToDate
<1>10. CASE call[p].operation = "create"
  <2>1. NewRecord(call[p]) = Created(write)
    BY <1>3, <1>10 DEF NewRecord
  <2>2. Register!Create(k, write)
    BY <1>4, <1>8, <2>1, SameRecords DEF Register!Create, Register!Store
  <2> QED
    BY <2>2 DEF Register!Next
<1>11. CASE call[p].operation = "setSecret"
  <2>1. NewRecord(call[p]) = Rotated(record[k], write)
    BY <1>3, <1>9, <1>11 DEF NewRecord
  <2>2. NeedsBackup(record[k], write) =>
            Register!UndoIs(k, Register!CurrentHash(k)) \/ Register!UndoIs(k, NoHash)
    <3> SUFFICES ASSUME NeedsBackup(record[k], write)
                 PROVE  Register!UndoIs(k, Register!CurrentHash(k)) \/ Register!UndoIs(k, NoHash)
      OBVIOUS
    <3>1. Lasts(k, record[k].hash)
      BY <1>1, <1>2, <1>3, <1>9, <1>11 DEF UpToDate
    <3>2. Register!CurrentHash(k) = record[k].hash
      BY DEF NeedsBackup, Register!CurrentHash
    <3>3. Undo(k)' \in {record[k].hash, NoHash}
      BY <1>7, <3>1 DEF Undo, Lasts
    <3> QED
      BY <1>7, <3>2, <3>3 DEF Undos, Register!UndoIs
  <2>3. Register!SetSecret(k, write)
    BY <1>4, <1>8, <2>1, <2>2, SameRecords DEF Register!SetSecret, Register!Store
  <2> QED
    BY <2>3 DEF Register!Next
<1>12. CASE call[p].operation = "regenerateSecret"
  <2>1. NewRecord(call[p]) = Regenerated(record[k], write) /\ record[k] # NoRecord
    BY <1>1, <1>2, <1>3, <1>9, <1>12 DEF NewRecord, Fits
  <2>2. Register!RegenerateSecret(k, write)
    BY <1>4, <1>8, <2>1, SameRecords DEF Register!RegenerateSecret, Register!Store
  <2> QED
    BY <2>2 DEF Register!Next
<1>13. CASE call[p].operation = "setAllowedIps"
  <2>1. NewRecord(call[p]) = WithAllowedIps(record[k], write) /\ record[k] # NoRecord
    BY <1>1, <1>2, <1>3, <1>9, <1>13 DEF NewRecord, Fits
  <2>2. record[k] \in Records /\ NewRecord(call[p]) \in Records
    BY <1>1, <1>2, <2>1, NewRecordType DEF TypeOK
  <2>3. record'[k] # NoRecord /\ record'[k].hash = record[k].hash
    BY <1>1, <1>4, <2>1, <2>2, NoRecordAssumption DEF TypeOK, WithAllowedIps, Records
  <2>4. Undo(k)' = Undo(k)
    BY <1>7, <2>1, <2>3 DEF Undo
  <2>5. Undos' = Undos
    BY <1>7, <2>4 DEF Undos
  <2>6. Register!SetAllowedIps(k, write)
    BY <1>4, <2>1, <2>5, SameRecords DEF Undos, Register!SetAllowedIps, Register!Store
  <2> QED
    BY <2>6 DEF Register!Next
<1>14. CASE call[p].operation = "rawSetSecretHash"
  <2>1. NewRecord(call[p]) = Rehashed(record[k], write)
    BY <1>3, <1>9, <1>14 DEF NewRecord
  <2>2. Register!RawSetSecretHash(k, write)
    BY <1>4, <1>8, <2>1, SameRecords DEF Register!RawSetSecretHash, Register!Store
  <2> QED
    BY <2>2 DEF Register!Next
<1> QED
  BY <1>1, <1>2, <1>10, <1>11, <1>12, <1>13, <1>14
  DEF CallStates, Operations, FactoryOperations, Fits

(* A removal is the abstract removal; clearing the backup, or stopping,     *)
(* keeps or forgets the undo hash.                                          *)
LEMMA EndRefines ==
    ASSUME BothInTurn, NEW p \in Callers, RemoveRecord(p) \/ ClearBackup(p) \/ Abort(p)
    PROVE  Register!Next \/ UNCHANGED Register!vars
<1>1. TypeOK /\ InOperation(p) /\ TypeOK'
  BY DEF BothInTurn, HeldInv, RemoveRecord, ClearBackup, Abort, At, InOperation
<1>2. PICK k \in Keys : k = call[p].key /\ Alone(p, k) /\ UpToDate(p)
  BY <1>1, TurnKnown DEF BothInTurn
<1>3. /\ OthersStay(p) /\ call'[p].step = "returned"
      /\ \A j \in Keys \ {k} : record'[j] = record[j] /\ backup'[j] = backup[j]
  BY <1>1, <1>2, EndEffect DEF TypeOK
<1>4. ~Reverting(p, k)'
  BY <1>3 DEF Reverting
<1>5. /\ Undos' = [Undos EXCEPT ![k] = Undo(k)']
      /\ Reverting(p, k) => Candidate(k) = call[p].backupHash
      /\ ~Reverting(p, k) => Candidate(k) = backup[k]
      /\ Candidate(k)' = backup'[k]
  BY <1>2, <1>3, <1>4, CallerMoves
<1>6. CASE RemoveRecord(p)
  <2>1. ~Reverting(p, k) /\ backup' = backup
    BY <1>6 DEF RemoveRecord, At, Reverting
  <2>2. Register!UndoMayLinger(k)
    BY <1>5, <2>1, CandidateLingers
  <2>3. Register!Delete(k)
    BY <1>2, <1>6, <2>2 DEF RemoveRecord, Register!Delete, Register!Store
  <2> QED
    BY <2>3 DEF Register!Next
<1>7. CASE ClearBackup(p)
  <2>1. record' = record /\ backup'[k] = NoHash
    BY <1>1, <1>2, <1>7 DEF ClearBackup, TypeOK
  <2>2. Undo(k)' = NoHash
    BY <1>5, <2>1 DEF Undo
  <2> QED
    BY <1>5, <2>1, <2>2, ForgetOrStay
<1>8. CASE Abort(p)
  <2>1. record' = record /\ backup' = backup
    BY <1>8 DEF Abort
  <2>2. Reverting(p, k) => Lasts(k, call[p].backupHash)
    BY <1>2 DEF Reverting, UpToDate
  <2>3. Undo(k)' \in {Undo(k), NoHash}
    BY <1>5, <2>1, <2>2 DEF Undo, Lasts
  <2> QED
    BY <1>5, <2>1, <2>3, ForgetOrStay
<1> QED
  BY <1>6, <1>7, <1>8

(* An expiry forgets the undo hash or, while a revert has it, stutters.     *)
LEMMA ExpiryRefines ==
    ASSUME BothInTurn, NEW k \in Keys, BackupExpires(k)
    PROVE  Register!Next \/ UNCHANGED Register!vars
<1>1. /\ UNCHANGED <<record, call>>
      /\ backup'[k] = NoHash /\ \A j \in Keys \ {k} : backup'[j] = backup[j]
  BY DEF BackupExpires, BothInTurn, HeldInv, TypeOK
<1>2. \A j \in Keys : \A q \in Callers : SameRevert(q, j)
  BY <1>1 DEF SameRevert, Reverting
<1>3. Undos' = [Undos EXCEPT ![k] = Undo(k)']
  BY <1>1, <1>2, OneKeyMoves
<1>4. CASE \E q \in Callers : Reverting(q, k)
  <2>1. Candidate(k)' = Candidate(k)
    BY <1>2, <1>4, UndoUntouched
  <2>2. Undo(k)' = Undo(k)
    BY <1>1, <2>1 DEF Undo
  <2> QED
    BY <1>1, <1>3, <2>2, ForgetOrStay
<1>5. CASE \A q \in Callers : ~Reverting(q, k)
  <2>1. \A q \in Callers : ~Reverting(q, k)'
    BY <1>2, <1>5 DEF SameRevert
  <2>2. Candidate(k)' = NoHash
    BY <1>1, <2>1, CandidateIsNext DEF BothInTurn, CandidatesKnown
  <2>3. Undo(k)' = NoHash
    BY <2>2 DEF Undo
  <2> QED
    BY <1>1, <1>3, <2>3, ForgetOrStay
<1> QED
  BY <1>4, <1>5

(* Every step is a step of the register or a stutter.                       *)
LEMMA StepRefines ==
    ASSUME BothInTurn, [Next]_vars
    PROVE  Register!Next \/ UNCHANGED Register!vars
<1>1. ASSUME NEW p \in Callers, NEW operation \in Usage.operations, NEW k \in Keys,
             NEW write \in Arguments(operation), Begin(p, operation, k, write)
      PROVE  Register!Next \/ UNCHANGED Register!vars
  BY <1>1, BeginRefines
<1>2. ASSUME NEW p \in Callers, Command(p)
      PROVE  Register!Next \/ UNCHANGED Register!vars
  BY <1>2, ReadBackupRefines, ReadRecordRefines, SetBackupRefines, RevertRefines,
     StoreRefines, EndRefines DEF Command
<1>3. ASSUME NEW k \in Keys, BackupExpires(k)
      PROVE  Register!Next \/ UNCHANGED Register!vars
  BY <1>3, ExpiryRefines
<1>4. CASE UNCHANGED vars
  BY <1>4 DEF vars, storeVars, Register!vars, Undo, Candidate
<1> QED
  BY <1>1, <1>2, <1>3, <1>4 DEF Next

(* The first states are first states of the register.                       *)
LEMMA InitRefines == Init => Register!Init
<1> SUFFICES ASSUME Init PROVE Register!Init
  OBVIOUS
<1>1. record \in [Keys -> InitialRecords]
  BY UsageType DEF Init
<1>2. \A k \in Keys : Candidate(k) = NoHash
  BY DEF Init, Candidate, Returned
<1>3. \A k \in Keys : Undo(k) = NoHash
  BY <1>2 DEF Undo
<1> QED
  BY <1>1, <1>3 DEF Register!Init

(* With one caller at a time on each client, every awaited command, stop    *)
(* and expiry is a step or a stutter of the atomic register.                *)
THEOREM Refinement == Spec => ImplementsRegister
<1> DEFINE A == Usage.serialised => Register!Next
           v == Register!vars
<1>1. HeldInv /\ TurnInv /\ HeldInv' /\ TurnInv' /\ [Next]_vars => [A]_v
  <2> SUFFICES ASSUME HeldInv, TurnInv, HeldInv', TurnInv', [Next]_vars, Usage.serialised
               PROVE  Register!Next \/ UNCHANGED Register!vars
    OBVIOUS
  <2>1. deployment' = deployment
    BY DEF Next, Begin, Command, ReadBackup, ReadRecord, SetBackup, StoreRecord,
           RemoveRecord, ClearBackup, Abort, BackupExpires, vars
  <2>2. BothInTurn
    BY <2>1 DEF BothInTurn, Usage
  <2> QED
    BY <2>2, StepRefines
<1> HIDE DEF A, v
<1>2. Spec => [][A]_v
  BY <1>1, HeldInvariant, TurnInvariant, PTL DEF Spec
<1>3. Spec => Register!Init
  BY InitRefines DEF Spec
<1> QED
  BY <1>2, <1>3 DEF A, v, ImplementsRegister
=============================================================================
