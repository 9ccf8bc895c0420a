--------------------------- MODULE CredentialStore ---------------------------
(***************************************************************************)
(* The clients factory over one Redis credential store.                    *)
(*                                                                         *)
(* An operation is a sequence of Redis commands, each awaited: read the     *)
(* credential, set the backup, store the record computed from what was      *)
(* read, ...  Nothing locks a credential between the commands, so the       *)
(* commands of different callers interleave; a process may stop, or a       *)
(* command may reject, after any of them; and a backup key expires when its *)
(* TTL is over.                                                            *)
(*                                                                         *)
(* What surrounds the store is its deployment: which operations it uses and *)
(* whether at most one caller changes a client at a time.  The code checks  *)
(* neither, so both are assumptions, made by the properties that need them. *)
(***************************************************************************)
EXTENDS CredentialRecords

CONSTANTS Callers,     \* invocations in progress at the same time
          Keys,        \* the clientIds of the store
          NoHash,      \* GET of a backup key that does not exist
          WriteSet,    \* the arguments callers write with
          Deployments, \* how applications use the store
          CallersFail, \* commands reject and processes stop
          InitialRecords

(* The methods of the clients factory that change a credential, and the one *)
(* of RedisCredentialStore that does so past the factory.                   *)
FactoryOperations == {"create", "setSecret", "regenerateSecret",
                      "setAllowedIps", "delete", "revert"}

Operations == FactoryOperations \cup {"rawSetSecretHash"}

(* How an application uses the store.                                       *)
DeploymentKinds ==
    [serialised    : BOOLEAN,           \* one caller at a time on each client
     backupsExpire : BOOLEAN,           \* within the time that is looked at
     operations    : SUBSET Operations,
     writes        : (SUBSET WriteSet) \ {{}},
     initial       : SUBSET InitialRecords]

ASSUME StoreAssumption ==
    /\ WriteSet \subseteq Writes
    /\ Deployments \in [DOMAIN Deployments -> DeploymentKinds]
    /\ CallersFail \in BOOLEAN
    /\ InitialRecords \subseteq Records \cup {NoRecord}
    /\ NoHash \notin Hashes

VARIABLES deployment,  \* one of DOMAIN Deployments, for ever
          record,  \* the hash NAMESPACE:clients
          backup,  \* the keys NAMESPACE:credentials-backup:CLIENT_ID
          call,    \* the operation each caller is in
          past,    \* history: the hashes every client has held so far
          replaced \* history: the hash the last seeded rotation replaced,
                   \* NoHash once restored; Unset, for nothing is said of it,
                   \* after a half rotation and once the record is static

storeVars == <<record, backup, call, past, replaced>>
vars == <<deployment, storeVars>>

Usage == Deployments[deployment]

-----------------------------------------------------------------------------
(* The Redis command an operation awaits next.                              *)
Steps == {"readBackup", "read", "setBackup", "store", "remove", "clearBackup"}

Results == {"none", "done", "notFound", "reverted", "notReverted", "failed"}

(* A caller outside an operation has the result of its last one.            *)
Returned(result) == [step |-> "returned", result |-> result]

CallStates == [step : Steps, operation : Operations, key : Keys,
               write : WriteSet, existing : Records \cup {NoRecord},
               backupHash : Hashes \cup {NoHash}]

InOperation(p) == call[p].step # "returned"

At(p, step) == call[p].step = step

Return(p, result) == call' = [call EXCEPT ![p] = Returned(result)]

GoTo(p, step) == call' = [call EXCEPT ![p].step = step]

FirstStep(operation) ==
    CASE operation = "create" -> "store"
      [] operation = "delete" -> "remove"
      [] operation = "revert" -> "readBackup"
      [] OTHER                -> "read"

(* The record an operation stores, from the record and backup it has read.  *)
NewRecord(c) ==
    CASE c.operation = "create"           -> Created(c.write)
      [] c.operation = "setSecret"        -> Rotated(c.existing, c.write)
      [] c.operation = "regenerateSecret" -> Regenerated(c.existing, c.write)
      [] c.operation = "setAllowedIps"    -> WithAllowedIps(c.existing, c.write)
      [] c.operation = "rawSetSecretHash" -> Rehashed(c.existing, c.write)
      [] c.operation = "revert"           -> Reverted(c.existing, c.backupHash)

-----------------------------------------------------------------------------
Begin(p, operation, k, write) ==
    /\ ~InOperation(p)
    /\ Usage.serialised => \A q \in Callers : InOperation(q) => call[q].key # k
    /\ call' = [call EXCEPT ![p] =
          [step |-> FirstStep(operation), operation |-> operation, key |-> k,
           write |-> write, existing |-> NoRecord, backupHash |-> NoHash]]
    /\ UNCHANGED <<deployment, record, backup, past, replaced>>

(* Mutant: a revert goes on without a backup.                               *)
ReadBackupMutant(p) ==
    /\ At(p, "readBackup")
    /\ call' = [call EXCEPT ![p].step = "read",
                            ![p].backupHash = backup[call[p].key]]
    /\ UNCHANGED <<deployment, record, backup, past, replaced>>

(* revert: GET of the backup key; without one there is nothing to restore.  *)
ReadBackup(p) ==
    /\ At(p, "readBackup")
    /\ LET hash == backup[call[p].key]
       IN  IF hash = NoHash
           THEN Return(p, "notReverted")
           ELSE call' = [call EXCEPT ![p].step = "read",
                                     ![p].backupHash = hash]
    /\ UNCHANGED <<deployment, record, backup, past, replaced>>

(* Mutant: a rotation stores its record without a backup.                   *)
AfterReadMutant(c, existing) ==
    IF c.operation = "revert" /\ existing = NoRecord
    THEN "clearBackup" ELSE "store"

(* HGET of the credential, and what each operation does with the result.    *)
AfterRead(c, existing) ==
    CASE c.operation = "revert" /\ existing = NoRecord -> "clearBackup"
      [] c.operation = "setSecret" /\ NeedsBackup(existing, c.write) -> "setBackup"
      [] OTHER -> "store"

ReadRecord(p) ==
    /\ At(p, "read")
    /\ LET existing == record[call[p].key]
       IN  IF /\ existing = NoRecord
              /\ call[p].operation \in {"regenerateSecret", "setAllowedIps"}
           THEN Return(p, "notFound")
           ELSE call' = [call EXCEPT
                           ![p].step = AfterRead(call[p], existing),
                           ![p].existing = existing]
    /\ UNCHANGED <<deployment, record, backup, past, replaced>>

(* Mutant: the backup is the new hash.                                      *)
SetBackupMutant(p) ==
    /\ At(p, "setBackup")
    /\ backup' = [backup EXCEPT ![call[p].key] = call[p].write.hash]
    /\ GoTo(p, "store")
    /\ UNCHANGED <<deployment, record, past, replaced>>

(* SET EX of the backup key with the hash that was read.                    *)
SetBackup(p) ==
    /\ At(p, "setBackup")
    /\ backup' = [backup EXCEPT ![call[p].key] = call[p].existing.hash]
    /\ GoTo(p, "store")
    /\ UNCHANGED <<deployment, record, past, replaced>>

(* HSET of the record; a revert goes on to delete the backup.               *)
StoreRecord(p) ==
    /\ At(p, "store")
    /\ LET k   == call[p].key
           new == NewRecord(call[p])
       IN  /\ record' = [record EXCEPT ![k] = new]
           /\ past' = [past EXCEPT ![k] = @ \cup {new.hash}]
           /\ replaced' = [replaced EXCEPT ![k] =
                 IF call[p].operation = "revert" THEN NoHash
                 ELSE IF /\ call[p].operation = "setSecret"
                         /\ call[p].write.fromDbSeed = TRUE
                         /\ record[k] # NoRecord
                         /\ record[k].hash # new.hash THEN record[k].hash
                 ELSE IF @ # NoHash /\ new.fromDbSeed = FALSE THEN Unset
                 ELSE @]
    /\ IF call[p].operation = "revert"
       THEN GoTo(p, "clearBackup") ELSE Return(p, "done")
    /\ UNCHANGED <<deployment, backup>>

(* HDEL of the credential; its backup key is left.                          *)
RemoveRecord(p) ==
    /\ At(p, "remove")
    /\ record' = [record EXCEPT ![call[p].key] = NoRecord]
    /\ Return(p, "done")
    /\ UNCHANGED <<deployment, backup, past, replaced>>

(* DEL of the backup key, at the end of a revert.                           *)
ClearBackup(p) ==
    /\ At(p, "clearBackup")
    /\ backup' = [backup EXCEPT ![call[p].key] = NoHash]
    /\ Return(p, IF call[p].existing = NoRecord THEN "notReverted" ELSE "reverted")
    /\ replaced' = [replaced EXCEPT ![call[p].key] = NoHash]
    /\ UNCHANGED <<deployment, record, past>>

(* An operation stopped between its change of the backup and its change of  *)
(* the record leaves what there is to undo to chance.                       *)
HalfDone(c) ==
    \/ c.step = "store" /\ c.operation = "setSecret" /\ NeedsBackup(c.existing, c.write)
    \/ c.step = "clearBackup" /\ c.existing # NoRecord

(* The next command rejects, or the process stops before it.                *)
Abort(p) ==
    /\ CallersFail
    /\ InOperation(p)
    /\ Return(p, "failed")
    /\ replaced' = [replaced EXCEPT ![call[p].key] =
                       IF HalfDone(call[p]) THEN Unset ELSE @]
    /\ UNCHANGED <<deployment, record, backup, past>>

BackupExpires(k) ==
    /\ Usage.backupsExpire
    /\ backup[k] # NoHash
    /\ backup' = [backup EXCEPT ![k] = NoHash]
    /\ UNCHANGED <<deployment, record, call, past, replaced>>

-----------------------------------------------------------------------------
(* delete and revert take no options: which ones they carry is immaterial.  *)
Arguments(operation) ==
    IF operation \in {"delete", "revert"}
    THEN {CHOOSE write \in Usage.writes : TRUE} ELSE Usage.writes

Init ==
    /\ deployment \in DOMAIN Deployments
    /\ record \in [Keys -> Usage.initial]
    /\ backup = [k \in Keys |-> NoHash]
    /\ call = [p \in Callers |-> Returned("none")]
    /\ past = [k \in Keys |-> {r.hash : r \in {record[k]} \ {NoRecord}}]
    /\ replaced = [k \in Keys |-> NoHash]

Command(p) ==
    \/ ReadBackup(p)
    \/ ReadRecord(p)
    \/ SetBackup(p)
    \/ StoreRecord(p)
    \/ RemoveRecord(p)
    \/ ClearBackup(p)
    \/ Abort(p)

Next ==
    \/ \E p \in Callers, operation \in Usage.operations, k \in Keys :
          \E write \in Arguments(operation) : Begin(p, operation, k, write)
    \/ \E p \in Callers : Command(p)
    \/ \E k \in Keys : BackupExpires(k)

Spec == Init /\ [][Next]_vars

-----------------------------------------------------------------------------
TypeOK ==
    /\ deployment \in DOMAIN Deployments
    /\ record \in [Keys -> Records \cup {NoRecord}]
    /\ backup \in [Keys -> Hashes \cup {NoHash}]
    /\ call \in [Callers -> CallStates \cup {Returned(r) : r \in Results}]
    /\ past \in [Keys -> SUBSET Hashes]
    /\ replaced \in [Keys -> Hashes \cup {NoHash, Unset}]

(* A backup, and what a revert is about to restore from one, is a hash the  *)
(* same client has really held: no interleaving, crash or expiry makes a    *)
(* revert store a hash that was only on its way.                            *)
BackupWasHeld ==
    /\ \A k \in Keys : backup[k] # NoHash => backup[k] \in past[k]
    /\ \A p \in Callers : InOperation(p) /\ call[p].backupHash # NoHash =>
          call[p].backupHash \in past[call[p].key]

(* One caller at a time, and no key that has expired.                       *)
Settled == Usage.serialised /\ ~Usage.backupsExpire

(* When a seeded rotation replaces a hash, the replaced hash is what a      *)
(* revert will restore: the backup is in place before the record changes,   *)
(* so a crash never leaves a new hash that cannot be undone.                *)
RotationCanBeUndone ==
    [][Settled => \A k \in Keys :
         /\ record[k] # NoRecord /\ record'[k] # NoRecord
         /\ record'[k].hash # record[k].hash
         /\ \E p \in Callers :
               /\ At(p, "store") /\ call'[p] # call[p]
               /\ call[p].key = k
               /\ call[p].operation = "setSecret"
               /\ call[p].write.fromDbSeed = TRUE
         => backup'[k] = record[k].hash]_vars

(* Between operations, what a revert of a seeded credential restores is the *)
(* hash that the last seeded rotation replaced: a repetition of that        *)
(* rotation, or seeded writes that change something else, neither lose it   *)
(* nor put another in its place; and after an operation that was cut short  *)
(* the next rotation settles it.  What a static write leaves of an earlier  *)
(* backup is not said here (StaticIsNeverReverted).                         *)
UndoIsExact ==
    Settled => \A k \in Keys :
        /\ replaced[k] # Unset
        /\ \A p \in Callers : InOperation(p) => call[p].key # k
        => backup[k] = replaced[k]

(* A revert changes no static credential: a static credential has no        *)
(* backup, so a PATCH of one answers reverted=false.                        *)
StaticIsNeverReverted ==
    [][Settled => \A p \in Callers :
         At(p, "store") /\ call[p].operation = "revert" /\ call'[p] # call[p]
         => record[call[p].key].fromDbSeed \/ UNCHANGED record]_vars

(* The step is a caller's store of a record that replaces another.          *)
Replaces(p, k) ==
    /\ record[k] # NoRecord /\ record'[k] # NoRecord
    /\ At(p, "store") /\ call'[p] # call[p]
    /\ call[p].key = k

KeepsPurpose(p, k) ==
    \/ record[k].purpose # "propagation-only"
    \/ record'[k].purpose = "propagation-only"
    \/ call[p].operation = "create"
    \/ call[p].operation = "setSecret" /\ call[p].write.purpose # Unset

(* A propagation-only credential stays one until it is deleted, created     *)
(* anew, or written with an explicit purpose.                               *)
PurposeIsSticky ==
    [][\A p \in Callers, k \in Keys : Replaces(p, k) => KeepsPurpose(p, k)]_vars

(* The clients factory keeps a credential propagation-only through every    *)
(* rotation, revert and change of the allowlist, unless a caller writes a   *)
(* purpose: one caller at a time, since an operation that has read the      *)
(* record stores the purpose it has read.                                   *)
FactoryKeepsPurpose ==
    [][Usage.serialised => \A p \in Callers, k \in Keys :
         Replaces(p, k) /\ call[p].operation \in FactoryOperations
         => KeepsPurpose(p, k)]_vars

-----------------------------------------------------------------------------
(* The abstract register.  A revert that has read the backup restores it    *)
(* even when the key expires under it, and a backup equal to the current    *)
(* hash (a rotation or a revert that was cut short) undoes nothing.         *)
Candidate(k) ==
    LET reverts == {p \in Callers : /\ call[p].step \in {"read", "store"}
                                    /\ call[p].operation = "revert"
                                    /\ call[p].key = k}
    IN  IF reverts = {} THEN backup[k]
        ELSE call[CHOOSE p \in reverts : TRUE].backupHash

Undo(k) ==
    IF record[k] # NoRecord /\ record[k].hash = Candidate(k)
    THEN NoHash ELSE Candidate(k)

Register == INSTANCE CredentialRegister
                WITH undo <- [k \in Keys |-> Undo(k)]

(* With one caller at a time on each client, the awaited commands, crashes  *)
(* and expiries included, implement the atomic register: Register!Spec,     *)
(* whose steps only the serialised deployments are held to.                 *)
ImplementsRegister ==
    Register!Init /\ [][Usage.serialised => Register!Next]_(Register!vars)
=============================================================================
