------------------------- MODULE CredentialRegister -------------------------
(***************************************************************************)
(* What the clients factory promises of one credential store: every        *)
(* operation is one atomic change of one credential, and a client has at    *)
(* most one hash that a revert restores.                                    *)
(*                                                                         *)
(* A rotation from the DB seed that changes the hash makes the old hash the *)
(* undo hash; a revert restores it once; it may be forgotten at any moment. *)
(* Other changes leave the undo hash alone, or lose it, or leave the hash   *)
(* they replace in it (after a rotation or a revert that was cut short).    *)
(***************************************************************************)
EXTENDS CredentialRecords

CONSTANTS Keys,       \* the clients of the store
          NoHash,
          WriteSet,   \* the arguments callers write with
          InitialRecords

VARIABLES record, undo

vars == <<record, undo>>

-----------------------------------------------------------------------------
CurrentHash(k) == IF record[k] = NoRecord THEN NoHash ELSE record[k].hash

Store(k, new) == record' = [record EXCEPT ![k] = new]

UndoIs(k, hash) == undo' = [undo EXCEPT ![k] = hash]

UndoMayLinger(k) ==
    \E hash \in {undo[k], CurrentHash(k), NoHash} : UndoIs(k, hash)

Create(k, write) ==
    Store(k, Created(write)) /\ UndoMayLinger(k)

(* A write that needs a backup leaves the replaced hash, or none, to undo.  *)
SetSecret(k, write) ==
    /\ Store(k, Rotated(record[k], write))
    /\ IF NeedsBackup(record[k], write)
       THEN UndoIs(k, CurrentHash(k)) \/ UndoIs(k, NoHash)
       ELSE UndoMayLinger(k)

RegenerateSecret(k, write) ==
    /\ record[k] # NoRecord
    /\ Store(k, Regenerated(record[k], write))
    /\ UndoMayLinger(k)

SetAllowedIps(k, write) ==
    /\ record[k] # NoRecord
    /\ Store(k, WithAllowedIps(record[k], write))
    /\ UNCHANGED undo

RawSetSecretHash(k, write) ==
    Store(k, Rehashed(record[k], write)) /\ UndoMayLinger(k)

Delete(k) == Store(k, NoRecord) /\ UndoMayLinger(k)

Revert(k) ==
    /\ record[k] # NoRecord
    /\ undo[k] # NoHash
    /\ Store(k, Reverted(record[k], undo[k]))
    /\ UndoIs(k, NoHash)

Forget(k) == UndoIs(k, NoHash) /\ UNCHANGED record

Init ==
    /\ record \in [Keys -> InitialRecords]
    /\ undo = [k \in Keys |-> NoHash]

Next ==
    \E k \in Keys :
        \/ \E write \in WriteSet :
              \/ Create(k, write)
              \/ SetSecret(k, write)
              \/ RegenerateSecret(k, write)
              \/ SetAllowedIps(k, write)
              \/ RawSetSecretHash(k, write)
        \/ Delete(k)
        \/ Revert(k)
        \/ Forget(k)

Spec == Init /\ [][Next]_vars
=============================================================================
