------------------------- MODULE CredentialRecords -------------------------
(***************************************************************************)
(* The stored credential and the records the clients factory computes.     *)
(*                                                                         *)
(* A credential is one JSON value of the Redis hash NAMESPACE:clients.     *)
(* Its createdAt and updatedAt are left out: no decision of the code reads *)
(* them.  Lists of IP rules are sets of addresses (the parsing and matching *)
(* of rules is a component of its own), and an absent purpose is "any",    *)
(* which is how the verifier and the parser read it.                       *)
(***************************************************************************)
CONSTANTS Hashes,     \* secret hashes a credential can hold
          Instants,   \* the values an expiresAt can take
          Addresses,  \* the client addresses an allowlist can name
          NoRecord,   \* HGET of a client that is not stored
          Never,      \* expiresAt = null
          Unset       \* an optional argument the caller leaves undefined

Purposes == {"any", "propagation-only"}

Records == [hash       : Hashes,
            expiresAt  : Instants \cup {Never},
            allowedIps : SUBSET Addresses,
            fromDbSeed : BOOLEAN,
            purpose    : Purposes]

\* The arguments of create, setSecret, setSecretHash and regenerateSecret.
Writes == [hash       : Hashes,
           expiresAt  : Instants \cup {Never, Unset},
           allowedIps : (SUBSET Addresses) \cup {Unset},
           fromDbSeed : BOOLEAN \cup {Unset},
           purpose    : Purposes \cup {Unset}]

ASSUME NoRecordAssumption == NoRecord \notin Records

ASSUME UnsetAssumption ==
    /\ Unset \notin Instants \cup {Never}
    /\ \A ips \in SUBSET Addresses : Unset # ips
    /\ Unset \notin BOOLEAN
    /\ Unset \notin Purposes

OrElse(argument, default) == IF argument = Unset THEN default ELSE argument

-----------------------------------------------------------------------------
(* create: every omitted option takes its default, and what was stored      *)
(* before is not looked at.                                                 *)
Created(write) ==
    [hash       |-> write.hash,
     expiresAt  |-> OrElse(write.expiresAt, Never),
     allowedIps |-> OrElse(write.allowedIps, {}),
     fromDbSeed |-> OrElse(write.fromDbSeed, FALSE),
     purpose    |-> OrElse(write.purpose, "any")]

(* Mutant: an omitted purpose is "any".                                     *)
RotatedMutant(existing, write) ==
    IF existing = NoRecord
    THEN Created(write)
    ELSE [hash       |-> write.hash,
          expiresAt  |-> OrElse(write.expiresAt, existing.expiresAt),
          allowedIps |-> OrElse(write.allowedIps, existing.allowedIps),
          fromDbSeed |-> OrElse(write.fromDbSeed, existing.fromDbSeed),
          purpose    |-> OrElse(write.purpose, "any")]

(* setSecret and setSecretHash: an omitted option keeps the stored value.   *)
Rotated(existing, write) ==
    IF existing = NoRecord
    THEN Created(write)
    ELSE [hash       |-> write.hash,
          expiresAt  |-> OrElse(write.expiresAt, existing.expiresAt),
          allowedIps |-> OrElse(write.allowedIps, existing.allowedIps),
          fromDbSeed |-> OrElse(write.fromDbSeed, existing.fromDbSeed),
          purpose    |-> OrElse(write.purpose, existing.purpose)]

(* Mutant: every seeded write of a known client makes a backup.             *)
NeedsBackupMutant(existing, write) ==
    write.fromDbSeed = TRUE /\ existing # NoRecord

(* The rotation keeps the hash it replaces in the TTL backup.               *)
NeedsBackup(existing, write) ==
    /\ write.fromDbSeed = TRUE
    /\ existing # NoRecord
    /\ existing.hash # write.hash

(* regenerateSecret: the origin and the purpose are always kept.            *)
(* preserveExpiresAt = false is an expiresAt of Never.                      *)
Regenerated(existing, write) ==
    [Rotated(existing, write) EXCEPT !.fromDbSeed = existing.fromDbSeed,
                                     !.purpose    = existing.purpose]

WithAllowedIps(existing, write) ==
    [existing EXCEPT !.allowedIps = OrElse(write.allowedIps, {})]

Reverted(existing, backupHash) == [existing EXCEPT !.hash = backupHash]

(* RedisCredentialStore.setSecretHash: the record it writes has no purpose. *)
Rehashed(existing, write) ==
    IF existing = NoRecord
    THEN Created([write EXCEPT !.expiresAt = Unset, !.allowedIps = Unset,
                               !.fromDbSeed = Unset, !.purpose = Unset])
    ELSE [existing EXCEPT !.hash = write.hash, !.purpose = "any"]
=============================================================================
