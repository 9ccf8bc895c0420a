------------------------- MODULE MCCredentialStore -------------------------
(* Small instances of CredentialStore for TLC. *)
EXTENDS CredentialStore, TLC

CONSTANTS p1, p2, p3, k1, h0, h1, h2, a1

Credential(hash, expiresAt, allowedIps, fromDbSeed, purpose) ==
    [hash |-> hash, expiresAt |-> expiresAt, allowedIps |-> allowedIps,
     fromDbSeed |-> fromDbSeed, purpose |-> purpose]

OneInstant == {9}

(* At first a client is unknown, or a static credential with an expiry, or  *)
(* a seeded credential that is restricted in address and purpose.           *)
StoredAtStart ==
    {NoRecord,
     Credential(h0, 9, {}, FALSE, "any"),
     Credential(h0, Never, {a1}, TRUE, "propagation-only")}

SeededAtStart == {Credential(h0, Never, {a1}, TRUE, "propagation-only")}

(* Seeded rotations to two hashes, a static write that lifts the expiry, a  *)
(* write of the allowlist and the purpose, and a write that keeps the rest. *)
SeedWrites == {Credential(h1, Unset, Unset, TRUE, Unset),
               Credential(h2, Unset, Unset, TRUE, Unset)}

StaticAtStart == {Credential(h0, 9, {}, FALSE, "any")}

MixedWrites == SeedWrites \cup
              {Credential(h1, Never, Unset, FALSE, Unset),
               Credential(h2, Unset, {}, Unset, "any"),
               Credential(h0, 9, {a1}, Unset, "propagation-only")}

Uses(serialised, backupsExpire, operations, writes, initial) ==
    [serialised |-> serialised, backupsExpire |-> backupsExpire,
     operations |-> operations, writes |-> writes, initial |-> initial]

(* Side by side: what stores the hash it has read, a hash of its own or the *)
(* backup, and what removes; the remaining operations store a hash of their *)
(* own as setSecret does.                                                   *)
RacingOperations == {"setSecret", "setAllowedIps", "delete", "revert"}

(* Callers in turn, with every operation and with backups that expire; in   *)
(* turn through the factory only, with backups that last; side by side.     *)
AllDeployments ==
    [inTurn |-> Uses(TRUE, TRUE, Operations, MixedWrites, SeededAtStart),
     backupsLast |-> Uses(TRUE, FALSE, FactoryOperations, MixedWrites, StoredAtStart),
     sideBySide |-> Uses(FALSE, TRUE, RacingOperations, SeedWrites, StaticAtStart)]

InTurn == [inTurn |-> Uses(TRUE, TRUE, Operations, MixedWrites, SeededAtStart)]

(* Seeded rotations, a static write and reverts, with backups that last.    *)
BackupsLast ==
    [backupsLast |-> Uses(TRUE, FALSE, FactoryOperations, MixedWrites, SeededAtStart)]

CallerSymmetry == Permutations(Callers)
=============================================================================
