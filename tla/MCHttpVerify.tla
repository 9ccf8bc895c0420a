---------------------------- MODULE MCHttpVerify ----------------------------
(* Small instances of HttpVerify for TLC. *)
EXTENDS HttpVerify, FiniteSets, TLC

CONSTANTS c1, c2, h1, h2, a1, a2

(* The second client id looks like a nonce key of the first.                *)
ClientK    == <<"k">>
ClientKN   == <<"k", ":", "n">>
NonceN     == <<"n">>
OneClient  == {ClientK}
TwoClients == {ClientK, ClientKN}
OneNonce   == {NonceN}

NoAddresses == {}
NoInstants  == {}
FirstInstants == {1}

Credential(hash, expiresAt, allowedIps, purpose) ==
    [hash |-> hash, expiresAt |-> expiresAt, allowedIps |-> allowedIps,
     fromDbSeed |-> FALSE, purpose |-> purpose]

AnyRoute   == Credential(h1, Never, {}, "any")
Restricted == Credential(h1, Never, {}, "propagation-only")

(* A purpose that can be widened and narrowed, and for one call another     *)
(* hash, an expiry and an allowlist as well.                                *)
ReplayRecords == {AnyRoute, Restricted}

CredentialRecordsInUse ==
    ReplayRecords \cup
    {Credential(h2, Never, {}, "any"),
     Credential(h1, 1, {}, "any"),
     Credential(h1, Never, {a1}, "any")}

StoredAtStart == ReplayRecords \cup {NoRecord}

(* Requests of every client to both paths from nowhere in particular; with  *)
(* another hash, and from the address of the allowlist.                     *)
Repeatable == {r \in Requests : r.hash = h1} \X {NoAddress}

MixedDeliveries ==
    Repeatable \cup
    {delivery \in Requests \X (Addresses \cup {NoAddress}) :
        /\ delivery[1].path = "api"
        /\ delivery[1].hash = h2 \/ delivery[2] = a1}

Started == {c \in Calls : ~At(c, "none")}

(* One call, for whom anything is edited, wherever it comes from.           *)
UnderEdits ==
    /\ Cardinality(Started) <= 1 /\ now <= 3
    /\ \A c \in Started : call[c].step \in Running

(* Two deliveries for restricted credentials, one of which may be edited.   *)
Racing ==
    /\ \A c \in Started : <<call[c].request, call[c].from>> \in Repeatable
    /\ edits <= 1
    /\ \A k \in ClientIds : credential[k] \in ReplayRecords \cup {NoRecord}
    /\ Cardinality({k \in ClientIds : credential[k] # Restricted}) <= edits
    /\ \E c \in Calls : call[c].step \in Running \cup {"none"}

(* Bound: what is explored is one or the other, until the last answer.      *)
WithinBounds == UnderEdits \/ Racing

CallSymmetry == Permutations(Calls)
=============================================================================
