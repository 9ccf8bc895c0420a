------------------------ MODULE MCInternalManagement ------------------------
(* Small instances of InternalManagement for TLC. *)
EXTENDS InternalManagement, TLC

CONSTANTS boot, c1, h0, h1, h2, r1, r2

Credential(hash, fromDbSeed) ==
    [hash |-> hash, expiresAt |-> Never, allowedIps |-> {},
     fromDbSeed |-> fromDbSeed, purpose |-> "any"]

Write(hash, fromDbSeed) ==
    [hash |-> hash, expiresAt |-> Unset, allowedIps |-> Unset,
     fromDbSeed |-> fromDbSeed, purpose |-> Unset]

Request(method, client, kind, hash, signer, signedWith) ==
    [method |-> method, clientId |-> client, kind |-> kind, wellFormed |-> TRUE,
     write |-> Write(hash, TRUE), signer |-> signer, signedWith |-> signedWith]

NoInstant == {}

Seed(hash)       == Request("POST", boot, "http", hash, boot, NoHash)
ByBoot(method, client, kind, hash) == Request(method, client, kind, hash, boot, h0)

(* Requests of several callers at once: the seed, unsigned and signed       *)
(* writes of another client, and removals.                                  *)
RacingRequests ==
    {Seed(h0),
     Request("POST", c1, "http", h1, c1, NoHash),
     ByBoot("POST", c1, "http", h1),
     ByBoot("PUT", c1, "http", h1),
     ByBoot("DELETE", boot, "http", h1)}

(* Every method, kind and refusal, of both clients.                         *)
AllRequests ==
    RacingRequests \cup
    {ByBoot(method, c1, "http", h1) :
        method \in {"GET", "POST", "PUT", "PATCH", "DELETE"}} \cup
    {Request("POST", boot, "message", h1, boot, NoHash), ByBoot("PUT", c1, "http", h0),
     ByBoot("POST", c1, "message", h1), ByBoot("PUT", c1, "message", h0),
     ByBoot("PATCH", c1, "message", h1), ByBoot("PATCH", c1, "other", h1),
     ByBoot("PATCH", NoClient, "http", h1), Request("POST", boot, "http", h1, c1, h1),
     [ByBoot("PUT", c1, "http", h1) EXCEPT !.wellFormed = FALSE]}

Empty       == {NoRecord}
HeldAtStart == {Credential(h0, FALSE)}
EmptyOrHeld == Empty \cup HeldAtStart

Mounts(oneAtATime, messageConfigured, handlers, requests, initial) ==
    [oneAtATime |-> oneAtATime, messageConfigured |-> messageConfigured,
     handlers |-> handlers, requests |-> requests, initial |-> initial]

(* Requests that interleave freely from an empty API, and requests of every *)
(* kind that take turns from an API in any state.                           *)
BothDeployments ==
    [racing |-> Mounts(FALSE, FALSE, Handlers, RacingRequests, Empty),
     inTurn |-> Mounts(TRUE, TRUE, {r1}, AllRequests, EmptyOrHeld)]

(* Removals of a client that both stores could hold.                        *)
Deletions == {ByBoot("DELETE", c1, "message", h1), ByBoot("DELETE", c1, "http", h1)}

Removing == [inTurn |-> Mounts(TRUE, TRUE, {r1}, Deletions, HeldAtStart)]

OneLocalWrite == {Write(h0, FALSE)}
=============================================================================
