# Verification of node-hmac-auth

TLA+ models of this library, the TLC configurations that check them and the
proofs that TLAPS checks. Sources are named by their path in the repository;
`PROJECT.json` maps every definition to the lines it stands for.

## The system

The library authenticates HTTP requests and messages between APIs. Every API
keeps *credentials* (client id, secret hash, expiry, allowlist of addresses,
origin, purpose) in a Redis hash, signs with the secret hash and verifies with
the one it stores. A central API *propagates* credentials to the others through
their *internal management route*.

| Component | State | Operations | Interacts with |
|---|---|---|---|
| Credential store (`stores/credential-store.ts`, `credential-record.ts`, `namespace.ts`) | `{ns}:clients` (hash), `{ns}:credentials-backup:{id}` (TTL keys) | get, set, delete, list; set, get, clear backup; raw setSecretHash | Redis adapter |
| Clients factory (`stores/credentials-clients-factory.ts`) | none of its own | create, setSecret, setSecretHash, regenerateSecret, setAllowedIps, delete, revert | several store commands per operation, each awaited |
| Nonce store (`stores/nonce-store.ts`) | `{ns}:nonce:{id}:{nonce}:{ts}` (TTL keys) | consume | Redis adapter (`SET NX EX`, two dialects) |
| Verifier (`http/server/verify.ts`) | none of its own | verifyHttpSignature | reads credentials, consumes a nonce |
| Management route (`http/internal-management.ts`, `internal-helpers.ts`) | none of its own | GET, POST, PUT, PATCH, DELETE | verifier, clients factories of the HTTP and message stores |
| Propagation (`http/propagate.ts`) | none; results per target | propagateClientToApis | signed client, management routes of other APIs |
| Message authentication (`message/`) | its own credential store | signMessage, verifyMessage, clients | credential store, canonical text of a message |
| Signed client and runtime (`http/client/signed-fetch.ts`, `runtime/`) | the secret hash captured by a client object | signedHttpFetch, signedFetchWithClientId, hmacHttpMiddleware | crypto, canonical text, clients factory |
| IP allowlists (`core/ip.ts`) | the rules in a record | normalise, sanitise, match, choose the client's address | records, verifier |
| Canonical text (`core/utils.ts`), crypto (`core/crypto.ts`) | pure | text of a body, of a message; sign, compare | both sides of a request or message |
| Express adapter and middleware (`http/server/express.ts`, `http/middlewares.ts`, `http/init.ts`) | wiring | middlewares | verifier, management route |
| Source application (`poc/nest-source`) | its program counter; its own stores | syncFromConfig, runTortureSuite, the sweeps, runV1_3_0_Demo | the factory, propagation to the targets |
| Target applications (`poc/express-target`, `poc/nest-target`) | their stores | protected and management routes | body parsers, middlewares |

### What is hard about it

- Nothing is locked. Every Redis command is awaited, and between two awaits
  other requests, administrators, clocks and key expiry run: checks decide on
  values that were read earlier.
- The replay guard relates three clocks: the signer's timestamp, the verifier's
  `Date.now()` before two awaits, and the TTL Redis counts from first use.
- A rotation and its undo are several commands; a process may stop after any
  of them, and the backup key may expire between any two.
- The management route decides "no credential, no signature needed" and "no
  such client, create it" from reads that precede its writes.
- Propagation visits its targets one after another over a lossy network.
- The two sides of a request compute the signed text apart from each other, one
  from what the caller passes, the other from what a body parser leaves.
- A message may be reordered and repeated on its way, and the stores of the
  signing and the verifying API change on their own.
- An allowlist passes through text three times: written, stored, read back.
- The source application repeats its whole program after every stop, over
  whatever the last run left on the targets.

### What makes each part correct

- Verifier: no request is accepted twice; an accepted request was entitled to
  be at an instant close to the answer; a misuse burns its nonce; a fresh
  request is not refused as a replay.
- Factory: a revert restores a hash the client really had, namely the one the
  last seeded rotation replaced; cut short anywhere, an operation leaves a state
  the atomic one could have left; the purpose is not lost by omission.
- Management route: unsigned requests can only seed, and never bring the API into
  the state in which a signature is demanded and none accepted; creation does not
  overwrite.
- Propagation: repeating a propagation converges; a rollback restores
  what was there before the rotation.
- Messages: what is verified was signed, for the same client and content; a
  refusal has the cause it names; nothing is served before the API has first held
  the bootstrap credential.
- Signed requests: a request is refused only because the stores disagreed or the
  client object is stale; a handler that serves has read what the caller passed
  (streams excepted where the server has no empty-buffer normalisation: `{}` is
  signed and read there, and the body is lost); one answer each.
- Allowlists: the decision is what the rules say bit by bit; a list that was
  damaged from outside never lets more in than it has to.
- Source application: a run that nothing disturbs passes its own assertions,
  whatever interrupted the runs before it; the program ends.

## The modules

| Module | Models | State and actions |
|---|---|---|
| `CredentialRecords` | the record and what every factory operation computes from the one it read | operators only; `Unset` is an omitted argument |
| `CredentialStore` | the factory over one store | `record`, `backup` are the Redis keys, `call` the operation each caller is in; one action per Redis command (`ReadBackup`, `ReadRecord`, `SetBackup`, `StoreRecord`, `RemoveRecord`, `ClearBackup`), `Begin`, `Abort` (rejection or crash), `BackupExpires`; `past` and `replaced` are history, `deployment` says how the store is used |
| `CredentialRegister` | the abstract store: one record and one undo hash per client, every operation atomic | refined by `CredentialStore` (`ImplementsRegister`) |
| `HttpVerify` | `verifyHttpSignature` | `credential`, `nonceExpiry` are Redis, `now` the clock, `call` the invocations; `ReadBootstrap` is the first await, `CheckRequest`, `CheckClient`, `ConsumeNonce` are the stretches that follow each, `SetNxThrows` and `RedisFails` the error paths, `EditCredential` and `Tick` the environment; `held` is history |
| `InternalManagement` | the management route, composed with `CredentialStore` whose keys are (kind, client) pairs and whose callers are the handlers and the application itself | `handler` is the request each handler works on; `Receive` (listing), `VerifyBootstrap`, `VerifyClient`, `LookUp`, `FactoryCommand` (a command of the store on its behalf), `HandlerFails`, `LocalCall`; `deployment` says how the route is used |
| `Propagation` | `propagateClientToApis` and the application that drives it | `call` is the loop (request, targets left, results), `record` and `undo` the targets' stores, each a `CredentialRegister`, `late` requests that were given up and are still on their way; `Propagate` starts the loop, `Answered`, `Rejected`, `GivenUp` are its turns, `ArrivesLate` and `UndoExpires` the environment, `Sync`, `Other`, `LocalRotation`, `Rotation`, `RollBack` the application; `rotation` is history |
| `MessageAuth` | `signMessage` and `verifyMessage` of several APIs | `credential` is the message store of each API, `call` the invocations; `Start`, `ReadBootstrap`, `ReadClient`, `Decide` are the stretches between the awaits, `RedisFails` the error path, `EditCredential` and `Tick` the environment; `held` (what calls could have read) and `opened` (the APIs that have held the bootstrap credential) are history. Signatures travel by being among those that calls have `Made` |
| `SignedExchange` | a signed request from the caller's store to the answer of a protected or management route | `source`, `target` are the two stores, `signer` the client objects, `setup` the server's body parser and middlewares, `exchange` the requests; `MakeSigner`, `CallObject`, `CallById`, `LookUp` are the client, `Arrive` and `RedisFails` the server, `RotateSource` and `RotateTarget` the environment; `heldSource`, `heldTarget` are history |
| `IpRules` | the allowlist of a record | `stored` is the list in Redis; `SetAllowedIps`, `Rewrite` (a write of another field), `EditOutside`; reading, matching and the choice of the client's address are operators; `intended`, `foreign` are history |
| `SourceSync` | the source application of the proof of concept | `Program` is the list of its instructions (`syncFromConfig`, the torture suite, the sweeps, the demonstration), `pc`, `attempt`, `results` the running one, `record` and `undo` the stores of all APIs (`Does` applies the operations of `CredentialRecords`); `BeginRun`, `Answered`, `Settle` are the process, `Rejected`, `Stop`, `Expire` what disturbs it; `failed` are its assertions that failed, `calm` and `expired` are history |
| `..._proofs` | theorems about the module they are named after | `InternalManagement_proofs` uses those of `CredentialStore_proofs` |
| `MC...` | small instances | |

`CredentialRecords` is shared: `CredentialStore`, `Propagation` and `SourceSync`
compute every new record with it, at three levels of detail. `CredentialStore`
shows that, for callers in turn, its commands implement the atomic operations
that `Propagation` and `SourceSync` take.

The operators whose name ends in `Mutant` are plausible bugs of the code. No
action uses them; substituted for the definition they are named after, they
make the property `PROJECT.json` pairs them with fail, which shows that the
property watches that code.

Abstractions: a hash stands for the signature made with it, or, where what a
signature covers matters (`MessageAuth`, `SignedExchange`), a signature is the
record of what it covers and the hash; HMAC and SHA-256 are collision free. An
allowlist is a set of addresses except in `IpRules`. Header parsing is one
`wellFormed` flag. The bootstrap read of a verification is a step of its own
(`ReadBootstrap`), which may take any time; the verifier reads its clock after that
await, in `CheckRequest`, and `Lag` counts from this reading. The `content` of a
message in `MessageAuth` is its canonical text, which is the same for `null` and
`""`, for `1` and `"1"`, and for a date and its ISO form: messages that differ in
this only are one content. A Redis key lives through
the instant it expires at. `HttpVerify` keeps client ids and nonces as sequences
over `":"` because the nonce key joins them; nonces that hold a `":"` themselves
are not in the runs (the library's signer uses UUIDs), and where it matters a
theorem names that as its hypothesis (`NoncesWithoutSeparator`). `MessageAuth` keeps client
ids as sequences of characters because they are trimmed before they are signed
and not before they are looked up. In `InternalManagement` a verification may
refuse any request, and its nonce is not modelled: that is `HttpVerify`'s
subject. In `Propagation` a target handles a request in one step and by itself,
which the deployments that take turns in the runs `store` and `management`
justify for a target that is written by one source; the signer's hash is fixed
there (in `SignedExchange` it changes), and only one propagation is in progress
at a time, but requests that were given up arrive during later ones; a rollback
visits the targets that accepted the rotation in any order, which the application
is free to choose. In
`SignedExchange` the server's verification is one step: its awaits are
`HttpVerify`'s. In `IpRules` a text is the record of the notations the parser
tells apart, and an address is its octets or groups, combined and shifted as
numbers of any width (`Parts`, `TwoTo`, `Shifted`); a mapped address written in hexadecimal groups stays IPv6, as in the
code, a mapped network with a prefix above the IPv4 width is rejected, and what
follows a second `/` is not looked at. In `SourceSync` requests whose fetch
was given up do not arrive later (they do in `Propagation`), and the test ids
that only keep cases apart are shared where every case begins with a create. Its
configuration is a parameter: the credentials, the plans of each store and the
rows, of which `ConfigurationAssumption` says what `microservice.cfg.ts` gives:
the process has the secret of everyone it signs as, a client of a store has one
secret in plans and rows, and the suite uses ids of its own. What the targets
hold at first is a parameter as well; for a planned client it is its secret or
another one (`ForeignHash`).

## What is checked

Passing runs, exhaustive within their bounds:

| Run | Shows | Bounds |
|---|---|---|
| `verify` | a request delivered twice is accepted at most once; a misuse burns its nonce; a refusal as replay has a cause; acceptance was justified within `Lag` of the answer, while credentials are rotated, narrowed, expired and removed; the inductive invariant of the proofs | two regions of one state space (`WithinBounds`): one call under one edit to records that differ in hash, expiry, allowlist and purpose (`UnderEdits`), and two deliveries for clients whose ids look alike in the nonce key, with one nonce and one edit (`Racing`); skew 4 ticks, 3 ticks per second, so the nonce lives 6 = skew + Ahead + Lag; the instants 0 to 6 reach the last at which a request of timestamp 1 can still be decided |
| `store` | callers in turn on a client, cut short anywhere: the factory implements `CredentialRegister`, and keeps a restricted purpose; without expiry, a seeded rotation leaves its undo even if it is cut short, and until a static write what is undone is exactly what the last one replaced; callers side by side: what a revert restores was once held | three deployments: two callers in turn with all operations, in turn with backups that outlast the run, and side by side with the operations that race; one client, three hashes |
| `management` | requests and a local removal that interleave freely: an unsigned request changes only the bootstrap client and never shuts the signers out (`OnlySignersShutOut`); requests in turn: only a signed DELETE of the bootstrap client does, and the lock, the unsigned window and the existence checks are as documented | two deployments: two handlers from an empty API, and one handler with every method, kind and refusal from an API in any state; two clients, both stores, failures |
| `propagation` | a target that says it reverted a rotation holds what it held before; repeated propagation brings all targets, empty ones included, to the hashes of the source (`Converges`, liveness) | two targets, the signer and one client, whose hash the source changes between two values at any time, also under a push, so that replaced hashes are sent and arrive late; two operations of the application besides its pipeline or late requests; any number of lost requests, lost replies and expired backups |
| `message_auth` | a call succeeds only for a client entitled during it; an API serves nothing before it has held the bootstrap credential; what verifies was signed for the same client and content; refusals have the cause they name in the store, and the signature of an object whose keys were reordered on the way is bad only under another hash | two APIs, both holding every client at first or one still without the bootstrap credential, two calls, one edit of a store during them, four client ids (the bootstrap one, a client, the same with a blank before it, a blank), records differing in hash, expiry and purpose |
| `exchange` | a request whose body travels is refused only because the stores disagreed during the call or the client object is stale; a handler that serves has read what the caller passed, except the stream that a server without the empty-buffer normalisation reads, as it was signed, as `{}`; who is served was entitled; one answer each | one request of every body form, method and content type, every set-up of a server (parsers, captured bytes, Express 4 or 5, whitelist), the parameter parser only where bytes are captured and the middleware answers errors itself, one client object, two rotations on either side |
| `ip_rules` | the decision about an address is the bit-by-bit meaning of the rules as written; entries that cannot be read never open a list that has readable ones; a write of another field changes no decision | lists of two rules out of 17 in all notations, two unreadable entries, 20 requests; octets of two bits, addresses of 4 and 12 bits, prefixes 0, inside, at the width and above |
| `source_sync` | the next undisturbed run of the source application passes its assertions; what it reported as applied is stored; rows keep their secret; the program ends (`Finishes`, liveness) | two targets, new or seeded with another secret for the signer, the planned clients and rows of each kind, two attempts for the 20 of the code, two disturbances out of stops, lost requests, lost answers and expiries |

Clients and keys do not interact in a store except through the management
route's list, so one client (two where ids may be confused or the bootstrap
client matters) is enough; two actors make every pairwise race. Requests share
only the stores, whose changes are actions of their own, so one exchange shows
what many do. Two attempts tell "tried again" from "given up", and two
disturbances let a second one hit the repair of the first.

The deployments of `store` and `management` make an assumption explicit
(`serialised`, `oneAtATime`) that the code does not enforce. The properties
that need it name it; they say what a deployment gets that administers its
credentials from one place at a time. The others hold without it.

Runs that TLC refutes, each a documented statement the code does not keep:

| Run | Statement | What happens |
|---|---|---|
| `verify_wholeseconds` | `docs/wire-contract.md:70`, a replay returns `REPLAYED_NONCE` | the nonce lives `maxSkewMs` from first use, the timestamp of a signer that is ahead is acceptable for longer |
| `store_rawhash` | `core/types.ts:239`, the record stores the purpose | `RedisCredentialStore.setSecretHash` writes a record without it |
| `store_static` | comment at `http/internal-management.ts:196`, a static credential never has a backup and a PATCH on it answers `reverted=false` | a static write leaves the backup of the seeded rotation before it, and a revert puts the old hash into the static credential |
| `management_kind` | comment at `http/internal-management.ts:31`, routing on `payload.kind` | DELETE ignores it |

Others were met while modelling and have no run of their own:

- Two first requests in flight are both unsigned, and the second changes a
  store that holds the bootstrap credential (`UnsignedWriteOnlyWhileEmpty` needs
  requests in turn; `docs/wire-contract.md:84` says that every request after the
  seed is signed).
- Two POSTs of one client in flight both answer 201 (`ExistenceRespected` needs
  requests in turn; `docs/wire-contract.md:79`).
- While other clients are stored and the bootstrap one is not, every GET of the
  management route is refused (`internal-management.ts:113`, `:121`), although
  the comment at `:49` and `docs/wire-contract.md:229` say health probes stay open.
- A signed DELETE of the bootstrap client while others are stored leaves an API
  whose management route refuses every request (`ShutOut`): a signature is
  demanded, and none is accepted. The lock of `docs/wire-contract.md:230`, which
  such a DELETE "restores", cannot be released by a request then.
- The message lock is read again by every call (`message/init.ts:98`): it closes
  when the bootstrap credential is removed, which the comment at `:93` excludes.
  `docs/wire-contract.md:230` describes the same check of the HTTP side as the
  code does it. The properties of `MessageAuth` leave open whether the lock may
  close again; they say that it holds until it was first opened.
- `core/types.ts:44` says that without `internalManagementRoute` no purpose check
  is applied; `verify.ts:151` rejects a propagation-only credential then.
- `docs/wire-contract.md:120` says an empty array is no allowlist; a stored list
  none of whose rules can be read becomes one (`core/ip.ts:240`), which
  `StraysOpenOnlyAlone` allows.
- A client that the whitelist of `hmacHttpMiddleware` does not name gets 500
  `INTERNAL_ERROR`: the callback throws a plain error inside the `try` of the
  middleware (`create-runtime.ts:31`, `express.ts:85`); `docs/nestjs/README.md:235`
  announces 401 or 403.
- With the set-up of `docs/express/README.md:85` and Express 4, requests without a
  body are verified over `{}` and refused; the targets of the proof of concept
  put an empty buffer in place of the bytes (`Travels` names the condition).

Fairness. Most properties are safety properties and their specifications
assume none: they may stop anywhere, which is also how a crash that never
recovers looks. `Propagation` assumes that a fetch settles (weak fairness of its
outcome: node's fetch ends in a response or an error), that a push to a target
that is tried again and again is answered sometimes (strong fairness per target
and push: the network is lossy, not cut), and that the application's pipeline
comes round for each of its pushes (strong fairness; the architecture document
describes a periodic job, and the library itself has none). Nothing is assumed
of rotations, rollbacks, expiries and late requests. `SourceSync` assumes that
the process starts and goes on (weak fairness of `BeginRun`, `Answered` and
`Settle` together: Node runs a program whose awaits settle); stops, lost
requests and expiries are bounded and owe nothing.

The runs of `HttpVerify`, `MessageAuth`, `SignedExchange` and `SourceSync`
disable the deadlock check: a finite set of invocations ends, and so does the
program of the source application.

## What is proved

`HttpVerify_proofs`, for every set of calls, clients, nonces, records, paths,
and for every bound:

- `TypeCorrect`: `Spec => []TypeOK`;
- `ReplayInvariant`, `ReplayGuard`, `MisuseBurns`: under the assumption
  `NonceOutlivesWindow == Ahead + MaxSkew + Lag <= NonceLifetime`, the
  invariant `ReplayInv`, and from it `AcceptedAtMostOnce` and
  `MisuseBurnsNonce`.

`AcceptedAtMostOnce` is not inductive: it says nothing of calls in progress nor
of the nonce keys. `ReplayInv` adds that a call that has read its clock did so
at most `Lag` ago and holds a timestamp that fits the reading (`CallsTimely`);
that the key of a used nonce is remembered for a `NonceLifetime` from the
earliest instant its timestamp was acceptable (`NoncesRemembered`); and that no
two calls have used one nonce, whatever their outcome (`NonceUsedOnce`). The
step that matters is `ConsumeNonce` on a free key: had another call used it,
its key would be alive until `timestamp - Ahead + NonceLifetime`, which by the
assumption is not before `timestamp + MaxSkew + Lag`, and by `CallsTimely` the
present is not after that (lemma `FreeKeyUnused`).

`ReplayCaused`, in the same module, proves `ReplayHasCause` without a condition on
times, for nonces without `":"` (client ids may have any). It rests on a fact about
keys of every length: two equal keys whose nonces have no `":"` come from the same
client, nonce and timestamp, since the last `":"` before the timestamp stands at
the same place in both. `CauseInv` says that a key that was set has a call that used it
(`KeysHaveUsers`), that a call whose `SET NX` was repeated is marked
(`RetriesMarked`), and that a refusal as replay has found
one or the other (`ReplaysCaused`).

The assumption is a condition on the deployment, not something the code ensures:
with the defaults (`maxSkewMs` a whole number of seconds) the lifetime equals
the skew and it holds only for signers that are never ahead and calls without
delay. `verify_wholeseconds` shows what happens otherwise.

`AcceptanceEntitled`, in the same module, proves `AcceptanceJustified` from an
invariant of its own, without any condition on nonces. `EntitledInv` says of a
call that has read its clock that the reading is at most `Lag` old (`ClockRead`),
of one in progress that its history ends with what is stored now (`StoreFollowed`),
that it has seen the bootstrap credential once it goes on (`BootstrapSeen`) and
holds a record that its history shows (`RecordAuthentic`), and of an answer that it came in time (`AnswerTimely`).

`MessageAuth_proofs`, for every set of calls, APIs, names, messages, hashes and
records: `TypeCorrect`, `UnopenedServesNothing`, `SuccessEntitled`, `VerifiedSigned`
and `RefusalCaused`, which are all the properties of the run `message_auth`. Each
is about what a call answers; the invariant adds what it knows before: that it
has the trimmed name of its client (`NamedClient`), that the signature it
verifies was made by some call (`SignatureKnown`), that its history follows the
store (`StoreFollowed`), that a call past the lock works for an API that has held
the bootstrap credential (`LockPassed`, with `OpenedFollowed`), that the record it
holds is one its history shows (`RecordRead`), and on which of these an answer rests
(`RefusalGrounded`, `SuccessGrounded`). `RefusalCaused` says of a call refused as
locked, not found, expired or restricted that it has the cause it names, and of the
signature that a call gave for an object that it is bad for the same object, on a
host that sorts alike, only under another hash. It does not speak of a blank client
name, of an error of Redis and of signatures that no call made. Assumed: instants are
integers, and the answers that are no signature are distinct from signatures.

`SignedExchange_proofs`, for every set of exchanges, requests, hashes and
set-ups: `TypeCorrect`, `OneAnswer`, `ServedEntitled`, `ServedRead` and
`RefusalCaused`, all the properties of the run `exchange`. The invariant `Inv`
says that what was posted is the text of the request, under a hash that the
caller's store held where it was looked up (`WellPosted`), that the histories follow the stores (`Followed`) and
that an answer is one the server gives (`WellAnswered`, `Grounded`). The content
of the proof is in two lemmas about the texts of the two sides, by cases over
body forms and parsers: a body that travels gives the server the text that was
signed (`TravelsAgrees`), and equal texts mean that the handler reads what the
caller passed (`AgreedContent`); the hypothesis of the second leaves out the stream
to a server without the empty-buffer normalisation, whose text is `{}` on both sides
whatever it held.

`CredentialStore_proofs`, for every set of callers, clients, hashes, arguments and
deployments: `TypeCorrect`, `BackupHeld`, `UndoExact`, `RotationUndone`,
`PurposeKept` and `Refinement`, all the properties of the run `store`, by two
invariants. `HeldInv` holds however callers interleave, stop and let backups
expire: hashes in records and backups are among those their client has held, and
so is what an operation has read on the way (`KeyHeld`, `CallHeld`). `TurnInv` is
about deployments whose callers take turns on a client: whoever is in an
operation is alone on its client (`Alone`), what it has read is still stored
(`UpToDate`), and the backup is the hash that the last seeded rotation replaced
(`UndoTracked`), until a static write ends the claim, and except between the two writes of one operation. `Refinement` is
the implementation of `CredentialRegister`: the initial states map to its initial
states, and each awaited command, stop and expiry is a step of it or a stutter,
by one lemma per command. The mapped undo hash is the backup, or what the revert
in progress has read (`Candidate`): a revert takes effect with its `StoreRecord`
although the backup may expire before and is cleared after.

`InternalManagement_proofs`, for every set of clients, handlers, requests and
deployments: `TypeCorrect`, `UnsignedSeeds`, `SignersShutOut`, `LockKept`,
`UnsignedNeedsEmpty` and `ExistenceKept`, all the properties of the run
`management`. The module takes the theorems of `CredentialStore_proofs` for the
store of the route by the same substitution as the model (`StoreProofs`), so
that the commands of the store are not analysed again. `Inv` holds for requests
that interleave freely: a handler that awaits the factory is the caller of the
operation its request asks for (`CallMatches`), and one that comes to its
look-up without a verified signer has found the route locked and has a seed in
hand (`Judged`). From it follows that unsigned requests only seed. `SignersShutOut`
compares a state and the next: a step of a handler changes one key of the store, so
one that leaves clients without the bootstrap client either takes that client away,
which is the removal of a DELETE, or stores another; in neither case is it on behalf
of an unsigned request, which stores the bootstrap client. In turn the second does
not happen: what the handler found of the lock is still true, and past the lock the
bootstrap client is there. `InTurn`, for requests one at a time, says
that a handler is alone and that what it has read of the lock and of the client
still holds (`Current`), until its own write.

`Propagation_proofs`, for every list of targets that names each once, every set
of clients, hashes and records, and every bound: `PropagationTyped` (`TypeOK`) and
`RollbackExact` (`RollbackRestores`). The property speaks of the end of a rollback;
`RotationInv` follows every target from the beginning of a rotation (`Follows`):
one that is still to be asked has what it had, one that accepted has the new hash
and as its undo either the hash before or nothing (`TookRotation`), one that is to
be asked to revert has so too, and one that says "reverted" has the hash before;
and no request that was given up can still reach it (`Undisturbed`), which is why
the property is about rotations that began with none under way (`quiet`). A target
whose answer was lost is not followed: neither is it asked to revert. The loop is
followed as the set of targets it has left (`Remaining`): in what order they come
is of no importance to the argument, only that none is asked twice.

`IpRules_proofs`, for every width of octets, any number of octets and groups, any
rules, unreadable entries and addresses: `IpRulesTyped`, `RulesMeanIt`,
`StraysHarmless` and `RewriteHarmless`, all the properties of the run `ip_rules`.
The bits of an address are numbers computed by recursion (`TwoTo`, `Shifted`), so
the proofs need induction. The library's induction theorems take an operator, but
induction over a set does not: every non-empty set of naturals has a smallest
member (`Smallest`, from the theorem that strict inclusion of finite sets is well
founded), so a set that holds 0 and the successor of every member holds them all
(`Inductive`), and each fact is the statement that a set is everything. From
`TwoToRecursion`, `ShiftedRecursion` and `PlaceOfBit` follows
`MaskComparesPrefix`: two addresses agree under the mask of a prefix exactly if
their first bits do; then `CidrCovers` (a parsed rule covers what its text says),
`OutcomeOf` (a decision depends only on what a list covers) and the invariant
`ListInv` (a list that the library wrote reads back as it was meant).

`SourceSync_proofs`, for every configuration that satisfies the assumptions, any
targets and first contents of them, any number of attempts and disturbances:
`SourceTyped` (`TypeOK`), `AppliedHeld` (`AppliedIsHeld`), `RowsKept`
(`RowsKeepTheirSecret`) and `GreenRuns` (`CleanRunIsGreen`). The first part of the
module is about the program and not about its states: every one of its sections is
well formed (`ProgramWellFormed`), which says of each instruction that it has a
secret to write unless it is the unsigned update of the demonstration
(`WritesSecrets`), that on the targets it does to a planned client or a row nothing
but create, update and revert it, with secrets of the configuration (`Spares`),
that only the creation of one is tried again (`RetriesEntries`), that an
amendment comes right after the creation of what it amends (`Linked`), and the
revert of a row right after its rotation (`Reversed`). The
invariant of types adds what an amendment needs (`Prepared`): that the record is
there is known only from the instruction before. `HeldInv` adds that what a target
holds or keeps to revert to is among the entry's secrets (`EntriesKept`), that an
answer "accepted" or "exists" to a creation in progress is true of the target that
gave it (`AnswersTrue`), and that the ones that were judged stay true
(`CreationsKept`). The step that matters is `Settle`: all targets must have
answered before the last attempt is counted as applied.

`RowsKept` has two invariants more. `RestorableInv` holds whatever happens: a row
on a target has its own secret, the one the target had or the one it is rotated
to, and in the last case the backup is there unless one has expired
(`RowsRestorable`); the clients that sign are never rotated (`SignersKept`); a
target that stores anybody stores the bootstrap client, so it never locks the
source out (`Opened`). `RunInv` is about a run that nothing has disturbed so far
and a target whose signers have the secrets the process signs with: what is
missing on it is still to be created in this run, and a row that is out of order
there is still to be reverted (`Pending`: the program has not come to that
instruction, or not to that target in it). A stop makes everything pending again,
which is why any number of interrupted runs does no harm; an instruction that
comes to the target leaves the list because the management route admits it
(`PlansAdmitted`, `RowsAdmitted`: the bootstrap client and the signer of the rows
are stored by the time they sign, `SignersPlanned`) and because what it needs is
there. At the end nothing is pending. The theorem needs the order in which the
configuration names its plans, `SignersAssumption`
(`poc/nest-source/src/microservice.cfg.ts:13`).

`GreenRuns` is about every single assertion of a whole run: one that nothing
disturbs has no failed instruction and no unexpected answer, however many runs
before it were cut off and wherever, as long as no backup has expired and no target
had a planned client with a secret of its own. Its invariant, `Green`, says of such a
run that nothing has failed, that every answer had so far is an expected one, and
that every place stores what the next instruction it is asked needs (`Facts`: of a
target, of the process itself, of the demonstration). Interrupted runs leave things
behind, so `Green` alone is not inductive. `Lasts` says what is left behind whatever
disturbs the runs: planned clients are as planned or foreign and have no backup
(`PlansKept`), the clients that no target may know are on none (`Strangers`), the
one that the suite leaves rotated can still be reverted (`R4Restorable`), and the
process signs messages with the planned secrets (`OwnMessages`). With it a run may
begin on any of these remains. The condition of the property is about the state in
which a run is judged; it is traced back to the states before, since no step
replaces a planned client (`OwnBefore`, from `PlansStay`). Each place then has its
lemma, section by section of the program: asked an instruction of which it has the
facts, it answers as the assertion demands and has the facts of the next
(`TargetServes`, `SourceServes`, `DemoServes`, together `Serves`); a place that an
instruction passes by loses none (`PassedBy`). That the bootstrap lock and the
admission of the route never refuse the suite follows from `RowsInv` of `RowsKept`.

`GreenRuns` assumes more of the configuration (`GreenAssumption`,
`GreenTargetsAssumption`), all of it as the code has it. Targets are two different
URLs (`poc/nest-source/src/microservice.cfg.ts:10`). The message plans are of
`MESSAGE_CLIENTS` (46-49), the bootstrap client among them, which are spread into
the credentials of the process with the same secrets (58-59). The source-only client
is in no plan (62-76), the rows of the seed are other clients than the plans', and
no configured client has an id of the torture suite. A target may be new or hold
clients from earlier; that it holds none of the suite's at first, and a planned one
only without a restriction, says that it was not filled by something else under
those names. Without that the assertions of the program do fail, and rightly so.

The runs of these modules check on small instances what the theorems say for
all; a mutated operator that breaks a property also breaks its proof. Every safety
property of the passing runs is stated by a theorem. What is model-checked only is
liveness (`Converges`, `Finishes`): fairness and `ENABLED` are out of the provers'
reach.

The assumptions on constants (those named `...Assumption`) say that special
values differ from ordinary ones, that requests and records are of the kinds the
actions take and that the bounds are numbers, and of `SourceSync` what the
configuration gives; TLC evaluates them in every run.

## What is not modelled, and the plan

Not modelled, and why:

- `core/crypto.ts`: HMAC, SHA-256 and the comparison are node's; the models take
  them to be collision free.
- The public types, entry points and constants: declarations only.
- The wording of answers and logs, `createdAt` and `updatedAt`: no decision reads
  them.
- The choice between the two dialects of Redis clients, except where a command
  is repeated (`SET NX`).
- `normalizePath`, which both sides apply to the same URL; `onBadSignature`,
  `onError` and the handlers of applications; the checks of options at start.
- The routing of a path to the management handler and its 405 answer: they
  precede every await and change nothing.
- In the source application, a local command that is rejected without a stop: the
  `catch` of `runTortureSuite` (`poc/nest-source/src/torture-suite.ts:376`) then
  skips the rest of the suite and the run goes on. In the model a failure of the
  process itself is a `Stop`.
- The periodic sweeps of the source application repeat what `HttpSweep` and
  `MessageSweep` do once.

Planned next: `Propagation` over the handlers of `InternalManagement` in place of
targets that answer in one step.
