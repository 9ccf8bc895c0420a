-------------------------- MODULE InternalManagement --------------------------
(***************************************************************************)
(* The internal management route: the handler of GET, POST, PUT, PATCH and  *)
(* DELETE over the two credential stores of an API.                        *)
(*                                                                         *)
(* A request lists the clients of the HTTP store, is verified when there is *)
(* one, looks its target up and calls the clients factory of a store        *)
(* (CredentialStore, whose commands are the steps of the call).  Every one  *)
(* of these is an await: requests and the application's own use of the      *)
(* factory interleave between them.                                        *)
(*                                                                         *)
(* Of verifyHttpSignature two reads are kept, the bootstrap credential and  *)
(* the signer's credential; that the rest of it (skew, expiry, allowlist,   *)
(* nonce) may refuse any request is a choice here and a module of its own   *)
(* (HttpVerify).                                                            *)
(***************************************************************************)
EXTENDS CredentialRecords

CONSTANTS ClientIds,
          BootstrapId,      \* the resolved requireBootstrapClientId
          NoClient,         \* no clientId in a payload, or no verified signer
          NoHash,
          Handlers,         \* invocations of the handler
          Locals,           \* calls of the factory by the application itself
          RequestSet,       \* the requests that may arrive
          LocalOperations,  \* what the application does with the factory
          LocalWrites,
          Deployments,      \* how APIs mount the route
          CallersFail,
          InitialRecords    \* what the HTTP store holds for a client at first

VARIABLES deployment,  \* one of DOMAIN Deployments, for ever
          record, backup, call, past, replaced,  \* as in CredentialStore
          handler  \* the request each handler works on

storeVars == <<record, backup, call, past, replaced>>
vars == <<deployment, storeVars, handler>>

Setup == Deployments[deployment]

-----------------------------------------------------------------------------
Kinds   == {"http", "message"}
Targets == Kinds \X ClientIds

Requests == [method    : {"GET", "POST", "PUT", "PATCH", "DELETE"},
             clientId  : ClientIds \cup {NoClient},
             kind      : Kinds \cup {"other"},
             wellFormed: BOOLEAN,  \* expiresAt, allowedIps and a secret
             write     : Writes,
             signer    : ClientIds,
             signedWith: Hashes \cup {NoHash}]

DeploymentKinds ==
    [oneAtATime        : BOOLEAN,  \* assumption: requests and local calls take turns
     messageConfigured : BOOLEAN,  \* the messageAuth bridge is passed
     handlers          : SUBSET Handlers,
     requests          : SUBSET RequestSet,
     initial           : SUBSET InitialRecords]

ASSUME ManagementAssumption ==
    /\ BootstrapId \in ClientIds
    /\ NoClient \notin ClientIds
    /\ RequestSet \subseteq Requests
    /\ LocalWrites \subseteq Writes
    /\ Handlers \cap Locals = {}
    /\ Deployments \in [DOMAIN Deployments -> DeploymentKinds]
    /\ CallersFail \in BOOLEAN

FactoryCalls == {"setSecret", "revert", "delete"} \cup LocalOperations

FactoryWrites == {r.write : r \in RequestSet} \cup LocalWrites

(* The two credential stores, behind one factory each.                      *)
Store == INSTANCE CredentialStore WITH
            Callers       <- Handlers \cup Locals,
            Keys          <- Targets,
            WriteSet      <- FactoryWrites,
            InitialRecords <- InitialRecords \cup {NoRecord},
            deployment    <- "route",
            Deployments   <- [route |-> [serialised    |-> FALSE,
                                         backupsExpire |-> FALSE,
                                         operations    |-> FactoryCalls,
                                         writes        |-> FactoryWrites,
                                         initial       |-> InitialRecords]]

ASSUME FactoryAssumption ==
    /\ FactoryCalls \subseteq Store!Operations
    /\ InitialRecords \subseteq Records \cup {NoRecord}
    /\ RequestSet # {}
    /\ NoHash \notin Hashes

-----------------------------------------------------------------------------
Working == {"verifyBootstrap", "verifyClient", "lookUp", "factory"}

(* A handler that has answered: the status it sent, 200, 201, 403, locked   *)
(* (a 403 of its own) or error, is nothing that a later step reads.         *)
Answered(status) == [step |-> "answered"]

HandlerStates == [step : Working, request : RequestSet, locked : BOOLEAN,
                  verified : ClientIds \cup {NoClient}]

At(p, step) == handler[p].step = step

Busy(p) == handler[p].step \in Working

KnownClients == {c \in ClientIds : record[<<"http", c>>] # NoRecord}

(* Mutant: with a message store every other kind is taken for it.           *)
StoreUsableMutant(kind) == kind = "http" \/ Setup.messageConfigured

StoreUsable(kind) == kind = "http" \/ (kind = "message" /\ Setup.messageConfigured)

(* The credential a request changes; a DELETE does not look at the kind.    *)
Target(request) ==
    <<IF request.method = "DELETE" THEN "http" ELSE request.kind,
      request.clientId>>

(* Mutant: a locked route takes every POST.                                 *)
IsSeedMutant(request) == request.method = "POST"

(* The write that opens a locked route.                                     *)
IsSeed(request) == request.method = "POST" /\ request.clientId = BootstrapId

Acceptable(request) ==
    \/ request.method = "DELETE"
    \/ /\ StoreUsable(request.kind)
       /\ request.method = "PATCH" \/ request.wellFormed

(* What follows once authentication is settled, before the next await.      *)
AfterAuthentication(request, locked) ==
    IF request.method = "GET" THEN "200"
    ELSE IF request.clientId = NoClient THEN "403"
    ELSE IF locked /\ ~IsSeed(request) THEN "locked"
    ELSE IF ~Acceptable(request) THEN "403"
    ELSE IF request.method = "PATCH" THEN "factory" ELSE "lookUp"

(* The handler goes on with a request: it awaits the next command or        *)
(* answers.  A PATCH goes to the factory without a look-up.                 *)
Proceed(p, state) ==
    /\ handler' = [handler EXCEPT ![p] =
          IF state.step \in Working THEN state ELSE Answered(state.step)]
    /\ IF state.step = "factory"
       THEN Store!Begin(p, "revert", Target(state.request), state.request.write)
       ELSE UNCHANGED storeVars
    /\ UNCHANGED deployment

-----------------------------------------------------------------------------
(* Mutant: a locked route is open to unsigned requests.                     *)
ReceiveMutant(p, request) ==
    /\ ~Busy(p)
    /\ Setup.oneAtATime =>
          /\ \A q \in Handlers : ~Busy(q)
          /\ \A q \in Locals : ~Store!InOperation(q)
    /\ LET locked == BootstrapId \notin KnownClients
       IN  Proceed(p,
             [step |-> IF ~locked THEN "verifyBootstrap"
                       ELSE AfterAuthentication(request, locked),
              request |-> request, locked |-> locked, verified |-> NoClient])

(* HKEYS of the HTTP store decides whether a signature is required and      *)
(* whether the route is locked.                                             *)
Receive(p, request) ==
    /\ ~Busy(p)
    /\ Setup.oneAtATime =>
          /\ \A q \in Handlers : ~Busy(q)
          /\ \A q \in Locals : ~Store!InOperation(q)
    /\ LET locked == BootstrapId \notin KnownClients
       IN  Proceed(p,
             [step |-> IF KnownClients # {} THEN "verifyBootstrap"
                       ELSE AfterAuthentication(request, locked),
              request |-> request, locked |-> locked, verified |-> NoClient])

(* verifyHttpSignature reads the bootstrap credential ...                   *)
VerifyBootstrap(p) ==
    /\ At(p, "verifyBootstrap")
    /\ Proceed(p, [handler[p] EXCEPT !.step =
          IF BootstrapId \in KnownClients THEN "verifyClient" ELSE "403"])

(* ... and the credential of the signer, against which it checks the        *)
(* signature.  Every failure is a 403.                                      *)
VerifyClient(p) ==
    /\ At(p, "verifyClient")
    /\ LET request == handler[p].request
           signer  == record[<<"http", request.signer>>]
       IN  \/ Proceed(p, [handler[p] EXCEPT !.step = "403"])
           \/ /\ signer # NoRecord
              /\ signer.hash = request.signedWith
              /\ Proceed(p, [handler[p] EXCEPT
                    !.step = AfterAuthentication(request, handler[p].locked),
                    !.verified = request.signer])

(* Mutant: a POST does not look whether the client exists.                  *)
LookUpMutant(p) ==
    /\ At(p, "lookUp")
    /\ LET request == handler[p].request
           exists  == record[Target(request)] # NoRecord
       IN  IF exists \/ request.method = "POST"
           THEN /\ handler' = [handler EXCEPT ![p].step = "factory"]
                /\ Store!Begin(p, IF request.method = "DELETE"
                                  THEN "delete" ELSE "setSecret",
                               Target(request), request.write)
           ELSE /\ handler' = [handler EXCEPT ![p] = Answered("403")]
                /\ UNCHANGED storeVars
    /\ UNCHANGED deployment

(* clients.get of the target, and the factory operation it leads to.        *)
LookUp(p) ==
    /\ At(p, "lookUp")
    /\ LET request == handler[p].request
           exists  == record[Target(request)] # NoRecord
       IN  IF exists <=> request.method # "POST"
           THEN /\ handler' = [handler EXCEPT ![p].step = "factory"]
                /\ Store!Begin(p, IF request.method = "DELETE"
                                  THEN "delete" ELSE "setSecret",
                               Target(request), request.write)
           ELSE /\ handler' = [handler EXCEPT ![p] = Answered("403")]
                /\ UNCHANGED storeVars
    /\ UNCHANGED deployment

(* A command of the factory; when the operation returns the request is      *)
(* answered.                                                                *)
FactoryCommand(p) ==
    /\ At(p, "factory")
    /\ Store!Command(p)
    /\ handler' = [handler EXCEPT ![p] =
          IF call'[p].step # "returned" THEN @
          ELSE Answered(IF call'[p] = Store!Returned("failed")
                        THEN "error" ELSE "201")]
    /\ UNCHANGED deployment

(* A command of the handler itself rejects, or its process stops; while the *)
(* signature is verified the handler turns a rejection into a 403.          *)
HandlerFails(p) ==
    /\ CallersFail
    /\ handler[p].step \in Working \ {"factory"}
    /\ handler' = [handler EXCEPT ![p] =
          Answered(IF At(p, "lookUp") THEN "error" ELSE "403")]
    /\ UNCHANGED <<deployment, storeVars>>

-----------------------------------------------------------------------------
(* The application uses a factory without going through the route.          *)
LocalCall(q) ==
    /\ Setup.oneAtATime => \A p \in Handlers : ~Busy(p)
    /\ \/ \E operation \in LocalOperations, k \in Targets, write \in LocalWrites :
             StoreUsable(k[1]) /\ Store!Begin(q, operation, k, write)
       \/ Store!Command(q)
    /\ UNCHANGED <<deployment, handler>>

Init ==
    /\ deployment \in DOMAIN Deployments
    /\ \E http \in [ClientIds -> Setup.initial] :
          record = [k \in Targets |-> IF k[1] = "http" THEN http[k[2]] ELSE NoRecord]
    /\ backup = [k \in Targets |-> NoHash]
    /\ call = [p \in Handlers \cup Locals |-> Store!Returned("none")]
    /\ past = [k \in Targets |-> {r.hash : r \in {record[k]} \ {NoRecord}}]
    /\ replaced = [k \in Targets |-> NoHash]
    /\ handler = [p \in Handlers |-> Answered("200")]

Next ==
    \/ \E p \in Setup.handlers :
          \/ \E request \in Setup.requests : Receive(p, request)
          \/ VerifyBootstrap(p)
          \/ VerifyClient(p)
          \/ LookUp(p)
          \/ FactoryCommand(p)
          \/ HandlerFails(p)
    \/ \E q \in Locals : LocalCall(q)

Spec == Init /\ [][Next]_vars

-----------------------------------------------------------------------------
TypeOK ==
    /\ deployment \in DOMAIN Deployments
    /\ Store!TypeOK
    /\ handler \in [Handlers -> HandlerStates \cup {Answered("200")}]

(* The credentials in a store change in this step, by a command of p.       *)
RouteWrites(p) ==
    /\ At(p, "factory")
    /\ call'[p] # call[p]
    /\ record' # record

(* Whatever else is going on, a request that is not signed changes nothing  *)
(* but a credential of the bootstrap client.                                *)
UnsignedWritesOnlySeed ==
    [][\A p \in Handlers :
         RouteWrites(p) /\ handler[p].verified = NoClient
         => \A k \in Targets : record'[k] # record[k] => k[2] = BootstrapId]_vars

(* There are clients and the bootstrap one is not among them: a request must *)
(* be signed, and no signature is accepted.  No request gets out of it.      *)
ShutOut == KnownClients # {} /\ BootstrapId \notin KnownClients

(* An unsigned request never brings the API there, whatever goes on beside  *)
(* it; one at a time only a signed DELETE of the bootstrap client does.     *)
OnlySignersShutOut ==
    [][~ShutOut /\ ShutOut' => \A p \in Handlers : RouteWrites(p)
         => /\ handler[p].verified # NoClient
            /\ Setup.oneAtATime =>
                  /\ handler[p].request.method = "DELETE"
                  /\ handler[p].request.clientId = BootstrapId]_vars

(* One at a time: while the bootstrap credential is missing, the route      *)
(* writes only when the store is empty, and only the bootstrap client.      *)
LockHolds ==
    [][Setup.oneAtATime => \A p \in Handlers :
         RouteWrites(p) /\ BootstrapId \notin KnownClients
         => /\ KnownClients = {}
            /\ \A k \in Targets : record'[k] # record[k] => k[2] = BootstrapId]_vars

(* One at a time: the store takes an unsigned write only while it is empty. *)
UnsignedWriteOnlyWhileEmpty ==
    [][Setup.oneAtATime => \A p \in Handlers :
         RouteWrites(p) /\ handler[p].verified = NoClient
         => KnownClients = {}]_vars

(* One at a time: a POST stores a client that is not there, a PUT one that  *)
(* is.                                                                      *)
ExistenceRespected ==
    [][Setup.oneAtATime => \A p \in Handlers :
         RouteWrites(p) /\ call[p].operation = "setSecret"
         => (handler[p].request.method = "POST" <=> record[call[p].key] = NoRecord)]_vars

(* A request changes the store its payload names.                           *)
KindSelectsTheStore ==
    [][\A p \in Handlers :
         RouteWrites(p)
         => \A k \in Targets : record'[k] # record[k] =>
               k[1] = handler[p].request.kind]_vars
=============================================================================
