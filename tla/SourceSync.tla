------------------------------ MODULE SourceSync ------------------------------
(***************************************************************************)
(* The source application of the proof of concept: a program of local      *)
(* writes, propagations to the targets, and assertions about their answers, *)
(* run from the beginning whenever the process starts.                     *)
(*                                                                         *)
(* The process stores its configured credentials, creates the planned       *)
(* clients and the rows of the DB seed on every target, rotates and reverts *)
(* the rows, runs the torture suite, signs requests and messages as every   *)
(* planned client, and ends with the demonstration of version 1.3.0 in a    *)
(* namespace of its own.  It may stop between any two steps and inside one; *)
(* a fetch may reject with the request handled or lost; backups expire.     *)
(* Requests that arrive after their fetch was given up are in Propagation.  *)
(* A local command that is rejected is left out: only a stop cuts a run     *)
(* short, whereas such a rejection ends the torture suite early and lets    *)
(* the rest of the run go on (the catch clause of runTortureSuite).         *)
(***************************************************************************)
EXTENDS Integers, Sequences, SequencesExt, CredentialRecords

CONSTANTS TargetList,   \* the APIs of the plans
          Source, Demo, \* the stores of this process, and of the demonstration
          ClientIds,
          BootstrapId, SyncId, SourceOnlyId,
          MessageCredentials, HttpCredentials,      \* configuration
          HttpPlans, MessagePlans, SeedRows,        \* configuration
          RotatedSecret, \* of each row's secret: `${row.secret}-rotated`
          NoHash,
          ForeignHash,  \* what a target may have stored for a planned client
          InitialTargets, \* what the targets may hold at first
          Attempts,        \* 20
          MaxDisturbances  \* bound: stops, rejected fetches and expiries

VARIABLES record,   \* the credential stores of all places
          undo,     \* the TTL backups
          pc,       \* the instruction of the program that is running
          attempt,  \* its attempts so far
          results,  \* the answers of its present attempt, in order
          failed,   \* the instructions of this run whose assertion failed
          calm,     \* history: nothing disturbed this run
          expired,  \* history: some backup has expired
          disturbances \* counter of the bound MaxDisturbances

vars == <<record, undo, pc, attempt, results, failed, calm, expired, disturbances>>

-----------------------------------------------------------------------------
Targets == ToSet(TargetList)
Places  == Targets \cup {Source, Demo}
Stores  == {"http", "message"}
Keys    == Places \X Stores \X ClientIds

\* propagationPlans: those of the HTTP stores, then those of the message stores.
Plans == HttpPlans \o MessagePlans

Everywhere == Addresses

Write(secret, seeded) ==
    [hash |-> secret, expiresAt |-> Unset, allowedIps |-> Everywhere,
     fromDbSeed |-> seeded, purpose |-> Unset]

NoWrite == Write(NoHash, FALSE)

Answers == {"accepted", "changed", "kept", "reverted", "exists", "missing",
            "refused", "rejected"}

Refusals == {"exists", "missing", "refused"}

(* The secret the process has configured for a signer.                      *)
SecretOf(client) ==
    (CHOOSE credential \in ToSet(HttpCredentials) : credential.client = client).secret

(* An instruction: what is asked of which places, through the management     *)
(* route or of the clients factory, signed by whom; how often it is tried,   *)
(* which answers are expected, and what the record is expected to say then.  *)
Ask(operation, client, write, expect) ==
    [way |-> "route", places |-> TargetList, by |-> SyncId,
     secret |-> SecretOf(SyncId), operation |-> operation, store |-> "http",
     client |-> client, write |-> write, tries |-> 1, expect |-> expect,
     is |-> <<>>]

OfStore(instruction, store) == [instruction EXCEPT !.store = store]

Stating(instruction, is) == [instruction EXCEPT !.is = is]

AskMessage(operation, client, write, expect) ==
    OfStore(Ask(operation, client, write, expect), "message")

Local(operation, client, write, expect) ==
    [Ask(operation, client, write, expect) EXCEPT
        !.way = "factory", !.places = << Source >>]

OnDemo(instruction, secret) ==
    [instruction EXCEPT !.places = << Demo >>, !.by = BootstrapId, !.secret = secret]

ForAll(list, Op(_)) == [i \in DOMAIN list |-> Op(list[i])]

(* The clients and secrets that the torture suite and the demonstration name *)
(* themselves.                                                              *)
SuiteIds == {"r1", "r3", "r4", "r5", "c", "m", "f", "absent"}

SuiteSecrets ==
    {"r1-secret", "r3-original", "r3-rotated", "r4-original", "r4-rotated",
     "r5-round0", "r5-round1", "r5-round2", "c-secret", "m-original",
     "generated", "f-original", "f-rotated", "demo-secret"}

Credentials == [client : ClientIds, secret : Hashes, store : Stores]

Entries == ToSet(Plans) \cup ToSet(SeedRows)

ASSUME SourceAssumption ==
    /\ Attempts \in Nat \ {0, 1} /\ MaxDisturbances \in Nat
    /\ TargetList \in Seq(Targets)
    /\ {Source, Demo} \cap Targets = {} /\ Source # Demo
    /\ {BootstrapId, SyncId, SourceOnlyId} \cup SuiteIds \subseteq ClientIds
    /\ {ForeignHash} \cup SuiteSecrets \subseteq Hashes /\ NoHash \notin Hashes
    /\ 2100 \in Instants /\ "other" \in Addresses
    /\ {MessageCredentials, HttpCredentials, HttpPlans, MessagePlans, SeedRows}
          \subseteq Seq(Credentials)
    /\ \A row \in ToSet(SeedRows) : RotatedSecret[row.secret] \in Hashes

ASSUME TargetsAssumption ==
    InitialTargets \subseteq [Targets \X Stores \X ClientIds -> Records \cup {NoRecord}]

(* The configuration: the process has the secret of every client it signs   *)
(* as, one client has one planned secret, and the suite uses other clients. *)
ASSUME ConfigurationAssumption ==
    /\ \A client \in {BootstrapId, SyncId, SourceOnlyId}
                    \cup {plan.client : plan \in ToSet(HttpPlans)} :
           \E credential \in ToSet(HttpCredentials) : credential.client = client
    /\ \A e, f \in Entries :
           e.store = f.store /\ e.client = f.client => e.secret = f.secret
    /\ \A e \in Entries : e.client \notin SuiteIds
    /\ \A start \in InitialTargets, t \in Targets, e \in Entries :
           LET r == start[<<t, e.store, e.client>>]
           IN  r # NoRecord => r.hash \in {e.secret, ForeignHash}

(* The first plan is that of the bootstrap client, and one of the others     *)
(* that of the client that signs the rows; both are HTTP clients, which no   *)
(* row is, and plans have the secrets of the process.  A target that stores  *)
(* anybody stores the bootstrap client.                                     *)
ASSUME SignersAssumption ==
    /\ HttpPlans # <<>> /\ HttpPlans[1].client = BootstrapId
    /\ SyncId \in {plan.client : plan \in ToSet(HttpPlans)}
    /\ \A plan \in ToSet(HttpPlans) :
           plan.store = "http" /\ plan.secret = SecretOf(plan.client)
    /\ \A row \in ToSet(SeedRows) :
           row.store = "http" => row.client \notin {BootstrapId, SyncId}
    /\ \A start \in InitialTargets, t \in Targets, client \in ClientIds :
           start[<<t, "http", client>>] # NoRecord =>
               start[<<t, "http", BootstrapId>>] # NoRecord

(* What a green run needs besides: every target is listed once, no plan is   *)
(* that of a row, the message plans are of clients that the process stores   *)
(* with the planned secret, the bootstrap client among them, and only the    *)
(* suite uses its clients.  A statement about a record is not its absence.   *)
ASSUME GreenAssumption ==
    /\ IsInjective(TargetList)
    /\ \A plan \in ToSet(Plans), row \in ToSet(SeedRows) :
           plan.client = row.client => plan.store # row.store
    /\ \A credential \in ToSet(MessageCredentials) : credential.client \notin SuiteIds
    /\ \A credential \in ToSet(HttpCredentials) : credential.client \notin SuiteIds
    /\ SourceOnlyId \notin SuiteIds \cup {e.client : e \in Entries}
    /\ \A plan \in ToSet(MessagePlans) :
           /\ plan.store = "message"
           /\ \E credential \in ToSet(MessageCredentials) : credential.client = plan.client
           /\ \A credential \in ToSet(MessageCredentials) :
                  credential.client = plan.client => credential.secret = plan.secret
    /\ MessagePlans # <<>> =>
           BootstrapId \in {plan.client : plan \in ToSet(MessagePlans)}
    /\ NoRecord \notin {<<>>} \cup [hash : Hashes] \cup [allowedIps : SUBSET Addresses]
                       \cup [fromDbSeed : BOOLEAN, expiresAt : Instants,
                             allowedIps : SUBSET Addresses]

(* At first no target stores a client of the suite or the one that only the  *)
(* source has, and a planned client that it has with the planned secret is   *)
(* not restricted.                                                          *)
ASSUME GreenTargetsAssumption ==
    \A start \in InitialTargets, t \in Targets :
        /\ \A store \in Stores, client \in SuiteIds : start[<<t, store, client>>] = NoRecord
        /\ start[<<t, "http", SourceOnlyId>>] = NoRecord
        /\ \A plan \in ToSet(Plans) :
               LET r == start[<<t, plan.store, plan.client>>]
               IN  r # NoRecord => r.hash = ForeignHash \/ r.purpose = "any"

-----------------------------------------------------------------------------
(* syncFromConfig.                                                          *)
LocalCredentials ==
    ForAll(MessageCredentials, LAMBDA c :
        OfStore(Local("ensure", c.client,
                      [Write(c.secret, Unset) EXCEPT !.allowedIps = Unset], Answers),
                "message"))
    \o ForAll(HttpCredentials, LAMBDA c :
           Local("ensure", c.client, Write(c.secret, Unset), Answers))

(* Mutant: it is enough that one target has the client.                     *)
AppliedMutant(answers, expect) == \E i \in DOMAIN answers : answers[i] \in expect

(* isCreateAlreadyApplied, and the assertions, which look at every result.  *)
Applied(answers, expect) == \A i \in DOMAIN answers : answers[i] \in expect

Planned(plan, signer, seeded) ==
    [Ask("create", plan.client, Write(plan.secret, seeded), {"accepted", "exists"})
        EXCEPT !.store = plan.store, !.tries = Attempts,
               !.by = signer, !.secret = SecretOf(signer)]

PlansSection == ForAll(Plans, LAMBDA plan : Planned(plan, BootstrapId, FALSE))

SeedSection == ForAll(SeedRows, LAMBDA row : Planned(row, SyncId, TRUE))

RotateAndRevert(row) ==
    <<OfStore(Ask("update", row.client, Write(RotatedSecret[row.secret], TRUE), Answers),
              row.store),
      OfStore(Ask("revert", row.client, NoWrite, Answers), row.store)>>

RevertDemo ==
    [n \in 1..2 * Len(SeedRows) |->
        RotateAndRevert(SeedRows[(n + 1) \div 2])[2 - (n % 2)]]

-----------------------------------------------------------------------------
(* runTortureSuite.                                                         *)
RevertSuite ==
    <<Ask("create", "r1", Write("r1-secret", TRUE), Answers),
      Ask("revert", "r1", NoWrite, {"accepted"}),
      Ask("revert", "absent", NoWrite, {"accepted"}),
      Local("set", "r3", Write("r3-original", TRUE), {"changed"}),
      Local("set", "r3", Write("r3-rotated", TRUE), {"changed"}),
      Stating(Local("revert", "r3", NoWrite, {"reverted"}), [hash |-> "r3-original"]),
      Local("revert", "r3", NoWrite, {"accepted"}),
      AskMessage("create", "r4", Write("r4-original", TRUE), Answers),
      AskMessage("update", "r4", Write("r4-rotated", TRUE), Answers),
      AskMessage("revert", "r4", NoWrite, {"reverted"}),
      Ask("create", "r5", Write("r5-round0", TRUE), Answers),
      Ask("update", "r5", Write("r5-round1", TRUE), Answers),
      Ask("update", "r5", Write("r5-round2", TRUE), Answers),
      Ask("revert", "r5", NoWrite, {"reverted"}),
      Ask("revert", "r5", NoWrite, {"accepted"})>>

CrudSuite ==
    <<Ask("create", "c", Write("c-secret", FALSE), Answers),
      Ask("create", "c", Write("c-secret", FALSE), {"exists"}),
      Ask("update", "absent", Write("c-secret", FALSE), {"missing"}),
      Ask("delete", "c", NoWrite, {"accepted"}),
      Ask("delete", "absent", NoWrite, Refusals),
      Ask("health", BootstrapId, NoWrite, {"accepted"})>>

(* Each case begins with a create, which looks at nothing: one id serves.   *)
ManagementSuite ==
    LET Creation     == Local("create", "m", Write("m-original", Unset), Answers)
        Regeneration == Local("regenerate", "m", Write("generated", Unset), {"changed"})
    IN  <<Creation, Regeneration,
          OfStore(Creation, "message"), OfStore(Regeneration, "message"),
          Creation,
          Stating(Local("allow", "m", [NoWrite EXCEPT !.allowedIps = {"other"}], Answers),
                  [allowedIps |-> {"other"}]),
          Creation,
          Stating(Local("delete", "m", NoWrite, Answers), NoRecord)>>

PreservationSuite ==
    LET OfF(secret, seeded) ==
            [hash |-> secret, expiresAt |-> 2100, allowedIps |-> {"other"},
             fromDbSeed |-> seeded, purpose |-> Unset]
    IN  <<Local("create", "f", OfF("f-original", Unset), Answers),
          Local("set", "f", OfF("f-original", TRUE), Answers),
          Local("set", "f", OfF("f-rotated", TRUE), Answers),
          Stating(Local("revert", "f", NoWrite, {"reverted"}),
                  [fromDbSeed |-> TRUE, expiresAt |-> 2100, allowedIps |-> {"other"}])>>

-----------------------------------------------------------------------------
(* main: after syncFromConfig a request as the fetch client and one as a    *)
(* client that no target knows, then one as every planned client ...        *)
As(client, expect) ==
    [Ask("fetch", client, NoWrite, expect) EXCEPT
        !.by = client, !.secret = SecretOf(client)]

HttpSweep ==
    <<As(SyncId, Answers), As(SourceOnlyId, {"refused"})>>
    \o ForAll(HttpPlans, LAMBDA plan : As(plan.client, {"accepted"}))

(* ... and a message of every planned message client.                       *)
MessageSweep ==
    ForAll(MessagePlans, LAMBDA plan :
        AskMessage("verify", plan.client, NoWrite, {"accepted"}))

(* runV1_3_0_Demo: the lock, its release, and a restricted credential.      *)
Demonstration ==
    LET Secret == "demo-secret"
        Restricted == [Write(Secret, FALSE) EXCEPT
                          !.purpose = "propagation-only", !.allowedIps = {}]
        Unsigned(operation, client, write, expect) ==
            OnDemo(Ask(operation, client, write, expect), NoHash)
        Signed(operation, expect) ==
            OnDemo(Ask(operation, BootstrapId, NoWrite, expect), Secret)
    IN  <<Unsigned("health", BootstrapId, NoWrite, {"accepted"}),
          Unsigned("create", SourceOnlyId, Write(Secret, FALSE), {"refused"}),
          Unsigned("update", BootstrapId, NoWrite, {"refused"}),
          Unsigned("revert", BootstrapId, NoWrite, {"refused"}),
          Unsigned("delete", BootstrapId, NoWrite, {"refused"}),
          Unsigned("create", BootstrapId, Restricted, {"accepted"}),
          OnDemo(OfStore(Local("create", BootstrapId, Restricted, Answers), "message"),
                 Secret),
          Signed("health", {"accepted"}),
          Signed("fetch", {"refused"}),
          Signed("health", {"accepted"}),
          OnDemo(OfStore(Local("sign", BootstrapId, NoWrite, {"refused"}), "message"),
                 Secret)>>

Program ==
    LocalCredentials \o PlansSection \o SeedSection \o RevertDemo
    \o RevertSuite \o CrudSuite \o ManagementSuite \o PreservationSuite
    \o HttpSweep \o MessageSweep \o Demonstration

-----------------------------------------------------------------------------
(* What an instruction finds and does at place p.                           *)
Stored(p, store, client) == record[<<p, store, client>>] # NoRecord

Listed(p) == {c \in ClientIds : Stored(p, "http", c)}

Verified(p, i) ==
    /\ BootstrapId \in Listed(p) /\ i.by \in Listed(p)
    /\ record[<<p, "http", i.by>>].hash = i.secret
    /\ i.operation = "fetch" =>
          record[<<p, "http", i.by>>].purpose # "propagation-only"

(* Mutant: an empty target admits everything.                               *)
AdmittedMutant(p, i) == Listed(p) # {} => Verified(p, i)

(* The management route, as in InternalManagement and Propagation.          *)
Admitted(p, i) ==
    IF i.operation = "fetch" \/ Listed(p) # {} THEN Verified(p, i)
    ELSE \/ i.operation = "health"
         \/ i.operation = "create" /\ i.client = BootstrapId

(* signMessage, and verifyMessage of what the source has signed.            *)
MessageUsable(p, client) ==
    /\ Stored(p, "message", BootstrapId) /\ Stored(p, "message", client)
    /\ record[<<p, "message", client>>].purpose # "propagation-only"

SameHash(p, client) ==
    record[<<p, "message", client>>].hash = record[<<Source, "message", client>>].hash

KeyOf(p, i) ==
    <<p, IF i.way = "route" /\ i.operation = "delete" THEN "http" ELSE i.store, i.client>>

Reverts(k) == record[k] # NoRecord /\ undo[k] # NoHash

RouteAnswer(p, i) ==
    LET k == KeyOf(p, i)
    IN  IF i.operation = "verify"
        THEN IF /\ MessageUsable(Source, i.client) /\ MessageUsable(p, i.client)
                /\ SameHash(p, i.client) THEN "accepted" ELSE "refused"
        ELSE IF ~Admitted(p, i) THEN "refused"
        ELSE IF i.operation = "create" /\ record[k] # NoRecord THEN "exists"
        ELSE IF i.operation \in {"update", "delete"} /\ record[k] = NoRecord THEN "missing"
        ELSE IF i.operation = "revert" /\ Reverts(k) THEN "reverted"
        ELSE "accepted"

(* ensureHttpCredential keeps the expiry and the origin; create looks at    *)
(* nothing; the others are the operations of CredentialRecords.             *)
NewRecord(k, i) ==
    IF i.operation \in {"update", "set", "ensure"} THEN Rotated(record[k], i.write)
    ELSE IF i.operation = "create"
         THEN IF i.way = "route" THEN Rotated(record[k], i.write) ELSE Created(i.write)
    ELSE IF i.operation = "regenerate"
         THEN Regenerated(record[k], [i.write EXCEPT !.allowedIps = Unset])
    ELSE IF i.operation = "allow" THEN WithAllowedIps(record[k], i.write)
    ELSE IF i.operation = "delete" THEN NoRecord
    ELSE IF i.operation = "revert" /\ Reverts(k) THEN Reverted(record[k], undo[k])
    ELSE record[k]

NewUndo(k, i) ==
    IF i.operation = "revert" THEN NoHash
    ELSE IF /\ i.operation \in {"update", "set"}
            /\ NeedsBackup(record[k], i.write) THEN record[k].hash
    ELSE undo[k]

Does(p, i) ==
    LET k == KeyOf(p, i)
        acts == i.way = "factory" \/ RouteAnswer(p, i) \notin Refusals
    IN  /\ record' = [record EXCEPT ![k] = IF acts THEN NewRecord(k, i) ELSE @]
        /\ undo'   = [undo EXCEPT ![k] = IF acts THEN NewUndo(k, i) ELSE @]

FactoryAnswer(p, i) ==
    LET k   == KeyOf(p, i)
        new == NewRecord(k, i)
    IN  IF i.operation = "sign"
        THEN IF MessageUsable(p, i.client) THEN "accepted" ELSE "refused"
        ELSE IF i.operation = "revert"
        THEN IF Reverts(k) THEN "reverted" ELSE "accepted"
        ELSE IF /\ new # NoRecord
                /\ record[k] # NoRecord => record[k].hash # new.hash
        THEN "changed" ELSE "kept"

(* The record after a factory call is what the assertion says.              *)
AsExpected(p, i) ==
    LET new == NewRecord(KeyOf(p, i), i)
    IN  IF i.is = NoRecord THEN new = NoRecord
        ELSE \A field \in DOMAIN i.is : new[field] = i.is[field]

-----------------------------------------------------------------------------
Running  == pc \in DOMAIN Program
Finished == pc > Len(Program)
Now      == Program[pc]
Asking   == Running /\ Len(results) < Len(Now.places)
Place    == Now.places[Len(results) + 1]

Disturb ==
    /\ disturbances < MaxDisturbances
    /\ disturbances' = disturbances + 1

(* A place is asked and answers.                                            *)
Answered ==
    /\ Asking
    /\ Does(Place, Now)
    /\ results' = Append(results,
           IF Now.way = "route" THEN RouteAnswer(Place, Now) ELSE FactoryAnswer(Place, Now))
    /\ failed' = IF Now.way = "factory" /\ ~AsExpected(Place, Now)
                 THEN failed \cup {pc} ELSE failed
    /\ UNCHANGED <<pc, attempt, calm, expired, disturbances>>

(* fetch rejects: the request or its answer is lost.                        *)
Rejected ==
    /\ Asking /\ Place \in Targets
    /\ Disturb
    /\ UNCHANGED <<record, undo>> \/ Does(Place, Now)
    /\ results' = Append(results, "rejected")
    /\ calm' = FALSE
    /\ UNCHANGED <<pc, attempt, failed, expired>>

(* Mutant: it is tried until it succeeds.                                   *)
SettleMutant ==
    /\ Running /\ ~Asking
    /\ results' = <<>>
    /\ IF ~Applied(results, Now.expect) /\ Now.tries > 1
       THEN UNCHANGED <<pc, attempt, failed>>
       ELSE /\ pc' = pc + 1 /\ attempt' = 1
            /\ failed' = IF Applied(results, Now.expect) THEN failed ELSE failed \cup {pc}
    /\ UNCHANGED <<record, undo, calm, expired, disturbances>>

(* Mutant: it is tried once more than it should.                            *)
SettleOnceMoreMutant ==
    /\ Running /\ ~Asking
    /\ results' = <<>>
    /\ IF ~Applied(results, Now.expect) /\ attempt <= Now.tries
       THEN attempt' = attempt + 1 /\ UNCHANGED <<pc, failed>>
       ELSE /\ pc' = pc + 1 /\ attempt' = 1
            /\ failed' = IF Applied(results, Now.expect) THEN failed ELSE failed \cup {pc}
    /\ UNCHANGED <<record, undo, calm, expired, disturbances>>

(* All places are done: the results are judged, and the creation of a        *)
(* planned client is tried again if they are not what it needs.              *)
Settle ==
    /\ Running /\ ~Asking
    /\ results' = <<>>
    /\ IF ~Applied(results, Now.expect) /\ attempt < Now.tries
       THEN attempt' = attempt + 1 /\ UNCHANGED <<pc, failed>>
       ELSE /\ pc' = pc + 1 /\ attempt' = 1
            /\ failed' = IF Applied(results, Now.expect) THEN failed ELSE failed \cup {pc}
    /\ UNCHANGED <<record, undo, calm, expired, disturbances>>

(* What a stop leaves of the step it interrupts: nothing, all of it, or the  *)
(* first of the two commands of a local rotation or revert.                  *)
Interrupted ==
    \/ UNCHANGED <<record, undo>>
    \/ Asking /\ Does(Place, Now)
    \/ /\ Asking /\ Now.way = "factory"
       /\ LET k == KeyOf(Place, Now)
          IN  \/ /\ Now.operation = "set"
                 /\ undo' = [undo EXCEPT ![k] = NewUndo(k, Now)]
                 /\ UNCHANGED record
              \/ /\ Now.operation = "revert"
                 /\ record' = [record EXCEPT ![k] = NewRecord(k, Now)]
                 /\ UNCHANGED undo

(* The process stops.                                                       *)
Stop ==
    /\ Disturb
    /\ Interrupted
    /\ pc > 0
    /\ pc' = 0 /\ attempt' = 1 /\ results' = <<>> /\ failed' = {} /\ calm' = TRUE
    /\ UNCHANGED expired

(* R3 and the demonstration have a new client, a new namespace in every run. *)
Fresh(k) == k[1] = Demo \/ (k[1] = Source /\ k[3] = "r3")

(* The process starts, or starts again.                                     *)
BeginRun ==
    /\ pc = 0
    /\ pc' = 1
    /\ record' = [k \in Keys |-> IF Fresh(k) THEN NoRecord ELSE record[k]]
    /\ undo'   = [k \in Keys |-> IF Fresh(k) THEN NoHash ELSE undo[k]]
    /\ UNCHANGED <<attempt, results, failed, calm, expired, disturbances>>

(* A backup expires.                                                        *)
Expire ==
    /\ Disturb
    /\ \E k \in Keys : undo[k] # NoHash /\ undo' = [undo EXCEPT ![k] = NoHash]
    /\ expired' = TRUE
    /\ UNCHANGED <<record, pc, attempt, results, failed, calm>>
-----------------------------------------------------------------------------
Init ==
    /\ record \in {[k \in Keys |->
                       IF k[1] \in Targets THEN start[k] ELSE NoRecord] :
                       start \in InitialTargets}
    /\ undo = [k \in Keys |-> NoHash]
    /\ pc = 0 /\ attempt = 1 /\ results = <<>> /\ failed = {}
    /\ calm = TRUE /\ expired = FALSE /\ disturbances = 0

Next ==
    \/ BeginRun
    \/ Answered
    \/ Rejected
    \/ Settle
    \/ Stop
    \/ Expire

(* The process runs unless it is stopped, and fetches settle.               *)
Fairness == WF_vars(BeginRun \/ Answered \/ Settle)

Spec == Init /\ [][Next]_vars /\ Fairness

-----------------------------------------------------------------------------
TypeOK ==
    /\ record \in [Keys -> Records \cup {NoRecord}]
    /\ undo \in [Keys -> Hashes \cup {NoHash}]
    /\ pc \in 0..(Len(Program) + 1)
    /\ attempt \in 1..Attempts
    /\ results \in Seq(Answers)
    /\ failed \subseteq DOMAIN Program
    /\ calm \in BOOLEAN /\ expired \in BOOLEAN
    /\ disturbances \in 0..MaxDisturbances

Untouched ==
    \A k \in Keys : k[1] \in Targets /\ record[k] # NoRecord =>
        record[k].hash # ForeignHash

(* A run with nothing to disturb it is green, whatever interrupted the runs *)
(* before it and wherever, as long as no backup expired and no target had a *)
(* planned client of its own: the program can be started again.              *)
CleanRunIsGreen == calm /\ ~expired /\ Untouched => failed = {}

(* Where the lists of planned clients and of rows are in the program.       *)
Creations == {i \in DOMAIN Program : Program[i].tries = Attempts}

(* A planned client that was reported as applied is stored on every target: *)
(* with the planned secret, or with the one the target already had.          *)
AppliedIsHeld ==
    \A i \in Creations : i < pc /\ i \notin failed =>
        \A t \in Targets :
            LET r == record[<<t, Program[i].store, Program[i].client>>]
            IN  /\ r # NoRecord
                /\ r.hash \in {Program[i].write.hash, ForeignHash}
                               \cup {RotatedSecret[row.secret] : row \in ToSet(SeedRows)}

(* The rotation and the revert of a row are two propagations.  However they  *)
(* were cut apart in earlier runs, an undisturbed run ends with the row's   *)
(* own secret on every target: on the same two conditions.                   *)
RowsKeepTheirSecret ==
    Finished /\ calm /\ ~expired /\ Untouched =>
        \A row \in ToSet(SeedRows), t \in Targets :
            LET r == record[<<t, row.store, row.client>>]
            IN  r # NoRecord /\ r.hash = row.secret

(* The process gets to the end of its program, although targets may refuse   *)
(* a planned client for ever.                                                *)
Finishes == <>[]Finished
=============================================================================
