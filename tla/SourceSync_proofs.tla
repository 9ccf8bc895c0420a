--------------------------- MODULE SourceSync_proofs ---------------------------
(***************************************************************************)
(* Theorems about SourceSync, for every configuration, every number of      *)
(* targets and whatever they hold at first, any number of attempts, stops,   *)
(* rejected fetches and expiries.                                           *)
(***************************************************************************)
EXTENDS SourceSync, SequenceTheorems, TLAPS

-----------------------------------------------------------------------------
(* The instructions.                                                        *)
Operations ==
    {"ensure", "create", "update", "set", "regenerate", "allow", "delete", "revert",
     "health", "fetch", "verify", "sign"}

(* Operations that need a stored record.                                    *)
Amendments == {"regenerate", "allow"}

PossibleWrites ==
    [hash       : Hashes \cup {NoHash},
     expiresAt  : Instants \cup {Never, Unset},
     allowedIps : (SUBSET Addresses) \cup {Unset},
     fromDbSeed : BOOLEAN \cup {Unset},
     purpose    : Purposes \cup {Unset}]

Statements ==
    {<<>>, NoRecord} \cup [hash : Hashes] \cup [allowedIps : SUBSET Addresses]
    \cup [fromDbSeed : BOOLEAN, expiresAt : Instants, allowedIps : SUBSET Addresses]

PlaceLists == {TargetList, << Source >>, << Demo >>}

Orders ==
    [way : {"route", "factory"}, places : PlaceLists, by : ClientIds,
     secret : Hashes \cup {NoHash}, operation : Operations, store : Stores,
     client : ClientIds, write : PossibleWrites, tries : {1, Attempts},
     expect : SUBSET Answers, is : Statements]

(* What an entry may be stored with on a target.                            *)
Lasting(entry) ==
    {entry.secret, ForeignHash} \cup {RotatedSecret[row.secret] : row \in ToSet(SeedRows)}

(* Only an unsigned update has no secret to write.                          *)
WritesSecrets(i) ==
    i.operation \in {"ensure", "create", "update", "set", "regenerate"} =>
        \/ i.write.hash # NoHash
        \/ i.operation = "update" /\ i.way = "route" /\ i.secret = NoHash

IsRow(client, store) ==
    \E row \in ToSet(SeedRows) : row.client = client /\ row.store = store

(* Entries are only created, updated and reverted on the targets, and only   *)
(* rows are updated.                                                        *)
Spares(i) ==
    i.places = TargetList =>
        \A entry \in Entries : i.client = entry.client =>
            /\ i.operation \in {"create", "update", "revert", "health", "fetch", "verify"}
            /\ i.operation = "create" /\ i.store = entry.store =>
                  i.write.hash = entry.secret
            /\ i.operation = "update" /\ i.store = entry.store =>
                  /\ IsRow(entry.client, entry.store)
                  /\ i.write.hash = RotatedSecret[entry.secret] /\ i.write.fromDbSeed = TRUE

(* What is tried more than once is the creation of an entry.                *)
RetriesEntries(i) ==
    i.tries = Attempts =>
        /\ i.way = "route" /\ i.places = TargetList
        /\ i.operation = "create" /\ i.expect = {"accepted", "exists"}
        /\ \E entry \in Entries :
              /\ i.client = entry.client /\ i.store = entry.store
              /\ i.write.hash = entry.secret

LocalFactory(i) ==
    i.operation \in Amendments \/ i.way = "factory" =>
        i.way = "factory" /\ i.places # TargetList

Instructions ==
    {i \in Orders : WritesSecrets(i) /\ Spares(i) /\ RetriesEntries(i) /\ LocalFactory(i)}

(* The rotation of a row, and its reversal.                                 *)
Rotates(i) ==
    i.operation = "update" /\ i.places = TargetList /\ IsRow(i.client, i.store)

Undoes(i, client, store) ==
    /\ i.operation = "revert" /\ i.way = "route" /\ i.places = TargetList
    /\ i.by = SyncId /\ i.secret = SecretOf(SyncId)
    /\ i.client = client /\ i.store = store

Simple == {i \in Instructions : i.operation \notin Amendments /\ ~Rotates(i)}

(* An amendment comes right after the creation of what it amends.           *)
Prepares(i, j) ==
    /\ i.way = "factory" /\ i.operation = "create"
    /\ i.places = j.places /\ i.store = j.store /\ i.client = j.client

Linked(s) ==
    \A n \in 1..Len(s) : s[n].operation \in Amendments =>
        n > 1 /\ Prepares(s[n - 1], s[n])

(* The reversal of a rotation comes right after it.                         *)
Reversed(s) ==
    \A n \in 1..Len(s) : Rotates(s[n]) =>
        n < Len(s) /\ Undoes(s[n + 1], s[n].client, s[n].store)

WellFormed(s) == s \in Seq(Instructions) /\ Linked(s) /\ Reversed(s)

-----------------------------------------------------------------------------
(* The places of the source and of the demonstration are not the targets.   *)
LEMMA PlacesDiffer ==
    /\ << Source >> # TargetList /\ << Demo >> # TargetList /\ << Source >> # << Demo >>
    /\ Attempts # 1
    /\ \A t \in Targets : t # Source /\ t # Demo
<1>1. \A place : DOMAIN << place >> = {1} /\ << place >>[1] = place
  OBVIOUS
<1>2. \A place : ToSet(<< place >>) = {place}
  BY <1>1 DEF ToSet
<1>3. {Source, Demo} \cap ToSet(TargetList) = {} /\ Source # Demo
  BY SourceAssumption DEF Targets
<1>4. << Source >> # TargetList /\ << Demo >> # TargetList /\ << Source >> # << Demo >>
  BY <1>2, <1>3
<1>5. Attempts # 1 /\ \A t \in Targets : t # Source /\ t # Demo
  BY <1>3, SourceAssumption DEF Targets
<1> QED
  BY <1>4, <1>5

(* Sequences of simple instructions need no preparation.                    *)
LEMMA SimpleWellFormed ==
    ASSUME NEW s \in Seq(Simple)
    PROVE  WellFormed(s)
<1>1. s \in Seq(Instructions)
  BY DEF Simple
<1>2. \A n \in 1..Len(s) : s[n] \in Simple
  OBVIOUS
<1> QED
  BY <1>1, <1>2 DEF WellFormed, Linked, Reversed, Simple

(* Joining sequences keeps them well formed.                                *)
LEMMA JoinWellFormed ==
    ASSUME NEW a, NEW b, WellFormed(a), WellFormed(b)
    PROVE  WellFormed(a \o b)
<1>1. a \in Seq(Instructions) /\ b \in Seq(Instructions)
  BY DEF WellFormed
<1>2. /\ a \o b \in Seq(Instructions)
      /\ Len(a \o b) = Len(a) + Len(b)
      /\ \A n \in 1..Len(a) + Len(b) :
            (a \o b)[n] = IF n <= Len(a) THEN a[n] ELSE b[n - Len(a)]
  BY <1>1, ConcatProperties
<1>3. Len(a) \in Nat /\ Len(b) \in Nat
  BY <1>1
<1>4. ASSUME NEW n \in 1..Len(a) + Len(b), (a \o b)[n].operation \in Amendments
      PROVE  n > 1 /\ Prepares((a \o b)[n - 1], (a \o b)[n])
  <2>1. CASE n <= Len(a)
    <3>1. n \in 1..Len(a) /\ (a \o b)[n] = a[n]
      BY <1>2, <1>3, <2>1
    <3>2. n > 1 /\ Prepares(a[n - 1], a[n])
      BY <1>4, <3>1 DEF WellFormed, Linked
    <3>3. n - 1 \in 1..Len(a) + Len(b) /\ n - 1 <= Len(a)
      BY <1>3, <2>1, <3>2
    <3> QED
      BY <1>2, <3>1, <3>2, <3>3
  <2>2. CASE ~(n <= Len(a))
    <3> DEFINE k == n - Len(a)
    <3>1. k \in 1..Len(b) /\ (a \o b)[n] = b[k]
      BY <1>2, <1>3, <2>2
    <3>2. k > 1 /\ Prepares(b[k - 1], b[k])
      BY <1>4, <3>1 DEF WellFormed, Linked
    <3>3. /\ n - 1 \in 1..Len(a) + Len(b) /\ ~(n - 1 <= Len(a))
          /\ (n - 1) - Len(a) = k - 1 /\ n > 1
      BY <1>3, <2>2, <3>2
    <3> QED
      BY <1>2, <3>1, <3>2, <3>3
  <2> QED
    BY <2>1, <2>2
<1>5. ASSUME NEW n \in 1..Len(a) + Len(b), Rotates((a \o b)[n])
      PROVE  /\ n < Len(a) + Len(b)
             /\ Undoes((a \o b)[n + 1], (a \o b)[n].client, (a \o b)[n].store)
  <2>1. CASE n <= Len(a)
    <3>1. n \in 1..Len(a) /\ (a \o b)[n] = a[n]
      BY <1>2, <1>3, <2>1
    <3>2. n < Len(a) /\ Undoes(a[n + 1], a[n].client, a[n].store)
      BY <1>5, <3>1 DEF WellFormed, Reversed
    <3>3. n + 1 \in 1..Len(a) + Len(b) /\ n + 1 <= Len(a)
      BY <1>3, <2>1, <3>2
    <3> QED
      BY <1>2, <1>3, <3>1, <3>2, <3>3
  <2>2. CASE ~(n <= Len(a))
    <3> DEFINE k == n - Len(a)
    <3>1. k \in 1..Len(b) /\ (a \o b)[n] = b[k]
      BY <1>2, <1>3, <2>2
    <3>2. k < Len(b) /\ Undoes(b[k + 1], b[k].client, b[k].store)
      BY <1>5, <3>1 DEF WellFormed, Reversed
    <3>3. /\ n + 1 \in 1..Len(a) + Len(b) /\ ~(n + 1 <= Len(a))
          /\ (n + 1) - Len(a) = k + 1 /\ n < Len(a) + Len(b)
      BY <1>3, <2>2, <3>2
    <3> QED
      BY <1>2, <3>1, <3>2, <3>3
  <2> QED
    BY <2>1, <2>2
<1> QED
  BY <1>2, <1>4, <1>5 DEF WellFormed, Linked, Reversed

(* A list of configuration with an instruction for each of its entries.     *)
LEMMA ForEach ==
    ASSUME NEW list \in Seq(Credentials), NEW s,
           s = [n \in DOMAIN list |-> s[n]],
           \A n \in DOMAIN list : s[n] \in Simple
    PROVE  WellFormed(s)
<1>1. DOMAIN list = 1..Len(list) /\ Len(list) \in Nat
  OBVIOUS
<1>2. s \in Seq(Simple)
  BY <1>1
<1> QED
  BY <1>2, SimpleWellFormed

-----------------------------------------------------------------------------
(* How instructions are made.                                               *)

(* What is written.                                                         *)
LEMMA WritePossible ==
    ASSUME NEW secret \in Hashes \cup {NoHash}, NEW seeded \in BOOLEAN \cup {Unset}
    PROVE  Write(secret, seeded) \in PossibleWrites /\ Write(secret, seeded).hash = secret
BY DEF Write, Everywhere, PossibleWrites

(* The process has a secret for everyone it signs as.                       *)
LEMMA SecretKnown ==
    ASSUME NEW client,
           \E credential \in ToSet(HttpCredentials) : credential.client = client
    PROVE  SecretOf(client) \in Hashes
<1> DEFINE chosen == CHOOSE credential \in ToSet(HttpCredentials) : credential.client = client
<1>1. chosen \in ToSet(HttpCredentials)
  OBVIOUS
<1>2. ToSet(HttpCredentials) \subseteq Credentials
  BY SourceAssumption DEF ToSet
<1>3. chosen.secret \in Hashes
  BY <1>1, <1>2 DEF Credentials
<1> QED
  BY <1>3 DEF SecretOf

(* That is so of those the program signs as.                                *)
LEMMA SignersKnown ==
    \A client \in {BootstrapId, SyncId, SourceOnlyId} \cup {plan.client : plan \in ToSet(HttpPlans)} :
        SecretOf(client) \in Hashes
<1> SUFFICES ASSUME NEW client \in {BootstrapId, SyncId, SourceOnlyId}
                                  \cup {plan.client : plan \in ToSet(HttpPlans)}
             PROVE  SecretOf(client) \in Hashes
  OBVIOUS
<1>1. \E credential \in ToSet(HttpCredentials) : credential.client = client
  BY ConfigurationAssumption
<1> QED
  BY <1>1, SecretKnown

(* The members of the configured lists.                                     *)
LEMMA ListMembers ==
    ASSUME NEW list \in {MessageCredentials, HttpCredentials, HttpPlans, MessagePlans, SeedRows}
    PROVE  /\ list \in Seq(Credentials)
           /\ \A n \in DOMAIN list : list[n] \in ToSet(list) /\ list[n] \in Credentials
<1>1. list \in Seq(Credentials)
  BY SourceAssumption
<1> QED
  BY <1>1 DEF ToSet

(* The entries are those of the two lists of plans and of the rows.         *)
LEMMA EntryLists ==
    /\ Entries = ToSet(HttpPlans) \cup ToSet(MessagePlans) \cup ToSet(SeedRows)
    /\ Entries \subseteq Credentials
    /\ ToSet(Plans) = ToSet(HttpPlans) \cup ToSet(MessagePlans)
<1>1. HttpPlans \in Seq(Credentials) /\ MessagePlans \in Seq(Credentials)
      /\ SeedRows \in Seq(Credentials)
  BY ListMembers
<1>2. ToSet(Plans) = ToSet(HttpPlans) \cup ToSet(MessagePlans)
  <2>1. /\ Len(Plans) = Len(HttpPlans) + Len(MessagePlans)
        /\ \A n \in 1..Len(HttpPlans) + Len(MessagePlans) :
              Plans[n] = IF n <= Len(HttpPlans) THEN HttpPlans[n]
                         ELSE MessagePlans[n - Len(HttpPlans)]
        /\ Plans \in Seq(Credentials)
    BY <1>1, ConcatProperties DEF Plans
  <2>2. /\ Len(HttpPlans) \in Nat /\ DOMAIN HttpPlans = 1..Len(HttpPlans)
        /\ Len(MessagePlans) \in Nat /\ DOMAIN MessagePlans = 1..Len(MessagePlans)
        /\ DOMAIN Plans = 1..Len(Plans)
    BY <1>1, <2>1
  <2>3. ASSUME NEW n \in DOMAIN Plans
        PROVE  Plans[n] \in ToSet(HttpPlans) \cup ToSet(MessagePlans)
    <3>1. CASE n <= Len(HttpPlans)
      BY <2>1, <2>2, <3>1 DEF ToSet
    <3>2. CASE ~(n <= Len(HttpPlans))
      <4>1. n - Len(HttpPlans) \in DOMAIN MessagePlans
        BY <2>1, <2>2, <3>2
      <4> QED
        BY <2>1, <2>2, <3>2, <4>1 DEF ToSet
    <3> QED
      BY <3>1, <3>2
  <2>4. ASSUME NEW n \in DOMAIN HttpPlans
        PROVE  HttpPlans[n] \in ToSet(Plans)
    <3>1. n \in DOMAIN Plans /\ Plans[n] = HttpPlans[n]
      BY <2>1, <2>2
    <3> QED
      BY <3>1 DEF ToSet
  <2>5. ASSUME NEW n \in DOMAIN MessagePlans
        PROVE  MessagePlans[n] \in ToSet(Plans)
    <3>1. /\ n + Len(HttpPlans) \in DOMAIN Plans
          /\ Plans[n + Len(HttpPlans)] = MessagePlans[n]
      BY <2>1, <2>2
    <3> QED
      BY <3>1 DEF ToSet
  <2> QED
    BY <2>3, <2>4, <2>5 DEF ToSet
<1>3. ToSet(HttpPlans) \subseteq Credentials /\ ToSet(MessagePlans) \subseteq Credentials
      /\ ToSet(SeedRows) \subseteq Credentials
  BY <1>1 DEF ToSet
<1> QED
  BY <1>2, <1>3 DEF Entries

(* An order that is tried once and amends nothing.                          *)
LEMMA OrderSimple ==
    ASSUME NEW i \in Orders, i.tries = 1, i.operation \notin Amendments,
           WritesSecrets(i), Spares(i), ~Rotates(i), i.way = "factory" => i.places # TargetList
    PROVE  i \in Simple
<1>1. RetriesEntries(i) /\ LocalFactory(i)
  BY PlacesDiffer DEF RetriesEntries, LocalFactory
<1> QED
  BY <1>1 DEF Simple, Instructions

(* What is asked is an order.                                               *)
LEMMA AskOrder ==
    ASSUME NEW operation \in Operations, NEW client \in ClientIds,
           NEW write \in PossibleWrites, NEW expect \in SUBSET Answers
    PROVE  \A i \in {Ask(operation, client, write, expect),
                     AskMessage(operation, client, write, expect)} :
               /\ i \in Orders /\ i.operation = operation /\ i.client = client
               /\ i.write = write /\ i.tries = 1 /\ i.way = "route"
<1> DEFINE asked == Ask(operation, client, write, expect)
           message == AskMessage(operation, client, write, expect)
<1>1. SyncId \in ClientIds /\ SecretOf(SyncId) \in Hashes
  BY SourceAssumption, SignersKnown
<1>2. /\ asked = [way |-> "route", places |-> TargetList, by |-> SyncId,
                  secret |-> SecretOf(SyncId), operation |-> operation, store |-> "http",
                  client |-> client, write |-> write, tries |-> 1, expect |-> expect,
                  is |-> <<>>]
      /\ message = OfStore(asked, "message")
  BY DEF Ask, AskMessage
<1>3. /\ SecretOf(SyncId) \in Hashes \cup {NoHash} /\ operation \in Operations
      /\ <<>> \in Statements /\ TargetList \in PlaceLists
      /\ {"http", "message"} \subseteq Stores /\ SyncId \in ClientIds
  BY <1>1 DEF Statements, PlaceLists, Stores
<1> HIDE DEF asked, message
<1>4. asked \in Orders
  BY <1>2, <1>3 DEF Orders
<1>5. message \in Orders
  BY <1>2, <1>3, <1>4 DEF Orders, OfStore
<1>6. \A i \in {asked, message} :
         /\ i.operation = operation /\ i.client = client
         /\ i.write = write /\ i.tries = 1 /\ i.way = "route"
  BY <1>2, <1>4 DEF Orders, OfStore
<1> QED
  BY <1>4, <1>5, <1>6 DEF asked, message

(* What is asked of the targets about a client that is no entry, or about    *)
(* an entry and without harm to it.                                         *)
LEMMA AskSimple ==
    ASSUME NEW operation \in Operations \ Amendments, NEW client \in ClientIds,
           NEW write \in PossibleWrites, NEW expect \in SUBSET Answers,
           operation \in {"ensure", "create", "update", "set"} => write.hash # NoHash,
           \A entry \in Entries : client = entry.client =>
               operation \in {"revert", "health", "fetch", "verify"}
    PROVE  /\ Ask(operation, client, write, expect) \in Simple
           /\ AskMessage(operation, client, write, expect) \in Simple
<1> SUFFICES ASSUME NEW i \in {Ask(operation, client, write, expect),
                               AskMessage(operation, client, write, expect)}
             PROVE  i \in Simple
  OBVIOUS
<1>1. /\ i \in Orders /\ i.operation = operation /\ i.client = client
      /\ i.write = write /\ i.tries = 1 /\ i.way = "route"
  BY AskOrder
<1>2. WritesSecrets(i) /\ Spares(i) /\ ~Rotates(i)
  BY <1>1, EntryLists DEF WritesSecrets, Spares, Amendments, Rotates, IsRow
<1> QED
  BY <1>1, <1>2, OrderSimple

(* What the process does to its own stores is an order.                     *)
LEMMA LocalOrder ==
    ASSUME NEW operation \in Operations, NEW client \in ClientIds,
           NEW write \in PossibleWrites, NEW expect \in SUBSET Answers
    PROVE  LET i == Local(operation, client, write, expect)
           IN  /\ i \in Orders /\ i.operation = operation /\ i.write = write
               /\ i.tries = 1 /\ i.way = "factory" /\ i.places = << Source >>
               /\ i.client = client /\ i.store = "http"
<1> DEFINE asked == Ask(operation, client, write, expect)
           i == Local(operation, client, write, expect)
<1>1. /\ asked \in Orders /\ asked.operation = operation /\ asked.client = client
      /\ asked.write = write /\ asked.tries = 1
  BY AskOrder
<1>2. i = [asked EXCEPT !.way = "factory", !.places = << Source >>] /\ asked.store = "http"
  BY DEF Local, Ask
<1>3. << Source >> \in PlaceLists
  BY DEF PlaceLists
<1> HIDE DEF i, asked
<1>4. i \in Orders
  BY <1>1, <1>2, <1>3 DEF Orders
<1>5. /\ i.operation = operation /\ i.write = write /\ i.tries = 1
      /\ i.way = "factory" /\ i.places = << Source >>
      /\ i.client = client /\ i.store = "http"
  BY <1>1, <1>2 DEF Orders
<1> QED
  BY <1>4, <1>5 DEF i

(* An order for the source.                                                 *)
LEMMA SourceSimple ==
    ASSUME NEW i \in Orders, i.operation \in Operations \ Amendments,
           i.tries = 1, i.way = "factory", i.places = << Source >>,
           i.operation \in {"ensure", "create", "update", "set"} => i.write.hash # NoHash
    PROVE  i \in Simple
<1>1. WritesSecrets(i) /\ Spares(i) /\ ~Rotates(i) /\ i.places # TargetList
  BY PlacesDiffer DEF WritesSecrets, Spares, Amendments, Rotates
<1> QED
  BY <1>1, OrderSimple

(* The three kinds of them.                                                 *)
LEMMA OwnSimple ==
    ASSUME NEW operation \in Operations \ Amendments, NEW client \in ClientIds,
           NEW write \in PossibleWrites, NEW expect \in SUBSET Answers,
           operation \in {"ensure", "create", "update", "set"} => write.hash # NoHash
    PROVE  Local(operation, client, write, expect) \in Simple
BY LocalOrder, SourceSimple

(* Those with a statement about the record.                                 *)
LEMMA OwnStated ==
    ASSUME NEW operation \in Operations \ Amendments, NEW client \in ClientIds,
           NEW write \in PossibleWrites, NEW expect \in SUBSET Answers, NEW is \in Statements,
           operation \in {"ensure", "create", "update", "set"} => write.hash # NoHash
    PROVE  Stating(Local(operation, client, write, expect), is) \in Simple
<1> DEFINE i == Local(operation, client, write, expect)
           j == Stating(i, is)
<1>1. /\ i \in Orders /\ i.operation = operation /\ i.write = write
      /\ i.tries = 1 /\ i.way = "factory" /\ i.places = << Source >>
  BY LocalOrder
<1> HIDE DEF i
<1>2. /\ j \in Orders /\ j.operation = operation /\ j.write = write
      /\ j.tries = 1 /\ j.way = "factory" /\ j.places = << Source >>
  BY <1>1 DEF Orders, Stating, OfStore
<1> HIDE DEF j
<1>3. j \in Simple
  BY <1>2, SourceSimple
<1> QED
  BY <1>3 DEF i, j

(* Those of either store.                                                   *)
LEMMA OwnStored ==
    ASSUME NEW operation \in Operations \ Amendments, NEW client \in ClientIds,
           NEW write \in PossibleWrites, NEW expect \in SUBSET Answers, NEW store \in Stores,
           operation \in {"ensure", "create", "update", "set"} => write.hash # NoHash
    PROVE  OfStore(Local(operation, client, write, expect), store) \in Simple
<1> DEFINE i == Local(operation, client, write, expect)
           j == OfStore(i, store)
<1>1. /\ i \in Orders /\ i.operation = operation /\ i.write = write
      /\ i.tries = 1 /\ i.way = "factory" /\ i.places = << Source >>
  BY LocalOrder
<1> HIDE DEF i
<1>2. /\ j \in Orders /\ j.operation = operation /\ j.write = write
      /\ j.tries = 1 /\ j.way = "factory" /\ j.places = << Source >>
  BY <1>1 DEF Orders, Stating, OfStore
<1> HIDE DEF j
<1>3. j \in Simple
  BY <1>2, SourceSimple
<1> QED
  BY <1>3 DEF i, j

(* What is done in the place of the demonstration.                          *)
LEMMA DemoSimple ==
    ASSUME NEW i \in Orders, i.tries = 1, i.operation \notin Amendments,
           NEW secret \in Hashes \cup {NoHash},
           i.operation \in {"ensure", "create", "update", "set"} =>
               \/ i.write.hash # NoHash
               \/ i.operation = "update" /\ i.way = "route" /\ secret = NoHash
    PROVE  OnDemo(i, secret) \in Simple
<1> DEFINE j == OnDemo(i, secret)
<1>1. << Demo >> \in PlaceLists /\ BootstrapId \in ClientIds
  BY SourceAssumption DEF PlaceLists
<1>2. /\ j \in Orders /\ j.operation = i.operation /\ j.write = i.write
      /\ j.tries = 1 /\ j.way = i.way /\ j.places = << Demo >> /\ j.secret = secret
  BY <1>1 DEF OnDemo, Orders
<1> HIDE DEF j
<1>3. WritesSecrets(j) /\ Spares(j) /\ ~Rotates(j) /\ j.places # TargetList
  BY <1>2, PlacesDiffer DEF WritesSecrets, Spares, Amendments, Rotates
<1>4. j \in Simple
  BY <1>2, <1>3, OrderSimple
<1> QED
  BY <1>4 DEF j

-----------------------------------------------------------------------------
(* The sections of the program.                                             *)

(* syncFromConfig: the credentials of the process itself.                    *)
LEMMA LocalCredentialsWellFormed == WellFormed(LocalCredentials)
<1> DEFINE messages ==
               ForAll(MessageCredentials, LAMBDA c :
                   OfStore(Local("ensure", c.client,
                                 [Write(c.secret, Unset) EXCEPT !.allowedIps = Unset], Answers),
                           "message"))
           https ==
               ForAll(HttpCredentials, LAMBDA c :
                   Local("ensure", c.client, Write(c.secret, Unset), Answers))
<1>1. NoHash \notin Hashes /\ "message" \in Stores /\ "ensure" \in Operations \ Amendments
      /\ <<>> \in Statements
  BY SourceAssumption DEF Stores, Operations, Amendments, Statements
<1>2. WellFormed(messages)
  <2>1. ASSUME NEW n \in DOMAIN MessageCredentials
        PROVE  messages[n] \in Simple
    <3> DEFINE c == MessageCredentials[n]
               write == [Write(c.secret, Unset) EXCEPT !.allowedIps = Unset]
    <3>1. c.client \in ClientIds /\ c.secret \in Hashes
      BY ListMembers DEF Credentials
    <3>2. Write(c.secret, Unset) \in PossibleWrites /\ Write(c.secret, Unset).hash = c.secret
      BY <3>1, WritePossible
    <3>3. write \in PossibleWrites /\ write.hash = c.secret
      BY <3>2 DEF PossibleWrites
    <3>4. messages[n] = OfStore(Local("ensure", c.client, write, Answers), "message")
      BY DEF ForAll
    <3> HIDE DEF write, c, messages
    <3> QED
      BY <1>1, <3>1, <3>3, <3>4, OwnStored
  <2>2. messages = [n \in DOMAIN MessageCredentials |-> messages[n]]
    BY DEF ForAll
  <2> HIDE DEF messages
  <2> QED
    BY <2>1, <2>2, ListMembers, ForEach
<1>3. WellFormed(https)
  <2>1. ASSUME NEW n \in DOMAIN HttpCredentials
        PROVE  https[n] \in Simple
    <3> DEFINE c == HttpCredentials[n]
               write == Write(c.secret, Unset)
    <3>1. c.client \in ClientIds /\ c.secret \in Hashes
      BY ListMembers DEF Credentials
    <3>2. write \in PossibleWrites /\ write.hash = c.secret
      BY <3>1, WritePossible
    <3>3. https[n] = Local("ensure", c.client, write, Answers)
      BY DEF ForAll
    <3> HIDE DEF write, c, https
    <3> QED
      BY <1>1, <3>1, <3>2, <3>3, OwnSimple
  <2>2. https = [n \in DOMAIN HttpCredentials |-> https[n]]
    BY DEF ForAll
  <2> HIDE DEF https
  <2> QED
    BY <2>1, <2>2, ListMembers, ForEach
<1>4. LocalCredentials = messages \o https
  BY DEF LocalCredentials
<1> HIDE DEF messages, https
<1> QED
  BY <1>2, <1>3, <1>4, JoinWellFormed

(* The creation of an entry on the targets.                                 *)
LEMMA PlannedSimple ==
    ASSUME NEW plan \in Entries, NEW signer \in {BootstrapId, SyncId}, NEW seeded \in BOOLEAN
    PROVE  Planned(plan, signer, seeded) \in Simple
<1> DEFINE write == Write(plan.secret, seeded)
           asked == Ask("create", plan.client, write, {"accepted", "exists"})
           i == Planned(plan, signer, seeded)
<1>1. plan \in Credentials
  BY EntryLists
<1>2. /\ plan.client \in ClientIds /\ plan.store \in Stores /\ plan.secret \in Hashes
      /\ signer \in ClientIds /\ SecretOf(signer) \in Hashes /\ NoHash \notin Hashes
  BY <1>1, SourceAssumption, SignersKnown DEF Credentials
<1>3. write \in PossibleWrites /\ write.hash = plan.secret
  BY <1>2, WritePossible
<1>4. "create" \in Operations /\ {"accepted", "exists"} \in SUBSET Answers
  BY DEF Operations, Answers
<1> HIDE DEF write
<1>5. /\ asked \in Orders /\ asked.operation = "create" /\ asked.client = plan.client
      /\ asked.write = write /\ asked.way = "route"
  BY <1>2, <1>3, <1>4, AskOrder
<1>6. asked.places = TargetList /\ asked.expect = {"accepted", "exists"}
  BY DEF Ask
<1>7. i = [asked EXCEPT !.store = plan.store, !.tries = Attempts,
                        !.by = signer, !.secret = SecretOf(signer)]
  BY DEF Planned, write
<1> HIDE DEF asked, i
<1>8. i \in Orders
  BY <1>2, <1>5, <1>7 DEF Orders
<1>9. /\ i.operation = "create" /\ i.client = plan.client /\ i.store = plan.store
      /\ i.write = write /\ i.way = "route" /\ i.places = TargetList
      /\ i.expect = {"accepted", "exists"}
  BY <1>5, <1>6, <1>7 DEF Orders
<1>10. Spares(i)
  <2>1. \A entry \in Entries : plan.client = entry.client /\ plan.store = entry.store =>
            plan.secret = entry.secret
    BY ConfigurationAssumption
  <2> QED
    BY <1>3, <1>9, <2>1 DEF Spares
<1>11. WritesSecrets(i) /\ RetriesEntries(i) /\ LocalFactory(i)
  BY <1>2, <1>3, <1>9 DEF WritesSecrets, RetriesEntries, LocalFactory, Amendments
<1>12. i \in Simple
  BY <1>8, <1>9, <1>10, <1>11 DEF Simple, Instructions, Amendments, Rotates
<1> QED
  BY <1>12 DEF i

(* syncFromConfig: the plans and the rows.                                   *)
LEMMA CreationsWellFormed == WellFormed(PlansSection) /\ WellFormed(SeedSection)
<1>1. HttpPlans \in Seq(Credentials) /\ MessagePlans \in Seq(Credentials)
      /\ SeedRows \in Seq(Credentials)
  BY ListMembers
<1>2. Plans \in Seq(Credentials)
  BY <1>1, ConcatProperties DEF Plans
<1>3. WellFormed(PlansSection)
  <2>1. ASSUME NEW n \in DOMAIN Plans
        PROVE  PlansSection[n] \in Simple
    <3>1. Plans[n] \in Entries
      BY DEF Entries, ToSet
    <3>2. PlansSection[n] = Planned(Plans[n], BootstrapId, FALSE)
      BY DEF PlansSection, ForAll
    <3> QED
      BY <3>1, <3>2, PlannedSimple
  <2>2. PlansSection = [n \in DOMAIN Plans |-> PlansSection[n]]
    BY DEF PlansSection, ForAll
  <2> QED
    BY <1>2, <2>1, <2>2, ForEach
<1>4. WellFormed(SeedSection)
  <2>1. ASSUME NEW n \in DOMAIN SeedRows
        PROVE  SeedSection[n] \in Simple
    <3>1. SeedRows[n] \in Entries
      BY DEF Entries, ToSet
    <3>2. SeedSection[n] = Planned(SeedRows[n], SyncId, TRUE)
      BY DEF SeedSection, ForAll
    <3> QED
      BY <3>1, <3>2, PlannedSimple
  <2>2. SeedSection = [n \in DOMAIN SeedRows |-> SeedSection[n]]
    BY DEF SeedSection, ForAll
  <2> QED
    BY <1>1, <2>1, <2>2, ForEach
<1> QED
  BY <1>3, <1>4

(* syncFromConfig: the rotation and the revert of every row.                *)
LEMMA RotateAndRevertForms ==
    ASSUME NEW row \in ToSet(SeedRows)
    PROVE  LET one == RotateAndRevert(row)[1]
               two == RotateAndRevert(row)[2]
           IN  /\ one \in Instructions /\ one.operation = "update"
               /\ one.client = row.client /\ one.store = row.store
               /\ two \in Simple /\ two.operation = "revert"
               /\ Undoes(two, row.client, row.store)
<1> DEFINE write == Write(RotatedSecret[row.secret], TRUE)
           first == Ask("update", row.client, write, Answers)
           second == Ask("revert", row.client, NoWrite, Answers)
           one == OfStore(first, row.store)
           two == OfStore(second, row.store)
<1>1. row \in Entries /\ row \in Credentials /\ IsRow(row.client, row.store)
  BY EntryLists DEF IsRow
<1>2. /\ row.client \in ClientIds /\ row.store \in Stores
      /\ RotatedSecret[row.secret] \in Hashes /\ NoHash \notin Hashes
  BY <1>1, SourceAssumption DEF Credentials
<1>3. write \in PossibleWrites /\ write.hash = RotatedSecret[row.secret]
  BY <1>2, WritePossible
<1>4. write.fromDbSeed = TRUE
  BY DEF Write
<1>5. NoWrite \in PossibleWrites
  BY WritePossible DEF NoWrite
<1> HIDE DEF write
<1>6. {"update", "revert"} \subseteq Operations
  BY DEF Operations
<1>7. /\ first \in Orders /\ first.operation = "update" /\ first.client = row.client
      /\ first.write = write /\ first.tries = 1 /\ first.way = "route"
  BY <1>2, <1>3, <1>6, AskOrder
<1>8. /\ second \in Orders /\ second.operation = "revert" /\ second.client = row.client
      /\ second.tries = 1 /\ second.way = "route"
  BY <1>2, <1>5, <1>6, AskOrder
<1>9. /\ second.places = TargetList /\ second.by = SyncId
      /\ second.secret = SecretOf(SyncId)
  BY DEF Ask
<1>10. RotateAndRevert(row)[1] = one /\ RotateAndRevert(row)[2] = two
  BY DEF RotateAndRevert, write
<1> HIDE DEF first, second
<1>11. /\ one \in Orders /\ one.operation = "update" /\ one.client = row.client
       /\ one.store = row.store /\ one.write = write /\ one.tries = 1 /\ one.way = "route"
  BY <1>2, <1>7 DEF Orders, OfStore
<1>12. /\ two \in Orders /\ two.operation = "revert" /\ two.client = row.client
       /\ two.store = row.store /\ two.tries = 1 /\ two.way = "route"
       /\ two.places = TargetList /\ two.by = SyncId /\ two.secret = SecretOf(SyncId)
  BY <1>2, <1>8, <1>9 DEF Orders, OfStore
<1> HIDE DEF one, two
<1>13. one \in Instructions
  <2>1. ASSUME NEW entry \in Entries, row.client = entry.client, row.store = entry.store
        PROVE  row.secret = entry.secret
    BY <1>1, <2>1, ConfigurationAssumption
  <2>2. Spares(one)
    BY <1>1, <1>3, <1>4, <1>11, <2>1 DEF Spares
  <2>3. WritesSecrets(one) /\ RetriesEntries(one) /\ LocalFactory(one)
    BY <1>2, <1>3, <1>11, PlacesDiffer DEF WritesSecrets, RetriesEntries, LocalFactory, Amendments
  <2> QED
    BY <1>11, <2>2, <2>3 DEF Instructions
<1>14. two \in Simple
  <2>1. WritesSecrets(two) /\ Spares(two) /\ ~Rotates(two)
    BY <1>12 DEF WritesSecrets, Spares, Rotates
  <2> QED
    BY <1>12, <2>1, OrderSimple DEF Amendments
<1>15. Undoes(two, row.client, row.store)
  BY <1>12 DEF Undoes
<1> QED
  BY <1>10, <1>11, <1>12, <1>13, <1>14, <1>15

(* They follow each other.                                                  *)
LEMMA RevertDemoWellFormed == WellFormed(RevertDemo)
<1>1. SeedRows \in Seq(Credentials) /\ Len(SeedRows) \in Nat
  BY ListMembers
<1>2. RevertDemo = [n \in 1..2 * Len(SeedRows) |->
                       RotateAndRevert(SeedRows[(n + 1) \div 2])[2 - (n % 2)]]
  BY DEF RevertDemo
<1>3. ASSUME NEW k \in 1..Len(SeedRows)
      PROVE  SeedRows[k] \in ToSet(SeedRows)
  BY <1>1 DEF ToSet
<1>4. ASSUME NEW n \in 1..2 * Len(SeedRows)
      PROVE  \E k \in 1..Len(SeedRows) :
                \/ /\ n = 2 * k - 1 /\ RevertDemo[n] = RotateAndRevert(SeedRows[k])[1]
                   /\ RevertDemo[n + 1] = RotateAndRevert(SeedRows[k])[2]
                \/ n = 2 * k /\ RevertDemo[n] = RotateAndRevert(SeedRows[k])[2]
  <2> DEFINE k == (n + 1) \div 2
  <2>1. k \in 1..Len(SeedRows) /\ n \in {2 * k - 1, 2 * k}
    BY <1>1
  <2>2. CASE n = 2 * k - 1
    <3>1. n % 2 = 1 /\ (n + 1) % 2 = 0 /\ ((n + 1) + 1) \div 2 = k
          /\ n + 1 \in 1..2 * Len(SeedRows)
      BY <1>1, <2>1, <2>2
    <3>2. 2 - (n % 2) = 1 /\ 2 - ((n + 1) % 2) = 2
      BY <3>1
    <3> HIDE DEF k
    <3>3. /\ RevertDemo[n] = RotateAndRevert(SeedRows[(n + 1) \div 2])[2 - (n % 2)]
          /\ RevertDemo[n + 1] =
                RotateAndRevert(SeedRows[((n + 1) + 1) \div 2])[2 - ((n + 1) % 2)]
      BY <1>2, <3>1
    <3> QED
      BY <2>1, <2>2, <3>1, <3>2, <3>3 DEF k
  <2>3. CASE n = 2 * k
    <3>1. 2 - (n % 2) = 2
      BY <1>1, <2>1, <2>3
    <3>2. RevertDemo[n] = RotateAndRevert(SeedRows[(n + 1) \div 2])[2 - (n % 2)]
      BY <1>2
    <3> QED
      BY <2>1, <2>3, <3>1, <3>2
  <2> QED
    BY <2>1, <2>2, <2>3
<1>5. \A n \in 1..2 * Len(SeedRows) : RevertDemo[n] \in Instructions
  BY <1>3, <1>4, RotateAndRevertForms DEF Simple
<1>6. RevertDemo \in Seq(Instructions) /\ Len(RevertDemo) = 2 * Len(SeedRows)
  BY <1>1, <1>2, <1>5
<1>7. Linked(RevertDemo)
  <2>1. \A n \in 1..2 * Len(SeedRows) : RevertDemo[n].operation \in {"update", "revert"}
    BY <1>3, <1>4, RotateAndRevertForms
  <2> QED
    BY <1>6, <2>1 DEF Linked, Amendments
<1>8. Reversed(RevertDemo)
  <2> SUFFICES ASSUME NEW n \in 1..2 * Len(SeedRows), Rotates(RevertDemo[n])
               PROVE  /\ n < 2 * Len(SeedRows)
                      /\ Undoes(RevertDemo[n + 1], RevertDemo[n].client, RevertDemo[n].store)
    BY <1>6 DEF Reversed
  <2>1. PICK k \in 1..Len(SeedRows) :
            \/ /\ n = 2 * k - 1 /\ RevertDemo[n] = RotateAndRevert(SeedRows[k])[1]
               /\ RevertDemo[n + 1] = RotateAndRevert(SeedRows[k])[2]
            \/ n = 2 * k /\ RevertDemo[n] = RotateAndRevert(SeedRows[k])[2]
    BY <1>4
  <2>2. CASE n = 2 * k
    BY <1>3, <2>1, <2>2, RotateAndRevertForms DEF Rotates
  <2>3. CASE n # 2 * k
    <3>1. n < 2 * Len(SeedRows)
      BY <1>1, <2>1, <2>3
    <3> QED
      BY <1>3, <2>1, <2>3, <3>1, RotateAndRevertForms
  <2> QED
    BY <2>2, <2>3
<1> QED
  BY <1>6, <1>7, <1>8 DEF WellFormed

(* Instructions about the clients of the torture suite.                     *)
LEMMA SuiteInstructions ==
    ASSUME NEW client \in SuiteIds, NEW secret \in SuiteSecrets, NEW expect \in SUBSET Answers
    PROVE  /\ \A operation \in {"create", "update"}, seeded \in BOOLEAN :
                  /\ Ask(operation, client, Write(secret, seeded), expect) \in Simple
                  /\ AskMessage(operation, client, Write(secret, seeded), expect) \in Simple
           /\ \A operation \in {"revert", "delete"} :
                  /\ Ask(operation, client, NoWrite, expect) \in Simple
                  /\ AskMessage(operation, client, NoWrite, expect) \in Simple
           /\ \A operation \in {"create", "set"}, seeded \in BOOLEAN \cup {Unset} :
                  /\ Local(operation, client, Write(secret, seeded), expect) \in Simple
                  /\ OfStore(Local(operation, client, Write(secret, seeded), expect), "message") \in Simple
           /\ \A operation \in {"revert", "delete"} :
                  Local(operation, client, NoWrite, expect) \in Simple
           /\ \A operation \in {"revert", "delete"}, is \in Statements :
                  Stating(Local(operation, client, NoWrite, expect), is) \in Simple
<1>1. client \in ClientIds /\ secret \in Hashes /\ secret # NoHash /\ "message" \in Stores
  BY SourceAssumption DEF Stores
<1>2. \A entry \in Entries : client # entry.client
  BY ConfigurationAssumption
<1>3. {"create", "update", "revert", "delete", "set"} \subseteq Operations \ Amendments
  BY DEF Operations, Amendments
<1>4. NoWrite \in PossibleWrites
  BY WritePossible DEF NoWrite
<1>5. \A seeded \in BOOLEAN \cup {Unset} :
         Write(secret, seeded) \in PossibleWrites /\ Write(secret, seeded).hash = secret
  BY <1>1, WritePossible
<1>6. ASSUME NEW operation \in {"create", "update"}, NEW seeded \in BOOLEAN
      PROVE  /\ Ask(operation, client, Write(secret, seeded), expect) \in Simple
             /\ AskMessage(operation, client, Write(secret, seeded), expect) \in Simple
  <2> DEFINE write == Write(secret, seeded)
  <2>1. write \in PossibleWrites /\ write.hash # NoHash
    BY <1>1, <1>5
  <2> HIDE DEF write
  <2>2. Ask(operation, client, write, expect) \in Simple
        /\ AskMessage(operation, client, write, expect) \in Simple
    BY <1>1, <1>2, <1>3, <2>1, AskSimple
  <2> QED
    BY <2>2 DEF write
<1>7. ASSUME NEW operation \in {"revert", "delete"}
      PROVE  /\ Ask(operation, client, NoWrite, expect) \in Simple
             /\ AskMessage(operation, client, NoWrite, expect) \in Simple
  BY <1>1, <1>2, <1>3, <1>4, AskSimple
<1>8. ASSUME NEW operation \in {"create", "set"}, NEW seeded \in BOOLEAN \cup {Unset}
      PROVE  /\ Local(operation, client, Write(secret, seeded), expect) \in Simple
             /\ OfStore(Local(operation, client, Write(secret, seeded), expect), "message") \in Simple
  <2> DEFINE write == Write(secret, seeded)
  <2>1. write \in PossibleWrites /\ write.hash # NoHash
    BY <1>1, <1>5
  <2> HIDE DEF write
  <2>2. Local(operation, client, write, expect) \in Simple
    BY <1>1, <1>3, <2>1, OwnSimple
  <2>3. OfStore(Local(operation, client, write, expect), "message") \in Simple
    BY <1>1, <1>3, <2>1, OwnStored
  <2> QED
    BY <2>2, <2>3 DEF write
<1>9. ASSUME NEW operation \in {"revert", "delete"}
      PROVE  Local(operation, client, NoWrite, expect) \in Simple
  BY <1>1, <1>3, <1>4, OwnSimple
<1>10. ASSUME NEW operation \in {"revert", "delete"}, NEW is \in Statements
       PROVE  Stating(Local(operation, client, NoWrite, expect), is) \in Simple
  BY <1>1, <1>3, <1>4, OwnStated
<1> QED
  BY <1>6, <1>7, <1>8, <1>9, <1>10

(* The revert suite.                                                        *)
LEMMA RevertSuiteWellFormed == WellFormed(RevertSuite)
<1>1. \A answer \in {"accepted", "reverted", "changed"} : {answer} \in SUBSET Answers
  BY DEF Answers
<1>2. /\ Ask("create", "r1", Write("r1-secret", TRUE), Answers) \in Simple
      /\ Ask("revert", "r1", NoWrite, {"accepted"}) \in Simple
      /\ Ask("revert", "absent", NoWrite, {"accepted"}) \in Simple
  BY <1>1, SuiteInstructions, ZenonT(40) DEF SuiteIds, SuiteSecrets
<1>3. /\ Local("set", "r3", Write("r3-original", TRUE), {"changed"}) \in Simple
      /\ Local("set", "r3", Write("r3-rotated", TRUE), {"changed"}) \in Simple
      /\ Local("revert", "r3", NoWrite, {"accepted"}) \in Simple
  BY <1>1, SuiteInstructions, ZenonT(40) DEF SuiteIds, SuiteSecrets
<1>4. Stating(Local("revert", "r3", NoWrite, {"reverted"}), [hash |-> "r3-original"])
      \in Simple
  <2>1. [hash |-> "r3-original"] \in Statements
    BY SourceAssumption DEF Statements, SuiteSecrets
  <2> QED
    BY <1>1, <2>1, SuiteInstructions DEF SuiteIds, SuiteSecrets
<1>5. /\ AskMessage("create", "r4", Write("r4-original", TRUE), Answers) \in Simple
      /\ AskMessage("update", "r4", Write("r4-rotated", TRUE), Answers) \in Simple
      /\ AskMessage("revert", "r4", NoWrite, {"reverted"}) \in Simple
  BY <1>1, SuiteInstructions, ZenonT(40) DEF SuiteIds, SuiteSecrets
<1>6. /\ Ask("create", "r5", Write("r5-round0", TRUE), Answers) \in Simple
      /\ Ask("update", "r5", Write("r5-round1", TRUE), Answers) \in Simple
      /\ Ask("update", "r5", Write("r5-round2", TRUE), Answers) \in Simple
      /\ Ask("revert", "r5", NoWrite, {"reverted"}) \in Simple
      /\ Ask("revert", "r5", NoWrite, {"accepted"}) \in Simple
  BY <1>1, SuiteInstructions, ZenonT(40) DEF SuiteIds, SuiteSecrets
<1> DEFINE a == Ask("create", "r1", Write("r1-secret", TRUE), Answers)
           b == Ask("revert", "r1", NoWrite, {"accepted"})
           c == Ask("revert", "absent", NoWrite, {"accepted"})
           d == Local("set", "r3", Write("r3-original", TRUE), {"changed"})
           e == Local("set", "r3", Write("r3-rotated", TRUE), {"changed"})
           f == Stating(Local("revert", "r3", NoWrite, {"reverted"}), [hash |-> "r3-original"])
           g == Local("revert", "r3", NoWrite, {"accepted"})
           h == AskMessage("create", "r4", Write("r4-original", TRUE), Answers)
           i == AskMessage("update", "r4", Write("r4-rotated", TRUE), Answers)
           j == AskMessage("revert", "r4", NoWrite, {"reverted"})
           k == Ask("create", "r5", Write("r5-round0", TRUE), Answers)
           l == Ask("update", "r5", Write("r5-round1", TRUE), Answers)
           m == Ask("update", "r5", Write("r5-round2", TRUE), Answers)
           n == Ask("revert", "r5", NoWrite, {"reverted"})
           o == Ask("revert", "r5", NoWrite, {"accepted"})
<1>7. RevertSuite = <<a, b, c, d, e, f, g, h, i, j, k, l, m, n, o>>
  BY ZenonT(30) DEF RevertSuite
<1>8. {a, b, c, d, e, f, g, h} \subseteq Simple /\ {i, j, k, l, m, n, o} \subseteq Simple
  BY <1>2, <1>3, <1>4, <1>5, <1>6, ZenonT(30)
<1> HIDE DEF a, b, c, d, e, f, g, h, i, j, k, l, m, n, o
<1>9. RevertSuite \in Seq(Simple)
  BY <1>7, <1>8
<1> QED
  BY <1>9, SimpleWellFormed

(* The CRUD suite.                                                          *)
LEMMA CrudSuiteWellFormed == WellFormed(CrudSuite)
<1>1. /\ \A answer \in {"accepted", "exists", "missing"} : {answer} \in SUBSET Answers
      /\ Refusals \in SUBSET Answers
  BY DEF Answers, Refusals
<1> DEFINE a == Ask("create", "c", Write("c-secret", FALSE), Answers)
           b == Ask("create", "c", Write("c-secret", FALSE), {"exists"})
           c == Ask("update", "absent", Write("c-secret", FALSE), {"missing"})
           d == Ask("delete", "c", NoWrite, {"accepted"})
           e == Ask("delete", "absent", NoWrite, Refusals)
           f == Ask("health", BootstrapId, NoWrite, {"accepted"})
<1>2. a \in Simple /\ b \in Simple /\ c \in Simple
  BY <1>1, SuiteInstructions, ZenonT(40) DEF SuiteIds, SuiteSecrets
<1>3. {d, e} \subseteq Simple
  BY <1>1, SuiteInstructions DEF SuiteIds, SuiteSecrets
<1>4. f \in Simple
  <2>1. "health" \in Operations \ Amendments /\ BootstrapId \in ClientIds
    BY SourceAssumption DEF Operations, Amendments
  <2>2. NoWrite \in PossibleWrites
    BY WritePossible DEF NoWrite
  <2> QED
    BY <1>1, <2>1, <2>2, AskSimple
<1>5. CrudSuite = <<a, b, c, d, e, f>>
  BY DEF CrudSuite
<1> HIDE DEF a, b, c, d, e, f
<1>6. CrudSuite \in Seq(Simple)
  BY <1>2, <1>3, <1>4, <1>5
<1> QED
  BY <1>6, SimpleWellFormed

(* An order for the source that may amend.                                  *)
LEMMA SourceInstruction ==
    ASSUME NEW i \in Orders, i.tries = 1, i.way = "factory", i.places = << Source >>,
           i.operation \in {"ensure", "create", "update", "set", "regenerate"} =>
               i.write.hash # NoHash
    PROVE  i \in Instructions
<1>1. WritesSecrets(i) /\ Spares(i) /\ RetriesEntries(i) /\ LocalFactory(i)
  BY PlacesDiffer DEF WritesSecrets, Spares, RetriesEntries, LocalFactory
<1> QED
  BY <1>1 DEF Instructions

(* The management suite: each change comes after a creation.                *)
LEMMA ManagementSuiteWellFormed == WellFormed(ManagementSuite)
<1> DEFINE w == Write("m-original", Unset)
           v == Write("generated", Unset)
           x == [NoWrite EXCEPT !.allowedIps = {"other"}]
           a == Local("create", "m", w, Answers)
           b == Local("regenerate", "m", v, {"changed"})
           c == OfStore(a, "message")
           d == OfStore(b, "message")
           e == Local("allow", "m", x, Answers)
           f == Stating(e, [allowedIps |-> {"other"}])
           g == Local("delete", "m", NoWrite, Answers)
           h == Stating(g, NoRecord)
<1>1. /\ {"create", "regenerate", "allow", "delete"} \subseteq Operations
      /\ "m" \in ClientIds /\ {"changed"} \in SUBSET Answers /\ "message" \in Stores
      /\ {"m-original", "generated"} \subseteq Hashes /\ NoHash \notin Hashes
      /\ "other" \in Addresses
  BY SourceAssumption DEF Operations, Answers, SuiteIds, SuiteSecrets, Stores
<1>2. /\ w \in PossibleWrites /\ w.hash # NoHash
      /\ v \in PossibleWrites /\ v.hash # NoHash
      /\ NoWrite \in PossibleWrites
  <2>1. w \in PossibleWrites /\ w.hash = "m-original"
    BY <1>1, WritePossible
  <2>2. v \in PossibleWrites /\ v.hash = "generated"
    BY <1>1, WritePossible
  <2>3. NoWrite \in PossibleWrites
    BY WritePossible DEF NoWrite
  <2> QED
    BY <1>1, <2>1, <2>2, <2>3
<1>3. x \in PossibleWrites
  BY <1>1, <1>2 DEF PossibleWrites
<1>4. /\ [allowedIps |-> {"other"}] \in Statements /\ NoRecord \in Statements
  BY <1>1 DEF Statements
<1>5. ManagementSuite = <<a, b, c, d, a, f, a, h>>
  BY DEF ManagementSuite
<1> HIDE DEF w, v, x
<1>6. \A i \in {a, b, e, g} :
         /\ i \in Orders /\ i.tries = 1 /\ i.way = "factory" /\ i.places = << Source >>
         /\ i.client = "m" /\ i.store = "http"
  <2>1. \A i \in {a} :
         /\ i \in Orders /\ i.tries = 1 /\ i.way = "factory" /\ i.places = << Source >>
         /\ i.client = "m" /\ i.store = "http"
    BY <1>1, <1>2, <1>3, LocalOrder
  <2>2. \A i \in {b} :
         /\ i \in Orders /\ i.tries = 1 /\ i.way = "factory" /\ i.places = << Source >>
         /\ i.client = "m" /\ i.store = "http"
    BY <1>1, <1>2, <1>3, LocalOrder
  <2>3. \A i \in {e} :
         /\ i \in Orders /\ i.tries = 1 /\ i.way = "factory" /\ i.places = << Source >>
         /\ i.client = "m" /\ i.store = "http"
    BY <1>1, <1>2, <1>3, LocalOrder
  <2>4. \A i \in {g} :
         /\ i \in Orders /\ i.tries = 1 /\ i.way = "factory" /\ i.places = << Source >>
         /\ i.client = "m" /\ i.store = "http"
    BY <1>1, <1>2, <1>3, LocalOrder
  <2> QED
    BY <2>1, <2>2, <2>3, <2>4
<1>7. /\ a.operation = "create" /\ a.write = w /\ b.operation = "regenerate" /\ b.write = v
      /\ e.operation = "allow" /\ g.operation = "delete"
  <2>1. a.operation = "create" /\ a.write = w
    BY <1>1, <1>2, <1>3, LocalOrder
  <2>2. b.operation = "regenerate" /\ b.write = v
    BY <1>1, <1>2, <1>3, LocalOrder
  <2>3. e.operation = "allow"
    BY <1>1, <1>2, <1>3, LocalOrder
  <2>4. g.operation = "delete"
    BY <1>1, <1>2, <1>3, LocalOrder
  <2> QED
    BY <2>1, <2>2, <2>3, <2>4
<1> HIDE DEF a, b, e, g
<1>8. /\ \A i \in {c, d, f, h} :
            /\ i \in Orders /\ i.tries = 1 /\ i.way = "factory" /\ i.places = << Source >>
            /\ i.client = "m"
      /\ c.store = "message" /\ d.store = "message" /\ f.store = "http"
      /\ c.operation = "create" /\ c.write = w /\ d.operation = "regenerate" /\ d.write = v
      /\ f.operation = "allow" /\ h.operation = "delete"
  <2>1. /\ c \in Orders /\ c.tries = 1 /\ c.way = "factory" /\ c.places = << Source >>
        /\ c.client = "m" /\ c.store = "message" /\ c.operation = "create" /\ c.write = w
    BY <1>1, <1>6, <1>7 DEF OfStore, Orders
  <2>2. /\ d \in Orders /\ d.tries = 1 /\ d.way = "factory" /\ d.places = << Source >>
        /\ d.client = "m" /\ d.store = "message" /\ d.operation = "regenerate" /\ d.write = v
    BY <1>1, <1>6, <1>7 DEF OfStore, Orders
  <2>3. /\ f \in Orders /\ f.tries = 1 /\ f.way = "factory" /\ f.places = << Source >>
        /\ f.client = "m" /\ f.store = "http" /\ f.operation = "allow"
    BY <1>4, <1>6, <1>7 DEF Stating, Orders
  <2>4. /\ h \in Orders /\ h.tries = 1 /\ h.way = "factory" /\ h.places = << Source >>
        /\ h.client = "m" /\ h.operation = "delete"
    BY <1>4, <1>6, <1>7 DEF Stating, Orders
  <2> HIDE DEF c, d, f, h
  <2> QED
    BY <2>1, <2>2, <2>3, <2>4
<1> HIDE DEF c, d, f, h
<1>9. {a, b, c, d, f, h} \subseteq Instructions
  BY <1>2, <1>6, <1>7, <1>8, SourceInstruction
<1> DEFINE s == <<a, b, c, d, a, f, a, h>>
<1>10. /\ s \in Seq(Instructions) /\ Len(s) = 8
       /\ s[1] = a /\ s[2] = b /\ s[3] = c /\ s[4] = d
       /\ s[5] = a /\ s[6] = f /\ s[7] = a /\ s[8] = h
  BY <1>9
<1> HIDE DEF s
<1>11. /\ Prepares(s[1], s[2]) /\ Prepares(s[3], s[4]) /\ Prepares(s[5], s[6])
       /\ \A n \in {1, 3, 5, 7, 8} : s[n].operation \notin Amendments
  BY <1>6, <1>7, <1>8, <1>10, SMTT(40) DEF Prepares, Amendments
<1>12. Linked(s)
  <2> SUFFICES ASSUME NEW n \in 1..8, s[n].operation \in Amendments
               PROVE  n > 1 /\ Prepares(s[n - 1], s[n])
    BY <1>10 DEF Linked
  <2>1. n \in {2, 4, 6}
    BY <1>11
  <2> QED
    BY <1>11, <2>1
<1>13. Reversed(s)
  <2>1. \A i \in {a, b, c, d, f, h} : i.places # TargetList
    BY <1>6, <1>8, PlacesDiffer
  <2>2. \A n \in 1..8 : s[n] \in {a, b, c, d, f, h}
    BY <1>10
  <2> QED
    BY <1>10, <2>1, <2>2 DEF Reversed, Rotates
<1> QED
  BY <1>5, <1>10, <1>12, <1>13 DEF WellFormed, s

(* The preservation suite.                                                  *)
LEMMA PreservationSuiteWellFormed == WellFormed(PreservationSuite)
<1> DEFINE OfF(secret, seeded) ==
               [hash |-> secret, expiresAt |-> 2100, allowedIps |-> {"other"},
                fromDbSeed |-> seeded, purpose |-> Unset]
           is == [fromDbSeed |-> TRUE, expiresAt |-> 2100, allowedIps |-> {"other"}]
           w == OfF("f-original", Unset)
           v == OfF("f-original", TRUE)
           x == OfF("f-rotated", TRUE)
           a == Local("create", "f", w, Answers)
           b == Local("set", "f", v, Answers)
           c == Local("set", "f", x, Answers)
           d == Stating(Local("revert", "f", NoWrite, {"reverted"}), is)
<1>1. PreservationSuite = <<a, b, c, d>>
  BY DEF PreservationSuite
<1>2. /\ "f" \in ClientIds /\ {"f-original", "f-rotated"} \subseteq Hashes /\ NoHash \notin Hashes
      /\ 2100 \in Instants /\ "other" \in Addresses /\ {"reverted"} \in SUBSET Answers
      /\ {"create", "set", "revert"} \subseteq Operations \ Amendments
  BY SourceAssumption DEF SuiteIds, SuiteSecrets, Answers, Operations, Amendments
<1>3. \A write \in {w, v, x} : write \in PossibleWrites /\ write.hash # NoHash
  <2>1. \A secret \in Hashes, seeded \in BOOLEAN \cup {Unset} :
           OfF(secret, seeded) \in PossibleWrites /\ OfF(secret, seeded).hash = secret
    BY <1>2 DEF PossibleWrites
  <2>2. /\ Unset \in BOOLEAN \cup {Unset} /\ TRUE \in BOOLEAN \cup {Unset}
        /\ "f-original" \in Hashes /\ "f-rotated" \in Hashes
    BY <1>2
  <2> HIDE DEF OfF
  <2>3. w \in PossibleWrites /\ w.hash = "f-original"
    BY <2>1, <2>2, Zenon
  <2>4. v \in PossibleWrites /\ v.hash = "f-original"
    BY <2>1, <2>2, Zenon
  <2>5. x \in PossibleWrites /\ x.hash = "f-rotated"
    BY <2>1, <2>2, Zenon
  <2> HIDE DEF w, v, x
  <2> QED
    BY <1>2, <2>2, <2>3, <2>4, <2>5
<1>4. is \in Statements
  BY <1>2 DEF Statements
<1>5. NoWrite \in PossibleWrites
  BY WritePossible DEF NoWrite
<1> HIDE DEF w, v, x, is
<1>6. a \in Simple
  BY <1>2, <1>3, OwnSimple
<1>7. b \in Simple /\ c \in Simple
  BY <1>2, <1>3, OwnSimple
<1>8. d \in Simple
  BY <1>2, <1>4, <1>5, OwnStated
<1> HIDE DEF a, b, c, d
<1>9. <<a, b, c, d>> \in Seq(Simple)
  BY <1>6, <1>7, <1>8
<1> QED
  BY <1>1, <1>9, SimpleWellFormed

(* A request as a client.                                                   *)
LEMMA AsSimple ==
    ASSUME NEW client \in ClientIds, SecretOf(client) \in Hashes, NEW expect \in SUBSET Answers
    PROVE  As(client, expect) \in Simple
<1> DEFINE asked == Ask("fetch", client, NoWrite, expect)
           i == As(client, expect)
<1>1. "fetch" \in Operations /\ "fetch" \notin Amendments
  BY DEF Operations, Amendments
<1>2. NoWrite \in PossibleWrites
  BY WritePossible DEF NoWrite
<1>3. asked \in Orders /\ asked.operation = "fetch" /\ asked.tries = 1 /\ asked.way = "route"
  BY <1>1, <1>2, AskOrder
<1>4. i = [asked EXCEPT !.by = client, !.secret = SecretOf(client)]
  BY DEF As
<1> HIDE DEF asked, i
<1>5. i \in Orders /\ i.operation = "fetch" /\ i.tries = 1 /\ i.way = "route"
  BY <1>3, <1>4 DEF Orders
<1>6. WritesSecrets(i) /\ Spares(i) /\ ~Rotates(i)
  BY <1>5 DEF WritesSecrets, Spares, Rotates
<1>7. i \in Simple
  BY <1>1, <1>5, <1>6, OrderSimple
<1> QED
  BY <1>7 DEF i

(* The requests and messages as every client.                               *)
LEMMA SweepsWellFormed == WellFormed(HttpSweep) /\ WellFormed(MessageSweep)
<1> DEFINE a == As(SyncId, Answers)
           b == As(SourceOnlyId, {"refused"})
           https == ForAll(HttpPlans, LAMBDA plan : As(plan.client, {"accepted"}))
<1>1. /\ {"refused"} \in SUBSET Answers /\ {"accepted"} \in SUBSET Answers
      /\ {SyncId, SourceOnlyId} \subseteq ClientIds
  BY SourceAssumption DEF Answers
<1>2. WellFormed(<<a, b>>)
  <2>1. a \in Simple
    BY <1>1, SignersKnown, AsSimple
  <2>2. b \in Simple
    BY <1>1, SignersKnown, AsSimple
  <2> HIDE DEF a, b
  <2>3. <<a, b>> \in Seq(Simple)
    BY <2>1, <2>2
  <2> QED
    BY <2>3, SimpleWellFormed
<1>3. WellFormed(https)
  <2>1. ASSUME NEW n \in DOMAIN HttpPlans
        PROVE  https[n] \in Simple
    <3> DEFINE client == HttpPlans[n].client
    <3>1. HttpPlans[n] \in ToSet(HttpPlans) /\ client \in ClientIds
      BY ListMembers DEF Credentials
    <3>2. SecretOf(client) \in Hashes
      BY <3>1, SignersKnown
    <3>3. https[n] = As(client, {"accepted"})
      BY DEF ForAll
    <3> HIDE DEF client, https
    <3> QED
      BY <1>1, <3>1, <3>2, <3>3, AsSimple
  <2>2. https = [n \in DOMAIN HttpPlans |-> https[n]]
    BY DEF ForAll
  <2> HIDE DEF https
  <2> QED
    BY <2>1, <2>2, ListMembers, ForEach
<1>4. WellFormed(MessageSweep)
  <2>1. ASSUME NEW n \in DOMAIN MessagePlans
        PROVE  MessageSweep[n] \in Simple
    <3> DEFINE client == MessagePlans[n].client
    <3>1. client \in ClientIds
      BY ListMembers DEF Credentials
    <3>2. "verify" \in Operations \ Amendments
      BY DEF Operations, Amendments
    <3>3. NoWrite \in PossibleWrites
      BY WritePossible DEF NoWrite
    <3>4. MessageSweep[n] = AskMessage("verify", client, NoWrite, {"accepted"})
      BY DEF MessageSweep, ForAll
    <3> HIDE DEF client
    <3> QED
      BY <1>1, <3>1, <3>2, <3>3, <3>4, AskSimple
  <2>2. MessageSweep = [n \in DOMAIN MessagePlans |-> MessageSweep[n]]
    BY DEF MessageSweep, ForAll
  <2> QED
    BY <2>1, <2>2, ListMembers, ForEach
<1>5. HttpSweep = <<a, b>> \o https
  BY DEF HttpSweep
<1> HIDE DEF a, b, https
<1> QED
  BY <1>2, <1>3, <1>4, <1>5, JoinWellFormed

(* The demonstration.                                                       *)
LEMMA DemonstrationWellFormed == WellFormed(Demonstration)
<1> DEFINE Secret == "demo-secret"
           Restricted == [Write(Secret, FALSE) EXCEPT
                             !.purpose = "propagation-only", !.allowedIps = {}]
           Unsigned(operation, client, write, expect) ==
               OnDemo(Ask(operation, client, write, expect), NoHash)
           Signed(operation, expect) ==
               OnDemo(Ask(operation, BootstrapId, NoWrite, expect), Secret)
           local == OfStore(Local("create", BootstrapId, Restricted, Answers), "message")
           sign == OfStore(Local("sign", BootstrapId, NoWrite, {"refused"}), "message")
           a == Unsigned("health", BootstrapId, NoWrite, {"accepted"})
           b == Unsigned("create", SourceOnlyId, Write(Secret, FALSE), {"refused"})
           c == Unsigned("update", BootstrapId, NoWrite, {"refused"})
           d == Unsigned("revert", BootstrapId, NoWrite, {"refused"})
           e == Unsigned("delete", BootstrapId, NoWrite, {"refused"})
           f == Unsigned("create", BootstrapId, Restricted, {"accepted"})
           g == OnDemo(local, Secret)
           h == Signed("health", {"accepted"})
           i == Signed("fetch", {"refused"})
           j == OnDemo(sign, Secret)
<1>1. Demonstration = <<a, b, c, d, e, f, g, h, i, h, j>>
  BY ZenonT(30) DEF Demonstration
<1>2. /\ {BootstrapId, SourceOnlyId} \subseteq ClientIds
      /\ Secret \in Hashes /\ NoHash \notin Hashes /\ "message" \in Stores
      /\ {"refused"} \in SUBSET Answers /\ {"accepted"} \in SUBSET Answers
      /\ {"health", "create", "update", "revert", "delete", "fetch", "sign"}
            \subseteq Operations \ Amendments
  BY SourceAssumption DEF SuiteSecrets, Stores, Answers, Operations, Amendments
<1>3. NoWrite \in PossibleWrites
  BY WritePossible DEF NoWrite
<1>4. Write(Secret, FALSE) \in PossibleWrites /\ Write(Secret, FALSE).hash = Secret
  BY <1>2, WritePossible
<1>5. Restricted \in PossibleWrites /\ Restricted.hash = Secret
  BY <1>4 DEF PossibleWrites, Purposes
<1> HIDE DEF Secret, Restricted
<1>6. ASSUME NEW operation \in Operations \ Amendments, NEW client \in ClientIds,
             NEW write \in PossibleWrites, NEW expect \in SUBSET Answers,
             \/ operation \notin {"ensure", "create", "set"}
             \/ write.hash # NoHash
      PROVE  Unsigned(operation, client, write, expect) \in Simple
  <2> DEFINE asked == Ask(operation, client, write, expect)
  <2>1. /\ asked \in Orders /\ asked.operation = operation /\ asked.write = write
        /\ asked.tries = 1 /\ asked.way = "route"
    BY AskOrder
  <2> HIDE DEF asked
  <2>2. OnDemo(asked, NoHash) \in Simple
    BY <1>6, <2>1, DemoSimple
  <2> QED
    BY <2>2 DEF asked
<1>7. ASSUME NEW operation \in {"health", "fetch"}, NEW expect \in SUBSET Answers
      PROVE  Signed(operation, expect) \in Simple
  <2> DEFINE asked == Ask(operation, BootstrapId, NoWrite, expect)
  <2>1. asked \in Orders /\ asked.operation = operation /\ asked.tries = 1
    BY <1>2, <1>3, AskOrder
  <2> HIDE DEF asked
  <2>2. OnDemo(asked, Secret) \in Simple
    BY <1>2, <2>1, DemoSimple
  <2> QED
    BY <2>2 DEF asked
<1>8. a \in Simple /\ c \in Simple /\ d \in Simple /\ e \in Simple
  <2> HIDE DEF Unsigned
  <2> QED
    BY <1>2, <1>3, <1>6
<1>9. b \in Simple /\ f \in Simple
  <2> HIDE DEF Unsigned
  <2> QED
    BY <1>2, <1>4, <1>5, <1>6
<1>10. h \in Simple /\ i \in Simple
  <2> HIDE DEF Signed
  <2> QED
    BY <1>2, <1>7
<1>11. g \in Simple
  <2> DEFINE own == Local("create", BootstrapId, Restricted, Answers)
  <2>1. own \in Orders /\ own.operation = "create" /\ own.write = Restricted /\ own.tries = 1
    BY <1>2, <1>5, LocalOrder
  <2> HIDE DEF own
  <2>2. /\ OfStore(own, "message") \in Orders /\ OfStore(own, "message").operation = "create"
        /\ OfStore(own, "message").write = Restricted /\ OfStore(own, "message").tries = 1
    BY <1>2, <2>1 DEF OfStore, Orders
  <2>3. OnDemo(OfStore(own, "message"), Secret) \in Simple
    BY <1>2, <1>5, <2>2, DemoSimple
  <2> QED
    BY <2>3 DEF own
<1>12. j \in Simple
  <2> DEFINE own == Local("sign", BootstrapId, NoWrite, {"refused"})
  <2>1. own \in Orders /\ own.operation = "sign" /\ own.tries = 1
    BY <1>2, <1>3, LocalOrder
  <2> HIDE DEF own
  <2>2. /\ OfStore(own, "message") \in Orders /\ OfStore(own, "message").operation = "sign"
        /\ OfStore(own, "message").tries = 1
    BY <1>2, <2>1 DEF OfStore, Orders
  <2>3. OnDemo(OfStore(own, "message"), Secret) \in Simple
    BY <1>2, <2>2, DemoSimple
  <2> QED
    BY <2>3 DEF own
<1> HIDE DEF a, b, c, d, e, f, g, h, i, j
<1>13. <<a, b, c, d, e, f, g, h, i, h, j>> \in Seq(Simple)
  BY <1>8, <1>9, <1>10, <1>11, <1>12
<1> QED
  BY <1>1, <1>13, SimpleWellFormed

(* The whole program.                                                       *)
LEMMA ProgramWellFormed == WellFormed(Program)
<1>1. WellFormed(LocalCredentials \o PlansSection \o SeedSection \o RevertDemo)
  BY LocalCredentialsWellFormed, CreationsWellFormed, RevertDemoWellFormed, JoinWellFormed
<1>2. WellFormed(LocalCredentials \o PlansSection \o SeedSection \o RevertDemo
                 \o RevertSuite \o CrudSuite \o ManagementSuite)
  BY <1>1, RevertSuiteWellFormed, CrudSuiteWellFormed, ManagementSuiteWellFormed,
     JoinWellFormed
<1>3. WellFormed(LocalCredentials \o PlansSection \o SeedSection \o RevertDemo
                 \o RevertSuite \o CrudSuite \o ManagementSuite \o PreservationSuite
                 \o HttpSweep \o MessageSweep)
  BY <1>2, PreservationSuiteWellFormed, SweepsWellFormed, JoinWellFormed
<1> QED
  BY <1>3, DemonstrationWellFormed, JoinWellFormed DEF Program

-----------------------------------------------------------------------------
(* Type correctness.                                                        *)
StoresTyped ==
    /\ record \in [Keys -> Records \cup {NoRecord}]
    /\ undo \in [Keys -> Hashes \cup {NoHash}]

(* A write that has a secret makes a record, of a stored one or not.        *)
LEMMA RecordsMade ==
    ASSUME NEW write \in PossibleWrites, write.hash # NoHash,
           NEW r \in Records \cup {NoRecord}
    PROVE  /\ Created(write) \in Records /\ Created(write).hash = write.hash
           /\ Rotated(r, write) \in Records /\ Rotated(r, write).hash = write.hash
<1>1. /\ write.hash \in Hashes /\ write.expiresAt \in Instants \cup {Never, Unset}
      /\ write.allowedIps \in (SUBSET Addresses) \cup {Unset}
      /\ write.fromDbSeed \in BOOLEAN \cup {Unset} /\ write.purpose \in Purposes \cup {Unset}
  BY DEF PossibleWrites
<1>2. /\ {} \in SUBSET Addresses /\ FALSE \in BOOLEAN /\ "any" \in Purposes
  BY DEF Purposes
<1>3. Created(write) \in Records /\ Created(write).hash = write.hash
  BY <1>1, <1>2 DEF Created, OrElse, Records
<1>4. CASE r = NoRecord
  BY <1>3, <1>4 DEF Rotated
<1>5. CASE r # NoRecord
  <2>1. /\ r.expiresAt \in Instants \cup {Never} /\ r.allowedIps \in SUBSET Addresses
        /\ r.fromDbSeed \in BOOLEAN /\ r.purpose \in Purposes
    BY <1>5 DEF Records
  <2>2. Rotated(r, write) \in Records /\ Rotated(r, write).hash = write.hash
    BY <1>1, <1>5, <2>1 DEF Rotated, OrElse, Records
  <2> QED
    BY <1>3, <2>2
<1> QED
  BY <1>3, <1>4, <1>5

(* So does an amendment of a stored record, and its reversal.               *)
LEMMA RecordsAmended ==
    ASSUME NEW write \in PossibleWrites, NEW r \in Records
    PROVE  /\ WithAllowedIps(r, write) \in Records
           /\ \A hash \in Hashes : Reverted(r, hash) \in Records /\ Reverted(r, hash).hash = hash
           /\ write.hash # NoHash =>
                 Regenerated(r, [write EXCEPT !.allowedIps = Unset]) \in Records
<1>1. WithAllowedIps(r, write) \in Records
  BY DEF WithAllowedIps, OrElse, Records, PossibleWrites
<1>2. ASSUME NEW hash \in Hashes
      PROVE  Reverted(r, hash) \in Records /\ Reverted(r, hash).hash = hash
  BY DEF Reverted, Records
<1>3. ASSUME write.hash # NoHash
      PROVE  Regenerated(r, [write EXCEPT !.allowedIps = Unset]) \in Records
  <2> DEFINE kept == [write EXCEPT !.allowedIps = Unset]
  <2>1. kept \in PossibleWrites /\ kept.hash # NoHash
    BY <1>3 DEF PossibleWrites
  <2> HIDE DEF kept
  <2>2. Rotated(r, kept) \in Records
    BY <2>1, RecordsMade
  <2>3. Regenerated(r, kept) \in Records
    BY <2>2 DEF Regenerated, Records
  <2> QED
    BY <2>3 DEF kept
<1> QED
  BY <1>1, <1>2, <1>3

(* The key of an instruction.                                               *)
LEMMA KeysTyped ==
    ASSUME NEW p \in Places, NEW i \in Instructions
    PROVE  KeyOf(p, i) \in Keys
<1>1. i.store \in Stores /\ i.client \in ClientIds /\ "http" \in Stores
  BY DEF Instructions, Orders, Stores
<1> QED
  BY <1>1 DEF KeyOf, Keys

(* An update without a secret is refused: no stored hash is NoHash.         *)
LEMMA UnsignedUpdatesRefused ==
    ASSUME StoresTyped, NEW p \in Places, NEW i \in Instructions,
           i.operation = "update", i.way = "route", i.secret = NoHash
    PROVE  RouteAnswer(p, i) \in Refusals
<1>1. ~Verified(p, i)
  <2> SUFFICES ASSUME i.by \in Listed(p) PROVE record[<<p, "http", i.by>>].hash # i.secret
    BY DEF Verified
  <2>1. i.by \in ClientIds /\ record[<<p, "http", i.by>>] # NoRecord
    BY DEF Listed, Stored
  <2>2. <<p, "http", i.by>> \in Keys
    BY <2>1 DEF Keys, Stores
  <2>3. record[<<p, "http", i.by>>].hash \in Hashes
    BY <2>1, <2>2 DEF StoresTyped, Records
  <2> QED
    BY <2>3, SourceAssumption
<1>2. ~Admitted(p, i)
  BY <1>1 DEF Admitted
<1> QED
  BY <1>2 DEF RouteAnswer, Refusals

(* An instruction that acts has a secret for what it writes.                *)
Acts(p, i) == i.way = "factory" \/ RouteAnswer(p, i) \notin Refusals

(* What each operation leaves.                                              *)
LEMMA NewRecordOf ==
    ASSUME NEW k, NEW i
    PROVE  /\ i.operation \in {"update", "set", "ensure"} =>
                  NewRecord(k, i) = Rotated(record[k], i.write)
           /\ i.operation = "create" =>
                  NewRecord(k, i) = IF i.way = "route" THEN Rotated(record[k], i.write)
                                                      ELSE Created(i.write)
           /\ i.operation = "regenerate" =>
                  NewRecord(k, i) = Regenerated(record[k], [i.write EXCEPT !.allowedIps = Unset])
           /\ i.operation = "allow" => NewRecord(k, i) = WithAllowedIps(record[k], i.write)
           /\ i.operation = "delete" => NewRecord(k, i) = NoRecord
           /\ i.operation = "revert" =>
                  NewRecord(k, i) = IF Reverts(k) THEN Reverted(record[k], undo[k]) ELSE record[k]
           /\ i.operation \notin {"update", "set", "ensure", "create", "regenerate", "allow",
                                 "delete", "revert"} => NewRecord(k, i) = record[k]
<1> DEFINE op == i.operation
           rotated == Rotated(record[k], i.write)
           created == Created(i.write)
           regenerated == Regenerated(record[k], [i.write EXCEPT !.allowedIps = Unset])
           allowed == WithAllowedIps(record[k], i.write)
           reverted == Reverted(record[k], undo[k])
<1>1. NewRecord(k, i) =
          IF op \in {"update", "set", "ensure"} THEN rotated
          ELSE IF op = "create" THEN IF i.way = "route" THEN rotated ELSE created
          ELSE IF op = "regenerate" THEN regenerated
          ELSE IF op = "allow" THEN allowed
          ELSE IF op = "delete" THEN NoRecord
          ELSE IF op = "revert" /\ Reverts(k) THEN reverted
          ELSE record[k]
  BY DEF NewRecord
<1> DEFINE new == NewRecord(k, i)
<1> HIDE DEF op, rotated, created, regenerated, allowed, reverted, new
<1>2. new =
          IF op \in {"update", "set", "ensure"} THEN rotated
          ELSE IF op = "create" THEN IF i.way = "route" THEN rotated ELSE created
          ELSE IF op = "regenerate" THEN regenerated
          ELSE IF op = "allow" THEN allowed
          ELSE IF op = "delete" THEN NoRecord
          ELSE IF op = "revert" /\ Reverts(k) THEN reverted
          ELSE record[k]
  BY <1>1 DEF new
<1>3. /\ op \in {"update", "set", "ensure"} => new = rotated
      /\ op = "create" => new = IF i.way = "route" THEN rotated ELSE created
      /\ op = "regenerate" => new = regenerated
      /\ op = "allow" => new = allowed
      /\ op = "delete" => new = NoRecord
      /\ op = "revert" => new = IF Reverts(k) THEN reverted ELSE record[k]
      /\ op \notin {"update", "set", "ensure", "create", "regenerate", "allow",
                    "delete", "revert"} => new = record[k]
  BY <1>2
<1> QED
  BY <1>3 DEF op, rotated, created, regenerated, allowed, reverted, new

(* What it leaves is a record or none.                                      *)
LEMMA NewRecordTyped ==
    ASSUME StoresTyped, NEW p \in Places, NEW i \in Instructions, Acts(p, i),
           i.operation \in Amendments => record[KeyOf(p, i)] # NoRecord
    PROVE  NewRecord(KeyOf(p, i), i) \in Records \cup {NoRecord}
<1> DEFINE k == KeyOf(p, i)
<1>1. k \in Keys /\ i.write \in PossibleWrites
  BY KeysTyped DEF Instructions, Orders
<1>2. record[k] \in Records \cup {NoRecord} /\ undo[k] \in Hashes \cup {NoHash}
  BY <1>1 DEF StoresTyped
<1>3. i.operation \in {"ensure", "create", "update", "set", "regenerate"} =>
          i.write.hash # NoHash
  BY UnsignedUpdatesRefused DEF Acts, Instructions, WritesSecrets
<1>4. i.operation \in Amendments => record[k] # NoRecord
  OBVIOUS
<1> SUFFICES NewRecord(k, i) \in Records \cup {NoRecord}
  OBVIOUS
<1> HIDE DEF k
<1>5. CASE i.operation \in {"update", "set", "ensure", "create"}
  <2>1. Rotated(record[k], i.write) \in Records /\ Created(i.write) \in Records
    BY <1>1, <1>2, <1>3, <1>5, RecordsMade
  <2> QED
    BY <1>5, <2>1, NewRecordOf
<1>6. CASE i.operation \in {"regenerate", "allow"}
  <2>1. record[k] \in Records
    BY <1>2, <1>4, <1>6 DEF Amendments
  <2>2. CASE i.operation = "regenerate"
    <3>1. Regenerated(record[k], [i.write EXCEPT !.allowedIps = Unset]) \in Records
      BY <1>1, <1>3, <2>1, <2>2, RecordsAmended
    <3> QED
      BY <2>2, <3>1, NewRecordOf
  <2>3. CASE i.operation = "allow"
    <3>1. WithAllowedIps(record[k], i.write) \in Records
      BY <1>1, <2>1, RecordsAmended
    <3> QED
      BY <2>3, <3>1, NewRecordOf
  <2> QED
    BY <1>6, <2>2, <2>3
<1>7. CASE i.operation = "revert"
  <2>1. Reverts(k) => Reverted(record[k], undo[k]) \in Records
    BY <1>1, <1>2, RecordsAmended DEF Reverts
  <2> QED
    BY <1>2, <1>7, <2>1, NewRecordOf
<1>8. CASE i.operation \notin {"update", "set", "ensure", "create", "regenerate", "allow",
                              "revert"}
  BY <1>2, <1>8, NewRecordOf
<1> QED
  BY <1>5, <1>6, <1>7, <1>8

(* And a backup or none.                                                    *)
LEMMA NewUndoTyped ==
    ASSUME StoresTyped, NEW k \in Keys, NEW i
    PROVE  NewUndo(k, i) \in Hashes \cup {NoHash}
<1>1. record[k] # NoRecord => record[k].hash \in Hashes
  BY DEF StoresTyped, Records
<1>2. undo[k] \in Hashes \cup {NoHash}
  BY DEF StoresTyped
<1> QED
  BY <1>1, <1>2 DEF NewUndo, NeedsBackup

(* A step of an instruction leaves the stores as stores.                    *)
LEMMA DoesTyped ==
    ASSUME StoresTyped, NEW p \in Places, NEW i \in Instructions,
           i.operation \in Amendments => record[KeyOf(p, i)] # NoRecord,
           Does(p, i)
    PROVE  StoresTyped'
<1> DEFINE k == KeyOf(p, i)
<1>1. k \in Keys
  BY KeysTyped
<1>2. /\ record' = [record EXCEPT ![k] = IF Acts(p, i) THEN NewRecord(k, i) ELSE @]
      /\ undo'   = [undo EXCEPT ![k] = IF Acts(p, i) THEN NewUndo(k, i) ELSE @]
  BY DEF Does, Acts
<1>3. /\ Acts(p, i) => NewRecord(k, i) \in Records \cup {NoRecord}
      /\ NewUndo(k, i) \in Hashes \cup {NoHash}
  BY <1>1, NewRecordTyped, NewUndoTyped
<1> HIDE DEF k
<1> QED
  BY <1>1, <1>2, <1>3 DEF StoresTyped

(* The answers.                                                             *)
LEMMA AnswersTyped ==
    ASSUME NEW p, NEW i
    PROVE  RouteAnswer(p, i) \in Answers /\ FactoryAnswer(p, i) \in Answers
BY DEF RouteAnswer, FactoryAnswer, Answers

(* An instruction for one place: it is not a target.                        *)
LEMMA OnePlace ==
    ASSUME NEW i \in Instructions, i.places # TargetList
    PROVE  /\ Len(i.places) = 1 /\ i.places[1] \in {Source, Demo}
           /\ i.places[1] \in Places /\ i.places[1] \notin Targets
<1>1. i.places \in {<< Source >>, << Demo >>}
  BY DEF Instructions, Orders, PlaceLists
<1> QED
  BY <1>1, PlacesDiffer DEF Places

(* The instructions of the program, and what is asked of whom.              *)
LEMMA ProgramTyped ==
    /\ Len(Program) \in Nat /\ DOMAIN Program = 1..Len(Program)
    /\ \A n \in DOMAIN Program : Program[n] \in Instructions
BY ProgramWellFormed DEF WellFormed

(* The place that is asked next: a target, or the only one.                 *)
LEMMA AskedPlace ==
    ASSUME results \in Seq(Answers), Asking
    PROVE  /\ Now \in Instructions /\ pc \in DOMAIN Program /\ Place \in Places
           /\ Len(results) + 1 \in 1..Len(Now.places)
           /\ Now.places = TargetList => Place \in Targets
           /\ Now.places # TargetList => results = <<>> /\ Place = Now.places[1]
                                         /\ Place \notin Targets
<1>1. Now \in Instructions /\ pc \in DOMAIN Program
  BY ProgramTyped DEF Asking, Running, Now
<1>2. Len(results) \in Nat /\ Len(results) < Len(Now.places)
  BY DEF Asking
<1>3. CASE Now.places = TargetList
  <2>1. TargetList \in Seq(Targets)
    BY SourceAssumption
  <2>2. Len(results) + 1 \in 1..Len(TargetList)
    BY <1>2, <1>3, <2>1
  <2> QED
    BY <1>1, <1>3, <2>1, <2>2 DEF Place, Places
<1>4. CASE Now.places # TargetList
  <2>1. /\ Len(Now.places) = 1 /\ Now.places[1] \in Places
        /\ Now.places[1] \notin Targets
    BY <1>1, <1>4, OnePlace
  <2>2. Len(results) = 0
    BY <1>2, <2>1
  <2>3. results = <<>> /\ Place = Now.places[1]
    BY <2>2 DEF Place
  <2> QED
    BY <1>1, <1>4, <2>1, <2>2, <2>3
<1> QED
  BY <1>3, <1>4

(* What an amendment needs has been created and is still stored.            *)
Prepared ==
    /\ pc = 0 => results = <<>>
    /\ Running /\ Now.way = "factory" /\ Now.operation = "create" /\ results # <<>> =>
           record[KeyOf(Now.places[1], Now)] # NoRecord
    /\ Running /\ Now.operation \in Amendments /\ results = <<>> =>
           record[KeyOf(Now.places[1], Now)] # NoRecord

TypeInv == TypeOK /\ Prepared

(* What the step of a place needs.                                          *)
LEMMA AskedDoes ==
    ASSUME TypeInv, Asking, Does(Place, Now)
    PROVE  StoresTyped'
<1>1. /\ Now \in Instructions /\ Place \in Places
      /\ Now.places # TargetList => results = <<>> /\ Place = Now.places[1]
  BY AskedPlace DEF TypeInv, TypeOK
<1>2. Now.operation \in Amendments => record[KeyOf(Place, Now)] # NoRecord
  BY <1>1 DEF TypeInv, Prepared, Asking, Instructions, LocalFactory
<1>3. StoresTyped
  BY DEF TypeInv, TypeOK, StoresTyped
<1> QED
  BY <1>1, <1>2, <1>3, DoesTyped

(* At first.                                                                *)
LEMMA InitTyped == Init => TypeInv
<1> SUFFICES ASSUME Init PROVE TypeInv
  OBVIOUS
<1>1. record \in [Keys -> Records \cup {NoRecord}]
  <2>1. PICK start \in InitialTargets :
            record = [k \in Keys |-> IF k[1] \in Targets THEN start[k] ELSE NoRecord]
    BY DEF Init
  <2>2. start \in [Targets \X Stores \X ClientIds -> Records \cup {NoRecord}]
    BY TargetsAssumption
  <2>3. ASSUME NEW k \in Keys, k[1] \in Targets
        PROVE  start[k] \in Records \cup {NoRecord}
    <3>1. k \in Targets \X Stores \X ClientIds
      BY <2>3 DEF Keys
    <3> QED
      BY <2>2, <3>1
  <2> QED
    BY <2>1, <2>3
<1>2. undo \in [Keys -> Hashes \cup {NoHash}]
  BY DEF Init
<1>3. /\ pc = 0 /\ results = <<>> /\ attempt = 1 /\ failed = {}
      /\ calm = TRUE /\ expired = FALSE /\ disturbances = 0
  BY DEF Init
<1>4. 1 \in 1..Attempts /\ 0 \in 0..MaxDisturbances /\ 0 \in 0..(Len(Program) + 1)
  BY ProgramTyped, SourceAssumption
<1>5. ~Running
  BY <1>3, ProgramTyped DEF Running
<1>6. Prepared
  BY <1>3, <1>5 DEF Prepared
<1>7. TypeOK
  <2>1. <<>> \in Seq(Answers) /\ {} \subseteq DOMAIN Program
    OBVIOUS
  <2> QED
    BY <1>1, <1>2, <1>3, <1>4, <2>1 DEF TypeOK
<1> QED
  BY <1>6, <1>7 DEF TypeInv

(* A place answers.                                                         *)
LEMMA AnsweredTyped == TypeInv /\ Answered => TypeInv'
<1> SUFFICES ASSUME TypeInv, Answered PROVE TypeInv'
  OBVIOUS
<1>1. Asking /\ Does(Place, Now) /\ UNCHANGED <<pc, attempt, calm, expired, disturbances>>
  BY DEF Answered
<1>2. StoresTyped'
  BY <1>1, AskedDoes
<1>3. /\ Now \in Instructions /\ pc \in DOMAIN Program /\ Place \in Places
      /\ Now.places # TargetList => results = <<>> /\ Place = Now.places[1]
  BY <1>1, AskedPlace DEF TypeInv, TypeOK
<1>4. results' \in Seq(Answers) /\ results' # <<>>
  <2>1. results \in Seq(Answers)
    BY DEF TypeInv, TypeOK
  <2>2. RouteAnswer(Place, Now) \in Answers /\ FactoryAnswer(Place, Now) \in Answers
    BY AnswersTyped
  <2>3. PICK answer \in Answers : results' = Append(results, answer)
    BY <2>2 DEF Answered
  <2> QED
    BY <2>1, <2>3
<1>5. failed' \subseteq DOMAIN Program
  BY <1>3 DEF Answered, TypeInv, TypeOK
<1>6. TypeOK'
  BY <1>1, <1>2, <1>4, <1>5 DEF TypeInv, TypeOK, StoresTyped
<1>7. /\ pc # 0 /\ pc' = pc /\ Now' = Now
  BY <1>1, <1>3, ProgramTyped DEF Now
<1>8. ASSUME Now.way = "factory", Now.operation = "create"
      PROVE  record'[KeyOf(Now.places[1], Now)] # NoRecord
  <2> DEFINE k == KeyOf(Place, Now)
  <2>1. Now.places # TargetList
    BY <1>3, <1>8 DEF Instructions, LocalFactory
  <2>2. k \in Keys
    BY <1>3, KeysTyped
  <2>3. record \in [Keys -> Records \cup {NoRecord}]
    BY DEF TypeInv, TypeOK
  <2>4. record' = [record EXCEPT ![k] = IF Acts(Place, Now) THEN NewRecord(k, Now) ELSE @]
    BY <1>1 DEF Does, Acts
  <2> HIDE DEF k
  <2>5. record'[k] = NewRecord(k, Now)
    BY <1>8, <2>2, <2>3, <2>4 DEF Acts
  <2>6. NewRecord(k, Now) \in Records
    <3>1. Now.write \in PossibleWrites /\ Now.write.hash # NoHash
      BY <1>3, <1>8 DEF Instructions, Orders, WritesSecrets
    <3>2. Created(Now.write) \in Records
      BY <3>1, RecordsMade
    <3> QED
      BY <1>8, <3>2, NewRecordOf, ZenonT(40)
  <2> QED
    BY <1>3, <2>1, <2>5, <2>6, NoRecordAssumption DEF k
<1>9. Prepared'
  BY <1>4, <1>7, <1>8 DEF Prepared, KeyOf
<1> QED
  BY <1>6, <1>9 DEF TypeInv

(* A fetch rejects: it was for a target.                                    *)
LEMMA RejectedTyped == TypeInv /\ Rejected => TypeInv'
<1> SUFFICES ASSUME TypeInv, Rejected PROVE TypeInv'
  OBVIOUS
<1>1. /\ Asking /\ Place \in Targets /\ results' = Append(results, "rejected")
      /\ disturbances < MaxDisturbances /\ disturbances' = disturbances + 1
      /\ calm' = FALSE /\ UNCHANGED <<pc, attempt, failed, expired>>
  BY DEF Rejected, Disturb
<1>2. StoresTyped'
  <2>1. CASE UNCHANGED <<record, undo>>
    BY <2>1 DEF TypeInv, TypeOK, StoresTyped
  <2>2. CASE Does(Place, Now)
    BY <1>1, <2>2, AskedDoes
  <2> QED
    BY <2>1, <2>2 DEF Rejected
<1>3. /\ Now \in Instructions /\ pc \in DOMAIN Program
      /\ Now.places = TargetList
  BY <1>1, AskedPlace DEF TypeInv, TypeOK
<1>4. results' \in Seq(Answers) /\ results' # <<>>
  <2>1. results \in Seq(Answers) /\ "rejected" \in Answers
    BY DEF TypeInv, TypeOK, Answers
  <2> QED
    BY <1>1, <2>1
<1>5. disturbances' \in 0..MaxDisturbances
  BY <1>1, SourceAssumption DEF TypeInv, TypeOK
<1>6. TypeOK'
  BY <1>1, <1>2, <1>4, <1>5 DEF TypeInv, TypeOK, StoresTyped
<1>7. pc # 0 /\ pc' = pc /\ Now' = Now
  BY <1>1, <1>3, ProgramTyped DEF Now
<1>8. Now.way # "factory"
  BY <1>3 DEF Instructions, LocalFactory
<1>9. Prepared'
  BY <1>4, <1>7, <1>8 DEF Prepared
<1> QED
  BY <1>6, <1>9 DEF TypeInv

(* The results are judged.                                                  *)
LEMMA SettleTyped == TypeInv /\ Settle => TypeInv'
<1> SUFFICES ASSUME TypeInv, Settle PROVE TypeInv'
  OBVIOUS
<1>1. /\ Running /\ ~Asking /\ results' = <<>>
      /\ UNCHANGED <<record, undo, calm, expired, disturbances>>
  BY DEF Settle
<1>2. /\ Now \in Instructions /\ pc \in DOMAIN Program /\ pc \in Nat
      /\ pc + 1 \in 0..(Len(Program) + 1) /\ pc + 1 # 0 /\ pc # 0
  BY <1>1, ProgramTyped DEF Running, Now
<1>3. Now.tries \in {1, Attempts} /\ attempt \in 1..Attempts /\ Attempts \in Nat
      /\ 1 \in 1..Attempts
  BY <1>2, SourceAssumption DEF Instructions, Orders, TypeInv, TypeOK
<1>4. <<>> \in Seq(Answers)
  OBVIOUS
<1>5. CASE ~Applied(results, Now.expect) /\ attempt < Now.tries
  <2>1. attempt' = attempt + 1 /\ UNCHANGED <<pc, failed>>
    BY <1>5 DEF Settle
  <2>2. attempt' \in 1..Attempts /\ Now.tries = Attempts
    BY <1>3, <1>5, <2>1
  <2>3. TypeOK'
    BY <1>1, <1>4, <2>1, <2>2 DEF TypeInv, TypeOK
  <2>4. Now.way = "route" /\ Now.operation = "create" /\ Now' = Now /\ pc' # 0
    BY <1>2, <2>1, <2>2 DEF Instructions, RetriesEntries, Now
  <2>5. Prepared'
    BY <1>1, <2>4 DEF Prepared, Amendments
  <2> QED
    BY <2>3, <2>5 DEF TypeInv
<1>6. CASE ~(~Applied(results, Now.expect) /\ attempt < Now.tries)
  <2>1. /\ pc' = pc + 1 /\ attempt' = 1
        /\ failed' = failed \/ failed' = failed \cup {pc}
    BY <1>6 DEF Settle
  <2>2. failed' \subseteq DOMAIN Program
    BY <1>2, <2>1 DEF TypeInv, TypeOK
  <2>3. TypeOK'
    BY <1>1, <1>2, <1>3, <1>4, <2>1, <2>2 DEF TypeInv, TypeOK
  <2>4. ASSUME Running', (Now.operation \in Amendments)'
        PROVE  (record[KeyOf(Now.places[1], Now)] # NoRecord)'
    <3> DEFINE next == Program[pc + 1]
    <3>1. pc + 1 \in 1..Len(Program) /\ Now' = next /\ next.operation \in Amendments
      BY <2>1, <2>4, ProgramTyped DEF Running, Now
    <3>2. Prepares(Now, next)
      <4>1. (pc + 1) - 1 = pc
        BY <1>2
      <4>2. Prepares(Program[(pc + 1) - 1], Program[pc + 1])
        BY <3>1, ProgramWellFormed DEF WellFormed, Linked
      <4> QED
        BY <4>1, <4>2 DEF Now
    <3> HIDE DEF next
    <3>3. /\ Now.way = "factory" /\ Now.operation = "create"
          /\ Now.places = next.places /\ Now.store = next.store /\ Now.client = next.client
      BY <3>2 DEF Prepares
    <3>4. results # <<>>
      <4>1. Len(Now.places) = 1
        BY <1>2, <3>3, OnePlace DEF Instructions, LocalFactory
      <4>2. ~(Len(results) < 1)
        BY <1>1, <4>1 DEF Asking
      <4> QED
        BY <4>2
    <3>5. record[KeyOf(Now.places[1], Now)] # NoRecord
      BY <1>1, <3>3, <3>4 DEF TypeInv, Prepared
    <3>6. next.way = "factory"
      <4>1. next \in Instructions
        BY <3>1, ProgramTyped DEF next
      <4> QED
        BY <3>1, <4>1 DEF Instructions, LocalFactory
    <3>7. KeyOf(Now.places[1], Now) = KeyOf(next.places[1], next)
      BY <3>3, <3>6 DEF KeyOf
    <3>8. record'[KeyOf(next.places[1], next)] # NoRecord
      BY <1>1, <3>5, <3>7
    <3> QED
      BY <3>1, <3>8 DEF KeyOf
  <2>5. Prepared'
    BY <1>1, <1>2, <2>1, <2>4 DEF Prepared
  <2> QED
    BY <2>3, <2>5 DEF TypeInv
<1> QED
  BY <1>5, <1>6

(* The process stops.                                                       *)
LEMMA StopTyped == TypeInv /\ Stop => TypeInv'
<1> SUFFICES ASSUME TypeInv, Stop PROVE TypeInv'
  OBVIOUS
<1>1. /\ disturbances < MaxDisturbances /\ disturbances' = disturbances + 1
      /\ pc' = 0 /\ attempt' = 1 /\ results' = <<>> /\ failed' = {} /\ calm' = TRUE
      /\ UNCHANGED expired
  BY DEF Stop, Disturb
<1>2. StoresTyped'
  <2>1. StoresTyped
    BY DEF TypeInv, TypeOK, StoresTyped
  <2>2. CASE UNCHANGED <<record, undo>>
    BY <2>1, <2>2 DEF StoresTyped
  <2>3. CASE Asking /\ Does(Place, Now)
    BY <2>3, AskedDoes
  <2>4. CASE /\ Asking /\ Now.way = "factory"
             /\ LET k == KeyOf(Place, Now)
                IN  \/ /\ Now.operation = "set"
                       /\ undo' = [undo EXCEPT ![k] = NewUndo(k, Now)]
                       /\ UNCHANGED record
                    \/ /\ Now.operation = "revert"
                       /\ record' = [record EXCEPT ![k] = NewRecord(k, Now)]
                       /\ UNCHANGED undo
    <3> DEFINE k == KeyOf(Place, Now)
    <3>1. Now \in Instructions /\ Place \in Places /\ k \in Keys
      BY <2>4, AskedPlace, KeysTyped DEF TypeInv, TypeOK
    <3>2. NewUndo(k, Now) \in Hashes \cup {NoHash}
      BY <2>1, <3>1, NewUndoTyped
    <3>3. Now.operation = "revert" => NewRecord(k, Now) \in Records \cup {NoRecord}
      BY <2>1, <2>4, <3>1, NewRecordTyped DEF Acts, Amendments
    <3>4. \/ undo' = [undo EXCEPT ![k] = NewUndo(k, Now)] /\ record' = record
          \/ /\ Now.operation = "revert"
             /\ record' = [record EXCEPT ![k] = NewRecord(k, Now)] /\ undo' = undo
      BY <2>4
    <3> HIDE DEF k
    <3> QED
      BY <2>1, <3>1, <3>2, <3>3, <3>4 DEF StoresTyped
  <2> QED
    BY <2>2, <2>3, <2>4 DEF Stop, Interrupted
<1>3. /\ disturbances' \in 0..MaxDisturbances /\ attempt' \in 1..Attempts
      /\ pc' \in 0..(Len(Program) + 1) /\ results' \in Seq(Answers)
  BY <1>1, ProgramTyped, SourceAssumption DEF TypeInv, TypeOK
<1>4. TypeOK'
  BY <1>1, <1>2, <1>3 DEF TypeInv, TypeOK, StoresTyped
<1>5. Prepared'
  BY <1>1, ProgramTyped DEF Prepared, Running
<1> QED
  BY <1>4, <1>5 DEF TypeInv

(* The process starts.                                                      *)
LEMMA BeginRunTyped == TypeInv /\ BeginRun => TypeInv'
<1> SUFFICES ASSUME TypeInv, BeginRun PROVE TypeInv'
  OBVIOUS
<1>1. /\ pc = 0 /\ pc' = 1
      /\ record' = [k \in Keys |-> IF Fresh(k) THEN NoRecord ELSE record[k]]
      /\ undo'   = [k \in Keys |-> IF Fresh(k) THEN NoHash ELSE undo[k]]
      /\ UNCHANGED <<attempt, results, failed, calm, expired, disturbances>>
  BY DEF BeginRun
<1>2. record' \in [Keys -> Records \cup {NoRecord}]
  BY <1>1 DEF TypeInv, TypeOK
<1>3. undo' \in [Keys -> Hashes \cup {NoHash}]
  BY <1>1 DEF TypeInv, TypeOK
<1>4. pc' \in 0..(Len(Program) + 1)
  BY <1>1, ProgramTyped
<1>5. TypeOK'
  BY <1>1, <1>2, <1>3, <1>4 DEF TypeInv, TypeOK
<1>6. results' = <<>>
  BY <1>1 DEF TypeInv, Prepared
<1>7. Running' => (Now.operation \notin Amendments)'
  <2> SUFFICES ASSUME 1 \in 1..Len(Program) PROVE Program[1].operation \notin Amendments
    BY <1>1, ProgramTyped DEF Running, Now
  <2> QED
    BY ProgramWellFormed DEF WellFormed, Linked
<1>8. Prepared'
  BY <1>1, <1>6, <1>7 DEF Prepared
<1> QED
  BY <1>5, <1>8 DEF TypeInv

(* Every step.                                                              *)
LEMMA NextTyped == TypeInv /\ [Next]_vars => TypeInv'
<1> SUFFICES ASSUME TypeInv, [Next]_vars PROVE TypeInv'
  OBVIOUS
<1>1. CASE BeginRun
  BY <1>1, BeginRunTyped
<1>2. CASE Answered
  BY <1>2, AnsweredTyped
<1>3. CASE Rejected
  BY <1>3, RejectedTyped
<1>4. CASE Settle
  BY <1>4, SettleTyped
<1>5. CASE Stop
  BY <1>5, StopTyped
<1>6. CASE Expire
  <2>1. /\ disturbances < MaxDisturbances /\ disturbances' = disturbances + 1
        /\ undo' \in [Keys -> Hashes \cup {NoHash}] /\ expired' = TRUE
        /\ UNCHANGED <<record, pc, attempt, results, failed, calm>>
    BY <1>6 DEF Expire, Disturb, TypeInv, TypeOK
  <2>2. disturbances' \in 0..MaxDisturbances
    BY <2>1, SourceAssumption DEF TypeInv, TypeOK
  <2>3. TypeOK'
    BY <2>1, <2>2 DEF TypeInv, TypeOK
  <2>4. Prepared'
    BY <2>1 DEF TypeInv, Prepared, Running, Now, KeyOf
  <2> QED
    BY <2>3, <2>4 DEF TypeInv
<1>7. CASE UNCHANGED vars
  <2>1. TypeOK'
    BY <1>7 DEF TypeInv, TypeOK, vars
  <2>2. Prepared'
    BY <1>7 DEF TypeInv, Prepared, Running, Now, KeyOf, vars
  <2> QED
    BY <2>1, <2>2 DEF TypeInv
<1> QED
  BY <1>1, <1>2, <1>3, <1>4, <1>5, <1>6, <1>7 DEF Next

(* Every reachable state is of the declared types: no instruction leaves a   *)
(* record without a secret hash, the update that the demonstration sends     *)
(* unsigned included, and no change of a stored record is asked for before   *)
(* the record is there.                                                     *)
THEOREM SourceTyped == Spec => []TypeOK
<1>1. TypeInv => TypeOK
  BY DEF TypeInv
<1> QED
  BY InitTyped, NextTyped, <1>1, PTL DEF Spec

-----------------------------------------------------------------------------
(* What was reported as applied is stored.                                  *)

(* The key of an entry on a target.                                         *)
At(t, entry) == <<t, entry.store, entry.client>>

(* What the targets hold for the entries, and keep to revert to.            *)
EntriesKept ==
    \A t \in Targets, entry \in Entries :
        /\ record[At(t, entry)] # NoRecord => record[At(t, entry)].hash \in Lasting(entry)
        /\ undo[At(t, entry)] \in Lasting(entry) \cup {NoHash}

(* No step takes an entry from a target.                                    *)
StillThere ==
    \A t \in Targets, entry \in Entries :
        record[At(t, entry)] # NoRecord => record'[At(t, entry)] # NoRecord

(* The answers of the present attempt are true, ...                         *)
AnswersTrue ==
    pc \in Creations => \A n \in DOMAIN TargetList :
        n <= Len(results) /\ results[n] \in {"accepted", "exists"} =>
            record[At(TargetList[n], Now)] # NoRecord

(* ... and so were those of the attempts that were judged.                  *)
CreationsKept ==
    \A i \in Creations : i < pc /\ i \notin failed =>
        \A t \in Targets : record[At(t, Program[i])] # NoRecord

HeldInv == TypeInv /\ EntriesKept /\ AnswersTrue /\ CreationsKept

(* The keys of the entries.                                                 *)
LEMMA EntryKeys ==
    ASSUME NEW t \in Targets, NEW entry \in Entries
    PROVE  /\ At(t, entry) \in Keys /\ entry.client \in ClientIds /\ entry.store \in Stores
           /\ At(t, entry)[1] = t
<1>1. entry.client \in ClientIds /\ entry.store \in Stores
  BY EntryLists DEF Credentials
<1> QED
  BY <1>1 DEF At, Keys, Places

(* A creation is that of an entry.                                          *)
LEMMA CreationEntry ==
    ASSUME NEW i \in Creations
    PROVE  /\ i \in DOMAIN Program /\ Program[i] \in Instructions
           /\ Program[i].way = "route" /\ Program[i].places = TargetList
           /\ Program[i].operation = "create" /\ Program[i].expect = {"accepted", "exists"}
           /\ \E entry \in Entries :
                 /\ Program[i].write.hash = entry.secret
                 /\ \A t : At(t, Program[i]) = At(t, entry)
<1>1. i \in DOMAIN Program /\ Program[i].tries = Attempts
  BY DEF Creations
<1>2. Program[i] \in Instructions
  BY <1>1, ProgramTyped
<1> QED
  BY <1>1, <1>2 DEF Instructions, RetriesEntries, At

(* What an instruction leaves at the key of an entry of a target.           *)
LEMMA NewRecordHeld ==
    ASSUME StoresTyped, EntriesKept, NEW t \in Targets, NEW entry \in Entries,
           NEW i \in Instructions, i.places = TargetList, Acts(t, i),
           KeyOf(t, i) = At(t, entry)
    PROVE  LET k == At(t, entry)
           IN  /\ NewRecord(k, i) # NoRecord => NewRecord(k, i).hash \in Lasting(entry)
               /\ record[k] # NoRecord => NewRecord(k, i) # NoRecord
               /\ i.operation = "create" => NewRecord(k, i) # NoRecord
               /\ NewUndo(k, i) \in Lasting(entry) \cup {NoHash}
<1> DEFINE k == At(t, entry)
<1>1. i.way = "route" /\ i.write \in PossibleWrites
  BY DEF Instructions, LocalFactory, Orders
<1>2. i.client = entry.client
  BY DEF KeyOf, At
<1>3. /\ i.operation \in {"create", "update", "revert", "health", "fetch", "verify"}
      /\ i.operation \in {"create", "update"} /\ i.store = entry.store =>
            i.write.hash \in Lasting(entry)
  <2>1. Spares(i)
    BY DEF Instructions
  <2>2. IsRow(entry.client, entry.store) => RotatedSecret[entry.secret] \in Lasting(entry)
    BY EntryLists, ConfigurationAssumption DEF IsRow, Lasting
  <2> QED
    BY <1>2, <2>1, <2>2 DEF Spares, Lasting
<1>4. i.store = entry.store
  <2>1. KeyOf(t, i) = <<t, i.store, i.client>>
    BY <1>3 DEF KeyOf
  <2> QED
    BY <2>1 DEF At
<1>5. i.operation \in {"create", "update"} => i.write.hash # NoHash
  <2>1. t \in Places
    BY DEF Places
  <2> QED
    BY <1>1, <2>1, UnsignedUpdatesRefused DEF Acts, Instructions, WritesSecrets
<1>6. k \in Keys
  BY EntryKeys
<1>7. /\ record[k] \in Records \cup {NoRecord} /\ undo[k] \in Hashes \cup {NoHash}
      /\ record[k] # NoRecord => record[k].hash \in Lasting(entry)
      /\ undo[k] \in Lasting(entry) \cup {NoHash}
  BY <1>6 DEF StoresTyped, EntriesKept
<1> SUFFICES /\ NewRecord(k, i) # NoRecord => NewRecord(k, i).hash \in Lasting(entry)
             /\ record[k] # NoRecord => NewRecord(k, i) # NoRecord
             /\ i.operation = "create" => NewRecord(k, i) # NoRecord
             /\ NewUndo(k, i) \in Lasting(entry) \cup {NoHash}
  OBVIOUS
<1> HIDE DEF k
<1>8. NewUndo(k, i) \in Lasting(entry) \cup {NoHash}
  BY <1>7 DEF NewUndo, NeedsBackup
<1>9. CASE i.operation \in {"create", "update"}
  <2>1. /\ Rotated(record[k], i.write) \in Records
        /\ Rotated(record[k], i.write).hash = i.write.hash
    BY <1>1, <1>5, <1>7, <1>9, RecordsMade
  <2>2. NewRecord(k, i) = Rotated(record[k], i.write)
    BY <1>1, <1>9, NewRecordOf
  <2> QED
    BY <1>3, <1>4, <1>8, <1>9, <2>1, <2>2, NoRecordAssumption
<1>10. CASE i.operation = "revert"
  <2>1. NewRecord(k, i) = IF Reverts(k) THEN Reverted(record[k], undo[k]) ELSE record[k]
    BY <1>10, NewRecordOf
  <2>2. CASE Reverts(k)
    <3>1. record[k] \in Records /\ undo[k] \in Hashes
      BY <1>7, <2>2 DEF Reverts
    <3>2. /\ Reverted(record[k], undo[k]) \in Records
          /\ Reverted(record[k], undo[k]).hash = undo[k]
      BY <1>1, <3>1, RecordsAmended
    <3> QED
      BY <1>7, <1>8, <1>10, <2>1, <2>2, <3>1, <3>2, NoRecordAssumption DEF Reverts
  <2>3. CASE ~Reverts(k)
    BY <1>7, <1>8, <1>10, <2>1, <2>3
  <2> QED
    BY <2>2, <2>3
<1>11. CASE i.operation \in {"health", "fetch", "verify"}
  <2>1. NewRecord(k, i) = record[k]
    BY <1>11, NewRecordOf
  <2> QED
    BY <1>7, <1>8, <1>11, <2>1
<1> QED
  BY <1>3, <1>9, <1>10, <1>11

(* So no step of a place takes an entry from it or puts another in its place. *)
LEMMA DoesHeld ==
    ASSUME StoresTyped, EntriesKept, NEW p \in Places, NEW i \in Instructions,
           p \in Targets => i.places = TargetList,
           Does(p, i)
    PROVE  EntriesKept' /\ StillThere
<1> DEFINE j == KeyOf(p, i)
<1>1. j \in Keys /\ j[1] = p
  BY KeysTyped DEF KeyOf
<1>2. /\ record' = [record EXCEPT ![j] = IF Acts(p, i) THEN NewRecord(j, i) ELSE @]
      /\ undo'   = [undo EXCEPT ![j] = IF Acts(p, i) THEN NewUndo(j, i) ELSE @]
  BY DEF Does, Acts
<1> SUFFICES ASSUME NEW t \in Targets, NEW entry \in Entries
             PROVE  LET k == At(t, entry)
                    IN  /\ record'[k] # NoRecord => record'[k].hash \in Lasting(entry)
                        /\ undo'[k] \in Lasting(entry) \cup {NoHash}
                        /\ record[k] # NoRecord => record'[k] # NoRecord
  BY DEF EntriesKept, StillThere, Lasting, At
<1> DEFINE k == At(t, entry)
<1>3. k \in Keys /\ k[1] = t
  BY EntryKeys
<1>4. /\ record[k] # NoRecord => record[k].hash \in Lasting(entry)
      /\ undo[k] \in Lasting(entry) \cup {NoHash}
  BY DEF EntriesKept
<1> SUFFICES /\ record'[k] # NoRecord => record'[k].hash \in Lasting(entry)
             /\ undo'[k] \in Lasting(entry) \cup {NoHash}
             /\ record[k] # NoRecord => record'[k] # NoRecord
  OBVIOUS
<1>5. CASE j = k /\ Acts(p, i)
  <2>1. p = t
    BY <1>1, <1>3, <1>5
  <2>2. /\ NewRecord(k, i) # NoRecord => NewRecord(k, i).hash \in Lasting(entry)
        /\ record[k] # NoRecord => NewRecord(k, i) # NoRecord
        /\ NewUndo(k, i) \in Lasting(entry) \cup {NoHash}
    BY <1>5, <2>1, NewRecordHeld
  <2> HIDE DEF j, k
  <2>3. record'[k] = NewRecord(k, i) /\ undo'[k] = NewUndo(k, i)
    BY <1>2, <1>3, <1>5 DEF StoresTyped
  <2> QED
    BY <2>2, <2>3
<1>6. CASE ~(j = k /\ Acts(p, i))
  <2> HIDE DEF j, k
  <2>1. record'[k] = record[k] /\ undo'[k] = undo[k]
    BY <1>1, <1>2, <1>3, <1>6 DEF StoresTyped
  <2> QED
    BY <1>4, <2>1
<1> QED
  BY <1>5, <1>6

(* The keys of a creation stay.                                             *)
LEMMA CreationsStay ==
    ASSUME StillThere, NEW i \in Creations, NEW t \in Targets,
           record[At(t, Program[i])] # NoRecord
    PROVE  record'[At(t, Program[i])] # NoRecord
BY CreationEntry DEF StillThere

(* While the program stays where it is, what was reported stays true.       *)
LEMMA ReportsStay ==
    ASSUME HeldInv, StillThere, UNCHANGED pc, failed \subseteq failed',
           pc \in Creations => \A n \in DOMAIN TargetList :
               n <= Len(results') /\ results'[n] \in {"accepted", "exists"} =>
                   \/ n <= Len(results) /\ results[n] \in {"accepted", "exists"}
                   \/ record'[At(TargetList[n], Now)] # NoRecord
    PROVE  AnswersTrue' /\ CreationsKept'
<1>1. CreationsKept'
  <2> SUFFICES ASSUME NEW i \in Creations, i < pc, i \notin failed', NEW t \in Targets
               PROVE  record'[At(t, Program[i])] # NoRecord
    BY DEF CreationsKept, At
  <2>1. record[At(t, Program[i])] # NoRecord
    BY DEF HeldInv, CreationsKept
  <2> QED
    BY <2>1, CreationsStay
<1>2. AnswersTrue'
  <2> SUFFICES ASSUME pc \in Creations, NEW n \in DOMAIN TargetList,
                      n <= Len(results'), results'[n] \in {"accepted", "exists"}
               PROVE  record'[At(TargetList[n], Now)] # NoRecord
    BY DEF AnswersTrue, At, Now
  <2>1. TargetList[n] \in Targets
    BY DEF Targets, ToSet
  <2>2. CASE n <= Len(results) /\ results[n] \in {"accepted", "exists"}
    <3>1. record[At(TargetList[n], Now)] # NoRecord
      BY <2>2 DEF HeldInv, AnswersTrue
    <3> QED
      BY <2>1, <3>1, CreationsStay DEF Now
  <2>3. CASE record'[At(TargetList[n], Now)] # NoRecord
    BY <2>3
  <2> QED
    BY <2>2, <2>3
<1> QED
  BY <1>1, <1>2

(* At first the targets hold what the assumption says.                      *)
LEMMA InitHeld == Init => HeldInv
<1> SUFFICES ASSUME Init PROVE HeldInv
  OBVIOUS
<1>1. TypeInv
  BY InitTyped
<1>2. pc = 0 /\ undo = [k \in Keys |-> NoHash]
  BY DEF Init
<1>3. EntriesKept
  <2>1. PICK start \in InitialTargets :
            record = [k \in Keys |-> IF k[1] \in Targets THEN start[k] ELSE NoRecord]
    BY DEF Init
  <2> SUFFICES ASSUME NEW t \in Targets, NEW entry \in Entries
               PROVE  LET k == At(t, entry)
                      IN  /\ record[k] # NoRecord => record[k].hash \in Lasting(entry)
                          /\ undo[k] \in Lasting(entry) \cup {NoHash}
    BY DEF EntriesKept
  <2> DEFINE k == At(t, entry)
  <2>2. k \in Keys /\ k[1] = t
    BY EntryKeys
  <2>3. start[k] # NoRecord => start[k].hash \in {entry.secret, ForeignHash}
    BY ConfigurationAssumption DEF At
  <2> SUFFICES /\ record[k] # NoRecord => record[k].hash \in Lasting(entry)
               /\ undo[k] \in Lasting(entry) \cup {NoHash}
    OBVIOUS
  <2> HIDE DEF k
  <2>4. record[k] = start[k] /\ undo[k] = NoHash
    BY <1>2, <2>1, <2>2
  <2> QED
    BY <2>3, <2>4 DEF Lasting
<1>4. \A i \in Creations : i >= 1 /\ i \in Nat
  BY CreationEntry, ProgramTyped
<1>5. AnswersTrue /\ CreationsKept
  BY <1>2, <1>4 DEF AnswersTrue, CreationsKept
<1> QED
  BY <1>1, <1>3, <1>5 DEF HeldInv

(* A place answers.                                                         *)
LEMMA AnsweredHeld == HeldInv /\ Answered => HeldInv'
<1> SUFFICES ASSUME HeldInv, Answered PROVE HeldInv'
  OBVIOUS
<1>1. TypeInv'
  BY AnsweredTyped DEF HeldInv
<1>2. /\ Asking /\ Does(Place, Now) /\ UNCHANGED pc /\ failed \subseteq failed'
      /\ results' = Append(results,
             IF Now.way = "route" THEN RouteAnswer(Place, Now) ELSE FactoryAnswer(Place, Now))
  BY DEF Answered
<1>3. StoresTyped /\ results \in Seq(Answers)
  BY DEF HeldInv, TypeInv, TypeOK, StoresTyped
<1>4. /\ Now \in Instructions /\ pc \in DOMAIN Program /\ Place \in Places
      /\ Place \in Targets => Now.places = TargetList
  BY <1>2, <1>3, AskedPlace
<1>5. EntriesKept' /\ StillThere
  BY <1>2, <1>3, <1>4, DoesHeld DEF HeldInv
<1>6. ASSUME pc \in Creations, NEW n \in DOMAIN TargetList,
             n <= Len(results'), results'[n] \in {"accepted", "exists"}
      PROVE  \/ n <= Len(results) /\ results[n] \in {"accepted", "exists"}
             \/ record'[At(TargetList[n], Now)] # NoRecord
  <2>1. /\ Now.way = "route" /\ Now.places = TargetList /\ Now.operation = "create"
        /\ \E entry \in Entries : \A t : At(t, Now) = At(t, entry)
    BY <1>6, CreationEntry DEF Now
  <2>2. DOMAIN TargetList = 1..Len(TargetList) /\ Len(TargetList) \in Nat
    <3>1. TargetList \in Seq(Targets)
      BY SourceAssumption
    <3> QED
      BY <3>1
  <2> DEFINE answer == RouteAnswer(Place, Now)
  <2>3. results' = Append(results, answer) /\ answer \in Answers
    BY <1>2, <2>1, AnswersTyped
  <2> HIDE DEF answer
  <2>4. CASE n <= Len(results)
    BY <1>3, <1>6, <2>2, <2>3, <2>4
  <2>5. CASE ~(n <= Len(results))
    <3>1. n = Len(results) + 1 /\ results'[n] = answer
      BY <1>3, <1>6, <2>2, <2>3, <2>5
    <3>2. Place = TargetList[n] /\ Place \in Targets
      BY <1>2, <1>3, <2>1, <3>1, AskedPlace DEF Place
    <3> DEFINE k == At(Place, Now)
    <3>3. PICK entry \in Entries : k = At(Place, entry)
      BY <2>1
    <3>4. k \in Keys /\ KeyOf(Place, Now) = k
      <4>1. k \in Keys
        BY <3>2, <3>3, EntryKeys
      <4>2. KeyOf(Place, Now) = k
        BY <2>1 DEF KeyOf, At
      <4> QED
        BY <4>1, <4>2
    <3>5. record' = [record EXCEPT ![k] = IF Acts(Place, Now) THEN NewRecord(k, Now) ELSE @]
      BY <1>2, <3>4 DEF Does, Acts
    <3>6. CASE answer = "exists"
      <4>1. record[k] # NoRecord
        <5> HIDE DEF k
        <5> QED
          BY <2>1, <3>4, <3>6 DEF RouteAnswer, answer
      <4>2. record'[k] # NoRecord
        BY <3>2, <3>3, <4>1, <1>5 DEF StillThere
      <4> QED
        BY <3>2, <4>2
    <3>7. CASE answer = "accepted"
      <4>1. Acts(Place, Now)
        BY <3>7 DEF Acts, Refusals, answer
      <4>2. NewRecord(k, Now) # NoRecord
        BY <1>3, <1>4, <2>1, <3>2, <3>3, <3>4, <4>1, NewRecordHeld DEF HeldInv
      <4> HIDE DEF k
      <4>3. record'[k] = NewRecord(k, Now)
        BY <1>3, <3>4, <3>5, <4>1 DEF StoresTyped
      <4> QED
        BY <3>2, <4>2, <4>3 DEF k
    <3> QED
      BY <1>6, <3>1, <3>6, <3>7
  <2> QED
    BY <2>4, <2>5
<1>7. AnswersTrue' /\ CreationsKept'
  BY <1>2, <1>5, <1>6, ReportsStay
<1> QED
  BY <1>1, <1>5, <1>7 DEF HeldInv

(* A fetch rejects.                                                         *)
LEMMA RejectedHeld == HeldInv /\ Rejected => HeldInv'
<1> SUFFICES ASSUME HeldInv, Rejected PROVE HeldInv'
  OBVIOUS
<1>1. TypeInv'
  BY RejectedTyped DEF HeldInv
<1>2. /\ Asking /\ UNCHANGED <<pc, failed>> /\ results' = Append(results, "rejected")
      /\ UNCHANGED <<record, undo>> \/ Does(Place, Now)
  BY DEF Rejected
<1>3. StoresTyped /\ results \in Seq(Answers)
  BY DEF HeldInv, TypeInv, TypeOK, StoresTyped
<1>4. /\ Now \in Instructions /\ Place \in Places
      /\ Place \in Targets => Now.places = TargetList
  BY <1>2, <1>3, AskedPlace
<1>5. EntriesKept' /\ StillThere
  <2>1. CASE UNCHANGED <<record, undo>>
    BY <2>1 DEF HeldInv, EntriesKept, StillThere, At, Lasting
  <2>2. CASE Does(Place, Now)
    BY <1>3, <1>4, <2>2, DoesHeld DEF HeldInv
  <2> QED
    BY <1>2, <2>1, <2>2
<1>6. ASSUME NEW n \in DOMAIN TargetList,
             n <= Len(results'), results'[n] \in {"accepted", "exists"}
      PROVE  n <= Len(results) /\ results[n] \in {"accepted", "exists"}
  <2>1. DOMAIN TargetList = 1..Len(TargetList) /\ Len(TargetList) \in Nat
    <3>1. TargetList \in Seq(Targets)
      BY SourceAssumption
    <3> QED
      BY <3>1
  <2>2. "rejected" \in Answers
    BY DEF Answers
  <2> QED
    BY <1>2, <1>3, <1>6, <2>1, <2>2
<1>7. AnswersTrue' /\ CreationsKept'
  BY <1>2, <1>5, <1>6, ReportsStay
<1> QED
  BY <1>1, <1>5, <1>7 DEF HeldInv

(* The results are judged: every target must have answered.                 *)
LEMMA SettleHeld == HeldInv /\ Settle => HeldInv'
<1> SUFFICES ASSUME HeldInv, Settle PROVE HeldInv'
  OBVIOUS
<1>1. TypeInv'
  BY SettleTyped DEF HeldInv
<1>2. /\ Running /\ ~Asking /\ results' = <<>> /\ UNCHANGED <<record, undo>>
      /\ \/ UNCHANGED <<pc, failed>>
         \/ /\ pc' = pc + 1
            /\ failed' = IF Applied(results, Now.expect) THEN failed ELSE failed \cup {pc}
  BY DEF Settle
<1>3. EntriesKept' /\ StillThere
  BY <1>2 DEF HeldInv, EntriesKept, StillThere, At, Lasting
<1>4. results \in Seq(Answers) /\ pc \in Nat
  BY DEF HeldInv, TypeInv, TypeOK
<1>5. AnswersTrue'
  <2> SUFFICES ASSUME NEW n \in DOMAIN TargetList PROVE ~(n <= Len(results'))
    BY DEF AnswersTrue
  <2>1. n >= 1 /\ n \in Nat
    <3>1. TargetList \in Seq(Targets)
      BY SourceAssumption
    <3> QED
      BY <3>1
  <2> QED
    BY <1>2, <2>1
<1>6. CreationsKept'
  <2> SUFFICES ASSUME NEW i \in Creations, i < pc', i \notin failed', NEW t \in Targets
               PROVE  record'[At(t, Program[i])] # NoRecord
    BY DEF CreationsKept, At
  <2>1. i \notin failed /\ i \in Nat
    BY <1>2, CreationEntry, ProgramTyped
  <2>2. CASE i < pc
    <3>1. record[At(t, Program[i])] # NoRecord
      BY <2>1, <2>2 DEF HeldInv, CreationsKept
    <3> QED
      BY <1>3, <3>1, CreationsStay
  <2>3. CASE ~(i < pc)
    <3>1. i = pc /\ Applied(results, Now.expect)
      BY <1>2, <1>4, <2>1, <2>3
    <3>2. Now.places = TargetList /\ Now.expect = {"accepted", "exists"} /\ Now = Program[i]
      BY <3>1, CreationEntry DEF Now
    <3>3. TargetList \in Seq(Targets)
      BY SourceAssumption
    <3>4. PICK n \in DOMAIN TargetList : TargetList[n] = t
      BY DEF Targets, ToSet
    <3>5. n \in 1..Len(results) /\ n <= Len(results)
      BY <1>2, <1>4, <3>2, <3>3, <3>4 DEF Asking
    <3>6. results[n] \in {"accepted", "exists"}
      BY <1>4, <3>1, <3>2, <3>5 DEF Applied
    <3>7. record[At(t, Now)] # NoRecord
      BY <3>1, <3>4, <3>5, <3>6 DEF HeldInv, AnswersTrue
    <3> QED
      BY <1>3, <3>2, <3>7, CreationsStay
  <2> QED
    BY <2>2, <2>3
<1> QED
  BY <1>1, <1>3, <1>5, <1>6 DEF HeldInv

(* A stop loses nothing of what a target has.                               *)
LEMMA StopHeld == HeldInv /\ Stop => HeldInv'
<1> SUFFICES ASSUME HeldInv, Stop PROVE HeldInv'
  OBVIOUS
<1>1. TypeInv'
  BY StopTyped DEF HeldInv
<1>2. pc' = 0
  BY DEF Stop
<1>3. EntriesKept'
  <2>1. StoresTyped /\ results \in Seq(Answers)
    BY DEF HeldInv, TypeInv, TypeOK, StoresTyped
  <2>2. CASE UNCHANGED <<record, undo>>
    BY <2>2 DEF HeldInv, EntriesKept, At, Lasting
  <2>3. CASE Asking /\ Does(Place, Now)
    <3>1. /\ Now \in Instructions /\ Place \in Places
          /\ Place \in Targets => Now.places = TargetList
      BY <2>1, <2>3, AskedPlace
    <3> QED
      BY <2>1, <2>3, <3>1, DoesHeld DEF HeldInv
  <2>4. CASE /\ Asking /\ Now.way = "factory"
             /\ LET k == KeyOf(Place, Now)
                IN  \/ /\ Now.operation = "set"
                       /\ undo' = [undo EXCEPT ![k] = NewUndo(k, Now)]
                       /\ UNCHANGED record
                    \/ /\ Now.operation = "revert"
                       /\ record' = [record EXCEPT ![k] = NewRecord(k, Now)]
                       /\ UNCHANGED undo
    <3> DEFINE j == KeyOf(Place, Now)
    <3>1. j[1] = Place /\ Place \notin Targets
      BY <2>1, <2>4, AskedPlace DEF KeyOf, Instructions, LocalFactory
    <3>2. /\ record' = record \/ record' = [record EXCEPT ![j] = NewRecord(j, Now)]
          /\ undo' = undo \/ undo' = [undo EXCEPT ![j] = NewUndo(j, Now)]
      BY <2>4
    <3> SUFFICES ASSUME NEW t \in Targets, NEW entry \in Entries
                 PROVE  LET k == At(t, entry)
                        IN  /\ record'[k] # NoRecord => record'[k].hash \in Lasting(entry)
                            /\ undo'[k] \in Lasting(entry) \cup {NoHash}
      BY DEF EntriesKept, At, Lasting
    <3> DEFINE k == At(t, entry)
    <3>3. k \in Keys /\ k[1] = t
      BY EntryKeys
    <3>4. /\ record[k] # NoRecord => record[k].hash \in Lasting(entry)
          /\ undo[k] \in Lasting(entry) \cup {NoHash}
      BY DEF HeldInv, EntriesKept
    <3> SUFFICES /\ record'[k] # NoRecord => record'[k].hash \in Lasting(entry)
                 /\ undo'[k] \in Lasting(entry) \cup {NoHash}
      OBVIOUS
    <3> HIDE DEF j, k
    <3>5. record'[k] = record[k] /\ undo'[k] = undo[k]
      BY <2>1, <3>1, <3>2, <3>3 DEF StoresTyped
    <3> QED
      BY <3>4, <3>5
  <2> QED
    BY <2>2, <2>3, <2>4 DEF Stop, Interrupted
<1>4. \A i \in Creations : i >= 1 /\ i \in Nat
  BY CreationEntry, ProgramTyped
<1>5. AnswersTrue' /\ CreationsKept'
  BY <1>2, <1>4 DEF AnswersTrue, CreationsKept
<1> QED
  BY <1>1, <1>3, <1>5 DEF HeldInv

(* A start clears only what is not on a target.                             *)
LEMMA BeginRunHeld == HeldInv /\ BeginRun => HeldInv'
<1> SUFFICES ASSUME HeldInv, BeginRun PROVE HeldInv'
  OBVIOUS
<1>1. TypeInv'
  BY BeginRunTyped DEF HeldInv
<1>2. /\ pc = 0 /\ pc' = 1
      /\ record' = [k \in Keys |-> IF Fresh(k) THEN NoRecord ELSE record[k]]
      /\ undo'   = [k \in Keys |-> IF Fresh(k) THEN NoHash ELSE undo[k]]
      /\ results' = <<>>
  BY DEF BeginRun, HeldInv, TypeInv, Prepared
<1>3. EntriesKept'
  <2> SUFFICES ASSUME NEW t \in Targets, NEW entry \in Entries
               PROVE  LET k == At(t, entry)
                      IN  /\ record'[k] # NoRecord => record'[k].hash \in Lasting(entry)
                          /\ undo'[k] \in Lasting(entry) \cup {NoHash}
    BY DEF EntriesKept, At, Lasting
  <2> DEFINE k == At(t, entry)
  <2>1. k \in Keys /\ k[1] = t /\ t # Source /\ t # Demo
    BY EntryKeys, PlacesDiffer
  <2>2. /\ record[k] # NoRecord => record[k].hash \in Lasting(entry)
        /\ undo[k] \in Lasting(entry) \cup {NoHash}
    BY DEF HeldInv, EntriesKept
  <2> SUFFICES /\ record'[k] # NoRecord => record'[k].hash \in Lasting(entry)
               /\ undo'[k] \in Lasting(entry) \cup {NoHash}
    OBVIOUS
  <2> HIDE DEF k
  <2>3. ~Fresh(k)
    BY <2>1 DEF Fresh
  <2>4. record'[k] = record[k] /\ undo'[k] = undo[k]
    BY <1>2, <2>1, <2>3
  <2> QED
    BY <2>2, <2>4
<1>4. \A i \in Creations : i >= 1 /\ i \in Nat
  BY CreationEntry, ProgramTyped
<1>5. CreationsKept'
  BY <1>2, <1>4 DEF CreationsKept
<1>6. AnswersTrue'
  <2> SUFFICES ASSUME NEW n \in DOMAIN TargetList PROVE ~(n <= Len(results'))
    BY DEF AnswersTrue
  <2>1. n >= 1 /\ n \in Nat
    <3>1. TargetList \in Seq(Targets)
      BY SourceAssumption
    <3> QED
      BY <3>1
  <2> QED
    BY <1>2, <2>1
<1> QED
  BY <1>1, <1>3, <1>5, <1>6 DEF HeldInv

(* Nor does the end of a backup.                                            *)
LEMMA ExpireHeld == HeldInv /\ TypeInv' /\ Expire => HeldInv'
<1> SUFFICES ASSUME HeldInv, TypeInv', Expire PROVE HeldInv'
  OBVIOUS
<1>1. UNCHANGED <<record, pc, results, failed>>
  BY DEF Expire
<1>2. PICK j \in Keys : undo' = [undo EXCEPT ![j] = NoHash]
  BY DEF Expire
<1>3. EntriesKept'
  <2> SUFFICES ASSUME NEW t \in Targets, NEW entry \in Entries
               PROVE  LET k == At(t, entry)
                      IN  /\ record'[k] # NoRecord => record'[k].hash \in Lasting(entry)
                          /\ undo'[k] \in Lasting(entry) \cup {NoHash}
    BY DEF EntriesKept, At, Lasting
  <2> DEFINE k == At(t, entry)
  <2>1. k \in Keys /\ undo \in [Keys -> Hashes \cup {NoHash}]
    BY EntryKeys DEF HeldInv, TypeInv, TypeOK
  <2>2. /\ record[k] # NoRecord => record[k].hash \in Lasting(entry)
        /\ undo[k] \in Lasting(entry) \cup {NoHash}
    BY DEF HeldInv, EntriesKept
  <2> SUFFICES /\ record'[k] # NoRecord => record'[k].hash \in Lasting(entry)
               /\ undo'[k] \in Lasting(entry) \cup {NoHash}
    OBVIOUS
  <2> HIDE DEF k
  <2>3. undo'[k] = undo[k] \/ undo'[k] = NoHash
    BY <1>2, <2>1
  <2> QED
    BY <1>1, <2>2, <2>3
<1>4. StillThere
  BY <1>1 DEF StillThere
<1>5. AnswersTrue' /\ CreationsKept'
  BY <1>1, <1>4, ReportsStay
<1> QED
  BY <1>3, <1>5 DEF HeldInv

(* Nor any step.                                                            *)
LEMMA NextHeld == HeldInv /\ [Next]_vars => HeldInv'
<1> SUFFICES ASSUME HeldInv, [Next]_vars PROVE HeldInv'
  OBVIOUS
<1>1. CASE BeginRun
  BY <1>1, BeginRunHeld
<1>2. CASE Answered
  BY <1>2, AnsweredHeld
<1>3. CASE Rejected
  BY <1>3, RejectedHeld
<1>4. CASE Settle
  BY <1>4, SettleHeld
<1>5. CASE Stop
  BY <1>5, StopHeld
<1>6. CASE Expire
  BY <1>6, ExpireHeld, NextTyped DEF HeldInv, Next
<1>7. CASE UNCHANGED vars
  <2>1. TypeInv'
    BY <1>7, NextTyped DEF HeldInv
  <2>2. EntriesKept' /\ StillThere
    BY <1>7 DEF HeldInv, EntriesKept, StillThere, At, Lasting, vars
  <2>3. AnswersTrue' /\ CreationsKept'
    BY <1>7, <2>2, ReportsStay DEF vars
  <2> QED
    BY <2>1, <2>2, <2>3 DEF HeldInv
<1> QED
  BY <1>1, <1>2, <1>3, <1>4, <1>5, <1>6, <1>7 DEF Next

(* A client of the plans or a row of the seed whose creation was reported as  *)
(* applied is stored on every target until the run ends and in every state    *)
(* after it, with a secret that the configuration names or that the target    *)
(* had: whatever was lost, stopped or expired, no answer was counted as a     *)
(* success for a target that has nothing.                                     *)
THEOREM AppliedHeld == Spec => []AppliedIsHeld
<1>1. HeldInv => AppliedIsHeld
  <2> SUFFICES ASSUME HeldInv, NEW i \in Creations, i < pc, i \notin failed, NEW t \in Targets
               PROVE  LET r == record[<<t, Program[i].store, Program[i].client>>]
                      IN  /\ r # NoRecord
                          /\ r.hash \in {Program[i].write.hash, ForeignHash}
                                \cup {RotatedSecret[row.secret] : row \in ToSet(SeedRows)}
    BY DEF AppliedIsHeld
  <2> DEFINE r == record[At(t, Program[i])]
  <2>1. r # NoRecord
    BY DEF HeldInv, CreationsKept
  <2>2. PICK entry \in Entries :
            Program[i].write.hash = entry.secret /\ At(t, Program[i]) = At(t, entry)
    BY CreationEntry
  <2>3. r.hash \in Lasting(entry)
    BY <2>1, <2>2 DEF HeldInv, EntriesKept
  <2> QED
    BY <2>1, <2>2, <2>3 DEF Lasting, At
<1> QED
  BY InitHeld, NextHeld, <1>1, PTL DEF Spec

-----------------------------------------------------------------------------
(* Where the planned creations and the reverts of the rows are in the        *)
(* program: first all plans, then all rows, then the rotations.              *)
PlansBegin == Len(LocalCredentials) + 1
PlansEnd   == Len(LocalCredentials) + Len(Plans)

(* A sequence that starts with another one.                                 *)
StartsWith(s, a) ==
    /\ s \in Seq(Instructions) /\ a \in Seq(Instructions)
    /\ Len(a) <= Len(s) /\ \A n \in 1..Len(a) : s[n] = a[n]

(* It still does when more is appended.                                     *)
LEMMA AppendedStart ==
    ASSUME NEW a, NEW s, NEW b \in Seq(Instructions), StartsWith(s, a)
    PROVE  StartsWith(s \o b, a)
<1>1. s \in Seq(Instructions) /\ a \in Seq(Instructions)
  BY DEF StartsWith
<1>2. /\ s \o b \in Seq(Instructions) /\ Len(s \o b) = Len(s) + Len(b)
      /\ \A n \in 1..Len(s) + Len(b) :
            (s \o b)[n] = IF n <= Len(s) THEN s[n] ELSE b[n - Len(s)]
  BY <1>1, ConcatProperties
<1>3. Len(s) \in Nat /\ Len(a) \in Nat /\ Len(b) \in Nat
  BY <1>1
<1> QED
  BY <1>1, <1>2, <1>3 DEF StartsWith

(* The program starts with its first four sections.                         *)
LEMMA FirstSections ==
    StartsWith(Program, LocalCredentials \o PlansSection \o SeedSection \o RevertDemo)
<1> DEFINE first == LocalCredentials \o PlansSection \o SeedSection \o RevertDemo
<1>1. first \in Seq(Instructions)
  <2>1. WellFormed(first)
    BY LocalCredentialsWellFormed, CreationsWellFormed, RevertDemoWellFormed, JoinWellFormed
  <2> QED
    BY <2>1 DEF WellFormed
<1>2. /\ RevertSuite \in Seq(Instructions) /\ CrudSuite \in Seq(Instructions)
      /\ ManagementSuite \in Seq(Instructions) /\ PreservationSuite \in Seq(Instructions)
      /\ HttpSweep \in Seq(Instructions) /\ MessageSweep \in Seq(Instructions)
      /\ Demonstration \in Seq(Instructions)
  BY RevertSuiteWellFormed, CrudSuiteWellFormed, ManagementSuiteWellFormed,
     PreservationSuiteWellFormed, SweepsWellFormed, DemonstrationWellFormed DEF WellFormed
<1>3. Program = first \o RevertSuite \o CrudSuite \o ManagementSuite \o PreservationSuite
                \o HttpSweep \o MessageSweep \o Demonstration
  BY DEF Program
<1> HIDE DEF first
<1>4. StartsWith(first, first)
  BY <1>1 DEF StartsWith
<1>5. StartsWith(first \o RevertSuite, first)
  BY <1>2, <1>4, AppendedStart
<1>6. StartsWith(first \o RevertSuite \o CrudSuite, first)
  BY <1>2, <1>5, AppendedStart
<1>7. StartsWith(first \o RevertSuite \o CrudSuite \o ManagementSuite, first)
  BY <1>2, <1>6, AppendedStart
<1>8. StartsWith(first \o RevertSuite \o CrudSuite \o ManagementSuite
                 \o PreservationSuite, first)
  BY <1>2, <1>7, AppendedStart
<1>9. StartsWith(first \o RevertSuite \o CrudSuite \o ManagementSuite
                 \o PreservationSuite \o HttpSweep, first)
  BY <1>2, <1>8, AppendedStart
<1>10. StartsWith(first \o RevertSuite \o CrudSuite \o ManagementSuite
                  \o PreservationSuite \o HttpSweep \o MessageSweep, first)
  BY <1>2, <1>9, AppendedStart
<1>11. StartsWith(Program, first)
  BY <1>2, <1>3, <1>10, AppendedStart
<1> QED
  BY <1>11 DEF first

(* The two parts of a sequence that was joined.                             *)
LEMMA Joined ==
    ASSUME NEW a \in Seq(Instructions), NEW b \in Seq(Instructions),
           NEW m, NEW k, Len(a) = m, Len(b) = k
    PROVE  /\ a \o b \in Seq(Instructions) /\ m \in Nat /\ k \in Nat /\ Len(a \o b) = m + k
           /\ \A n \in 1..m : (a \o b)[n] = a[n]
           /\ \A n \in 1..k : (a \o b)[m + n] = b[n]
<1>1. m \in Nat /\ k \in Nat
  OBVIOUS
<1>2. /\ a \o b \in Seq(Instructions) /\ Len(a \o b) = m + k
      /\ \A n \in 1..m + k : (a \o b)[n] = IF n <= m THEN a[n] ELSE b[n - m]
  BY ConcatProperties
<1>3. \A n \in 1..m : n \in 1..m + k /\ n <= m
  BY <1>1
<1>4. \A n \in 1..k : m + n \in 1..m + k /\ ~(m + n <= m) /\ (m + n) - m = n
  BY <1>1
<1> QED
  BY <1>1, <1>2, <1>3, <1>4

(* Each at its place.                                                       *)
LEMMA Sections ==
    LET L == Len(LocalCredentials)
        P == Len(Plans)
        R == Len(SeedRows)
    IN  /\ L \in Nat /\ P \in Nat /\ R \in Nat /\ L + P + R + 2 * R <= Len(Program)
        /\ \A n \in 1..L : Program[n] = LocalCredentials[n]
        /\ \A n \in 1..P : Program[L + n] = Planned(Plans[n], BootstrapId, FALSE)
        /\ \A n \in 1..R : Program[L + P + n] = Planned(SeedRows[n], SyncId, TRUE)
        /\ \A n \in 1..2 * R : Program[L + P + R + n] = RevertDemo[n]
<1> DEFINE L == Len(LocalCredentials)
           P == Len(Plans)
           R == Len(SeedRows)
           one == LocalCredentials \o PlansSection
           two == one \o SeedSection
           three == two \o RevertDemo
<1>1. /\ LocalCredentials \in Seq(Instructions) /\ PlansSection \in Seq(Instructions)
      /\ SeedSection \in Seq(Instructions) /\ RevertDemo \in Seq(Instructions)
  BY LocalCredentialsWellFormed, CreationsWellFormed, RevertDemoWellFormed DEF WellFormed
<1>2. /\ SeedRows \in Seq(Credentials) /\ HttpPlans \in Seq(Credentials)
      /\ MessagePlans \in Seq(Credentials)
  BY ListMembers
<1>3. Plans \in Seq(Credentials)
  BY <1>2, ConcatProperties DEF Plans
<1>4. L \in Nat /\ P \in Nat /\ R \in Nat
  BY <1>1, <1>2, <1>3
<1>5. Len(PlansSection) = P /\ \A n \in 1..P : PlansSection[n] = Planned(Plans[n], BootstrapId, FALSE)
  <2>1. PlansSection = [n \in DOMAIN Plans |-> Planned(Plans[n], BootstrapId, FALSE)]
    BY DEF PlansSection, ForAll
  <2>2. DOMAIN Plans = 1..P /\ DOMAIN PlansSection = 1..Len(PlansSection)
        /\ Len(PlansSection) \in Nat
    BY <1>1, <1>3
  <2> QED
    BY <1>4, <2>1, <2>2
<1>6. Len(SeedSection) = R /\ \A n \in 1..R : SeedSection[n] = Planned(SeedRows[n], SyncId, TRUE)
  <2>1. SeedSection = [n \in DOMAIN SeedRows |-> Planned(SeedRows[n], SyncId, TRUE)]
    BY DEF SeedSection, ForAll
  <2>2. DOMAIN SeedRows = 1..R /\ DOMAIN SeedSection = 1..Len(SeedSection)
        /\ Len(SeedSection) \in Nat
    BY <1>1, <1>2
  <2> QED
    BY <1>4, <2>1, <2>2
<1>7. Len(RevertDemo) = 2 * R
  BY <1>1, <1>4 DEF RevertDemo
<1> HIDE DEF L, P, R
<1>8. /\ one \in Seq(Instructions) /\ Len(one) = L + P
      /\ \A n \in 1..L : one[n] = LocalCredentials[n]
      /\ \A n \in 1..P : one[L + n] = PlansSection[n]
  <2>1. Len(LocalCredentials) = L
    BY DEF L
  <2> QED
    BY <1>1, <1>5, <2>1, Joined
<1> HIDE DEF one
<1>9. /\ two \in Seq(Instructions) /\ Len(two) = L + P + R
      /\ \A n \in 1..L + P : two[n] = one[n]
      /\ \A n \in 1..R : two[L + P + n] = SeedSection[n]
  BY <1>1, <1>6, <1>8, Joined
<1> HIDE DEF two
<1>10. /\ three \in Seq(Instructions) /\ Len(three) = L + P + R + 2 * R
       /\ \A n \in 1..L + P + R : three[n] = two[n]
       /\ \A n \in 1..2 * R : three[L + P + R + n] = RevertDemo[n]
  BY <1>1, <1>7, <1>9, Joined
<1>11. StartsWith(Program, three)
  BY FirstSections DEF three, two, one
<1> HIDE DEF three
<1>12. /\ L + P + R + 2 * R <= Len(Program)
       /\ \A n \in 1..L + P + R + 2 * R : Program[n] = three[n]
  BY <1>10, <1>11 DEF StartsWith
<1>13. ASSUME NEW n \in 1..L PROVE Program[n] = LocalCredentials[n]
  <2>1. n \in 1..L + P + R + 2 * R /\ n \in 1..L + P + R /\ n \in 1..L + P
    BY <1>4
  <2> QED
    BY <1>8, <1>9, <1>10, <1>12, <2>1
<1>14. ASSUME NEW n \in 1..P PROVE Program[L + n] = PlansSection[n]
  <2>1. /\ L + n \in 1..L + P + R + 2 * R /\ L + n \in 1..L + P + R /\ L + n \in 1..L + P
    BY <1>4
  <2> QED
    BY <1>8, <1>9, <1>10, <1>12, <2>1
<1>15. ASSUME NEW n \in 1..R PROVE Program[L + P + n] = SeedSection[n]
  <2>1. L + P + n \in 1..L + P + R + 2 * R /\ L + P + n \in 1..L + P + R
    BY <1>4
  <2> QED
    BY <1>9, <1>10, <1>12, <2>1
<1>16. ASSUME NEW n \in 1..2 * R PROVE Program[L + P + R + n] = RevertDemo[n]
  <2>1. L + P + R + n \in 1..L + P + R + 2 * R
    BY <1>4
  <2> QED
    BY <1>10, <1>12, <2>1
<1> QED
  BY <1>4, <1>5, <1>6, <1>12, <1>13, <1>14, <1>15, <1>16 DEF L, P, R

(* The creation of a client on the targets, signed by one that is stored    *)
(* with the secret of the process.                                          *)
Creates(i, client, store, signer) ==
    /\ i.operation = "create" /\ i.way = "route" /\ i.places = TargetList
    /\ i.by = signer /\ i.secret = SecretOf(signer)
    /\ i.client = client /\ i.store = store

(* The planned creations create.                                            *)
LEMMA PlannedCreates ==
    ASSUME NEW plan, NEW signer, NEW seeded
    PROVE  Creates(Planned(plan, signer, seeded), plan.client, plan.store, signer)
BY DEF Creates, Planned, Ask

(* The bootstrap client comes first, the client that signs the rows among    *)
(* the plans.                                                               *)
LEMMA SignersPlanned ==
    /\ PlansBegin \in DOMAIN Program /\ PlansEnd \in Nat /\ PlansBegin <= PlansEnd
    /\ Creates(Program[PlansBegin], BootstrapId, "http", BootstrapId)
    /\ \E n \in PlansBegin..PlansEnd :
          n \in DOMAIN Program /\ Creates(Program[n], SyncId, "http", BootstrapId)
<1> DEFINE L == Len(LocalCredentials)
           P == Len(Plans)
<1>1. /\ L \in Nat /\ P \in Nat /\ Len(Program) \in Nat /\ L + P <= Len(Program)
      /\ \A n \in 1..P : Program[L + n] = Planned(Plans[n], BootstrapId, FALSE)
  <2> DEFINE R == Len(SeedRows)
  <2>1. /\ L \in Nat /\ P \in Nat /\ R \in Nat /\ L + P + R + 2 * R <= Len(Program)
        /\ \A n \in 1..P : Program[L + n] = Planned(Plans[n], BootstrapId, FALSE)
    BY Sections
  <2> HIDE DEF L, P, R
  <2>2. Len(Program) \in Nat
    BY ProgramTyped
  <2>3. L + P <= Len(Program)
    BY <2>1, <2>2
  <2> QED
    BY <2>1, <2>2, <2>3, Zenon
<1>2. /\ HttpPlans \in Seq(Credentials) /\ MessagePlans \in Seq(Credentials)
  BY ListMembers
<1>3. /\ P = Len(HttpPlans) + Len(MessagePlans)
      /\ \A n \in 1..Len(HttpPlans) : n \in 1..P /\ Plans[n] = HttpPlans[n]
  BY <1>2, ConcatProperties DEF Plans
<1> HIDE DEF P
<1>4. ASSUME NEW n \in 1..Len(HttpPlans)
      PROVE  /\ L + n \in PlansBegin..PlansEnd /\ L + n \in DOMAIN Program
             /\ Creates(Program[L + n], HttpPlans[n].client, "http", BootstrapId)
  <2>1. HttpPlans[n].store = "http"
    BY <1>2, SignersAssumption DEF ToSet
  <2>2. Creates(Program[L + n], HttpPlans[n].client, "http", BootstrapId)
    BY <1>1, <1>3, <2>1, PlannedCreates
  <2>3. n \in 1..P
    BY <1>3
  <2> QED
    BY <1>1, <2>2, <2>3, ProgramTyped DEF PlansBegin, PlansEnd, P
<1>5. 1 \in 1..Len(HttpPlans) /\ HttpPlans[1].client = BootstrapId
  BY <1>2, SignersAssumption
<1>6. PICK n \in 1..Len(HttpPlans) : HttpPlans[n].client = SyncId
  BY <1>2, SignersAssumption DEF ToSet
<1>7. L + 1 = PlansBegin /\ PlansEnd \in Nat
  BY <1>1 DEF PlansBegin, PlansEnd, P
<1>8. PlansBegin <= PlansEnd
  BY <1>1, <1>4, <1>5, <1>7
<1> QED
  BY <1>4, <1>5, <1>6, <1>7, <1>8

(* The process stores its own credentials first.                            *)
LEMMA EnsuredFirst ==
    ASSUME NEW n \in 1..Len(LocalCredentials)
    PROVE  LocalCredentials[n].operation = "ensure"
<1> DEFINE messages ==
               ForAll(MessageCredentials, LAMBDA c :
                   OfStore(Local("ensure", c.client,
                                 [Write(c.secret, Unset) EXCEPT !.allowedIps = Unset], Answers),
                           "message"))
           https ==
               ForAll(HttpCredentials, LAMBDA c :
                   Local("ensure", c.client, Write(c.secret, Unset), Answers))
           S == {messages[m] : m \in DOMAIN messages} \cup {https[m] : m \in DOMAIN https}
<1>1. /\ \A m \in DOMAIN messages : messages[m].operation = "ensure"
      /\ \A m \in DOMAIN https : https[m].operation = "ensure"
  BY DEF ForAll, OfStore, Local, Ask
<1>2. /\ messages = [m \in 1..Len(MessageCredentials) |-> messages[m]]
      /\ https = [m \in 1..Len(HttpCredentials) |-> https[m]]
      /\ Len(MessageCredentials) \in Nat /\ Len(HttpCredentials) \in Nat
  BY ListMembers DEF ForAll
<1>3. LocalCredentials = messages \o https
  BY DEF LocalCredentials
<1> HIDE DEF messages, https
<1>4. messages \in Seq(S) /\ https \in Seq(S)
  BY <1>2
<1>5. \A i \in S : i.operation = "ensure"
  BY <1>1
<1> HIDE DEF S
<1>6. LocalCredentials \in Seq(S)
  BY <1>3, <1>4, ConcatProperties
<1> QED
  BY <1>5, <1>6

(* Every row is created and reverted after the plans, and no row is reverted  *)
(* before.                                                                  *)
LEMMA RowsPlanned ==
    ASSUME NEW row \in ToSet(SeedRows)
    PROVE  /\ \E n \in DOMAIN Program :
                 n > PlansEnd /\ Creates(Program[n], row.client, row.store, SyncId)
           /\ \E n \in DOMAIN Program : Undoes(Program[n], row.client, row.store)
           /\ \A n \in DOMAIN Program :
                 Undoes(Program[n], row.client, row.store) => n > PlansEnd
<1> DEFINE L == Len(LocalCredentials)
           P == Len(Plans)
           R == Len(SeedRows)
<1>1. /\ L \in Nat /\ P \in Nat /\ R \in Nat /\ Len(Program) \in Nat
      /\ L + P + R + 2 * R <= Len(Program)
      /\ \A n \in 1..L : Program[n] = LocalCredentials[n]
      /\ \A n \in 1..P : Program[L + n] = Planned(Plans[n], BootstrapId, FALSE)
      /\ \A n \in 1..R : Program[L + P + n] = Planned(SeedRows[n], SyncId, TRUE)
      /\ \A n \in 1..2 * R : Program[L + P + R + n] = RevertDemo[n]
  BY Sections, ProgramTyped
<1>2. PICK j \in 1..R : SeedRows[j] = row
  <2>1. SeedRows \in Seq(Credentials)
    BY ListMembers
  <2> QED
    BY <2>1 DEF ToSet
<1>3. DOMAIN Program = 1..Len(Program) /\ PlansEnd = L + P
  BY ProgramTyped DEF PlansEnd
<1> HIDE DEF L, P, R
<1>4. \E n \in DOMAIN Program :
         n > PlansEnd /\ Creates(Program[n], row.client, row.store, SyncId)
  <2>1. L + P + j \in DOMAIN Program /\ L + P + j > PlansEnd
    BY <1>1, <1>2, <1>3
  <2>2. Creates(Program[L + P + j], row.client, row.store, SyncId)
    BY <1>1, <1>2, PlannedCreates
  <2> QED
    BY <2>1, <2>2
<1>5. \E n \in DOMAIN Program : Undoes(Program[n], row.client, row.store)
  <2> DEFINE m == 2 * j
  <2>1. m \in 1..2 * R /\ (m + 1) \div 2 = j /\ m % 2 = 0 /\ L + P + R + m \in 1..Len(Program)
    BY <1>1, <1>2
  <2> HIDE DEF m
  <2>2. 2 - (m % 2) = 2
    BY <2>1
  <2>3. RevertDemo[m] = RotateAndRevert(SeedRows[(m + 1) \div 2])[2 - (m % 2)]
    BY <2>1 DEF RevertDemo, R
  <2>4. Program[L + P + R + m] = RotateAndRevert(row)[2]
    BY <1>1, <1>2, <2>1, <2>2, <2>3
  <2> QED
    BY <1>3, <2>1, <2>4, RotateAndRevertForms
<1>6. ASSUME NEW n \in DOMAIN Program, Undoes(Program[n], row.client, row.store)
      PROVE  n > PlansEnd
  <2>1. CASE n <= L
    <3>1. n \in 1..L /\ n \in 1..Len(LocalCredentials)
      BY <1>1, <1>3, <2>1 DEF L
    <3>2. LocalCredentials[n].operation = "ensure"
      BY <3>1, EnsuredFirst
    <3> QED
      BY <1>1, <1>6, <3>1, <3>2 DEF Undoes
  <2>2. CASE ~(n <= L) /\ n <= L + P
    <3>1. n - L \in 1..P /\ L + (n - L) = n
      BY <1>1, <1>3, <2>2
    <3>2. Program[n] = Planned(Plans[n - L], BootstrapId, FALSE)
      BY <1>1, <3>1
    <3>3. Creates(Program[n], Plans[n - L].client, Plans[n - L].store, BootstrapId)
      BY <3>2, PlannedCreates
    <3> QED
      BY <1>6, <3>3 DEF Undoes, Creates
  <2> QED
    BY <1>1, <1>3, <2>1, <2>2
<1> QED
  BY <1>4, <1>5, <1>6

-----------------------------------------------------------------------------
(* What is on the targets can be put right again.                           *)
Signers == {BootstrapId, SyncId}

Http(t, client) == <<t, "http", client>>

(* A row has its own secret, the one the target had or the one it is rotated *)
(* to, and then the backup is there unless one has expired.                  *)
RowsRestorable ==
    \A t \in Targets, row \in ToSet(SeedRows) :
        LET k == At(t, row)
        IN  /\ record[k] # NoRecord =>
                   record[k].hash \in {row.secret, ForeignHash, RotatedSecret[row.secret]}
            /\ undo[k] \in {row.secret, ForeignHash, NoHash}
            /\ /\ ~expired /\ record[k] # NoRecord
               /\ record[k].hash \notin {row.secret, ForeignHash}
               => undo[k] # NoHash

(* The clients that sign are never rotated.                                 *)
SignersKept ==
    \A t \in Targets, client \in Signers :
        LET k == Http(t, client)
        IN  /\ record[k] # NoRecord => record[k].hash \in {SecretOf(client), ForeignHash}
            /\ undo[k] = NoHash

(* A target that stores anybody stores the bootstrap client.                *)
Opened ==
    \A t \in Targets, client \in ClientIds :
        record[Http(t, client)] # NoRecord => record[Http(t, BootstrapId)] # NoRecord

RestorableInv == RowsRestorable /\ SignersKept /\ Opened

(* No step changes the secret of a client that signs, once it is stored.     *)
SignersStay ==
    \A t \in Targets, client \in Signers :
        LET k == Http(t, client)
        IN  record[k] # NoRecord => record'[k] # NoRecord /\ record'[k].hash = record[k].hash

(* What is asked of the targets about an entry.                             *)
LEMMA EntryOrders ==
    ASSUME NEW t \in Targets, NEW entry \in Entries, NEW i \in Instructions,
           i.places = TargetList, KeyOf(t, i) = At(t, entry)
    PROVE  /\ i.way = "route" /\ i.write \in PossibleWrites
           /\ i.client = entry.client /\ i.store = entry.store
           /\ i.operation \in {"create", "update", "revert", "health", "fetch", "verify"}
           /\ i.operation = "create" => i.write.hash = entry.secret
           /\ i.operation = "update" =>
                 /\ IsRow(entry.client, entry.store)
                 /\ i.write.hash = RotatedSecret[entry.secret] /\ i.write.fromDbSeed = TRUE
<1>1. i.way = "route" /\ i.write \in PossibleWrites /\ Spares(i)
  BY DEF Instructions, LocalFactory, Orders
<1>2. i.client = entry.client
  BY DEF KeyOf, At
<1>3. i.operation \in {"create", "update", "revert", "health", "fetch", "verify"}
  BY <1>1, <1>2 DEF Spares
<1>4. i.store = entry.store
  <2>1. KeyOf(t, i) = <<t, i.store, i.client>>
    BY <1>3 DEF KeyOf
  <2> QED
    BY <2>1 DEF At
<1> QED
  BY <1>1, <1>2, <1>3, <1>4 DEF Spares

(* An instruction that is obeyed leaves a row so that it can be put right,   *)
(* and only a rotation makes it need that.                                   *)
LEMMA NewRecordRestorable ==
    ASSUME StoresTyped, RowsRestorable, NEW t \in Targets, NEW row \in ToSet(SeedRows),
           NEW i \in Instructions, i.places = TargetList, Acts(t, i),
           KeyOf(t, i) = At(t, row)
    PROVE  LET k == At(t, row)
               new == NewRecord(k, i)
           IN  /\ new # NoRecord =>
                      new.hash \in {row.secret, ForeignHash, RotatedSecret[row.secret]}
               /\ NewUndo(k, i) \in {row.secret, ForeignHash, NoHash}
               /\ ~expired /\ new # NoRecord /\ new.hash \notin {row.secret, ForeignHash} =>
                      /\ NewUndo(k, i) # NoHash
                      /\ \/ i.operation = "update"
                         \/ i.operation # "revert" /\ new = record[k]
<1> DEFINE k == At(t, row)
           new == NewRecord(k, i)
<1>1. row \in Entries
  BY EntryLists
<1>2. /\ i.way = "route" /\ i.write \in PossibleWrites
      /\ i.operation \in {"create", "update", "revert", "health", "fetch", "verify"}
      /\ i.operation = "create" => i.write.hash = row.secret
      /\ i.operation = "update" =>
            i.write.hash = RotatedSecret[row.secret] /\ i.write.fromDbSeed = TRUE
  BY <1>1, EntryOrders
<1>3. /\ row.secret \in Hashes /\ RotatedSecret[row.secret] \in Hashes
      /\ ForeignHash \in Hashes /\ NoHash \notin Hashes
  BY <1>1, EntryLists, SourceAssumption DEF Credentials
<1>4. k \in Keys
  BY <1>1, EntryKeys
<1>5. /\ record[k] \in Records \cup {NoRecord} /\ undo[k] \in Hashes \cup {NoHash}
      /\ record[k] # NoRecord =>
            record[k].hash \in {row.secret, ForeignHash, RotatedSecret[row.secret]}
      /\ undo[k] \in {row.secret, ForeignHash, NoHash}
      /\ ~expired /\ record[k] # NoRecord /\ record[k].hash \notin {row.secret, ForeignHash}
         => undo[k] # NoHash
  BY <1>4 DEF StoresTyped, RowsRestorable
<1>6. RouteAnswer(t, i) \notin Refusals /\ KeyOf(t, i) = k
  BY <1>2 DEF Acts
<1> SUFFICES /\ new # NoRecord =>
                    new.hash \in {row.secret, ForeignHash, RotatedSecret[row.secret]}
             /\ NewUndo(k, i) \in {row.secret, ForeignHash, NoHash}
             /\ ~expired /\ new # NoRecord /\ new.hash \notin {row.secret, ForeignHash} =>
                    /\ NewUndo(k, i) # NoHash
                    /\ \/ i.operation = "update"
                       \/ i.operation # "revert" /\ new = record[k]
  OBVIOUS
<1> HIDE DEF k
<1>7. CASE i.operation = "create"
  <2>1. new = Rotated(record[k], i.write)
    BY <1>2, <1>7, NewRecordOf
  <2>2. new.hash = row.secret
    BY <1>2, <1>3, <1>5, <1>7, <2>1, RecordsMade
  <2>3. NewUndo(k, i) = undo[k]
    BY <1>7 DEF NewUndo
  <2> QED
    BY <1>5, <2>2, <2>3
<1>8. CASE i.operation = "update"
  <2>1. record[k] # NoRecord
    BY <1>6, <1>8 DEF RouteAnswer, Refusals
  <2>2. new = Rotated(record[k], i.write)
    BY <1>8, NewRecordOf
  <2>3. new.hash = RotatedSecret[row.secret]
    BY <1>2, <1>3, <1>5, <1>8, <2>2, RecordsMade
  <2>4. NewUndo(k, i) = IF record[k].hash # i.write.hash THEN record[k].hash ELSE undo[k]
    BY <1>2, <1>8, <2>1 DEF NewUndo, NeedsBackup
  <2>5. record[k].hash \in Hashes
    BY <1>5, <2>1 DEF Records
  <2> QED
    BY <1>2, <1>3, <1>5, <1>8, <2>1, <2>3, <2>4, <2>5
<1>9. CASE i.operation = "revert"
  <2>1. /\ new = IF Reverts(k) THEN Reverted(record[k], undo[k]) ELSE record[k]
        /\ NewUndo(k, i) = NoHash
    BY <1>9, NewRecordOf DEF NewUndo
  <2>2. CASE Reverts(k)
    <3>1. record[k] \in Records /\ undo[k] \in Hashes
      BY <1>5, <2>2 DEF Reverts
    <3>2. Reverted(record[k], undo[k]).hash = undo[k]
      BY <1>2, <3>1, RecordsAmended
    <3> QED
      BY <1>3, <1>5, <2>1, <2>2, <3>1, <3>2
  <2>3. CASE ~Reverts(k)
    BY <1>5, <2>1, <2>3 DEF Reverts
  <2> QED
    BY <2>2, <2>3
<1>10. CASE i.operation \in {"health", "fetch", "verify"}
  <2>1. new = record[k]
    BY <1>10, NewRecordOf
  <2>2. NewUndo(k, i) = undo[k]
    BY <1>10 DEF NewUndo
  <2> QED
    BY <1>5, <1>10, <2>1, <2>2
<1> QED
  BY <1>2, <1>7, <1>8, <1>9, <1>10

(* The clients that sign are planned, and are no rows.                      *)
LEMMA SignerEntries ==
    ASSUME NEW client \in Signers
    PROVE  \E entry \in Entries :
              /\ entry.client = client /\ entry.store = "http"
              /\ entry.secret = SecretOf(client) /\ ~IsRow(client, "http")
<1>1. HttpPlans \in Seq(Credentials)
  BY ListMembers
<1>2. 1 \in DOMAIN HttpPlans /\ HttpPlans[1] \in ToSet(HttpPlans)
  BY <1>1, SignersAssumption DEF ToSet
<1>3. PICK plan \in ToSet(HttpPlans) : plan.client = client
  BY <1>2, SignersAssumption DEF Signers
<1>4. plan \in Entries /\ plan.store = "http" /\ plan.secret = SecretOf(client)
  BY <1>3, EntryLists, SignersAssumption
<1>5. ~IsRow(client, "http")
  BY SignersAssumption DEF IsRow, Signers
<1> QED
  BY <1>3, <1>4, <1>5

(* An instruction that is obeyed leaves a stored signer as it is.            *)
LEMMA NewRecordSigner ==
    ASSUME StoresTyped, SignersKept, NEW t \in Targets, NEW client \in Signers,
           NEW i \in Instructions, i.places = TargetList, Acts(t, i),
           KeyOf(t, i) = Http(t, client)
    PROVE  LET k == Http(t, client)
               new == NewRecord(k, i)
           IN  /\ new # NoRecord => new.hash \in {SecretOf(client), ForeignHash}
               /\ NewUndo(k, i) = NoHash
               /\ record[k] # NoRecord => new # NoRecord /\ new.hash = record[k].hash
<1> DEFINE k == Http(t, client)
           new == NewRecord(k, i)
<1>1. PICK entry \in Entries :
          /\ entry.client = client /\ entry.store = "http"
          /\ entry.secret = SecretOf(client) /\ ~IsRow(client, "http")
  BY SignerEntries
<1>2. k = At(t, entry)
  BY <1>1 DEF At, Http
<1>3. /\ i.way = "route" /\ i.write \in PossibleWrites
      /\ i.operation \in {"create", "revert", "health", "fetch", "verify"}
      /\ i.operation = "create" => i.write.hash = SecretOf(client)
  <2>1. KeyOf(t, i) = At(t, entry)
    BY <1>2
  <2>2. /\ i.way = "route" /\ i.write \in PossibleWrites
        /\ i.operation \in {"create", "update", "revert", "health", "fetch", "verify"}
        /\ i.operation = "create" => i.write.hash = entry.secret
        /\ i.operation = "update" => IsRow(entry.client, entry.store)
    BY <2>1, EntryOrders
  <2> QED
    BY <1>1, <2>2
<1>4. k \in Keys /\ SecretOf(client) \in Hashes /\ NoHash \notin Hashes
  BY <1>1, <1>2, EntryKeys, EntryLists, SourceAssumption DEF Credentials
<1>5. /\ record[k] \in Records \cup {NoRecord} /\ undo[k] = NoHash
      /\ record[k] # NoRecord => record[k].hash \in {SecretOf(client), ForeignHash}
  BY <1>4 DEF StoresTyped, SignersKept
<1>6. RouteAnswer(t, i) \notin Refusals /\ KeyOf(t, i) = k
  BY <1>3 DEF Acts
<1> SUFFICES /\ new # NoRecord => new.hash \in {SecretOf(client), ForeignHash}
             /\ NewUndo(k, i) = NoHash
             /\ record[k] # NoRecord => new # NoRecord /\ new.hash = record[k].hash
  OBVIOUS
<1> HIDE DEF k
<1>7. NewUndo(k, i) = NoHash
  BY <1>3, <1>5 DEF NewUndo
<1>8. CASE i.operation = "create"
  <2>1. record[k] = NoRecord
    BY <1>6, <1>8 DEF RouteAnswer, Refusals
  <2>2. new = Rotated(record[k], i.write)
    BY <1>3, <1>8, NewRecordOf
  <2>3. new.hash = SecretOf(client)
    BY <1>3, <1>4, <1>5, <1>8, <2>2, RecordsMade
  <2> QED
    BY <1>7, <2>1, <2>3
<1>9. CASE i.operation # "create"
  <2>1. new = record[k]
    <3>1. i.operation = "revert" => new = IF Reverts(k) THEN Reverted(record[k], undo[k]) ELSE record[k]
      BY NewRecordOf
    <3>2. i.operation \in {"health", "fetch", "verify"} => new = record[k]
      BY NewRecordOf
    <3> QED
      BY <1>3, <1>5, <1>9, <3>1, <3>2 DEF Reverts
  <2> QED
    BY <1>5, <1>7, <2>1
<1> QED
  BY <1>8, <1>9

(* A target that stores nobody stores the bootstrap client first.           *)
LEMMA FirstIsBootstrap ==
    ASSUME NEW t \in Targets, NEW client \in ClientIds, NEW i \in Instructions,
           i.places = TargetList, Acts(t, i), Listed(t) = {},
           KeyOf(t, i) = Http(t, client), NewRecord(Http(t, client), i) # NoRecord
    PROVE  client = BootstrapId
<1> DEFINE k == Http(t, client)
<1>1. i.way = "route" /\ RouteAnswer(t, i) \notin Refusals
  BY DEF Instructions, LocalFactory, Orders, Acts
<1>2. record[k] = NoRecord
  BY DEF Listed, Stored, Http
<1>3. client = i.client
  BY DEF KeyOf, Http
<1> HIDE DEF k
<1>4. i.operation \notin {"verify", "health", "fetch"}
  <2>1. i.operation \in {"verify", "health", "fetch"} => NewRecord(k, i) = record[k]
    BY NewRecordOf
  <2> QED
    BY <1>2, <2>1 DEF k
<1>5. Admitted(t, i)
  BY <1>1, <1>4 DEF RouteAnswer, Refusals
<1> QED
  BY <1>3, <1>4, <1>5 DEF Admitted

(* What a step does to the targets: nothing, or it asks one, or a backup     *)
(* expires.                                                                 *)
TargetsIdle ==
    \A k \in Keys : k[1] \in Targets => record'[k] = record[k] /\ undo'[k] = undo[k]

TargetAsked ==
    /\ Asking /\ Now \in Instructions /\ Place \in Targets
    /\ Now.places = TargetList /\ Does(Place, Now)

(* The step of a place is one or the other.                                 *)
LEMMA PlaceSteps ==
    ASSUME TypeInv, Asking, Does(Place, Now)
    PROVE  /\ Place \in Targets => TargetAsked
           /\ Place \notin Targets => TargetsIdle /\ Now.places # TargetList
<1>1. StoresTyped /\ results \in Seq(Answers)
  BY DEF TypeInv, TypeOK, StoresTyped
<1>2. /\ Now \in Instructions /\ Place \in Places
      /\ Place \in Targets <=> Now.places = TargetList
  BY <1>1, AskedPlace
<1>3. CASE Place \in Targets
  BY <1>2, <1>3 DEF TargetAsked
<1>4. CASE Place \notin Targets
  <2> DEFINE j == KeyOf(Place, Now)
  <2>1. j[1] = Place
    BY DEF KeyOf
  <2>2. /\ record' = [record EXCEPT ![j] = IF Acts(Place, Now) THEN NewRecord(j, Now) ELSE @]
        /\ undo'   = [undo EXCEPT ![j] = IF Acts(Place, Now) THEN NewUndo(j, Now) ELSE @]
    BY DEF Does, Acts
  <2> HIDE DEF j
  <2>3. TargetsIdle
    BY <1>1, <1>4, <2>1, <2>2 DEF StoresTyped, TargetsIdle
  <2> QED
    BY <1>2, <1>4, <2>3
<1> QED
  BY <1>3, <1>4

(* Every step.                                                              *)
LEMMA TargetSteps ==
    ASSUME TypeInv, [Next]_vars
    PROVE  TargetsIdle \/ TargetAsked \/ Expire
<1>1. StoresTyped /\ results \in Seq(Answers)
  BY DEF TypeInv, TypeOK, StoresTyped
<1>2. CASE UNCHANGED <<record, undo>>
  BY <1>2 DEF TargetsIdle
<1>3. CASE BeginRun
  <2>1. \A k \in Keys : k[1] \in Targets => ~Fresh(k)
    BY PlacesDiffer DEF Fresh
  <2> QED
    BY <1>3, <2>1 DEF BeginRun, TargetsIdle
<1>4. CASE Answered
  BY <1>4, PlaceSteps DEF Answered
<1>5. CASE Rejected
  BY <1>2, <1>5, PlaceSteps DEF Rejected
<1>6. CASE Stop
  <2>1. CASE Asking /\ Does(Place, Now)
    BY <2>1, PlaceSteps
  <2>2. CASE /\ Asking /\ Now.way = "factory"
             /\ LET k == KeyOf(Place, Now)
                IN  \/ /\ Now.operation = "set"
                       /\ undo' = [undo EXCEPT ![k] = NewUndo(k, Now)]
                       /\ UNCHANGED record
                    \/ /\ Now.operation = "revert"
                       /\ record' = [record EXCEPT ![k] = NewRecord(k, Now)]
                       /\ UNCHANGED undo
    <3> DEFINE j == KeyOf(Place, Now)
    <3>1. j[1] = Place /\ Place \notin Targets
      BY <1>1, <2>2, AskedPlace DEF KeyOf, Instructions, LocalFactory
    <3>2. /\ record' = record \/ record' = [record EXCEPT ![j] = NewRecord(j, Now)]
          /\ undo' = undo \/ undo' = [undo EXCEPT ![j] = NewUndo(j, Now)]
      BY <2>2
    <3> HIDE DEF j
    <3> QED
      BY <1>1, <3>1, <3>2 DEF StoresTyped, TargetsIdle
  <2> QED
    BY <1>2, <1>6, <2>1, <2>2 DEF Stop, Interrupted
<1> QED
  BY <1>2, <1>3, <1>4, <1>5, <1>6 DEF Next, Settle, vars

(* What the target that is asked has then.                                  *)
LEMMA AskedEffect ==
    ASSUME StoresTyped, TargetAsked, NEW k \in Keys
    PROVE  IF k = KeyOf(Place, Now) /\ Acts(Place, Now)
           THEN /\ record'[k] = NewRecord(k, Now) /\ undo'[k] = NewUndo(k, Now)
                /\ Place = k[1]
           ELSE record'[k] = record[k] /\ undo'[k] = undo[k]
<1> DEFINE j == KeyOf(Place, Now)
<1>1. /\ record' = [record EXCEPT ![j] = IF Acts(Place, Now) THEN NewRecord(j, Now) ELSE @]
      /\ undo'   = [undo EXCEPT ![j] = IF Acts(Place, Now) THEN NewUndo(j, Now) ELSE @]
  BY DEF TargetAsked, Does, Acts
<1>2. j[1] = Place
  BY DEF KeyOf
<1> SUFFICES IF k = j /\ Acts(Place, Now)
             THEN /\ record'[k] = NewRecord(k, Now) /\ undo'[k] = NewUndo(k, Now)
                  /\ Place = k[1]
             ELSE record'[k] = record[k] /\ undo'[k] = undo[k]
  OBVIOUS
<1> HIDE DEF j
<1>3. record'[k] = IF k = j /\ Acts(Place, Now) THEN NewRecord(k, Now) ELSE record[k]
  BY <1>1 DEF StoresTyped
<1>4. undo'[k] = IF k = j /\ Acts(Place, Now) THEN NewUndo(k, Now) ELSE undo[k]
  BY <1>1 DEF StoresTyped
<1> QED
  BY <1>2, <1>3, <1>4

(* The keys of the clients that sign.                                       *)
LEMMA HttpKeys ==
    ASSUME NEW t \in Targets, NEW client \in ClientIds
    PROVE  Http(t, client) \in Keys /\ Http(t, client)[1] = t
BY DEF Http, Keys, Places, Stores

(* Who signs is a client.                                                  *)
LEMMA SignersAreClients == Signers \subseteq ClientIds
BY SourceAssumption DEF Signers

(* Asking a target keeps everything restorable.                             *)
LEMMA AskedRestorable ==
    ASSUME StoresTyped, RestorableInv, TargetAsked, UNCHANGED expired
    PROVE  RestorableInv' /\ SignersStay
<1>0. Now \in Instructions /\ Now.places = TargetList /\ Place \in Targets
  BY DEF TargetAsked
<1>1. RowsRestorable'
  <2> SUFFICES ASSUME NEW t \in Targets, NEW row \in ToSet(SeedRows)
               PROVE  LET k == At(t, row)
                      IN  /\ record'[k] # NoRecord =>
                                record'[k].hash \in
                                    {row.secret, ForeignHash, RotatedSecret[row.secret]}
                          /\ undo'[k] \in {row.secret, ForeignHash, NoHash}
                          /\ /\ ~expired /\ record'[k] # NoRecord
                             /\ record'[k].hash \notin {row.secret, ForeignHash}
                             => undo'[k] # NoHash
    BY DEF RowsRestorable, At
  <2> DEFINE k == At(t, row)
  <2>1. k \in Keys /\ k[1] = t
    BY EntryLists, EntryKeys
  <2>2. /\ record[k] # NoRecord =>
              record[k].hash \in {row.secret, ForeignHash, RotatedSecret[row.secret]}
        /\ undo[k] \in {row.secret, ForeignHash, NoHash}
        /\ /\ ~expired /\ record[k] # NoRecord
           /\ record[k].hash \notin {row.secret, ForeignHash}
           => undo[k] # NoHash
    BY DEF RestorableInv, RowsRestorable
  <2>3. CASE k = KeyOf(Place, Now) /\ Acts(Place, Now)
    <3>1. record'[k] = NewRecord(k, Now) /\ undo'[k] = NewUndo(k, Now) /\ Place = t
      BY <2>1, <2>3, AskedEffect
    <3>2. /\ NewRecord(k, Now) # NoRecord =>
                NewRecord(k, Now).hash \in {row.secret, ForeignHash, RotatedSecret[row.secret]}
          /\ NewUndo(k, Now) \in {row.secret, ForeignHash, NoHash}
          /\ /\ ~expired /\ NewRecord(k, Now) # NoRecord
             /\ NewRecord(k, Now).hash \notin {row.secret, ForeignHash}
             => NewUndo(k, Now) # NoHash
      BY <1>0, <2>3, <3>1, NewRecordRestorable DEF RestorableInv
    <3> HIDE DEF k
    <3> QED
      BY <3>1, <3>2 DEF k
  <2>4. CASE ~(k = KeyOf(Place, Now) /\ Acts(Place, Now))
    <3>1. record'[k] = record[k] /\ undo'[k] = undo[k]
      BY <2>1, <2>4, AskedEffect
    <3> HIDE DEF k
    <3> QED
      BY <2>2, <3>1 DEF k
  <2> QED
    BY <2>3, <2>4
<1>2. SignersKept' /\ SignersStay
  <2> SUFFICES ASSUME NEW t \in Targets, NEW client \in Signers
               PROVE  LET k == Http(t, client)
                      IN  /\ record'[k] # NoRecord =>
                                record'[k].hash \in {SecretOf(client), ForeignHash}
                          /\ undo'[k] = NoHash
                          /\ record[k] # NoRecord =>
                                record'[k] # NoRecord /\ record'[k].hash = record[k].hash
    BY DEF SignersKept, SignersStay, Http
  <2> DEFINE k == Http(t, client)
  <2>1. k \in Keys /\ k[1] = t
    BY HttpKeys, SignersAreClients
  <2>2. /\ record[k] # NoRecord => record[k].hash \in {SecretOf(client), ForeignHash}
        /\ undo[k] = NoHash
    BY DEF RestorableInv, SignersKept
  <2>3. CASE k = KeyOf(Place, Now) /\ Acts(Place, Now)
    <3>1. record'[k] = NewRecord(k, Now) /\ undo'[k] = NewUndo(k, Now) /\ Place = t
      BY <2>1, <2>3, AskedEffect
    <3>2. /\ NewRecord(k, Now) # NoRecord =>
                NewRecord(k, Now).hash \in {SecretOf(client), ForeignHash}
          /\ NewUndo(k, Now) = NoHash
          /\ record[k] # NoRecord =>
                NewRecord(k, Now) # NoRecord /\ NewRecord(k, Now).hash = record[k].hash
      BY <1>0, <2>3, <3>1, NewRecordSigner DEF RestorableInv
    <3> HIDE DEF k
    <3> QED
      BY <3>1, <3>2 DEF k
  <2>4. CASE ~(k = KeyOf(Place, Now) /\ Acts(Place, Now))
    <3>1. record'[k] = record[k] /\ undo'[k] = undo[k]
      BY <2>1, <2>4, AskedEffect
    <3> HIDE DEF k
    <3> QED
      BY <2>2, <3>1 DEF k
  <2> QED
    BY <2>3, <2>4
<1>3. Opened'
  <2> SUFFICES ASSUME NEW t \in Targets, NEW client \in ClientIds,
                      record'[Http(t, client)] # NoRecord
               PROVE  record'[Http(t, BootstrapId)] # NoRecord
    BY DEF Opened, Http
  <2>1. CASE record[Http(t, BootstrapId)] # NoRecord
    BY <1>2, <2>1 DEF SignersStay, Signers
  <2>2. CASE record[Http(t, BootstrapId)] = NoRecord
    <3>1. Listed(t) = {}
      BY <2>2 DEF RestorableInv, Opened, Listed, Stored, Http
    <3>2. record[Http(t, client)] = NoRecord /\ Http(t, client) \in Keys
      BY <2>2, HttpKeys DEF RestorableInv, Opened
    <3>3. /\ Http(t, client) = KeyOf(Place, Now) /\ Acts(Place, Now) /\ Place = t
          /\ NewRecord(Http(t, client), Now) # NoRecord
      BY <3>2, HttpKeys, AskedEffect
    <3>4. client = BootstrapId
      BY <1>0, <3>1, <3>3, FirstIsBootstrap
    <3> QED
      BY <3>4
  <2> QED
    BY <2>1, <2>2
<1> QED
  BY <1>1, <1>2, <1>3 DEF RestorableInv

(* Nothing is out of order on the targets at first.                         *)
LEMMA InitRestorable == Init => RestorableInv
<1> SUFFICES ASSUME Init PROVE RestorableInv
  OBVIOUS
<1>1. PICK start \in InitialTargets :
          record = [k \in Keys |-> IF k[1] \in Targets THEN start[k] ELSE NoRecord]
  BY DEF Init
<1>2. \A k \in Keys : undo[k] = NoHash /\ (k[1] \in Targets => record[k] = start[k])
  BY <1>1 DEF Init
<1>3. ASSUME NEW t \in Targets, NEW entry \in Entries
      PROVE  /\ undo[At(t, entry)] = NoHash
             /\ record[At(t, entry)] # NoRecord =>
                    record[At(t, entry)].hash \in {entry.secret, ForeignHash}
  <2>1. start[At(t, entry)] # NoRecord =>
            start[At(t, entry)].hash \in {entry.secret, ForeignHash}
    BY ConfigurationAssumption DEF At
  <2>2. At(t, entry) \in Keys /\ At(t, entry)[1] = t
    BY EntryKeys
  <2>3. undo[At(t, entry)] = NoHash /\ record[At(t, entry)] = start[At(t, entry)]
    BY <1>2, <2>2
  <2> QED
    BY <2>1, <2>3
<1>4. RowsRestorable
  BY <1>3, EntryLists DEF RowsRestorable
<1>5. SignersKept
  <2> SUFFICES ASSUME NEW t \in Targets, NEW client \in Signers
               PROVE  LET k == Http(t, client)
                      IN  /\ record[k] # NoRecord =>
                                record[k].hash \in {SecretOf(client), ForeignHash}
                          /\ undo[k] = NoHash
    BY DEF SignersKept
  <2>1. PICK entry \in Entries :
            entry.client = client /\ entry.store = "http" /\ entry.secret = SecretOf(client)
    BY SignerEntries
  <2>2. Http(t, client) = At(t, entry)
    BY <2>1 DEF Http, At
  <2> QED
    BY <1>3, <2>1, <2>2
<1>6. Opened
  <2> SUFFICES ASSUME NEW t \in Targets, NEW client \in ClientIds,
                      record[Http(t, client)] # NoRecord
               PROVE  record[Http(t, BootstrapId)] # NoRecord
    BY DEF Opened
  <2>1. /\ record[Http(t, client)] = start[Http(t, client)]
        /\ record[Http(t, BootstrapId)] = start[Http(t, BootstrapId)]
    BY <1>2, HttpKeys, SignersAreClients DEF Signers
  <2> QED
    BY <2>1, SignersAssumption DEF Http
<1> QED
  BY <1>4, <1>5, <1>6 DEF RestorableInv

(* Nor after any step, and the clients that sign stay as they are.           *)
LEMMA NextRestorable ==
    ASSUME TypeInv, RestorableInv, [Next]_vars
    PROVE  RestorableInv' /\ SignersStay
<1>1. CASE Expire
  <2>1. record' = record /\ expired' = TRUE
    BY <1>1 DEF Expire
  <2>2. \A k \in Keys : undo'[k] = undo[k] \/ undo'[k] = NoHash
    BY <1>1 DEF Expire, TypeInv, TypeOK
  <2>3. RowsRestorable'
    <3> SUFFICES ASSUME NEW t \in Targets, NEW row \in ToSet(SeedRows)
                 PROVE  LET k == At(t, row)
                        IN  /\ record[k] # NoRecord =>
                                  record[k].hash \in
                                      {row.secret, ForeignHash, RotatedSecret[row.secret]}
                            /\ undo'[k] \in {row.secret, ForeignHash, NoHash}
      BY <2>1 DEF RowsRestorable, At
    <3>1. At(t, row) \in Keys
      BY EntryLists, EntryKeys
    <3>2. undo'[At(t, row)] = undo[At(t, row)] \/ undo'[At(t, row)] = NoHash
      BY <2>2, <3>1
    <3> QED
      BY <3>2 DEF RestorableInv, RowsRestorable
  <2>4. SignersKept'
    <3> SUFFICES ASSUME NEW t \in Targets, NEW client \in Signers
                 PROVE  LET k == Http(t, client)
                        IN  /\ record[k] # NoRecord =>
                                  record[k].hash \in {SecretOf(client), ForeignHash}
                            /\ undo'[k] = NoHash
      BY <2>1 DEF SignersKept, Http
    <3>1. Http(t, client) \in Keys
      BY HttpKeys, SignersAreClients
    <3>2. undo'[Http(t, client)] = undo[Http(t, client)] \/ undo'[Http(t, client)] = NoHash
      BY <2>2, <3>1
    <3> QED
      BY <3>2 DEF RestorableInv, SignersKept
  <2>5. Opened' /\ SignersStay
    BY <2>1 DEF RestorableInv, Opened, SignersStay, Http
  <2> QED
    BY <2>3, <2>4, <2>5 DEF RestorableInv
<1>2. CASE ~Expire /\ TargetAsked
  <2>1. UNCHANGED expired
    BY <1>2 DEF Next, BeginRun, Answered, Rejected, Settle, Stop, vars
  <2> QED
    BY <1>2, <2>1, AskedRestorable DEF TypeInv, TypeOK, StoresTyped
<1>3. CASE ~Expire /\ TargetsIdle
  <2>1. UNCHANGED expired
    BY <1>3 DEF Next, BeginRun, Answered, Rejected, Settle, Stop, vars
  <2>2. \A t \in Targets, row \in ToSet(SeedRows) :
            record'[At(t, row)] = record[At(t, row)] /\ undo'[At(t, row)] = undo[At(t, row)]
    BY <1>3, EntryLists, EntryKeys DEF TargetsIdle
  <2>3. \A t \in Targets, client \in ClientIds :
            /\ record'[Http(t, client)] = record[Http(t, client)]
            /\ undo'[Http(t, client)] = undo[Http(t, client)]
    BY <1>3, HttpKeys DEF TargetsIdle
  <2>4. RowsRestorable'
    <3> SUFFICES ASSUME NEW t \in Targets, NEW row \in ToSet(SeedRows)
                 PROVE  LET k == At(t, row)
                        IN  /\ record'[k] # NoRecord =>
                                  record'[k].hash \in
                                      {row.secret, ForeignHash, RotatedSecret[row.secret]}
                            /\ undo'[k] \in {row.secret, ForeignHash, NoHash}
                            /\ /\ ~expired /\ record'[k] # NoRecord
                               /\ record'[k].hash \notin {row.secret, ForeignHash}
                               => undo'[k] # NoHash
      BY <2>1 DEF RowsRestorable, At
    <3> QED
      BY <2>2 DEF RestorableInv, RowsRestorable
  <2>5. SignersKept' /\ SignersStay
    BY <2>3, SignersAreClients DEF RestorableInv, SignersKept, SignersStay, Http
  <2>6. Opened'
    BY <2>3, SignersAreClients DEF RestorableInv, Opened, Signers, Http
  <2> QED
    BY <2>4, <2>5, <2>6 DEF RestorableInv
<1> QED
  BY <1>1, <1>2, <1>3, TargetSteps

-----------------------------------------------------------------------------
(* An undisturbed run puts right what the runs before it have left.          *)
(* The run has not yet come to what instruction n asks of t.                 *)
Pending(n, t) ==
    \/ pc < n
    \/ pc = n /\ \A j \in 1..Len(results) : TargetList[j] # t

(* t stores the clients that sign with the secrets the process signs with.   *)
Intact(t) ==
    \A client \in Signers :
        record[Http(t, client)] # NoRecord => record[Http(t, client)].hash = SecretOf(client)

(* Instruction n creates that client, signed as its section is.             *)
Planning(n, client, store) ==
    \/ n \in PlansBegin..PlansEnd /\ Creates(Program[n], client, store, BootstrapId)
    \/ n > PlansEnd /\ Creates(Program[n], client, store, SyncId)

CreatedOrPending(t) ==
    \A n \in DOMAIN Program, entry \in Entries :
        Planning(n, entry.client, entry.store) /\ record[At(t, entry)] = NoRecord =>
            Pending(n, t)

RevertedOrPending(t) ==
    \A row \in ToSet(SeedRows) :
        LET r == record[At(t, row)]
        IN  r # NoRecord /\ r.hash \notin {row.secret, ForeignHash} =>
                \E n \in DOMAIN Program :
                    Undoes(Program[n], row.client, row.store) /\ Pending(n, t)

RunInv ==
    calm /\ ~expired =>
        \A t \in Targets : Intact(t) => CreatedOrPending(t) /\ RevertedOrPending(t)

RowsInv == HeldInv /\ RestorableInv /\ RunInv

(* After the plans both clients that sign are stored, ...                   *)
LEMMA SignersStored ==
    ASSUME pc \in Nat, pc > PlansEnd, NEW t \in Targets, CreatedOrPending(t),
           NEW client \in Signers
    PROVE  record[Http(t, client)] # NoRecord
<1>1. PICK n \in PlansBegin..PlansEnd :
          n \in DOMAIN Program /\ Creates(Program[n], client, "http", BootstrapId)
  <2>1. CASE client = BootstrapId
    <3>1. PlansBegin \in PlansBegin..PlansEnd
      BY SignersPlanned, ProgramTyped
    <3> QED
      BY <2>1, <3>1, SignersPlanned
  <2>2. CASE client = SyncId
    BY <2>2, SignersPlanned
  <2> QED
    BY <2>1, <2>2 DEF Signers
<1>2. PICK entry \in Entries : entry.client = client /\ entry.store = "http"
  BY SignerEntries
<1>3. At(t, entry) = Http(t, client)
  BY <1>2 DEF At, Http
<1>4. ~Pending(n, t)
  BY <1>1, SignersPlanned, ProgramTyped DEF Pending
<1>5. Planning(n, entry.client, entry.store)
  BY <1>1, <1>2 DEF Planning
<1> QED
  BY <1>1, <1>3, <1>4, <1>5 DEF CreatedOrPending

(* ... and what the one of the rows has signed is admitted.                 *)
LEMMA RowsAdmitted ==
    ASSUME pc \in Nat, pc > PlansEnd, NEW t \in Targets, CreatedOrPending(t), Intact(t),
           NEW i, i.by = SyncId, i.secret = SecretOf(SyncId), i.operation # "fetch"
    PROVE  Admitted(t, i)
<1>1. /\ record[Http(t, BootstrapId)] # NoRecord
      /\ record[Http(t, SyncId)] # NoRecord
  BY SignersStored DEF Signers
<1>2. record[Http(t, SyncId)].hash = SecretOf(SyncId)
  BY <1>1 DEF Intact, Signers
<1>3. BootstrapId \in Listed(t) /\ SyncId \in Listed(t)
  BY <1>1, SignersAreClients DEF Listed, Stored, Http, Signers
<1>4. Verified(t, i)
  BY <1>2, <1>3 DEF Verified, Http
<1> QED
  BY <1>3, <1>4 DEF Admitted

(* So is what the bootstrap client signs for the plans, its own creation by  *)
(* a target that stores nobody.                                             *)
LEMMA PlansAdmitted ==
    ASSUME pc \in PlansBegin..PlansEnd, pc \in DOMAIN Program, NEW t \in Targets,
           CreatedOrPending(t), Intact(t), Opened,
           NEW client, NEW store, Creates(Program[pc], client, store, BootstrapId)
    PROVE  Admitted(t, Program[pc])
<1> DEFINE i == Program[pc]
<1>1. /\ i.operation = "create" /\ i.by = BootstrapId /\ i.secret = SecretOf(BootstrapId)
  BY DEF Creates
<1> HIDE DEF i
<1>2. CASE record[Http(t, BootstrapId)] # NoRecord
  <2>1. record[Http(t, BootstrapId)].hash = SecretOf(BootstrapId)
    BY <1>2 DEF Intact, Signers
  <2>2. BootstrapId \in Listed(t)
    BY <1>2, SignersAreClients DEF Listed, Stored, Http, Signers
  <2>3. Verified(t, i)
    BY <1>1, <2>1, <2>2 DEF Verified, Http
  <2> QED
    BY <2>2, <2>3 DEF Admitted, i
<1>3. CASE record[Http(t, BootstrapId)] = NoRecord
  <2>1. Listed(t) = {}
    BY <1>3 DEF Opened, Listed, Stored, Http
  <2>2. PICK entry \in Entries : entry.client = BootstrapId /\ entry.store = "http"
    BY SignerEntries DEF Signers
  <2>3. At(t, entry) = Http(t, BootstrapId)
    BY <2>2 DEF At, Http
  <2>4. Planning(PlansBegin, entry.client, entry.store) /\ PlansBegin \in DOMAIN Program
    BY <2>2, SignersPlanned, ProgramTyped DEF Planning
  <2>5. Pending(PlansBegin, t)
    BY <1>3, <2>3, <2>4 DEF CreatedOrPending
  <2>6. pc = PlansBegin
    BY <2>5, SignersPlanned, ProgramTyped DEF Pending
  <2>7. i.client = BootstrapId
    BY <2>6, SignersPlanned DEF Creates, i
  <2> QED
    BY <1>1, <2>1, <2>7 DEF Admitted, i
<1> QED
  BY <1>2, <1>3

(* A planned creation that is asked of a target is carried out there.        *)
LEMMA AskedCreates ==
    ASSUME RowsInv, TargetAsked, NEW t \in Targets, Place = t,
           CreatedOrPending(t), Intact(t),
           NEW entry \in Entries, Planning(pc, entry.client, entry.store)
    PROVE  record'[At(t, entry)] # NoRecord
<1> DEFINE k == At(t, entry)
<1>1. pc \in DOMAIN Program /\ pc \in Nat /\ Now = Program[pc]
  BY ProgramTyped DEF TargetAsked, Asking, Running, Now
<1>2. StoresTyped /\ Now \in Instructions /\ Now.places = TargetList /\ EntriesKept /\ Opened
  BY DEF TargetAsked, RowsInv, HeldInv, RestorableInv, TypeInv, TypeOK, StoresTyped
<1>3. /\ Now.operation = "create" /\ Now.way = "route"
      /\ Now.client = entry.client /\ Now.store = entry.store
  BY <1>1 DEF Planning, Creates
<1>4. KeyOf(t, Now) = k /\ k \in Keys
  BY <1>3, EntryKeys DEF KeyOf, At
<1>5. Admitted(t, Now)
  <2>1. CASE pc \in PlansBegin..PlansEnd /\ Creates(Now, entry.client, entry.store, BootstrapId)
    BY <1>1, <1>2, <2>1, PlansAdmitted
  <2>2. CASE pc > PlansEnd /\ Creates(Now, entry.client, entry.store, SyncId)
    BY <1>1, <1>3, <2>2, RowsAdmitted DEF Creates
  <2> QED
    BY <1>1, <2>1, <2>2 DEF Planning
<1>6. CASE record[k] # NoRecord
  BY <1>2, <1>6, DoesHeld DEF TargetAsked, StillThere, Places
<1>7. CASE record[k] = NoRecord
  <2>1. Acts(t, Now)
    <3> HIDE DEF k
    <3>1. RouteAnswer(t, Now) = "accepted"
      BY <1>3, <1>4, <1>5, <1>7 DEF RouteAnswer
    <3> QED
      BY <3>1 DEF Acts, Refusals
  <2>2. NewRecord(k, Now) # NoRecord
    BY <1>2, <1>3, <1>4, <2>1, NewRecordHeld
  <2>3. record'[k] = NewRecord(k, Now)
    BY <1>2, <1>4, <2>1, AskedEffect
  <2> QED
    BY <2>2, <2>3
<1> QED
  BY <1>6, <1>7

(* A revert that is asked of a target is carried out there.                  *)
LEMMA AskedReverts ==
    ASSUME RowsInv, TargetAsked, NEW t \in Targets, Place = t,
           CreatedOrPending(t), Intact(t),
           NEW row \in ToSet(SeedRows), Undoes(Now, row.client, row.store)
    PROVE  KeyOf(t, Now) = At(t, row) /\ Acts(t, Now)
<1>1. pc \in DOMAIN Program /\ pc \in Nat /\ Now = Program[pc]
  BY ProgramTyped DEF TargetAsked, Asking, Running, Now
<1>2. pc > PlansEnd
  BY <1>1, RowsPlanned
<1>3. Admitted(t, Now) /\ Now.operation = "revert"
  BY <1>1, <1>2, RowsAdmitted DEF Undoes
<1>4. RouteAnswer(t, Now) \in {"reverted", "accepted"}
  BY <1>3 DEF RouteAnswer
<1>5. KeyOf(t, Now) = At(t, row)
  BY DEF Undoes, KeyOf, At
<1> QED
  BY <1>4, <1>5 DEF Acts, Refusals

(* What is pending at a target stays so while another one is asked.          *)
LEMMA StillPending ==
    ASSUME results \in Seq(Answers), NEW answer \in Answers, results' = Append(results, answer),
           UNCHANGED pc, Asking,
           NEW t \in Targets, NEW n \in DOMAIN Program, Pending(n, t),
           Program[n].places = TargetList, ~(pc = n /\ Place = t)
    PROVE  Pending(n, t)'
<1>1. CASE pc < n
  BY <1>1 DEF Pending
<1>2. CASE pc = n /\ \A j \in 1..Len(results) : TargetList[j] # t
  <2>1. TargetList[Len(results) + 1] # t
    BY <1>2 DEF Place, Now
  <2>2. Len(results') = Len(results) + 1 /\ Len(results) \in Nat
    OBVIOUS
  <2>3. \A j \in 1..Len(results') : j \in 1..Len(results) \/ j = Len(results) + 1
    BY <2>2
  <2> QED
    BY <1>2, <2>1, <2>3 DEF Pending
<1> QED
  BY <1>1, <1>2 DEF Pending

(* A place answers.                                                         *)
LEMMA AnsweredRuns ==
    ASSUME RowsInv, RestorableInv', SignersStay, StillThere, Answered
    PROVE  RunInv'
<1> SUFFICES ASSUME calm, ~expired, NEW t \in Targets, Intact(t)'
             PROVE  CreatedOrPending(t)' /\ RevertedOrPending(t)'
  BY DEF RunInv, Answered
<1>1. Intact(t)
  BY DEF Intact, SignersStay, Http
<1>2. CreatedOrPending(t) /\ RevertedOrPending(t)
  BY <1>1 DEF RowsInv, RunInv
<1>3. /\ TypeInv /\ StoresTyped /\ results \in Seq(Answers) /\ Asking /\ Does(Place, Now)
      /\ pc' = pc /\ expired' = expired /\ RowsRestorable
  BY DEF RowsInv, HeldInv, RestorableInv, TypeInv, TypeOK, StoresTyped, Answered
<1>4. PICK answer \in Answers : results' = Append(results, answer)
  BY AnswersTyped DEF Answered
<1>5. /\ Place = t => TargetAsked
      /\ TargetsIdle \/ TargetAsked
  BY <1>3, PlaceSteps
<1>6. pc \in DOMAIN Program /\ pc \in Nat /\ Now = Program[pc]
  BY <1>3, ProgramTyped DEF Asking, Running, Now
<1>7. CreatedOrPending(t)'
  <2> SUFFICES ASSUME NEW n \in DOMAIN Program, NEW entry \in Entries,
                      Planning(n, entry.client, entry.store), record'[At(t, entry)] = NoRecord
               PROVE  Pending(n, t)'
    BY DEF CreatedOrPending, At, Planning
  <2>1. record[At(t, entry)] = NoRecord
    BY DEF StillThere
  <2>2. Pending(n, t)
    BY <1>2, <2>1 DEF CreatedOrPending
  <2>3. ~(pc = n /\ Place = t)
    BY <1>1, <1>2, <1>5, AskedCreates
  <2>4. Program[n].places = TargetList
    BY DEF Planning, Creates
  <2> QED
    BY <1>3, <1>4, <2>2, <2>3, <2>4, StillPending
<1>8. RevertedOrPending(t)'
  <2> SUFFICES ASSUME NEW row \in ToSet(SeedRows),
                      record'[At(t, row)] # NoRecord,
                      record'[At(t, row)].hash \notin {row.secret, ForeignHash}
               PROVE  \E n \in DOMAIN Program :
                         Undoes(Program[n], row.client, row.store) /\ Pending(n, t)'
    BY DEF RevertedOrPending, At
  <2> DEFINE k == At(t, row)
  <2>1. k \in Keys /\ k[1] = t
    BY EntryLists, EntryKeys
  <2>2. CASE TargetAsked /\ k = KeyOf(Place, Now) /\ Acts(Place, Now)
    <3>1. record'[k] = NewRecord(k, Now) /\ Place = t
      BY <1>3, <2>1, <2>2, AskedEffect
    <3>2. Now \in Instructions /\ Now.places = TargetList
      BY <2>2 DEF TargetAsked
    <3>3. \/ Now.operation = "update"
          \/ Now.operation # "revert" /\ record'[k] = record[k]
      BY <1>3, <2>2, <3>1, <3>2, NewRecordRestorable
    <3>4. CASE Now.operation = "update"
      <4>1. /\ Now.client = row.client /\ Now.store = row.store
        <5>1. row \in Entries /\ KeyOf(t, Now) = At(t, row)
          BY <2>2, <3>1, EntryLists
        <5> QED
          BY <3>2, <5>1, EntryOrders
      <4>2. Rotates(Now)
        BY <3>2, <3>4, <4>1 DEF Rotates, IsRow
      <4>3. PICK n \in DOMAIN Program :
                n = pc + 1 /\ Undoes(Program[n], row.client, row.store)
        BY <1>6, <4>1, <4>2, ProgramTyped, ProgramWellFormed DEF WellFormed, Reversed
      <4>4. Pending(n, t)'
        BY <1>3, <1>6, <4>3 DEF Pending
      <4> QED
        BY <4>3, <4>4
    <3>5. CASE Now.operation # "revert" /\ record'[k] = record[k]
      <4>1. PICK n \in DOMAIN Program :
                Undoes(Program[n], row.client, row.store) /\ Pending(n, t)
        BY <1>2, <3>5 DEF RevertedOrPending
      <4>2. n # pc /\ Program[n].places = TargetList
        BY <1>6, <3>5, <4>1 DEF Undoes
      <4> QED
        BY <1>3, <1>4, <4>1, <4>2, StillPending
    <3> QED
      BY <3>3, <3>4, <3>5
  <2>3. CASE ~(TargetAsked /\ k = KeyOf(Place, Now) /\ Acts(Place, Now))
    <3>1. record'[k] = record[k]
      BY <1>3, <1>5, <2>1, <2>3, AskedEffect DEF TargetsIdle
    <3>2. PICK n \in DOMAIN Program :
              Undoes(Program[n], row.client, row.store) /\ Pending(n, t)
      BY <1>2, <3>1 DEF RevertedOrPending
    <3>3. ~(pc = n /\ Place = t)
      BY <1>1, <1>2, <1>5, <1>6, <2>3, <3>2, AskedReverts
    <3>4. Program[n].places = TargetList
      BY <3>2 DEF Undoes
    <3> QED
      BY <1>3, <1>4, <3>2, <3>3, <3>4, StillPending
  <2> QED
    BY <2>2, <2>3
<1> QED
  BY <1>7, <1>8

(* All targets have been asked when the program goes on.                    *)
LEMMA SettleRuns ==
    ASSUME RowsInv, Settle
    PROVE  RunInv'
<1> SUFFICES ASSUME calm, ~expired, NEW t \in Targets, Intact(t)'
             PROVE  CreatedOrPending(t)' /\ RevertedOrPending(t)'
  BY DEF RunInv, Settle
<1>1. /\ record' = record /\ results' = <<>> /\ Running /\ ~Asking
      /\ pc' = pc \/ pc' = pc + 1
  BY DEF Settle
<1>2. Intact(t)
  BY <1>1 DEF Intact, Http
<1>3. CreatedOrPending(t) /\ RevertedOrPending(t)
  BY <1>2 DEF RowsInv, RunInv
<1>4. results \in Seq(Answers) /\ pc \in Nat
  BY DEF RowsInv, HeldInv, TypeInv, TypeOK
<1>5. PICK j \in 1..Len(TargetList) : TargetList[j] = t
  <2>1. TargetList \in Seq(Targets)
    BY SourceAssumption
  <2> QED
    BY <2>1 DEF Targets, ToSet
<1>6. ASSUME NEW n \in DOMAIN Program, Program[n].places = TargetList, Pending(n, t)
      PROVE  Pending(n, t)'
  <2>1. n \in Nat
    BY ProgramTyped
  <2>2. CASE pc < n
    BY <1>1, <1>4, <2>1, <2>2 DEF Pending
  <2>3. CASE pc = n /\ \A m \in 1..Len(results) : TargetList[m] # t
    <3>1. ~(Len(results) < Len(TargetList))
      BY <1>1, <1>6, <2>3 DEF Asking, Now
    <3>2. Len(TargetList) \in Nat /\ Len(results) \in Nat
      BY <1>4, SourceAssumption
    <3>3. j \in 1..Len(results)
      BY <3>1, <3>2
    <3> QED
      BY <1>5, <2>3, <3>3
  <2> QED
    BY <1>6, <2>2, <2>3 DEF Pending
<1>7. CreatedOrPending(t)'
  <2> SUFFICES ASSUME NEW n \in DOMAIN Program, NEW entry \in Entries,
                      Planning(n, entry.client, entry.store), record[At(t, entry)] = NoRecord
               PROVE  Pending(n, t)'
    BY <1>1 DEF CreatedOrPending, At, Planning
  <2>1. Pending(n, t)
    BY <1>3 DEF CreatedOrPending
  <2>2. Program[n].places = TargetList
    BY DEF Planning, Creates
  <2> QED
    BY <1>6, <2>1, <2>2
<1>8. RevertedOrPending(t)'
  <2> SUFFICES ASSUME NEW row \in ToSet(SeedRows),
                      record[At(t, row)] # NoRecord,
                      record[At(t, row)].hash \notin {row.secret, ForeignHash}
               PROVE  \E n \in DOMAIN Program :
                         Undoes(Program[n], row.client, row.store) /\ Pending(n, t)'
    BY <1>1 DEF RevertedOrPending, At
  <2>1. PICK n \in DOMAIN Program :
            Undoes(Program[n], row.client, row.store) /\ Pending(n, t)
    BY <1>3 DEF RevertedOrPending
  <2> QED
    BY <1>6, <2>1 DEF Undoes
<1> QED
  BY <1>7, <1>8

(* When a run begins, everything is still to come.                          *)
LEMMA StartRuns ==
    ASSUME pc' = 0 \/ (pc' = 1 /\ results' = <<>>)
    PROVE  RunInv'
<1>1. \A n \in DOMAIN Program : n \in Nat /\ n >= 1
  BY ProgramTyped
<1>2. ASSUME NEW n \in DOMAIN Program, NEW t PROVE Pending(n, t)'
  BY <1>1 DEF Pending
<1>3. \A t : CreatedOrPending(t)'
  BY <1>2 DEF CreatedOrPending
<1>4. \A t : RevertedOrPending(t)'
  BY <1>2, RowsPlanned DEF RevertedOrPending
<1> QED
  BY <1>3, <1>4 DEF RunInv

(* The invariant of the runs holds at first ...                             *)
LEMMA InitRows == Init => RowsInv
<1> SUFFICES ASSUME Init PROVE RowsInv
  OBVIOUS
<1>1. \A n \in DOMAIN Program : n \in Nat /\ n >= 1
  BY ProgramTyped
<1>2. ASSUME NEW n \in DOMAIN Program, NEW t PROVE Pending(n, t)
  BY <1>1 DEF Pending, Init
<1>3. \A t : CreatedOrPending(t)
  BY <1>2 DEF CreatedOrPending
<1>4. \A t : RevertedOrPending(t)
  BY <1>2, RowsPlanned DEF RevertedOrPending
<1> QED
  BY <1>3, <1>4, InitHeld, InitRestorable DEF RowsInv, RunInv

(* ... and after every step.                                                *)
LEMMA NextRows == RowsInv /\ [Next]_vars => RowsInv'
<1> SUFFICES ASSUME RowsInv, [Next]_vars PROVE RowsInv'
  OBVIOUS
<1>1. HeldInv /\ HeldInv'
  BY NextHeld DEF RowsInv
<1>2. RestorableInv' /\ SignersStay
  BY NextRestorable DEF RowsInv, HeldInv
<1>3. CASE Answered
  <2>1. StillThere
    <3>1. StoresTyped /\ results \in Seq(Answers) /\ EntriesKept /\ Asking /\ Does(Place, Now)
      BY <1>1, <1>3 DEF HeldInv, TypeInv, TypeOK, StoresTyped, Answered
    <3> QED
      BY <3>1, AskedPlace, DoesHeld
  <2> QED
    BY <1>1, <1>2, <1>3, <2>1, AnsweredRuns DEF RowsInv
<1>4. CASE Settle
  BY <1>1, <1>2, <1>4, SettleRuns DEF RowsInv
<1>5. CASE Stop \/ BeginRun
  <2>1. pc' = 0 \/ (pc' = 1 /\ results' = <<>>)
    BY <1>1, <1>5 DEF Stop, BeginRun, HeldInv, TypeInv, Prepared
  <2> QED
    BY <1>1, <1>2, <2>1, StartRuns DEF RowsInv
<1>6. CASE Rejected \/ Expire
  <2>1. calm' = FALSE \/ expired' = TRUE
    BY <1>6 DEF Rejected, Expire
  <2>2. RunInv'
    BY <2>1 DEF RunInv
  <2> QED
    BY <1>1, <1>2, <2>2 DEF RowsInv
<1>7. CASE UNCHANGED vars
  <2>1. UNCHANGED <<record, pc, results, calm, expired>>
    BY <1>7 DEF vars
  <2>2. RunInv'
    BY <2>1 DEF RowsInv, RunInv, Intact, CreatedOrPending, RevertedOrPending, Pending,
                Planning, Http, At
  <2> QED
    BY <1>1, <1>2, <2>2 DEF RowsInv
<1> QED
  BY <1>3, <1>4, <1>5, <1>6, <1>7 DEF Next

(* However the rotations and reverts of the rows were cut apart in the runs   *)
(* before it, a run that nothing disturbs ends with every row stored on every *)
(* target with the row's own secret, as long as no backup has expired and no  *)
(* target had a client of the configuration with a secret of its own.         *)
THEOREM RowsKept == Spec => []RowsKeepTheirSecret
<1>1. RowsInv => RowsKeepTheirSecret
  <2> SUFFICES ASSUME RowsInv, Finished, calm, ~expired, Untouched,
                      NEW row \in ToSet(SeedRows), NEW t \in Targets
               PROVE  LET r == record[At(t, row)]
                      IN  r # NoRecord /\ r.hash = row.secret
    BY DEF RowsKeepTheirSecret, At
  <2>1. row \in Entries /\ At(t, row) \in Keys /\ At(t, row)[1] = t
    BY EntryLists, EntryKeys
  <2>2. Intact(t)
    <3> SUFFICES ASSUME NEW client \in Signers, record[Http(t, client)] # NoRecord
                 PROVE  record[Http(t, client)].hash = SecretOf(client)
      BY DEF Intact
    <3>1. record[Http(t, client)].hash \in {SecretOf(client), ForeignHash}
      BY DEF RowsInv, RestorableInv, SignersKept
    <3>2. Http(t, client) \in Keys /\ Http(t, client)[1] = t
      BY HttpKeys, SignersAreClients
    <3> QED
      BY <3>1, <3>2 DEF Untouched
  <2>3. CreatedOrPending(t) /\ RevertedOrPending(t)
    BY <2>2 DEF RowsInv, RunInv
  <2>4. \A n \in DOMAIN Program : ~Pending(n, t)
    <3>1. pc \in Nat /\ pc > Len(Program)
      BY DEF Finished, RowsInv, HeldInv, TypeInv, TypeOK
    <3> QED
      BY <3>1, ProgramTyped DEF Pending
  <2>5. record[At(t, row)] # NoRecord
    <3>1. PICK n \in DOMAIN Program :
              n > PlansEnd /\ Creates(Program[n], row.client, row.store, SyncId)
      BY RowsPlanned
    <3>2. Planning(n, row.client, row.store)
      BY <3>1 DEF Planning
    <3> QED
      BY <2>1, <2>3, <2>4, <3>2 DEF CreatedOrPending
  <2>6. record[At(t, row)].hash \in {row.secret, ForeignHash}
    BY <2>3, <2>4, <2>5 DEF RevertedOrPending
  <2> QED
    BY <2>1, <2>5, <2>6 DEF Untouched
<1> QED
  BY InitRows, NextRows, <1>1, PTL DEF Spec
-----------------------------------------------------------------------------
(* Where the sections after the rows are in the program.                    *)
SuiteBegin == Len(LocalCredentials) + Len(Plans) + 3 * Len(SeedRows)
DemoBegin  == SuiteBegin + 35 + Len(HttpPlans) + Len(MessagePlans)

(* A joined sequence is as long as both parts.                              *)
LEMMA JoinedLength ==
    ASSUME NEW a \in Seq(Instructions), NEW b \in Seq(Instructions)
    PROVE  a \o b \in Seq(Instructions) /\ Len(a \o b) = Len(a) + Len(b)
BY ConcatProperties

(* A sequence that continues with another one.                              *)
Continues(s, m, b) == \A n \in 1..Len(b) : s[m + n] = b[n]

(* A sequence that starts with a joined one has both parts.                 *)
LEMMA JoinedStart ==
    ASSUME NEW a \in Seq(Instructions), NEW b \in Seq(Instructions), NEW s,
           StartsWith(s, a \o b)
    PROVE  StartsWith(s, a) /\ Continues(s, Len(a), b)
<1> DEFINE c == a \o b
           m == Len(a)
           k == Len(b)
<1>1. /\ c \in Seq(Instructions) /\ Len(c) = m + k
      /\ \A n \in 1..m + k : c[n] = IF n <= m THEN a[n] ELSE b[n - m]
  BY ConcatProperties
<1>2. m \in Nat /\ k \in Nat /\ Len(a) = m
  OBVIOUS
<1>3. StartsWith(s, c)
  OBVIOUS
<1> SUFFICES StartsWith(s, a) /\ \A n \in 1..k : s[m + n] = b[n]
  BY DEF Continues
<1> HIDE DEF c, m, k
<1>4. Len(s) \in Nat /\ m + k <= Len(s) /\ \A n \in 1..m + k : s[n] = c[n]
  BY <1>1, <1>3 DEF StartsWith
<1>5. \A n \in 1..m : s[n] = a[n]
  <2>1. \A n \in 1..m : n \in 1..m + k /\ n <= m
    BY <1>2
  <2> QED
    BY <1>1, <1>4, <2>1
<1>6. \A n \in 1..k : s[m + n] = b[n]
  <2>1. \A n \in 1..k : m + n \in 1..m + k /\ ~(m + n <= m) /\ (m + n) - m = n
    BY <1>2
  <2> QED
    BY <1>1, <1>4, <2>1
<1>7. StartsWith(s, a)
  BY <1>2, <1>3, <1>4, <1>5, SMTT(30) DEF StartsWith
<1> QED
  BY <1>6, <1>7

(* How long the sections are.                                               *)
LEMMA SuiteLengths ==
    /\ Len(RevertSuite) = 15 /\ Len(CrudSuite) = 6 /\ Len(ManagementSuite) = 8
    /\ Len(PreservationSuite) = 4 /\ Len(Demonstration) = 11
    /\ Len(HttpSweep) = 2 + Len(HttpPlans) /\ Len(MessageSweep) = Len(MessagePlans)
    /\ As(SyncId, Answers) = HttpSweep[1]
    /\ As(SourceOnlyId, {"refused"}) = HttpSweep[2]
    /\ \A n \in 1..Len(HttpPlans) :
          HttpSweep[2 + n] = As(HttpPlans[n].client, {"accepted"})
    /\ \A n \in 1..Len(MessagePlans) :
          MessageSweep[n] = AskMessage("verify", MessagePlans[n].client, NoWrite, {"accepted"})
<1>1. /\ Len(RevertSuite) = 15 /\ Len(CrudSuite) = 6 /\ Len(ManagementSuite) = 8
      /\ Len(PreservationSuite) = 4 /\ Len(Demonstration) = 11
  BY DEF RevertSuite, CrudSuite, ManagementSuite, PreservationSuite, Demonstration
<1>2. /\ HttpPlans \in Seq(Credentials) /\ MessagePlans \in Seq(Credentials)
  BY ListMembers
<1>3. /\ Len(MessageSweep) = Len(MessagePlans)
      /\ \A n \in 1..Len(MessagePlans) :
            MessageSweep[n] = AskMessage("verify", MessagePlans[n].client, NoWrite, {"accepted"})
  BY <1>2, SweepsWellFormed DEF MessageSweep, ForAll, WellFormed
<1>4. /\ Len(HttpSweep) = 2 + Len(HttpPlans)
      /\ As(SyncId, Answers) = HttpSweep[1]
      /\ As(SourceOnlyId, {"refused"}) = HttpSweep[2]
      /\ \A n \in 1..Len(HttpPlans) :
            HttpSweep[2 + n] = As(HttpPlans[n].client, {"accepted"})
  <2> DEFINE a == <<As(SyncId, Answers), As(SourceOnlyId, {"refused"})>>
             b == ForAll(HttpPlans, LAMBDA plan : As(plan.client, {"accepted"}))
             T == {As(SyncId, Answers), As(SourceOnlyId,
                   {"refused"})} \cup {b[n] : n \in DOMAIN b}
  <2>1. /\ b = [n \in 1..Len(HttpPlans) |-> As(HttpPlans[n].client, {"accepted"})]
        /\ Len(HttpPlans) \in Nat
    BY <1>2 DEF ForAll
  <2>2. a \in Seq(T) /\ Len(a) = 2 /\ a[1] = As(SyncId, Answers)
        /\ a[2] = As(SourceOnlyId, {"refused"})
    OBVIOUS
  <2>3. HttpSweep = a \o b
    BY DEF HttpSweep
  <2>4. b \in Seq(T) /\ Len(b) = Len(HttpPlans)
    <3> HIDE DEF T
    <3>1. \A n \in 1..Len(HttpPlans) : b[n] \in T
      BY <2>1 DEF T
    <3>2. b = [n \in 1..Len(HttpPlans) |-> b[n]]
      BY <2>1
    <3> HIDE DEF b
    <3>3. b \in Seq(T)
      BY <2>1, <3>1, <3>2
    <3>4. Len(b) = Len(HttpPlans)
      BY <2>1, <3>2
    <3> QED
      BY <3>3, <3>4
  <2>5. \A n \in 1..Len(HttpPlans) : b[n] = As(HttpPlans[n].client, {"accepted"})
    BY <2>1
  <2> HIDE DEF a, b, T
  <2>6. /\ Len(a \o b) = Len(a) + Len(b)
        /\ \A n \in 1..Len(a) + Len(b) :
              (a \o b)[n] = IF n <= Len(a) THEN a[n] ELSE b[n - Len(a)]
    BY <2>2, <2>4, ConcatProperties
  <2> QED
    BY <2>1, <2>2, <2>3, <2>4, <2>5, <2>6
<1> QED
  BY <1>1, <1>3, <1>4

(* Each section at its place.                                               *)
LEMMA SectionsAt ==
    LET H == Len(HttpPlans)
        M == Len(MessagePlans)
        B == SuiteBegin
        E == DemoBegin
    IN  /\ H \in Nat /\ M \in Nat /\ B \in Nat /\ E = B + 35 + H + M
        /\ Len(Program) = E + 11
        /\ \A n \in 1..15 : Program[B + n] = RevertSuite[n]
        /\ \A n \in 1..6 : Program[B + 15 + n] = CrudSuite[n]
        /\ \A n \in 1..8 : Program[B + 21 + n] = ManagementSuite[n]
        /\ \A n \in 1..4 : Program[B + 29 + n] = PreservationSuite[n]
        /\ Program[B + 34] = As(SyncId, Answers)
        /\ Program[B + 35] = As(SourceOnlyId, {"refused"})
        /\ \A n \in 1..H : Program[B + 35 + n] = As(HttpPlans[n].client, {"accepted"})
        /\ \A n \in 1..M : Program[B + 35 + H + n] =
               AskMessage("verify", MessagePlans[n].client, NoWrite, {"accepted"})
        /\ \A n \in 1..11 : Program[E + n] = Demonstration[n]
<1> DEFINE H == Len(HttpPlans)
           M == Len(MessagePlans)
           B == SuiteBegin
           E == DemoBegin
           first == LocalCredentials \o PlansSection \o SeedSection \o RevertDemo
           s1 == first \o RevertSuite
           s2 == s1 \o CrudSuite
           s3 == s2 \o ManagementSuite
           s4 == s3 \o PreservationSuite
           s5 == s4 \o HttpSweep
           s6 == s5 \o MessageSweep
           s7 == s6 \o Demonstration
<1>1. /\ RevertSuite \in Seq(Instructions) /\ CrudSuite \in Seq(Instructions)
      /\ ManagementSuite \in Seq(Instructions) /\ PreservationSuite \in Seq(Instructions)
      /\ HttpSweep \in Seq(Instructions) /\ MessageSweep \in Seq(Instructions)
      /\ Demonstration \in Seq(Instructions)
  BY RevertSuiteWellFormed, CrudSuiteWellFormed, ManagementSuiteWellFormed,
     PreservationSuiteWellFormed, SweepsWellFormed, DemonstrationWellFormed DEF WellFormed
<1>2. /\ LocalCredentials \in Seq(Instructions) /\ PlansSection \in Seq(Instructions)
      /\ SeedSection \in Seq(Instructions) /\ RevertDemo \in Seq(Instructions)
  BY LocalCredentialsWellFormed, CreationsWellFormed, RevertDemoWellFormed DEF WellFormed
<1>3. /\ H \in Nat /\ M \in Nat /\ Len(SeedRows) \in Nat /\ Len(Plans) \in Nat
      /\ Len(LocalCredentials) \in Nat /\ Len(Plans) = H + M
  <2>1. /\ HttpPlans \in Seq(Credentials) /\ MessagePlans \in Seq(Credentials)
        /\ SeedRows \in Seq(Credentials)
    BY ListMembers
  <2> QED
    BY <1>2, <2>1, ConcatProperties DEF Plans
<1>4. /\ Len(PlansSection) = Len(Plans) /\ Len(SeedSection) = Len(SeedRows)
      /\ Len(RevertDemo) = 2 * Len(SeedRows)
  <2>1. /\ DOMAIN PlansSection = DOMAIN Plans /\ DOMAIN SeedSection = DOMAIN SeedRows
        /\ DOMAIN RevertDemo = 1..2 * Len(SeedRows)
    BY DEF PlansSection, SeedSection, RevertDemo, ForAll
  <2>2. DOMAIN Plans = 1..Len(Plans) /\ DOMAIN SeedRows = 1..Len(SeedRows)
    <3>1. /\ HttpPlans \in Seq(Credentials) /\ MessagePlans \in Seq(Credentials)
          /\ SeedRows \in Seq(Credentials)
      BY ListMembers
    <3> QED
      BY <3>1, ConcatProperties DEF Plans
  <2> QED
    BY <1>2, <1>3, <2>1, <2>2
<1>5. first \in Seq(Instructions) /\ Len(first) = B
  BY <1>2, <1>3, <1>4, JoinedLength, SMTT(30) DEF SuiteBegin
<1>6. B \in Nat /\ E = B + 35 + H + M
  BY <1>3 DEF SuiteBegin, DemoBegin
<1>7. Program = s7
  BY DEF Program
<1> HIDE DEF first, B, E, H, M
<1>8. /\ Len(RevertSuite) = 15 /\ Len(CrudSuite) = 6 /\ Len(ManagementSuite) = 8
      /\ Len(PreservationSuite) = 4 /\ Len(Demonstration) = 11
      /\ Len(HttpSweep) = 2 + H /\ Len(MessageSweep) = M
  BY SuiteLengths DEF H, M
<1>9. s1 \in Seq(Instructions) /\ Len(s1) = B + 15
  <2>1. s1 \in Seq(Instructions) /\ Len(s1) = Len(first) + Len(RevertSuite)
    BY <1>1, <1>5, JoinedLength, ZenonT(30)
  <2> QED
    BY <1>1, <1>5, <1>6, <1>8, <2>1
<1> HIDE DEF s1
<1>10. s2 \in Seq(Instructions) /\ Len(s2) = B + 21
  <2>1. s2 \in Seq(Instructions) /\ Len(s2) = Len(s1) + Len(CrudSuite)
    BY <1>1, <1>9, JoinedLength, ZenonT(30)
  <2> QED
    BY <1>1, <1>6, <1>9, <1>8, <2>1
<1> HIDE DEF s2
<1>11. s3 \in Seq(Instructions) /\ Len(s3) = B + 29
  <2>1. s3 \in Seq(Instructions) /\ Len(s3) = Len(s2) + Len(ManagementSuite)
    BY <1>1, <1>10, JoinedLength, ZenonT(30)
  <2> QED
    BY <1>1, <1>6, <1>10, <1>8, <2>1
<1> HIDE DEF s3
<1>12. s4 \in Seq(Instructions) /\ Len(s4) = B + 33
  <2>1. s4 \in Seq(Instructions) /\ Len(s4) = Len(s3) + Len(PreservationSuite)
    BY <1>1, <1>11, JoinedLength, ZenonT(30)
  <2> QED
    BY <1>1, <1>6, <1>11, <1>8, <2>1
<1> HIDE DEF s4
<1>13. s5 \in Seq(Instructions) /\ Len(s5) = B + 35 + H
  <2>1. s5 \in Seq(Instructions) /\ Len(s5) = Len(s4) + Len(HttpSweep)
    BY <1>1, <1>12, JoinedLength, ZenonT(30)
  <2> QED
    BY <1>1, <1>3, <1>6, <1>12, <1>8, <2>1
<1> HIDE DEF s5
<1>14. s6 \in Seq(Instructions) /\ Len(s6) = E
  <2>1. s6 \in Seq(Instructions) /\ Len(s6) = Len(s5) + Len(MessageSweep)
    BY <1>1, <1>13, JoinedLength, ZenonT(30)
  <2> QED
    BY <1>1, <1>3, <1>6, <1>13, <1>8, <2>1
<1> HIDE DEF s6
<1>15. s7 \in Seq(Instructions) /\ Len(s7) = E + 11
  <2>1. s7 \in Seq(Instructions) /\ Len(s7) = Len(s6) + Len(Demonstration)
    BY <1>1, <1>14, JoinedLength, ZenonT(30)
  <2> QED
    BY <1>1, <1>3, <1>6, <1>14, <1>8, <2>1
<1>16. /\ StartsWith(Program, s6) /\ \A n \in 1..11 : Program[E + n] = Demonstration[n]
  <2>1. StartsWith(Program, s6 \o Demonstration)
    BY <1>7, <1>15 DEF StartsWith
  <2>2. StartsWith(Program, s6) /\ Continues(Program, Len(s6), Demonstration)
    BY <1>1, <1>14, <2>1, JoinedStart, ZenonT(30)
  <2> QED
    BY <1>8, <1>14, <2>2 DEF Continues
<1>17. /\ StartsWith(Program, s5) /\ \A n \in 1..M : Program[B + 35 + H + n] = MessageSweep[n]
  <2>1. StartsWith(Program, s5 \o MessageSweep)
    BY <1>14, <1>16 DEF s6
  <2>2. StartsWith(Program, s5) /\ Continues(Program, Len(s5), MessageSweep)
    BY <1>1, <1>13, <2>1, JoinedStart, ZenonT(30)
  <2> QED
    BY <1>8, <1>13, <2>2 DEF Continues
<1>18. /\ StartsWith(Program, s4) /\ \A n \in 1..2 + H : Program[B + 33 + n] = HttpSweep[n]
  <2>1. StartsWith(Program, s4 \o HttpSweep)
    BY <1>13, <1>17 DEF s5
  <2>2. StartsWith(Program, s4) /\ Continues(Program, Len(s4), HttpSweep)
    BY <1>1, <1>12, <2>1, JoinedStart, ZenonT(30)
  <2> QED
    BY <1>8, <1>12, <2>2 DEF Continues
<1>19. /\ StartsWith(Program, s3) /\ \A n \in 1..4 : Program[B + 29 + n] = PreservationSuite[n]
  <2>1. StartsWith(Program, s3 \o PreservationSuite)
    BY <1>12, <1>18 DEF s4
  <2>2. StartsWith(Program, s3) /\ Continues(Program, Len(s3), PreservationSuite)
    BY <1>1, <1>11, <2>1, JoinedStart, ZenonT(30)
  <2> QED
    BY <1>8, <1>11, <2>2 DEF Continues
<1>20. /\ StartsWith(Program, s2) /\ \A n \in 1..8 : Program[B + 21 + n] = ManagementSuite[n]
  <2>1. StartsWith(Program, s2 \o ManagementSuite)
    BY <1>11, <1>19 DEF s3
  <2>2. StartsWith(Program, s2) /\ Continues(Program, Len(s2), ManagementSuite)
    BY <1>1, <1>10, <2>1, JoinedStart, ZenonT(30)
  <2> QED
    BY <1>8, <1>10, <2>2 DEF Continues
<1>21. /\ StartsWith(Program, s1) /\ \A n \in 1..6 : Program[B + 15 + n] = CrudSuite[n]
  <2>1. StartsWith(Program, s1 \o CrudSuite)
    BY <1>10, <1>20 DEF s2
  <2>2. StartsWith(Program, s1) /\ Continues(Program, Len(s1), CrudSuite)
    BY <1>1, <1>9, <2>1, JoinedStart, ZenonT(30)
  <2> QED
    BY <1>8, <1>9, <2>2 DEF Continues
<1>22. \A n \in 1..15 : Program[B + n] = RevertSuite[n]
  <2>1. StartsWith(Program, first \o RevertSuite)
    BY <1>9, <1>21 DEF s1
  <2>2. StartsWith(Program, first) /\ Continues(Program, Len(first), RevertSuite)
    BY <1>1, <1>5, <2>1, JoinedStart, ZenonT(30)
  <2> QED
    BY <1>8, <1>5, <2>2 DEF Continues
<1>23. /\ Program[B + 34] = HttpSweep[1] /\ Program[B + 35] = HttpSweep[2]
       /\ \A n \in 1..H : Program[B + 35 + n] = HttpSweep[2 + n]
  <2>1. /\ 1 \in 1..2 + H /\ 2 \in 1..2 + H /\ \A n \in 1..H : 2 + n \in 1..2 + H
        /\ B + 33 + 1 = B + 34 /\ B + 33 + 2 = B + 35
        /\ \A n \in 1..H : B + 33 + (2 + n) = B + 35 + n
    BY <1>3, <1>6
  <2> QED
    BY <1>18, <2>1
<1>24. /\ HttpSweep[1] = As(SyncId, Answers) /\ HttpSweep[2] = As(SourceOnlyId, {"refused"})
       /\ \A n \in 1..H : HttpSweep[2 + n] = As(HttpPlans[n].client, {"accepted"})
       /\ \A n \in 1..M : MessageSweep[n] =
              AskMessage("verify", MessagePlans[n].client, NoWrite, {"accepted"})
  BY SuiteLengths DEF H, M
<1> SUFFICES
        /\ H \in Nat /\ M \in Nat /\ B \in Nat /\ E = B + 35 + H + M
        /\ Len(Program) = E + 11
        /\ \A n \in 1..15 : Program[B + n] = RevertSuite[n]
        /\ \A n \in 1..6 : Program[B + 15 + n] = CrudSuite[n]
        /\ \A n \in 1..8 : Program[B + 21 + n] = ManagementSuite[n]
        /\ \A n \in 1..4 : Program[B + 29 + n] = PreservationSuite[n]
        /\ Program[B + 34] = As(SyncId, Answers)
        /\ Program[B + 35] = As(SourceOnlyId, {"refused"})
        /\ \A n \in 1..H : Program[B + 35 + n] = As(HttpPlans[n].client, {"accepted"})
        /\ \A n \in 1..M : Program[B + 35 + H + n] =
               AskMessage("verify", MessagePlans[n].client, NoWrite, {"accepted"})
        /\ \A n \in 1..11 : Program[E + n] = Demonstration[n]
  BY DEF B, E, H, M
<1>25. Len(Program) = E + 11
  BY <1>7, <1>15
<1> QED
  BY <1>3, <1>6, <1>16, <1>17, <1>19, <1>20, <1>21, <1>22, <1>23, <1>24, <1>25, ZenonT(30)

(* Every instruction is one of these.                                       *)
Ensures(i) ==
    /\ i.way = "factory" /\ i.places = << Source >> /\ i.operation = "ensure"
    /\ i.expect = Answers /\ i.is = <<>>
    /\ i.write.purpose = Unset /\ i.write.hash \in Hashes /\ i.client \notin SuiteIds
    /\ i.store = "message" =>
          \E credential \in ToSet(MessageCredentials) :
              i.client = credential.client /\ i.write.hash = credential.secret

CreatesEntry(i, entry, signer, seeded) ==
    /\ Creates(i, entry.client, entry.store, signer)
    /\ i.write = Write(entry.secret, seeded) /\ i.expect = {"accepted", "exists"}

TurnsRow(i, row) ==
    /\ i.way = "route" /\ i.places = TargetList /\ i.by = SyncId /\ i.secret = SecretOf(SyncId)
    /\ i.operation \in {"update", "revert"} /\ i.client = row.client /\ i.store = row.store
    /\ i.expect = Answers

Fetches(i, client, expect) ==
    /\ i.way = "route" /\ i.places = TargetList /\ i.by = client /\ i.secret = SecretOf(client)
    /\ i.operation = "fetch" /\ i.client = client /\ i.store = "http" /\ i.expect = expect

Verifies(i, client) ==
    /\ i.way = "route" /\ i.places = TargetList /\ i.operation = "verify"
    /\ i.client = client /\ i.store = "message" /\ i.expect = {"accepted"}

(* What syncFromConfig stores, the message credentials first.               *)
LEMMA EnsuresAt ==
    /\ \A n \in 1..Len(LocalCredentials) : Ensures(Program[n])
    /\ \A n \in 1..Len(MessageCredentials) :
          /\ n \in 1..Len(LocalCredentials)
          /\ Program[n].store = "message"
          /\ Program[n].client = MessageCredentials[n].client
<1> DEFINE messages ==
               ForAll(MessageCredentials, LAMBDA c :
                   OfStore(Local("ensure", c.client,
                                 [Write(c.secret, Unset) EXCEPT !.allowedIps = Unset], Answers),
                           "message"))
           https ==
               ForAll(HttpCredentials, LAMBDA c :
                   Local("ensure", c.client, Write(c.secret, Unset), Answers))
           S == {messages[m] : m \in DOMAIN messages} \cup {https[m] : m \in DOMAIN https}
           L == Len(LocalCredentials)
<1>1. /\ MessageCredentials \in Seq(Credentials) /\ HttpCredentials \in Seq(Credentials)
      /\ \A m \in 1..Len(MessageCredentials) :
            /\ MessageCredentials[m] \in ToSet(MessageCredentials)
            /\ MessageCredentials[m].secret \in Hashes
      /\ \A m \in 1..Len(HttpCredentials) :
            /\ HttpCredentials[m] \in ToSet(HttpCredentials)
            /\ HttpCredentials[m].secret \in Hashes
  BY ListMembers DEF Credentials
<1>2. /\ messages = [m \in 1..Len(MessageCredentials) |-> messages[m]]
      /\ https = [m \in 1..Len(HttpCredentials) |-> https[m]]
      /\ Len(MessageCredentials) \in Nat /\ Len(HttpCredentials) \in Nat
  BY <1>1 DEF ForAll
<1>3. \A m \in 1..Len(MessageCredentials) :
          Ensures(messages[m]) /\ messages[m].store = "message"
          /\ messages[m].client = MessageCredentials[m].client
  <2> SUFFICES ASSUME NEW m \in 1..Len(MessageCredentials)
               PROVE  /\ Ensures(messages[m]) /\ messages[m].store = "message"
                      /\ messages[m].client = MessageCredentials[m].client
    OBVIOUS
  <2> DEFINE c == MessageCredentials[m]
             w == [Write(c.secret, Unset) EXCEPT !.allowedIps = Unset]
             i == OfStore(Local("ensure", c.client, w, Answers), "message")
  <2>1. messages[m] = i
    <3>1. m \in DOMAIN MessageCredentials
      BY <1>1
    <3> QED
      BY <3>1, Zenon DEF ForAll
  <2>2. w.purpose = Unset /\ w.hash = c.secret
    BY DEF Write
  <2> HIDE DEF w
  <2>3. /\ i.way = "factory" /\ i.places = << Source >> /\ i.operation = "ensure"
        /\ i.expect = Answers /\ i.is = <<>> /\ i.write = w /\ i.client = c.client
        /\ i.store = "message"
    BY DEF OfStore, Local, Ask
  <2> HIDE DEF i
  <2>4. c.client \notin SuiteIds
    BY <1>1, GreenAssumption
  <2> QED
    BY <1>1, <2>1, <2>2, <2>3, <2>4 DEF Ensures
<1>4. \A m \in 1..Len(HttpCredentials) : Ensures(https[m])
  <2> SUFFICES ASSUME NEW m \in 1..Len(HttpCredentials) PROVE Ensures(https[m])
    OBVIOUS
  <2> DEFINE c == HttpCredentials[m]
             w == Write(c.secret, Unset)
             i == Local("ensure", c.client, w, Answers)
  <2>1. https[m] = i
    BY <1>1 DEF ForAll
  <2>2. w.purpose = Unset /\ w.hash = c.secret
    BY DEF Write
  <2> HIDE DEF w
  <2>3. /\ i.way = "factory" /\ i.places = << Source >> /\ i.operation = "ensure"
        /\ i.expect = Answers /\ i.is = <<>> /\ i.write = w /\ i.client = c.client
        /\ i.store = "http"
    BY DEF Local, Ask
  <2> HIDE DEF i
  <2>4. c.client \notin SuiteIds
    BY <1>1, GreenAssumption
  <2> QED
    BY <1>1, <2>1, <2>2, <2>3, <2>4 DEF Ensures
<1>5. LocalCredentials = messages \o https
  BY DEF LocalCredentials
<1> HIDE DEF messages, https
<1>6. /\ messages \in Seq(S) /\ https \in Seq(S)
      /\ Len(messages) = Len(MessageCredentials) /\ Len(https) = Len(HttpCredentials)
  BY <1>2
<1> HIDE DEF S
<1>7. /\ Len(messages \o https) = Len(messages) + Len(https)
      /\ \A n \in 1..Len(messages) + Len(https) :
            (messages \o https)[n] = IF n <= Len(messages) THEN messages[n]
                                     ELSE https[n - Len(messages)]
  BY <1>6, ConcatProperties
<1>8. ASSUME NEW n \in 1..L
      PROVE  /\ Ensures(LocalCredentials[n])
             /\ n <= Len(MessageCredentials) =>
                   /\ LocalCredentials[n].store = "message"
                   /\ LocalCredentials[n].client = MessageCredentials[n].client
  <2>1. CASE n <= Len(MessageCredentials)
    BY <1>2, <1>3, <1>5, <1>6, <1>7, <2>1
  <2>2. CASE ~(n <= Len(MessageCredentials))
    <3>1. n - Len(MessageCredentials) \in 1..Len(HttpCredentials)
      BY <1>2, <1>5, <1>6, <1>7, <2>2
    <3>2. LocalCredentials[n] = https[n - Len(MessageCredentials)]
      BY <1>2, <1>5, <1>6, <1>7, <2>2
    <3> QED
      BY <1>4, <2>2, <3>1, <3>2
  <2> QED
    BY <2>1, <2>2
<1>9. \A n \in 1..L : Program[n] = LocalCredentials[n]
  BY Sections
<1>10. \A n \in 1..Len(MessageCredentials) : n \in 1..L /\ n <= Len(MessageCredentials)
  BY <1>2, <1>5, <1>6, <1>7
<1> QED
  BY <1>8, <1>9, <1>10

(* The planned creations and the rotations of the rows.                     *)
LEMMA EntriesAt ==
    ASSUME NEW n \in DOMAIN Program, n > Len(LocalCredentials), n <= SuiteBegin
    PROVE  \/ /\ n \in PlansBegin..PlansEnd
              /\ \E plan \in ToSet(Plans) : CreatesEntry(Program[n], plan, BootstrapId, FALSE)
           \/ /\ n > PlansEnd
              /\ \E row \in ToSet(SeedRows) :
                    CreatesEntry(Program[n], row, SyncId, TRUE) \/ TurnsRow(Program[n], row)
<1> DEFINE L == Len(LocalCredentials)
           P == Len(Plans)
           R == Len(SeedRows)
<1>1. /\ L \in Nat /\ P \in Nat /\ R \in Nat
      /\ \A m \in 1..P : Program[L + m] = Planned(Plans[m], BootstrapId, FALSE)
      /\ \A m \in 1..R : Program[L + P + m] = Planned(SeedRows[m], SyncId, TRUE)
      /\ \A m \in 1..2 * R : Program[L + P + R + m] = RevertDemo[m]
  BY Sections
<1>2. \A entry, signer, seeded :
          CreatesEntry(Planned(entry, signer, seeded), entry, signer, seeded)
  <2>1. \A entry, signer, seeded :
            LET i == Planned(entry, signer, seeded)
            IN  i.write = Write(entry.secret, seeded) /\ i.expect = {"accepted", "exists"}
    BY DEF Planned, Ask
  <2> QED
    BY <2>1, PlannedCreates, Zenon DEF CreatesEntry
<1>3. /\ \A m \in 1..P : Plans[m] \in ToSet(Plans)
      /\ \A m \in 1..R : SeedRows[m] \in ToSet(SeedRows)
  <2>1. HttpPlans \in Seq(Credentials) /\ MessagePlans \in Seq(Credentials)
        /\ SeedRows \in Seq(Credentials)
    BY ListMembers
  <2>2. Plans \in Seq(Credentials)
    BY <2>1, ConcatProperties DEF Plans
  <2> QED
    BY <2>1, <2>2 DEF ToSet
<1>4. \A row : TurnsRow(RotateAndRevert(row)[1], row) /\ TurnsRow(RotateAndRevert(row)[2], row)
  BY DEF TurnsRow, RotateAndRevert, OfStore, Ask
<1>5. PlansBegin = L + 1 /\ PlansEnd = L + P /\ SuiteBegin = L + P + 3 * R /\ n \in Nat
  BY ProgramTyped DEF PlansBegin, PlansEnd, SuiteBegin
<1>6. n > L /\ n <= SuiteBegin
  OBVIOUS
<1> HIDE DEF L, P, R
<1>7. CASE n <= L + P
  <2>1. n - L \in 1..P /\ L + (n - L) = n /\ n \in PlansBegin..PlansEnd
    BY <1>1, <1>5, <1>6, <1>7
  <2>2. Program[n] = Planned(Plans[n - L], BootstrapId, FALSE)
    BY <1>1, <2>1
  <2> QED
    BY <1>2, <1>3, <2>1, <2>2
<1>8. CASE ~(n <= L + P) /\ n <= L + P + R
  <2>1. n - (L + P) \in 1..R /\ L + P + (n - (L + P)) = n
    BY <1>1, <1>5, <1>8
  <2>3. n > PlansEnd
    BY <1>1, <1>5, <1>8
  <2>2. Program[n] = Planned(SeedRows[n - (L + P)], SyncId, TRUE)
    BY <1>1, <2>1
  <2> QED
    BY <1>2, <1>3, <2>1, <2>2, <2>3
<1>9. CASE ~(n <= L + P + R)
  <2> DEFINE m == n - (L + P + R)
  <2>1. m \in 1..2 * R /\ L + P + R + m = n /\ n > PlansEnd
    BY <1>1, <1>5, <1>6, <1>9
  <2> HIDE DEF m
  <2>2. PICK j \in 1..R : j = (m + 1) \div 2
    BY <1>1, <2>1
  <2>3. 2 - (m % 2) \in {1, 2}
    BY <1>1, <2>1
  <2>4. RevertDemo[m] = RotateAndRevert(SeedRows[j])[2 - (m % 2)]
    BY <2>1, <2>2 DEF RevertDemo, R
  <2>5. TurnsRow(RevertDemo[m], SeedRows[j])
    BY <1>4, <2>3, <2>4
  <2>6. Program[n] = RevertDemo[m]
    BY <1>1, <2>1
  <2> QED
    BY <1>3, <2>1, <2>2, <2>5, <2>6
<1> QED
  BY <1>1, <1>5, <1>7, <1>8, <1>9

(* The sweeps.                                                              *)
LEMMA SweepsAt ==
    ASSUME NEW n \in DOMAIN Program, n > SuiteBegin + 33, n <= DemoBegin
    PROVE  \/ Fetches(Program[n], SyncId, Answers)
           \/ Fetches(Program[n], SourceOnlyId, {"refused"})
           \/ \E plan \in ToSet(HttpPlans) : Fetches(Program[n], plan.client, {"accepted"})
           \/ \E plan \in ToSet(MessagePlans) : Verifies(Program[n], plan.client)
<1> DEFINE H == Len(HttpPlans)
           M == Len(MessagePlans)
           B == SuiteBegin
           E == DemoBegin
<1>1. /\ H \in Nat /\ M \in Nat /\ B \in Nat /\ E = B + 35 + H + M
      /\ Program[B + 34] = As(SyncId, Answers)
      /\ Program[B + 35] = As(SourceOnlyId, {"refused"})
      /\ \A m \in 1..H : Program[B + 35 + m] = As(HttpPlans[m].client, {"accepted"})
      /\ \A m \in 1..M : Program[B + 35 + H + m] =
             AskMessage("verify", MessagePlans[m].client, NoWrite, {"accepted"})
  BY SectionsAt
<1>2. /\ \A m \in 1..H : HttpPlans[m] \in ToSet(HttpPlans)
      /\ \A m \in 1..M : MessagePlans[m] \in ToSet(MessagePlans)
  BY ListMembers
<1>3. \A client, expect : Fetches(As(client, expect), client, expect)
  BY DEF Fetches, As, Ask
<1>4. \A client : Verifies(AskMessage("verify", client, NoWrite, {"accepted"}), client)
  BY DEF Verifies, AskMessage, OfStore, Ask
<1>5. n > B + 33 /\ n <= E /\ n \in Nat
  BY ProgramTyped
<1> HIDE DEF H, M, B, E
<1>6. CASE n = B + 34 \/ n = B + 35
  BY <1>1, <1>3, <1>6
<1>7. CASE n > B + 35 /\ n <= B + 35 + H
  <2>1. n - (B + 35) \in 1..H /\ B + 35 + (n - (B + 35)) = n
    BY <1>1, <1>5, <1>7
  <2>2. Program[n] = As(HttpPlans[n - (B + 35)].client, {"accepted"})
    BY <1>1, <2>1
  <2> QED
    BY <1>2, <1>3, <2>1, <2>2
<1>8. CASE n > B + 35 + H
  <2>1. n - (B + 35 + H) \in 1..M /\ B + 35 + H + (n - (B + 35 + H)) = n
    BY <1>1, <1>5, <1>8
  <2>2. Program[n] = AskMessage("verify", MessagePlans[n - (B + 35 + H)].client, NoWrite,
                                {"accepted"})
    BY <1>1, <2>1
  <2> QED
    BY <1>2, <1>4, <2>1, <2>2
<1> QED
  BY <1>1, <1>5, <1>6, <1>7, <1>8

(* The torture suite asks the targets, as the client of the rows, ...        *)
Asks(n, operation, store, client, write, expect) ==
    LET i == Program[SuiteBegin + n]
    IN  /\ i.way = "route" /\ i.places = TargetList
        /\ i.by = SyncId /\ i.secret = SecretOf(SyncId)
        /\ i.operation = operation /\ i.store = store /\ i.client = client
        /\ i.write = write /\ i.expect = expect

(* These are the instructions of the revert suite and of the CRUD suite.     *)
LEMMA SuiteAsks ==
    /\ Asks(1, "create", "http", "r1", Write("r1-secret", TRUE), Answers)
    /\ Asks(2, "revert", "http", "r1", NoWrite, {"accepted"})
    /\ Asks(3, "revert", "http", "absent", NoWrite, {"accepted"})
    /\ Asks(8, "create", "message", "r4", Write("r4-original", TRUE), Answers)
    /\ Asks(9, "update", "message", "r4", Write("r4-rotated", TRUE), Answers)
    /\ Asks(10, "revert", "message", "r4", NoWrite, {"reverted"})
    /\ Asks(11, "create", "http", "r5", Write("r5-round0", TRUE), Answers)
    /\ Asks(12, "update", "http", "r5", Write("r5-round1", TRUE), Answers)
    /\ Asks(13, "update", "http", "r5", Write("r5-round2", TRUE), Answers)
    /\ Asks(14, "revert", "http", "r5", NoWrite, {"reverted"})
    /\ Asks(15, "revert", "http", "r5", NoWrite, {"accepted"})
    /\ Asks(16, "create", "http", "c", Write("c-secret", FALSE), Answers)
    /\ Asks(17, "create", "http", "c", Write("c-secret", FALSE), {"exists"})
    /\ Asks(18, "update", "http", "absent", Write("c-secret", FALSE), {"missing"})
    /\ Asks(19, "delete", "http", "c", NoWrite, {"accepted"})
    /\ Asks(20, "delete", "http", "absent", NoWrite, Refusals)
    /\ Asks(21, "health", "http", BootstrapId, NoWrite, {"accepted"})
<1>1. /\ \A n \in 1..15 : Program[SuiteBegin + n] = RevertSuite[n]
      /\ \A n \in 1..6 : Program[SuiteBegin + 15 + n] = CrudSuite[n]
      /\ SuiteBegin \in Nat
  BY SectionsAt
<1>2. ASSUME NEW n, NEW operation, NEW client, NEW write, NEW expect
      PROVE  /\ Program[SuiteBegin + n] = Ask(operation, client, write, expect) =>
                    Asks(n, operation, "http", client, write, expect)
             /\ Program[SuiteBegin + n] = AskMessage(operation, client, write, expect) =>
                    Asks(n, operation, "message", client, write, expect)
  BY DEF Ask, AskMessage, OfStore, Asks
<1>4. /\ RevertSuite[1] = Ask("create", "r1", Write("r1-secret", TRUE), Answers)
      /\ RevertSuite[2] = Ask("revert", "r1", NoWrite, {"accepted"})
      /\ RevertSuite[3] = Ask("revert", "absent", NoWrite, {"accepted"})
      /\ RevertSuite[8] = AskMessage("create", "r4", Write("r4-original", TRUE), Answers)
      /\ RevertSuite[9] = AskMessage("update", "r4", Write("r4-rotated", TRUE), Answers)
      /\ RevertSuite[10] = AskMessage("revert", "r4", NoWrite, {"reverted"})
      /\ RevertSuite[11] = Ask("create", "r5", Write("r5-round0", TRUE), Answers)
      /\ RevertSuite[12] = Ask("update", "r5", Write("r5-round1", TRUE), Answers)
      /\ RevertSuite[13] = Ask("update", "r5", Write("r5-round2", TRUE), Answers)
      /\ RevertSuite[14] = Ask("revert", "r5", NoWrite, {"reverted"})
      /\ RevertSuite[15] = Ask("revert", "r5", NoWrite, {"accepted"})
  BY DEF RevertSuite
<1>5. /\ CrudSuite[1] = Ask("create", "c", Write("c-secret", FALSE), Answers)
      /\ CrudSuite[2] = Ask("create", "c", Write("c-secret", FALSE), {"exists"})
      /\ CrudSuite[3] = Ask("update", "absent", Write("c-secret", FALSE), {"missing"})
      /\ CrudSuite[4] = Ask("delete", "c", NoWrite, {"accepted"})
      /\ CrudSuite[5] = Ask("delete", "absent", NoWrite, Refusals)
      /\ CrudSuite[6] = Ask("health", BootstrapId, NoWrite, {"accepted"})
  BY DEF CrudSuite
<1>6. /\ Program[SuiteBegin + 16] = CrudSuite[1] /\ Program[SuiteBegin + 17] = CrudSuite[2]
      /\ Program[SuiteBegin + 18] = CrudSuite[3] /\ Program[SuiteBegin + 19] = CrudSuite[4]
      /\ Program[SuiteBegin + 20] = CrudSuite[5] /\ Program[SuiteBegin + 21] = CrudSuite[6]
  <2>1. \A n \in 1..6 : Program[(SuiteBegin + 15) + n] = CrudSuite[n]
    BY <1>1
  <2>2. /\ SuiteBegin + 16 = (SuiteBegin + 15) + 1 /\ SuiteBegin + 17 = (SuiteBegin + 15) + 2
        /\ SuiteBegin + 18 = (SuiteBegin + 15) + 3 /\ SuiteBegin + 19 = (SuiteBegin + 15) + 4
        /\ SuiteBegin + 20 = (SuiteBegin + 15) + 5 /\ SuiteBegin + 21 = (SuiteBegin + 15) + 6
    BY <1>1
  <2> QED
    BY <2>1, <2>2
<1>7. /\ Program[SuiteBegin + 1] = RevertSuite[1] /\ Program[SuiteBegin + 2] = RevertSuite[2]
      /\ Program[SuiteBegin + 3] = RevertSuite[3] /\ Program[SuiteBegin + 8] = RevertSuite[8]
      /\ Program[SuiteBegin + 9] = RevertSuite[9] /\ Program[SuiteBegin + 10] = RevertSuite[10]
      /\ Program[SuiteBegin + 11] = RevertSuite[11] /\ Program[SuiteBegin + 12] = RevertSuite[12]
      /\ Program[SuiteBegin + 13] = RevertSuite[13] /\ Program[SuiteBegin + 14] = RevertSuite[14]
      /\ Program[SuiteBegin + 15] = RevertSuite[15]
  BY <1>1
<1>8. /\ Program[SuiteBegin + 1] = Ask("create", "r1", Write("r1-secret", TRUE), Answers)
      /\ Program[SuiteBegin + 2] = Ask("revert", "r1", NoWrite, {"accepted"})
      /\ Program[SuiteBegin + 3] = Ask("revert", "absent", NoWrite, {"accepted"})
      /\ Program[SuiteBegin + 8] = AskMessage("create", "r4", Write("r4-original", TRUE), Answers)
      /\ Program[SuiteBegin + 9] = AskMessage("update", "r4", Write("r4-rotated", TRUE), Answers)
      /\ Program[SuiteBegin + 10] = AskMessage("revert", "r4", NoWrite, {"reverted"})
      /\ Program[SuiteBegin + 11] = Ask("create", "r5", Write("r5-round0", TRUE), Answers)
      /\ Program[SuiteBegin + 12] = Ask("update", "r5", Write("r5-round1", TRUE), Answers)
      /\ Program[SuiteBegin + 13] = Ask("update", "r5", Write("r5-round2", TRUE), Answers)
      /\ Program[SuiteBegin + 14] = Ask("revert", "r5", NoWrite, {"reverted"})
      /\ Program[SuiteBegin + 15] = Ask("revert", "r5", NoWrite, {"accepted"})
      /\ Program[SuiteBegin + 16] = Ask("create", "c", Write("c-secret", FALSE), Answers)
      /\ Program[SuiteBegin + 17] = Ask("create", "c", Write("c-secret", FALSE), {"exists"})
      /\ Program[SuiteBegin + 18] = Ask("update", "absent", Write("c-secret", FALSE), {"missing"})
      /\ Program[SuiteBegin + 19] = Ask("delete", "c", NoWrite, {"accepted"})
      /\ Program[SuiteBegin + 20] = Ask("delete", "absent", NoWrite, Refusals)
      /\ Program[SuiteBegin + 21] = Ask("health", BootstrapId, NoWrite, {"accepted"})
  BY <1>4, <1>5, <1>6, <1>7, ZenonT(30)
<1> QED
  BY <1>2, <1>8, ZenonT(30)

(* ... calls the clients factory of the source, ...                         *)
Calls(n, operation, store, client, write, expect, is) ==
    LET i == Program[SuiteBegin + n]
    IN  /\ i.way = "factory" /\ i.places = << Source >>
        /\ i.operation = operation /\ i.store = store /\ i.client = client
        /\ i.write = write /\ i.expect = expect /\ i.is = is

OnlyOther == [NoWrite EXCEPT !.allowedIps = {"other"}]

Dated(secret, seeded) ==
    [hash |-> secret, expiresAt |-> 2100, allowedIps |-> {"other"},
     fromDbSeed |-> seeded, purpose |-> Unset]

AsDated == [fromDbSeed |-> TRUE, expiresAt |-> 2100, allowedIps |-> {"other"}]

(* These are the instructions of R3 and of the last two suites.             *)
LEMMA SuiteCalls ==
    /\ Calls(4, "set", "http", "r3", Write("r3-original", TRUE), {"changed"}, <<>>)
    /\ Calls(5, "set", "http", "r3", Write("r3-rotated", TRUE), {"changed"}, <<>>)
    /\ Calls(6, "revert", "http", "r3", NoWrite, {"reverted"}, [hash |-> "r3-original"])
    /\ Calls(7, "revert", "http", "r3", NoWrite, {"accepted"}, <<>>)
    /\ Calls(22, "create", "http", "m", Write("m-original", Unset), Answers, <<>>)
    /\ Calls(23, "regenerate", "http", "m", Write("generated", Unset), {"changed"}, <<>>)
    /\ Calls(24, "create", "message", "m", Write("m-original", Unset), Answers, <<>>)
    /\ Calls(25, "regenerate", "message", "m", Write("generated", Unset), {"changed"}, <<>>)
    /\ Calls(26, "create", "http", "m", Write("m-original", Unset), Answers, <<>>)
    /\ Calls(27, "allow", "http", "m", OnlyOther, Answers, [allowedIps |-> {"other"}])
    /\ Calls(28, "create", "http", "m", Write("m-original", Unset), Answers, <<>>)
    /\ Calls(29, "delete", "http", "m", NoWrite, Answers, NoRecord)
    /\ Calls(30, "create", "http", "f", Dated("f-original", Unset), Answers, <<>>)
    /\ Calls(31, "set", "http", "f", Dated("f-original", TRUE), Answers, <<>>)
    /\ Calls(32, "set", "http", "f", Dated("f-rotated", TRUE), Answers, <<>>)
    /\ Calls(33, "revert", "http", "f", NoWrite, {"reverted"}, AsDated)
<1>1. /\ \A n \in 1..15 : Program[SuiteBegin + n] = RevertSuite[n]
      /\ \A n \in 1..8 : Program[SuiteBegin + 21 + n] = ManagementSuite[n]
      /\ \A n \in 1..4 : Program[SuiteBegin + 29 + n] = PreservationSuite[n]
      /\ SuiteBegin \in Nat
  BY SectionsAt
<1>2. ASSUME NEW n, NEW i, NEW operation, NEW client, NEW write, NEW expect, NEW is,
             Program[SuiteBegin + n] = i
      PROVE  /\ i = Local(operation, client, write, expect) =>
                    Calls(n, operation, "http", client, write, expect, <<>>)
             /\ i = OfStore(Local(operation, client, write, expect), "message") =>
                    Calls(n, operation, "message", client, write, expect, <<>>)
             /\ i = Stating(Local(operation, client, write, expect), is) =>
                    Calls(n, operation, "http", client, write, expect, is)
  <2>1. CASE i = Local(operation, client, write, expect)
    <3>1. Calls(n, operation, "http", client, write, expect, <<>>)
      BY <1>2, <2>1 DEF Calls, Ask, Local
    <3>2. QED
      BY <2>1, <3>1 DEF Calls, Local, Ask, OfStore, Stating
  <2>2. CASE i = OfStore(Local(operation, client, write, expect), "message")
    <3>1. Calls(n, operation, "message", client, write, expect, <<>>)
      BY <1>2, <2>2 DEF Calls, Ask, Local, OfStore
    <3>2. QED
      BY <2>2, <3>1 DEF Calls, Local, Ask, OfStore, Stating
  <2>3. CASE i = Stating(Local(operation, client, write, expect), is)
    <3>1. Calls(n, operation, "http", client, write, expect, is)
      BY <1>2, <2>3 DEF Calls, Ask, Local, Stating
    <3>2. QED
      BY <2>3, <3>1 DEF Calls, Local, Ask, OfStore, Stating
  <2> QED
    BY <2>1, <2>2, <2>3
<1>3. /\ RevertSuite[4] = Local("set", "r3", Write("r3-original", TRUE), {"changed"})
      /\ RevertSuite[5] = Local("set", "r3", Write("r3-rotated", TRUE), {"changed"})
      /\ RevertSuite[6] = Stating(Local("revert", "r3", NoWrite, {"reverted"}),
                             [hash |-> "r3-original"])
      /\ RevertSuite[7] = Local("revert", "r3", NoWrite, {"accepted"})
  BY DEF RevertSuite
<1>4. /\ ManagementSuite[1] = Local("create", "m", Write("m-original", Unset), Answers)
      /\ ManagementSuite[2] = Local("regenerate", "m", Write("generated", Unset), {"changed"})
      /\ ManagementSuite[3] = OfStore(Local("create", "m", Write("m-original", Unset),
                                 Answers), "message")
      /\ ManagementSuite[4] = OfStore(Local("regenerate", "m", Write("generated", Unset),
                                 {"changed"}), "message")
      /\ ManagementSuite[5] = Local("create", "m", Write("m-original", Unset), Answers)
      /\ ManagementSuite[6] = Stating(Local("allow", "m", OnlyOther, Answers),
                                 [allowedIps |-> {"other"}])
      /\ ManagementSuite[7] = Local("create", "m", Write("m-original", Unset), Answers)
      /\ ManagementSuite[8] = Stating(Local("delete", "m", NoWrite, Answers), NoRecord)
  BY DEF ManagementSuite, OnlyOther
<1>5. /\ PreservationSuite[1] = Local("create", "f", Dated("f-original", Unset), Answers)
      /\ PreservationSuite[2] = Local("set", "f", Dated("f-original", TRUE), Answers)
      /\ PreservationSuite[3] = Local("set", "f", Dated("f-rotated", TRUE), Answers)
      /\ PreservationSuite[4] = Stating(Local("revert", "f", NoWrite, {"reverted"}), AsDated)
  BY DEF PreservationSuite, Dated, AsDated
<1>6. /\ Program[SuiteBegin + 4] = RevertSuite[4]
      /\ Program[SuiteBegin + 5] = RevertSuite[5]
      /\ Program[SuiteBegin + 6] = RevertSuite[6]
      /\ Program[SuiteBegin + 7] = RevertSuite[7]
  BY <1>1
<1>7. /\ Program[SuiteBegin + 22] = ManagementSuite[1]
      /\ Program[SuiteBegin + 23] = ManagementSuite[2]
      /\ Program[SuiteBegin + 24] = ManagementSuite[3]
      /\ Program[SuiteBegin + 25] = ManagementSuite[4]
      /\ Program[SuiteBegin + 26] = ManagementSuite[5]
      /\ Program[SuiteBegin + 27] = ManagementSuite[6]
      /\ Program[SuiteBegin + 28] = ManagementSuite[7]
      /\ Program[SuiteBegin + 29] = ManagementSuite[8]
  <2>1. \A n \in 1..8 : Program[(SuiteBegin + 21) + n] = ManagementSuite[n]
    BY <1>1
  <2>2. /\ SuiteBegin + 22 = (SuiteBegin + 21) + 1
        /\ SuiteBegin + 23 = (SuiteBegin + 21) + 2
        /\ SuiteBegin + 24 = (SuiteBegin + 21) + 3
        /\ SuiteBegin + 25 = (SuiteBegin + 21) + 4
        /\ SuiteBegin + 26 = (SuiteBegin + 21) + 5
        /\ SuiteBegin + 27 = (SuiteBegin + 21) + 6
        /\ SuiteBegin + 28 = (SuiteBegin + 21) + 7
        /\ SuiteBegin + 29 = (SuiteBegin + 21) + 8
    BY <1>1
  <2> QED
    BY <2>1, <2>2
<1>8. /\ Program[SuiteBegin + 30] = PreservationSuite[1]
      /\ Program[SuiteBegin + 31] = PreservationSuite[2]
      /\ Program[SuiteBegin + 32] = PreservationSuite[3]
      /\ Program[SuiteBegin + 33] = PreservationSuite[4]
  <2>1. \A n \in 1..4 : Program[(SuiteBegin + 29) + n] = PreservationSuite[n]
    BY <1>1
  <2>2. /\ SuiteBegin + 30 = (SuiteBegin + 29) + 1
        /\ SuiteBegin + 31 = (SuiteBegin + 29) + 2
        /\ SuiteBegin + 32 = (SuiteBegin + 29) + 3
        /\ SuiteBegin + 33 = (SuiteBegin + 29) + 4
    BY <1>1
  <2> QED
    BY <2>1, <2>2
<1>9. /\ Program[SuiteBegin + 4] = Local("set", "r3", Write("r3-original", TRUE), {"changed"})
      /\ Program[SuiteBegin + 5] = Local("set", "r3", Write("r3-rotated", TRUE), {"changed"})
      /\ Program[SuiteBegin + 6] = Stating(Local("revert", "r3", NoWrite, {"reverted"}),
                                      [hash |-> "r3-original"])
      /\ Program[SuiteBegin + 7] = Local("revert", "r3", NoWrite, {"accepted"})
      /\ Program[SuiteBegin + 22] = Local("create", "m", Write("m-original", Unset), Answers)
      /\ Program[SuiteBegin + 23] = Local("regenerate", "m", Write("generated", Unset),
                                       {"changed"})
      /\ Program[SuiteBegin + 24] = OfStore(Local("create", "m", Write("m-original", Unset),
                                       Answers), "message")
      /\ Program[SuiteBegin + 25] = OfStore(Local("regenerate", "m", Write("generated",
                                       Unset), {"changed"}), "message")
      /\ Program[SuiteBegin + 26] = Local("create", "m", Write("m-original", Unset), Answers)
      /\ Program[SuiteBegin + 27] = Stating(Local("allow", "m", OnlyOther, Answers),
                                       [allowedIps |-> {"other"}])
      /\ Program[SuiteBegin + 28] = Local("create", "m", Write("m-original", Unset), Answers)
      /\ Program[SuiteBegin + 29] = Stating(Local("delete", "m", NoWrite, Answers), NoRecord)
      /\ Program[SuiteBegin + 30] = Local("create", "f", Dated("f-original", Unset), Answers)
      /\ Program[SuiteBegin + 31] = Local("set", "f", Dated("f-original", TRUE), Answers)
      /\ Program[SuiteBegin + 32] = Local("set", "f", Dated("f-rotated", TRUE), Answers)
      /\ Program[SuiteBegin + 33] = Stating(Local("revert", "f", NoWrite, {"reverted"}), AsDated)
  BY <1>3, <1>4, <1>5, <1>6, <1>7, <1>8, ZenonT(30)
<1> QED
  BY <1>2, <1>9, ZenonT(30)

(* ... and the demonstration asks its own place, as the bootstrap client.    *)
Shows(n, way, operation, store, client, write, secret, expect) ==
    LET i == Program[DemoBegin + n]
    IN  /\ i.way = way /\ i.places = << Demo >> /\ i.by = BootstrapId /\ i.secret = secret
        /\ i.operation = operation /\ i.store = store /\ i.client = client
        /\ i.write = write /\ i.expect = expect /\ i.is = <<>>

Restricted ==
    [Write("demo-secret", FALSE) EXCEPT !.purpose = "propagation-only", !.allowedIps = {}]

(* These are the instructions of the demonstration.                         *)
LEMMA DemoShows ==
    /\ Shows(1, "route", "health", "http", BootstrapId, NoWrite, NoHash, {"accepted"})
    /\ Shows(2, "route", "create", "http", SourceOnlyId, Write("demo-secret", FALSE), NoHash,
          {"refused"})
    /\ Shows(3, "route", "update", "http", BootstrapId, NoWrite, NoHash, {"refused"})
    /\ Shows(4, "route", "revert", "http", BootstrapId, NoWrite, NoHash, {"refused"})
    /\ Shows(5, "route", "delete", "http", BootstrapId, NoWrite, NoHash, {"refused"})
    /\ Shows(6, "route", "create", "http", BootstrapId, Restricted, NoHash, {"accepted"})
    /\ Shows(7, "factory", "create", "message", BootstrapId, Restricted, "demo-secret", Answers)
    /\ Shows(8, "route", "health", "http", BootstrapId, NoWrite, "demo-secret", {"accepted"})
    /\ Shows(9, "route", "fetch", "http", BootstrapId, NoWrite, "demo-secret", {"refused"})
    /\ Shows(10, "route", "health", "http", BootstrapId, NoWrite, "demo-secret", {"accepted"})
    /\ Shows(11, "factory", "sign", "message", BootstrapId, NoWrite, "demo-secret", {"refused"})
<1>1. \A n \in 1..11 : Program[DemoBegin + n] = Demonstration[n]
  BY SectionsAt
<1>2. ASSUME NEW n, NEW i, NEW operation, NEW client, NEW write, NEW expect, NEW secret,
             Program[DemoBegin + n] = i
      PROVE  /\ i = OnDemo(Ask(operation, client, write, expect), secret) =>
                    Shows(n, "route", operation, "http", client, write, secret, expect)
             /\ i = OnDemo(OfStore(Local(operation, client, write, expect), "message"), secret) =>
                    Shows(n, "factory", operation, "message", client, write, secret, expect)
  BY <1>2, ZenonT(40) DEF OnDemo, Ask, OfStore, Local, Shows
<1>3. /\ Demonstration[1] = OnDemo(Ask("health", BootstrapId, NoWrite, {"accepted"}), NoHash)
      /\ Demonstration[2] = OnDemo(Ask("create", SourceOnlyId, Write("demo-secret", FALSE),
                               {"refused"}), NoHash)
      /\ Demonstration[3] = OnDemo(Ask("update", BootstrapId, NoWrite, {"refused"}), NoHash)
      /\ Demonstration[4] = OnDemo(Ask("revert", BootstrapId, NoWrite, {"refused"}), NoHash)
      /\ Demonstration[5] = OnDemo(Ask("delete", BootstrapId, NoWrite, {"refused"}), NoHash)
      /\ Demonstration[6] = OnDemo(Ask("create", BootstrapId, Restricted, {"accepted"}), NoHash)
      /\ Demonstration[7] = OnDemo(OfStore(Local("create", BootstrapId, Restricted, Answers),
                               "message"), "demo-secret")
      /\ Demonstration[8] = OnDemo(Ask("health", BootstrapId, NoWrite, {"accepted"}),
                               "demo-secret")
      /\ Demonstration[9] = OnDemo(Ask("fetch", BootstrapId, NoWrite, {"refused"}), "demo-secret")
      /\ Demonstration[10] = OnDemo(Ask("health", BootstrapId, NoWrite, {"accepted"}),
                                "demo-secret")
      /\ Demonstration[11] = OnDemo(OfStore(Local("sign", BootstrapId, NoWrite, {"refused"}),
                                "message"), "demo-secret")
  BY DEF Demonstration, Restricted
<1>4. /\ Program[DemoBegin + 1] = Demonstration[1]
      /\ Program[DemoBegin + 2] = Demonstration[2]
      /\ Program[DemoBegin + 3] = Demonstration[3]
      /\ Program[DemoBegin + 4] = Demonstration[4]
      /\ Program[DemoBegin + 5] = Demonstration[5]
      /\ Program[DemoBegin + 6] = Demonstration[6]
      /\ Program[DemoBegin + 7] = Demonstration[7]
      /\ Program[DemoBegin + 8] = Demonstration[8]
      /\ Program[DemoBegin + 9] = Demonstration[9]
      /\ Program[DemoBegin + 10] = Demonstration[10]
      /\ Program[DemoBegin + 11] = Demonstration[11]
  BY <1>1
<1>5. /\ Program[DemoBegin + 1] = OnDemo(Ask("health", BootstrapId, NoWrite, {"accepted"}),
                                     NoHash)
      /\ Program[DemoBegin + 2] = OnDemo(Ask("create", SourceOnlyId, Write("demo-secret",
                                     FALSE), {"refused"}), NoHash)
      /\ Program[DemoBegin + 3] = OnDemo(Ask("update", BootstrapId, NoWrite, {"refused"}), NoHash)
      /\ Program[DemoBegin + 4] = OnDemo(Ask("revert", BootstrapId, NoWrite, {"refused"}), NoHash)
      /\ Program[DemoBegin + 5] = OnDemo(Ask("delete", BootstrapId, NoWrite, {"refused"}), NoHash)
      /\ Program[DemoBegin + 6] = OnDemo(Ask("create", BootstrapId, Restricted, {"accepted"}),
                                     NoHash)
      /\ Program[DemoBegin + 7] = OnDemo(OfStore(Local("create", BootstrapId, Restricted,
                                     Answers), "message"), "demo-secret")
      /\ Program[DemoBegin + 8] = OnDemo(Ask("health", BootstrapId, NoWrite, {"accepted"}),
                                     "demo-secret")
      /\ Program[DemoBegin + 9] = OnDemo(Ask("fetch", BootstrapId, NoWrite, {"refused"}),
                                     "demo-secret")
      /\ Program[DemoBegin + 10] = OnDemo(Ask("health", BootstrapId, NoWrite, {"accepted"}),
                                      "demo-secret")
      /\ Program[DemoBegin + 11] = OnDemo(OfStore(Local("sign", BootstrapId, NoWrite,
                                      {"refused"}), "message"), "demo-secret")
  BY <1>3, <1>4, ZenonT(30)
<1> QED
  BY <1>2, <1>5, ZenonT(30)
-----------------------------------------------------------------------------
(* Which instructions are about whom.                                       *)

(* The clients of the sections are not those of the suite.                  *)
LEMMA ClientsDiffer ==
    /\ \A e \in Entries : e.client \notin SuiteIds /\ e.client # SourceOnlyId
    /\ {BootstrapId, SyncId, SourceOnlyId} \cap SuiteIds = {}
    /\ ToSet(Plans) \subseteq Entries /\ ToSet(HttpPlans) \subseteq ToSet(Plans)
    /\ ToSet(MessagePlans) \subseteq ToSet(Plans)
    /\ BootstrapId # SourceOnlyId
<1>1. /\ \A e \in Entries : e.client \notin SuiteIds
      /\ SourceOnlyId \notin SuiteIds \cup {e.client : e \in Entries}
  BY ConfigurationAssumption, GreenAssumption
<1>2. \A client \in Signers : \E entry \in Entries : entry.client = client
  BY SignerEntries
<1>3. Entries = ToSet(HttpPlans) \cup ToSet(MessagePlans) \cup ToSet(SeedRows)
  BY EntryLists
<1>4. ToSet(Plans) = ToSet(HttpPlans) \cup ToSet(MessagePlans)
  BY EntryLists
<1>5. ToSet(Plans) \subseteq Entries
  BY DEF Entries
<1> QED
  BY <1>1, <1>2, <1>4, <1>5 DEF Signers

(* The sections of an instruction.                                          *)
LEMMA SectionOf ==
    ASSUME NEW n \in DOMAIN Program
    PROVE  \/ n <= Len(LocalCredentials) /\ Ensures(Program[n])
           \/ /\ n \in PlansBegin..PlansEnd
              /\ \E plan \in ToSet(Plans) : CreatesEntry(Program[n], plan, BootstrapId, FALSE)
           \/ /\ n > PlansEnd
              /\ \E row \in ToSet(SeedRows) :
                    CreatesEntry(Program[n], row, SyncId, TRUE) \/ TurnsRow(Program[n], row)
           \/ n > PlansEnd /\ n - SuiteBegin \in 1..33
           \/ /\ n > PlansEnd
              /\ \/ Fetches(Program[n], SyncId, Answers)
                 \/ Fetches(Program[n], SourceOnlyId, {"refused"})
                 \/ \E plan \in ToSet(HttpPlans) : Fetches(Program[n], plan.client, {"accepted"})
                 \/ \E plan \in ToSet(MessagePlans) : Verifies(Program[n], plan.client)
           \/ n > PlansEnd /\ n - DemoBegin \in 1..11
<1>1. /\ SuiteBegin \in Nat /\ DemoBegin \in Nat /\ Len(Program) = DemoBegin + 11
      /\ DemoBegin >= SuiteBegin + 35 /\ SuiteBegin >= PlansEnd /\ PlansEnd \in Nat
  <2>1. /\ Len(HttpPlans) \in Nat /\ Len(MessagePlans) \in Nat /\ SuiteBegin \in Nat
        /\ DemoBegin = SuiteBegin + 35 + Len(HttpPlans) + Len(MessagePlans)
        /\ Len(Program) = DemoBegin + 11
    BY SectionsAt
  <2>2. /\ Len(LocalCredentials) \in Nat /\ Len(Plans) \in Nat /\ Len(SeedRows) \in Nat
    BY Sections
  <2>3. SuiteBegin >= PlansEnd /\ PlansEnd \in Nat
    BY <2>2 DEF SuiteBegin, PlansEnd
  <2>4. DemoBegin \in Nat /\ DemoBegin >= SuiteBegin + 35
    BY <2>1
  <2> QED
    BY <2>1, <2>3, <2>4
<1>2. n \in 1..Len(Program) /\ n \in Nat /\ Len(LocalCredentials) \in Nat
  BY ProgramTyped, Sections
<1> DEFINE first == n <= Len(LocalCredentials) /\ Ensures(Program[n])
           plans ==
               /\ n \in PlansBegin..PlansEnd
               /\ \E plan \in ToSet(Plans) : CreatesEntry(Program[n], plan, BootstrapId, FALSE)
           rows ==
               /\ n > PlansEnd
               /\ \E row \in ToSet(SeedRows) :
                     CreatesEntry(Program[n], row, SyncId, TRUE) \/ TurnsRow(Program[n], row)
           suite == n > PlansEnd /\ n - SuiteBegin \in 1..33
           swept ==
               \/ Fetches(Program[n], SyncId, Answers)
               \/ Fetches(Program[n], SourceOnlyId, {"refused"})
               \/ \E plan \in ToSet(HttpPlans) : Fetches(Program[n], plan.client, {"accepted"})
               \/ \E plan \in ToSet(MessagePlans) : Verifies(Program[n], plan.client)
           demo == n > PlansEnd /\ n - DemoBegin \in 1..11
<1>3. CASE n <= Len(LocalCredentials)
  <2>1. n \in 1..Len(LocalCredentials)
    BY <1>2, <1>3
  <2>2. first
    BY <1>3, <2>1, EnsuresAt
  <2> QED
    BY <2>2
<1>4. CASE n > Len(LocalCredentials) /\ n <= SuiteBegin
  <2>1. plans \/ rows
    BY <1>4, EntriesAt
  <2> QED
    BY <2>1
<1>5. CASE n > SuiteBegin /\ n <= SuiteBegin + 33
  <2>1. n > PlansEnd
    BY <1>1, <1>2, <1>5
  <2>2. n - SuiteBegin \in 1..33
    <3>1. \A a, b \in Nat : a > b /\ a <= b + 33 => a - b \in 1..33
      OBVIOUS
    <3> QED
      BY <1>1, <1>2, <1>5, <3>1
  <2>3. suite
    BY <2>1, <2>2
  <2> QED
    BY <2>3
<1>6. CASE n > SuiteBegin + 33 /\ n <= DemoBegin
  <2>1. n > PlansEnd
    BY <1>1, <1>2, <1>6
  <2>2. swept
    BY <1>6, SweepsAt
  <2> QED
    BY <2>1, <2>2
<1>7. CASE n > DemoBegin
  <2>1. demo
    BY <1>1, <1>2, <1>7
  <2> QED
    BY <2>1
<1> HIDE DEF first, plans, rows, suite, swept, demo
<1>8. \/ n <= Len(LocalCredentials)
      \/ n > Len(LocalCredentials) /\ n <= SuiteBegin
      \/ n > SuiteBegin /\ n <= SuiteBegin + 33
      \/ n > SuiteBegin + 33 /\ n <= DemoBegin
      \/ n > DemoBegin
  BY <1>1, <1>2
<1> QED
  BY <1>3, <1>4, <1>5, <1>6, <1>7, <1>8, ZenonT(30)

(* Where the suite uses each of its clients.                                *)
LEMMA SuiteClients ==
    ASSUME NEW n \in DOMAIN Program
    PROVE  LET c == Program[n].client
               x == n - SuiteBegin
           IN  /\ c = "r1" => x \in {1, 2}
               /\ c = "absent" => x \in {3, 18, 20}
               /\ c = "r3" => x \in 4..7
               /\ c = "r4" => x \in 8..10
               /\ c = "r5" => x \in 11..15
               /\ c = "c" => x \in {16, 17, 19}
               /\ c = "m" => x \in 22..29
               /\ c = "f" => x \in 30..33
               /\ x \in 1..3 \cup 8..21 => Program[n].places = TargetList
               /\ x \in 4..7 \cup 22..33 => Program[n].places = << Source >>
<1> DEFINE c == Program[n].client
           x == n - SuiteBegin
<1>1. SuiteBegin \in Nat /\ DemoBegin \in Nat /\ n \in Nat /\ n = SuiteBegin + x
      /\ DemoBegin >= SuiteBegin + 35
  <2>1. /\ Len(HttpPlans) \in Nat /\ Len(MessagePlans) \in Nat /\ SuiteBegin \in Nat
        /\ DemoBegin = SuiteBegin + 35 + Len(HttpPlans) + Len(MessagePlans)
    BY SectionsAt
  <2>2. n \in Nat
    BY ProgramTyped
  <2> QED
    BY <2>1, <2>2
<1>2. CASE x \in 1..33
  <2>0. {BootstrapId, SyncId, SourceOnlyId} \cap SuiteIds = {}
    BY ClientsDiffer
  <2>1. CASE x \in 1..3 \cup 8..21
    <3>1. /\ c = "r1" => x \in {1, 2}
          /\ c = "absent" => x \in {3, 18, 20}
          /\ c = "r4" => x \in 8..10
          /\ c = "r5" => x \in 11..15
          /\ c = "c" => x \in {16, 17, 19}
          /\ c \notin {"r3", "m", "f"}
          /\ Program[n].places = TargetList
      <4>1. /\ Program[SuiteBegin + 1].client = "r1"
               /\ Program[SuiteBegin + 1].places = TargetList
          /\ Program[SuiteBegin + 2].client = "r1" /\ Program[SuiteBegin + 2].places = TargetList
          /\ Program[SuiteBegin + 3].client = "absent"
             /\ Program[SuiteBegin + 3].places = TargetList
          /\ Program[SuiteBegin + 8].client = "r4" /\ Program[SuiteBegin + 8].places = TargetList
          /\ Program[SuiteBegin + 9].client = "r4" /\ Program[SuiteBegin + 9].places = TargetList
          /\ Program[SuiteBegin + 10].client = "r4"
             /\ Program[SuiteBegin + 10].places = TargetList
          /\ Program[SuiteBegin + 11].client = "r5"
             /\ Program[SuiteBegin + 11].places = TargetList
          /\ Program[SuiteBegin + 12].client = "r5"
             /\ Program[SuiteBegin + 12].places = TargetList
          /\ Program[SuiteBegin + 13].client = "r5"
             /\ Program[SuiteBegin + 13].places = TargetList
          /\ Program[SuiteBegin + 14].client = "r5"
             /\ Program[SuiteBegin + 14].places = TargetList
          /\ Program[SuiteBegin + 15].client = "r5"
             /\ Program[SuiteBegin + 15].places = TargetList
          /\ Program[SuiteBegin + 16].client = "c" /\ Program[SuiteBegin + 16].places = TargetList
          /\ Program[SuiteBegin + 17].client = "c" /\ Program[SuiteBegin + 17].places = TargetList
          /\ Program[SuiteBegin + 18].client = "absent"
             /\ Program[SuiteBegin + 18].places = TargetList
          /\ Program[SuiteBegin + 19].client = "c" /\ Program[SuiteBegin + 19].places = TargetList
          /\ Program[SuiteBegin + 20].client = "absent"
             /\ Program[SuiteBegin + 20].places = TargetList
          /\ Program[SuiteBegin + 21].client = BootstrapId
             /\ Program[SuiteBegin + 21].places = TargetList
        BY SuiteAsks, ZenonT(40) DEF Asks
      <4>2. BootstrapId \notin {"r1", "absent", "r3", "r4", "r5", "c", "m", "f"}
        BY <2>0 DEF SuiteIds
      <4> QED
        BY <1>1, <2>1, <4>1, <4>2
    <3> QED
      BY <2>1, <3>1
  <2>2. CASE x \in 4..7 \cup 22..33
    <3>1. /\ c = "r3" => x \in 4..7
          /\ c = "m" => x \in 22..29
          /\ c = "f" => x \in 30..33
          /\ c \notin {"r1", "absent", "r4", "r5", "c"}
          /\ Program[n].places = << Source >>
      <4>1. /\ Program[SuiteBegin + 4].client = "r3"
               /\ Program[SuiteBegin + 4].places = << Source >>
          /\ Program[SuiteBegin + 5].client = "r3"
             /\ Program[SuiteBegin + 5].places = << Source >>
          /\ Program[SuiteBegin + 6].client = "r3"
             /\ Program[SuiteBegin + 6].places = << Source >>
          /\ Program[SuiteBegin + 7].client = "r3"
             /\ Program[SuiteBegin + 7].places = << Source >>
          /\ Program[SuiteBegin + 22].client = "m"
             /\ Program[SuiteBegin + 22].places = << Source >>
          /\ Program[SuiteBegin + 23].client = "m"
             /\ Program[SuiteBegin + 23].places = << Source >>
          /\ Program[SuiteBegin + 24].client = "m"
             /\ Program[SuiteBegin + 24].places = << Source >>
          /\ Program[SuiteBegin + 25].client = "m"
             /\ Program[SuiteBegin + 25].places = << Source >>
          /\ Program[SuiteBegin + 26].client = "m"
             /\ Program[SuiteBegin + 26].places = << Source >>
          /\ Program[SuiteBegin + 27].client = "m"
             /\ Program[SuiteBegin + 27].places = << Source >>
          /\ Program[SuiteBegin + 28].client = "m"
             /\ Program[SuiteBegin + 28].places = << Source >>
          /\ Program[SuiteBegin + 29].client = "m"
             /\ Program[SuiteBegin + 29].places = << Source >>
          /\ Program[SuiteBegin + 30].client = "f"
             /\ Program[SuiteBegin + 30].places = << Source >>
          /\ Program[SuiteBegin + 31].client = "f"
             /\ Program[SuiteBegin + 31].places = << Source >>
          /\ Program[SuiteBegin + 32].client = "f"
             /\ Program[SuiteBegin + 32].places = << Source >>
          /\ Program[SuiteBegin + 33].client = "f"
             /\ Program[SuiteBegin + 33].places = << Source >>
        BY SuiteCalls, ZenonT(40) DEF Calls
      <4> QED
        BY <1>1, <2>2, <4>1
    <3> QED
      BY <2>2, <3>1
  <2> QED
    BY <1>2, <2>1, <2>2
<1>3. CASE x \notin 1..33
  <2>1. c \notin SuiteIds
    <3>1. CASE n - DemoBegin \in 1..11
      <4>1. c \in {BootstrapId, SourceOnlyId}
        <5> DEFINE y == n - DemoBegin
        <5>1. n = DemoBegin + y /\ y \in 1..11
          BY <1>1, <3>1
        <5> QED
          BY <5>1, DemoShows DEF Shows
      <4> QED
        BY <4>1, ClientsDiffer
    <3>2. CASE n - DemoBegin \notin 1..11
      BY <1>3, <3>2, SectionOf, ClientsDiffer, EntryLists
         DEF Ensures, CreatesEntry, Creates, TurnsRow, Fetches, Verifies
    <3> QED
      BY <3>1, <3>2
  <2>2. c \notin {"r1", "absent", "r3", "r4", "r5", "c", "m", "f"}
    BY <2>1 DEF SuiteIds
  <2> QED
    BY <1>3, <2>2
<1> QED
  BY <1>2, <1>3

(* Where the suite and the demonstration begin, and the distance to them.    *)
LEMMA Begins ==
    /\ SuiteBegin \in Nat /\ DemoBegin \in Nat /\ DemoBegin >= SuiteBegin + 35
    /\ Len(Program) = DemoBegin + 11 /\ SuiteBegin >= PlansEnd /\ PlansEnd \in Nat
    /\ \A n \in DOMAIN Program :
          n \in Nat /\ n = SuiteBegin + (n - SuiteBegin) /\ n = DemoBegin + (n - DemoBegin)
<1>1. /\ Len(HttpPlans) \in Nat /\ Len(MessagePlans) \in Nat /\ SuiteBegin \in Nat
      /\ DemoBegin = SuiteBegin + 35 + Len(HttpPlans) + Len(MessagePlans)
      /\ Len(Program) = DemoBegin + 11
  BY SectionsAt
<1>2. /\ Len(LocalCredentials) \in Nat /\ Len(Plans) \in Nat /\ Len(SeedRows) \in Nat
  BY Sections
<1>3. SuiteBegin >= PlansEnd /\ PlansEnd \in Nat
  BY <1>2 DEF SuiteBegin, PlansEnd
<1>4. DemoBegin \in Nat /\ DemoBegin >= SuiteBegin + 35
  BY <1>1
<1>5. \A n \in DOMAIN Program : n \in Nat
  BY ProgramTyped
<1>6. \A a, b \in Nat : a = b + (a - b)
  OBVIOUS
<1> QED
  BY <1>1, <1>3, <1>4, <1>5, <1>6

(* The instructions of the demonstration are done on its process.           *)
LEMMA PlacesOfDemo ==
    \A n \in DOMAIN Program : n - DemoBegin \in 1..11 => Program[n].places = << Demo >>
<1>1. ASSUME NEW n \in DOMAIN Program, n - DemoBegin \in 1..11
      PROVE  Program[n].places = << Demo >>
  <2> DEFINE y == n - DemoBegin
  <2>1. y \in {1, 2, 3, 4, 5, 6, 7, 8, 9, 10, 11}
    BY <1>1
  <2>2. n = DemoBegin + y
    BY Begins
  <2> HIDE DEF y
  <2>3. Program[DemoBegin + y].places = << Demo >>
    BY <2>1, DemoShows, ZenonT(40) DEF Shows
  <2> QED
    BY <2>2, <2>3
<1> QED
  BY <1>1

(* What is asked about a client that is not one of the suite's.             *)
LEMMA OrdinaryClients ==
    ASSUME NEW n \in DOMAIN Program, Program[n].client \notin SuiteIds
    PROVE  LET i == Program[n]
           IN  /\ i.places = << Source >> => Ensures(i)
               /\ i.places = TargetList /\ i.operation = "create" => i.write.purpose = Unset
               /\ i.places = TargetList /\ i.operation \notin {"health", "fetch", "verify"} =>
                      \E entry \in Entries : i.client = entry.client
<1> DEFINE i == Program[n]
           ordinary ==
               /\ i.places = << Source >> => Ensures(i)
               /\ i.places = TargetList /\ i.operation = "create" => i.write.purpose = Unset
               /\ i.places = TargetList /\ i.operation \notin {"health", "fetch", "verify"} =>
                      \E entry \in Entries : i.client = entry.client
<1>0. /\ << Source >> # TargetList /\ << Demo >> # TargetList /\ << Source >> # << Demo >>
      /\ \A secret, seeded : Write(secret, seeded).purpose = Unset
      /\ ToSet(Plans) \subseteq Entries /\ ToSet(SeedRows) \subseteq Entries
  BY PlacesDiffer, EntryLists, ClientsDiffer DEF Write
<1>1. Ensures(i) => ordinary
  BY <1>0 DEF Ensures
<1>2. ASSUME NEW entry \in Entries, NEW signer, NEW seeded, CreatesEntry(i, entry, signer, seeded)
      PROVE  ordinary
  BY <1>0, <1>2 DEF CreatesEntry, Creates
<1>3. ASSUME NEW row \in Entries, TurnsRow(i, row) PROVE ordinary
  BY <1>0, <1>3 DEF TurnsRow
<1>4. ASSUME NEW client, NEW expect, Fetches(i, client, expect) PROVE ordinary
  BY <1>0, <1>4 DEF Fetches
<1>5. ASSUME NEW client, Verifies(i, client) PROVE ordinary
  BY <1>0, <1>5 DEF Verifies
<1> SUFFICES ordinary
  OBVIOUS
<1>6. CASE n - DemoBegin \in 1..11
  <2>1. i.places = << Demo >>
    <3> DEFINE y == n - DemoBegin
    <3>1. n = DemoBegin + y /\ y \in 1..11
      BY <1>6, Begins
    <3> QED
      BY <3>1, DemoShows DEF Shows
  <2> QED
    BY <1>0, <2>1
<1>7. CASE n - SuiteBegin \in 1..33
  <2> DEFINE x == n - SuiteBegin
  <2>1. n = SuiteBegin + x /\ x \in 1..33
    BY <1>7, Begins
  <2>2. i.client \in SuiteIds \/ (i.operation = "health" /\ i.places = TargetList)
    <3>1. CASE x \in 1..3 \cup 8..21
      <4>1. /\ Program[SuiteBegin + 1].client = "r1" /\ Program[SuiteBegin + 2].client = "r1"
            /\ Program[SuiteBegin + 3].client = "absent" /\ Program[SuiteBegin + 8].client = "r4"
            /\ Program[SuiteBegin + 9].client = "r4" /\ Program[SuiteBegin + 10].client = "r4"
            /\ Program[SuiteBegin + 11].client = "r5" /\ Program[SuiteBegin + 12].client = "r5"
            /\ Program[SuiteBegin + 13].client = "r5" /\ Program[SuiteBegin + 14].client = "r5"
            /\ Program[SuiteBegin + 15].client = "r5" /\ Program[SuiteBegin + 16].client = "c"
            /\ Program[SuiteBegin + 17].client = "c" /\ Program[SuiteBegin + 18].client = "absent"
            /\ Program[SuiteBegin + 19].client = "c" /\ Program[SuiteBegin + 20].client = "absent"
            /\ Program[SuiteBegin + 21].operation = "health"
            /\ Program[SuiteBegin + 21].places = TargetList
        BY SuiteAsks, ZenonT(40) DEF Asks
      <4> QED
        BY <2>1, <3>1, <4>1 DEF SuiteIds
    <3>2. CASE x \in 4..7 \cup 22..33
      <4>1. /\ Program[SuiteBegin + 4].client = "r3" /\ Program[SuiteBegin + 5].client = "r3"
            /\ Program[SuiteBegin + 6].client = "r3" /\ Program[SuiteBegin + 7].client = "r3"
            /\ Program[SuiteBegin + 22].client = "m" /\ Program[SuiteBegin + 23].client = "m"
            /\ Program[SuiteBegin + 24].client = "m" /\ Program[SuiteBegin + 25].client = "m"
            /\ Program[SuiteBegin + 26].client = "m" /\ Program[SuiteBegin + 27].client = "m"
            /\ Program[SuiteBegin + 28].client = "m" /\ Program[SuiteBegin + 29].client = "m"
            /\ Program[SuiteBegin + 30].client = "f" /\ Program[SuiteBegin + 31].client = "f"
            /\ Program[SuiteBegin + 32].client = "f" /\ Program[SuiteBegin + 33].client = "f"
        BY SuiteCalls, ZenonT(40) DEF Calls
      <4> QED
        BY <2>1, <3>2, <4>1 DEF SuiteIds
    <3> QED
      BY <2>1, <3>1, <3>2
  <2> QED
    BY <1>0, <2>2
<1> HIDE DEF ordinary
<1>8. CASE ~(n - DemoBegin \in 1..11) /\ ~(n - SuiteBegin \in 1..33)
  <2>1. \/ Ensures(i)
        \/ \E plan \in ToSet(Plans) : CreatesEntry(i, plan, BootstrapId, FALSE)
        \/ \E row \in ToSet(SeedRows) : CreatesEntry(i, row, SyncId, TRUE) \/ TurnsRow(i, row)
        \/ Fetches(i, SyncId, Answers)
        \/ Fetches(i, SourceOnlyId, {"refused"})
        \/ \E plan \in ToSet(HttpPlans) : Fetches(i, plan.client, {"accepted"})
        \/ \E plan \in ToSet(MessagePlans) : Verifies(i, plan.client)
    BY <1>8, SectionOf
  <2>2. /\ \A plan \in ToSet(Plans) : CreatesEntry(i, plan, BootstrapId, FALSE) => ordinary
        /\ \A row \in ToSet(SeedRows) :
              CreatesEntry(i, row, SyncId, TRUE) \/ TurnsRow(i, row) => ordinary
    BY <1>0, <1>2, <1>3
  <2> QED
    BY <1>1, <1>4, <1>5, <2>1, <2>2, ZenonT(30)
<1> QED
  BY <1>6, <1>7, <1>8

(* What a step does to a credential of a target: nothing but that a backup   *)
(* may expire, or what the instruction that asks about it says.             *)
KeyAsked(k) ==
    /\ TargetAsked /\ k = KeyOf(Place, Now) /\ Acts(Place, Now) /\ Place = k[1]
    /\ record'[k] = NewRecord(k, Now) /\ undo'[k] = NewUndo(k, Now)
    /\ pc \in DOMAIN Program /\ Now = Program[pc]

(* There is no other change.                                                *)
LEMMA KeyChanges ==
    ASSUME TypeInv, [Next]_vars, NEW k \in Keys, k[1] \in Targets
    PROVE  /\ \/ KeyAsked(k) /\ expired' = expired
              \/ /\ record'[k] = record[k]
                 /\ undo'[k] = undo[k] \/ (undo'[k] = NoHash /\ expired')
           /\ expired => expired'
<1>1. StoresTyped
  BY DEF TypeInv, TypeOK, StoresTyped
<1>2. expired => expired'
  BY DEF Next, BeginRun, Answered, Rejected, Settle, Stop, Expire, vars
<1>3. CASE TargetsIdle
  BY <1>2, <1>3 DEF TargetsIdle
<1>4. CASE TargetAsked /\ ~Expire
  <2>1. expired' = expired
    BY <1>4 DEF Next, BeginRun, Answered, Rejected, Settle, Stop, vars
  <2>2. CASE k = KeyOf(Place, Now) /\ Acts(Place, Now)
    <3>1. /\ record'[k] = NewRecord(k, Now) /\ undo'[k] = NewUndo(k, Now) /\ Place = k[1]
      BY <1>1, <1>4, <2>2, AskedEffect
    <3>2. pc \in DOMAIN Program /\ Now = Program[pc]
      BY <1>4 DEF TargetAsked, Asking, Running, Now
    <3> QED
      BY <1>2, <1>4, <2>1, <2>2, <3>1, <3>2 DEF KeyAsked
  <2>3. CASE ~(k = KeyOf(Place, Now) /\ Acts(Place, Now))
    BY <1>1, <1>2, <1>4, <2>3, AskedEffect
  <2> QED
    BY <2>2, <2>3
<1>5. CASE Expire
  <2>1. record' = record /\ expired' = TRUE
    BY <1>5 DEF Expire
  <2>2. undo'[k] \in {undo[k], NoHash}
    BY <1>1, <1>5 DEF Expire, StoresTyped
  <2> QED
    BY <2>1, <2>2
<1> QED
  BY <1>3, <1>4, <1>5, TargetSteps

(* What the runs keep, whatever disturbs them: on a target, a planned client  *)
(* has a secret of its own or the planned one without a restriction, and no  *)
(* backup.                                                                  *)
PlansKept ==
    \A t \in Targets, plan \in ToSet(Plans) :
        LET r == record[At(t, plan)]
        IN  /\ r # NoRecord => r.hash = ForeignHash \/ (r.hash = plan.secret /\ r.purpose = "any")
            /\ undo[At(t, plan)] = NoHash

(* The two clients that no target knows, and the one that was never rotated. *)
Strangers ==
    \A t \in Targets :
        /\ record[Http(t, "absent")] = NoRecord
        /\ record[Http(t, SourceOnlyId)] = NoRecord
        /\ undo[Http(t, "r1")] = NoHash

(* The client of R4 is stored on a target as a row is.                      *)
R4Restorable ==
    \A t \in Targets :
        LET k == <<t, "message", "r4">>
        IN  /\ record[k] # NoRecord => record[k].hash \in {"r4-original", "r4-rotated"}
            /\ undo[k] \in {"r4-original", NoHash}
            /\ ~expired /\ record[k] # NoRecord /\ record[k].hash = "r4-rotated" =>
                  undo[k] # NoHash

(* The process itself stores the clients of the message plans as planned.    *)
OwnMessages ==
    \A plan \in ToSet(MessagePlans) :
        LET r == record[At(Source, plan)]
        IN  r # NoRecord => r.hash = plan.secret /\ r.purpose = "any"

Lasts == PlansKept /\ Strangers /\ R4Restorable /\ OwnMessages

(* No step replaces the record of a planned client on a target.              *)
PlansStay ==
    \A t \in Targets, plan \in ToSet(Plans) :
        record[At(t, plan)] # NoRecord => record'[At(t, plan)] = record[At(t, plan)]

(* The names of the suite are different ones.                               *)
LEMMA PlansAreNoRows ==
    ASSUME NEW plan \in ToSet(Plans)
    PROVE  plan \in Entries /\ ~IsRow(plan.client, plan.store)
BY ClientsDiffer, GreenAssumption DEF IsRow

(* So a planned client is created once, and nothing changes it.             *)
LEMMA PlansLast ==
    ASSUME TypeInv, PlansKept, [Next]_vars
    PROVE  PlansKept' /\ PlansStay
<1> SUFFICES ASSUME NEW t \in Targets, NEW plan \in ToSet(Plans)
             PROVE  LET k == At(t, plan)
                    IN  /\ record'[k] # NoRecord =>
                              \/ record'[k].hash = ForeignHash
                              \/ record'[k].hash = plan.secret /\ record'[k].purpose = "any"
                        /\ undo'[k] = NoHash
                        /\ record[k] # NoRecord => record'[k] = record[k]
  BY DEF PlansKept, PlansStay, At
<1> DEFINE k == At(t, plan)
<1>1. plan \in Entries /\ ~IsRow(plan.client, plan.store)
  BY PlansAreNoRows
<1>2. k \in Keys /\ k[1] = t /\ plan.client \notin SuiteIds
  BY <1>1, EntryKeys, ClientsDiffer
<1>3. /\ record[k] # NoRecord =>
            \/ record[k].hash = ForeignHash
            \/ record[k].hash = plan.secret /\ record[k].purpose = "any"
      /\ undo[k] = NoHash
  BY DEF PlansKept
<1>4. CASE KeyAsked(k)
  <2>1. Now \in Instructions /\ Now.places = TargetList /\ Place = t /\ k = KeyOf(t, Now)
        /\ record'[k] = NewRecord(k, Now) /\ undo'[k] = NewUndo(k, Now)
        /\ pc \in DOMAIN Program /\ Now = Program[pc]
    BY <1>2, <1>4 DEF KeyAsked, TargetAsked
  <2>2. /\ Now.way = "route" /\ Now.client = plan.client
        /\ Now.operation \in {"create", "revert", "health", "fetch", "verify"}
        /\ Now.operation = "create" => Now.write.hash = plan.secret
    BY <1>1, <2>1, EntryOrders
  <2>3. Now.operation = "create" => Now.write.purpose = Unset
    BY <1>2, <2>1, <2>2, OrdinaryClients
  <2>4. RouteAnswer(t, Now) \notin Refusals
    BY <1>4, <2>1, <2>2 DEF KeyAsked, Acts
  <2> HIDE DEF k
  <2>5. undo'[k] = NoHash
    BY <1>3, <2>1, <2>2 DEF NewUndo
  <2>6. CASE Now.operation = "create"
    <3>1. record[k] = NoRecord
      BY <2>1, <2>4, <2>6 DEF RouteAnswer, Refusals
    <3>2. record'[k] = Rotated(record[k], Now.write)
      BY <2>1, <2>2, <2>6, NewRecordOf
    <3>3. record'[k].hash = plan.secret /\ record'[k].purpose = "any"
      BY <2>2, <2>3, <2>6, <3>1, <3>2 DEF Rotated, Created, OrElse
    <3> QED
      BY <2>5, <3>1, <3>3 DEF k
  <2>7. CASE Now.operation # "create"
    <3>1. Now.operation = "revert" =>
              NewRecord(k, Now) = IF Reverts(k) THEN Reverted(record[k], undo[k]) ELSE record[k]
      BY NewRecordOf
    <3>2. Now.operation \in {"health", "fetch", "verify"} => NewRecord(k, Now) = record[k]
      BY NewRecordOf
    <3>3. record'[k] = record[k]
      BY <1>3, <2>1, <2>2, <2>7, <3>1, <3>2 DEF Reverts
    <3> QED
      BY <1>3, <2>5, <3>3 DEF k
  <2> QED
    BY <2>6, <2>7
<1>5. CASE ~KeyAsked(k)
  <2>1. record'[k] = record[k] /\ undo'[k] \in {undo[k], NoHash}
    BY <1>2, <1>5, KeyChanges
  <2> QED
    BY <1>3, <2>1
<1> QED
  BY <1>4, <1>5

(* What asking a target about a client of the suite is.                     *)
LEMMA SuiteAsked ==
    ASSUME NEW k \in Keys, k[1] \in Targets, KeyAsked(k), k[3] \in SuiteIds
    PROVE  LET x == pc - SuiteBegin
           IN  /\ Now.client = k[3] /\ Now.places = TargetList /\ k = KeyOf(k[1], Now)
               /\ Now = Program[SuiteBegin + x] /\ Acts(k[1], Now) /\ Now \in Instructions
               /\ record'[k] = NewRecord(k, Now) /\ undo'[k] = NewUndo(k, Now)
               /\ k[3] = "r1" => x \in {1, 2}
               /\ k[3] = "absent" => x \in {3, 18, 20}
               /\ k[3] = "r4" => x \in 8..10
               /\ Now.way = "route" /\ RouteAnswer(k[1], Now) \notin Refusals
<1>1. /\ Now \in Instructions /\ Now.places = TargetList /\ k = KeyOf(Place, Now)
      /\ Acts(Place, Now) /\ Place = k[1] /\ pc \in DOMAIN Program /\ Now = Program[pc]
      /\ record'[k] = NewRecord(k, Now) /\ undo'[k] = NewUndo(k, Now)
  BY DEF KeyAsked, TargetAsked
<1>2. Now.client = k[3]
  BY <1>1 DEF KeyOf
<1>3. Now.way = "route"
  BY <1>1 DEF Instructions, LocalFactory, Orders
<1>4. pc = SuiteBegin + (pc - SuiteBegin)
  BY <1>1, Begins
<1>5. /\ k[3] = "r1" => pc - SuiteBegin \in {1, 2}
      /\ k[3] = "absent" => pc - SuiteBegin \in {3, 18, 20}
      /\ k[3] = "r4" => pc - SuiteBegin \in 8..10
  BY <1>1, <1>2, SuiteClients
<1>6. RouteAnswer(k[1], Now) \notin Refusals
  BY <1>1, <1>3 DEF Acts
<1> QED
  BY <1>1, <1>2, <1>3, <1>4, <1>5, <1>6

(* Nothing the suite does creates the strangers, or has them to revert.      *)
LEMMA StrangersLast ==
    ASSUME TypeInv, Strangers, [Next]_vars
    PROVE  Strangers'
<1> SUFFICES ASSUME NEW t \in Targets
             PROVE  /\ record'[Http(t, "absent")] = NoRecord
                    /\ record'[Http(t, SourceOnlyId)] = NoRecord
                    /\ undo'[Http(t, "r1")] = NoHash
  BY DEF Strangers, Http
<1>1. /\ "absent" \in ClientIds /\ SourceOnlyId \in ClientIds /\ "r1" \in ClientIds
      /\ "absent" \in SuiteIds /\ "r1" \in SuiteIds /\ SourceOnlyId \notin SuiteIds
  BY SourceAssumption, GreenAssumption DEF SuiteIds
<1>2. record'[Http(t, "absent")] = NoRecord
  <2> DEFINE k == Http(t, "absent")
             x == pc - SuiteBegin
  <2>1. k \in Keys /\ k[1] = t /\ k[3] = "absent" /\ record[k] = NoRecord
    BY <1>1, HttpKeys DEF Strangers, Http
  <2> HIDE DEF k
  <2>2. CASE KeyAsked(k)
    <3>1. /\ x \in {3, 18, 20} /\ Now = Program[SuiteBegin + x] /\ k = KeyOf(t, Now)
          /\ record'[k] = NewRecord(k, Now) /\ RouteAnswer(t, Now) \notin Refusals
      BY <1>1, <2>1, <2>2, SuiteAsked
    <3> HIDE DEF x
    <3>2. Now.operation \in {"revert", "update", "delete"}
      BY <3>1, SuiteAsks DEF Asks
    <3>3. Now.operation # "update"
      BY <2>1, <3>1 DEF RouteAnswer, Refusals
    <3>4. /\ Now.operation = "revert" =>
                 NewRecord(k, Now) = IF Reverts(k) THEN Reverted(record[k],
                                        undo[k]) ELSE record[k]
          /\ Now.operation = "delete" => NewRecord(k, Now) = NoRecord
      BY NewRecordOf
    <3> QED
      BY <2>1, <3>1, <3>2, <3>3, <3>4 DEF Reverts, k
  <2>3. CASE ~KeyAsked(k)
    BY <2>1, <2>3, KeyChanges DEF k
  <2> QED
    BY <2>2, <2>3
<1>3. record'[Http(t, SourceOnlyId)] = NoRecord
  <2> DEFINE k == Http(t, SourceOnlyId)
  <2>1. k \in Keys /\ k[1] = t /\ k[3] = SourceOnlyId /\ record[k] = NoRecord
    BY <1>1, HttpKeys DEF Strangers, Http
  <2> HIDE DEF k
  <2>2. CASE KeyAsked(k)
    <3>1. /\ Now.places = TargetList /\ pc \in DOMAIN Program /\ Now = Program[pc]
          /\ Now.client = SourceOnlyId /\ record'[k] = NewRecord(k, Now)
      BY <2>1, <2>2 DEF KeyAsked, TargetAsked, KeyOf
    <3>2. Now.operation \in {"health", "fetch", "verify"}
      BY <1>1, <3>1, OrdinaryClients, ClientsDiffer
    <3>3. NewRecord(k, Now) = record[k]
      BY <3>2, NewRecordOf
    <3> QED
      BY <2>1, <3>1, <3>3 DEF k
  <2>3. CASE ~KeyAsked(k)
    BY <2>1, <2>3, KeyChanges DEF k
  <2> QED
    BY <2>2, <2>3
<1>4. undo'[Http(t, "r1")] = NoHash
  <2> DEFINE k == Http(t, "r1")
             x == pc - SuiteBegin
  <2>1. k \in Keys /\ k[1] = t /\ k[3] = "r1" /\ undo[k] = NoHash
    BY <1>1, HttpKeys DEF Strangers, Http
  <2> HIDE DEF k
  <2>2. CASE KeyAsked(k)
    <3>1. /\ x \in {1, 2} /\ Now = Program[SuiteBegin + x] /\ undo'[k] = NewUndo(k, Now)
      BY <1>1, <2>1, <2>2, SuiteAsked
    <3> HIDE DEF x
    <3>2. Now.operation \in {"create", "revert"}
      BY <3>1, SuiteAsks DEF Asks
    <3> QED
      BY <2>1, <3>1, <3>2 DEF NewUndo, k
  <2>3. CASE ~KeyAsked(k)
    BY <2>1, <2>3, KeyChanges DEF k
  <2> QED
    BY <2>2, <2>3
<1> QED
  BY <1>2, <1>3, <1>4

(* The client of R4 is created, rotated and reverted, and nothing else.      *)
LEMMA R4Lasts ==
    ASSUME TypeInv, R4Restorable, [Next]_vars
    PROVE  R4Restorable'
<1> SUFFICES ASSUME NEW t \in Targets
             PROVE  LET k == <<t, "message", "r4">>
                    IN  /\ record'[k] # NoRecord => record'[k].hash \in {"r4-original",
                          "r4-rotated"}
                        /\ undo'[k] \in {"r4-original", NoHash}
                        /\ ~expired' /\ record'[k] # NoRecord /\ record'[k].hash = "r4-rotated" =>
                              undo'[k] # NoHash
  BY DEF R4Restorable
<1> DEFINE k == <<t, "message", "r4">>
           x == pc - SuiteBegin
<1>1. "r4" \in ClientIds /\ "r4" \in SuiteIds
  BY SourceAssumption DEF SuiteIds
<1>2. k \in Keys /\ k[1] = t /\ k[3] = "r4"
  BY <1>1 DEF Keys, Stores, Places
<1>3. /\ record[k] # NoRecord => record[k].hash \in {"r4-original", "r4-rotated"}
      /\ undo[k] \in {"r4-original", NoHash}
      /\ ~expired /\ record[k] # NoRecord /\ record[k].hash = "r4-rotated" => undo[k] # NoHash
  BY DEF R4Restorable
<1>4. "r4-original" \in Hashes /\ "r4-original" # NoHash /\ "r4-original" # "r4-rotated"
  BY SourceAssumption DEF SuiteSecrets
<1> SUFFICES /\ record'[k] # NoRecord => record'[k].hash \in {"r4-original", "r4-rotated"}
             /\ undo'[k] \in {"r4-original", NoHash}
             /\ ~expired' /\ record'[k] # NoRecord /\ record'[k].hash = "r4-rotated" =>
                   undo'[k] # NoHash
  OBVIOUS
<1> HIDE DEF k
<1>5. CASE KeyAsked(k) /\ expired' = expired
  <2>1. /\ x \in 8..10 /\ Now = Program[SuiteBegin + x] /\ k = KeyOf(t, Now)
        /\ record'[k] = NewRecord(k, Now) /\ undo'[k] = NewUndo(k, Now)
        /\ RouteAnswer(t, Now) \notin Refusals /\ Now.way = "route"
    BY <1>1, <1>2, <1>5, SuiteAsked
  <2>2. expired' = expired
    BY <1>5
  <2> HIDE DEF x
  <2>3. CASE x = 8
    <3>1. Now.operation = "create" /\ Now.write = Write("r4-original", TRUE)
      BY <2>1, <2>3, SuiteAsks DEF Asks
    <3>2. record[k] = NoRecord
      BY <2>1, <3>1 DEF RouteAnswer, Refusals
    <3>3. record'[k] = Rotated(record[k], Now.write) /\ undo'[k] = undo[k]
      BY <2>1, <3>1, NewRecordOf DEF NewUndo
    <3>4. record'[k].hash = "r4-original"
      BY <3>1, <3>2, <3>3 DEF Rotated, Created, Write
    <3> QED
      BY <1>3, <1>4, <3>3, <3>4
  <2>4. CASE x = 9
    <3>1. Now.operation = "update" /\ Now.write = Write("r4-rotated", TRUE)
      BY <2>1, <2>4, SuiteAsks DEF Asks
    <3>2. record[k] # NoRecord
      BY <2>1, <3>1 DEF RouteAnswer, Refusals
    <3>3. record'[k] = Rotated(record[k], Now.write)
      BY <2>1, <3>1, NewRecordOf
    <3>4. record'[k].hash = "r4-rotated"
      BY <3>1, <3>2, <3>3 DEF Rotated, Write
    <3>5. undo'[k] = IF record[k].hash # "r4-rotated" THEN record[k].hash ELSE undo[k]
      BY <2>1, <3>1, <3>2 DEF NewUndo, NeedsBackup, Write
    <3> QED
      BY <1>3, <1>4, <2>2, <3>2, <3>4, <3>5
  <2>5. CASE x = 10
    <3>1. Now.operation = "revert"
      BY <2>1, <2>5, SuiteAsks DEF Asks
    <3>2. /\ record'[k] = IF Reverts(k) THEN Reverted(record[k], undo[k]) ELSE record[k]
          /\ undo'[k] = NoHash
      BY <2>1, <3>1, NewRecordOf DEF NewUndo
    <3>3. CASE Reverts(k)
      <4>1. record[k] \in Records /\ undo[k] = "r4-original"
        BY <1>2, <1>3, <3>3 DEF Reverts, TypeInv, TypeOK
      <4>2. record'[k].hash = "r4-original"
        BY <3>2, <3>3, <4>1 DEF Reverted, Records
      <4> QED
        BY <1>4, <3>2, <4>2
    <3>4. CASE ~Reverts(k)
      BY <1>3, <2>2, <3>2, <3>4 DEF Reverts
    <3> QED
      BY <3>3, <3>4
  <2> QED
    BY <2>1, <2>3, <2>4, <2>5
<1>6. CASE ~(KeyAsked(k) /\ expired' = expired)
  <2>1. /\ record'[k] = record[k]
        /\ undo'[k] = undo[k] \/ (undo'[k] = NoHash /\ expired')
        /\ expired => expired'
    BY <1>2, <1>6, KeyChanges
  <2> QED
    BY <1>3, <2>1
<1> QED
  BY <1>5, <1>6

(* What a step does to a credential of the process whose client is not one   *)
(* of the suite's: nothing, or what the instruction that is about it says.    *)
LEMMA SourceSteps ==
    ASSUME TypeInv, [Next]_vars, NEW k \in Keys, k[1] = Source, k[3] \notin SuiteIds
    PROVE  \/ record'[k] = record[k]
           \/ /\ Now.places = << Source >> /\ pc \in DOMAIN Program /\ Now = Program[pc]
              /\ k = KeyOf(Source, Now) /\ Now \in Instructions
              /\ record'[k] = NewRecord(k, Now)
<1> DEFINE j == KeyOf(Place, Now)
           meant ==
               /\ Now.places = << Source >> /\ pc \in DOMAIN Program /\ Now = Program[pc]
               /\ k = KeyOf(Source, Now) /\ Now \in Instructions
<1>0. record \in [Keys -> Records \cup {NoRecord}] /\ results \in Seq(Answers)
  BY DEF TypeInv, TypeOK
<1>1. Asking /\ k = j => meant
  <2> SUFFICES ASSUME Asking, k = j PROVE meant
    OBVIOUS
  <2>1. Place = Source /\ k = KeyOf(Source, Now)
    BY DEF KeyOf
  <2>2. /\ Now \in Instructions /\ pc \in DOMAIN Program
        /\ Now.places = TargetList => Place \in Targets
        /\ Now.places # TargetList => Place = Now.places[1]
    BY <1>0, AskedPlace
  <2>3. Now.places = << Source >>
    <3>1. Now.places \in {TargetList, << Source >>, << Demo >>}
      BY <2>2 DEF Instructions, Orders, PlaceLists
    <3>2. Source \notin Targets /\ Source # Demo
      BY SourceAssumption
    <3> QED
      BY <2>1, <2>2, <3>1, <3>2
  <2> QED
    BY <2>1, <2>2, <2>3 DEF Now
<1>2. ASSUME Asking, \/ record' = [record EXCEPT ![j] = NewRecord(j, Now)]
                     \/ record' = [record EXCEPT ![j] = IF Acts(Place, Now) THEN NewRecord(j,
                                     Now) ELSE @]
      PROVE  record'[k] = record[k] \/ (meant /\ record'[k] = NewRecord(k, Now))
  <2> HIDE DEF j, meant
  <2> QED
    BY <1>0, <1>1, <1>2
<1>3. CASE Asking /\ Does(Place, Now)
  BY <1>2, <1>3 DEF Does, Acts
<1>4. CASE BeginRun
  <2>1. k[3] # "r3" /\ k[1] # Demo
    BY SourceAssumption DEF SuiteIds
  <2>2. ~Fresh(k)
    BY <2>1 DEF Fresh
  <2> QED
    BY <1>4, <2>2 DEF BeginRun
<1>5. CASE Interrupted
  BY <1>2, <1>3, <1>5 DEF Interrupted
<1> QED
  BY <1>3, <1>4, <1>5 DEF Next, Answered, Rejected, Settle, Stop, Expire, vars

(* Only syncFromConfig stores the message clients of the process.           *)
LEMMA OwnMessagesLast ==
    ASSUME TypeInv, OwnMessages, [Next]_vars
    PROVE  OwnMessages'
<1> SUFFICES ASSUME NEW plan \in ToSet(MessagePlans)
             PROVE  LET k == At(Source, plan)
                    IN  record'[k] # NoRecord =>
                            record'[k].hash = plan.secret /\ record'[k].purpose = "any"
  BY DEF OwnMessages, At
<1> DEFINE k == At(Source, plan)
<1>1. /\ plan.store = "message" /\ plan.client \notin SuiteIds /\ plan.client \in ClientIds
      /\ \A credential \in ToSet(MessageCredentials) :
            credential.client = plan.client => credential.secret = plan.secret
  <2>1. plan \in Entries
    BY ClientsDiffer
  <2>2. plan.client \in ClientIds
    BY <2>1, EntryLists DEF Credentials
  <2>3. plan.client \notin SuiteIds
    BY <2>1, ClientsDiffer
  <2> QED
    BY <2>2, <2>3, GreenAssumption
<1>2. k = <<Source, "message", plan.client>> /\ k \in Keys
  BY <1>1 DEF At, Keys, Stores, Places
<1>3. record[k] # NoRecord => record[k].hash = plan.secret /\ record[k].purpose = "any"
  BY DEF OwnMessages
<1>4. record[k] \in Records \cup {NoRecord}
  BY <1>2 DEF TypeInv, TypeOK
<1> SUFFICES record'[k] # NoRecord =>
                 record'[k].hash = plan.secret /\ record'[k].purpose = "any"
  OBVIOUS
<1>5. k[1] = Source /\ k[2] = "message" /\ k[3] = plan.client
  BY <1>2
<1> HIDE DEF k
<1>6. CASE record'[k] = record[k]
  BY <1>3, <1>6
<1>7. CASE /\ Now.places = << Source >> /\ pc \in DOMAIN Program /\ Now = Program[pc]
           /\ k = KeyOf(Source, Now) /\ Now \in Instructions
           /\ record'[k] = NewRecord(k, Now)
  <2>0. Now.client = plan.client
    BY <1>5, <1>7 DEF KeyOf
  <2>1. Ensures(Now)
    BY <1>1, <1>7, <2>0, OrdinaryClients
  <2>2. record'[k] = Rotated(record[k], Now.write)
    BY <1>7, <2>1, NewRecordOf DEF Ensures
  <2>3. Now.write.purpose = Unset
    BY <2>1 DEF Ensures
  <2>4. record'[k].purpose = "any"
    BY <1>3, <2>2, <2>3 DEF Rotated, Created, OrElse
  <2>5. record'[k].hash = Now.write.hash
    BY <2>2 DEF Rotated, Created
  <2>6. Now.store = "message"
    BY <1>5, <1>7, <2>1 DEF KeyOf, Ensures
  <2>7. Now.write.hash = plan.secret
    BY <1>1, <2>0, <2>1, <2>6 DEF Ensures
  <2> QED
    BY <2>4, <2>5, <2>7
<1> QED
  BY <1>1, <1>2, <1>5, <1>6, <1>7, SourceSteps

(* What the runs keep holds at first ...                                    *)
LEMMA InitLasts == Init => Lasts
<1> SUFFICES ASSUME Init PROVE Lasts
  OBVIOUS
<1>1. PICK start \in InitialTargets :
          record = [k \in Keys |-> IF k[1] \in Targets THEN start[k] ELSE NoRecord]
  BY DEF Init
<1>2. undo = [k \in Keys |-> NoHash]
  BY DEF Init
<1>3. \A k \in Keys : undo[k] = NoHash /\ (k[1] \in Targets => record[k] = start[k])
                      /\ (k[1] \notin Targets => record[k] = NoRecord)
  BY <1>1, <1>2
<1>4. /\ "absent" \in ClientIds /\ SourceOnlyId \in ClientIds /\ "r1" \in ClientIds
      /\ "r4" \in ClientIds /\ {"absent", "r1", "r4"} \subseteq SuiteIds
      /\ "http" \in Stores /\ "message" \in Stores
  BY SourceAssumption DEF SuiteIds, Stores
<1>5. PlansKept
  <2> SUFFICES ASSUME NEW t \in Targets, NEW plan \in ToSet(Plans)
               PROVE  LET r == record[At(t, plan)]
                      IN  /\ r # NoRecord =>
                                r.hash = ForeignHash
                                              \/ (r.hash = plan.secret /\ r.purpose = "any")
                          /\ undo[At(t, plan)] = NoHash
    BY DEF PlansKept
  <2>1. plan \in Entries
    BY ClientsDiffer
  <2>2. At(t, plan) \in Keys /\ At(t, plan)[1] = t
    BY <2>1, EntryKeys
  <2>3. record[At(t, plan)] = start[At(t, plan)] /\ undo[At(t, plan)] = NoHash
    BY <1>3, <2>2
  <2>4. start[At(t, plan)] # NoRecord => start[At(t, plan)].hash \in {plan.secret, ForeignHash}
    BY <2>1, ConfigurationAssumption DEF At
  <2>5. start[At(t, plan)] # NoRecord =>
            start[At(t, plan)].hash = ForeignHash \/ start[At(t, plan)].purpose = "any"
    BY GreenTargetsAssumption DEF At
  <2> QED
    BY <2>3, <2>4, <2>5
<1>6. Strangers
  <2> SUFFICES ASSUME NEW t \in Targets
               PROVE  /\ record[Http(t, "absent")] = NoRecord
                      /\ record[Http(t, SourceOnlyId)] = NoRecord
                      /\ undo[Http(t, "r1")] = NoHash
    BY DEF Strangers
  <2>1. \A client \in ClientIds : Http(t, client) \in Keys /\ Http(t, client)[1] = t
    BY HttpKeys
  <2>2. start[Http(t, "absent")] = NoRecord /\ start[Http(t, SourceOnlyId)] = NoRecord
    BY <1>4, GreenTargetsAssumption DEF Http
  <2> QED
    BY <1>3, <1>4, <2>1, <2>2
<1>7. R4Restorable
  <2> SUFFICES ASSUME NEW t \in Targets
               PROVE  record[<<t, "message", "r4">>] = NoRecord
                      /\ undo[<<t, "message", "r4">>] = NoHash
    BY DEF R4Restorable
  <2>1. <<t, "message", "r4">> \in Keys
    BY <1>4 DEF Keys, Places
  <2>2. start[<<t, "message", "r4">>] = NoRecord
    BY <1>4, GreenTargetsAssumption
  <2> QED
    BY <1>3, <2>1, <2>2
<1>8. OwnMessages
  <2> SUFFICES ASSUME NEW plan \in ToSet(MessagePlans) PROVE record[At(Source, plan)] = NoRecord
    BY DEF OwnMessages
  <2>1. plan \in Entries
    BY ClientsDiffer
  <2>2. plan.client \in ClientIds /\ plan.store \in Stores
    BY <2>1, EntryLists DEF Credentials
  <2>3. At(Source, plan) \in Keys /\ At(Source, plan)[1] \notin Targets
    BY <2>2, SourceAssumption DEF At, Keys, Places
  <2> QED
    BY <1>3, <2>3
<1> QED
  BY <1>5, <1>6, <1>7, <1>8 DEF Lasts

(* ... and after every step.                                                *)
LEMMA NextLasts ==
    ASSUME TypeInv, Lasts, [Next]_vars
    PROVE  Lasts' /\ PlansStay
BY PlansLast, StrangersLast, R4Lasts, OwnMessagesLast DEF Lasts

(* No target has a planned client with a secret of its own: that stays so     *)
(* backwards, and the clients that sign are as the process expects them.     *)
Own ==
    \A t \in Targets, plan \in ToSet(Plans) :
        record[At(t, plan)] # NoRecord => record[At(t, plan)].hash # ForeignHash

(* It was so before as well, ...                                            *)
LEMMA OwnBefore ==
    ASSUME PlansStay, Own'
    PROVE  Own
BY DEF PlansStay, Own, At

(* ... it is so when no record has a secret of somebody else's, ...          *)
LEMMA UntouchedIsOwn == Untouched => Own
<1> SUFFICES ASSUME Untouched, NEW t \in Targets, NEW plan \in ToSet(Plans),
                    record[At(t, plan)] # NoRecord
             PROVE  record[At(t, plan)].hash # ForeignHash
  BY DEF Own
<1>1. plan \in Entries
  BY ClientsDiffer
<1>2. At(t, plan) \in Keys /\ At(t, plan)[1] = t
  BY <1>1, EntryKeys
<1> QED
  BY <1>2 DEF Untouched

(* ... and then the clients that sign are as the process expects them.       *)
LEMMA OwnIsIntact ==
    ASSUME RestorableInv, Own, NEW t \in Targets
    PROVE  Intact(t)
<1> SUFFICES ASSUME NEW client \in Signers, record[Http(t, client)] # NoRecord
             PROVE  record[Http(t, client)].hash = SecretOf(client)
  BY DEF Intact
<1>1. record[Http(t, client)].hash \in {SecretOf(client), ForeignHash}
  BY DEF RestorableInv, SignersKept
<1>2. PICK plan \in ToSet(HttpPlans) : plan.client = client
  <2>1. HttpPlans \in Seq(Credentials)
    BY ListMembers
  <2>2. 1 \in DOMAIN HttpPlans /\ HttpPlans[1] \in ToSet(HttpPlans)
    BY <2>1, SignersAssumption DEF ToSet
  <2> QED
    BY <2>2, SignersAssumption DEF Signers
<1>3. plan \in ToSet(Plans) /\ plan.store = "http"
  BY <1>2, ClientsDiffer, SignersAssumption
<1>4. At(t, plan) = Http(t, client)
  BY <1>2, <1>3 DEF At, Http
<1> QED
  BY <1>1, <1>3, <1>4 DEF Own
-----------------------------------------------------------------------------
(* What a place that is asked answers and has then.                         *)
LEMMA PlaceEffect ==
    ASSUME StoresTyped, NEW p, NEW i, Does(p, i), NEW k \in Keys
    PROVE  IF k = KeyOf(p, i) /\ Acts(p, i)
           THEN record'[k] = NewRecord(k, i) /\ undo'[k] = NewUndo(k, i)
           ELSE record'[k] = record[k] /\ undo'[k] = undo[k]
<1> DEFINE j == KeyOf(p, i)
<1>1. /\ record' = [record EXCEPT ![j] = IF Acts(p, i) THEN NewRecord(j, i) ELSE @]
      /\ undo'   = [undo EXCEPT ![j] = IF Acts(p, i) THEN NewUndo(j, i) ELSE @]
  BY DEF Does, Acts
<1> SUFFICES IF k = j /\ Acts(p, i)
             THEN record'[k] = NewRecord(k, i) /\ undo'[k] = NewUndo(k, i)
             ELSE record'[k] = record[k] /\ undo'[k] = undo[k]
  OBVIOUS
<1> HIDE DEF j
<1>2. record'[k] = IF k = j /\ Acts(p, i) THEN NewRecord(k, i) ELSE record[k]
  BY <1>1 DEF StoresTyped
<1>3. undo'[k] = IF k = j /\ Acts(p, i) THEN NewUndo(k, i) ELSE undo[k]
  BY <1>1 DEF StoresTyped
<1> QED
  BY <1>2, <1>3

(* A request that the management route admits.                              *)
LEMMA Routed ==
    ASSUME StoresTyped, NEW p, NEW i, Does(p, i), i.way = "route", Admitted(p, i),
           NEW k \in Keys, k = KeyOf(p, i)
    PROVE  LET answer == RouteAnswer(p, i)
           IN  /\ i.operation = "create" /\ record[k] = NoRecord =>
                      answer = "accepted" /\ record'[k] = Rotated(record[k], i.write)
               /\ i.operation = "create" /\ record[k] # NoRecord =>
                      answer = "exists" /\ record'[k] = record[k]
               /\ i.operation = "update" /\ record[k] = NoRecord => answer = "missing"
               /\ i.operation = "update" /\ record[k] # NoRecord =>
                      /\ answer = "accepted" /\ record'[k] = Rotated(record[k], i.write)
                      /\ NeedsBackup(record[k], i.write) => undo'[k] = record[k].hash
               /\ i.operation = "revert" /\ Reverts(k) =>
                      /\ answer = "reverted" /\ record'[k] = Reverted(record[k], undo[k])
                      /\ undo'[k] = NoHash
               /\ i.operation = "revert" /\ ~Reverts(k) =>
                      answer = "accepted" /\ record'[k] = record[k] /\ undo'[k] = NoHash
               /\ i.operation = "delete" /\ record[k] = NoRecord => answer = "missing"
               /\ i.operation = "delete" /\ record[k] # NoRecord => answer = "accepted"
               /\ i.operation \in {"health", "fetch"} => answer = "accepted"
<1> DEFINE answer == RouteAnswer(p, i)
<1>1. i.operation # "verify" =>
          answer = IF i.operation = "create" /\ record[k] # NoRecord THEN "exists"
                   ELSE IF i.operation \in {"update", "delete"} /\ record[k] = NoRecord
                        THEN "missing"
                   ELSE IF i.operation = "revert" /\ Reverts(k) THEN "reverted"
                   ELSE "accepted"
  BY DEF RouteAnswer
<1>2. /\ answer \notin Refusals => record'[k] = NewRecord(k, i) /\ undo'[k] = NewUndo(k, i)
      /\ answer \in Refusals => record'[k] = record[k] /\ undo'[k] = undo[k]
  BY PlaceEffect DEF Acts
<1> SUFFICES
               /\ i.operation = "create" /\ record[k] = NoRecord =>
                      answer = "accepted" /\ record'[k] = Rotated(record[k], i.write)
               /\ i.operation = "create" /\ record[k] # NoRecord =>
                      answer = "exists" /\ record'[k] = record[k]
               /\ i.operation = "update" /\ record[k] = NoRecord => answer = "missing"
               /\ i.operation = "update" /\ record[k] # NoRecord =>
                      /\ answer = "accepted" /\ record'[k] = Rotated(record[k], i.write)
                      /\ NeedsBackup(record[k], i.write) => undo'[k] = record[k].hash
               /\ i.operation = "revert" /\ Reverts(k) =>
                      /\ answer = "reverted" /\ record'[k] = Reverted(record[k], undo[k])
                      /\ undo'[k] = NoHash
               /\ i.operation = "revert" /\ ~Reverts(k) =>
                      answer = "accepted" /\ record'[k] = record[k] /\ undo'[k] = NoHash
               /\ i.operation = "delete" /\ record[k] = NoRecord => answer = "missing"
               /\ i.operation = "delete" /\ record[k] # NoRecord => answer = "accepted"
               /\ i.operation \in {"health", "fetch"} => answer = "accepted"
  OBVIOUS
<1> HIDE DEF answer
<1>3. CASE i.operation = "create"
  <2>1. NewRecord(k, i) = Rotated(record[k], i.write)
    BY <1>3, NewRecordOf
  <2> QED
    BY <1>1, <1>2, <1>3, <2>1 DEF Refusals
<1>4. CASE i.operation = "update"
  <2>1. /\ NewRecord(k, i) = Rotated(record[k], i.write)
        /\ NeedsBackup(record[k], i.write) => NewUndo(k, i) = record[k].hash
    BY <1>4, NewRecordOf DEF NewUndo
  <2> QED
    BY <1>1, <1>2, <1>4, <2>1 DEF Refusals
<1>5. CASE i.operation = "revert"
  <2>1. /\ NewRecord(k, i) = IF Reverts(k) THEN Reverted(record[k], undo[k]) ELSE record[k]
        /\ NewUndo(k, i) = NoHash
    BY <1>5, NewRecordOf DEF NewUndo
  <2> QED
    BY <1>1, <1>2, <1>5, <2>1 DEF Refusals
<1>6. CASE i.operation \notin {"create", "update", "revert"}
  BY <1>1, <1>6
<1> QED
  BY <1>3, <1>4, <1>5, <1>6

(* What a target stores when it is asked the x-th instruction of the suite.  *)
TargetFacts(t, x) ==
    LET r4 == <<t, "message", "r4">>
        r5 == Http(t, "r5")
        c  == Http(t, "c")
    IN  /\ x \in 9..10 => record[r4] # NoRecord
        /\ x = 10 => record[r4].hash = "r4-rotated"
        /\ x \in 12..15 => record[r5] # NoRecord
        /\ x = 13 => record[r5].hash = "r5-round1"
        /\ x = 14 => undo[r5] # NoHash
        /\ x = 15 => undo[r5] = NoHash
        /\ x \in 17..19 => record[c] # NoRecord

(* A target answers the suite as it is expected to.                         *)
LEMMA TargetSuite ==
    ASSUME TypeInv, Lasts, ~expired, TargetAsked, NEW t \in Targets, Place = t,
           NEW x \in 1..33, Now = Program[SuiteBegin + x], Admitted(t, Now),
           TargetFacts(t, x)
    PROVE  RouteAnswer(t, Now) \in Now.expect /\ TargetFacts(t, x + 1)'
<1> DEFINE r4 == <<t, "message", "r4">>
           r5 == Http(t, "r5")
           c  == Http(t, "c")
           k  == KeyOf(t, Now)
           answer == RouteAnswer(t, Now)
<1>1. /\ StoresTyped /\ Does(t, Now) /\ Now \in Instructions /\ Now.places = TargetList
      /\ Now.way = "route"
  BY DEF TypeInv, TypeOK, StoresTyped, TargetAsked, Instructions, LocalFactory, Orders
<1>2. k \in Keys /\ k = IF Now.operation = "delete" THEN Http(t, Now.client)
                        ELSE <<t, Now.store, Now.client>>
  BY <1>1, KeysTyped DEF KeyOf, Http, Places
<1>3. r4 \in Keys /\ r5 \in Keys /\ c \in Keys
  <2>1. {"r4", "r5", "c"} \subseteq ClientIds
    BY SourceAssumption DEF SuiteIds
  <2> QED
    BY <2>1 DEF Http, Keys, Stores, Places
<1>4. /\ Now.operation = "create" /\ record[k] = NoRecord =>
             answer = "accepted" /\ record'[k] = Rotated(record[k], Now.write)
      /\ Now.operation = "create" /\ record[k] # NoRecord =>
             answer = "exists" /\ record'[k] = record[k]
      /\ Now.operation = "update" /\ record[k] = NoRecord => answer = "missing"
      /\ Now.operation = "update" /\ record[k] # NoRecord =>
             /\ answer = "accepted" /\ record'[k] = Rotated(record[k], Now.write)
             /\ NeedsBackup(record[k], Now.write) => undo'[k] = record[k].hash
      /\ Now.operation = "revert" /\ Reverts(k) =>
             /\ answer = "reverted" /\ record'[k] = Reverted(record[k], undo[k])
             /\ undo'[k] = NoHash
      /\ Now.operation = "revert" /\ ~Reverts(k) =>
             answer = "accepted" /\ record'[k] = record[k] /\ undo'[k] = NoHash
      /\ Now.operation = "delete" /\ record[k] = NoRecord => answer = "missing"
      /\ Now.operation = "delete" /\ record[k] # NoRecord => answer = "accepted"
      /\ Now.operation \in {"health", "fetch"} => answer = "accepted"
  BY <1>1, <1>2, Routed
<1>5. \A j \in Keys : j # k => record'[j] = record[j] /\ undo'[j] = undo[j]
  BY <1>1, PlaceEffect
<1>6. /\ record[r4] \in Records \cup {NoRecord} /\ record[r5] \in Records \cup {NoRecord}
      /\ undo[r4] \in Hashes \cup {NoHash} /\ undo[r5] \in Hashes \cup {NoHash}
      /\ NoRecord \notin Records
  BY <1>1, <1>3, NoRecordAssumption DEF StoresTyped
<1>7. /\ Now.write \in PossibleWrites
      /\ \A r \in Records \cup {NoRecord} : Now.write.hash # NoHash =>
            Rotated(r, Now.write) # NoRecord /\ Rotated(r, Now.write).hash = Now.write.hash
      /\ \A r \in Records, hash \in Hashes : Reverted(r, hash) # NoRecord
  <2>1. Now.write \in PossibleWrites
    BY <1>1 DEF Instructions, Orders
  <2>2. \A r \in Records \cup {NoRecord} : Now.write.hash # NoHash =>
            Rotated(r, Now.write) \in Records /\ Rotated(r, Now.write).hash = Now.write.hash
    BY <2>1, RecordsMade
  <2>3. \A r \in Records, hash \in Hashes : Reverted(r, hash) \in Records
    BY <2>1, RecordsAmended
  <2> QED
    BY <1>6, <2>1, <2>2, <2>3
<1>32. Now.write.hash # NoHash =>
           /\ Now.operation = "create" => record'[k] # NoRecord
           /\ Now.operation = "update" /\ record[k] # NoRecord =>
                  record'[k] # NoRecord /\ record'[k].hash = Now.write.hash
  <2>1. record[k] \in Records \cup {NoRecord}
    BY <1>1, <1>2 DEF StoresTyped
  <2> HIDE DEF k, answer
  <2> QED
    BY <1>4, <1>7, <2>1
<1>8. /\ NoHash \notin {"r4-original", "r4-rotated", "r5-round0", "r5-round1", "r5-round2",
            "c-secret"}
      /\ \A secret, seeded : Write(secret, seeded).hash = secret
                             /\ Write(secret, seeded).fromDbSeed = seeded
  BY SourceAssumption DEF SuiteSecrets, Write
<1>9. /\ record[Http(t, "absent")] = NoRecord /\ undo[Http(t, "r1")] = NoHash
      /\ ~expired /\ record[r4] # NoRecord /\ record[r4].hash = "r4-rotated" => undo[r4] # NoHash
  BY DEF Lasts, Strangers, R4Restorable
<1>10. answer \in Answers
  BY AnswersTyped
<1>11. x \in 1..3 \cup 8..21
  <2>1. CASE x \in 4..7 \cup 22..33
    <3>1. Now.places = << Source >>
      BY <2>1, SuiteCalls, SMTT(30) DEF Calls
    <3> QED
      BY <1>1, <3>1, PlacesDiffer
  <2> QED
    BY <2>1
<1> SUFFICES answer \in Now.expect /\ TargetFacts(t, x + 1)'
  OBVIOUS
<1> DEFINE facts ==
               /\ x + 1 \in 9..10 => record'[r4] # NoRecord
               /\ x + 1 = 10 => record'[r4].hash = "r4-rotated"
               /\ x + 1 \in 12..15 => record'[r5] # NoRecord
               /\ x + 1 = 13 => record'[r5].hash = "r5-round1"
               /\ x + 1 = 14 => undo'[r5] # NoHash
               /\ x + 1 = 15 => undo'[r5] = NoHash
               /\ x + 1 \in 17..19 => record'[c] # NoRecord
<1>12. facts => TargetFacts(t, x + 1)'
  BY DEF TargetFacts, Http
<1>13. /\ x \in 9..10 => record[r4] # NoRecord
       /\ x = 10 => record[r4].hash = "r4-rotated"
       /\ x \in 12..15 => record[r5] # NoRecord
       /\ x = 13 => record[r5].hash = "r5-round1"
       /\ x = 14 => undo[r5] # NoHash
       /\ x = 15 => undo[r5] = NoHash
       /\ x \in 17..19 => record[c] # NoRecord
  BY DEF TargetFacts
<1>14. /\ r4 = <<t, "message", "r4">> /\ r5 = <<t, "http", "r5">> /\ c = <<t, "http", "c">>
       /\ \A client : Http(t, client) = <<t, "http", client>>
  BY DEF Http
<1> HIDE DEF answer, k, r4, r5, c
<1> SUFFICES answer \in Now.expect /\ facts
  BY <1>12
<1>15. CASE x = 1
  <2>1. /\ Now.operation = "create" /\ Now.store = "http" /\ Now.client = "r1"
        /\ Now.write = Write("r1-secret", TRUE) /\ Now.expect = Answers
    BY <1>15, SuiteAsks DEF Asks
  <2>2. k = Http(t, "r1")
    BY <1>2, <1>14, <2>1
  <2> QED
    BY <1>4, <1>6, <1>7, <1>8, <1>9, <1>10, <1>13, <1>15, <2>1, <2>2
<1>16. CASE x = 2
  <2>1. /\ Now.operation = "revert" /\ Now.store = "http" /\ Now.client = "r1"
        /\ Now.write = NoWrite /\ Now.expect = {"accepted"}
    BY <1>16, SuiteAsks DEF Asks
  <2>2. k = Http(t, "r1")
    BY <1>2, <1>14, <2>1
  <2> QED
    BY <1>4, <1>6, <1>7, <1>8, <1>9, <1>10, <1>13, <1>16, <2>1, <2>2 DEF Reverts
<1>17. CASE x = 3
  <2>1. /\ Now.operation = "revert" /\ Now.store = "http" /\ Now.client = "absent"
        /\ Now.write = NoWrite /\ Now.expect = {"accepted"}
    BY <1>17, SuiteAsks DEF Asks
  <2>2. k = Http(t, "absent")
    BY <1>2, <1>14, <2>1
  <2> QED
    BY <1>4, <1>6, <1>7, <1>8, <1>9, <1>10, <1>13, <1>17, <2>1, <2>2 DEF Reverts
<1>18. CASE x = 8
  <2>1. /\ Now.operation = "create" /\ Now.store = "message" /\ Now.client = "r4"
        /\ Now.write = Write("r4-original", TRUE) /\ Now.expect = Answers
    BY <1>18, SuiteAsks DEF Asks
  <2>2. k = r4
    BY <1>2, <1>14, <2>1
  <2>4. Now.write.hash = "r4-original" /\ Now.write.hash # NoHash
    BY <1>8, <2>1 DEF Write
  <2> QED
    BY <1>4, <1>6, <1>32, <1>10, <1>13, <1>18, <2>1, <2>2, <2>4
<1>19. CASE x = 9
  <2>1. /\ Now.operation = "update" /\ Now.store = "message" /\ Now.client = "r4"
        /\ Now.write = Write("r4-rotated", TRUE) /\ Now.expect = Answers
    BY <1>19, SuiteAsks DEF Asks
  <2>2. k = r4
    BY <1>2, <1>14, <2>1
  <2>4. Now.write.hash = "r4-rotated" /\ Now.write.hash # NoHash
    BY <1>8, <2>1 DEF Write
  <2> QED
    BY <1>4, <1>6, <1>32, <1>10, <1>13, <1>19, <2>1, <2>2, <2>4
<1>20. CASE x = 10
  <2>1. /\ Now.operation = "revert" /\ Now.store = "message" /\ Now.client = "r4"
        /\ Now.write = NoWrite /\ Now.expect = {"reverted"}
    BY <1>20, SuiteAsks DEF Asks
  <2>2. k = r4
    BY <1>2, <1>14, <2>1
  <2> QED
    BY <1>4, <1>6, <1>7, <1>8, <1>9, <1>10, <1>13, <1>20, <2>1, <2>2 DEF Reverts
<1>21. CASE x = 11
  <2>1. /\ Now.operation = "create" /\ Now.store = "http" /\ Now.client = "r5"
        /\ Now.write = Write("r5-round0", TRUE) /\ Now.expect = Answers
    BY <1>21, SuiteAsks DEF Asks
  <2>2. k = r5
    BY <1>2, <1>14, <2>1
  <2>4. Now.write.hash = "r5-round0" /\ Now.write.hash # NoHash
    BY <1>8, <2>1 DEF Write
  <2> QED
    BY <1>4, <1>6, <1>32, <1>10, <1>13, <1>21, <2>1, <2>2, <2>4
<1>22. CASE x = 12
  <2>1. /\ Now.operation = "update" /\ Now.store = "http" /\ Now.client = "r5"
        /\ Now.write = Write("r5-round1", TRUE) /\ Now.expect = Answers
    BY <1>22, SuiteAsks DEF Asks
  <2>2. k = r5
    BY <1>2, <1>14, <2>1
  <2>4. Now.write.hash = "r5-round1" /\ Now.write.hash # NoHash
    BY <1>8, <2>1 DEF Write
  <2> QED
    BY <1>4, <1>6, <1>32, <1>10, <1>13, <1>22, <2>1, <2>2, <2>4
<1>23. CASE x = 13
  <2>1. /\ Now.operation = "update" /\ Now.store = "http" /\ Now.client = "r5"
        /\ Now.write = Write("r5-round2", TRUE) /\ Now.expect = Answers
    BY <1>23, SuiteAsks DEF Asks
  <2>2. k = r5
    BY <1>2, <1>14, <2>1
  <2>4. Now.write.hash = "r5-round2" /\ Now.write.hash # NoHash /\ Now.write.fromDbSeed = TRUE
    BY <1>8, <2>1 DEF Write
  <2> QED
    <3>1. "r5-round1" # NoHash
      BY <1>8
    <3>2. undo'[k] = "r5-round1"
      BY <1>4, <1>13, <1>23, <2>1, <2>2, <2>4 DEF NeedsBackup
    <3> QED
      BY <1>4, <1>32, <1>10, <1>13, <1>23, <2>1, <2>2, <2>4, <3>1, <3>2
<1>24. CASE x = 14
  <2>1. /\ Now.operation = "revert" /\ Now.store = "http" /\ Now.client = "r5"
        /\ Now.write = NoWrite /\ Now.expect = {"reverted"}
    BY <1>24, SuiteAsks DEF Asks
  <2>2. k = r5
    BY <1>2, <1>14, <2>1
  <2> QED
    BY <1>4, <1>6, <1>7, <1>8, <1>9, <1>10, <1>13, <1>24, <2>1, <2>2 DEF Reverts
<1>25. CASE x = 15
  <2>1. /\ Now.operation = "revert" /\ Now.store = "http" /\ Now.client = "r5"
        /\ Now.write = NoWrite /\ Now.expect = {"accepted"}
    BY <1>25, SuiteAsks DEF Asks
  <2>2. k = r5
    BY <1>2, <1>14, <2>1
  <2> QED
    BY <1>4, <1>6, <1>7, <1>8, <1>9, <1>10, <1>13, <1>25, <2>1, <2>2 DEF Reverts
<1>26. CASE x = 16
  <2>1. /\ Now.operation = "create" /\ Now.store = "http" /\ Now.client = "c"
        /\ Now.write = Write("c-secret", FALSE) /\ Now.expect = Answers
    BY <1>26, SuiteAsks DEF Asks
  <2>2. k = c
    BY <1>2, <1>14, <2>1
  <2>4. Now.write.hash = "c-secret" /\ Now.write.hash # NoHash
    BY <1>8, <2>1 DEF Write
  <2> QED
    BY <1>4, <1>6, <1>32, <1>10, <1>13, <1>26, <2>1, <2>2, <2>4
<1>27. CASE x = 17
  <2>1. /\ Now.operation = "create" /\ Now.store = "http" /\ Now.client = "c"
        /\ Now.write = Write("c-secret", FALSE) /\ Now.expect = {"exists"}
    BY <1>27, SuiteAsks DEF Asks
  <2>2. k = c
    BY <1>2, <1>14, <2>1
  <2> QED
    BY <1>4, <1>6, <1>7, <1>8, <1>9, <1>10, <1>13, <1>27, <2>1, <2>2
<1>28. CASE x = 18
  <2>1. /\ Now.operation = "update" /\ Now.store = "http" /\ Now.client = "absent"
        /\ Now.write = Write("c-secret", FALSE) /\ Now.expect = {"missing"}
    BY <1>28, SuiteAsks DEF Asks
  <2>2. k = Http(t, "absent")
    BY <1>2, <1>14, <2>1
  <2>3. c # k /\ record'[c] = record[c]
    BY <1>3, <1>5, <1>14, <2>2
  <2> QED
    BY <1>4, <1>6, <1>7, <1>8, <1>9, <1>10, <1>13, <2>3, <1>28, <2>1, <2>2
<1>29. CASE x = 19
  <2>1. /\ Now.operation = "delete" /\ Now.store = "http" /\ Now.client = "c"
        /\ Now.write = NoWrite /\ Now.expect = {"accepted"}
    BY <1>29, SuiteAsks DEF Asks
  <2>2. k = c
    BY <1>2, <1>14, <2>1
  <2> QED
    BY <1>4, <1>6, <1>7, <1>8, <1>9, <1>10, <1>13, <1>29, <2>1, <2>2
<1>30. CASE x = 20
  <2>1. /\ Now.operation = "delete" /\ Now.store = "http" /\ Now.client = "absent"
        /\ Now.write = NoWrite /\ Now.expect = Refusals
    BY <1>30, SuiteAsks DEF Asks
  <2>2. k = Http(t, "absent")
    BY <1>2, <1>14, <2>1
  <2> QED
    BY <1>4, <1>6, <1>7, <1>8, <1>9, <1>10, <1>13, <1>30, <2>1, <2>2 DEF Refusals
<1>31. CASE x = 21
  <2>1. /\ Now.operation = "health" /\ Now.store = "http" /\ Now.client = BootstrapId
        /\ Now.write = NoWrite /\ Now.expect = {"accepted"}
    BY <1>31, SuiteAsks DEF Asks
  <2> QED
    BY <1>4, <1>31, <2>1
<1> QED
  BY <1>11, <1>15, <1>16, <1>17, <1>18, <1>19, <1>20, <1>21, <1>22, <1>23, <1>24, <1>25,
     <1>26, <1>27, <1>28, <1>29, <1>30, <1>31

(* Each plan is created from among the plans, and stored from then on.       *)
LEMMA PlansPlanned ==
    ASSUME NEW plan \in ToSet(Plans)
    PROVE  \E n \in PlansBegin..PlansEnd :
              n \in DOMAIN Program /\ Creates(Program[n], plan.client, plan.store, BootstrapId)
<1> DEFINE L == Len(LocalCredentials)
           P == Len(Plans)
<1>1. /\ L \in Nat /\ P \in Nat /\ L + P <= Len(Program)
      /\ \A m \in 1..P : Program[L + m] = Planned(Plans[m], BootstrapId, FALSE)
  <2>1. /\ L \in Nat /\ P \in Nat /\ Len(SeedRows) \in Nat
        /\ L + P + Len(SeedRows) + 2 * Len(SeedRows) <= Len(Program)
        /\ \A m \in 1..P : Program[L + m] = Planned(Plans[m], BootstrapId, FALSE)
    BY Sections
  <2>2. Len(Program) \in Nat
    BY ProgramTyped
  <2>3. L + P <= Len(Program)
    <3> DEFINE R == Len(SeedRows)
               N == Len(Program)
    <3>1. L \in Nat /\ P \in Nat /\ R \in Nat /\ N \in Nat /\ L + P + R + 2 * R <= N
      BY <2>1, <2>2
    <3> HIDE DEF L, P, R, N
    <3>2. L + P <= N
      BY <3>1
    <3> QED
      BY <3>2 DEF N
  <2> QED
    BY <2>1, <2>3
<1>2. PICK m \in 1..P : Plans[m] = plan
  <2>1. HttpPlans \in Seq(Credentials) /\ MessagePlans \in Seq(Credentials)
    BY ListMembers
  <2>2. Plans \in Seq(Credentials)
    BY <2>1, ConcatProperties DEF Plans
  <2> QED
    BY <2>2 DEF ToSet
<1>3. Creates(Program[L + m], plan.client, plan.store, BootstrapId)
  BY <1>1, <1>2, PlannedCreates
<1>4. L + m \in PlansBegin..PlansEnd /\ L + m \in DOMAIN Program
  <2>1. PlansBegin = L + 1 /\ PlansEnd = L + P
    BY DEF PlansBegin, PlansEnd
  <2>2. DOMAIN Program = 1..Len(Program) /\ Len(Program) \in Nat
    BY ProgramTyped
  <2> HIDE DEF L, P
  <2> QED
    BY <1>1, <2>1, <2>2
<1> QED
  BY <1>3, <1>4

(* After the plans, every target stores what was planned.                   *)
LEMMA PlansStored ==
    ASSUME pc \in Nat, pc > PlansEnd, NEW t \in Targets, CreatedOrPending(t), PlansKept, Own,
           NEW plan \in ToSet(Plans)
    PROVE  LET r == record[At(t, plan)]
           IN  r # NoRecord /\ r.hash = plan.secret /\ r.purpose = "any"
<1>1. PICK n \in PlansBegin..PlansEnd :
          n \in DOMAIN Program /\ Creates(Program[n], plan.client, plan.store, BootstrapId)
  BY PlansPlanned
<1>2. plan \in Entries /\ Planning(n, plan.client, plan.store)
  BY <1>1, ClientsDiffer DEF Planning
<1>3. PlansEnd \in Nat /\ n \in Nat
  BY <1>1, ProgramTyped, Begins
<1>4. ~Pending(n, t)
  BY <1>1, <1>3 DEF Pending
<1>5. record[At(t, plan)] # NoRecord
  BY <1>1, <1>2, <1>4 DEF CreatedOrPending
<1> QED
  BY <1>5 DEF PlansKept, Own

(* The clients whose messages the process signs are stored there.           *)
SourceMessages(n) ==
    \A m \in 1..Len(MessageCredentials) :
        n > m => Stored(Source, "message", MessageCredentials[m].client)

(* After syncFromConfig, the clients of the message plans are.              *)
LEMMA SignedMessages ==
    ASSUME NEW n \in Nat, n > PlansEnd, SourceMessages(n), NEW plan \in ToSet(MessagePlans)
    PROVE  record[At(Source, plan)] # NoRecord
<1>1. PICK credential \in ToSet(MessageCredentials) : credential.client = plan.client
  BY GreenAssumption
<1>2. PICK m \in 1..Len(MessageCredentials) : MessageCredentials[m] = credential
  <2>1. MessageCredentials \in Seq(Credentials)
    BY ListMembers
  <2> QED
    BY <1>1, <2>1 DEF ToSet
<1>3. m \in 1..Len(LocalCredentials)
  BY <1>2, EnsuresAt
<1>4. n > m
  <2>1. /\ Len(LocalCredentials) \in Nat /\ Len(Plans) \in Nat
        /\ PlansEnd = Len(LocalCredentials) + Len(Plans)
    BY Sections DEF PlansEnd
  <2> QED
    BY <1>3, <2>1
<1>5. Stored(Source, "message", plan.client)
  BY <1>1, <1>2, <1>4 DEF SourceMessages
<1>6. plan.store = "message"
  BY GreenAssumption
<1> QED
  BY <1>5, <1>6 DEF Stored, At

(* A target answers everything as it is expected to.                        *)
LEMMA TargetServes ==
    ASSUME RowsInv, Lasts, Own, calm, ~expired, TargetAsked, NEW t \in Targets, Place = t,
           NEW n, n = pc, TargetFacts(t, n - SuiteBegin), SourceMessages(n)
    PROVE  RouteAnswer(t, Now) \in Now.expect /\ TargetFacts(t, (n + 1) - SuiteBegin)'
<1> DEFINE i == Program[n]
           x == n - SuiteBegin
<1>1. /\ n \in DOMAIN Program /\ n \in Nat /\ Now = i /\ i \in Instructions
      /\ i.places = TargetList /\ n = SuiteBegin + x
  BY Begins DEF TargetAsked, Asking, Running, Now
<1>2. CreatedOrPending(t) /\ Intact(t) /\ Opened
  BY OwnIsIntact DEF RowsInv, RunInv, RestorableInv
<1>3. TypeInv /\ PlansKept /\ OwnMessages /\ record[Http(t, SourceOnlyId)] = NoRecord
  BY DEF RowsInv, HeldInv, Lasts, Strangers
<1>4. << Source >> # TargetList /\ << Demo >> # TargetList
  BY PlacesDiffer
<1>5. RouteAnswer(t, i) \in Answers
  BY AnswersTyped
<1>6. SuiteBegin \in Nat /\ SuiteBegin >= PlansEnd /\ PlansEnd \in Nat
  BY Begins
<1>7. CASE x \in 1..33
  <2>1. n > PlansEnd
    BY <1>1, <1>6, <1>7
  <2>2. x \in 1..3 \cup 8..21
    <3>1. x \in 4..7 \cup 22..33 => Program[n].places = << Source >>
      BY <1>1, SuiteClients
    <3> QED
      BY <1>1, <1>4, <1>7, <3>1
  <2>3. i.by = SyncId /\ i.secret = SecretOf(SyncId) /\ i.operation # "fetch"
    BY <1>1, <2>2, SuiteAsks DEF Asks
  <2>4. Admitted(t, i)
    BY <1>1, <1>2, <2>1, <2>3, RowsAdmitted
  <2>5. RouteAnswer(t, Now) \in Now.expect /\ TargetFacts(t, x + 1)'
    <3>1. Now = Program[SuiteBegin + x]
      BY <1>1
    <3> HIDE DEF x
    <3> QED
      BY <1>1, <1>3, <1>7, <2>4, <3>1, TargetSuite DEF x
  <2>6. x + 1 = (n + 1) - SuiteBegin
    BY <1>1, <1>6
  <2> QED
    BY <2>5, <2>6
<1>8. CASE ~(x \in 1..33)
  <2>1. TargetFacts(t, (n + 1) - SuiteBegin)'
    <3>1. ~((n + 1) - SuiteBegin \in 9..19)
      BY <1>1, <1>6, <1>8
    <3> HIDE DEF x
    <3> QED
      BY <3>1 DEF TargetFacts
  <2>2. RouteAnswer(t, i) \in i.expect
    <3>1. CASE \E plan \in ToSet(Plans) :
                   n \in PlansBegin..PlansEnd /\ CreatesEntry(i, plan, BootstrapId, FALSE)
      <4>1. PICK plan : n \in PlansBegin..PlansEnd /\ CreatesEntry(i, plan, BootstrapId, FALSE)
        BY <3>1
      <4>2. Admitted(t, i)
        BY <1>1, <1>2, <4>1, PlansAdmitted DEF CreatesEntry
      <4>3. i.operation = "create" /\ i.expect = {"accepted", "exists"}
        BY <4>1 DEF CreatesEntry, Creates
      <4> QED
        BY <4>2, <4>3 DEF RouteAnswer
    <3>2. CASE \E row \in ToSet(SeedRows) : n > PlansEnd /\ CreatesEntry(i, row, SyncId, TRUE)
      <4>1. /\ n > PlansEnd /\ i.operation = "create" /\ i.expect = {"accepted", "exists"}
            /\ i.by = SyncId /\ i.secret = SecretOf(SyncId)
        BY <3>2 DEF CreatesEntry, Creates
      <4>2. Admitted(t, i)
        BY <1>1, <1>2, <4>1, RowsAdmitted
      <4> QED
        BY <4>1, <4>2 DEF RouteAnswer
    <3>3. CASE Fetches(i, SourceOnlyId, {"refused"})
      <4>1. ~Admitted(t, i) /\ i.operation = "fetch" /\ i.expect = {"refused"}
        BY <1>3, <3>3 DEF Fetches, Admitted, Verified, Listed, Stored, Http
      <4> QED
        BY <4>1 DEF RouteAnswer
    <3>4. CASE \E plan \in ToSet(HttpPlans) : n > PlansEnd
          /\ Fetches(i, plan.client, {"accepted"})
      <4>1. PICK plan \in ToSet(HttpPlans) : n > PlansEnd /\ Fetches(i, plan.client, {"accepted"})
        BY <3>4
      <4>2. plan.store = "http" /\ plan.secret = SecretOf(plan.client) /\ plan \in ToSet(Plans)
            /\ plan.client \in ClientIds
        BY SignersAssumption, ClientsDiffer, EntryLists DEF Credentials
      <4>3. /\ record[At(t, plan)] # NoRecord /\ record[At(t, plan)].hash = plan.secret
            /\ record[At(t, plan)].purpose = "any"
        BY <1>1, <1>2, <1>3, <4>1, <4>2, PlansStored
      <4>4. record[Http(t, BootstrapId)] # NoRecord
        BY <1>1, <1>2, <4>1, SignersStored DEF Signers
      <4>5. BootstrapId \in ClientIds /\ At(t, plan) = <<t, "http", plan.client>>
        BY <4>2, SourceAssumption DEF At
      <4>6. /\ i.operation = "fetch" /\ i.expect = {"accepted"}
            /\ i.by = plan.client /\ i.secret = SecretOf(plan.client)
        BY <4>1 DEF Fetches
      <4>7. Admitted(t, i)
        BY <4>2, <4>3, <4>4, <4>5, <4>6 DEF Admitted, Verified, Listed, Stored, Http
      <4> QED
        BY <4>6, <4>7 DEF RouteAnswer
    <3>5. CASE \E plan \in ToSet(MessagePlans) : n > PlansEnd /\ Verifies(i, plan.client)
      <4>1. PICK plan \in ToSet(MessagePlans) : n > PlansEnd /\ Verifies(i, plan.client)
        BY <3>5
      <4>2. PICK boot \in ToSet(MessagePlans) : boot.client = BootstrapId
        BY <4>1, GreenAssumption DEF ToSet
      <4>3. ASSUME NEW p \in ToSet(MessagePlans)
            PROVE  /\ record[<<t, "message", p.client>>] # NoRecord
                   /\ record[<<t, "message", p.client>>].hash = p.secret
                   /\ record[<<t, "message", p.client>>].purpose = "any"
                   /\ record[<<Source, "message", p.client>>] # NoRecord
                   /\ record[<<Source, "message", p.client>>].hash = p.secret
                   /\ record[<<Source, "message", p.client>>].purpose = "any"
        <5>1. p \in ToSet(Plans) /\ p.store = "message"
          BY ClientsDiffer, GreenAssumption
        <5>2. At(t, p) = <<t, "message", p.client>>
              /\ At(Source, p) = <<Source, "message", p.client>>
          BY <5>1 DEF At
        <5>3. record[At(t, p)] # NoRecord /\ record[At(t, p)].hash = p.secret
              /\ record[At(t, p)].purpose = "any"
          BY <1>1, <1>2, <1>3, <4>1, <5>1, PlansStored
        <5>4. record[At(Source, p)] # NoRecord
          BY <1>1, <4>1, SignedMessages
        <5>5. record[At(Source, p)].hash = p.secret /\ record[At(Source, p)].purpose = "any"
          BY <1>3, <5>4 DEF OwnMessages
        <5> QED
          BY <5>2, <5>3, <5>4, <5>5
      <4>4. /\ MessageUsable(t, plan.client) /\ MessageUsable(Source, plan.client)
            /\ SameHash(t, plan.client)
        BY <4>2, <4>3 DEF MessageUsable, SameHash, Stored
      <4>5. i.operation = "verify" /\ i.client = plan.client /\ i.expect = {"accepted"}
        BY <4>1 DEF Verifies
      <4> QED
        BY <4>4, <4>5 DEF RouteAnswer
    <3>6. CASE i.expect = Answers
      BY <1>5, <3>6
    <3>7. \/ \E plan \in ToSet(Plans) :
                 n \in PlansBegin..PlansEnd /\ CreatesEntry(i, plan, BootstrapId, FALSE)
          \/ \E row \in ToSet(SeedRows) : n > PlansEnd /\ CreatesEntry(i, row, SyncId, TRUE)
          \/ Fetches(i, SourceOnlyId, {"refused"})
          \/ \E plan \in ToSet(HttpPlans) : n > PlansEnd /\ Fetches(i, plan.client, {"accepted"})
          \/ \E plan \in ToSet(MessagePlans) : n > PlansEnd /\ Verifies(i, plan.client)
          \/ i.expect = Answers
      <4>1. ~Ensures(i)
        BY <1>1, <1>4 DEF Ensures
      <4>2. ~(n - DemoBegin \in 1..11)
        <5>1. n - DemoBegin \in 1..11 => i.places = << Demo >>
          BY <1>1, PlacesOfDemo
        <5> QED
          BY <1>1, <1>4, <5>1
      <4>3. /\ \A row : TurnsRow(i, row) => i.expect = Answers
            /\ Fetches(i, SyncId, Answers) => i.expect = Answers
        BY DEF TurnsRow, Fetches
      <4>4. n \in DOMAIN Program
        BY <1>1
      <4>5. ~(n - SuiteBegin \in 1..33)
        BY <1>8
      <4> QED
        BY <4>1, <4>2, <4>3, <4>4, <4>5, SectionOf
    <3> QED
      BY <3>1, <3>2, <3>3, <3>4, <3>5, <3>6, <3>7
  <2> QED
    BY <1>1, <2>1, <2>2
<1> QED
  BY <1>7, <1>8
-----------------------------------------------------------------------------
(* A call of the clients factory.                                           *)
LEMMA Called ==
    ASSUME StoresTyped, NEW p, NEW i, Does(p, i), i.way = "factory", NEW k \in Keys,
                                                             k = KeyOf(p, i)
    PROVE  /\ record'[k] = NewRecord(k, i) /\ undo'[k] = NewUndo(k, i)
           /\ i.operation = "revert" =>
                 FactoryAnswer(p, i) = IF Reverts(k) THEN "reverted" ELSE "accepted"
           /\ i.operation \notin {"sign", "revert"} =>
                 /\ FactoryAnswer(p, i) \in {"changed", "kept"}
                 /\ /\ NewRecord(k, i) # NoRecord
                    /\ record[k] # NoRecord => record[k].hash # NewRecord(k, i).hash
                    => FactoryAnswer(p, i) = "changed"
           /\ i.is = <<>> => AsExpected(p, i)
<1>1. record'[k] = NewRecord(k, i) /\ undo'[k] = NewUndo(k, i)
  BY PlaceEffect DEF Acts
<1>2. <<>> # NoRecord
  BY GreenAssumption
<1>3. i.is = <<>> => AsExpected(p, i)
  BY <1>2 DEF AsExpected
<1>4. i.operation = "revert" =>
          FactoryAnswer(p, i) = IF Reverts(k) THEN "reverted" ELSE "accepted"
  BY DEF FactoryAnswer
<1>5. i.operation \notin {"sign", "revert"} =>
          /\ FactoryAnswer(p, i) \in {"changed", "kept"}
          /\ /\ NewRecord(k, i) # NoRecord
             /\ record[k] # NoRecord => record[k].hash # NewRecord(k, i).hash
             => FactoryAnswer(p, i) = "changed"
  BY DEF FactoryAnswer
<1> QED
  BY <1>1, <1>3, <1>4, <1>5

(* What the source stores when it runs the x-th instruction of the suite.    *)
SourceFacts(x) ==
    LET r3 == Http(Source, "r3")
        m  == Http(Source, "m")
        mm == <<Source, "message", "m">>
        f  == Http(Source, "f")
    IN  /\ x = 5 => record[r3] # NoRecord /\ record[r3].hash = "r3-original"
        /\ x = 6 => record[r3] # NoRecord /\ undo[r3] = "r3-original"
        /\ x = 7 => undo[r3] = NoHash
        /\ x = 23 => record[m] # NoRecord /\ record[m].hash = "m-original"
        /\ x = 25 => record[mm] # NoRecord /\ record[mm].hash = "m-original"
        /\ x \in 31..33 =>
              record[f] # NoRecord /\ record[f].expiresAt = 2100
              /\ record[f].allowedIps = {"other"}
        /\ x \in 31..32 => record[f].hash = "f-original"
        /\ x = 33 => record[f].fromDbSeed = TRUE /\ undo[f] # NoHash

(* The expiry, the addresses and the origin of a record.                    *)
IsDated(r, seeded) == r.expiresAt = 2100 /\ r.allowedIps = {"other"} /\ r.fromDbSeed = seeded

(* What a dated write says is what a rotation leaves.                       *)
LEMMA DatedRotated ==
    ASSUME NEW old, NEW secret, NEW seeded, seeded # Unset,
           NEW new, new = Rotated(old, Dated(secret, seeded))
    PROVE  IsDated(new, seeded)
<1>1. 2100 # Unset /\ {"other"} # Unset
  <2>1. 2100 \in Instants /\ "other" \in Addresses
    BY SourceAssumption
  <2> QED
    BY <2>1, UnsetAssumption
<1> DEFINE w == Dated(secret, seeded)
<1>2. w.expiresAt = 2100 /\ w.allowedIps = {"other"} /\ w.fromDbSeed = seeded
  BY DEF Dated
<1> HIDE DEF w
<1>3. CASE old = NoRecord
  BY <1>1, <1>2, <1>3 DEF Rotated, Created, OrElse, w, IsDated
<1>4. CASE old # NoRecord
  BY <1>1, <1>2, <1>4 DEF Rotated, OrElse, w, IsDated
<1> QED
  BY <1>3, <1>4

(* TRUE is a value.                                                         *)
LEMMA TrueIsSet == TRUE # Unset
BY UnsetAssumption

(* The source runs the suite as the assertions say.                         *)
LEMMA SourceSuite ==
    ASSUME TypeInv, Asking, Does(Source, Now), Now.places = << Source >>,
           NEW x \in 1..33, Now = Program[SuiteBegin + x],
           SourceFacts(x), x = 4 => record[Http(Source, "r3")] = NoRecord
    PROVE  /\ FactoryAnswer(Source, Now) \in Now.expect /\ AsExpected(Source, Now)
           /\ SourceFacts(x + 1)'
<1> DEFINE r3 == Http(Source, "r3")
           m  == Http(Source, "m")
           mm == <<Source, "message", "m">>
           f  == Http(Source, "f")
           k  == KeyOf(Source, Now)
           new == NewRecord(k, Now)
           answer == FactoryAnswer(Source, Now)
           expected == AsExpected(Source, Now)
<1>1. /\ StoresTyped /\ Now \in Instructions /\ results \in Seq(Answers)
      /\ Source \in Places /\ Source = Now.places[1] /\ results = <<>>
  <2>1. StoresTyped /\ results \in Seq(Answers)
    BY DEF TypeInv, TypeOK, StoresTyped
  <2> QED
    BY <2>1, AskedPlace, PlacesDiffer DEF Places
<1>2. x \in 4..7 \cup 22..33
  <2>1. CASE x \in 1..3 \cup 8..21
    <3>1. SuiteBegin + x \in DOMAIN Program /\ (SuiteBegin + x) - SuiteBegin = x
      <4>1. DOMAIN Program = 1..Len(Program) /\ x \in Nat /\ x >= 1 /\ x <= 33
        BY ProgramTyped
      <4>2. /\ SuiteBegin \in Nat /\ DemoBegin \in Nat /\ DemoBegin >= SuiteBegin + 35
            /\ Len(Program) = DemoBegin + 11
        BY Begins
      <4>3. \A a, b, c \in Nat : c >= 1 /\ c <= 33 /\ b >= a + 35 =>
                a + c \in 1..(b + 11) /\ (a + c) - a = c
        OBVIOUS
      <4> QED
        BY <4>1, <4>2, <4>3
    <3>2. Program[SuiteBegin + x].places = TargetList
      BY <2>1, <3>1, SuiteClients
    <3> QED
      BY <3>2, PlacesDiffer
  <2> QED
    BY <2>1
<1>3. Now.way = "factory"
  BY <1>2, SuiteCalls DEF Calls
<1>4. k \in Keys /\ k = <<Source, Now.store, Now.client>>
  BY <1>1, <1>3, KeysTyped DEF KeyOf
<1>5. /\ record'[k] = new /\ undo'[k] = NewUndo(k, Now)
      /\ Now.operation = "revert" => answer = IF Reverts(k) THEN "reverted" ELSE "accepted"
      /\ Now.operation \notin {"sign", "revert"} =>
             /\ answer \in {"changed", "kept"}
             /\ new # NoRecord /\ (record[k] # NoRecord => record[k].hash # new.hash) =>
                    answer = "changed"
      /\ Now.is = <<>> => expected
  BY <1>1, <1>3, <1>4, Called
<1>6. answer \in Answers
  BY AnswersTyped
<1>7. expected <=> IF Now.is = NoRecord THEN new = NoRecord
                   ELSE \A field \in DOMAIN Now.is : new[field] = Now.is[field]
  BY DEF AsExpected
<1>8. Now.operation \in Amendments => record[k] # NoRecord
  BY <1>1 DEF TypeInv, Prepared, Asking
<1>9. /\ record[k] \in Records \cup {NoRecord} /\ NoRecord \notin Records
      /\ undo[k] \in Hashes \cup {NoHash}
  BY <1>1, <1>4, NoRecordAssumption DEF StoresTyped
<1>10. /\ Now.operation \in {"set", "create"} /\ Now.write.hash # NoHash =>
             new # NoRecord /\ new.hash = Now.write.hash
       /\ Now.operation = "set" => new = Rotated(record[k], Now.write)
       /\ Now.operation = "create" => new = Created(Now.write)
       /\ Now.operation = "regenerate" /\ Now.write.hash # NoHash =>
             new # NoRecord /\ new.hash = Now.write.hash
       /\ Now.operation = "allow" => new = WithAllowedIps(record[k], Now.write)
       /\ Now.operation = "delete" => new = NoRecord
       /\ Now.operation = "revert" =>
             /\ new = IF Reverts(k) THEN Reverted(record[k], undo[k]) ELSE record[k]
             /\ NewUndo(k, Now) = NoHash
  <2>1. Now.write \in PossibleWrites
    BY <1>1 DEF Instructions, Orders
  <2>2. Now.write.hash # NoHash =>
            /\ Created(Now.write) \in Records /\ Created(Now.write).hash = Now.write.hash
            /\ Rotated(record[k], Now.write) \in Records
            /\ Rotated(record[k], Now.write).hash = Now.write.hash
    BY <1>9, <2>1, RecordsMade
  <2>3. /\ Now.operation = "set" => new = Rotated(record[k], Now.write)
        /\ Now.operation = "create" => new = Created(Now.write)
        /\ Now.operation = "allow" => new = WithAllowedIps(record[k], Now.write)
        /\ Now.operation = "delete" => new = NoRecord
        /\ Now.operation = "regenerate" =>
              new = Regenerated(record[k], [Now.write EXCEPT !.allowedIps = Unset])
        /\ Now.operation = "revert" =>
              /\ new = IF Reverts(k) THEN Reverted(record[k], undo[k]) ELSE record[k]
              /\ NewUndo(k, Now) = NoHash
    BY <1>3, NewRecordOf DEF NewUndo
  <2>4. Now.operation = "regenerate" /\ Now.write.hash # NoHash =>
            new \in Records /\ new.hash = Now.write.hash
    <3> SUFFICES ASSUME Now.operation = "regenerate", Now.write.hash # NoHash
                 PROVE  new \in Records /\ new.hash = Now.write.hash
      OBVIOUS
    <3>1. record[k] \in Records
      BY <1>8, <1>9 DEF Amendments
    <3>2. new \in Records
      BY <2>1, <2>3, <3>1, RecordsAmended
    <3>3. new.hash = Now.write.hash
      <4> DEFINE w == [Now.write EXCEPT !.allowedIps = Unset]
      <4>1. w.hash = Now.write.hash
        BY <2>1 DEF PossibleWrites
      <4>2. new = Regenerated(record[k], w)
        BY <2>3
      <4> HIDE DEF w, k, new
      <4>3. Rotated(record[k], w) = [hash |-> w.hash,
                                     expiresAt |-> OrElse(w.expiresAt, record[k].expiresAt),
                                     allowedIps |-> OrElse(w.allowedIps, record[k].allowedIps),
                                     fromDbSeed |-> OrElse(w.fromDbSeed, record[k].fromDbSeed),
                                     purpose |-> OrElse(w.purpose, record[k].purpose)]
        BY <1>9, <3>1 DEF Rotated
      <4> QED
        BY <4>1, <4>2, <4>3 DEF Regenerated
    <3> QED
      BY <3>2, <3>3
  <2> QED
    BY <1>9, <2>2, <2>3, <2>4
<1>11. Now.operation = "set" /\ NeedsBackup(record[k], Now.write) =>
              NewUndo(k, Now) = record[k].hash
  BY DEF NewUndo
<1>12. /\ NoHash \notin {"r3-original", "r3-rotated", "m-original", "generated",
                          "f-original", "f-rotated"}
       /\ 2100 # Unset /\ {"other"} # Unset
       /\ {"r3-original"} \subseteq Hashes
       /\ NoRecord # [hash |-> "r3-original"] /\ NoRecord # [allowedIps |-> {"other"}]
       /\ NoRecord # AsDated
  <2>1. /\ NoHash \notin {"r3-original", "r3-rotated", "m-original", "generated",
                           "f-original", "f-rotated"}
        /\ {"r3-original"} \subseteq Hashes /\ 2100 \in Instants /\ "other" \in Addresses
    BY SourceAssumption DEF SuiteSecrets
  <2>2. 2100 # Unset /\ {"other"} # Unset
    BY <2>1, UnsetAssumption
  <2>3. /\ [hash |-> "r3-original"] \in [hash : Hashes]
        /\ [allowedIps |-> {"other"}] \in [allowedIps : SUBSET Addresses]
        /\ AsDated \in [fromDbSeed : BOOLEAN, expiresAt : Instants, allowedIps : SUBSET Addresses]
    BY <2>1 DEF AsDated
  <2>4. /\ NoRecord \notin [hash : Hashes] /\ NoRecord \notin [allowedIps : SUBSET Addresses]
        /\ NoRecord \notin [fromDbSeed : BOOLEAN, expiresAt : Instants,
                             allowedIps : SUBSET Addresses]
    BY GreenAssumption
  <2> QED
    BY <2>1, <2>2, <2>3, <2>4
<1>13. /\ x = 5 => record[r3] # NoRecord /\ record[r3].hash = "r3-original"
       /\ x = 6 => record[r3] # NoRecord /\ undo[r3] = "r3-original"
       /\ x = 7 => undo[r3] = NoHash
       /\ x = 23 => record[m] # NoRecord /\ record[m].hash = "m-original"
       /\ x = 25 => record[mm] # NoRecord /\ record[mm].hash = "m-original"
       /\ x \in 31..33 =>
             record[f] # NoRecord /\ record[f].expiresAt = 2100
             /\ record[f].allowedIps = {"other"}
       /\ x \in 31..32 => record[f].hash = "f-original"
       /\ x = 33 => record[f].fromDbSeed = TRUE /\ undo[f] # NoHash
       /\ x = 4 => record[r3] = NoRecord
  BY DEF SourceFacts
<1>14. /\ r3 = <<Source, "http", "r3">> /\ m = <<Source, "http", "m">>
       /\ mm = <<Source, "message", "m">> /\ f = <<Source, "http", "f">>
  BY DEF Http
<1> DEFINE facts ==
               /\ x + 1 = 5 => record'[r3] # NoRecord /\ record'[r3].hash = "r3-original"
               /\ x + 1 = 6 => record'[r3] # NoRecord /\ undo'[r3] = "r3-original"
               /\ x + 1 = 7 => undo'[r3] = NoHash
               /\ x + 1 = 23 => record'[m] # NoRecord /\ record'[m].hash = "m-original"
               /\ x + 1 = 25 => record'[mm] # NoRecord /\ record'[mm].hash = "m-original"
               /\ x + 1 \in 31..33 =>
                     /\ record'[f] # NoRecord /\ record'[f].expiresAt = 2100
                     /\ record'[f].allowedIps = {"other"}
               /\ x + 1 \in 31..32 => record'[f].hash = "f-original"
               /\ x + 1 = 33 => record'[f].fromDbSeed = TRUE /\ undo'[f] # NoHash
<1>15. facts => SourceFacts(x + 1)'
  BY DEF SourceFacts, Http
<1> SUFFICES answer \in Now.expect /\ expected /\ facts
  BY <1>15
<1> HIDE DEF answer, expected, new, k, r3, m, mm, f
<1>16. CASE x = 4
  <2>1. /\ Now.operation = "set" /\ Now.store = "http" /\ Now.client = "r3"
        /\ Now.write = Write("r3-original", TRUE) /\ Now.expect = {"changed"} /\ Now.is = <<>>
    BY <1>16, SuiteCalls DEF Calls
  <2>2. k = r3
    BY <1>4, <1>14, <2>1
  <2>3. Now.write.hash = "r3-original" /\ Now.write.hash # NoHash
    BY <1>12, <2>1 DEF Write, Dated
  <2> QED
    BY <1>5, <1>6, <1>9, <1>10, <1>13, <1>16, <2>1, <2>2, <2>3
<1>17. CASE x = 5
  <2>1. /\ Now.operation = "set" /\ Now.store = "http" /\ Now.client = "r3"
        /\ Now.write = Write("r3-rotated", TRUE) /\ Now.expect = {"changed"} /\ Now.is = <<>>
    BY <1>17, SuiteCalls DEF Calls
  <2>2. k = r3
    BY <1>4, <1>14, <2>1
  <2>3. Now.write.hash = "r3-rotated" /\ Now.write.hash # NoHash
    BY <1>12, <2>1 DEF Write, Dated
  <2>4. NewUndo(k, Now) = "r3-original"
    <3>1. Now.write.fromDbSeed = TRUE
      BY <2>1 DEF Write
    <3> QED
      BY <1>11, <1>13, <1>17, <2>1, <2>2, <2>3, <3>1 DEF NeedsBackup
  <2> QED
    BY <1>5, <1>6, <1>9, <1>10, <1>13, <1>17, <2>1, <2>2, <2>3, <2>4
<1>18. CASE x = 6
  <2>1. /\ Now.operation = "revert" /\ Now.store = "http" /\ Now.client = "r3"
        /\ Now.write = NoWrite /\ Now.expect = {"reverted"} /\ Now.is = [hash |-> "r3-original"]
    BY <1>18, SuiteCalls DEF Calls
  <2>2. k = r3
    BY <1>4, <1>14, <2>1
  <2>4. expected
    <3>1. DOMAIN Now.is = {"hash"} /\ Now.is.hash = "r3-original" /\ Now.is # NoRecord
      BY <1>12, <2>1
    <3>2. Reverts(k) /\ record[k] \in Records
      BY <1>9, <1>12, <1>13, <1>18, <2>2 DEF Reverts
    <3>3. new.hash = "r3-original"
      BY <1>10, <1>13, <1>18, <2>1, <2>2, <3>2 DEF Reverted, Records
    <3> QED
      BY <1>7, <3>1, <3>3
  <2>5. answer = "reverted"
    BY <1>5, <1>12, <1>13, <1>18, <2>1, <2>2 DEF Reverts
  <2> QED
    BY <1>5, <1>6, <1>9, <1>10, <1>13, <1>18, <2>1, <2>2, <2>4, <2>5
<1>19. CASE x = 7
  <2>1. /\ Now.operation = "revert" /\ Now.store = "http" /\ Now.client = "r3"
        /\ Now.write = NoWrite /\ Now.expect = {"accepted"} /\ Now.is = <<>>
    BY <1>19, SuiteCalls DEF Calls
  <2>2. k = r3
    BY <1>4, <1>14, <2>1
  <2>5. answer = "accepted"
    BY <1>5, <1>13, <1>19, <2>1, <2>2 DEF Reverts
  <2> QED
    BY <1>5, <1>6, <1>9, <1>10, <1>13, <1>19, <2>1, <2>2, <2>5
<1>20. CASE x = 22
  <2>1. /\ Now.operation = "create" /\ Now.store = "http" /\ Now.client = "m"
        /\ Now.write = Write("m-original", Unset) /\ Now.expect = Answers /\ Now.is = <<>>
    BY <1>20, SuiteCalls DEF Calls
  <2>2. k = m
    BY <1>4, <1>14, <2>1
  <2>3. Now.write.hash = "m-original" /\ Now.write.hash # NoHash
    BY <1>12, <2>1 DEF Write, Dated
  <2> QED
    BY <1>5, <1>6, <1>9, <1>10, <1>13, <1>20, <2>1, <2>2, <2>3
<1>21. CASE x = 23
  <2>1. /\ Now.operation = "regenerate" /\ Now.store = "http" /\ Now.client = "m"
        /\ Now.write = Write("generated", Unset) /\ Now.expect = {"changed"} /\ Now.is = <<>>
    BY <1>21, SuiteCalls DEF Calls
  <2>2. k = m
    BY <1>4, <1>14, <2>1
  <2>3. Now.write.hash = "generated" /\ Now.write.hash # NoHash
    BY <1>12, <2>1 DEF Write, Dated
  <2> QED
    BY <1>5, <1>6, <1>9, <1>10, <1>13, <1>21, <2>1, <2>2, <2>3
<1>22. CASE x = 24
  <2>1. /\ Now.operation = "create" /\ Now.store = "message" /\ Now.client = "m"
        /\ Now.write = Write("m-original", Unset) /\ Now.expect = Answers /\ Now.is = <<>>
    BY <1>22, SuiteCalls DEF Calls
  <2>2. k = mm
    BY <1>4, <1>14, <2>1
  <2>3. Now.write.hash = "m-original" /\ Now.write.hash # NoHash
    BY <1>12, <2>1 DEF Write, Dated
  <2> QED
    BY <1>5, <1>6, <1>9, <1>10, <1>13, <1>22, <2>1, <2>2, <2>3
<1>23. CASE x = 25
  <2>1. /\ Now.operation = "regenerate" /\ Now.store = "message" /\ Now.client = "m"
        /\ Now.write = Write("generated", Unset) /\ Now.expect = {"changed"} /\ Now.is = <<>>
    BY <1>23, SuiteCalls DEF Calls
  <2>2. k = mm
    BY <1>4, <1>14, <2>1
  <2>3. Now.write.hash = "generated" /\ Now.write.hash # NoHash
    BY <1>12, <2>1 DEF Write, Dated
  <2> QED
    BY <1>5, <1>6, <1>9, <1>10, <1>13, <1>23, <2>1, <2>2, <2>3
<1>24. CASE x = 26
  <2>1. /\ Now.operation = "create" /\ Now.store = "http" /\ Now.client = "m"
        /\ Now.write = Write("m-original", Unset) /\ Now.expect = Answers /\ Now.is = <<>>
    BY <1>24, SuiteCalls DEF Calls
  <2>2. k = m
    BY <1>4, <1>14, <2>1
  <2>3. Now.write.hash = "m-original" /\ Now.write.hash # NoHash
    BY <1>12, <2>1 DEF Write, Dated
  <2> QED
    BY <1>5, <1>6, <1>9, <1>10, <1>13, <1>24, <2>1, <2>2, <2>3
<1>25. CASE x = 27
  <2>1. /\ Now.operation = "allow" /\ Now.store = "http" /\ Now.client = "m"
        /\ Now.write = OnlyOther /\ Now.expect = Answers /\ Now.is = [allowedIps |-> {"other"}]
    BY <1>25, SuiteCalls DEF Calls
  <2>2. k = m
    BY <1>4, <1>14, <2>1
  <2>4. expected
    <3>1. DOMAIN Now.is = {"allowedIps"} /\ Now.is.allowedIps = {"other"} /\ Now.is # NoRecord
      BY <1>12, <2>1
    <3>2. record[k] \in Records
      BY <1>8, <1>9, <2>1 DEF Amendments
    <3>3. Now.write.allowedIps = {"other"}
      BY <2>1 DEF OnlyOther, NoWrite, Write
    <3>4. new.allowedIps = {"other"}
      BY <1>10, <1>12, <2>1, <3>2, <3>3 DEF WithAllowedIps, OrElse, Records
    <3> QED
      BY <1>7, <3>1, <3>4
  <2> QED
    BY <1>5, <1>6, <1>9, <1>10, <1>13, <1>25, <2>1, <2>2, <2>4
<1>26. CASE x = 28
  <2>1. /\ Now.operation = "create" /\ Now.store = "http" /\ Now.client = "m"
        /\ Now.write = Write("m-original", Unset) /\ Now.expect = Answers /\ Now.is = <<>>
    BY <1>26, SuiteCalls DEF Calls
  <2>2. k = m
    BY <1>4, <1>14, <2>1
  <2>3. Now.write.hash = "m-original" /\ Now.write.hash # NoHash
    BY <1>12, <2>1 DEF Write, Dated
  <2> QED
    BY <1>5, <1>6, <1>9, <1>10, <1>13, <1>26, <2>1, <2>2, <2>3
<1>27. CASE x = 29
  <2>1. /\ Now.operation = "delete" /\ Now.store = "http" /\ Now.client = "m"
        /\ Now.write = NoWrite /\ Now.expect = Answers /\ Now.is = NoRecord
    BY <1>27, SuiteCalls DEF Calls
  <2>2. k = m
    BY <1>4, <1>14, <2>1
  <2>4. expected
    BY <1>7, <1>10, <2>1
  <2> QED
    BY <1>5, <1>6, <1>9, <1>10, <1>13, <1>27, <2>1, <2>2, <2>4
<1>28. CASE x = 30
  <2>1. /\ Now.operation = "create" /\ Now.store = "http" /\ Now.client = "f"
        /\ Now.write = Dated("f-original", Unset) /\ Now.expect = Answers /\ Now.is = <<>>
    BY <1>28, SuiteCalls DEF Calls
  <2>2. k = f
    BY <1>4, <1>14, <2>1
  <2>3. Now.write.hash = "f-original" /\ Now.write.hash # NoHash
    BY <1>12, <2>1 DEF Write, Dated
  <2>4. new.expiresAt = 2100 /\ new.allowedIps = {"other"}
    <3>1. Now.write.expiresAt = 2100 /\ Now.write.allowedIps = {"other"}
      BY <2>1 DEF Dated
    <3> QED
      BY <1>10, <1>12, <2>1, <3>1 DEF Created, OrElse
  <2> QED
    BY <1>5, <1>6, <1>9, <1>10, <1>13, <1>28, <2>1, <2>2, <2>3, <2>4
<1>29. CASE x = 31
  <2>1. /\ Now.operation = "set" /\ Now.store = "http" /\ Now.client = "f"
        /\ Now.write = Dated("f-original", TRUE) /\ Now.expect = Answers /\ Now.is = <<>>
    BY <1>29, SuiteCalls DEF Calls
  <2>2. k = f
    BY <1>4, <1>14, <2>1
  <2>3. Now.write.hash = "f-original" /\ Now.write.hash # NoHash
    BY <1>12, <2>1 DEF Write, Dated
  <2>4. new.expiresAt = 2100 /\ new.allowedIps = {"other"} /\ new.fromDbSeed = TRUE
    <3>1. new = Rotated(record[k], Dated("f-original", TRUE))
      BY <1>10, <2>1
    <3>2. IsDated(new, TRUE)
      BY <3>1, DatedRotated, TrueIsSet
    <3>3. new.expiresAt = 2100 /\ new.allowedIps = {"other"}
      BY <3>2 DEF IsDated
    <3>4. new.fromDbSeed = TRUE
      BY <3>2 DEF IsDated
    <3> QED
      BY <3>3, <3>4
  <2> QED
    BY <1>5, <1>6, <1>9, <1>10, <1>13, <1>29, <2>1, <2>2, <2>3, <2>4
<1>30. CASE x = 32
  <2>1. /\ Now.operation = "set" /\ Now.store = "http" /\ Now.client = "f"
        /\ Now.write = Dated("f-rotated", TRUE) /\ Now.expect = Answers /\ Now.is = <<>>
    BY <1>30, SuiteCalls DEF Calls
  <2>2. k = f
    BY <1>4, <1>14, <2>1
  <2>3. Now.write.hash = "f-rotated" /\ Now.write.hash # NoHash
    BY <1>12, <2>1 DEF Write, Dated
  <2>4. new.expiresAt = 2100 /\ new.allowedIps = {"other"} /\ new.fromDbSeed = TRUE
    <3>1. new = Rotated(record[k], Dated("f-rotated", TRUE))
      BY <1>10, <2>1
    <3>2. IsDated(new, TRUE)
      BY <3>1, DatedRotated, TrueIsSet
    <3>3. new.expiresAt = 2100 /\ new.allowedIps = {"other"}
      BY <3>2 DEF IsDated
    <3>4. new.fromDbSeed = TRUE
      BY <3>2 DEF IsDated
    <3> QED
      BY <3>3, <3>4
  <2>5. NewUndo(k, Now) = "f-original" /\ "f-original" # NoHash
    <3>1. Now.write.fromDbSeed = TRUE
      BY <2>1 DEF Dated
    <3> QED
      BY <1>11, <1>12, <1>13, <1>30, <2>1, <2>2, <2>3, <3>1 DEF NeedsBackup
  <2> QED
    BY <1>5, <1>6, <1>9, <1>10, <1>13, <1>30, <2>1, <2>2, <2>3, <2>4, <2>5
<1>31. CASE x = 33
  <2>1. /\ Now.operation = "revert" /\ Now.store = "http" /\ Now.client = "f"
        /\ Now.write = NoWrite /\ Now.expect = {"reverted"} /\ Now.is = AsDated
    BY <1>31, SuiteCalls DEF Calls
  <2>2. k = f
    BY <1>4, <1>14, <2>1
  <2>4. Reverts(k) /\ record[k] \in Records
    BY <1>9, <1>13, <1>31, <2>2 DEF Reverts
  <2>5. answer = "reverted"
    BY <1>5, <2>1, <2>4
  <2>6. expected
    <3>1. Now.is = AsDated /\ Now.is # NoRecord
      BY <1>12, <2>1
    <3>2. new.fromDbSeed = TRUE /\ new.expiresAt = 2100 /\ new.allowedIps = {"other"}
      BY <1>10, <1>13, <1>31, <2>1, <2>2, <2>4 DEF Reverted, Records
    <3>3. DOMAIN AsDated = {"fromDbSeed", "expiresAt", "allowedIps"}
      BY DEF AsDated
    <3>4. ASSUME NEW field \in DOMAIN AsDated PROVE new[field] = AsDated[field]
      <4>1. CASE field = "fromDbSeed"
        <5>1. AsDated["fromDbSeed"] = TRUE
          BY DEF AsDated
        <5>2. new["fromDbSeed"] = TRUE
          BY <3>2
        <5>3. new["fromDbSeed"] = AsDated["fromDbSeed"]
          BY <5>1, <5>2
        <5> QED
          BY <4>1, <5>3, ZenonT(30)
      <4>2. CASE field = "expiresAt"
        BY <3>2, <4>2 DEF AsDated
      <4>3. CASE field = "allowedIps"
        BY <3>2, <4>3 DEF AsDated
      <4> QED
        BY <3>3, <4>1, <4>2, <4>3
    <3> QED
      BY <1>7, <3>1, <3>4
  <2> QED
    BY <1>5, <1>6, <1>9, <1>10, <1>13, <1>31, <2>1, <2>2, <2>5, <2>6
<1>32. CASE x \in {4, 5, 6, 7}
  BY <1>32, <1>16, <1>17, <1>18, <1>19, ZenonT(40)
<1>33. CASE x \in {22, 23, 24, 25, 26, 27}
  BY <1>33, <1>20, <1>21, <1>22, <1>23, <1>24, <1>25, ZenonT(40)
<1>34. CASE x \in {28, 29, 30, 31, 32, 33}
  BY <1>34, <1>26, <1>27, <1>28, <1>29, <1>30, <1>31, ZenonT(40)
<1>35. x \in {4, 5, 6, 7} \cup {22, 23, 24, 25, 26, 27} \cup {28, 29, 30, 31, 32, 33}
  BY <1>2
<1> QED
  BY <1>32, <1>33, <1>34, <1>35, Zenon
-----------------------------------------------------------------------------
(* The client of R3 is new in every run.                                    *)
R3New(n) == n \in 1..(SuiteBegin + 4) => record[Http(Source, "r3")] = NoRecord

(* The process does everything for itself as the program says.               *)
LEMMA SourceServes ==
    ASSUME TypeInv, Asking, Does(Source, Now), Now.places = << Source >>, NEW n, n = pc,
           SourceFacts(n - SuiteBegin), R3New(n), SourceMessages(n)
    PROVE  /\ FactoryAnswer(Source, Now) \in Now.expect /\ AsExpected(Source, Now)
           /\ SourceFacts((n + 1) - SuiteBegin)' /\ R3New(n + 1)' /\ SourceMessages(n + 1)'
           /\ Now.way = "factory"
<1> DEFINE i == Program[n]
           x == n - SuiteBegin
           k == KeyOf(Source, i)
           r3 == Http(Source, "r3")
<1>1. /\ n \in DOMAIN Program /\ n \in Nat /\ Now = i /\ i \in Instructions
      /\ i.places = << Source >> /\ n = SuiteBegin + x /\ SuiteBegin \in Nat
  <2>1. n \in DOMAIN Program /\ Now = i /\ i.places = << Source >>
    BY DEF Asking, Running, Now
  <2> QED
    BY <2>1, Begins, ProgramTyped
<1>2. StoresTyped /\ Source \in Places /\ Does(Source, i)
  BY <1>1 DEF TypeInv, TypeOK, StoresTyped, Places
<1>7. x \notin 1..33 => n <= Len(LocalCredentials) /\ Ensures(i)
  <2>1. /\ << Source >> # TargetList /\ << Demo >> # TargetList /\ << Source >> # << Demo >>
    BY PlacesDiffer
  <2>2. ~(n - DemoBegin \in 1..11)
    <3>1. n - DemoBegin \in 1..11 => i.places = << Demo >>
      BY <1>1, PlacesOfDemo
    <3> QED
      BY <1>1, <2>1, <3>1
  <2> HIDE DEF x, i
  <2> QED
    BY <1>1, <2>1, <2>2, SectionOf DEF CreatesEntry, Creates, TurnsRow, Fetches, Verifies, x, i
<1>3. i.way = "factory"
  <2>1. CASE x \in 1..33
    <3>1. x \in 4..7 \cup 22..33
      <4>1. << Source >> # TargetList
        BY PlacesDiffer
      <4>2. x \in 1..3 \cup 8..21 => Program[n].places = TargetList
        BY <1>1, SuiteClients
      <4> QED
        BY <1>1, <2>1, <4>1, <4>2
    <3>2. i = Program[SuiteBegin + x]
      BY <1>1
    <3> HIDE DEF x, i
    <3> QED
      BY <3>1, <3>2, SuiteCalls DEF Calls
  <2> QED
    BY <1>7, <2>1 DEF Ensures
<1>4. k \in Keys /\ k = <<Source, i.store, i.client>>
  BY <1>1, <1>2, <1>3, KeysTyped DEF KeyOf
<1>5. \A j \in Keys : /\ j = k => record'[j] = NewRecord(j, i)
                      /\ j # k => record'[j] = record[j]
  BY <1>2, <1>3, PlaceEffect DEF Acts
<1>6. x + 1 = (n + 1) - SuiteBegin
  BY <1>1
<1>8. R3New(n + 1)'
  <2> SUFFICES ASSUME n + 1 \in 1..(SuiteBegin + 4) PROVE record'[r3] = NoRecord
    BY DEF R3New, Http
  <2>1. n \in 1..(SuiteBegin + 4) /\ ~(x \in 4..7)
    <3>1. \A a, b \in Nat, c \in Int : a = b + c /\ a + 1 \in 1..(b + 4) /\ a > 0 =>
              a \in 1..(b + 4) /\ ~(c \in 4..7)
      OBVIOUS
    <3>2. x \in Int /\ n > 0
      BY <1>1, ProgramTyped
    <3> QED
      BY <1>1, <3>1, <3>2
  <2>2. record[r3] = NoRecord
    BY <2>1 DEF R3New
  <2>3. r3 \in Keys /\ r3 = <<Source, "http", "r3">>
    BY SourceAssumption DEF Http, Keys, Stores, Places, SuiteIds
  <2>4. i.client # "r3"
    BY <1>1, <2>1, SuiteClients
  <2> QED
    BY <1>4, <1>5, <2>2, <2>3, <2>4
<1>9. SourceMessages(n + 1)'
  <2> SUFFICES ASSUME NEW m \in 1..Len(MessageCredentials), n + 1 > m
               PROVE  Stored(Source, "message", MessageCredentials[m].client)'
    BY DEF SourceMessages
  <2> DEFINE c == MessageCredentials[m].client
             q == <<Source, "message", c>>
  <2>1. MessageCredentials[m] \in ToSet(MessageCredentials) /\ c \in ClientIds
        /\ c \notin SuiteIds
    <3>1. MessageCredentials \in Seq(Credentials)
      BY ListMembers
    <3>2. MessageCredentials[m] \in ToSet(MessageCredentials)
          /\ MessageCredentials[m] \in Credentials
      BY <3>1 DEF ToSet
    <3> QED
      BY <3>2, GreenAssumption DEF Credentials
  <2>2. q \in Keys
    BY <1>2, <2>1 DEF Keys, Stores
  <2>3. CASE q = k
    <3>1. i.client \notin SuiteIds
      BY <1>4, <2>1, <2>3
    <3>2. Ensures(i)
      BY <1>1, <3>1, OrdinaryClients
    <3>3. /\ i.write \in PossibleWrites /\ i.write.hash # NoHash /\ i.operation = "ensure"
          /\ record[k] \in Records \cup {NoRecord}
      BY <1>1, <1>2, <1>4, <3>2, SourceAssumption DEF Ensures, Instructions, Orders, StoresTyped
    <3>4. i.operation \in {"update", "set", "ensure"}
      BY <3>3
    <3>5. NewRecord(k, i) = Rotated(record[k], i.write)
      BY <3>4 DEF NewRecord
    <3>6. Rotated(record[k], i.write) \in Records
      BY <3>3, RecordsMade
    <3>7. record'[q] # NoRecord
      BY <1>5, <2>2, <2>3, <3>5, <3>6, NoRecordAssumption
    <3> QED
      BY <3>7 DEF Stored
  <2>4. CASE q # k
    <3>1. n # m
      <4> SUFFICES ASSUME n = m PROVE FALSE
        OBVIOUS
      <4>1. i.store = "message" /\ i.client = c
        BY EnsuresAt
      <4> QED
        BY <1>4, <2>4, <4>1
    <3>2. n > m
      BY <1>1, <3>1
    <3>3. record[q] # NoRecord
      BY <3>2 DEF SourceMessages, Stored
    <3>4. record'[q] # NoRecord
      BY <1>5, <2>2, <2>4, <3>3
    <3> QED
      BY <3>4 DEF Stored
  <2> QED
    BY <2>3, <2>4
<1>10. FactoryAnswer(Source, Now) \in Now.expect /\ AsExpected(Source, Now)
       /\ SourceFacts((n + 1) - SuiteBegin)'
  <2>1. CASE x \in 1..33
    <3>1. x = 4 => record[r3] = NoRecord
      <4>1. x = 4 => n \in 1..(SuiteBegin + 4)
        BY <1>1
      <4> QED
        BY <4>1 DEF R3New
    <3>2. Now = Program[SuiteBegin + x]
      BY <1>1
    <3>3. /\ FactoryAnswer(Source, Now) \in Now.expect /\ AsExpected(Source, Now)
          /\ SourceFacts(x + 1)'
      <4> HIDE DEF x
      <4> QED
        BY <2>1, <3>1, <3>2, SourceSuite DEF x
    <3> QED
      BY <1>6, <3>3
  <2>2. CASE x \notin 1..33
    <3>1. Ensures(i) /\ FactoryAnswer(Source, Now) \in Answers
      BY <1>7, <2>2, AnswersTyped
    <3>2. i.expect = Answers /\ i.is = <<>> /\ i.operation = "ensure"
      BY <3>1 DEF Ensures
    <3>3. AsExpected(Source, i)
      BY <1>2, <1>3, <1>4, <3>2, Called
    <3>4. SourceFacts((n + 1) - SuiteBegin)'
      <4>1. ~((n + 1) - SuiteBegin \in 5..33)
        BY <1>1, <2>2
      <4> HIDE DEF x
      <4> QED
        BY <4>1 DEF SourceFacts
    <3> QED
      BY <1>1, <3>1, <3>2, <3>3, <3>4
  <2> QED
    BY <2>1, <2>2
<1> QED
  BY <1>1, <1>3, <1>8, <1>9, <1>10
-----------------------------------------------------------------------------
(* What the demonstration finds when it is at instruction n.                 *)
DemoFacts(n) ==
    LET own == Http(Demo, BootstrapId)
    IN  /\ n > 0 /\ n <= DemoBegin + 6 => Listed(Demo) = {}
        /\ n > DemoBegin + 6 => /\ record[own] # NoRecord /\ record[own].hash = "demo-secret"
                                /\ record[own].purpose = "propagation-only"
        /\ n > DemoBegin + 7 => ~MessageUsable(Demo, BootstrapId)

(* What is in the list of the demonstration.                                *)
LEMMA DemoKeys ==
    /\ Demo \in Places /\ BootstrapId \in ClientIds
    /\ \A client \in ClientIds : <<Demo, "http", client>> \in Keys
    /\ <<Demo, "message", BootstrapId>> \in Keys
BY SourceAssumption DEF Keys, Stores, Places

(* The instructions that are for the demonstration.                         *)
LEMMA DemoPlaces ==
    ASSUME NEW n \in DOMAIN Program, Program[n].places = << Demo >>
    PROVE  n - DemoBegin \in 1..11
<1>1. /\ << Source >> # TargetList /\ << Demo >> # TargetList /\ << Source >> # << Demo >>
  BY PlacesDiffer
<1>2. n - SuiteBegin \in 1..33 => Program[n].places # << Demo >>
  <2>1. /\ n - SuiteBegin \in 1..3 \cup 8..21 => Program[n].places = TargetList
        /\ n - SuiteBegin \in 4..7 \cup 22..33 => Program[n].places = << Source >>
    BY SuiteClients
  <2>2. n - SuiteBegin \in 1..33 =>
            n - SuiteBegin \in 1..3 \cup 8..21 \/ n - SuiteBegin \in 4..7 \cup 22..33
    OBVIOUS
  <2> QED
    BY <1>1, <2>1, <2>2
<1> QED
  BY <1>1, <1>2, SectionOf DEF Ensures, CreatesEntry, Creates, TurnsRow, Fetches, Verifies

(* A restricted write.                                                      *)
LEMMA RestrictedCreated ==
    LET r == Created(Restricted)
    IN  r # NoRecord /\ r.hash = "demo-secret" /\ r.purpose = "propagation-only"
<1>1. Restricted.hash = "demo-secret" /\ Restricted.purpose = "propagation-only"
  BY DEF Restricted, Write
<1>2. "demo-secret" \in Hashes /\ NoHash \notin Hashes
  BY SourceAssumption DEF SuiteSecrets
<1>3. "propagation-only" # Unset
  BY UnsetAssumption DEF Purposes
<1>4. Created(Restricted).hash = "demo-secret"
  BY <1>1 DEF Created
<1>5. Created(Restricted).purpose = "propagation-only"
  BY <1>1, <1>3 DEF Created, OrElse
<1>6. Restricted \in PossibleWrites
  BY <1>2, UnsetAssumption DEF Restricted, Write, PossibleWrites, Purposes
<1>7. Created(Restricted) \in Records
  BY <1>1, <1>2, <1>6, RecordsMade
<1> QED
  BY <1>4, <1>5, <1>7, NoRecordAssumption

(* The demonstration goes as it says.                                       *)
LEMMA DemoServes ==
    ASSUME TypeInv, Asking, Does(Demo, Now), Now.places = << Demo >>, NEW n, n = pc, DemoFacts(n)
    PROVE  /\ (IF Now.way = "route" THEN RouteAnswer(Demo, Now) ELSE FactoryAnswer(Demo, Now))
                  \in Now.expect
           /\ Now.way = "factory" => AsExpected(Demo, Now)
           /\ DemoFacts(n + 1)'
<1> DEFINE i == Program[n]
           y == n - DemoBegin
           k == KeyOf(Demo, i)
           b == <<Demo, "http", BootstrapId>>
           bm == <<Demo, "message", BootstrapId>>
           route == RouteAnswer(Demo, i)
           factory == FactoryAnswer(Demo, i)
<1>1. /\ n \in DOMAIN Program /\ n \in Nat /\ Now = i /\ i \in Instructions
      /\ i.places = << Demo >> /\ n = DemoBegin + y /\ DemoBegin \in Nat /\ n > 0
  <2>1. n \in DOMAIN Program /\ Now = i /\ i.places = << Demo >>
    BY DEF Asking, Running, Now
  <2> QED
    BY <2>1, Begins, ProgramTyped
<1>2. y \in 1..11
  BY <1>1, DemoPlaces
<1>3. StoresTyped /\ Demo \in Places /\ Does(Demo, i)
  BY <1>1, DemoKeys DEF TypeInv, TypeOK, StoresTyped
<1>4. b \in Keys /\ bm \in Keys /\ b # bm /\ b = Http(Demo, BootstrapId)
      /\ k \in Keys /\ k = <<Demo, IF i.way = "route" /\ i.operation = "delete" THEN "http"
                                     ELSE i.store, i.client>>
  BY <1>1, <1>3, DemoKeys, KeysTyped DEF KeyOf, Http
<1>5. \A j \in Keys : IF j = k /\ Acts(Demo, i) THEN record'[j] = NewRecord(j, i)
                      ELSE record'[j] = record[j]
  BY <1>3, PlaceEffect
<1> DEFINE empty == \A client \in ClientIds : record[<<Demo, "http", client>>] = NoRecord
           empty1 == \A client \in ClientIds : record'[<<Demo, "http", client>>] = NoRecord
           stored == /\ record[b] # NoRecord /\ record[b].hash = "demo-secret"
                     /\ record[b].purpose = "propagation-only"
           stored1 == /\ record'[b] # NoRecord /\ record'[b].hash = "demo-secret"
                      /\ record'[b].purpose = "propagation-only"
           useless == ~(record[bm] # NoRecord /\ record[bm].purpose # "propagation-only")
           useless1 == ~(record'[bm] # NoRecord /\ record'[bm].purpose # "propagation-only")
<1>6. /\ y <= 6 => empty
      /\ y > 6 => stored
      /\ y > 7 => useless
  <2>1. (y <= 6 <=> n <= DemoBegin + 6) /\ (y > 6 <=> n > DemoBegin + 6)
        /\ (y > 7 <=> n > DemoBegin + 7)
    BY <1>1
  <2>2. Listed(Demo) = {} => empty
    BY DEF Listed, Stored
  <2> QED
    BY <1>1, <1>4, <2>1, <2>2 DEF DemoFacts, MessageUsable, Stored
<1>7. /\ y + 1 <= 6 => empty1
      /\ y + 1 > 6 => stored1
      /\ y + 1 > 7 => useless1
      => DemoFacts(n + 1)'
  <2>1. (y + 1 <= 6 <=> n + 1 <= DemoBegin + 6) /\ (y + 1 > 6 <=> n + 1 > DemoBegin + 6)
        /\ (y + 1 > 7 <=> n + 1 > DemoBegin + 7)
    BY <1>1
  <2>2. empty1 => Listed(Demo)' = {}
    BY DEF Listed, Stored
  <2>3. useless1 => ~MessageUsable(Demo, BootstrapId)'
    BY DEF MessageUsable, Stored
  <2>4. stored1 => LET own == Http(Demo, BootstrapId)
                   IN  /\ record'[own] # NoRecord /\ record'[own].hash = "demo-secret"
                       /\ record'[own].purpose = "propagation-only"
    BY <1>4
  <2> HIDE DEF y, empty1, stored1, useless1
  <2> QED
    BY <2>1, <2>2, <2>3, <2>4 DEF DemoFacts, Http
<1>8. /\ route = IF i.operation = "verify"
                  THEN IF /\ MessageUsable(Source, i.client) /\ MessageUsable(Demo, i.client)
                          /\ SameHash(Demo, i.client) THEN "accepted" ELSE "refused"
                  ELSE IF ~Admitted(Demo, i) THEN "refused"
                  ELSE IF i.operation = "create" /\ record[k] # NoRecord THEN "exists"
                  ELSE IF i.operation \in {"update", "delete"} /\ record[k] = NoRecord
                       THEN "missing"
                  ELSE IF i.operation = "revert" /\ Reverts(k) THEN "reverted"
                  ELSE "accepted"
      /\ i.operation = "sign" =>
            factory = IF MessageUsable(Demo, i.client) THEN "accepted" ELSE "refused"
  BY DEF RouteAnswer, FactoryAnswer
<1>9. /\ empty => /\ Listed(Demo) = {}
                  /\ i.operation # "fetch" =>
                        (Admitted(Demo, i) <=>
                           i.operation = "health"
                                         \/ (i.operation = "create" /\ i.client = BootstrapId))
      /\ stored => /\ BootstrapId \in Listed(Demo)
                   /\ i.by = BootstrapId /\ i.secret = "demo-secret" =>
                         (Admitted(Demo, i) <=> i.operation # "fetch")
      /\ useless => ~MessageUsable(Demo, BootstrapId)
  <2>1. empty => Listed(Demo) = {}
    BY DEF Listed, Stored
  <2>2. stored => BootstrapId \in Listed(Demo)
    BY DemoKeys DEF Listed, Stored
  <2>3. useless => ~MessageUsable(Demo, BootstrapId)
    BY DEF MessageUsable, Stored
  <2> QED
    BY <2>1, <2>2, <2>3 DEF Admitted, Verified
<1>10. factory \in Answers /\ (i.is = <<>> => AsExpected(Demo, i))
  <2>1. <<>> # NoRecord
    BY GreenAssumption
  <2> QED
    BY <2>1, AnswersTyped DEF AsExpected
<1>11. BootstrapId # SourceOnlyId /\ BootstrapId \in ClientIds
  BY ClientsDiffer, DemoKeys
<1>12. \A v, w, x, z : x # z => <<v, w, x>> # <<v, w, z>>
  OBVIOUS
<1> DEFINE goal ==
               /\ (IF i.way = "route" THEN route ELSE factory) \in i.expect
               /\ i.way = "factory" => AsExpected(Demo, i)
               /\ y + 1 <= 6 => empty1
               /\ y + 1 > 6 => stored1
               /\ y + 1 > 7 => useless1
<1> SUFFICES goal
  BY <1>1, <1>7
<1>13. CASE y = 1
  <2>1. /\ i.way = "route" /\ i.by = BootstrapId /\ i.secret = NoHash
        /\ i.operation = "health" /\ i.store = "http" /\ i.client = BootstrapId
        /\ i.write = NoWrite /\ i.expect = {"accepted"} /\ i.is = <<>>
    BY <1>1, <1>13, DemoShows, ZenonT(40) DEF Shows
  <2>2. empty
    BY <1>6, <1>13
  <2>3. route = "accepted"
    BY <1>4, <1>8, <1>9, <1>11, <2>1, <2>2
  <2>4. NewRecord(k, i) = record[k]
    BY <2>1, NewRecordOf, ZenonT(40)
  <2>5. \A j \in Keys : record'[j] = record[j]
    BY <1>5, <2>4
  <2>6. empty1
    BY <2>2, <2>5, DemoKeys
  <2> QED
    BY <1>13, <2>1, <2>3, <2>6
<1>14. CASE y = 2
  <2>1. /\ i.way = "route" /\ i.by = BootstrapId /\ i.secret = NoHash
        /\ i.operation = "create" /\ i.store = "http" /\ i.client = SourceOnlyId
        /\ i.write = Write("demo-secret", FALSE) /\ i.expect = {"refused"} /\ i.is = <<>>
    BY <1>1, <1>14, DemoShows, ZenonT(40) DEF Shows
  <2>2. empty
    BY <1>6, <1>14
  <2>3. route = "refused"
    BY <1>4, <1>8, <1>9, <1>11, <2>1, <2>2
  <2>5. \A j \in Keys : record'[j] = record[j]
    BY <1>5, <2>1, <2>3 DEF Acts, Refusals
  <2>6. empty1
    BY <2>2, <2>5, DemoKeys
  <2> QED
    BY <1>14, <2>1, <2>3, <2>6
<1>15. CASE y = 3
  <2>1. /\ i.way = "route" /\ i.by = BootstrapId /\ i.secret = NoHash
        /\ i.operation = "update" /\ i.store = "http" /\ i.client = BootstrapId
        /\ i.write = NoWrite /\ i.expect = {"refused"} /\ i.is = <<>>
    BY <1>1, <1>15, DemoShows, ZenonT(40) DEF Shows
  <2>2. empty
    BY <1>6, <1>15
  <2>3. route = "refused"
    BY <1>4, <1>8, <1>9, <1>11, <2>1, <2>2
  <2>5. \A j \in Keys : record'[j] = record[j]
    BY <1>5, <2>1, <2>3 DEF Acts, Refusals
  <2>6. empty1
    BY <2>2, <2>5, DemoKeys
  <2> QED
    BY <1>15, <2>1, <2>3, <2>6
<1>16. CASE y = 4
  <2>1. /\ i.way = "route" /\ i.by = BootstrapId /\ i.secret = NoHash
        /\ i.operation = "revert" /\ i.store = "http" /\ i.client = BootstrapId
        /\ i.write = NoWrite /\ i.expect = {"refused"} /\ i.is = <<>>
    BY <1>1, <1>16, DemoShows, ZenonT(40) DEF Shows
  <2>2. empty
    BY <1>6, <1>16
  <2>3. route = "refused"
    BY <1>4, <1>8, <1>9, <1>11, <2>1, <2>2
  <2>5. \A j \in Keys : record'[j] = record[j]
    BY <1>5, <2>1, <2>3 DEF Acts, Refusals
  <2>6. empty1
    BY <2>2, <2>5, DemoKeys
  <2> QED
    BY <1>16, <2>1, <2>3, <2>6
<1>17. CASE y = 5
  <2>1. /\ i.way = "route" /\ i.by = BootstrapId /\ i.secret = NoHash
        /\ i.operation = "delete" /\ i.store = "http" /\ i.client = BootstrapId
        /\ i.write = NoWrite /\ i.expect = {"refused"} /\ i.is = <<>>
    BY <1>1, <1>17, DemoShows, ZenonT(40) DEF Shows
  <2>2. empty
    BY <1>6, <1>17
  <2>3. route = "refused"
    BY <1>4, <1>8, <1>9, <1>11, <2>1, <2>2
  <2>5. \A j \in Keys : record'[j] = record[j]
    BY <1>5, <2>1, <2>3 DEF Acts, Refusals
  <2>6. empty1
    BY <2>2, <2>5, DemoKeys
  <2> QED
    BY <1>17, <2>1, <2>3, <2>6
<1>18. CASE y = 6
  <2>1. /\ i.way = "route" /\ i.by = BootstrapId /\ i.secret = NoHash
        /\ i.operation = "create" /\ i.store = "http" /\ i.client = BootstrapId
        /\ i.write = Restricted /\ i.expect = {"accepted"} /\ i.is = <<>>
    BY <1>1, <1>18, DemoShows, ZenonT(40) DEF Shows
  <2>2. empty /\ record[b] = NoRecord /\ k = b
    BY <1>4, <1>6, <1>11, <1>18, <2>1
  <2>3. route = "accepted"
    BY <1>8, <1>9, <2>1, <2>2
  <2>4. NewRecord(k, i) = Rotated(record[k], i.write)
    BY <2>1, NewRecordOf, ZenonT(40)
  <2>5. NewRecord(k, i) = Created(Restricted)
    BY <2>1, <2>2, <2>4 DEF Rotated
  <2>6. stored1
    BY <1>4, <1>5, <2>1, <2>2, <2>3, <2>5, RestrictedCreated DEF Acts, Refusals
  <2> QED
    BY <1>18, <2>1, <2>3, <2>6
<1>19. CASE y = 7
  <2>1. /\ i.way = "factory" /\ i.by = BootstrapId /\ i.secret = "demo-secret"
        /\ i.operation = "create" /\ i.store = "message" /\ i.client = BootstrapId
        /\ i.write = Restricted /\ i.expect = Answers /\ i.is = <<>>
    BY <1>1, <1>19, DemoShows, ZenonT(40) DEF Shows
  <2>2. stored /\ k = bm
    BY <1>4, <1>6, <1>19, <2>1
  <2>3. i.operation = "create" /\ i.way # "route" /\ i.write = Restricted
    BY <2>1
  <2>4. NewRecord(k, i) = Created(Restricted)
    <3> HIDE DEF i, k
    <3> QED
      BY <2>3, NewRecordOf
  <2>5. record'[bm] = Created(Restricted) /\ record'[b] = record[b]
    BY <1>4, <1>5, <2>1, <2>2, <2>4 DEF Acts
  <2>6. stored1 /\ useless1
    BY <2>2, <2>5, RestrictedCreated
  <2> QED
    BY <1>10, <1>19, <2>1, <2>6
<1>20. CASE y = 8
  <2>1. /\ i.way = "route" /\ i.by = BootstrapId /\ i.secret = "demo-secret"
        /\ i.operation = "health" /\ i.store = "http" /\ i.client = BootstrapId
        /\ i.write = NoWrite /\ i.expect = {"accepted"} /\ i.is = <<>>
    BY <1>1, <1>20, DemoShows, ZenonT(40) DEF Shows
  <2>2. stored /\ useless
    BY <1>6, <1>20
  <2>3. route = "accepted"
    BY <1>8, <1>9, <2>1, <2>2
  <2>4. NewRecord(k, i) = record[k]
    BY <2>1, NewRecordOf, ZenonT(40)
  <2>5. record'[b] = record[b] /\ record'[bm] = record[bm]
    BY <1>4, <1>5, <2>4
  <2>6. stored1 /\ useless1
    BY <2>2, <2>5
  <2> QED
    BY <1>20, <2>1, <2>3, <2>6
<1>21. CASE y = 9
  <2>1. /\ i.way = "route" /\ i.by = BootstrapId /\ i.secret = "demo-secret"
        /\ i.operation = "fetch" /\ i.store = "http" /\ i.client = BootstrapId
        /\ i.write = NoWrite /\ i.expect = {"refused"} /\ i.is = <<>>
    BY <1>1, <1>21, DemoShows, ZenonT(40) DEF Shows
  <2>2. stored /\ useless
    BY <1>6, <1>21
  <2>3. route = "refused"
    BY <1>8, <1>9, <2>1, <2>2
  <2>4. NewRecord(k, i) = record[k]
    BY <2>1, NewRecordOf, ZenonT(40)
  <2>5. record'[b] = record[b] /\ record'[bm] = record[bm]
    BY <1>4, <1>5, <2>4
  <2>6. stored1 /\ useless1
    BY <2>2, <2>5
  <2> QED
    BY <1>21, <2>1, <2>3, <2>6
<1>22. CASE y = 10
  <2>1. /\ i.way = "route" /\ i.by = BootstrapId /\ i.secret = "demo-secret"
        /\ i.operation = "health" /\ i.store = "http" /\ i.client = BootstrapId
        /\ i.write = NoWrite /\ i.expect = {"accepted"} /\ i.is = <<>>
    BY <1>1, <1>22, DemoShows, ZenonT(40) DEF Shows
  <2>2. stored /\ useless
    BY <1>6, <1>22
  <2>3. route = "accepted"
    BY <1>8, <1>9, <2>1, <2>2
  <2>4. NewRecord(k, i) = record[k]
    BY <2>1, NewRecordOf, ZenonT(40)
  <2>5. record'[b] = record[b] /\ record'[bm] = record[bm]
    BY <1>4, <1>5, <2>4
  <2>6. stored1 /\ useless1
    BY <2>2, <2>5
  <2> QED
    BY <1>22, <2>1, <2>3, <2>6
<1>23. CASE y = 11
  <2>1. /\ i.way = "factory" /\ i.by = BootstrapId /\ i.secret = "demo-secret"
        /\ i.operation = "sign" /\ i.store = "message" /\ i.client = BootstrapId
        /\ i.write = NoWrite /\ i.expect = {"refused"} /\ i.is = <<>>
    BY <1>1, <1>23, DemoShows, ZenonT(40) DEF Shows
  <2>2. stored /\ useless
    BY <1>6, <1>23
  <2>3. factory = "refused"
    BY <1>8, <1>9, <2>1, <2>2
  <2>4. NewRecord(k, i) = record[k]
    BY <2>1, NewRecordOf, ZenonT(40)
  <2>5. record'[b] = record[b] /\ record'[bm] = record[bm]
    BY <1>4, <1>5, <2>4
  <2>6. stored1 /\ useless1
    BY <2>2, <2>5
  <2> QED
    BY <1>10, <1>23, <2>1, <2>3, <2>6
<1>24. y \in {1, 2, 3, 4, 5, 6, 7, 8, 9, 10, 11}
  BY <1>2
<1> QED
  BY <1>13, <1>14, <1>15, <1>16, <1>17, <1>18, <1>19, <1>20, <1>21, <1>22, <1>23, <1>24
-----------------------------------------------------------------------------
(* What place p stores when instruction n is the next one for it.            *)
Facts(p, n) ==
    /\ p \in Targets => TargetFacts(p, n - SuiteBegin)
    /\ p = Source => SourceFacts(n - SuiteBegin) /\ R3New(n) /\ SourceMessages(n)
    /\ p = Demo => DemoFacts(n)

(* The answer of place p, as Answered has it.                               *)
Answer(p, i) == IF i.way = "route" THEN RouteAnswer(p, i) ELSE FactoryAnswer(p, i)

(* Whatever place is asked answers as it is expected to.                    *)
LEMMA Serves ==
    ASSUME RowsInv, Lasts, Own, calm, ~expired, Asking, NEW p, Place = p, Does(p, Now),
           NEW n, n = pc, Facts(p, n), p \in Targets => SourceMessages(n)
    PROVE  /\ Answer(p, Now) \in Now.expect
           /\ Now.way = "factory" => AsExpected(p, Now)
           /\ Facts(p, n + 1)'
<1>1. TypeInv /\ results \in Seq(Answers) /\ Does(Place, Now)
  BY DEF RowsInv, HeldInv, TypeInv, TypeOK
<1>2. /\ Now \in Instructions /\ p \in Places
      /\ Now.places = TargetList => p \in Targets
      /\ Now.places # TargetList => p = Now.places[1] /\ p \notin Targets
  BY <1>1, AskedPlace
<1>3. /\ Source \notin Targets /\ Demo \notin Targets /\ Source # Demo
      /\ Now.places \in {TargetList, << Source >>, << Demo >>}
  BY <1>2, SourceAssumption DEF Instructions, Orders, PlaceLists
<1>4. CASE Now.places = TargetList
  <2>1. TargetAsked /\ p \in Targets
    BY <1>1, <1>2, <1>4 DEF TargetAsked
  <2>2. Now.way = "route"
    BY <2>1 DEF TargetAsked, Instructions, LocalFactory, Orders
  <2>3. RouteAnswer(p, Now) \in Now.expect /\ TargetFacts(p, (n + 1) - SuiteBegin)'
    BY <2>1, TargetServes DEF Facts
  <2>4. Facts(p, n + 1)'
    BY <1>3, <2>1, <2>3 DEF Facts
  <2> QED
    BY <2>2, <2>3, <2>4 DEF Answer
<1>5. CASE Now.places = << Source >> /\ Now.places # TargetList
  <2>1. p = Source
    BY <1>2, <1>5
  <2>2. /\ FactoryAnswer(Source, Now) \in Now.expect /\ AsExpected(Source, Now)
        /\ SourceFacts((n + 1) - SuiteBegin)' /\ R3New(n + 1)' /\ SourceMessages(n + 1)'
        /\ Now.way = "factory"
    BY <1>1, <1>5, <2>1, SourceServes DEF Facts
  <2>3. Facts(p, n + 1)'
    BY <1>3, <2>1, <2>2 DEF Facts
  <2> QED
    BY <2>1, <2>2, <2>3 DEF Answer
<1>6. CASE Now.places = << Demo >> /\ Now.places # TargetList
  <2>1. p = Demo
    BY <1>2, <1>6
  <2>2. /\ Answer(Demo, Now) \in Now.expect
        /\ Now.way = "factory" => AsExpected(Demo, Now)
        /\ DemoFacts(n + 1)'
    BY <1>1, <1>6, <2>1, DemoServes DEF Facts, Answer
  <2>3. Facts(p, n + 1)'
    BY <1>3, <2>1, <2>2 DEF Facts
  <2> QED
    BY <2>1, <2>2, <2>3
<1> QED
  BY <1>3, <1>4, <1>5, <1>6
-----------------------------------------------------------------------------
(* A place that an instruction passes by is ready for the next one.          *)
LEMMA PassedBy ==
    ASSUME NEW p, NEW n \in DOMAIN Program, Facts(p, n),
           \A j \in 1..Len(Program[n].places) : Program[n].places[j] # p
    PROVE  Facts(p, n + 1)
<1> DEFINE i == Program[n]
           x == n - SuiteBegin
<1>1. /\ n \in Nat /\ n > 0 /\ n = SuiteBegin + x /\ SuiteBegin \in Nat
      /\ DemoBegin \in Nat /\ n <= DemoBegin + 11 /\ (n + 1) - SuiteBegin = x + 1
      /\ x \in Int
  <2>1. n \in 1..Len(Program)
    BY ProgramTyped
  <2>2. /\ n \in Nat /\ n = SuiteBegin + x /\ SuiteBegin \in Nat
        /\ DemoBegin \in Nat /\ Len(Program) = DemoBegin + 11
    BY Begins
  <2>3. \A a, b \in Nat : (a + 1) - b = (a - b) + 1 /\ a - b \in Int
    OBVIOUS
  <2> QED
    BY <2>1, <2>2, <2>3
<1>2. /\ p \in Targets => i.places # TargetList
      /\ i.places # << p >>
  <2>1. p \in Targets => \E j \in 1..Len(TargetList) : TargetList[j] = p
    BY SourceAssumption DEF Targets, ToSet
  <2>2. Len(<< p >>) = 1 /\ << p >>[1] = p
    OBVIOUS
  <2> QED
    BY <2>1, <2>2
<1>3. /\ x \in 1..3 \cup 8..21 => i.places = TargetList
      /\ x \in 4..7 \cup 22..33 => i.places = << Source >>
  BY SuiteClients
<1>4. p \in Targets => TargetFacts(p, x + 1)
  <2> SUFFICES ASSUME p \in Targets PROVE TargetFacts(p, x + 1)
    OBVIOUS
  <2>1. ~(x \in 8..21)
    BY <1>2, <1>3
  <2>2. ~(x + 1 \in 9..19)
    <3>1. \A c \in Int : ~(c \in 8..21) => ~(c + 1 \in 9..19)
      OBVIOUS
    <3> QED
      BY <1>1, <2>1, <3>1
  <2> HIDE DEF x
  <2> QED
    BY <2>2 DEF TargetFacts
<1>5. p = Source => SourceFacts(x + 1)
  <2> SUFFICES ASSUME p = Source PROVE SourceFacts(x + 1)
    OBVIOUS
  <2>1. ~(x \in 4..7 \cup 22..33)
    BY <1>2, <1>3
  <2>2. x + 1 \notin {5, 6, 7, 23, 25, 33} /\ x + 1 \notin 31..32 /\ x + 1 \notin 31..33
    <3>1. \A c \in Int : c \notin 4..7 \cup 22..33 =>
              c + 1 \notin {5, 6, 7, 23, 25, 33} /\ c + 1 \notin 31..32 /\ c + 1 \notin 31..33
      OBVIOUS
    <3> QED
      BY <1>1, <2>1, <3>1
  <2> HIDE DEF x
  <2> QED
    BY <2>2 DEF SourceFacts
<1>6. p = Source => R3New(n + 1)
  <2> SUFFICES ASSUME p = Source, n + 1 \in 1..(SuiteBegin + 4)
               PROVE  record[Http(Source, "r3")] = NoRecord
    BY DEF R3New
  <2>1. n \in 1..(SuiteBegin + 4)
    BY <1>1
  <2> QED
    BY <2>1 DEF R3New, Facts
<1>7. p = Source => SourceMessages(n + 1)
  <2> SUFFICES ASSUME p = Source, NEW m \in 1..Len(MessageCredentials), n + 1 > m
               PROVE  Stored(Source, "message", MessageCredentials[m].client)
    BY DEF SourceMessages
  <2>1. n # m
    <3>1. m \in 1..Len(LocalCredentials) /\ Ensures(Program[m])
      BY EnsuresAt
    <3> QED
      BY <1>2, <3>1 DEF Ensures
  <2>2. n > m
    BY <1>1, <2>1
  <2> QED
    BY <2>2 DEF SourceMessages, Facts
<1>8. p = Demo => DemoFacts(n + 1)
  <2> SUFFICES ASSUME p = Demo PROVE DemoFacts(n + 1)
    OBVIOUS
  <2>1. ~(n - DemoBegin \in 1..11)
    <3>1. n - DemoBegin \in 1..11 => i.places = << Demo >>
      BY <1>1, PlacesOfDemo
    <3> QED
      BY <1>2, <3>1
  <2>2. n <= DemoBegin
    <3>1. \A a, b \in Nat : a <= b + 11 /\ ~(a - b \in 1..11) => a <= b
      OBVIOUS
    <3> QED
      BY <1>1, <2>1, <3>1
  <2>3. n <= DemoBegin + 6 /\ n + 1 <= DemoBegin + 6 /\ ~(n + 1 > DemoBegin + 6)
        /\ ~(n + 1 > DemoBegin + 7)
    BY <1>1, <2>2
  <2>4. Listed(Demo) = {}
    BY <1>1, <2>3 DEF Facts, DemoFacts
  <2> QED
    BY <2>3, <2>4 DEF DemoFacts
<1> QED
  BY <1>1, <1>4, <1>5, <1>6, <1>7, <1>8 DEF Facts

(* What a place stores stays so as long as nothing is done there.            *)
LEMMA FactsStay ==
    ASSUME NEW p \in Places, NEW n, Facts(p, n),
           \A k \in Keys : k[1] = p => record'[k] = record[k] /\ undo'[k] = undo[k]
    PROVE  Facts(p, n)'
<1>0. \A store \in Stores, client \in ClientIds :
          /\ record'[<<p, store, client>>] = record[<<p, store, client>>]
          /\ undo'[<<p, store, client>>] = undo[<<p, store, client>>]
  BY DEF Keys
<1>1. SuiteIds \subseteq ClientIds /\ BootstrapId \in ClientIds /\ Stores = {"http", "message"}
  BY SourceAssumption DEF Stores
<1>2. p \in Targets => TargetFacts(p, n - SuiteBegin)'
  <2> DEFINE x == n - SuiteBegin
  <2>1. /\ record'[<<p, "message", "r4">>] = record[<<p, "message", "r4">>]
        /\ record'[<<p, "http", "r5">>] = record[<<p, "http", "r5">>]
        /\ undo'[<<p, "http", "r5">>] = undo[<<p, "http", "r5">>]
        /\ record'[<<p, "http", "c">>] = record[<<p, "http", "c">>]
    BY <1>0, <1>1 DEF SuiteIds
  <2>2. p \in Targets => TargetFacts(p, x)
    BY DEF Facts
  <2> HIDE DEF x
  <2>3. p \in Targets => TargetFacts(p, x)'
    BY <2>1, <2>2 DEF TargetFacts, Http
  <2> QED
    BY <2>3 DEF x
<1>3. p = Source => SourceFacts(n - SuiteBegin)' /\ R3New(n)' /\ SourceMessages(n)'
  <2> SUFFICES ASSUME p = Source
               PROVE  SourceFacts(n - SuiteBegin)' /\ R3New(n)' /\ SourceMessages(n)'
    OBVIOUS
  <2> DEFINE x == n - SuiteBegin
  <2>1. /\ record'[<<Source, "http", "r3">>] = record[<<Source, "http", "r3">>]
        /\ undo'[<<Source, "http", "r3">>] = undo[<<Source, "http", "r3">>]
        /\ record'[<<Source, "http", "m">>] = record[<<Source, "http", "m">>]
        /\ record'[<<Source, "message", "m">>] = record[<<Source, "message", "m">>]
        /\ record'[<<Source, "http", "f">>] = record[<<Source, "http", "f">>]
        /\ undo'[<<Source, "http", "f">>] = undo[<<Source, "http", "f">>]
    BY <1>0, <1>1 DEF SuiteIds
  <2>2. SourceFacts(x) /\ R3New(n) /\ SourceMessages(n)
    BY DEF Facts
  <2>3. \A m \in 1..Len(MessageCredentials) : MessageCredentials[m].client \in ClientIds
    <3>1. MessageCredentials \in Seq(Credentials)
      BY ListMembers
    <3>2. \A m \in 1..Len(MessageCredentials) : MessageCredentials[m] \in Credentials
      BY <3>1
    <3> QED
      BY <3>2 DEF Credentials
  <2>4. SourceMessages(n)'
    BY <1>0, <1>1, <2>2, <2>3 DEF SourceMessages, Stored
  <2>5. R3New(n)'
    BY <2>1, <2>2 DEF R3New, Http
  <2> HIDE DEF x
  <2>6. SourceFacts(x)'
    BY <2>1, <2>2 DEF SourceFacts, Http
  <2> QED
    BY <2>4, <2>5, <2>6 DEF x
<1>4. p = Demo => DemoFacts(n)'
  <2> SUFFICES ASSUME p = Demo PROVE DemoFacts(n)'
    OBVIOUS
  <2>1. /\ record'[<<Demo, "http", BootstrapId>>] = record[<<Demo, "http", BootstrapId>>]
        /\ record'[<<Demo, "message", BootstrapId>>] = record[<<Demo, "message", BootstrapId>>]
        /\ \A client \in ClientIds :
              record'[<<Demo, "http", client>>] = record[<<Demo, "http", client>>]
    BY <1>0, <1>1
  <2>2. Listed(Demo)' = Listed(Demo)
    BY <2>1 DEF Listed, Stored
  <2>3. ~MessageUsable(Demo, BootstrapId) => ~MessageUsable(Demo, BootstrapId)'
    BY <2>1 DEF MessageUsable, Stored
  <2>4. DemoFacts(n)
    BY DEF Facts
  <2> QED
    BY <2>1, <2>2, <2>3, <2>4 DEF DemoFacts, Http
<1> QED
  BY <1>2, <1>3, <1>4 DEF Facts
-----------------------------------------------------------------------------
(* Place p has answered this instruction, and which is the next one for it.  *)
HasAnswered(p) == \E j \in 1..Len(results) : Now.places[j] = p

Turn(p) == IF Running /\ HasAnswered(p) THEN pc + 1 ELSE pc

(* A run that nothing disturbs has had the answers it expects, and every     *)
(* place stores what its next instruction needs.                            *)
Green ==
    calm /\ ~expired /\ Own =>
        /\ failed = {}
        /\ \A j \in 1..Len(results) : results[j] \in Now.expect
        /\ \A p \in Places : Facts(p, Turn(p))

(* At the beginning of a run nothing is needed but what a run starts with.   *)
LEMMA FactsAtFirst ==
    ASSUME NEW p \in Places, NEW n \in {0, 1},
           n = 1 => \A k \in Keys : Fresh(k) => record[k] = NoRecord
    PROVE  Facts(p, n)
<1>1. SuiteBegin \in Nat /\ DemoBegin \in Nat
  BY Begins
<1>2. ~(n - SuiteBegin \in 5..33)
  BY <1>1
<1>3. TargetFacts(p, n - SuiteBegin)
  <2> DEFINE x == n - SuiteBegin
  <2>1. ~(x \in 5..33)
    BY <1>2
  <2> HIDE DEF x
  <2>2. TargetFacts(p, x)
    BY <2>1 DEF TargetFacts
  <2> QED
    BY <2>2 DEF x
<1>4. SourceFacts(n - SuiteBegin)
  <2> DEFINE x == n - SuiteBegin
  <2>1. ~(x \in 5..33)
    BY <1>2
  <2> HIDE DEF x
  <2>2. SourceFacts(x)
    BY <2>1 DEF SourceFacts
  <2> QED
    BY <2>2 DEF x
<1>5. R3New(n)
  <2>1. Http(Source, "r3") \in Keys /\ Fresh(Http(Source, "r3"))
    BY SourceAssumption DEF Http, Keys, Places, Stores, SuiteIds, Fresh
  <2>2. n = 0 => ~(n \in 1..(SuiteBegin + 4))
    BY <1>1
  <2> QED
    BY <2>1, <2>2 DEF R3New
<1>6. SourceMessages(n)
  BY DEF SourceMessages
<1>7. DemoFacts(n)
  <2>1. ~(n > DemoBegin + 6) /\ ~(n > DemoBegin + 7)
    BY <1>1
  <2>2. n = 1 => Listed(Demo) = {}
    <3>1. \A client \in ClientIds : <<Demo, "http", client>> \in Keys
          /\ Fresh(<<Demo, "http", client>>)
      BY DemoKeys DEF Fresh
    <3> QED
      BY <3>1 DEF Listed, Stored
  <2>3. n > 0 => n = 1
    OBVIOUS
  <2> QED
    BY <2>1, <2>2, <2>3 DEF DemoFacts
<1> QED
  BY <1>3, <1>4, <1>5, <1>6, <1>7 DEF Facts

(* This is so in every state, the next one included.                        *)
ReadyAtFirst ==
    \A p \in Places :
        /\ Facts(p, 0)
        /\ (\A k \in Keys : Fresh(k) => record[k] = NoRecord) => Facts(p, 1)

(* Now ...                                                                  *)
LEMMA ReadyNow == ReadyAtFirst
BY FactsAtFirst DEF ReadyAtFirst

(* ... and then.                                                            *)
LEMMA ReadyThen == ReadyAtFirst'
BY ReadyNow, PTL

(* The place that is asked has not answered yet, and is not asked twice.     *)
LEMMA AskedOnce ==
    ASSUME TypeInv, Asking
    PROVE  /\ ~HasAnswered(Place)
           /\ Place \in Targets => ~HasAnswered(Source)
<1>1. results \in Seq(Answers)
  BY DEF TypeInv, TypeOK
<1>2. /\ Now \in Instructions /\ Place \in Places
      /\ Len(results) + 1 \in 1..Len(Now.places)
      /\ Now.places = TargetList => Place \in Targets
      /\ Now.places # TargetList => results = <<>> /\ Place = Now.places[1]
         /\ Place \notin Targets
  BY <1>1, AskedPlace
<1>3. CASE Now.places = TargetList
  <2>1. /\ TargetList \in Seq(Targets) /\ IsInjective(TargetList) /\ Source \notin Targets
        /\ DOMAIN TargetList = 1..Len(TargetList)
    BY SourceAssumption, GreenAssumption
  <2>2. Place = TargetList[Len(results) + 1]
    BY <1>3 DEF Place
  <2>3. ASSUME NEW j \in 1..Len(results) PROVE TargetList[j] # Place /\ TargetList[j] # Source
    <3>1. j \in 1..Len(TargetList) /\ j # Len(results) + 1
          /\ Len(results) + 1 \in 1..Len(TargetList)
      BY <1>1, <1>2, <1>3
    <3> QED
      BY <2>1, <2>2, <3>1 DEF IsInjective
  <2> QED
    BY <1>3, <2>3 DEF HasAnswered
<1>4. CASE Now.places # TargetList
  <2>1. Len(results) = 0
    BY <1>2, <1>4
  <2> QED
    BY <1>2, <1>4, <2>1 DEF HasAnswered
<1> QED
  BY <1>3, <1>4

(* A place answers.                                                         *)
LEMMA AnsweredGreen ==
    ASSUME RowsInv, Lasts, Green, PlansStay, Answered
    PROVE  Green'
<1> SUFFICES ASSUME calm', ~expired', Own'
             PROVE  /\ failed' = {}
                    /\ \A j \in 1..Len(results') : results'[j] \in Now'.expect
                    /\ \A p \in Places : Facts(p, Turn(p))'
  BY DEF Green
<1>1. /\ calm /\ ~expired /\ Own /\ Asking /\ Does(Place, Now) /\ TypeInv /\ StoresTyped
      /\ results \in Seq(Answers) /\ pc' = pc /\ Now' = Now /\ Running /\ Running'
  BY OwnBefore DEF Answered, RowsInv, HeldInv, TypeInv, TypeOK, StoresTyped, Asking, Running, Now
<1>2. /\ failed = {}
      /\ \A j \in 1..Len(results) : results[j] \in Now.expect
      /\ \A p \in Places : Facts(p, Turn(p))
  BY <1>1 DEF Green
<1>3. PICK asked \in Places : asked = Place
  BY <1>1, AskedPlace
<1>4. PICK n : n = pc
  OBVIOUS
<1>5. Does(asked, Now)
  BY <1>1, <1>3
<1>6. Facts(asked, n) /\ (asked \in Targets => SourceMessages(n))
  <2>1. Turn(asked) = n /\ (asked \in Targets => Turn(Source) = n)
    BY <1>1, <1>3, <1>4, AskedOnce DEF Turn
  <2>2. Source \in Places
    BY DEF Places
  <2> QED
    BY <1>2, <2>1, <2>2 DEF Facts
<1>7. /\ Answer(asked, Now) \in Now.expect
      /\ Now.way = "factory" => AsExpected(asked, Now)
      /\ Facts(asked, n + 1)'
  BY <1>1, <1>3, <1>4, <1>5, <1>6, Serves
<1>8. failed' = {} /\ results' = Append(results, Answer(asked, Now))
  BY <1>2, <1>3, <1>7 DEF Answered, Answer
<1>9. /\ Len(results') = Len(results) + 1 /\ Len(results) \in Nat
      /\ results'[Len(results) + 1] = Answer(asked, Now)
      /\ \A j \in 1..Len(results) : results'[j] = results[j]
  BY <1>1, <1>8
<1>10. \A j \in 1..Len(results') : j \in 1..Len(results) \/ j = Len(results) + 1
  BY <1>9
<1>11. \A j \in 1..Len(results') : results'[j] \in Now'.expect
  BY <1>1, <1>2, <1>7, <1>9, <1>10
<1>12. ASSUME NEW p \in Places PROVE Facts(p, Turn(p))'
  <2>1. CASE p = asked
    <3>1. Turn(p)' = n + 1
      <4>1. Len(results) + 1 \in 1..Len(results') /\ Now'.places[Len(results) + 1] = p
        BY <1>1, <1>3, <1>9, <2>1 DEF Place
      <4> QED
        BY <1>1, <1>4, <4>1 DEF Turn, HasAnswered
    <3> QED
      BY <1>7, <2>1, <3>1 DEF Facts
  <2>2. CASE p # asked
    <3>1. Turn(p)' = Turn(p)
      <4>1. Now.places[Len(results) + 1] # p
        BY <1>3, <2>2 DEF Place
      <4>2. HasAnswered(p)' <=> HasAnswered(p)
        BY <1>1, <1>9, <1>10, <4>1 DEF HasAnswered
      <4> QED
        BY <1>1, <4>2 DEF Turn
    <3>2. ASSUME NEW k \in Keys, k[1] = p PROVE record'[k] = record[k] /\ undo'[k] = undo[k]
      <4>1. k # KeyOf(asked, Now)
        BY <2>2, <3>2 DEF KeyOf
      <4> QED
        BY <1>1, <1>5, <4>1, PlaceEffect
    <3>3. PICK m : m = Turn(p)
      OBVIOUS
    <3>4. Facts(p, m)'
      BY <1>2, <3>2, <3>3, FactsStay
    <3> QED
      BY <3>1, <3>3, <3>4
  <2> QED
    BY <2>1, <2>2
<1> QED
  BY <1>8, <1>11, <1>12

(* The results are judged.                                                  *)
LEMMA SettleGreen ==
    ASSUME RowsInv, Green, PlansStay, Settle
    PROVE  Green'
<1> SUFFICES ASSUME calm', ~expired', Own'
             PROVE  /\ failed' = {}
                    /\ \A j \in 1..Len(results') : results'[j] \in Now'.expect
                    /\ \A p \in Places : Facts(p, Turn(p))'
  BY DEF Green
<1>1. /\ calm /\ ~expired /\ Own /\ Running /\ ~Asking /\ results \in Seq(Answers)
      /\ results' = <<>> /\ UNCHANGED <<record, undo>>
  BY OwnBefore DEF Settle, RowsInv, HeldInv, TypeInv, TypeOK
<1>2. /\ failed = {}
      /\ \A j \in 1..Len(results) : results[j] \in Now.expect
      /\ \A p \in Places : Facts(p, Turn(p))
  BY <1>1 DEF Green
<1>3. Applied(results, Now.expect)
  BY <1>1, <1>2 DEF Applied
<1>4. pc' = pc + 1 /\ failed' = {}
  BY <1>2, <1>3 DEF Settle
<1>5. Len(results') = 0 /\ \A p : ~HasAnswered(p)'
  BY <1>1 DEF HasAnswered
<1>6. pc \in DOMAIN Program /\ Now = Program[pc]
  BY <1>1 DEF Running, Now
<1>7. ASSUME NEW p \in Places PROVE Facts(p, Turn(p))'
  <2>1. PICK n \in DOMAIN Program : n = pc
    BY <1>6
  <2>2. Facts(p, n + 1)
    <3>1. CASE HasAnswered(p)
      BY <1>1, <1>2, <2>1, <3>1 DEF Turn
    <3>2. CASE ~HasAnswered(p)
      <4>1. Facts(p, n)
        BY <1>2, <2>1, <3>2 DEF Turn
      <4>2. ASSUME NEW j \in 1..Len(Program[n].places) PROVE Program[n].places[j] # p
        <5>1. /\ ~(Len(results) < Len(Now.places)) /\ Len(results) \in Nat
              /\ Len(Now.places) \in Nat
          <6>1. Now \in Instructions
            BY <1>6, ProgramTyped
          <6>2. Len(Now.places) \in Nat
            BY <6>1, OnePlace, SourceAssumption
          <6> QED
            BY <1>1, <6>2 DEF Asking
        <5>2. j \in 1..Len(results)
          BY <1>6, <2>1, <5>1
        <5> QED
          BY <1>6, <2>1, <3>2, <5>2 DEF HasAnswered
      <4> QED
        BY <4>1, <4>2, PassedBy
    <3> QED
      BY <3>1, <3>2
  <2>3. Facts(p, n + 1)'
    BY <1>1, <2>2, FactsStay
  <2>4. Turn(p)' = n + 1
    BY <1>4, <1>5, <2>1 DEF Turn
  <2> QED
    BY <2>3, <2>4
<1> QED
  BY <1>4, <1>5, <1>7

(* Green runs are all there are ...                                         *)
LEMMA InitGreen == Init => Green
<1> SUFFICES ASSUME Init PROVE Green
  OBVIOUS
<1>1. pc = 0 /\ results = <<>> /\ failed = {}
  BY DEF Init
<1>2. ~Running
  BY <1>1, ProgramTyped DEF Running
<1>3. \A p \in Places : Facts(p, 0)
  BY FactsAtFirst
<1>4. \A p : Turn(p) = 0
  BY <1>1, <1>2 DEF Turn
<1> QED
  BY <1>1, <1>3, <1>4 DEF Green

(* ... a run begins as one, ...                                             *)
LEMMA BeginGreen ==
    ASSUME TypeInv, PlansStay, Green, BeginRun \/ Stop
    PROVE  Green'
<1> SUFFICES ASSUME calm', ~expired', Own'
             PROVE  /\ failed' = {}
                    /\ \A j \in 1..Len(results') : results'[j] \in Now'.expect
                    /\ \A p \in Places : Facts(p, Turn(p))'
  BY DEF Green
<1>1. Own
  BY OwnBefore
<1>2. failed' = {} /\ results' = <<>>
  <2>1. CASE BeginRun
    <3>1. calm /\ ~expired /\ pc = 0 /\ failed' = failed /\ results' = results
      BY <2>1 DEF BeginRun
    <3> QED
      BY <1>1, <3>1 DEF Green, TypeInv, Prepared
  <2>2. CASE Stop
    BY <2>2 DEF Stop
  <2> QED
    BY <2>1, <2>2
<1>3. \A p : ~HasAnswered(p)'
  BY <1>2 DEF HasAnswered
<1>4. ASSUME NEW p \in Places PROVE Facts(p, Turn(p))'
  <2>1. CASE BeginRun
    <3>1. pc' = 1 /\ \A k \in Keys : Fresh(k) => record'[k] = NoRecord
      BY <2>1 DEF BeginRun
    <3>2. Facts(p, 1)'
      BY <3>1, ReadyThen DEF ReadyAtFirst
    <3> QED
      BY <1>3, <3>1, <3>2 DEF Turn
  <2>2. CASE Stop
    <3>1. pc' = 0
      BY <2>2 DEF Stop
    <3>2. Facts(p, 0)'
      BY ReadyThen DEF ReadyAtFirst
    <3> QED
      BY <1>3, <3>1, <3>2 DEF Turn
  <2> QED
    BY <2>1, <2>2
<1> QED
  BY <1>2, <1>4

(* ... and stays one until something disturbs it.                           *)
LEMMA NextGreen ==
    ASSUME RowsInv, Lasts, Green, [Next]_vars
    PROVE  Green'
<1>1. TypeInv /\ PlansStay
  BY NextLasts DEF RowsInv, HeldInv
<1>2. CASE Answered
  BY <1>1, <1>2, AnsweredGreen
<1>3. CASE Settle
  BY <1>1, <1>3, SettleGreen
<1>4. CASE BeginRun \/ Stop
  BY <1>1, <1>4, BeginGreen
<1>5. CASE Rejected \/ Expire
  BY <1>5 DEF Rejected, Expire, Green
<1>6. CASE UNCHANGED vars
  <2> SUFFICES ASSUME calm', ~expired', Own'
               PROVE  /\ failed' = {}
                      /\ \A j \in 1..Len(results') : results'[j] \in Now'.expect
                      /\ \A p \in Places : Facts(p, Turn(p))'
    BY DEF Green
  <2>1. UNCHANGED <<record, undo, pc, results, failed, calm, expired>>
    BY <1>6 DEF vars
  <2>2. Own
    BY <1>1, OwnBefore
  <2>3. Now' = Now /\ \A p : Turn(p)' = Turn(p)
    BY <2>1 DEF Now, Turn, Running, HasAnswered
  <2>4. /\ failed = {}
        /\ \A j \in 1..Len(results) : results[j] \in Now.expect
        /\ \A p \in Places : Facts(p, Turn(p))
    BY <2>1, <2>2 DEF Green
  <2>5. ASSUME NEW p \in Places PROVE Facts(p, Turn(p))'
    <3>1. PICK m : m = Turn(p)
      OBVIOUS
    <3>2. Facts(p, m)'
      BY <2>1, <2>4, <3>1, FactsStay
    <3> QED
      BY <2>3, <3>1, <3>2
  <2> QED
    BY <2>1, <2>3, <2>4, <2>5
<1> QED
  BY <1>2, <1>3, <1>4, <1>5, <1>6 DEF Next

(* The program can be started again: however the runs before it were           *)
(* disturbed, interrupted and stopped, a run that nothing disturbs has the   *)
(* answers that its assertions demand, from every place, as long as no       *)
(* backup has expired and no target had a planned client with a secret of    *)
(* its own.                                                                 *)
THEOREM GreenRuns == Spec => []CleanRunIsGreen
<1>1. Green => CleanRunIsGreen
  BY UntouchedIsOwn DEF Green, CleanRunIsGreen
<1>2. Init => RowsInv /\ Lasts /\ Green
  BY InitRows, InitLasts, InitGreen
<1>3. RowsInv /\ Lasts /\ Green /\ [Next]_vars => (RowsInv /\ Lasts /\ Green)'
  <2> SUFFICES ASSUME RowsInv, Lasts, Green, [Next]_vars
               PROVE  RowsInv' /\ Lasts' /\ Green'
    OBVIOUS
  <2>1. TypeInv
    BY DEF RowsInv, HeldInv
  <2> QED
    BY <2>1, NextRows, NextLasts, NextGreen
<1> QED
  BY <1>1, <1>2, <1>3, PTL DEF Spec
===============================================================================
