\* Two targets, the signer and one client, and a network that loses, and
\* delays, requests and replies.
SPECIFICATION Spec
CONSTANTS
  boot = boot
  c1 = c1
  t1 = t1
  t2 = t2
  h0 = h0
  h1 = h1
  h2 = h2
  Never = Never
  NoRecord = NoRecord
  Unset = Unset
  NoHash = NoHash
  NoRotation = NoRotation
  Targets = {t1, t2}
  TargetList <- TwoTargets
  ClientIds = {boot, c1}
  BootstrapId = boot
  SignedWith = h0
  Hashes = {h0, h1, h2}
  Instants <- NoInstant
  Addresses = {}
  LocalHashes = {h1, h2}
  FirstHashes = {h1}
  PushHashes = {h2}
  Operations = {"health", "delete"}
  InitialTargets <- AnyTarget
  MaxEdits = 2
INVARIANTS
  TypeOK
  RollbackRestores
PROPERTIES
  Converges
