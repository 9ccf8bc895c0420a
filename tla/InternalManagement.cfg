\* The management route with requests side by side, and in turn.
SPECIFICATION Spec
CONSTANTS
  boot = boot
  c1 = c1
  h0 = h0
  h1 = h1
  h2 = h2
  r1 = r1
  r2 = r2
  Never = Never
  NoRecord = NoRecord
  Unset = Unset
  NoHash = NoHash
  NoClient = NoClient
  ClientIds = {boot, c1}
  BootstrapId = boot
  Hashes = {h0, h1}
  Instants <- NoInstant
  Addresses = {}
  Handlers = {r1, r2}
  Locals = {"local"}
  RequestSet <- AllRequests
  LocalOperations = {"delete"}
  LocalWrites <- OneLocalWrite
  Deployments <- BothDeployments
  CallersFail = TRUE
  InitialRecords <- EmptyOrHeld
INVARIANTS
  TypeOK
PROPERTIES
  OnlySignersShutOut
  UnsignedWritesOnlySeed
  LockHolds
  UnsignedWriteOnlyWhileEmpty
  ExistenceRespected
