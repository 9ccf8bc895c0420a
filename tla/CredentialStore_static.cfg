\* A backup that outlives the seeded origin of its credential.
SPECIFICATION Spec
CONSTANTS
  p1 = p1
  p2 = p2
  p3 = p3
  k1 = k1
  h0 = h0
  h1 = h1
  h2 = h2
  a1 = a1
  Never = Never
  NoRecord = NoRecord
  Unset = Unset
  NoHash = NoHash
  Callers = {p1, p2}
  Keys = {k1}
  Hashes = {h0, h1, h2}
  Instants <- OneInstant
  Addresses = {a1}
  WriteSet <- MixedWrites
  Deployments <- BackupsLast
  CallersFail = FALSE
  InitialRecords <- StoredAtStart
PROPERTIES
  StaticIsNeverReverted
