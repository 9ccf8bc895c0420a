\* The default shape: maxSkewMs is a whole number of seconds, so the nonce's
\* TTL equals the skew; a signer whose clock runs one tick ahead.
SPECIFICATION Spec
CONSTANTS
  c1 = c1
  c2 = c2
  h1 = h1
  h2 = h2
  a1 = a1
  a2 = a2
  Never = Never
  NoRecord = NoRecord
  Unset = Unset
  NoAddress = NoAddress
  Calls = {c1, c2}
  Hashes = {h1}
  Instants <- NoInstants
  Addresses <- NoAddresses
  ClientIds <- OneClient
  BootstrapId <- ClientK
  Nonces <- OneNonce
  Paths = {"management", "api"}
  ManagementRoute = "management"
  Deliveries <- Repeatable
  StoredRecords <- ReplayRecords
  InitialRecords <- ReplayRecords
  Timestamps = {1}
  MaxEdits = 0
  MaxTime = 5
  MaxSkew = 3
  TicksPerSecond = 3
  Ahead = 1
  Lag = 0
SYMMETRY CallSymmetry
INVARIANTS
  AcceptedAtMostOnce
CHECK_DEADLOCK FALSE
