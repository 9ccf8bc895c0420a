\* Two regions of one state space (see WithinBounds in MCHttpVerify): one call
\* with every edit of the credentials under it, and two deliveries, of one
\* client or of two, by signers one tick ahead and with one tick of lag.  The
\* nonce TTL exceeds the skew by both (two seconds of three ticks, skew 4).
SPECIFICATION Spec
CONSTANTS
  c1 = c1
  c2 = c2
  h1 = h1
  h2 = h2
  a1 = a1
  a2 = a2
  Never = Never
  NoRecord = NoRecord
  Unset = Unset
  NoAddress = NoAddress
  Calls = {c1, c2}
  Hashes = {h1, h2}
  Instants <- FirstInstants
  Addresses = {a1}
  ClientIds <- TwoClients
  BootstrapId <- ClientK
  Nonces <- OneNonce
  Paths = {"management", "api"}
  ManagementRoute = "management"
  Deliveries <- MixedDeliveries
  StoredRecords <- CredentialRecordsInUse
  InitialRecords <- StoredAtStart
  Timestamps = {1}
  MaxEdits = 1
  MaxTime = 6
  MaxSkew = 4
  TicksPerSecond = 3
  Ahead = 1
  Lag = 1
SYMMETRY CallSymmetry
CONSTRAINT WithinBounds
INVARIANTS
  TypeOK
  AcceptanceJustified
  AcceptedAtMostOnce
  MisuseBurnsNonce
  ReplayInv
  ReplayHasCause
CHECK_DEADLOCK FALSE
