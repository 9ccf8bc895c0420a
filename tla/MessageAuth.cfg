\* Two APIs, two calls, one edit of their message stores.
SPECIFICATION Spec
CONSTANTS
  c1 = c1
  c2 = c2
  h1 = h1
  h2 = h2
  Never = Never
  NoRecord = NoRecord
  Unset = Unset
  NoSignature = NoSignature
  ForeignSignature = ForeignSignature
  Calls = {c1, c2}
  Apis = {"a", "b"}
  Hashes = {h1, h2}
  Instants <- OneInstant
  Addresses <- NoAddresses
  ClientIds <- FourIds
  BootstrapId <- Boot
  Contents = {"x", "y"}
  Orders = {"ab", "ba"}
  SortedOrder <- SortedAlike
  Messages <- MessagesInUse
  Requests <- RequestsInUse
  StoredRecords <- RecordsInUse
  InitialStores <- HeldOrUnopened
  MaxEdits = 1
  MaxTime = 1
SYMMETRY CallSymmetry
INVARIANTS
  TypeOK
  NothingServedUnopened
  SuccessIsEntitled
  VerifiedWasSigned
  RefusalHasCause
CHECK_DEADLOCK FALSE
