\* One request with two rotations and one client object, for every set-up of
\* the server.  It ends when the request is answered and the bound is used up.
SPECIFICATION Spec
CONSTANTS
    Exchanges = {e1}
    ClientIds = {"mobile", "console"}
    Signers = {s1}
    Hashes = {h1, h2}
    NoHash = NoHash
    Contents <- MCContents
    Nothing = "nothing"
    Requests <- MCRequests
    Setups <- MCSetups
    MaxEdits = 2
INVARIANTS
    TypeOK
    RefusalHasCause
    ServedAsCalled
    ServedWasEntitled
    AnsweredOnce
SYMMETRY MCSymmetry
CHECK_DEADLOCK FALSE
