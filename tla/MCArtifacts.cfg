SPECIFICATION Spec
CONSTANTS
  Call = {c1, c2}
  Attempt = {a1}
  AttemptOf <- OneAttempt
  Client = {k1}
  Deleter = {d1, d2}
  Blob = {b1, b2, b3}
  Store = "local"
  External = External
  Nobody = Nobody
  Other = Other
  NoRow = NoRow
  MaxProofs = 2
SYMMETRY Symmetry
INVARIANTS
  EvidenceIsKept
  NothingIsOrphaned
  EvidenceOfTheReporter
CHECK_DEADLOCK FALSE
