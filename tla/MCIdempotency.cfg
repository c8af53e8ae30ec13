SPECIFICATION Spec
CONSTANTS
  c1 = c1
  c2 = c2
  c3 = c3
  c4 = c4
  k1 = k1
  r1 = r1
  r2 = r2
  NoKey = NoKey
  None = None
  Call = {c1, c2, c3, c4}
  Key = {k1}
  Request = {r1, r2}
  KeyOf <- MixedKeys
  RequestOf <- MixedRequests
  Ticket = {t1, t2}
  TTL = 1
  MaxTime = 2
SYMMETRY Symmetry
INVARIANTS
  OneAttemptPerKey
  AnswersOwnRequest
  LostAnswerRecoverable
CHECK_DEADLOCK FALSE
