SPECIFICATION FairSpec
CONSTANTS
  t1 = t1
  a1 = a1
  byTicket = byTicket
  byAttempt = byAttempt
  NoAttempt = NoAttempt
  All = All
  Ticket = {t1}
  Attempt = {a1, a2}
  Writer = {w1, w2}
  Reader = {byTicket, byAttempt}
  Follows <- Filters
  Limit = 1
  MaxSeq = 4
INVARIANTS
  AttemptFeedComplete
PROPERTIES
  MovesInCommitOrder
  PagingLosesNothing
  FollowerCatchesUp
CHECK_DEADLOCK FALSE
