SPECIFICATION FairSpec
CONSTANTS
  t1 = t1
  t2 = t2
  c1 = c1
  c2 = c2
  NoTicket = NoTicket
  Ticket = {t1, t2}
  Attempt = {a1, a2}
  Claimer = {c1, c2}
  Worker = {w1}
  DependsOn <- ChainDependsOn
  RetryPolicy <- ShortRetryPolicy
  Suits <- ChainSuits
  Lease = {1}
  BatchLimit = 1
  MaxTime = 2
  MaxStops = 1
PROPERTIES
  KeepsBoard
  LapsedIsHandled
