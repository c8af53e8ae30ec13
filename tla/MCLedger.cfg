SPECIFICATION Spec
CONSTANTS
  t1 = t1
  t2 = t2
  c1 = c1
  c2 = c2
  NoTicket = NoTicket
  Ticket = {t1, t2}
  Attempt = {a1, a2, a3}
  Claimer = {c1, c2}
  Worker = {w1, w2}
  DependsOn <- ChainDependsOn
  RetryPolicy <- ChainRetryPolicy
  Suits <- ChainSuits
  Lease = {1}
  BatchLimit = 1
  MaxTime = 2
  MaxStops = 0
SYMMETRY Symmetry
INVARIANTS
  RunningIffInProgress
  StartedAfterDependencies
  RetryOverrunBounded
PROPERTIES
  TerminalIsFinal
  RenewedLeaseSurvives
