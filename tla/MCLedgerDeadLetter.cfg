SPECIFICATION Spec
CONSTANTS
  t1 = t1
  t2 = t2
  c1 = c1
  c2 = c2
  NoTicket = NoTicket
  Ticket = {t1}
  Attempt = {a1, a2}
  Claimer = {c1}
  Worker = {w1}
  DependsOn <- NoDependsOn
  RetryPolicy <- ShortRetryPolicy
  Suits <- AllSuits
  Lease = {1}
  BatchLimit = 1
  MaxTime = 2
  MaxStops = 0
PROPERTIES
  DeadLetter
