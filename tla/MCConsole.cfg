SPECIFICATION Spec
CONSTANTS
  t1 = t1
  t2 = t2
  Ticket = {t1, t2}
  Proposal = {t1}
  MaxEvents = 4
  Tab = {b1}
  Queue <- TwoRows
  MinRows = 1
  MaxRows = 2
  MaxFilter = 1
  MaxOpens = 2
INVARIANTS
  ConsoleTypeOK
  PageIsCausal
  RefusedOnlyIfStale
PROPERTIES
  DetailIsCurrent
CHECK_DEADLOCK FALSE
