SPECIFICATION Spec
CONSTANTS
  Ticket = {t1, t2}
  TriageCall = {c1, c2}
  MaxVersion = 1
SYMMETRY Symmetry
INVARIANTS
  TypeOK
  DecidedOnce
  HistoryTellsStatus
CHECK_DEADLOCK FALSE
