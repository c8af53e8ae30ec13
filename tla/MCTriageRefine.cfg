SPECIFICATION Spec
CONSTANTS
  Ticket = {t1, t2}
  TriageCall = {c1, c2}
  MaxVersion = 2
PROPERTIES
  PatchesOnlyProposedWork
