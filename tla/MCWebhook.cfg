SPECIFICATION Spec
CONSTANTS
  Delivery = {d1, d2}
  Worker = {w1, w2}
  Prompt = {w1}
  Token = {k1, k2, k3, k4}
  NoToken = NoToken
  NoDelivery = NoDelivery
  MaxAttempts = 2
  BatchLimit = 2
  MinLockTTL = 1
  PostTimeout = 1
  LockBuffer = 1
  MaxStops = 1
SYMMETRY Symmetry
INVARIANTS
  PromptWorkerKeepsOwnership
PROPERTIES
  KeepsPromise
  StaleWorkerIsFenced
