SPECIFICATION FairSpec
CONSTANTS
  Delivery = {d1, d2}
  Worker = {w1, w2}
  Prompt = {w1, w2}
  Token = {k1, k2, k3, k4}
  NoToken = NoToken
  NoDelivery = NoDelivery
  MaxAttempts = 2
  BatchLimit = 1
  MinLockTTL = 2
  PostTimeout = 1
  LockBuffer = 1
  MaxStops = 1
PROPERTIES
  EveryDeliverySettles
