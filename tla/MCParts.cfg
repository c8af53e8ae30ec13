SPECIFICATION Spec
CONSTANTS
  old = old
  new = new
  edited = edited
  v1 = v1
  v2 = v2
  Migrator = {m1, m2}
  Id = {1, 2, 3}
  Version = {v1, v2}
  Release = {old, new, edited}
  Files <- ThreeReleases
  Recognised = {1, 2}
  Repeatable = {3}
  Core = 1
  Missing = Missing
  Unknown = Unknown
  Key = {k1, k2, k3}
  Stranger = Stranger
  Browser = {b1, b2}
  s1 = s1
  Token = {s1, s2}
  Limit = 2
  Window = 2
  TTL = 2
  MaxTime = 4
  MaxRestarts = 1
  None = None
  Mixes = {{"claim", "complete"}, {"fail", "cancel"}, {"block", "checkpoint"}, {"block", "heartbeat"}, {"create", "follow_up"}}
  Profile <- TwoProfiles
  Blank = ""
  Cost = {2, 3}
  CostLimit = 3
  NoMetrics = NoMetrics
  MaxAttempts = 2
  MaxCalls = 3
INVARIANTS
  PartsTypeOK
  SearchIsRight
  AllOrNothing
  SuccessIsLasting
  ThrottleHolds
  SessionsEnd
  AnswersAreTrue
  MetricsOnce
  AnalyticsAddUp
PROPERTIES
  WholeReleases
  PlanGetsDone
  EveryRunEnds
CHECK_DEADLOCK FALSE
