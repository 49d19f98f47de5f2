SPECIFICATION FairWaitersSpec
CONSTANTS
  plain = plain
  guarded = guarded
  NoReq = NoReq
  s1 = s1
  s2 = s2
  s3 = s3
  Requests <- PlainAndGuarded
  Seqs = {s1, s2, s3}
  RspHandle = {plain, guarded}
  Retry0 <- GuardedForEver
  Bound0 = {plain, guarded}
  TimerSet = TRUE
  MayCancel = {guarded}
  MayOverlap = {}
  MayDrop = {}
  MayToggle = {}
  MayExpire = FALSE
  MaxOwed = 1
  ValueWaiters = {}
  VoidWaiters = {plain}
PROPERTIES
  EveryCallEnds
  CancelStopsRetries
  VoidWaitEnds
