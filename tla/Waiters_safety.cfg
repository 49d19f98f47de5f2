SPECIFICATION WaitersSpec
CONSTANTS
  plain = plain
  guarded = guarded
  NoReq = NoReq
  s1 = s1
  s2 = s2
  s3 = s3
  Requests <- PlainAndGuarded
  Seqs = {s1, s2, s3}
  RspHandle = {plain, guarded}
  Retry0 <- PlainRetries
  Bound0 = {plain}
  TimerSet = TRUE
  MayCancel = {guarded}
  MayOverlap = {}
  MayDrop = {plain}
  MayToggle = {guarded}
  MayExpire = TRUE
  MaxOwed = 1
  ValueWaiters = {plain}
  VoidWaiters = {guarded}
SYMMETRY SeqSymmetry
INVARIANTS
  TypeOK
  IInv
  EntryHasTimer
  WaiterRegistered
  KeptWhileWaiting
  OneCallOneFinally
  HandlersAlive
  WaitersTypeOK
  VoidWaiterExact
  ValueWaiterExact
  CompletedOnce
  LetGoNotHung
PROPERTIES
  EndedByOwnAttempt
  ImplementsContract
