SPECIFICATION LinkSpec
CONSTANTS
  plain = plain
  guarded = guarded
  cmd1 = cmd1
  Ping = Ping
  NoSeq = NoSeq
  NoReq = NoReq
  s1 = s1
  s2 = s2
  Requests <- LinkRequests
  Seqs = {s1, s2}
  Cmds = {cmd1}
  CmdOf <- LinkCmds
  RspHandle = {plain, guarded}
  Retry0 <- LinkRetries
  Bound0 = {plain, guarded}
  TimerSet = TRUE
  MayCancel = {}
  MayOverlap = {}
  MayDrop = {}
  MayToggle = {}
  MayExpire = TRUE
  MaxOwed = 1
INVARIANTS
  LinkTypeOK
  AnswersBroughtAbout
PROPERTIES
  AnswerIsThePeers
  ImplementsRemoteCall
SYMMETRY SeqSymmetry
