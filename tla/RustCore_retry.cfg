SPECIFICATION RustSpec
CONSTANTS
  once = once
  again = again
  s1 = s1
  s2 = s2
  NoReq = NoReq
  Requests <- OnceAndAgain
  Seqs = {s1, s2}
  Retry0 <- AgainRetried
  TimerSet = TRUE
  ConnBorrowed = FALSE
SYMMETRY SeqSymmetry
INVARIANT
  LibraryNeverPanics
CHECK_DEADLOCK FALSE
