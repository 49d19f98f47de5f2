SPECIFICATION ServeSpec
CONSTANTS
  Seqs = {s1, s2}
  Cmds = {cmd1, cmd2}
  Ping = Ping
  NoSeq = NoSeq
SYMMETRY SeqSymmetry
INVARIANT RRReleased
CHECK_DEADLOCK FALSE
