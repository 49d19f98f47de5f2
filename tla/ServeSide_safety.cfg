SPECIFICATION ServeSpec
CONSTANTS
  Seqs = {s1, s2}
  Cmds = {cmd1, cmd2}
  Ping = Ping
  NoSeq = NoSeq
INVARIANTS
  ServeTypeOK
  OneAnswer
  AnsweredWhenReady
  NoAnswerUnasked
SYMMETRY SeqSymmetry
CHECK_DEADLOCK FALSE
