SPECIFICATION FairTcpSpec
CONSTANTS
  o1 = o1
  o2 = o2
  MaxConns = 2
  Openers <- TwoOpeners
  MaxSleepers = 2
  MaxQueue = 3
  Reconnect = TRUE
INVARIANTS
  TcpTypeOK
  TimerArmed
  OneConnection
  FramedStream
PROPERTY Reconnects
