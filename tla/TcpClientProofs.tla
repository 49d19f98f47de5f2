-------------------------- MODULE TcpClientProofs --------------------------
(***************************************************************************)
(* What is proved of TcpClient, for any number of connections, of tasks of *)
(* do_open(), of timers and of queued pieces: its types, that the flag of  *)
(* the reconnect timer is never left behind, that one connection is worked *)
(* on at a time unless the user's open() races with one, and that the peer *)
(* then gets a framed stream unless a connection took a header with it.    *)
(***************************************************************************)
EXTENDS TcpClient, TLAPS

\* A timer more may always be started when the flag is not set.
TimersBound == ~running => sleepers < MaxSleepers

\* Connections that are not made have no loops.
Unmade == \A c \in Conns : c > conns => reader[c] = "none" /\ writer[c] = "none"

Working == \E c \in Conns : Alive(writer[c])
Opening == \E o \in Openers : opener[o] # "idle"

\* The connection, the attempt to make one, the task about to look at the flag
\* and the timer follow one another: there is one of them at a time.
OneAtATime ==
  ~raced =>
    /\ \A o, p \in Openers : opener[o] # "idle" /\ opener[p] # "idle" => o = p
    /\ \A o \in Openers : opener[o] \in {"idle", "spawned", "connecting"}
    /\ Working => ~Opening /\ ready
    /\ Working \/ Opening => checks = 0 /\ ~running
    /\ checks <= 1
    /\ checks = 1 => ~running
    /\ isOpen => Working

\* The queue holds whole packages, but for the header of the first.
QueueFramed ==
  \A i \in DOMAIN sendQueue :
    sendQueue[i] = IF (Len(sendQueue) - i) % 2 = 0 THEN "body" ELSE "header"

\* The peer that got a header gets its body next.
BodyDue == \E c \in Conns : next[c] = "body"
InStep ==
  /\ \A c \in Conns : next[c] = "body" => Alive(writer[c])
  /\ ~raced /\ ~orphaned => (BodyDue <=> Len(sendQueue) % 2 = 1)

Timers == TimersBound /\ TimerArmed /\ Unmade
OneOfAll == OneConnection /\ OneAtATime
Framing == QueueFramed /\ InStep /\ FramedStream

\* The inductive invariant.
TcpIInv == TcpTypeOK /\ Timers /\ OneOfAll /\ Framing
-----------------------------------------------------------------------------
\* Waking a loop changes neither which loops are there nor which have ended.
LEMMA NotifyKeeps ==
  ASSUME NEW loops \in [Conns -> Loops], NotifyOne(loops), sendPermit \in BOOLEAN
  PROVE  /\ writer' \in [Conns -> Loops]
         /\ sendPermit' \in BOOLEAN
         /\ \A c \in Conns : Alive(writer'[c]) <=> Alive(loops[c])
         /\ \A c \in Conns : loops[c] = "none" => writer'[c] = "none"
<1>1. CASE \E c \in Conns : /\ loops[c] = "idle"
                            /\ writer' = [loops EXCEPT ![c] = "top"]
  <2>1. PICK k \in Conns : /\ loops[k] = "idle"
                           /\ writer' = [loops EXCEPT ![k] = "top"]
    BY <1>1
  <2>2. sendPermit' \in BOOLEAN
    BY DEF NotifyOne
  <2> QED BY <2>1, <2>2 DEF Alive, Loops
<1>2. CASE writer' = loops /\ sendPermit' = TRUE
  BY <1>2
<1> QED BY <1>1, <1>2 DEF NotifyOne

\* Neither does closing the channel.
LEMMA CloseKeeps ==
  ASSUME TcpTypeOK,
         NEW readers \in [Conns -> {"none", "starting", "reading", "quitting",
                                    "ended"}],
         NEW writers \in [Conns -> Loops],
         NEW open \in BOOLEAN,
         Close(readers, writers, open)
  PROVE  /\ isOpen' = open
         /\ reader' \in [Conns -> {"none", "starting", "reading", "quitting",
                                   "ended"}]
         /\ writer' \in [Conns -> Loops]
         /\ sendPermit' \in BOOLEAN
         /\ \A c \in Conns : Alive(writer'[c]) <=> Alive(writers[c])
         /\ \A c \in Conns : writers[c] = "none" => writer'[c] = "none"
         /\ \A c \in Conns : readers[c] = "none" => reader'[c] = "none"
<1>1. CASE isOpen
  <2>1. /\ reader' = Quitting(readers)
        /\ NotifyOne(Stopping(writers))
    BY <1>1 DEF Close
  <2>2. /\ Stopping(writers) \in [Conns -> Loops]
        /\ \A c \in Conns :
             /\ Alive(Stopping(writers)[c]) <=> Alive(writers[c])
             /\ writers[c] = "none" => Stopping(writers)[c] = "none"
    BY DEF Stopping, Alive, Loops
  <2>3. /\ reader' \in [Conns -> {"none", "starting", "reading", "quitting",
                                  "ended"}]
        /\ \A c \in Conns : readers[c] = "none" => reader'[c] = "none"
    BY <2>1 DEF Quitting
  <2> QED BY <2>1, <2>2, <2>3, NotifyKeeps DEF Close, TcpTypeOK
<1>2. CASE ~isOpen
  BY <1>2 DEF Close, TcpTypeOK
<1> QED BY <1>1, <1>2 DEF TcpTypeOK
-----------------------------------------------------------------------------
\* Steps that leave a part of the state alone keep the invariants on it.
LEMMA SameWork ==
  ASSUME OneOfAll, UNCHANGED <<isOpen, ready, opener, checks, running, raced>>,
         \A c \in Conns : Alive(writer'[c]) <=> Alive(writer[c])
  PROVE  OneOfAll'
BY DEF OneOfAll, OneConnection, OneAtATime, Working, Opening

LEMMA SameFraming ==
  ASSUME Framing, UNCHANGED streamVars, raced => raced',
         \A c \in Conns : Alive(writer[c]) => Alive(writer'[c])
  PROVE  Framing'
BY DEF Framing, QueueFramed, InStep, BodyDue, FramedStream, streamVars

\* The initial state.
LEMMA TcpInitIInv == ASSUME TcpInit PROVE TcpIInv
<1> USE TcpClientAssumption
<1>1. TcpTypeOK
  <2>1. sendQueue \in Seq({"header", "body"}) /\ Len(sendQueue) = 0
    BY DEF TcpInit
  <2>2. /\ reader = [c \in Conns |-> "none"] /\ writer = [c \in Conns |-> "none"]
        /\ opener = [o \in Openers |-> "idle"] /\ next = [c \in Conns |-> "header"]
        /\ conns = 0 /\ checks = 0 /\ sleepers = 0
    BY DEF TcpInit
  <2>3. conns \in 0 .. MaxConns /\ sleepers \in 0 .. MaxSleepers /\ checks \in Nat
    BY <2>2
  <2>4. Len(sendQueue) <= MaxQueue
    BY <2>1
  <2> QED BY <2>1, <2>2, <2>3, <2>4 DEF TcpInit, TcpTypeOK, Loops
<1>2. Timers
  BY DEF TcpInit, Timers, TimersBound, TimerArmed, Unmade
<1>3. OneOfAll
  BY DEF TcpInit, OneOfAll, OneConnection, OneAtATime, Working, Opening, Alive
<1>4. Framing
  BY DEF TcpInit, Framing, QueueFramed, InStep, BodyDue, FramedStream
<1> QED BY <1>1, <1>2, <1>3, <1>4 DEF TcpIInv

\* open(): whether anything is under way decides if it races.
LEMMA OpenKeeps == ASSUME TcpIInv, NEW o \in Openers, Open(o) PROVE TcpIInv'
<1>1. TcpTypeOK'
  BY DEF TcpIInv, TcpTypeOK, Open, Spawn, channelVars, finishVars, streamVars,
         reconnectVars
<1>2. Timers'
  BY DEF TcpIInv, Timers, TimersBound, TimerArmed, Unmade, Open, channelVars,
         reconnectVars
<1>3. OneOfAll'
  <2> SUFFICES ASSUME ~raced' PROVE OneOfAll'
    BY DEF OneOfAll, OneConnection, OneAtATime
  <2>1. ~raced /\ Quiet
    BY DEF Open, TcpIInv, TcpTypeOK
  <2>2. /\ opener[o] = "idle" /\ opener' = [opener EXCEPT ![o] = "spawned"]
        /\ UNCHANGED <<isOpen, reader, writer, checks, running, ready>>
    BY DEF Open, Spawn, channelVars, reconnectVars
  <2>3. ~Working /\ ~Working' /\ ~isOpen
    BY <2>1, <2>2 DEF Quiet, Working, TcpIInv, OneOfAll, OneAtATime
  <2> QED BY <2>1, <2>2, <2>3 DEF TcpIInv, TcpTypeOK, OneOfAll, OneConnection,
                                  OneAtATime, Quiet, Opening, Working
<1>4. Framing'
  BY SameFraming DEF TcpIInv, Open, channelVars
<1> QED BY <1>1, <1>2, <1>3, <1>4 DEF TcpIInv

\* close() and stop().
LEMMA UserCloseKeeps == ASSUME TcpIInv, UserClose PROVE TcpIInv'
<1>0. /\ isOpen' = FALSE /\ running' = FALSE /\ sleepers < MaxSleepers
      /\ UNCHANGED <<finishVars, streamVars, checks, sleepers, opener, conns,
                     ready, raced>>
      /\ stopped' = TRUE
      /\ Close(reader, writer, FALSE)
      /\ reader \in [Conns -> {"none", "starting", "reading", "quitting", "ended"}]
      /\ writer \in [Conns -> Loops]
  BY DEF UserClose, Close, TcpIInv, TcpTypeOK
<1>1. TcpTypeOK'
  BY <1>0, CloseKeeps DEF TcpIInv, TcpTypeOK, finishVars, streamVars
<1>2. Timers'
  BY <1>0, CloseKeeps DEF TcpIInv, Timers, TimersBound, TimerArmed, Unmade
<1>3. OneOfAll'
  <2>1. \A c \in Conns : Alive(writer'[c]) <=> Alive(writer[c])
    BY <1>0, CloseKeeps DEF TcpIInv
  <2> QED BY <1>0, <2>1 DEF TcpIInv, OneOfAll, OneConnection, OneAtATime,
                            Working, Opening
<1>4. Framing'
  BY <1>0, CloseKeeps, SameFraming DEF TcpIInv
<1> QED BY <1>1, <1>2, <1>3, <1>4 DEF TcpIInv

\* cancel_reconnect().
LEMMA CancelReconnectKeeps == ASSUME TcpIInv, CancelReconnect PROVE TcpIInv'
<1>1. TcpTypeOK'
  BY DEF TcpIInv, TcpTypeOK, CancelReconnect, channelVars, finishVars, streamVars
<1>2. Timers'
  BY DEF TcpIInv, Timers, TimersBound, TimerArmed, Unmade, CancelReconnect,
         channelVars
<1>3. OneOfAll'
  BY DEF TcpIInv, OneOfAll, OneConnection, OneAtATime, Working, Opening,
         CancelReconnect, channelVars
<1>4. Framing'
  BY SameFraming DEF TcpIInv, CancelReconnect, channelVars
<1> QED BY <1>1, <1>2, <1>3, <1>4 DEF TcpIInv

\* send(): a header and a body more.
LEMMA SendKeeps == ASSUME TcpIInv, Send PROVE TcpIInv'
<1>0. /\ sendQueue \in Seq({"header", "body"})
      /\ sendQueue' = sendQueue \o <<"header", "body">>
      /\ Len(sendQueue) + 2 <= MaxQueue
  BY DEF Send, Pieces, TcpIInv, TcpTypeOK
<1>1. /\ sendQueue' \in Seq({"header", "body"})
      /\ Len(sendQueue') = Len(sendQueue) + 2
      /\ \A i \in 1 .. Len(sendQueue) : sendQueue'[i] = sendQueue[i]
      /\ sendQueue'[Len(sendQueue) + 1] = "header"
      /\ sendQueue'[Len(sendQueue) + 2] = "body"
  BY <1>0
<1>2. /\ writer' \in [Conns -> Loops] /\ sendPermit' \in BOOLEAN
      /\ \A c \in Conns : Alive(writer'[c]) <=> Alive(writer[c])
      /\ \A c \in Conns : writer[c] = "none" => writer'[c] = "none"
  BY NotifyKeeps DEF TcpIInv, TcpTypeOK, Send
<1>3. TcpTypeOK'
  BY <1>0, <1>1, <1>2 DEF TcpIInv, TcpTypeOK, Send, finishVars, reconnectVars,
                          userVars
<1>4. Timers'
  BY <1>2 DEF TcpIInv, Timers, TimersBound, TimerArmed, Unmade, Send,
              reconnectVars
<1>5. OneOfAll'
  BY <1>2, SameWork DEF TcpIInv, Send, reconnectVars, userVars
<1>6. Framing'
  <2>1. QueueFramed'
    <3> SUFFICES ASSUME NEW i \in 1 .. Len(sendQueue) + 2
                 PROVE  sendQueue'[i] = IF (Len(sendQueue) + 2 - i) % 2 = 0
                                        THEN "body" ELSE "header"
      BY <1>1 DEF QueueFramed
    <3>1. CASE i \in 1 .. Len(sendQueue)
      <4>1. sendQueue[i] = IF (Len(sendQueue) - i) % 2 = 0 THEN "body"
                           ELSE "header"
        BY <3>1, <1>0 DEF TcpIInv, Framing, QueueFramed
      <4>2. (Len(sendQueue) + 2 - i) % 2 = (Len(sendQueue) - i) % 2
        BY <1>0, SMT
      <4> QED BY <4>1, <4>2, <3>1, <1>1
    <3>2. CASE i = Len(sendQueue) + 1
      BY <3>2, <1>0, <1>1
    <3>3. CASE i = Len(sendQueue) + 2
      BY <3>3, <1>0, <1>1
    <3> QED BY <3>1, <3>2, <3>3, <1>0
  <2>2. InStep'
    <3>1. Len(sendQueue') % 2 = Len(sendQueue) % 2
      BY <1>0, <1>1
    <3> QED BY <3>1, <1>2 DEF TcpIInv, Framing, InStep, BodyDue, Send, userVars
  <2>3. FramedStream'
    BY DEF TcpIInv, Framing, FramedStream, Send, userVars
  <2> QED BY <2>1, <2>2, <2>3 DEF Framing
<1> QED BY <1>3, <1>4, <1>5, <1>6 DEF TcpIInv

\* The task of do_open() starts.
LEMMA OpenerStartKeeps ==
  ASSUME TcpIInv, NEW o \in Openers, OpenerStart(o) PROVE TcpIInv'
<1>0. /\ isOpen' = FALSE
      /\ reader' \in [Conns -> {"none", "starting", "reading", "quitting", "ended"}]
      /\ writer' \in [Conns -> Loops] /\ sendPermit' \in BOOLEAN
      /\ \A c \in Conns : Alive(writer'[c]) <=> Alive(writer[c])
      /\ \A c \in Conns : writer[c] = "none" => writer'[c] = "none"
      /\ \A c \in Conns : reader[c] = "none" => reader'[c] = "none"
  BY CloseKeeps DEF TcpIInv, TcpTypeOK, OpenerStart
<1>1. /\ opener' \in [Openers -> {"idle", "spawned", "connecting"} \cup Waits]
      /\ opener'[o] # "idle" /\ opener[o] = "spawned"
      /\ \A p \in Openers \ {o} : opener'[p] = opener[p]
      /\ ~isOpen => opener'[o] = "connecting"
  BY DEF TcpIInv, TcpTypeOK, OpenerStart, Waits
<1>2. TcpTypeOK'
  BY <1>0, <1>1 DEF TcpIInv, TcpTypeOK, OpenerStart, streamVars, reconnectVars,
                    userVars
<1>3. Timers'
  BY <1>0 DEF TcpIInv, Timers, TimersBound, TimerArmed, Unmade, OpenerStart,
              reconnectVars
<1>4. OneOfAll'
  <2> SUFFICES ASSUME ~raced' PROVE OneOfAll'
    BY DEF OneOfAll, OneConnection, OneAtATime
  <2>1. ~raced /\ UNCHANGED <<checks, running, ready>>
    BY DEF OpenerStart, userVars, reconnectVars
  <2>2. Opening /\ ~Working /\ ~isOpen
    BY <1>1, <2>1 DEF TcpIInv, OneOfAll, OneAtATime, Opening
  <2> QED BY <2>1, <2>2, <1>0, <1>1 DEF TcpIInv, OneOfAll, OneConnection,
                                        OneAtATime, Working, Opening
<1>5. Framing'
  BY <1>0, SameFraming DEF TcpIInv, OpenerStart, userVars
<1> QED BY <1>2, <1>3, <1>4, <1>5 DEF TcpIInv

\* The connection is made, and its loops are the only ones.
LEMMA ConnectedKeeps ==
  ASSUME TcpIInv, NEW o \in Openers, Connected(o) PROVE TcpIInv'
<1> DEFINE k == conns + 1
           readers == [reader EXCEPT ![k] = "starting"]
           writers == [writer EXCEPT ![k] = "top"]
<1>a. MaxConns \in Nat
  BY TcpClientAssumption
<1>b. k \in Conns /\ k > conns /\ conns' = k /\ conns \in Nat
  BY <1>a DEF TcpIInv, TcpTypeOK, Connected, Conns
<1>0. /\ k \in Conns /\ conns' = k /\ conns \in Nat
      /\ readers \in [Conns -> {"none", "starting", "reading", "quitting", "ended"}]
      /\ writers \in [Conns -> Loops]
      /\ Close(readers, writers, TRUE)
      /\ writer[k] = "none"
  BY <1>b DEF TcpIInv, TcpTypeOK, Connected, Loops, Timers, Unmade
<1>1. /\ isOpen' = TRUE
      /\ reader' \in [Conns -> {"none", "starting", "reading", "quitting", "ended"}]
      /\ writer' \in [Conns -> Loops] /\ sendPermit' \in BOOLEAN
      /\ \A c \in Conns : Alive(writer'[c]) <=> Alive(writers[c])
      /\ \A c \in Conns : writers[c] = "none" => writer'[c] = "none"
      /\ \A c \in Conns : readers[c] = "none" => reader'[c] = "none"
  BY <1>0, CloseKeeps DEF TcpIInv
<1>2. /\ opener[o] = "connecting" /\ opener' = [opener EXCEPT ![o] = "idle"]
      /\ ready' = TRUE
      /\ UNCHANGED <<finishVars, streamVars, reconnectVars, userVars>>
  BY DEF Connected
<1>3. Alive(writers[k]) /\ \A c \in Conns \ {k} : writers[c] = writer[c]
  BY <1>0 DEF Alive, TcpIInv, TcpTypeOK
<1>4. TcpTypeOK'
  BY <1>0, <1>1, <1>2, <1>a DEF TcpIInv, TcpTypeOK, finishVars, streamVars,
                           reconnectVars, userVars, Conns
<1>5. Timers'
  <2>1. \A c \in Conns : c > conns' => writers[c] = "none" /\ readers[c] = "none"
    BY <1>0 DEF TcpIInv, TcpTypeOK, Timers, Unmade, Conns
  <2> QED BY <2>1, <1>1, <1>2 DEF TcpIInv, Timers, TimersBound, TimerArmed, Unmade,
                                  reconnectVars
<1>6. OneOfAll'
  <2> SUFFICES ASSUME ~raced' PROVE OneOfAll'
    BY DEF OneOfAll, OneConnection, OneAtATime
  <2>1. ~raced /\ UNCHANGED <<checks, running>>
    BY <1>2 DEF userVars, reconnectVars
  <2>2. Opening /\ ~Working /\ checks = 0 /\ ~running
    BY <1>2, <2>1 DEF TcpIInv, OneOfAll, OneAtATime, Opening
  <2>3. \A c \in Conns : Alive(writer'[c]) <=> c = k
    BY <2>2, <1>1, <1>3 DEF Working
  <2>4. \A p \in Openers : opener'[p] = "idle"
    BY <1>2, <2>1 DEF TcpIInv, TcpTypeOK, OneOfAll, OneAtATime
  <2>5. OneConnection'
    BY <2>3, <1>2, <1>0 DEF OneConnection
  <2>6. OneAtATime'
    BY <2>1, <2>2, <2>3, <2>4, <1>0, <1>2 DEF OneAtATime, Working, Opening
  <2> QED BY <2>5, <2>6 DEF OneOfAll
<1>7. Framing'
  <2>1. \A c \in Conns : Alive(writer[c]) => Alive(writer'[c])
    BY <1>1, <1>3
  <2> QED BY <2>1, <1>2, SameFraming DEF TcpIInv, userVars
<1> QED BY <1>4, <1>5, <1>6, <1>7 DEF TcpIInv
-----------------------------------------------------------------------------
\* check_reconnect() starts a timer only if none runs.
LEMMA CheckReconnectKeeps ==
  ASSUME TcpTypeOK, TimersBound, TimerArmed, CheckReconnect
  PROVE  /\ running' \in BOOLEAN /\ sleepers' \in 0 .. MaxSleepers
         /\ (TimersBound /\ TimerArmed)'
         /\ (~isOpen /\ ~running) \/ UNCHANGED <<running, sleepers>>
<1>0. /\ MaxSleepers \in Nat \ {0} /\ sleepers \in 0 .. MaxSleepers
      /\ running \in BOOLEAN
  BY TcpClientAssumption DEF TcpTypeOK
<1>1. CASE MayReconnect
  <2>1. /\ ~isOpen /\ ~running /\ running' = TRUE /\ sleepers' = sleepers + 1
        /\ sleepers < MaxSleepers
    BY <1>1 DEF CheckReconnect, MayReconnect, TimersBound
  <2>2. sleepers' \in 0 .. MaxSleepers /\ sleepers' > 0
    BY <1>0, <2>1
  <2>3. running' \in BOOLEAN /\ TimersBound' /\ TimerArmed'
    BY <2>1, <2>2 DEF TimersBound, TimerArmed
  <2> QED BY <2>1, <2>2, <2>3
<1>2. CASE ~MayReconnect
  BY <1>0, <1>2 DEF CheckReconnect, TimersBound, TimerArmed
<1> QED BY <1>1, <1>2

\* The connection is refused.
LEMMA RefusedKeeps ==
  ASSUME TcpIInv, NEW o \in Openers, Refused(o) PROVE TcpIInv'
<1>0. /\ running' \in BOOLEAN /\ sleepers' \in 0 .. MaxSleepers
      /\ (TimersBound /\ TimerArmed)'
  BY CheckReconnectKeeps DEF Refused, TcpIInv, Timers
<1>1. TcpTypeOK'
  BY <1>0 DEF TcpIInv, TcpTypeOK, Refused, channelVars, finishVars, streamVars,
              userVars
<1>2. Timers'
  BY <1>0 DEF TcpIInv, Timers, Unmade, Refused, channelVars
<1>3. OneOfAll'
  <2> SUFFICES ASSUME ~raced' PROVE OneOfAll'
    BY DEF OneOfAll, OneConnection, OneAtATime
  <2>1. /\ ~raced /\ opener[o] # "idle" /\ opener' = [opener EXCEPT ![o] = "idle"]
        /\ UNCHANGED <<isOpen, writer, checks, ready>>
    BY DEF Refused, userVars, channelVars
  <2>2. \A p \in Openers : opener'[p] = "idle"
    BY <2>1 DEF TcpIInv, TcpTypeOK, OneOfAll, OneAtATime
  <2>3. Opening /\ ~Working /\ checks = 0 /\ ~isOpen
    BY <2>1 DEF Opening, TcpIInv, OneOfAll, OneAtATime
  <2> QED BY <2>1, <2>2, <2>3 DEF TcpIInv, OneOfAll, OneConnection, OneAtATime,
                                  Working, Opening
<1>4. Framing'
  BY SameFraming DEF TcpIInv, Refused, channelVars, userVars
<1> QED BY <1>1, <1>2, <1>3, <1>4 DEF TcpIInv

\* The task that on_close spawned looks at the flag.
LEMMA CheckKeeps == ASSUME TcpIInv, Check PROVE TcpIInv'
<1>0. /\ running' \in BOOLEAN /\ sleepers' \in 0 .. MaxSleepers
      /\ (TimersBound /\ TimerArmed)'
  BY CheckReconnectKeeps DEF Check, TcpIInv, Timers
<1>1. TcpTypeOK'
  BY <1>0 DEF TcpIInv, TcpTypeOK, Check, channelVars, finishVars, streamVars,
              userVars
<1>2. Timers'
  BY <1>0 DEF TcpIInv, Timers, Unmade, Check, channelVars
<1>3. OneOfAll'
  <2> SUFFICES ASSUME ~raced' PROVE OneOfAll'
    BY DEF OneOfAll, OneConnection, OneAtATime
  <2>1. /\ ~raced /\ checks > 0 /\ checks' = checks - 1
        /\ UNCHANGED <<isOpen, writer, opener, ready>>
    BY DEF Check, userVars, channelVars
  <2>2. ~Opening /\ ~Working /\ checks = 1
    BY <2>1 DEF TcpIInv, TcpTypeOK, OneOfAll, OneAtATime
  <2> QED BY <2>1, <2>2 DEF TcpIInv, OneOfAll, OneConnection, OneAtATime,
                            Working, Opening
<1>4. Framing'
  BY SameFraming DEF TcpIInv, Check, channelVars, userVars
<1> QED BY <1>1, <1>2, <1>3, <1>4 DEF TcpIInv

\* A sleep of check_reconnect() ends.
LEMMA WakeKeeps == ASSUME TcpIInv, NEW o \in Openers, Wake(o) PROVE TcpIInv'
<1>0. /\ sleepers > 0 /\ sleepers' = sleepers - 1 /\ running' = FALSE
      /\ UNCHANGED <<channelVars, finishVars, streamVars, checks, userVars, conns,
                     ready>>
      /\ \/ UNCHANGED opener
         \/ /\ running /\ ~isOpen /\ opener[o] = "idle"
            /\ opener' = [opener EXCEPT ![o] = "spawned"]
  BY DEF Wake, Woken, GoesOn, Spawn
<1>1. TcpTypeOK'
  <2>1. sleepers' \in 0 .. MaxSleepers
    BY <1>0, TcpClientAssumption DEF TcpIInv, TcpTypeOK
  <2>2. opener' \in [Openers -> {"idle", "spawned", "connecting"} \cup Waits]
    BY <1>0 DEF TcpIInv, TcpTypeOK
  <2> QED BY <1>0, <2>1, <2>2
    DEF TcpIInv, TcpTypeOK, channelVars, finishVars, streamVars, userVars
<1>2. Timers'
  BY <1>0, TcpClientAssumption
    DEF TcpIInv, TcpTypeOK, Timers, TimersBound, TimerArmed, Unmade, channelVars
<1>3. OneOfAll'
  <2> SUFFICES ASSUME ~raced' PROVE OneOfAll'
    BY DEF OneOfAll, OneConnection, OneAtATime
  <2>1. /\ ~raced /\ UNCHANGED <<isOpen, writer, ready, checks>>
    BY <1>0 DEF userVars, channelVars
  <2>2. CASE UNCHANGED opener
    BY <2>1, <2>2, <1>0 DEF TcpIInv, OneOfAll, OneConnection, OneAtATime,
                            Working, Opening
  <2>3. CASE /\ running /\ ~isOpen /\ opener[o] = "idle"
             /\ opener' = [opener EXCEPT ![o] = "spawned"]
    <3>1. ~Opening /\ ~Working /\ checks = 0
      BY <2>1, <2>3 DEF TcpIInv, TcpTypeOK, OneOfAll, OneAtATime
    <3>2. \A p \in Openers : opener'[p] = IF p = o THEN "spawned" ELSE "idle"
      BY <3>1, <2>3 DEF TcpIInv, TcpTypeOK, Opening
    <3> QED BY <3>1, <3>2, <2>1, <2>3, <1>0
      DEF TcpIInv, OneOfAll, OneConnection, OneAtATime, Working, Opening
  <2> QED BY <2>2, <2>3, <1>0
<1>4. Framing'
  BY <1>0, SameFraming DEF TcpIInv, channelVars, userVars
<1> QED BY <1>1, <1>2, <1>3, <1>4 DEF TcpIInv
-----------------------------------------------------------------------------
\* The end of a loop moves the tasks that wait for it, of which there are none
\* as long as nothing races.
LEMMA FinishKeeps ==
  ASSUME TcpIInv, ReadFinished \/ WriteFinished
  PROVE  /\ opener' \in [Openers -> {"idle", "spawned", "connecting"} \cup Waits]
         /\ ~raced => UNCHANGED opener
         /\ ReadFinished => readFinish' \in BOOLEAN
         /\ WriteFinished => writeFinish' \in BOOLEAN
<1>1. opener \in [Openers -> {"idle", "spawned", "connecting"} \cup Waits]
  BY DEF TcpIInv, TcpTypeOK
<1>2. ASSUME NEW o \in Openers
      PROVE  /\ NotRead(o) \in {"idle", "spawned", "connecting"} \cup Waits
             /\ NotWrite(o) \in {"idle", "spawned", "connecting"} \cup Waits
             /\ ~raced => ~AwaitsRead(o) /\ ~AwaitsWrite(o)
  BY DEF NotRead, NotWrite, Waits, AwaitsRead, AwaitsWrite, TcpIInv, OneOfAll,
         OneAtATime
<1> QED BY <1>1, <1>2 DEF ReadFinished, WriteFinished, TcpIInv, TcpTypeOK

\* A read loop takes a step: what it leaves alone, and the invariants that keeps.
LEMMA ReaderStep ==
  ASSUME TcpIInv, ReaderFrame, ReadFinished \/ UNCHANGED <<readFinish, opener>>,
         isOpen' \in BOOLEAN, isOpen' => isOpen, sendPermit' \in BOOLEAN,
         reader' \in [Conns -> {"none", "starting", "reading", "quitting", "ended"}],
         writer' \in [Conns -> Loops],
         \A c \in Conns : reader[c] = "none" => reader'[c] = "none",
         \A c \in Conns : writer[c] = "none" => writer'[c] = "none",
         \A c \in Conns : Alive(writer'[c]) <=> Alive(writer[c])
  PROVE  TcpIInv'
<1>0. /\ opener' \in [Openers -> {"idle", "spawned", "connecting"} \cup Waits]
      /\ ~raced => UNCHANGED opener
      /\ readFinish' \in BOOLEAN
  BY FinishKeeps DEF TcpIInv, TcpTypeOK
<1>1. TcpTypeOK'
  BY <1>0 DEF TcpIInv, TcpTypeOK, ReaderFrame, streamVars, reconnectVars, userVars
<1>2. Timers'
  BY DEF TcpIInv, Timers, TimersBound, TimerArmed, Unmade, ReaderFrame,
         reconnectVars
<1>3. OneOfAll'
  BY <1>0 DEF TcpIInv, OneOfAll, OneConnection, OneAtATime, Working, Opening,
              ReaderFrame, userVars, reconnectVars
<1>4. Framing'
  BY SameFraming DEF TcpIInv, ReaderFrame, userVars
<1> QED BY <1>1, <1>2, <1>3, <1>4 DEF TcpIInv

\* The steps of a read loop.
LEMMA ReaderKeeps ==
  ASSUME TcpIInv, NEW c \in Conns,
         ReaderTop(c) \/ ReaderQuits(c) \/ ReaderFails(c)
  PROVE  TcpIInv'
<1>0. /\ isOpen \in BOOLEAN /\ sendPermit \in BOOLEAN /\ writer \in [Conns -> Loops]
      /\ reader \in [Conns -> {"none", "starting", "reading", "quitting", "ended"}]
  BY DEF TcpIInv, TcpTypeOK
<1>1. CASE ReaderTop(c)
  BY <1>0, <1>1, ReaderStep DEF ReaderTop
<1>2. CASE ReaderQuits(c)
  BY <1>0, <1>2, ReaderStep DEF ReaderQuits
<1>3. CASE ReaderFails(c)
  <2> DEFINE readers == [reader EXCEPT ![c] = "ended"]
  <2>1. /\ Close(readers, writer, FALSE)
        /\ readers \in [Conns -> {"none", "starting", "reading", "quitting",
                                  "ended"}]
        /\ \A d \in Conns : reader[d] = "none" => readers[d] = "none"
    BY <1>0, <1>3 DEF ReaderFails
  <2>2. /\ isOpen' = FALSE
        /\ reader' \in [Conns -> {"none", "starting", "reading", "quitting", "ended"}]
        /\ writer' \in [Conns -> Loops] /\ sendPermit' \in BOOLEAN
        /\ \A d \in Conns : Alive(writer'[d]) <=> Alive(writer[d])
        /\ \A d \in Conns : writer[d] = "none" => writer'[d] = "none"
        /\ \A d \in Conns : readers[d] = "none" => reader'[d] = "none"
    BY <1>0, <2>1, CloseKeeps DEF TcpIInv
  <2> QED BY <2>1, <2>2, <1>3, ReaderStep DEF ReaderFails
<1> QED BY <1>1, <1>2, <1>3
-----------------------------------------------------------------------------
\* A write loop ends: on_close follows, and the task that looks at the flag.
LEMMA WriterEnds ==
  ASSUME TcpIInv, NEW c \in Conns, Alive(writer[c]), WriterLeaves(c),
         isOpen' = FALSE, sendPermit' \in BOOLEAN,
         reader' \in [Conns -> {"none", "starting", "reading", "quitting", "ended"}],
         writer' \in [Conns -> Loops],
         \A d \in Conns : reader[d] = "none" => reader'[d] = "none",
         \A d \in Conns : writer[d] = "none" => writer'[d] = "none",
         ~Alive(writer'[c]),
         \A d \in Conns \ {c} : Alive(writer'[d]) <=> Alive(writer[d])
  PROVE  TcpIInv'
<1>0. /\ opener' \in [Openers -> {"idle", "spawned", "connecting"} \cup Waits]
      /\ ~raced => UNCHANGED opener
      /\ writeFinish' \in BOOLEAN
  BY FinishKeeps DEF WriterLeaves
<1>1. TcpTypeOK'
  <2>0. /\ next \in [Conns -> {"header", "body"}] /\ checks \in Nat
        /\ orphaned \in BOOLEAN
        /\ next' = [next EXCEPT ![c] = "header"] /\ checks' = checks + 1
        /\ orphaned' = (orphaned \/ next[c] = "body") /\ ready' = FALSE
    BY DEF WriterLeaves, TcpIInv, TcpTypeOK
  <2>1. next' \in [Conns -> {"header", "body"}]
    BY <2>0
  <2>2. checks' \in Nat
    BY <2>0
  <2>3. orphaned' \in BOOLEAN /\ ready' \in BOOLEAN /\ isOpen' \in BOOLEAN
    BY <2>0
  <2> QED BY <1>0, <2>1, <2>2, <2>3 DEF TcpIInv, TcpTypeOK, WriterLeaves, userVars
<1>2. Timers'
  BY DEF TcpIInv, Timers, TimersBound, TimerArmed, Unmade, WriterLeaves
<1>3. OneOfAll'
  <2> SUFFICES ASSUME ~raced' PROVE OneOfAll'
    BY DEF OneOfAll, OneConnection, OneAtATime
  <2>1. ~raced /\ UNCHANGED <<running, opener>>
    BY <1>0 DEF WriterLeaves, userVars
  <2>2. Working /\ ~Opening /\ checks = 0 /\ ~running
    BY <2>1 DEF Working, TcpIInv, OneOfAll, OneAtATime
  <2>3. \A d \in Conns : ~Alive(writer'[d])
    BY <2>1 DEF TcpIInv, OneOfAll, OneConnection
  <2>4. checks' = 1 /\ ready' = FALSE
    BY <2>2 DEF WriterLeaves
  <2> QED BY <2>1, <2>2, <2>3, <2>4 DEF OneOfAll, OneConnection, OneAtATime,
                                        Working, Opening
<1>4. Framing'
  <2>0. /\ next \in [Conns -> {"header", "body"}]
        /\ next' = [next EXCEPT ![c] = "header"]
        /\ orphaned' = (orphaned \/ next[c] = "body")
        /\ UNCHANGED <<sendQueue, unframed, raced>>
    BY DEF WriterLeaves, TcpIInv, TcpTypeOK, userVars
  <2>1. QueueFramed'
    BY <2>0 DEF TcpIInv, Framing, QueueFramed
  <2>2. \A d \in Conns : next'[d] = "body" => Alive(writer'[d])
    BY <2>0 DEF TcpIInv, Framing, InStep
  <2>3. ASSUME ~raced', ~orphaned' PROVE BodyDue' <=> Len(sendQueue') % 2 = 1
    <3>1. ~raced /\ ~orphaned /\ next[c] = "header" /\ next' = next
      BY <2>0, <2>3
    <3> QED BY <3>1, <2>0 DEF TcpIInv, Framing, InStep, BodyDue
  <2>4. FramedStream'
    BY <2>0 DEF TcpIInv, Framing, FramedStream
  <2> QED BY <2>1, <2>2, <2>3, <2>4 DEF Framing, InStep
<1> QED BY <1>1, <1>2, <1>3, <1>4 DEF TcpIInv

\* One less is even exactly when the number is odd.
LEMMA Parity ==
  ASSUME NEW n \in Nat \ {0}
  PROVE  /\ (n - 1) % 2 = 0 <=> n % 2 = 1
         /\ n % 2 # 1 <=> (n - 1) % 2 = 1
  OBVIOUS

\* The next piece is taken: it is the one the peer expects.
LEMMA PieceKeeps ==
  ASSUME TcpIInv, NEW c \in Conns, WriterTop(c), isOpen, sendQueue # <<>>
  PROVE  TcpIInv'
<1>0. /\ writer[c] = "top" /\ writer' = [writer EXCEPT ![c] = "writing"]
      /\ sendQueue' = Tail(sendQueue)
      /\ next' = [next EXCEPT ![c] = IF Head(sendQueue) = "header" THEN "body"
                                     ELSE "header"]
      /\ unframed' = (unframed \/ Head(sendQueue) # next[c])
      /\ UNCHANGED <<isOpen, reader, sendPermit, finishVars, orphaned,
                     reconnectVars, userVars, opener, conns, ready>>
  BY DEF WriterTop
<1>1. /\ sendQueue \in Seq({"header", "body"}) /\ Len(sendQueue) \in Nat \ {0}
      /\ sendQueue' \in Seq({"header", "body"})
      /\ Len(sendQueue') = Len(sendQueue) - 1
      /\ \A i \in 1 .. Len(sendQueue) - 1 : sendQueue'[i] = sendQueue[i + 1]
      /\ Head(sendQueue) = sendQueue[1] /\ Head(sendQueue) \in {"header", "body"}
  BY <1>0 DEF TcpIInv, TcpTypeOK
<1>2. /\ writer' \in [Conns -> Loops] /\ next' \in [Conns -> {"header", "body"}]
      /\ next \in [Conns -> {"header", "body"}]
      /\ \A d \in Conns : Alive(writer'[d]) <=> Alive(writer[d])
      /\ \A d \in Conns : writer[d] = "none" => writer'[d] = "none"
      /\ Alive(writer[c])
  BY <1>0 DEF TcpIInv, TcpTypeOK, Loops, Alive
<1>3. TcpTypeOK'
  <2>1. Len(sendQueue') <= MaxQueue /\ unframed' \in BOOLEAN
    BY <1>0, <1>1, TcpClientAssumption DEF TcpIInv, TcpTypeOK
  <2> QED BY <1>0, <1>1, <1>2, <2>1
    DEF TcpIInv, TcpTypeOK, finishVars, reconnectVars, userVars
<1>4. Timers'
  BY <1>0, <1>2 DEF TcpIInv, Timers, TimersBound, TimerArmed, Unmade, reconnectVars
<1>5. OneOfAll'
  BY <1>0, <1>2, SameWork DEF TcpIInv, reconnectVars, userVars
<1>6. Head(sendQueue) = "body" <=> Len(sendQueue) % 2 = 1
  <2>1. sendQueue[1] = IF (Len(sendQueue) - 1) % 2 = 0 THEN "body" ELSE "header"
    BY <1>1 DEF TcpIInv, Framing, QueueFramed
  <2>2. (Len(sendQueue) - 1) % 2 = 0 <=> Len(sendQueue) % 2 = 1
    BY <1>1, Parity
  <2> QED BY <1>1, <2>1, <2>2
<1>7. QueueFramed'
  <2>1. DOMAIN sendQueue' = 1 .. Len(sendQueue) - 1
    BY <1>1
  <2> SUFFICES ASSUME NEW i \in 1 .. Len(sendQueue) - 1
               PROVE  sendQueue'[i] = IF (Len(sendQueue') - i) % 2 = 0
                                      THEN "body" ELSE "header"
    BY <2>1 DEF QueueFramed
  <2>2. i + 1 \in DOMAIN sendQueue
    BY <1>1
  <2>3. sendQueue[i + 1] = IF (Len(sendQueue) - (i + 1)) % 2 = 0 THEN "body"
                           ELSE "header"
    BY <2>2 DEF TcpIInv, Framing, QueueFramed
  <2>4. Len(sendQueue) - (i + 1) = Len(sendQueue') - i
    BY <1>1
  <2>5. sendQueue'[i] = sendQueue[i + 1]
    BY <1>1
  <2> QED BY <2>3, <2>4, <2>5
<1>8. ASSUME ~raced, ~orphaned
      PROVE  /\ Head(sendQueue) = next[c]
             /\ BodyDue' <=> Len(sendQueue') % 2 = 1
  <2>1. \A d \in Conns \ {c} : next[d] = "header"
    BY <1>2, <1>8 DEF TcpIInv, Framing, InStep, OneOfAll, OneConnection
  <2>2. next[c] = "body" <=> Len(sendQueue) % 2 = 1
    BY <2>1, <1>2, <1>8 DEF TcpIInv, Framing, InStep, BodyDue
  <2>3. Head(sendQueue) = next[c]
    BY <2>2, <1>6, <1>1, <1>2
  <2>4. BodyDue' <=> next'[c] = "body"
    BY <2>1, <1>0, <1>2 DEF BodyDue
  <2>5. next'[c] = "body" <=> Len(sendQueue) % 2 # 1
    BY <1>0, <1>1, <1>2, <1>6
  <2>6. Len(sendQueue) % 2 # 1 <=> Len(sendQueue') % 2 = 1
    BY <1>1, Parity
  <2> QED BY <2>3, <2>4, <2>5, <2>6
<1>9. Framing'
  <2>1. InStep'
    BY <1>8, <1>0, <1>2 DEF TcpIInv, Framing, InStep, userVars
  <2>2. FramedStream'
    BY <1>8, <1>0 DEF TcpIInv, TcpTypeOK, Framing, FramedStream, userVars
  <2> QED BY <2>1, <2>2, <1>7 DEF Framing
<1> QED BY <1>3, <1>4, <1>5, <1>9 DEF TcpIInv

\* The steps of a write loop.
LEMMA WriterKeeps ==
  ASSUME TcpIInv, NEW c \in Conns, WriterTop(c) \/ Written(c) \/ WriterFails(c)
  PROVE  TcpIInv'
<1>0. /\ isOpen \in BOOLEAN /\ sendPermit \in BOOLEAN /\ writer \in [Conns -> Loops]
      /\ reader \in [Conns -> {"none", "starting", "reading", "quitting", "ended"}]
  BY DEF TcpIInv, TcpTypeOK
<1>1. CASE WriterTop(c) /\ ~isOpen
  <2>1. /\ writer[c] = "top" /\ writer' = [writer EXCEPT ![c] = "ended"]
        /\ UNCHANGED <<isOpen, reader, sendPermit>> /\ WriterLeaves(c)
    BY <1>1 DEF WriterTop
  <2>2. /\ writer' \in [Conns -> Loops] /\ Alive(writer[c]) /\ ~Alive(writer'[c])
        /\ \A d \in Conns : writer[d] = "none" => writer'[d] = "none"
        /\ \A d \in Conns \ {c} : writer'[d] = writer[d]
    BY <1>0, <2>1 DEF Alive, Loops
  <2> QED BY <1>0, <1>1, <2>1, <2>2, WriterEnds
<1>2. CASE WriterTop(c) /\ isOpen /\ sendQueue # <<>>
  BY <1>2, PieceKeeps
<1>3. CASE \/ WriterTop(c) /\ isOpen /\ sendQueue = <<>>
           \/ Written(c)
  <2>1. /\ writer' \in [Conns -> Loops] /\ sendPermit' \in BOOLEAN
        /\ \A d \in Conns : Alive(writer'[d]) <=> Alive(writer[d])
        /\ \A d \in Conns : writer[d] = "none" => writer'[d] = "none"
        /\ UNCHANGED <<isOpen, reader, finishVars, streamVars, reconnectVars,
                       userVars, opener, conns, ready>>
    BY <1>0, <1>3 DEF WriterTop, Written, Alive, Loops
  <2>2. TcpTypeOK'
    BY <2>1 DEF TcpIInv, TcpTypeOK, finishVars, streamVars, reconnectVars, userVars
  <2>3. Timers'
    BY <2>1 DEF TcpIInv, Timers, TimersBound, TimerArmed, Unmade, reconnectVars
  <2>4. OneOfAll' /\ Framing'
    BY <2>1, SameWork, SameFraming DEF TcpIInv, reconnectVars, userVars
  <2> QED BY <2>2, <2>3, <2>4 DEF TcpIInv
<1>4. CASE WriterFails(c)
  <2> DEFINE writers == [writer EXCEPT ![c] = "ended"]
  <2>1. /\ Alive(writer[c]) /\ WriterLeaves(c)
        /\ Close(reader, writers, FALSE) /\ writers \in [Conns -> Loops]
    BY <1>0, <1>4 DEF WriterFails, Alive, Loops
  <2>2. writers[c] = "ended" /\ \A d \in Conns \ {c} : writers[d] = writer[d]
    BY <1>0
  <2>3. writer[c] # "none"
    BY <2>1 DEF Alive
  <2>4. /\ ~Alive(writers[c])
        /\ \A d \in Conns : writer[d] = "none" => writers[d] = "none"
    <3>1. ~Alive("ended")
      BY DEF Alive
    <3> HIDE DEF writers
    <3> QED BY <2>2, <2>3, <3>1
  <2>5. /\ isOpen' = FALSE
        /\ reader' \in [Conns -> {"none", "starting", "reading", "quitting", "ended"}]
        /\ writer' \in [Conns -> Loops] /\ sendPermit' \in BOOLEAN
        /\ \A d \in Conns : Alive(writer'[d]) <=> Alive(writers[d])
        /\ \A d \in Conns : writers[d] = "none" => writer'[d] = "none"
        /\ \A d \in Conns : reader[d] = "none" => reader'[d] = "none"
    BY <1>0, <2>1, CloseKeeps DEF TcpIInv
  <2>6. /\ ~Alive(writer'[c])
        /\ \A d \in Conns : writer[d] = "none" => writer'[d] = "none"
        /\ \A d \in Conns \ {c} : Alive(writer'[d]) <=> Alive(writer[d])
    <3> HIDE DEF writers
    <3> QED BY <2>2, <2>4, <2>5
  <2> QED BY <2>1, <2>5, <2>6, WriterEnds
<1> QED BY <1>1, <1>2, <1>3, <1>4, <1>0 DEF WriterTop
-----------------------------------------------------------------------------
\* Every step keeps the invariant.
LEMMA TcpNextKeeps == ASSUME TcpIInv, [TcpNext]_tcpVars PROVE TcpIInv'
<1>1. CASE UNCHANGED tcpVars
  <2> USE <1>1 DEF tcpVars, channelVars, finishVars, streamVars, reconnectVars,
                   userVars
  <2>1. TcpTypeOK'
    BY DEF TcpIInv, TcpTypeOK
  <2>2. Timers'
    BY DEF TcpIInv, Timers, TimersBound, TimerArmed, Unmade
  <2>3. OneOfAll' /\ Framing'
    BY SameWork, SameFraming DEF TcpIInv
  <2> QED BY <2>1, <2>2, <2>3 DEF TcpIInv
<1>2. CASE TcpNext
  BY <1>2, OpenKeeps, OpenerStartKeeps, ConnectedKeeps, RefusedKeeps, WakeKeeps,
     UserCloseKeeps, CancelReconnectKeeps, SendKeeps, CheckKeeps, ReaderKeeps,
     WriterKeeps
    DEF TcpNext
<1> QED BY <1>1, <1>2

\* The inductive invariant of the client end of a TCP connection (tcp_channel.rs,
\* tcp_client.rs and rpc_client.rs).
THEOREM TcpInductive == TcpSpec => []TcpIInv
BY TcpInitIInv, TcpNextKeeps, PTL DEF TcpSpec

\* The variables keep their types, and the reconnect timers their bound: one more
\* than those that were stopped while they slept (check_reconnect).
THEOREM TcpTypeCorrect == TcpSpec => []TcpTypeOK
<1>1. TcpIInv => TcpTypeOK
  BY DEF TcpIInv
<1> QED BY <1>1, TcpInductive, PTL

\* The flag of the reconnect timer is set only while a timer sleeps, whatever the
\* user stops and opens meanwhile (check_reconnect, cancel_reconnect).
THEOREM TimerIsArmed == TcpSpec => []TimerArmed
<1>1. TcpIInv => TimerArmed
  BY DEF TcpIInv, Timers
<1> QED BY <1>1, TcpInductive, PTL

\* One write loop at a time, and a ready rpc exactly while there is one, as long
\* as no open() races with what is under way (do_open, on_open, on_close).
THEOREM OneConnectionAtATime == TcpSpec => []OneConnection
<1>1. TcpIInv => OneConnection
  BY DEF TcpIInv, OneOfAll
<1> QED BY <1>1, TcpInductive, PTL

\* The peer gets header and body in turn, unless a header was lost with its
\* connection or an open() raced (send, and the write loop).
THEOREM StreamFramed == TcpSpec => []FramedStream
<1>1. TcpIInv => FramedStream
  BY DEF TcpIInv, Framing
<1> QED BY <1>1, TcpInductive, PTL
=============================================================================
