------------------------------ MODULE TcpClient ------------------------------
(***************************************************************************)
(* The client end of a TCP connection in the Rust library: TcpChannel with *)
(* its read loop and write loop, TcpClient with open, close and reconnect, *)
(* and what RpcClient makes of their callbacks (is the rpc ready).         *)
(*                                                                         *)
(* All of it runs as tasks on one thread, which change places at an await. *)
(* A step is a task from one await to the next, or a call of the user.     *)
(* Which runnable task comes next is left open, and so is what the network *)
(* does: a connection may be refused, and lost at any await.               *)
(*                                                                         *)
(* auto_pack is on, as RpcClient has it: send() queues a package as two    *)
(* pieces, its header and its body.                                        *)
(***************************************************************************)
EXTENDS Integers, Sequences, FiniteSets

CONSTANTS
  MaxConns,     \* bound: connections made
  Openers,      \* the tasks of do_open() that may be under way at once
  MaxSleepers,  \* bound: reconnect timers left running when the user stops them
  MaxQueue,     \* bound: pieces in the send queue
  Reconnect     \* TRUE iff set_reconnect() was given a time above zero

ASSUME TcpClientAssumption ==
  /\ MaxConns \in Nat /\ MaxSleepers \in Nat \ {0} /\ MaxQueue \in Nat
  /\ Reconnect \in BOOLEAN

VARIABLES
  isOpen,       \* TcpChannel::is_open
  reader,       \* the read loop of each connection
  writer,       \* the write loop of each connection
  sendQueue,    \* the pieces to write, whichever connection they were sent on
  sendPermit,   \* a wake-up kept by send_queue_notify
  readFinish,   \* a wake-up kept by read_quit_finish_notify
  writeFinish,  \* a wake-up kept by write_quit_finish_notify
  opener,       \* the tasks of do_open()
  checks,       \* how many tasks of on_close are about to check_reconnect()
  sleepers,     \* how many of them sleep until they reconnect
  running,      \* reconnect_timer_running
  conns,        \* how many connections were made
  ready,        \* rpc::is_ready, as RpcClient sets it
  next,         \* the piece the peer expects on each connection
  unframed,     \* history: it got the other one
  orphaned,     \* history: a loop ended with a header written and no body
  raced,        \* history: the user opened while something was still under way
  stopped       \* history: the user has closed, or stopped reconnecting, since

channelVars == <<isOpen, reader, writer, sendPermit>>
finishVars == <<readFinish, writeFinish>>
streamVars == <<sendQueue, next, unframed, orphaned>>
reconnectVars == <<checks, sleepers, running>>
userVars == <<raced, stopped>>
tcpVars == <<channelVars, finishVars, streamVars, reconnectVars, userVars,
             opener, conns, ready>>

Conns == 1 .. MaxConns
Alive(loop) == loop \notin {"none", "ended"}

TcpInit ==
  /\ isOpen = FALSE
  /\ reader = [c \in Conns |-> "none"] /\ writer = [c \in Conns |-> "none"]
  /\ sendQueue = <<>> /\ sendPermit = FALSE
  /\ readFinish = FALSE /\ writeFinish = FALSE
  /\ opener = [o \in Openers |-> "idle"]
  /\ checks = 0 /\ sleepers = 0 /\ running = FALSE
  /\ conns = 0 /\ ready = FALSE
  /\ next = [c \in Conns |-> "header"] /\ unframed = FALSE /\ orphaned = FALSE
  /\ raced = FALSE /\ stopped = FALSE
-----------------------------------------------------------------------------
\* Bugs the properties below are tried against.
PiecesSwapped == <<"body", "header">>       \* the body is queued first

WokenSame == running                        \* the flag is not reset

MayReconnectAgain == ~isOpen /\ Reconnect   \* a timer may run already

GoesOnAlways == TRUE                        \* the flag is not looked at again

NotifyOneNever(loops) ==                    \* the write loop is not woken
  writer' = loops /\ UNCHANGED sendPermit
-----------------------------------------------------------------------------
\* What send() puts into the queue for one package.
Pieces == <<"header", "body">>

\* send_queue_notify.notify_one: an idle write loop wakes up, or the next one
\* that waits does not.  loops is the state of the write loops before.
NotifyOne(loops) ==
  \/ /\ \E c \in Conns : /\ loops[c] = "idle"
                         /\ writer' = [loops EXCEPT ![c] = "top"]
     /\ UNCHANGED sendPermit
  \/ /\ \A c \in Conns : loops[c] # "idle"
     /\ writer' = loops
     /\ sendPermit' = TRUE

\* quit_notify.notify_waiters: every loop that waits in a select is told.
Quitting(loops) == [c \in Conns |-> IF loops[c] = "reading" THEN "quitting"
                                    ELSE loops[c]]
Stopping(loops) == [c \in Conns |-> IF loops[c] = "writing" THEN "stopping"
                                    ELSE loops[c]]

\* do_close, when open; the channel is open again afterwards if open is TRUE.
\* readers and writers are the loops as they are then.
Close(readers, writers, open) ==
  /\ isOpen' = open
  /\ IF isOpen
     THEN reader' = Quitting(readers) /\ NotifyOne(Stopping(writers))
     ELSE reader' = readers /\ writer' = writers /\ UNCHANGED sendPermit

\* Nothing of an earlier open() or connection is still under way.
Quiet ==
  /\ \A c \in Conns : ~Alive(reader[c]) /\ ~Alive(writer[c])
  /\ \A o \in Openers : opener[o] = "idle"
  /\ checks = 0 /\ ~running
-----------------------------------------------------------------------------
\* TcpClient::do_open spawns its task.
Spawn(o) == opener[o] = "idle" /\ opener' = [opener EXCEPT ![o] = "spawned"]

\* The user calls open().
Open(o) ==
  /\ Spawn(o)
  /\ raced' = (raced \/ ~Quiet)
  /\ stopped' = FALSE
  /\ UNCHANGED <<channelVars, finishVars, streamVars, reconnectVars, conns,
                 ready>>

\* The user calls close() or stop().
UserClose ==
  /\ sleepers < MaxSleepers
  /\ running' = FALSE
  /\ Close(reader, writer, FALSE)
  /\ stopped' = TRUE
  /\ UNCHANGED <<finishVars, streamVars, checks, sleepers, opener, conns, ready,
                 raced>>

\* The user calls cancel_reconnect().
CancelReconnect ==
  /\ sleepers < MaxSleepers
  /\ running' = FALSE
  /\ stopped' = TRUE
  /\ UNCHANGED <<channelVars, finishVars, streamVars, checks, sleepers, opener,
                 conns, ready, raced>>

\* send() of a package while open.
Send ==
  /\ isOpen
  /\ Len(sendQueue) + Len(Pieces) <= MaxQueue
  /\ sendQueue' = sendQueue \o Pieces
  /\ NotifyOne(writer)
  /\ UNCHANGED <<isOpen, reader, finishVars, next, unframed, orphaned,
                 reconnectVars, userVars, opener, conns, ready>>
-----------------------------------------------------------------------------
\* wait_close_finish: a task waits until both loops have told that they ended.
Waits == {"both", "read", "write"}
AwaitsRead(o) == opener[o] \in {"both", "read"}
AwaitsWrite(o) == opener[o] \in {"both", "write"}
NotRead(o) == IF opener[o] = "both" THEN "write" ELSE "connecting"
NotWrite(o) == IF opener[o] = "both" THEN "read" ELSE "connecting"

\* The task of do_open() starts.  An open channel is closed first and its loops
\* waited for; a wake-up kept from an earlier close counts, and is used up.
OpenerStart(o) ==
  /\ opener[o] = "spawned"
  /\ Close(reader, writer, FALSE)
  /\ opener' = [opener EXCEPT ![o] =
       CASE isOpen /\ ~readFinish /\ ~writeFinish -> "both"
         [] isOpen /\ ~readFinish /\ writeFinish -> "read"
         [] isOpen /\ readFinish /\ ~writeFinish -> "write"
         [] OTHER -> "connecting"]
  /\ readFinish' = (readFinish /\ ~isOpen)
  /\ writeFinish' = (writeFinish /\ ~isOpen)
  /\ UNCHANGED <<streamVars, reconnectVars, userVars, conns, ready>>

\* The connection is made: TcpChannel::do_open starts two loops, and on_open of
\* RpcClient makes the rpc ready.
Connected(o) ==
  /\ opener[o] = "connecting" /\ conns < MaxConns
  /\ opener' = [opener EXCEPT ![o] = "idle"]
  /\ conns' = conns + 1
  /\ Close([reader EXCEPT ![conns + 1] = "starting"],
           [writer EXCEPT ![conns + 1] = "top"], TRUE)
  /\ ready' = TRUE
  /\ UNCHANGED <<finishVars, streamVars, reconnectVars, userVars>>

\* check_reconnect up to its sleep.
MayReconnect == ~isOpen /\ ~running /\ Reconnect

CheckReconnect ==
  IF MayReconnect
  THEN running' = TRUE /\ sleepers' = sleepers + 1
  ELSE UNCHANGED <<running, sleepers>>

\* The connection is refused: on_open_failed, and check_reconnect in this task.
\* A task that sleeps in it is counted with the others.
Refused(o) ==
  /\ opener[o] = "connecting"
  /\ opener' = [opener EXCEPT ![o] = "idle"]
  /\ CheckReconnect
  /\ UNCHANGED <<channelVars, finishVars, streamVars, checks, userVars, conns,
                 ready>>

\* The task that on_close spawned.
Check ==
  /\ checks > 0
  /\ checks' = checks - 1
  /\ CheckReconnect
  /\ UNCHANGED <<channelVars, finishVars, streamVars, userVars, opener, conns,
                 ready>>

\* A sleep of check_reconnect ends: the flag it leaves, and whether it goes on.
Woken == FALSE
GoesOn == running

Wake(o) ==
  /\ sleepers > 0
  /\ sleepers' = sleepers - 1
  /\ running' = Woken
  /\ IF GoesOn /\ ~isOpen THEN Spawn(o) ELSE UNCHANGED opener
  /\ UNCHANGED <<channelVars, finishVars, streamVars, checks, userVars, conns,
                 ready>>
-----------------------------------------------------------------------------
\* read_quit_finish_notify.notify_one, the end of a read loop.
ReadFinished ==
  \/ \E o \in Openers : /\ AwaitsRead(o)
                        /\ opener' = [opener EXCEPT ![o] = NotRead(o)]
                        /\ UNCHANGED readFinish
  \/ /\ \A o \in Openers : ~AwaitsRead(o)
     /\ readFinish' = TRUE
     /\ UNCHANGED opener

\* write_quit_finish_notify.notify_one, the end of a write loop.
WriteFinished ==
  \/ \E o \in Openers : /\ AwaitsWrite(o)
                        /\ opener' = [opener EXCEPT ![o] = NotWrite(o)]
                        /\ UNCHANGED writeFinish
  \/ /\ \A o \in Openers : ~AwaitsWrite(o)
     /\ writeFinish' = TRUE
     /\ UNCHANGED opener

ReaderFrame == UNCHANGED <<writeFinish, streamVars, reconnectVars, userVars,
                           conns, ready>>

\* The top of the read loop, after its start and after each package.
ReaderTop(c) ==
  /\ reader[c] \in {"starting", "quitting"}
  /\ IF isOpen THEN /\ reader' = [reader EXCEPT ![c] = "reading"]
                    /\ UNCHANGED <<readFinish, opener>>
     ELSE reader' = [reader EXCEPT ![c] = "ended"] /\ ReadFinished
  /\ UNCHANGED <<isOpen, writer, sendPermit>>
  /\ ReaderFrame

\* quit_notify
ReaderQuits(c) ==
  /\ reader[c] = "quitting"
  /\ reader' = [reader EXCEPT ![c] = "ended"]
  /\ ReadFinished
  /\ UNCHANGED <<isOpen, writer, sendPermit>>
  /\ ReaderFrame

\* The connection is lost: do_close.
ReaderFails(c) ==
  /\ reader[c] \in {"reading", "quitting"}
  /\ Close([reader EXCEPT ![c] = "ended"], writer, FALSE)
  /\ ReadFinished
  /\ ReaderFrame
-----------------------------------------------------------------------------
\* The write loop has ended: on_close makes the rpc not ready, runs the user's
\* callback and spawns check_reconnect; then it tells the one who waits.
WriterLeaves(c) ==
  /\ ready' = FALSE
  /\ checks' = checks + 1
  /\ WriteFinished
  /\ orphaned' = (orphaned \/ next[c] = "body")
  /\ next' = [next EXCEPT ![c] = "header"]
  /\ UNCHANGED <<readFinish, sendQueue, unframed, sleepers, running,
                 userVars, conns>>

\* The top of the write loop.  The next piece is taken, whoever queued it.
WriterTop(c) ==
  /\ writer[c] = "top"
  /\ UNCHANGED <<isOpen, reader>>
  /\ \/ /\ ~isOpen
        /\ writer' = [writer EXCEPT ![c] = "ended"]
        /\ UNCHANGED sendPermit
        /\ WriterLeaves(c)
     \/ /\ isOpen /\ sendQueue # <<>>
        /\ writer' = [writer EXCEPT ![c] = "writing"]
        /\ sendQueue' = Tail(sendQueue)
        /\ next' = [next EXCEPT ![c] = IF Head(sendQueue) = "header" THEN "body"
                                       ELSE "header"]
        /\ unframed' = (unframed \/ Head(sendQueue) # next[c])
        /\ UNCHANGED <<sendPermit, finishVars, orphaned, reconnectVars, userVars,
                       opener, conns, ready>>
     \/ /\ isOpen /\ sendQueue = <<>>
        /\ writer' = [writer EXCEPT ![c] = IF sendPermit THEN "top" ELSE "idle"]
        /\ sendPermit' = FALSE
        /\ UNCHANGED <<finishVars, streamVars, reconnectVars, userVars, opener,
                       conns, ready>>

\* The piece is written, perhaps at the moment quit_notify comes.
Written(c) ==
  /\ writer[c] \in {"writing", "stopping"}
  /\ writer' = [writer EXCEPT ![c] = "top"]
  /\ UNCHANGED <<isOpen, reader, sendPermit, finishVars, streamVars,
                 reconnectVars, userVars, opener, conns, ready>>

\* The write fails, or quit_notify ends it: do_close.
WriterFails(c) ==
  /\ writer[c] \in {"writing", "stopping"}
  /\ Close(reader, [writer EXCEPT ![c] = "ended"], FALSE)
  /\ WriterLeaves(c)
-----------------------------------------------------------------------------
TcpNext ==
  \/ \E o \in Openers :
       \/ Open(o)
       \/ OpenerStart(o)
       \/ Connected(o)
       \/ Refused(o)
       \/ Wake(o)
  \/ UserClose
  \/ CancelReconnect
  \/ Send
  \/ Check
  \/ \E c \in Conns :
       \/ ReaderQuits(c)
       \/ ReaderTop(c)
       \/ ReaderFails(c)
       \/ WriterTop(c)
       \/ Written(c)
       \/ WriterFails(c)

TcpSpec == TcpInit /\ [][TcpNext]_tcpVars

\* A task that can run is run in the end, a sleep ends, and an attempt to
\* connect fails if it does not succeed.  A connection need never be lost, and
\* a write that is not told to stop need never end.
FairTcpSpec ==
  /\ TcpSpec
  /\ \A o \in Openers : /\ WF_tcpVars(OpenerStart(o))
                        /\ WF_tcpVars(Connected(o) \/ Refused(o))
  /\ WF_tcpVars(\E o \in Openers : Wake(o))
  /\ WF_tcpVars(Check)
  /\ \A c \in Conns :
       /\ WF_tcpVars(ReaderTop(c) \/ ReaderQuits(c))
       /\ WF_tcpVars(WriterTop(c))
       /\ WF_tcpVars(writer[c] = "stopping" /\ (Written(c) \/ WriterFails(c)))
-----------------------------------------------------------------------------
(* Properties *)

Loops == {"none", "ended", "top", "writing", "stopping", "idle"}

\* The variables keep their types, and there are never more reconnect timers
\* than those the user stopped while they slept, and one (tcp_client.rs,
\* check_reconnect).
TcpTypeOK ==
  /\ isOpen \in BOOLEAN /\ sendPermit \in BOOLEAN
  /\ readFinish \in BOOLEAN /\ writeFinish \in BOOLEAN
  /\ running \in BOOLEAN /\ ready \in BOOLEAN /\ orphaned \in BOOLEAN
  /\ raced \in BOOLEAN /\ stopped \in BOOLEAN
  /\ conns \in 0 .. MaxConns
  /\ reader \in [Conns -> {"none", "starting", "reading", "quitting", "ended"}]
  /\ writer \in [Conns -> Loops]
  /\ opener \in [Openers -> {"idle", "spawned", "connecting"} \cup Waits]
  /\ sendQueue \in Seq({"header", "body"}) /\ Len(sendQueue) <= MaxQueue
  /\ checks \in Nat /\ sleepers \in 0 .. MaxSleepers
  /\ next \in [Conns -> {"header", "body"}] /\ unframed \in BOOLEAN

\* reconnect_timer_running stands for a sleep of check_reconnect that will end,
\* whatever close(), cancel_reconnect() and open() did while others slept: were
\* the flag left behind by one of them, the client would never reconnect again
\* (tcp_client.rs, check_reconnect).
TimerArmed == running => sleepers > 0

\* As long as the user opens only when nothing of before is under way, however
\* connections are lost and made again: there is one write loop at most, which
\* takes the pieces of the queue; an open channel has an rpc that is ready; and
\* with no loop left the rpc is not (tcp_channel.rs, do_open; rpc_client.rs,
\* on_open and on_close).
OneConnection ==
  ~raced =>
    /\ \A c, d \in Conns : Alive(writer[c]) /\ Alive(writer[d]) => c = d
    /\ isOpen => ready
    /\ ready => \E c \in Conns : Alive(writer[c])

\* The peer gets header and body in turn, unless a connection was lost, or the
\* channel closed, between a header and its body, or loops of two connections
\* ran at once: the queue outlives the connection (tcp_channel.rs, send_queue).
FramedStream == unframed => raced \/ orphaned

\* A connection that is lost is followed by another attempt, if reconnecting is
\* on and the user has not stopped it: the write loop always notices, wherever it
\* waits, and its on_close always finds or starts the timer (tcp_channel.rs,
\* do_close; tcp_client.rs, check_reconnect).
Reconnects ==
  (Reconnect /\ conns > 0 /\ ~isOpen)
    ~> (isOpen \/ stopped \/ \E o \in Openers : opener[o] # "idle")
=============================================================================
