------------------------------ MODULE RpcLink ------------------------------
(***************************************************************************)
(* Two rpc objects joined by a connection: the calling side of one         *)
(* (CallSide), the serving side of the other (ServeSide), and the packages *)
(* between them.  A connection carries whole packages (connection.hpp); it *)
(* may delay, reorder and lose them, and does not duplicate them.          *)
(*                                                                         *)
(* A step is a step of one side, joined with what it puts on the wire or   *)
(* takes from it.  A synchronous connection (loopback_connection) is the   *)
(* order in which each package is taken as soon as it is sent.             *)
(***************************************************************************)
EXTENDS CallSide

CONSTANTS
  Cmds, Ping, NoSeq,  \* of ServeSide
  CmdOf               \* the command of each request, or Ping

VARIABLES
  cmdHandleMap, running, runCmd, asked, holds, rspReady, rspSet, isReadySet,
  hooked, connAlive, replies, answers,   \* of ServeSide
  packages,  \* the command packages sent and not yet received
  attempt    \* history, for each number in use: the request that sent a
             \* package under it and what the peer did with the package

Peer == INSTANCE ServeSide

ASSUME LinkAssumption ==
  /\ Ping \notin Cmds /\ NoSeq \notin Seqs
  /\ CmdOf \in [Requests -> Cmds \cup {Ping}]

peerVars == <<cmdHandleMap, running, runCmd, asked, holds, rspReady, rspSet,
              isReadySet, hooked, connAlive, replies, answers>>
linkVars == <<vars, peerVars, packages, attempt>>

Outcomes == {"none", "ran", "no_such_cmd", "discarded"}
NoAttempt == [req |-> NoReq, did |-> "none"]

LinkInit ==
  /\ Init /\ Peer!ServeInit
  /\ packages = {}
  /\ attempt = [s \in Seqs |-> NoAttempt]
-----------------------------------------------------------------------------
\* Bugs the properties below are tried against.
ResultPlain(kind) == {"normal"}           \* no_such_cmd is not looked at

AnswerAlways(a) ==                        \* the handler table is not looked at
  /\ attempt[a.seq].req \in waitingRsp
  /\ OnFinish(attempt[a.seq].req, "normal")
  /\ UNCHANGED <<canceled, needRsp, bound, retryCount, seq, rspHandleMap,
                 timers, isReady, rpcAlive, requests, held, fault>>
-----------------------------------------------------------------------------
\* The numbers still used by the wire or the peer (SeqWindow, a bound: see
\* FreshSeqs).
Busy ==
  {p.seq : p \in packages} \cup {a.seq : a \in replies} \cup holds
    \cup ({running} \ {NoSeq})

\* The history of the numbers still in use after the step is kept.
Track(f) ==
  attempt' = [s \in Seqs |->
    IF s \in Busy' \/ rspHandleMap'[s] # NoReq THEN f[s] ELSE NoAttempt]

\* send_package_impl of a request: r puts a package under its new number on the
\* wire if call() got so far.
Send(r, reached) ==
  IF r \notin canceled /\ reached /\ isReady
  THEN /\ seq'[r] \notin Busy
       /\ packages' = packages \cup
            {[seq |-> seq'[r], cmd |-> CmdOf[r], need |-> r \in needRsp]}
       /\ Track([attempt EXCEPT ![seq'[r]] = [req |-> r, did |-> "none"]])
  ELSE UNCHANGED packages /\ Track(attempt)

\* The user calls call() or call(rpc).
LinkCall(r, given) ==
  /\ Call(r, given)
  /\ UNCHANGED peerVars
  /\ Send(r, given \/ (rpcAlive /\ r \in bound))

\* A timer fires; a retry sends a package.
LinkTimer(s) ==
  /\ TimerFire(s)
  /\ UNCHANGED peerVars
  /\ LET r == rspHandleMap[s] IN
       IF r \in Requests /\ ~fault' /\ retryCount[r] # 0
       THEN Send(r, r \in bound)
       ELSE UNCHANGED packages /\ Track(attempt)

\* A step of the user of the calling side that sends nothing.
LinkUser ==
  /\ \/ \E r \in Requests :
          \/ Cancel(r) \/ AddTo(r) \/ Remove(r) \/ Drop(r)
          \/ \E on \in BOOLEAN : SetCanceled(r, on) \/ SetNeedRsp(r, on)
     \/ Dismiss
     \/ \E ready \in BOOLEAN : SetReady(ready)
     \/ Expire
  /\ UNCHANGED <<peerVars, packages>>
  /\ Track(attempt)

\* The peer receives a command.
LinkServe(p) ==
  /\ Peer!Recv(p)
  /\ packages' = packages \ {p}
  /\ UNCHANGED vars
  /\ Track([attempt EXCEPT ![p.seq].did =
       IF running' = p.seq THEN "ran"
       ELSE IF answers'[p.seq] = 0 THEN "discarded"
       ELSE IF p.cmd = Ping THEN "ran" ELSE "no_such_cmd"])

\* A step of the peer's user, or its handler returns.  The peer keeps its
\* connection object: one without it is a peer whose answers are all lost.
LinkPeer ==
  /\ \/ \E c \in Cmds, kind \in Peer!HandlerKinds : Peer!Subscribe(c, kind)
     \/ \E s \in Seqs : Peer!UserRsp(s) \/ Peer!DropRR(s)
     \/ Peer!Return
  /\ UNCHANGED <<vars, packages>>
  /\ Track(attempt)

\* What request::rsp makes of an answer: the no_such_cmd flag comes first, then
\* the body decodes or does not.
Result(kind) ==
  IF kind = "no_such_cmd" THEN {"no_such_cmd"}
  ELSE {"normal", "rsp_serialize_error"}

\* An answer reaches the calling side: its handler takes it, or nobody waits
\* for it any more.
Answer(a) ==
  \/ \E type \in Result(a.kind) : RecvRsp(a.seq, type)
  \/ rspHandleMap[a.seq] = NoReq /\ UNCHANGED vars

LinkAnswer(a) ==
  /\ Peer!Deliver(a)
  /\ Answer(a)
  /\ UNCHANGED packages
  /\ Track(attempt)

\* The connection loses a package or an answer.
Lose ==
  /\ \/ \E p \in packages :
          /\ packages' = packages \ {p}
          /\ UNCHANGED peerVars
     \/ \E a \in replies :
          /\ Peer!Deliver(a)
          /\ UNCHANGED packages
  /\ UNCHANGED vars
  /\ Track(attempt)

LinkNext ==
  \/ \E r \in Requests, given \in BOOLEAN : LinkCall(r, given)
  \/ \E s \in Seqs : LinkTimer(s)
  \/ LinkUser
  \/ \E p \in packages : LinkServe(p)
  \/ LinkPeer
  \/ \E a \in replies : LinkAnswer(a)
  \/ Lose

LinkSpec == LinkInit /\ [][LinkNext]_linkVars
-----------------------------------------------------------------------------
(***************************************************************************)
(* Properties                                                              *)
(***************************************************************************)
\* The variables of the link keep their types.
LinkTypeOK ==
  /\ TypeOK /\ Peer!ServeTypeOK
  /\ packages \subseteq Peer!Packages
  /\ attempt \in [Seqs -> [req : Requests \cup {NoReq}, did : Outcomes]]

\* Hazard: an answer delivered to another call than the one that asked, or a
\* call reported done that the peer never did, after retries, lost packages and
\* late answers.  A call that is neither canceled nor overlapped ends "normal"
\* (or with an answer that does not decode) only if its own last package made
\* the peer run the handler, and "no_such_cmd" only if the peer had none for it.
AnswerIsThePeers ==
  [][\A r \in waitingRsp \ Interrupted : r \notin waitingRsp' =>
       /\ finallyType'[r] \in {"normal", "rsp_serialize_error"}
            => attempt[seq[r]] = [req |-> r, did |-> "ran"]
       /\ finallyType'[r] = "no_such_cmd"
            => attempt[seq[r]] = [req |-> r, did |-> "no_such_cmd"]
    ]_linkVars

\* Hazard: the peer answers a package it discarded, or as if it had run it.
\* Every answer on the wire is one its package brought about.
AnswersBroughtAbout ==
  \A a \in replies :
    attempt[a.seq].did = IF a.kind = "normal" THEN "ran" ELSE "no_such_cmd"

\* What the peer did about the newest package of r, as long as its answer can
\* still be taken.
Served(r) == IF rspHandleMap[seq[r]] = r THEN attempt[seq[r]].did ELSE "none"

\* Hazard: a retry, a late answer or the end of the rpc makes a call report what
\* no attempt of it deserves.  The two ends and the connection between them
\* implement RemoteCall for the requests that are neither canceled nor
\* overlapped: each attempt is served once at most, the newest decides what the
\* call is told, and only a call without retries left is told "timeout".
Tracked == {r \in Requests \ Interrupted : Registers(r)}
Remote == INSTANCE RemoteCall WITH
  Requests <- Tracked, Types <- FinallyTypes,
  Retry0 <- [r \in Tracked |-> Retry0[r]],
  calling <- waitingRsp \cap Tracked,
  left <- [r \in Tracked |-> retryCount[r]],
  served <- [r \in Tracked |-> Served(r)],
  result <- [r \in Tracked |-> finallyType[r]],
  alive <- rpcAlive
ImplementsRemoteCall == Remote!Spec
-----------------------------------------------------------------------------
(***************************************************************************)
(* What makes the properties above hold after any number of steps          *)
(***************************************************************************)
\* The handler registered for a number is that of the request whose package
\* bears or bore it.
HandlersMatch ==
  \A s \in Seqs : rspHandleMap[s] # NoReq => attempt[s].req = rspHandleMap[s]

\* A package on its way to the peer is the only trace of its number there.
PackagesApart ==
  \A p \in packages :
    /\ p.seq \notin holds /\ p.seq # running
    /\ \A a \in replies : a.seq # p.seq
    /\ \A q \in packages : q.seq = p.seq => q = p

\* The peer has done nothing yet about a package on its way.
PackagesUnserved == \A p \in packages : attempt[p.seq].did = "none"

\* The handler of what runs or waits at the peer has been run.
PeerTrue ==
  /\ \A s \in holds : attempt[s].did = "ran"
  /\ running # NoSeq => attempt[running].did = "ran"

\* The inductive invariant.
LinkIInv ==
  /\ IInv /\ LinkTypeOK
  /\ HandlersMatch /\ PackagesApart /\ PeerTrue /\ AnswersBroughtAbout
=============================================================================
