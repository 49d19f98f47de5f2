--------------------------- MODULE RpcLinkProofs ---------------------------
(***************************************************************************)
(* Proofs about RpcLink, for any requests, commands and numbers: a call    *)
(* ends with the answer the peer gave to its own last package, whatever    *)
(* the connection loses, delays or reorders.                               *)
(***************************************************************************)
EXTENDS RpcLink, CallSideProofs, TLAPS

\* f is what is known of the numbers in use after the step.
StillKnown(f) ==
  \A s \in Seqs : s \in Busy' \/ rspHandleMap'[s] # NoReq => attempt'[s] = f[s]

\* The step registers no handler.
NoneRegistered ==
  \A s \in Seqs : rspHandleMap'[s] = NoReq \/ rspHandleMap'[s] = rspHandleMap[s]

\* Whether call() of r gets as far as sending.
Sends(r, reached) == r \notin canceled /\ reached /\ isReady

LEMMA TrackKept ==
  ASSUME NEW f \in [Seqs -> [req : Requests \cup {NoReq}, did : Outcomes]], Track(f)
  PROVE  /\ attempt' \in [Seqs -> [req : Requests \cup {NoReq}, did : Outcomes]]
         /\ StillKnown(f)
<1>1. NoAttempt \in [req : Requests \cup {NoReq}, did : Outcomes]
  BY DEF NoAttempt, Outcomes
<1>2. attempt' = [s \in Seqs |->
         IF s \in Busy' \/ rspHandleMap'[s] # NoReq THEN f[s] ELSE NoAttempt]
  BY DEF Track
<1> HIDE DEF NoAttempt
<1> QED BY <1>1, <1>2 DEF StillKnown

LEMMA CallBodySends ==
  ASSUME TypeOK, EntryHasTimer, NEW q \in Requests, NEW reached, NEW debt,
         NEW gone, NEW fresh \in SUBSET FreshSeqs,
         CallBody(q, reached, debt, gone, fresh)
  PROVE  /\ Sends(q, reached) =>
              /\ seq'[q] \in Seqs /\ rspHandleMap[seq'[q]] = NoReq
              /\ \A s \in Seqs : s # seq'[q] =>
                   rspHandleMap'[s] = NoReq \/ rspHandleMap'[s] = rspHandleMap[s]
              /\ rspHandleMap'[seq'[q]] \in {NoReq, q}
         /\ ~Sends(q, reached) => NoneRegistered
<1>1. CASE \E type \in FinallyTypes :
             CallRefused(q, reached, type) /\ rspHandleMap' = Without(gone)
  BY <1>1 DEF CallRefused, Sends, NoneRegistered, Without
<1>2. CASE /\ q \notin canceled /\ reached /\ isReady
           /\ \E n \in fresh : SendRequest(q, n, gone)
  <2>1. PICK n \in fresh : SendRequest(q, n, gone)
    BY <1>2
  <2>2. n \in Seqs /\ n \notin timers
    BY DEF FreshSeqs
  <2>3. seq'[q] = n
    BY <2>1 DEF SendRequest, TypeOK
  <2>4. rspHandleMap[n] = NoReq
    BY <2>2 DEF EntryHasTimer
  <2>5. \A s \in Seqs : rspHandleMap'[s] =
          IF s \in Subscribed(q, n) THEN q ELSE Without(gone)[s]
    BY <2>1 DEF SendRequest
  <2>6. Subscribed(q, n) = {n} \/ Subscribed(q, n) = {}
    BY DEF Subscribed
  <2>7. \A s \in Seqs : Without(gone)[s] = NoReq \/ Without(gone)[s] = rspHandleMap[s]
    BY DEF Without
  <2> QED BY <1>2, <2>2, <2>3, <2>4, <2>5, <2>6, <2>7 DEF Sends
<1> QED BY <1>1, <1>2 DEF CallBody
-----------------------------------------------------------------------------
(* The calling side. *)

LEMMA AnswerIsRecv ==
  ASSUME LinkTypeOK, NEW a \in replies, Answer(a)
  PROVE  [Next]_vars
<1>1. a.seq \in Seqs
  BY DEF LinkTypeOK, Peer!ServeTypeOK
<1>2. Result(a.kind) \subseteq AnswerKinds
  BY DEF Result, AnswerKinds
<1> QED BY <1>1, <1>2 DEF Answer, Next

\* Every step of the link is one of CallSide, or leaves it alone.
LEMMA LinkStepIsCallStep ==
  ASSUME LinkTypeOK, [LinkNext]_linkVars
  PROVE  [Next]_vars
<1>1. ASSUME NEW r \in Requests, NEW given \in BOOLEAN, LinkCall(r, given)
      PROVE  Next
  BY <1>1 DEF LinkCall, Next
<1>2. ASSUME NEW s \in Seqs, LinkTimer(s) PROVE Next
  BY <1>2 DEF LinkTimer, Next
<1>3. CASE LinkUser
  BY <1>3 DEF LinkUser, Next
<1>4. CASE \E p \in packages : LinkServe(p)
  BY <1>4 DEF LinkServe
<1>5. CASE LinkPeer \/ Lose
  BY <1>5 DEF LinkPeer, Lose
<1>6. ASSUME NEW a \in replies, LinkAnswer(a) PROVE [Next]_vars
  BY <1>6, AnswerIsRecv DEF LinkAnswer
<1>7. CASE UNCHANGED linkVars
  BY <1>7 DEF linkVars
<1> QED BY <1>1, <1>2, <1>3, <1>4, <1>5, <1>6, <1>7 DEF LinkNext
-----------------------------------------------------------------------------
(* The serving side. *)

\* Every step of the link is one of ServeSide, or leaves it alone.
LEMMA LinkStepIsServeStep ==
  ASSUME LinkTypeOK, [LinkNext]_linkVars
  PROVE  [Peer!ServeNext]_peerVars
<1>1. CASE \/ \E r \in Requests, given \in BOOLEAN : LinkCall(r, given)
           \/ \E s \in Seqs : LinkTimer(s)
           \/ LinkUser
  BY <1>1 DEF LinkCall, LinkTimer, LinkUser
<1>2. ASSUME NEW p \in packages, LinkServe(p) PROVE Peer!ServeNext
  BY <1>2 DEF LinkServe, LinkTypeOK, Peer!ServeNext
<1>3. CASE LinkPeer
  BY <1>3 DEF LinkPeer, Peer!ServeNext
<1>4. ASSUME NEW a \in replies, LinkAnswer(a) PROVE Peer!ServeNext
  BY <1>4 DEF LinkAnswer, Peer!ServeNext
<1>5. CASE Lose
  BY <1>5 DEF Lose, Peer!ServeNext
<1>6. CASE UNCHANGED linkVars
  BY <1>6 DEF linkVars
<1> QED BY <1>1, <1>2, <1>3, <1>4, <1>5, <1>6 DEF LinkNext

LEMMA ServeTypeStep ==
  ASSUME Peer!ServeTypeOK, [Peer!ServeNext]_peerVars
  PROVE  Peer!ServeTypeOK'
<1> USE DEF Peer!ServeTypeOK
<1>1. ASSUME NEW c \in Cmds, NEW kind \in Peer!HandlerKinds,
             Peer!Subscribe(c, kind)
      PROVE  Peer!ServeTypeOK'
  BY <1>1 DEF Peer!Subscribe
<1>2. ASSUME NEW p \in Peer!Packages, Peer!Refuse(p) \/ Peer!Discard(p)
      PROVE  Peer!ServeTypeOK'
  <2>1. /\ p.seq \in Seqs
        /\ asked' \subseteq asked /\ rspReady' \subseteq rspReady
        /\ isReadySet' \subseteq isReadySet /\ hooked' \subseteq hooked
        /\ rspSet' \subseteq rspSet
        /\ UNCHANGED <<cmdHandleMap, running, runCmd, holds, connAlive>>
    BY <1>2 DEF Peer!Refuse, Peer!Discard, Peer!Forget, Peer!Packages
  <2>2. PICK n \in {0, 1} : answers' = [answers EXCEPT ![p.seq] = n]
    BY <1>2 DEF Peer!Refuse, Peer!Discard
  <2>3. replies' \subseteq replies \cup [seq : {p.seq}, kind : Peer!ReplyKinds]
    BY <1>2 DEF Peer!Refuse, Peer!Discard, Peer!ReplyKinds
  <2> QED BY <2>1, <2>2, <2>3
<1>3. ASSUME NEW p \in Peer!Packages, Peer!Start(p) PROVE Peer!ServeTypeOK'
  <2>1. /\ p.seq \in Seqs /\ p.cmd \in Cmds
        /\ running' = p.seq /\ runCmd' = p.cmd
        /\ answers' = [answers EXCEPT ![p.seq] = 0]
        /\ UNCHANGED <<cmdHandleMap, connAlive, replies>>
    BY <1>3 DEF Peer!Start, Peer!Packages
  <2>2. /\ asked' \subseteq asked \cup {p.seq}
        /\ holds' \subseteq holds \cup {p.seq}
        /\ rspReady' \subseteq rspReady /\ rspSet' \subseteq rspSet \cup {p.seq}
        /\ isReadySet' \subseteq isReadySet \cup {p.seq}
        /\ hooked' \subseteq hooked
    BY <1>3 DEF Peer!Start
  <2> QED BY <2>1, <2>2
<1>4. ASSUME NEW s \in Seqs, Peer!UserRsp(s) PROVE Peer!ServeTypeOK'
  BY <1>4 DEF Peer!UserRsp, Peer!Respond, Peer!Reply, Peer!ReplyKinds
<1>5. ASSUME NEW s \in Seqs, Peer!DropRR(s) PROVE Peer!ServeTypeOK'
  BY <1>5 DEF Peer!DropRR, Peer!Forget
<1>6. CASE Peer!Return
  <2>1. /\ running \in Seqs /\ running' = NoSeq /\ runCmd' = Ping
        /\ UNCHANGED <<cmdHandleMap, holds, connAlive>>
    BY <1>6 DEF Peer!Return
  <2>2. /\ asked' \subseteq asked /\ rspReady' \subseteq rspReady
        /\ rspSet' \subseteq rspSet /\ isReadySet' \subseteq isReadySet
        /\ hooked' \subseteq hooked \cup {running}
    BY <1>6 DEF Peer!Return, Peer!Forget
  <2>3. UNCHANGED <<replies, answers>> \/ Peer!Reply(running, "normal")
    BY <1>6 DEF Peer!Return
  <2> QED BY <2>1, <2>2, <2>3 DEF Peer!Reply, Peer!ReplyKinds
<1>7. CASE Peer!LoseConn
  BY <1>7 DEF Peer!LoseConn
<1>8. ASSUME NEW a \in replies, Peer!Deliver(a) PROVE Peer!ServeTypeOK'
  BY <1>8 DEF Peer!Deliver
<1>9. CASE UNCHANGED peerVars
  BY <1>9 DEF peerVars
<1> QED BY <1>1, <1>2, <1>3, <1>4, <1>5, <1>6, <1>7, <1>8, <1>9
        DEF Peer!ServeNext, Peer!Recv
-----------------------------------------------------------------------------
(* The packages and their history. *)

Attempts == [Seqs -> [req : Requests \cup {NoReq}, did : Outcomes]]

\* The part of the invariant that is about the link itself.
LinkParts ==
  /\ packages \subseteq Peer!Packages /\ attempt \in Attempts
  /\ HandlersMatch /\ PackagesApart /\ PeerTrue /\ AnswersBroughtAbout

LEMMA InUse ==
  ASSUME LinkTypeOK
  PROVE  /\ packages \subseteq Peer!Packages /\ attempt \in Attempts
         /\ \A p \in packages : p.seq \in Seqs /\ p.seq \in Busy
         /\ \A a \in replies : a.seq \in Seqs /\ a.seq \in Busy
         /\ \A s \in holds : s \in Seqs /\ s \in Busy
         /\ running # NoSeq => running \in Seqs /\ running \in Busy
BY DEF LinkTypeOK, Peer!ServeTypeOK, Peer!Packages, Busy, Attempts

\* A step that puts nothing on the wire and takes nothing from it.
LEMMA QuietInv ==
  ASSUME LinkIInv, UNCHANGED <<peerVars, packages>>, Track(attempt), NoneRegistered
  PROVE  LinkParts'
<1>1. LinkTypeOK
  BY DEF LinkIInv
<1>2. attempt' \in Attempts /\ StillKnown(attempt)
  BY <1>1, TrackKept DEF LinkTypeOK, Attempts
<1>3. UNCHANGED <<packages, replies, holds, running, Busy>>
  BY DEF peerVars, Busy
<1>4. \A s \in Seqs : s \in Busy \/ rspHandleMap'[s] # NoReq => attempt'[s] = attempt[s]
  BY <1>2, <1>3 DEF StillKnown
<1>5. packages' \subseteq Peer!Packages
  BY <1>1, <1>3, InUse DEF Peer!Packages
<1>6. HandlersMatch'
  BY <1>4 DEF LinkIInv, HandlersMatch, NoneRegistered
<1>7. PackagesApart'
  BY <1>3 DEF LinkIInv, PackagesApart
<1>8. PeerTrue' /\ AnswersBroughtAbout'
  BY <1>1, <1>3, <1>4, InUse DEF LinkIInv, PeerTrue, AnswersBroughtAbout
<1> QED BY <1>2, <1>5, <1>6, <1>7, <1>8 DEF LinkParts

\* call() sends a package under a number nobody uses.
LEMMA SendInv ==
  ASSUME LinkIInv, NEW r \in Requests, NEW reached, NEW debt, NEW gone,
         NEW fresh \in SUBSET FreshSeqs,
         CallBody(r, reached, debt, gone, fresh), Send(r, reached),
         UNCHANGED peerVars
  PROVE  LinkParts'
<1>1. LinkTypeOK /\ TypeOK /\ EntryHasTimer
  BY DEF LinkIInv, IInv
<1>2. CASE ~Sends(r, reached)
  <2>1. NoneRegistered
    BY <1>1, <1>2, CallBodySends
  <2>2. UNCHANGED packages /\ Track(attempt)
    BY <1>2 DEF Sends, Send
  <2> QED BY <2>1, <2>2, QuietInv
<1>3. CASE Sends(r, reached)
  <2> DEFINE n == seq'[r]
             p == [seq |-> n, cmd |-> CmdOf[r], need |-> r \in needRsp]
             f == [attempt EXCEPT ![n] = [req |-> r, did |-> "none"]]
  <2>1. /\ n \in Seqs /\ rspHandleMap[n] = NoReq
        /\ \A s \in Seqs : s # n =>
             rspHandleMap'[s] = NoReq \/ rspHandleMap'[s] = rspHandleMap[s]
        /\ rspHandleMap'[n] \in {NoReq, r}
    BY <1>1, <1>3, CallBodySends
  <2>2. n \notin Busy /\ packages' = packages \cup {p} /\ Track(f)
    BY <1>3 DEF Sends, Send
  <2>3. f \in Attempts /\ f[n] = [req |-> r, did |-> "none"]
        /\ \A s \in Seqs : s # n => f[s] = attempt[s]
    BY <1>1, <2>1 DEF LinkTypeOK, Attempts, Outcomes
  <2>4. p \in Peer!Packages /\ p.seq = n
    BY <2>1, LinkAssumption DEF LinkAssumption, Peer!Packages
  <2> HIDE DEF p, f, n
  <2>5. attempt' \in Attempts /\ StillKnown(f)
    BY <2>2, <2>3, TrackKept DEF Attempts
  <2>6. UNCHANGED <<replies, holds, running>>
    BY DEF peerVars
  <2>7. packages' \subseteq Peer!Packages
    BY <1>1, <2>2, <2>4, InUse DEF Peer!Packages
  <2>8. Busy \subseteq Busy'
    BY <2>2, <2>6 DEF Busy
  <2>9. \A s \in Busy \cap Seqs : attempt'[s] = attempt[s]
    BY <2>2, <2>3, <2>5, <2>8 DEF StillKnown
  <2>10. HandlersMatch'
    BY <2>1, <2>3, <2>5 DEF LinkIInv, HandlersMatch, StillKnown
  <2>11. PackagesApart'
    <3>1. /\ n \notin holds /\ n # running /\ \A a \in replies : a.seq # n
          /\ \A q \in packages : q.seq # n
      BY <1>1, <2>1, <2>2, LinkAssumption DEF Busy, LinkAssumption
    <3> QED BY <2>2, <2>4, <2>6, <3>1 DEF LinkIInv, PackagesApart
  <2>12. PeerTrue' /\ AnswersBroughtAbout'
    BY <1>1, <2>6, <2>9, InUse DEF LinkIInv, PeerTrue, AnswersBroughtAbout
  <2> QED BY <2>5, <2>7, <2>10, <2>11, <2>12 DEF LinkParts
<1> QED BY <1>2, <1>3

LEMMA TimerInv ==
  ASSUME LinkIInv, NEW s \in Seqs, LinkTimer(s)
  PROVE  LinkParts'
<1> DEFINE r == rspHandleMap[s]
<1>1. UNCHANGED peerVars
  BY DEF LinkTimer
<1>2. CASE r \in Requests /\ ~fault' /\ retryCount[r] # 0
  <2>1. Send(r, r \in bound) /\ r # NoReq
    BY <1>2, CallSideAssumption DEF LinkTimer, CallSideAssumption
  <2>2. ~UseDestroyed(s)
    BY <1>2 DEF UseDestroyed
  <2>3. Timeout(r, s)
    BY <2>1, <2>2 DEF LinkTimer, TimerFire
  <2>4. CallBody(r, r \in bound, owed[r], {s}, FreshSeqs)
    BY <1>2, <2>3 DEF Timeout
  <2> QED BY <1>1, <1>2, <2>1, <2>4, SendInv
<1>3. CASE ~(r \in Requests /\ ~fault' /\ retryCount[r] # 0)
  <2>1. UNCHANGED packages /\ Track(attempt)
    BY <1>3 DEF LinkTimer
  <2>2. NoneRegistered
    <3>1. CASE UNCHANGED rspHandleMap
      BY <3>1 DEF NoneRegistered
    <3>2. CASE /\ r \in Requests /\ Timeout(r, s) /\ UNCHANGED fault
      <4>1. ~fault
        BY DEF LinkTimer, TimerFire
      <4>2. retryCount[r] = 0
        BY <1>3, <3>2, <4>1
      <4> QED BY <3>2, <4>2 DEF Timeout, NoneRegistered, Without
    <3> QED BY <3>1, <3>2 DEF LinkTimer, TimerFire, UseDestroyed
  <2> QED BY <1>1, <2>1, <2>2, QuietInv DEF peerVars
<1> QED BY <1>2, <1>3

LEMMA LinkCallInv ==
  ASSUME LinkIInv, NEW r \in Requests, NEW given \in BOOLEAN, LinkCall(r, given)
  PROVE  LinkParts'
<1>1. PICK reached, debt :
        /\ reached = (given \/ (rpcAlive /\ r \in bound))
        /\ CallBody(r, reached, debt, {}, CallSeqs)
  BY DEF LinkCall, Call
<1>2. CallSeqs \in SUBSET FreshSeqs
  BY DEF CallSeqs
<1> QED BY <1>1, <1>2, SendInv DEF LinkCall

LEMMA LinkUserInv ==
  ASSUME LinkIInv, LinkUser
  PROVE  LinkParts'
<1>1. NoneRegistered
  BY DEF LinkUser, Cancel, AddTo, Remove, Drop, SetCanceled, SetNeedRsp,
         Dismiss, SetReady, Expire, Without, NoneRegistered
<1> QED BY <1>1, QuietInv DEF LinkUser

\* The peer takes a package: what it does with it is what the history says.
LEMMA LinkServeInv ==
  ASSUME LinkIInv, NEW p \in packages, LinkServe(p)
  PROVE  LinkParts'
<1> DEFINE n == p.seq
           did == IF running' = n THEN "ran"
                  ELSE IF answers'[n] = 0 THEN "discarded"
                  ELSE IF p.cmd = Ping THEN "ran" ELSE "no_such_cmd"
           f == [attempt EXCEPT ![n].did = did]
<1>1. LinkTypeOK /\ n \in Seqs /\ p \in Peer!Packages
  BY InUse DEF LinkIInv
<1>2. /\ packages' = packages \ {p} /\ UNCHANGED vars /\ Track(f)
      /\ running = NoSeq /\ n # NoSeq
  BY <1>1, LinkAssumption DEF LinkServe, Peer!Recv, LinkAssumption
<1>3. /\ n \notin holds
      /\ \A a \in replies : a.seq # n
      /\ \A q \in packages : q.seq = n => q = p
  BY DEF LinkIInv, PackagesApart
<1>4. did \in Outcomes
  BY DEF Outcomes
<1>5. \* What the peer does.
      \/ /\ UNCHANGED <<holds, running, replies>>
      \/ /\ UNCHANGED <<holds, running>>
         /\ replies' = replies \cup
              {[seq |-> n, kind |-> IF p.cmd = Ping THEN "normal" ELSE "no_such_cmd"]}
         /\ did = IF p.cmd = Ping THEN "ran" ELSE "no_such_cmd"
      \/ /\ running' = n /\ holds' \subseteq holds \cup {n} /\ UNCHANGED replies
         /\ did = "ran"
  <2>1. CASE Peer!Refuse(p)
    <3>1. answers'[n] = 1 /\ UNCHANGED <<holds, running>>
      BY <1>1, <2>1 DEF Peer!Refuse, LinkTypeOK, Peer!ServeTypeOK
    <3>2. did = IF p.cmd = Ping THEN "ran" ELSE "no_such_cmd"
      BY <1>2, <3>1
    <3> QED BY <2>1, <3>1, <3>2 DEF Peer!Refuse
  <2>2. CASE Peer!Discard(p)
    BY <2>2 DEF Peer!Discard
  <2>3. CASE Peer!Start(p)
    BY <2>3 DEF Peer!Start
  <2> QED BY <2>1, <2>2, <2>3 DEF LinkServe, Peer!Recv
<1>6. /\ f \in Attempts /\ f[n].did = did
      /\ \A s \in Seqs : f[s].req = attempt[s].req
      /\ \A s \in Seqs : s # n => f[s] = attempt[s]
  BY <1>1, <1>4 DEF LinkTypeOK, Attempts
<1> HIDE DEF f, did
<1>7. attempt' \in Attempts /\ StillKnown(f)
  BY <1>2, <1>6, TrackKept DEF Attempts
<1> HIDE DEF n
<1>8. packages' \subseteq Peer!Packages
  BY <1>1, <1>2, InUse DEF Peer!Packages
<1>9. HandlersMatch'
  BY <1>2, <1>6, <1>7 DEF LinkIInv, HandlersMatch, StillKnown, vars
<1>10. PackagesApart'
  BY <1>2, <1>3, <1>5 DEF LinkIInv, PackagesApart, n
<1>11. \A s \in Seqs : s \in Busy' => attempt'[s] = f[s]
  BY <1>7 DEF StillKnown
<1>12. PeerTrue'
  <2>1. ASSUME NEW s \in holds' PROVE attempt'[s].did = "ran"
    <3>1. s \in Busy' /\ s \in holds \cup {n}
      BY <1>5 DEF Busy
    <3>2. CASE s \in holds
      BY <1>1, <1>3, <1>6, <1>11, <3>1, <3>2, InUse DEF LinkIInv, PeerTrue
    <3>3. CASE s = n /\ s \notin holds
      BY <1>1, <1>5, <1>6, <1>11, <3>1, <3>3
    <3> QED BY <3>1, <3>2, <3>3
  <2>2. ASSUME running' # NoSeq PROVE attempt'[running'].did = "ran"
    <3>1. running' = n /\ did = "ran"
      BY <1>2, <1>5, <2>2
    <3>2. n \in Busy'
      BY <2>2, <3>1 DEF Busy
    <3> QED BY <1>1, <1>6, <1>11, <3>1, <3>2
  <2> QED BY <2>1, <2>2 DEF PeerTrue
<1>13. AnswersBroughtAbout'
  <2> SUFFICES ASSUME NEW a \in replies'
               PROVE  attempt'[a.seq].did =
                        IF a.kind = "normal" THEN "ran" ELSE "no_such_cmd"
    BY DEF AnswersBroughtAbout
  <2>1. a.seq \in Busy'
    BY DEF Busy
  <2>2. CASE a \in replies
    BY <1>1, <1>3, <1>6, <1>11, <2>1, <2>2, InUse
    DEF LinkIInv, AnswersBroughtAbout
  <2>3. CASE a \notin replies
    <3>1. /\ a.seq = n
          /\ a.kind = IF p.cmd = Ping THEN "normal" ELSE "no_such_cmd"
          /\ did = IF p.cmd = Ping THEN "ran" ELSE "no_such_cmd"
      BY <1>5, <2>3
    <3> QED BY <1>1, <1>6, <1>11, <2>1, <3>1
  <2> QED BY <2>2, <2>3
<1> QED BY <1>7, <1>8, <1>9, <1>10, <1>12, <1>13 DEF LinkParts

\* The peer's user answers, or the handler returns.
LEMMA LinkPeerInv ==
  ASSUME LinkIInv, LinkPeer
  PROVE  LinkParts'
<1>1. LinkTypeOK
  BY DEF LinkIInv
<1>2. UNCHANGED <<vars, packages>> /\ attempt' \in Attempts /\ StillKnown(attempt)
  BY <1>1, TrackKept DEF LinkPeer, LinkTypeOK, Attempts
<1>3. \* Answers come from a held rr, or from the handler that runs.
      /\ holds' \subseteq holds /\ running' \in {running, NoSeq}
      /\ \/ UNCHANGED replies
         \/ \E s \in holds \cup ({running} \ {NoSeq}) :
              replies' = replies \cup {[seq |-> s, kind |-> "normal"]}
  <2>1. ASSUME NEW c \in Cmds, NEW kind \in Peer!HandlerKinds,
               Peer!Subscribe(c, kind)
        PROVE  UNCHANGED <<holds, running, replies>>
    BY <2>1 DEF Peer!Subscribe
  <2>2. ASSUME NEW s \in Seqs, Peer!UserRsp(s)
        PROVE  /\ s \in holds /\ UNCHANGED <<holds, running>>
               /\ \/ UNCHANGED replies
                  \/ replies' = replies \cup {[seq |-> s, kind |-> "normal"]}
    BY <2>2 DEF Peer!UserRsp, Peer!Respond, Peer!Reply
  <2>3. ASSUME NEW s \in Seqs, Peer!DropRR(s)
        PROVE  holds' = holds \ {s} /\ UNCHANGED <<running, replies>>
    BY <2>3 DEF Peer!DropRR
  <2>4. CASE Peer!Return
    BY <2>4 DEF Peer!Return, Peer!Reply
  <2> QED BY <2>1, <2>2, <2>3, <2>4 DEF LinkPeer
<1>4. packages' \subseteq Peer!Packages
  BY <1>1, <1>2, InUse DEF Peer!Packages
<1>5. HandlersMatch'
  BY <1>2 DEF LinkIInv, HandlersMatch, StillKnown, vars
<1>6. PackagesApart'
  <2> SUFFICES ASSUME NEW p \in packages
               PROVE  /\ p.seq \notin holds' /\ p.seq # running'
                      /\ \A a \in replies' : a.seq # p.seq
                      /\ \A q \in packages : q.seq = p.seq => q = p
    BY <1>2 DEF PackagesApart
  <2>1. p.seq # NoSeq
    BY <1>1, InUse, LinkAssumption DEF LinkAssumption
  <2> QED BY <1>3, <2>1 DEF LinkIInv, PackagesApart
<1>7. PeerTrue'
  <2>1. ASSUME NEW s \in holds' PROVE attempt'[s].did = "ran"
    <3>1. s \in Busy' /\ s \in holds
      BY <1>3 DEF Busy
    <3> QED BY <1>1, <1>2, <3>1, InUse DEF LinkIInv, PeerTrue, StillKnown
  <2>2. ASSUME running' # NoSeq PROVE attempt'[running'].did = "ran"
    <3>1. running' = running /\ running \in Busy'
      BY <1>3, <2>2 DEF Busy
    <3> QED BY <1>1, <1>2, <2>2, <3>1, InUse DEF LinkIInv, PeerTrue, StillKnown
  <2> QED BY <2>1, <2>2 DEF PeerTrue
<1>8. AnswersBroughtAbout'
  <2> SUFFICES ASSUME NEW a \in replies'
               PROVE  attempt'[a.seq].did =
                        IF a.kind = "normal" THEN "ran" ELSE "no_such_cmd"
    BY DEF AnswersBroughtAbout
  <2>1. a.seq \in Busy'
    BY DEF Busy
  <2>2. CASE a \in replies
    BY <1>1, <1>2, <2>1, <2>2, InUse DEF LinkIInv, AnswersBroughtAbout, StillKnown
  <2>3. CASE a \notin replies
    <3>1. PICK s \in holds \cup ({running} \ {NoSeq}) :
            a = [seq |-> s, kind |-> "normal"]
      BY <1>3, <2>3
    <3>2. s \in Seqs /\ attempt[s].did = "ran"
      BY <1>1, InUse DEF LinkIInv, PeerTrue
    <3> QED BY <1>2, <2>1, <3>1, <3>2 DEF StillKnown
  <2> QED BY <2>2, <2>3
<1> QED BY <1>2, <1>4, <1>5, <1>6, <1>7, <1>8 DEF LinkParts

\* A package or an answer disappears, taken or lost.
LEMMA GoneInv ==
  ASSUME LinkIInv, Track(attempt), NoneRegistered,
         packages' \subseteq packages, replies' \subseteq replies,
         UNCHANGED <<holds, running>>
  PROVE  LinkParts'
<1>1. LinkTypeOK
  BY DEF LinkIInv
<1>2. attempt' \in Attempts /\ StillKnown(attempt)
  BY <1>1, TrackKept DEF LinkTypeOK, Attempts
<1>3. packages' \subseteq Peer!Packages
  BY <1>1, InUse DEF Peer!Packages
<1>4. HandlersMatch'
  BY <1>2 DEF LinkIInv, HandlersMatch, StillKnown, NoneRegistered
<1>5. PackagesApart'
  BY DEF LinkIInv, PackagesApart
<1>6. PeerTrue'
  <2>1. \A s \in Seqs : s \in holds \cup ({running} \ {NoSeq})
                          => attempt'[s] = attempt[s]
    BY <1>2 DEF StillKnown, Busy
  <2> QED BY <1>1, <2>1, InUse DEF LinkIInv, PeerTrue
<1>7. AnswersBroughtAbout'
  <2>1. \A a \in replies' : attempt'[a.seq] = attempt[a.seq]
    BY <1>1, <1>2, InUse DEF StillKnown, Busy
  <2> QED BY <2>1 DEF LinkIInv, AnswersBroughtAbout
<1> QED BY <1>2, <1>3, <1>4, <1>5, <1>6, <1>7 DEF LinkParts

LEMMA LinkAnswerInv ==
  ASSUME LinkIInv, NEW a \in replies, LinkAnswer(a)
  PROVE  LinkParts'
<1>1. NoneRegistered
  BY DEF LinkAnswer, Answer, RecvRsp, UseDestroyed, Without, NoneRegistered, vars
<1> QED BY <1>1, GoneInv DEF LinkAnswer, Peer!Deliver

LEMMA LoseInv ==
  ASSUME LinkIInv, Lose
  PROVE  LinkParts'
<1>1. NoneRegistered
  BY DEF Lose, NoneRegistered, vars
<1> QED BY <1>1, GoneInv DEF Lose, Peer!Deliver, peerVars

LEMMA LinkStepInv ==
  ASSUME LinkIInv, [LinkNext]_linkVars
  PROVE  LinkIInv'
<1>1. LinkTypeOK
  BY DEF LinkIInv
<1>2. IInv'
  BY <1>1, LinkStepIsCallStep, NextInv DEF LinkIInv
<1>3. Peer!ServeTypeOK'
  BY <1>1, LinkStepIsServeStep, ServeTypeStep DEF LinkTypeOK
<1>4. LinkParts'
  <2>1. CASE \E r \in Requests, given \in BOOLEAN : LinkCall(r, given)
    BY <2>1, LinkCallInv
  <2>2. CASE \E s \in Seqs : LinkTimer(s)
    BY <2>2, TimerInv
  <2>3. CASE LinkUser
    BY <2>3, LinkUserInv
  <2>4. CASE \E p \in packages : LinkServe(p)
    BY <2>4, LinkServeInv
  <2>5. CASE LinkPeer
    BY <2>5, LinkPeerInv
  <2>6. CASE \E a \in replies : LinkAnswer(a)
    BY <2>6, LinkAnswerInv
  <2>7. CASE Lose
    BY <2>7, LoseInv
  <2>8. CASE UNCHANGED linkVars
    <3>1. UNCHANGED <<vars, peerVars, packages, attempt>>
      BY <2>8 DEF linkVars
    <3> QED BY <1>1, <3>1, InUse
            DEF LinkIInv, LinkParts, HandlersMatch, PackagesApart, PeerTrue,
                AnswersBroughtAbout, vars, peerVars, Peer!Packages, Attempts
  <2> QED BY <2>1, <2>2, <2>3, <2>4, <2>5, <2>6, <2>7, <2>8 DEF LinkNext
<1> QED BY <1>2, <1>3, <1>4 DEF LinkIInv, LinkParts, LinkTypeOK, IInv, Attempts

LEMMA LinkInitInv == LinkInit => LinkIInv
<1> SUFFICES ASSUME LinkInit PROVE LinkIInv
  OBVIOUS
<1>1. IInv
  BY InitInv DEF LinkInit
<1>2. Peer!ServeTypeOK
  BY DEF LinkInit, Peer!ServeInit, Peer!ServeTypeOK, Peer!HandlerKinds
<1>3. /\ packages = {} /\ attempt \in Attempts
      /\ replies = {} /\ holds = {} /\ running = NoSeq
      /\ \A s \in Seqs : rspHandleMap[s] = NoReq
  BY DEF LinkInit, Init, Peer!ServeInit, Attempts, NoAttempt, Outcomes
<1> QED BY <1>1, <1>2, <1>3
        DEF LinkIInv, LinkTypeOK, IInv, Attempts, HandlersMatch, PackagesApart,
            PeerTrue, AnswersBroughtAbout
-----------------------------------------------------------------------------
\* The inductive invariant of the link.
THEOREM LinkInductive == LinkSpec => []LinkIInv
BY LinkInitInv, LinkStepInv, PTL DEF LinkSpec

\* The variables of the link keep their types.
THEOREM LinkTypeCorrect == LinkSpec => []LinkTypeOK
<1>1. LinkIInv => LinkTypeOK
  BY DEF LinkIInv
<1> QED BY <1>1, LinkInductive, PTL

\* Every answer on the wire tells what the peer did with the package it answers.
THEOREM AnswersTrue == LinkSpec => []AnswersBroughtAbout
<1>1. LinkIInv => AnswersBroughtAbout
  BY DEF LinkIInv
<1> QED BY <1>1, LinkInductive, PTL

\* A call ended by an answer is ended by the handler of its own last number.
LEMMA AnswerStep ==
  ASSUME LinkIInv, NEW a \in replies, LinkAnswer(a),
         NEW r \in waitingRsp \ Interrupted, r \notin waitingRsp'
  PROVE  /\ seq[r] = a.seq /\ a.seq \in Seqs /\ attempt[a.seq].req = r
         /\ finallyType'[r] \in Result(a.kind)
<1>1. TypeOK /\ EntriesOwn /\ RulesKept /\ LinkTypeOK
  BY DEF LinkIInv, IInv
<1>2. PICK type \in Result(a.kind) : RecvRsp(a.seq, type)
  BY DEF LinkAnswer, Answer, vars
<1>3. a.seq \in Seqs /\ r \in Requests /\ r # NoReq
  BY <1>1, InUse, CallSideAssumption DEF TypeOK, CallSideAssumption
<1>4. PICK q \in Requests :
        /\ rspHandleMap[a.seq] = q
        /\ OnFinish(q, IF q \in canceled THEN "canceled" ELSE type)
  BY <1>2 DEF RecvRsp, UseDestroyed
<1>5. q = r /\ finallyType'[r] = (IF r \in canceled THEN "canceled" ELSE type)
  BY <1>1, <1>3, <1>4 DEF OnFinish, Finish, TypeOK
<1>6. r \notin canceled
  BY <1>1 DEF RulesKept, Interrupted
<1>7. seq[r] = a.seq
  BY <1>1, <1>3, <1>4, <1>5 DEF EntriesOwn
<1>8. attempt[a.seq].req = r
  BY <1>3, <1>4, <1>5 DEF LinkIInv, HandlersMatch
<1> QED BY <1>3, <1>5, <1>6, <1>7, <1>8

\* Nothing but an answer ends such a call with what an answer may say.
LEMMA OnlyAnswersEnd ==
  ASSUME LinkIInv, [LinkNext]_linkVars, ~(\E a \in replies : LinkAnswer(a)),
         NEW r \in waitingRsp \ Interrupted, r \notin waitingRsp'
  PROVE  finallyType'[r] \notin {"normal", "rsp_serialize_error", "no_such_cmd"}
<1>1. TypeOK /\ r \in Requests
  BY DEF LinkIInv, IInv, TypeOK
<1>2. ASSUME NEW q \in Requests, NEW reached, NEW debt, NEW gone, NEW fresh,
             CallBody(q, reached, debt, gone, fresh)
      PROVE  finallyType'[r] \notin {"normal", "rsp_serialize_error", "no_such_cmd"}
  <2>1. CASE \E type \in FinallyTypes :
               CallRefused(q, reached, type) /\ Finish(q, type, debt)
    BY <1>1, <2>1 DEF CallRefused, Finish, TypeOK
  <2>2. CASE Wait(q, debt) \/ Finish(q, "no_need_rsp", debt)
    BY <1>1, <2>2 DEF Wait, Finish, TypeOK
  <2> QED BY <1>2, <2>1, <2>2 DEF CallBody
<1>3. ASSUME NEW q \in Requests, NEW given \in BOOLEAN, LinkCall(q, given)
      PROVE  finallyType'[r] \notin {"normal", "rsp_serialize_error", "no_such_cmd"}
  BY <1>2, <1>3 DEF LinkCall, Call
<1>4. ASSUME NEW s \in Seqs, LinkTimer(s)
      PROVE  finallyType'[r] \notin {"normal", "rsp_serialize_error", "no_such_cmd"}
  <2>1. PICK q \in Requests : Timeout(q, s)
    BY <1>4 DEF LinkTimer, TimerFire, UseDestroyed
  <2>2. CASE OnFinish(q, "timeout")
    BY <1>1, <2>2 DEF OnFinish, Finish, TypeOK
  <2> QED BY <1>2, <2>1, <2>2 DEF Timeout
<1>5. CASE LinkUser
  BY <1>1, <1>5
  DEF LinkUser, Cancel, OnFinish, Finish, AddTo, Remove, Drop, SetCanceled,
      SetNeedRsp, Dismiss, SetReady, Expire, TypeOK
<1>6. ~UNCHANGED vars
  BY DEF vars
<1> QED BY <1>3, <1>4, <1>5, <1>6
        DEF LinkNext, LinkServe, LinkPeer, Lose, linkVars

LEMMA OwnAnswerStep ==
  ASSUME LinkIInv, [LinkNext]_linkVars,
         NEW r \in waitingRsp \ Interrupted, r \notin waitingRsp'
  PROVE  /\ finallyType'[r] \in {"normal", "rsp_serialize_error"}
              => attempt[seq[r]] = [req |-> r, did |-> "ran"]
         /\ finallyType'[r] = "no_such_cmd"
              => attempt[seq[r]] = [req |-> r, did |-> "no_such_cmd"]
<1>1. CASE \E a \in replies : LinkAnswer(a)
  <2>1. PICK a \in replies : LinkAnswer(a)
    BY <1>1
  <2>2. /\ seq[r] = a.seq /\ a.seq \in Seqs /\ attempt[a.seq].req = r
        /\ finallyType'[r] \in Result(a.kind)
    BY <2>1, AnswerStep
  <2>3. attempt[a.seq].did = IF a.kind = "normal" THEN "ran" ELSE "no_such_cmd"
    BY DEF LinkIInv, AnswersBroughtAbout
  <2>4. a.kind \in {"normal", "no_such_cmd"}
    BY DEF LinkIInv, LinkTypeOK, Peer!ServeTypeOK, Peer!ReplyKinds
  <2>5. attempt[a.seq] = [req |-> r, did |-> attempt[a.seq].did]
    BY <2>2 DEF LinkIInv, LinkTypeOK
  <2> QED BY <2>2, <2>3, <2>4, <2>5 DEF Result
<1>2. CASE ~(\E a \in replies : LinkAnswer(a))
  BY <1>2, OnlyAnswersEnd
<1> QED BY <1>1, <1>2

\* After any retries, losses and late answers, a call that is neither canceled
\* nor overlapped is reported done only if its own last package was served.
THEOREM OwnAnswer == LinkSpec => AnswerIsThePeers
<1>1. LinkIInv /\ [LinkNext]_linkVars =>
        [\A r \in waitingRsp \ Interrupted : r \notin waitingRsp' =>
           /\ finallyType'[r] \in {"normal", "rsp_serialize_error"}
                => attempt[seq[r]] = [req |-> r, did |-> "ran"]
           /\ finallyType'[r] = "no_such_cmd"
                => attempt[seq[r]] = [req |-> r, did |-> "no_such_cmd"]]_linkVars
  BY OwnAnswerStep
<1> QED BY <1>1, LinkInductive, PTL DEF LinkSpec, AnswerIsThePeers
-----------------------------------------------------------------------------
(***************************************************************************)
(* The link implements RemoteCall.                                         *)
(***************************************************************************)
\* What Track keeps of a history that says nothing was done about the packages.
LEMMA UnservedKept ==
  ASSUME LinkIInv', NEW f, StillKnown(f),
         \A p \in packages' : f[p.seq].did = "none"
  PROVE  PackagesUnserved'
<1>1. \A p \in packages' : p.seq \in Seqs /\ p.seq \in Busy'
  BY DEF LinkIInv, LinkTypeOK, Peer!Packages, Busy
<1> QED BY <1>1 DEF StillKnown, PackagesUnserved

LEMMA UnservedSend ==
  ASSUME LinkIInv, LinkIInv', PackagesUnserved, NEW r \in Requests, NEW reached,
         Send(r, reached)
  PROVE  PackagesUnserved'
<1>1. attempt \in Attempts /\ seq'[r] \in Seqs /\ LinkTypeOK
  BY DEF LinkIInv, LinkTypeOK, Attempts, IInv, TypeOK
<1>2. CASE Sends(r, reached)
  <2> DEFINE n == seq'[r]
             f == [attempt EXCEPT ![n] = [req |-> r, did |-> "none"]]
  <2>1. n \notin Busy /\ Track(f)
        /\ packages' = packages \cup
             {[seq |-> n, cmd |-> CmdOf[r], need |-> r \in needRsp]}
    BY <1>2 DEF Sends, Send
  <2>2. f \in Attempts /\ f[n].did = "none"
        /\ \A s \in Seqs : s # n => f[s] = attempt[s]
    BY <1>1 DEF Attempts, Outcomes
  <2> HIDE DEF f, n
  <2>3. \A p \in packages : p.seq # n /\ p.seq \in Seqs
    BY <1>1, <2>1, InUse
  <2>4. \A p \in packages' : f[p.seq].did = "none"
    BY <2>1, <2>2, <2>3 DEF PackagesUnserved
  <2> QED BY <2>1, <2>2, <2>4, TrackKept, UnservedKept DEF Attempts
<1>3. CASE ~Sends(r, reached)
  <2>1. UNCHANGED packages /\ Track(attempt)
    BY <1>3 DEF Sends, Send
  <2> QED BY <1>1, <2>1, TrackKept, UnservedKept DEF Attempts, PackagesUnserved
<1> QED BY <1>2, <1>3

LEMMA UnservedStep ==
  ASSUME LinkIInv, LinkIInv', PackagesUnserved, [LinkNext]_linkVars
  PROVE  PackagesUnserved'
<1>1. attempt \in Attempts
  BY DEF LinkIInv, LinkTypeOK, Attempts
<1>2. ASSUME packages' \subseteq packages, Track(attempt) PROVE PackagesUnserved'
  BY <1>1, <1>2, TrackKept, UnservedKept DEF Attempts, PackagesUnserved
<1>3. ASSUME NEW r \in Requests, NEW given \in BOOLEAN, LinkCall(r, given)
      PROVE  PackagesUnserved'
  BY <1>3, UnservedSend DEF LinkCall
<1>4. ASSUME NEW s \in Seqs, LinkTimer(s) PROVE PackagesUnserved'
  <2>1. \/ \E r \in Requests : Send(r, r \in bound)
        \/ UNCHANGED packages /\ Track(attempt)
    BY <1>4 DEF LinkTimer
  <2> QED BY <1>2, <2>1, UnservedSend
<1>5. ASSUME NEW p \in packages, LinkServe(p) PROVE PackagesUnserved'
  <2>1. PICK did \in Outcomes : Track([attempt EXCEPT ![p.seq].did = did])
    BY <1>5 DEF LinkServe, Outcomes
  <2> DEFINE f == [attempt EXCEPT ![p.seq].did = did]
  <2>2. p.seq \in Seqs /\ packages' = packages \ {p}
    BY <1>5, InUse DEF LinkServe, LinkIInv
  <2>3. f \in Attempts /\ \A s \in Seqs : s # p.seq => f[s] = attempt[s]
    BY <1>1, <2>2 DEF Attempts
  <2>4. Track(f)
    BY <2>1
  <2> HIDE DEF f
  <2>5. \A q \in packages' : q.seq \in Seqs /\ q.seq # p.seq
    BY <2>2, InUse DEF LinkIInv, PackagesApart
  <2>6. \A q \in packages' : f[q.seq].did = "none"
    BY <2>2, <2>3, <2>5 DEF PackagesUnserved
  <2> QED BY <2>3, <2>4, <2>6, TrackKept, UnservedKept DEF Attempts
<1>6. CASE LinkUser \/ LinkPeer \/ Lose
  BY <1>2, <1>6 DEF LinkUser, LinkPeer, Lose
<1>7. ASSUME NEW a \in replies, LinkAnswer(a) PROVE PackagesUnserved'
  BY <1>2, <1>7 DEF LinkAnswer
<1>8. CASE UNCHANGED linkVars
  BY <1>8 DEF linkVars, PackagesUnserved
<1> QED BY <1>3, <1>4, <1>5, <1>6, <1>7, <1>8 DEF LinkNext
-----------------------------------------------------------------------------
(* What a step of the link looks like to RemoteCall. *)

\* The call of r is as it was.
SameCall(r) ==
  /\ r \in waitingRsp' <=> r \in waitingRsp
  /\ retryCount'[r] = retryCount[r]
  /\ Served(r)' = Served(r)
  /\ finallyType'[r] = finallyType[r]

\* Every call but that of q is as it was.
OthersSame(q) ==
  rpcAlive' = rpcAlive /\ \A r \in Tracked \ {q} : SameCall(r)

\* The call of q ends with type, whatever becomes of its retries.
EndsWith(q, type) ==
  /\ rpcAlive /\ q \in waitingRsp /\ q \notin waitingRsp'
  /\ finallyType'[q] = type /\ Served(q)' = "none"

LEMMA TrackedConstant == Tracked' = Tracked
BY DEF Tracked, Interrupted, Registers

LEMMA RemoteSame ==
  ASSUME rpcAlive' = rpcAlive, \A r \in Tracked : SameCall(r)
  PROVE  UNCHANGED Remote!vars
<1>1. waitingRsp' \cap Tracked = waitingRsp \cap Tracked
  BY DEF SameCall
<1>2. [r \in Tracked |-> retryCount'[r]] = [r \in Tracked |-> retryCount[r]]
  BY DEF SameCall
<1>3. [r \in Tracked |-> Served(r)'] = [r \in Tracked |-> Served(r)]
  BY DEF SameCall
<1>4. [r \in Tracked |-> finallyType'[r]] = [r \in Tracked |-> finallyType[r]]
  BY DEF SameCall
<1> QED BY <1>1, <1>2, <1>3, <1>4, TrackedConstant DEF Remote!vars

LEMMA RemoteBegin ==
  ASSUME NEW q \in Tracked, OthersSame(q), rpcAlive,
         q \notin waitingRsp, q \in waitingRsp', retryCount'[q] = retryCount[q],
         Served(q)' = Served(q), finallyType'[q] = finallyType[q]
  PROVE  Remote!Next
<1>1. \A r \in Tracked : /\ retryCount'[r] = retryCount[r]
                         /\ Served(r)' = Served(r)
                         /\ finallyType'[r] = finallyType[r]
  BY DEF OthersSame, SameCall
<1>2. waitingRsp' \cap Tracked = (waitingRsp \cap Tracked) \cup {q}
  BY DEF OthersSame, SameCall
<1>3. /\ [r \in Tracked |-> retryCount'[r]] = [r \in Tracked |-> retryCount[r]]
      /\ [r \in Tracked |-> Served(r)'] = [r \in Tracked |-> Served(r)]
      /\ [r \in Tracked |-> finallyType'[r]] = [r \in Tracked |-> finallyType[r]]
  BY <1>1
<1>4. Remote!Begin(q)
  BY <1>2, <1>3, TrackedConstant DEF Remote!Begin, OthersSame
<1> QED BY <1>4 DEF Remote!Next

LEMMA RemoteRefuse ==
  ASSUME NEW q \in Tracked, OthersSame(q), NEW type \in Remote!Refusals,
         rpcAlive \/ type = "rpc_expired",
         q \notin waitingRsp, q \notin waitingRsp',
         retryCount'[q] = retryCount[q],
         Served(q)' = Served(q), finallyType'[q] = type
  PROVE  Remote!Next
<1>1. \A r \in Tracked : /\ retryCount'[r] = retryCount[r]
                         /\ Served(r)' = Served(r)
                         /\ r \in waitingRsp' <=> r \in waitingRsp
  BY DEF OthersSame, SameCall
<1>2. waitingRsp' \cap Tracked = waitingRsp \cap Tracked
  BY <1>1
<1>3. /\ [r \in Tracked |-> retryCount'[r]] = [r \in Tracked |-> retryCount[r]]
      /\ [r \in Tracked |-> Served(r)'] = [r \in Tracked |-> Served(r)]
  BY <1>1
<1>4. [r \in Tracked |-> finallyType'[r]]
        = [[r \in Tracked |-> finallyType[r]] EXCEPT ![q] = type]
  BY DEF OthersSame, SameCall
<1>5. Remote!Refuse(q, type)
  BY <1>2, <1>3, <1>4, TrackedConstant DEF Remote!Refuse, OthersSame
<1> QED BY <1>5 DEF Remote!Next

LEMMA RemoteServe ==
  ASSUME NEW q \in Tracked, OthersSame(q), NEW did \in Outcomes \ {"none"},
         q \in waitingRsp, UNCHANGED vars, Served(q) = "none", Served(q)' = did
  PROVE  Remote!Next
<1>1. UNCHANGED <<waitingRsp, retryCount, finallyType, rpcAlive>>
  BY DEF vars
<1>2. [r \in Tracked |-> Served(r)']
        = [[r \in Tracked |-> Served(r)] EXCEPT ![q] = did]
  BY DEF OthersSame, SameCall
<1>3. Remote!Serve(q, did)
  BY <1>1, <1>2, TrackedConstant DEF Remote!Serve
<1>4. did \in DOMAIN Remote!Told \ {"none"}
  BY DEF Outcomes, Remote!Told
<1> QED BY <1>3, <1>4 DEF Remote!Next

\* What is common to the ends of a call.
LEMMA RemoteEnd ==
  ASSUME NEW q \in Tracked, OthersSame(q), NEW type, EndsWith(q, type)
  PROVE  /\ Remote!End(q, type)
         /\ retryCount'[q] = retryCount[q] =>
              [r \in Tracked |-> retryCount'[r]] = [r \in Tracked |-> retryCount[r]]
<1>1. waitingRsp' \cap Tracked = (waitingRsp \cap Tracked) \ {q}
  BY DEF OthersSame, SameCall, EndsWith
<1>2. [r \in Tracked |-> Served(r)']
        = [[r \in Tracked |-> Served(r)] EXCEPT ![q] = "none"]
  BY DEF OthersSame, SameCall, EndsWith
<1>3. [r \in Tracked |-> finallyType'[r]]
        = [[r \in Tracked |-> finallyType[r]] EXCEPT ![q] = type]
  BY DEF OthersSame, SameCall, EndsWith
<1>4. Remote!End(q, type)
  BY <1>1, <1>2, <1>3, TrackedConstant DEF Remote!End, OthersSame, EndsWith
<1>5. retryCount'[q] = retryCount[q] =>
        [r \in Tracked |-> retryCount'[r]] = [r \in Tracked |-> retryCount[r]]
  BY DEF OthersSame, SameCall
<1> QED BY <1>4, <1>5

LEMMA RemoteConclude ==
  ASSUME NEW q \in Tracked, OthersSame(q), NEW type, EndsWith(q, type),
         retryCount'[q] = retryCount[q],
         \/ type \in FinallyTypes /\ type \in Remote!Told[Served(q)]
         \/ type = "timeout" /\ retryCount[q] = 0
  PROVE  Remote!Next
<1>1. /\ Remote!End(q, type)
      /\ [r \in Tracked |-> retryCount'[r]] = [r \in Tracked |-> retryCount[r]]
  BY RemoteEnd
<1>2. \/ type \in FinallyTypes /\ Remote!Conclude(q, type)
      \/ type = "timeout" /\ Remote!TimeOut(q)
  BY <1>1, TrackedConstant DEF Remote!Conclude, Remote!TimeOut
<1> QED BY <1>2 DEF Remote!Next

\* One retry of q is used up.
CountsDown(q) ==
  retryCount[q] # 0 /\ retryCount'[q] = CountLeft(retryCount[q])

LEMMA RemoteCountDown ==
  ASSUME NEW q \in Tracked, OthersSame(q), CountsDown(q)
  PROVE  Remote!CountDown(q)
<1> DEFINE left == [r \in Tracked |-> retryCount[r]]
           now == [r \in Tracked |-> retryCount'[r]]
<1>1. now = [left EXCEPT ![q] = CountLeft(retryCount[q])]
  BY DEF OthersSame, SameCall, CountsDown
<1>2. now = IF left[q] = -1 THEN left ELSE [left EXCEPT ![q] = @ - 1]
  BY <1>1 DEF CountLeft
<1>3. left[q] # 0
  BY DEF CountsDown
<1> QED BY <1>2, <1>3, TrackedConstant DEF Remote!CountDown

LEMMA RemoteGiveUp ==
  ASSUME NEW q \in Tracked, OthersSame(q), CountsDown(q),
         NEW type \in Remote!RetryRefusals, EndsWith(q, type)
  PROVE  Remote!Next
BY RemoteEnd, RemoteCountDown DEF Remote!GiveUp, Remote!Next

LEMMA RemoteRetry ==
  ASSUME NEW q \in Tracked, OthersSame(q), CountsDown(q), rpcAlive,
         q \in waitingRsp, q \in waitingRsp', Served(q)' = "none",
         finallyType'[q] = finallyType[q]
  PROVE  Remote!Next
<1>1. waitingRsp' \cap Tracked = waitingRsp \cap Tracked
  BY DEF OthersSame, SameCall
<1>2. [r \in Tracked |-> Served(r)']
        = [[r \in Tracked |-> Served(r)] EXCEPT ![q] = "none"]
  BY DEF OthersSame, SameCall
<1>3. [r \in Tracked |-> finallyType'[r]] = [r \in Tracked |-> finallyType[r]]
  BY DEF OthersSame, SameCall
<1>4. Remote!CountDown(q)
  BY RemoteCountDown
<1>5. Remote!Retry(q)
  BY <1>1, <1>2, <1>3, <1>4, TrackedConstant DEF Remote!Retry, OthersSame
<1> QED BY <1>5 DEF Remote!Next
-----------------------------------------------------------------------------
(* Which calls a step changes. *)

\* What RemoteCall sees of a request is settled by its entry and its history.
LEMMA TrackedFacts ==
  ASSUME LinkIInv, NEW r \in Tracked
  PROVE  /\ r \in Requests /\ r # NoReq /\ r \notin canceled
         /\ r \notin Interrupted /\ r \notin MayCancel /\ r \notin MayOverlap
         /\ seq[r] \in Seqs
         /\ rspHandleMap[seq[r]] = r => r \in waitingRsp /\ rpcAlive
         /\ r \notin waitingRsp => Served(r) = "none"
         /\ \A s \in Seqs : rspHandleMap[s] = r => seq[r] = s
<1>1. r \in Requests /\ r \notin Interrupted /\ TypeOK /\ RulesKept /\ EntriesOwn
      /\ EntriesReachable
  BY DEF Tracked, LinkIInv, IInv
<1>2. r # NoReq /\ seq[r] \in Seqs
  BY <1>1, CallSideAssumption DEF CallSideAssumption, TypeOK
<1>3. r \notin MayCancel /\ r \notin MayOverlap /\ r \notin canceled
  BY <1>1 DEF Interrupted, RulesKept
<1>4. rspHandleMap[seq[r]] = r => r \in waitingRsp /\ rpcAlive
  BY <1>1, <1>2 DEF EntriesOwn, EntriesReachable
<1>5. r \notin waitingRsp => Served(r) = "none"
  BY <1>4 DEF Served
<1>6. \A s \in Seqs : rspHandleMap[s] = r => seq[r] = s
  BY <1>1 DEF EntriesOwn
<1> QED BY <1>1, <1>2, <1>3, <1>4, <1>5, <1>6

\* Nor is anything served of a call that has ended.
LEMMA EndedUnserved ==
  ASSUME LinkIInv', NEW r \in Tracked, r \notin waitingRsp'
  PROVE  Served(r)' = "none"
<1>1. r \in Requests \ Interrupted /\ TypeOK' /\ EntriesOwn'
  BY DEF Tracked, LinkIInv, IInv
<1>2. seq'[r] \in Seqs
  BY <1>1 DEF TypeOK
<1>3. rspHandleMap'[seq'[r]] # r
  BY <1>1, <1>2 DEF EntriesOwn, Interrupted
<1> QED BY <1>3 DEF Served

LEMMA ServedKept ==
  ASSUME LinkIInv, NEW r \in Tracked, NEW f, StillKnown(f),
         seq'[r] = seq[r],
         rspHandleMap'[seq[r]] = r <=> rspHandleMap[seq[r]] = r,
         rspHandleMap[seq[r]] = r => f[seq[r]].did = attempt[seq[r]].did
  PROVE  Served(r)' = Served(r)
<1>1. r # NoReq /\ seq[r] \in Seqs
  BY TrackedFacts
<1>2. CASE rspHandleMap[seq[r]] = r
  BY <1>1, <1>2 DEF StillKnown, Served
<1>3. CASE rspHandleMap[seq[r]] # r
  BY <1>3 DEF Served
<1> QED BY <1>2, <1>3

\* A step in which no call is made, answered or timed out.
LEMMA QuietSame ==
  ASSUME LinkIInv, Track(attempt), UNCHANGED <<rpcAlive, seq, retryCount, rspHandleMap>>,
         NEW r \in Tracked, r \in waitingRsp' <=> r \in waitingRsp,
         finallyType'[r] = finallyType[r]
  PROVE  SameCall(r)
<1>1. StillKnown(attempt)
  BY TrackKept DEF LinkIInv, LinkTypeOK
<1>2. Served(r)' = Served(r)
  BY <1>1, ServedKept
<1> QED BY <1>2 DEF SameCall

\* A step that takes entries of q from the table and sends nothing.
LEMMA EndOthers ==
  ASSUME LinkIInv, Track(attempt), NEW q \in Requests, NEW s \in Seqs,
         rspHandleMap[s] = q, rspHandleMap' = Without({s}),
         UNCHANGED <<rpcAlive, seq, retryCount>>,
         \A r \in Requests \ {q} : /\ r \in waitingRsp' <=> r \in waitingRsp
                                   /\ finallyType'[r] = finallyType[r]
  PROVE  OthersSame(q)
<1> SUFFICES ASSUME NEW r \in Tracked \ {q} PROVE SameCall(r)
  BY DEF OthersSame
<1>1. StillKnown(attempt)
  BY TrackKept DEF LinkIInv, LinkTypeOK
<1>2. r \in Requests \ {q} /\ r # NoReq /\ seq[r] \in Seqs
  BY TrackedFacts
<1>3. rspHandleMap'[seq[r]] = r <=> rspHandleMap[seq[r]] = r
  BY <1>2 DEF Without
<1>4. Served(r)' = Served(r)
  BY <1>1, <1>3, ServedKept
<1> QED BY <1>2, <1>4 DEF SameCall

\* finally of q, when nothing is sent.
LEMMA EndSeen ==
  ASSUME LinkIInv, LinkIInv', Track(attempt), NEW q \in Requests, NEW s \in Seqs,
         NEW type,
         rspHandleMap[s] = q, rspHandleMap' = Without({s}), OnFinish(q, type),
         UNCHANGED <<rpcAlive, seq, retryCount>>
  PROVE  OthersSame(q) /\ (q \in Tracked => EndsWith(q, type))
<1>1. TypeOK
  BY DEF LinkIInv, IInv
<1>2. \A r \in Requests \ {q} : /\ r \in waitingRsp' <=> r \in waitingRsp
                                /\ finallyType'[r] = finallyType[r]
  BY <1>1 DEF OnFinish, Finish, TypeOK
<1>3. OthersSame(q)
  BY <1>2, EndOthers
<1>4. ASSUME q \in Tracked PROVE EndsWith(q, type)
  <2>1. seq[q] = s /\ q \in waitingRsp /\ rpcAlive
    BY <1>4, TrackedFacts
  <2>2. q \notin waitingRsp' /\ finallyType'[q] = type
    BY <1>1, <2>1 DEF OnFinish, Finish, TypeOK
  <2>3. Served(q)' = "none"
    BY <1>4, <2>2, EndedUnserved
  <2> QED BY <2>1, <2>2, <2>3 DEF EndsWith
<1> QED BY <1>3, <1>4

\* call(), the first time or by a timer: it ends the call, or sends a package that
\* nothing has been done about.
LEMMA SendSeen ==
  ASSUME LinkIInv, LinkIInv', NEW q \in Requests, NEW reached, NEW debt, NEW gone,
         NEW fresh \in SUBSET FreshSeqs,
         CallBody(q, reached, debt, gone, fresh), Send(q, reached),
         \A s \in gone : s \in Seqs /\ rspHandleMap[s] = q,
         rpcAlive' = rpcAlive,
         \A r \in Requests \ {q} : retryCount'[r] = retryCount[r]
  PROVE  /\ OthersSame(q)
         /\ q \in Tracked =>
              /\ Served(q)' = "none"
              /\ \/ /\ q \notin waitingRsp'
                    /\ \/ ~reached /\ finallyType'[q] = "rpc_expired"
                       \/ reached /\ finallyType'[q] \in Remote!RetryRefusals
                 \/ /\ q \in waitingRsp' /\ reached
                    /\ finallyType'[q] = finallyType[q]
<1>1. TypeOK /\ EntryHasTimer /\ LinkTypeOK
  BY DEF LinkIInv, IInv
<1>2. \A r \in Requests \ {q} : /\ r \in waitingRsp' <=> r \in waitingRsp
                                /\ finallyType'[r] = finallyType[r]
                                /\ seq'[r] = seq[r]
  <2>1. CASE \E type : Finish(q, type, debt)
    BY <1>1, <2>1 DEF CallBody, Finish, TypeOK, SendRequest, Wait
  <2>2. CASE Wait(q, debt)
    BY <1>1, <2>2 DEF CallBody, Finish, TypeOK, SendRequest, Wait
  <2> QED BY <2>1, <2>2 DEF CallBody
<1>3. PICK f :
        /\ StillKnown(f)
        /\ \A s \in Seqs : rspHandleMap[s] # NoReq => f[s] = attempt[s]
        /\ Sends(q, reached) => f[seq'[q]].did = "none"
  <2>1. CASE ~Sends(q, reached)
    <3>1. Track(attempt)
      BY <2>1 DEF Sends, Send
    <3> QED BY <1>1, <2>1, <3>1, TrackKept DEF LinkTypeOK
  <2>2. CASE Sends(q, reached)
    <3> DEFINE n == seq'[q]
               g == [attempt EXCEPT ![n] = [req |-> q, did |-> "none"]]
    <3>1. n \in Seqs /\ rspHandleMap[n] = NoReq
      BY <1>1, <2>2, CallBodySends
    <3>2. Track(g)
      BY <2>2 DEF Sends, Send
    <3>3. g \in Attempts /\ g[n].did = "none"
          /\ \A s \in Seqs : s # n => g[s] = attempt[s]
      BY <1>1, <3>1 DEF LinkTypeOK, Attempts, Outcomes
    <3> HIDE DEF g
    <3>4. StillKnown(g)
      BY <3>2, <3>3, TrackKept DEF Attempts
    <3> HIDE DEF n
    <3>5. \A s \in Seqs : rspHandleMap[s] # NoReq => g[s] = attempt[s]
      BY <3>1, <3>3
    <3> QED BY <3>3, <3>4, <3>5 DEF n
  <2> QED BY <2>1, <2>2
<1>4. ASSUME NEW r \in Tracked \ {q} PROVE SameCall(r)
  <2>1. r \in Requests \ {q} /\ r # NoReq /\ seq[r] \in Seqs
    BY <1>4, TrackedFacts
  <2>2. rspHandleMap'[seq[r]] = r <=> rspHandleMap[seq[r]] = r
    <3>1. CASE rspHandleMap' = Without(gone)
      BY <2>1, <3>1 DEF Without
    <3>2. ASSUME NEW n \in fresh, SendRequest(q, n, gone)
          PROVE  rspHandleMap'[seq[r]] = r <=> rspHandleMap[seq[r]] = r
      <4>1. n \in Seqs /\ rspHandleMap[n] = NoReq
        BY <1>1 DEF FreshSeqs, EntryHasTimer
      <4>2. rspHandleMap'[seq[r]] = IF seq[r] \in Subscribed(q, n) THEN q
                                    ELSE Without(gone)[seq[r]]
        BY <2>1, <3>2 DEF SendRequest
      <4>3. seq[r] \in Subscribed(q, n) => rspHandleMap[seq[r]] = NoReq
        BY <4>1 DEF Subscribed
      <4> QED BY <2>1, <4>2, <4>3 DEF Without
    <3> QED BY <3>1, <3>2 DEF CallBody
  <2>3. Served(r)' = Served(r)
    BY <1>2, <1>3, <2>1, <2>2, ServedKept
  <2> QED BY <1>2, <2>1, <2>3 DEF SameCall
<1>5. OthersSame(q)
  BY <1>4 DEF OthersSame
<1>6. ASSUME q \in Tracked
      PROVE  \/ /\ q \notin waitingRsp'
                /\ \/ ~reached /\ finallyType'[q] = "rpc_expired"
                   \/ reached /\ finallyType'[q] \in Remote!RetryRefusals
             \/ /\ q \in waitingRsp' /\ Sends(q, reached)
                /\ finallyType'[q] = finallyType[q]
  <2>1. q \notin canceled
    BY <1>6, TrackedFacts
  <2>2. ASSUME NEW type, Finish(q, type, debt)
        PROVE  q \notin waitingRsp' /\ finallyType'[q] = type
    BY <1>1, <2>2 DEF Finish, TypeOK
  <2>3. ASSUME NEW type, CallRefused(q, reached, type), Finish(q, type, debt)
        PROVE  /\ q \notin waitingRsp'
               /\ \/ ~reached /\ finallyType'[q] = "rpc_expired"
                  \/ reached /\ finallyType'[q] \in Remote!RetryRefusals
    BY <2>1, <2>2, <2>3 DEF CallRefused, Remote!RetryRefusals
  <2>4. ASSUME reached, isReady, Finish(q, "no_need_rsp", debt)
        PROVE  q \notin waitingRsp' /\ finallyType'[q] \in Remote!RetryRefusals
    BY <2>2, <2>4 DEF Remote!RetryRefusals
  <2>5. ASSUME reached, isReady, Wait(q, debt)
        PROVE  /\ q \in waitingRsp' /\ Sends(q, reached)
               /\ finallyType'[q] = finallyType[q]
    BY <2>1, <2>5 DEF Wait, Sends
  <2> QED BY <2>3, <2>4, <2>5 DEF CallBody
<1>7. ASSUME q \in Tracked PROVE Served(q)' = "none"
  <2>1. CASE q \notin waitingRsp'
    BY <1>7, <2>1, EndedUnserved
  <2>2. CASE q \in waitingRsp'
    <3>1. f[seq'[q]].did = "none" /\ seq'[q] \in Seqs /\ q # NoReq
      BY <1>1, <1>3, <1>6, <1>7, <2>2, CallBodySends, TrackedFacts
    <3> QED BY <1>3, <3>1 DEF StillKnown, Served
  <2> QED BY <2>1, <2>2
<1> QED BY <1>5, <1>6, <1>7 DEF Sends
-----------------------------------------------------------------------------
(* The steps of the link, one by one. *)

LEMMA StepOfOther ==
  ASSUME NEW q, q \notin Tracked, OthersSame(q)
  PROVE  UNCHANGED Remote!vars
<1>1. rpcAlive' = rpcAlive /\ \A r \in Tracked : SameCall(r)
  BY DEF OthersSame
<1> QED BY <1>1, RemoteSame

LEMMA CallRemote ==
  ASSUME LinkIInv, LinkIInv', NEW q \in Requests, NEW given \in BOOLEAN,
         LinkCall(q, given)
  PROVE  [Remote!Next]_(Remote!vars)
<1>1. PICK reached, debt :
        /\ reached = (given \/ (rpcAlive /\ q \in bound))
        /\ CallBody(q, reached, debt, {}, CallSeqs)
  BY DEF LinkCall, Call
<1>2. /\ Send(q, reached) /\ (reached => rpcAlive)
      /\ q \in waitingRsp => q \in MayOverlap
      /\ UNCHANGED <<rpcAlive, retryCount>>
  BY <1>1 DEF LinkCall, Call
<1>3. CallSeqs \in SUBSET FreshSeqs
  BY DEF CallSeqs
<1>4. /\ OthersSame(q)
      /\ q \in Tracked =>
           /\ Served(q)' = "none"
           /\ \/ /\ q \notin waitingRsp'
                 /\ \/ ~reached /\ finallyType'[q] = "rpc_expired"
                    \/ reached /\ finallyType'[q] \in Remote!RetryRefusals
              \/ /\ q \in waitingRsp' /\ reached
                 /\ finallyType'[q] = finallyType[q]
  BY <1>1, <1>2, <1>3, SendSeen
<1>5. CASE q \in Tracked
  <2>1. q \notin waitingRsp /\ Served(q) = "none"
    BY <1>2, <1>5, TrackedFacts
  <2>2. CASE q \in waitingRsp'
    <3>1. reached /\ finallyType'[q] = finallyType[q]
      BY <1>4, <1>5, <2>2
    <3> QED BY <1>2, <1>4, <1>5, <2>1, <2>2, <3>1, RemoteBegin
  <2>3. CASE q \notin waitingRsp'
    <3>1. /\ finallyType'[q] \in Remote!Refusals
          /\ rpcAlive \/ finallyType'[q] = "rpc_expired"
      BY <1>2, <1>4, <1>5, <2>3 DEF Remote!Refusals, Remote!RetryRefusals
    <3> QED BY <1>2, <1>4, <1>5, <2>1, <2>3, <3>1, RemoteRefuse
  <2> QED BY <2>2, <2>3
<1>6. CASE q \notin Tracked
  BY <1>4, <1>6, StepOfOther
<1> QED BY <1>5, <1>6

\* The timer of a live request tries again.
LEMMA RetryRemote ==
  ASSUME LinkIInv, LinkIInv', NEW s \in Seqs, NEW q \in Requests,
         rspHandleMap[s] = q, retryCount[q] # 0,
         Timeout(q, s), Send(q, q \in bound), UNCHANGED rpcAlive
  PROVE  [Remote!Next]_(Remote!vars)
<1>1. TypeOK /\ EntriesReachable
  BY DEF LinkIInv, IInv
<1>2. PICK reached, debt, gone :
        /\ reached = (q \in bound) /\ gone = {s}
        /\ CallBody(q, reached, debt, gone, FreshSeqs) /\ Send(q, reached)
        /\ retryCount' = [retryCount EXCEPT ![q] = CountLeft(@)]
  BY DEF Timeout
<1>3. CountsDown(q) /\ \A r \in Requests \ {q} : retryCount'[r] = retryCount[r]
  BY <1>1, <1>2 DEF CountsDown, TypeOK
<1>4. q \in bound /\ rpcAlive
  BY <1>1, CallSideAssumption DEF CallSideAssumption, EntriesReachable
<1>5. /\ OthersSame(q)
      /\ q \in Tracked =>
           /\ Served(q)' = "none"
           /\ \/ /\ q \notin waitingRsp'
                 /\ finallyType'[q] \in Remote!RetryRefusals
              \/ /\ q \in waitingRsp'
                 /\ finallyType'[q] = finallyType[q]
  <2>1. FreshSeqs \in SUBSET FreshSeqs /\ \A t \in gone : t \in Seqs /\ rspHandleMap[t] = q
    BY <1>2
  <2>2. /\ OthersSame(q)
        /\ q \in Tracked =>
             /\ Served(q)' = "none"
             /\ \/ /\ q \notin waitingRsp'
                   /\ \/ ~reached /\ finallyType'[q] = "rpc_expired"
                      \/ reached /\ finallyType'[q] \in Remote!RetryRefusals
                \/ /\ q \in waitingRsp' /\ reached
                   /\ finallyType'[q] = finallyType[q]
    BY <1>2, <1>3, <1>4, <2>1, SendSeen
  <2> QED BY <1>2, <1>4, <2>2
<1>6. CASE q \in Tracked
  <2>1. q \in waitingRsp
    BY <1>6, TrackedFacts
  <2>2. CASE q \in waitingRsp'
    BY <1>3, <1>4, <1>5, <1>6, <2>1, <2>2, RemoteRetry
  <2>3. CASE q \notin waitingRsp'
    <3>1. EndsWith(q, finallyType'[q]) /\ finallyType'[q] \in Remote!RetryRefusals
      BY <1>4, <1>5, <1>6, <2>1, <2>3 DEF EndsWith
    <3> QED BY <1>3, <1>5, <1>6, <3>1, RemoteGiveUp
  <2> QED BY <2>2, <2>3
<1>7. CASE q \notin Tracked
  BY <1>5, <1>7, StepOfOther
<1> QED BY <1>6, <1>7

\* A step in which no call is made, answered or timed out.
LEMMA QuietRemote ==
  ASSUME LinkIInv, Track(attempt),
         UNCHANGED <<rpcAlive, waitingRsp, finallyType, seq, retryCount, rspHandleMap>>
  PROVE  UNCHANGED Remote!vars
<1>1. \A r \in Tracked : SameCall(r)
  BY QuietSame
<1> QED BY <1>1, RemoteSame

LEMMA TimerRemote ==
  ASSUME LinkIInv, LinkIInv', NEW s \in Seqs, LinkTimer(s)
  PROVE  [Remote!Next]_(Remote!vars)
<1> DEFINE q == rspHandleMap[s]
<1>1. CASE q \in Requests /\ ~fault' /\ retryCount[q] # 0
  <2>1. Send(q, q \in bound) /\ q # NoReq
    BY <1>1, CallSideAssumption DEF LinkTimer, CallSideAssumption
  <2>2. ~UseDestroyed(s)
    BY <1>1 DEF UseDestroyed
  <2>3. Timeout(q, s) /\ UNCHANGED rpcAlive
    BY <2>1, <2>2 DEF LinkTimer, TimerFire
  <2> QED BY <1>1, <2>1, <2>3, RetryRemote
<1>2. CASE ~(q \in Requests /\ ~fault' /\ retryCount[q] # 0)
  <2>1. Track(attempt)
    BY <1>2 DEF LinkTimer
  <2>2. CASE UNCHANGED <<rpcAlive, waitingRsp, finallyType, seq, retryCount, rspHandleMap>>
    BY <2>1, <2>2, QuietRemote
  <2>3. CASE q \in Requests /\ Timeout(q, s) /\ UNCHANGED <<rpcAlive, fault>>
    <3>1. ~fault
      BY DEF LinkTimer, TimerFire
    <3>2. retryCount[q] = 0
      BY <1>2, <2>3, <3>1
    <3>3. OnFinish(q, "timeout") /\ rspHandleMap' = Without({s})
          /\ UNCHANGED <<retryCount, seq>>
      BY <2>3, <3>2 DEF Timeout
    <3>4. OthersSame(q) /\ (q \in Tracked => EndsWith(q, "timeout"))
      BY <2>1, <2>3, <3>3, EndSeen
    <3>5. CASE q \in Tracked
      BY <3>2, <3>3, <3>4, <3>5, RemoteConclude
    <3>6. CASE q \notin Tracked
      BY <3>4, <3>6, StepOfOther
    <3> QED BY <3>5, <3>6
  <2> QED BY <2>2, <2>3 DEF LinkTimer, TimerFire, UseDestroyed
<1> QED BY <1>1, <1>2

LEMMA UserRemote ==
  ASSUME LinkIInv, LinkUser
  PROVE  [Remote!Next]_(Remote!vars)
<1>1. TypeOK /\ RulesKept /\ Track(attempt)
  BY DEF LinkIInv, IInv, LinkUser
<1>2. ASSUME ~Expire
      PROVE  /\ UNCHANGED <<rpcAlive, seq, retryCount, rspHandleMap>>
             /\ \A r \in Requests \ MayCancel :
                  /\ r \in waitingRsp' <=> r \in waitingRsp
                  /\ finallyType'[r] = finallyType[r]
  <2>1. ASSUME NEW c \in MayCancel, OnFinish(c, "canceled")
        PROVE  \A r \in Requests \ MayCancel :
                 /\ r \in waitingRsp' <=> r \in waitingRsp
                 /\ finallyType'[r] = finallyType[r]
    BY <1>1, <2>1 DEF OnFinish, Finish, TypeOK
  <2>2. ASSUME NEW c \in Requests, Cancel(c)
        PROVE  /\ UNCHANGED <<rpcAlive, seq, retryCount, rspHandleMap>>
               /\ \A r \in Requests \ MayCancel :
                    /\ r \in waitingRsp' <=> r \in waitingRsp
                    /\ finallyType'[r] = finallyType[r]
    BY <2>1, <2>2 DEF Cancel
  <2>3. CASE Dismiss
    BY <1>1, <2>3 DEF Dismiss, RulesKept, TypeOK
  <2> QED BY <1>2, <2>2, <2>3
          DEF LinkUser, AddTo, Remove, Drop, SetCanceled, SetNeedRsp, SetReady
<1>3. CASE ~Expire
  <2>1. \A r \in Tracked : SameCall(r)
    BY <1>1, <1>2, <1>3, QuietSame, TrackedFacts
  <2> QED BY <1>2, <1>3, <2>1, RemoteSame
<1>4. CASE Expire
  <2>1. /\ rpcAlive' = FALSE /\ UNCHANGED <<waitingRsp, retryCount, finallyType, seq>>
        /\ rspHandleMap' = Without(Seqs)
    BY <1>4 DEF Expire
  <2>2. \A r \in Tracked : Served(r)' = "none"
    <3> SUFFICES ASSUME NEW r \in Tracked PROVE Served(r)' = "none"
      OBVIOUS
    <3>1. rspHandleMap'[seq'[r]] = NoReq /\ r # NoReq
      BY <2>1, TrackedFacts DEF Without
    <3> QED BY <3>1 DEF Served
  <2>3. [r \in Tracked |-> Served(r)'] = [r \in Tracked |-> "none"]
    BY <2>2
  <2>4. Remote!Expire
    BY <2>1, <2>3, TrackedConstant DEF Remote!Expire
  <2> QED BY <2>4 DEF Remote!Next
<1> QED BY <1>3, <1>4

\* The peer does something about the newest package of the call that waits for it,
\* for the first time.
LEMMA ServeRemote ==
  ASSUME LinkIInv, LinkIInv', PackagesUnserved, NEW p \in packages, LinkServe(p)
  PROVE  [Remote!Next]_(Remote!vars)
<1> DEFINE n == p.seq
<1>0. PICK q : q = rspHandleMap[n]
  OBVIOUS
<1>1. n \in Seqs /\ attempt \in Attempts /\ UNCHANGED vars
  BY InUse DEF LinkIInv, LinkServe
<1>2. PICK did \in Outcomes \ {"none"} : Track([attempt EXCEPT ![n].did = did])
  BY DEF LinkServe, Outcomes
<1> DEFINE f == [attempt EXCEPT ![n].did = did]
<1>3. /\ f \in Attempts /\ f[n].did = did
      /\ \A s \in Seqs : s # n => f[s] = attempt[s]
  BY <1>1 DEF Attempts
<1>4. Track(f)
  BY <1>2
<1> HIDE DEF f
<1>5. StillKnown(f)
  BY <1>3, <1>4, TrackKept DEF Attempts
<1>6. /\ UNCHANGED <<rpcAlive, waitingRsp, finallyType, retryCount, seq, rspHandleMap>>
  BY <1>1 DEF vars
<1>7. ASSUME NEW r \in Tracked \ {q} PROVE SameCall(r)
  <2>1. seq[r] \in Seqs /\ (rspHandleMap[seq[r]] = r => seq[r] # n)
    BY <1>0, <1>7, TrackedFacts
  <2>2. Served(r)' = Served(r)
    BY <1>3, <1>5, <1>6, <1>7, <2>1, ServedKept
  <2> QED BY <1>6, <2>2 DEF SameCall
<1>8. OthersSame(q)
  BY <1>6, <1>7 DEF OthersSame
<1>9. CASE q \in Tracked
  <2>1. q # NoReq /\ seq[q] = n /\ q \in waitingRsp
    BY <1>0, <1>1, <1>9, TrackedFacts
  <2>2. Served(q) = "none"
    BY <1>0, <2>1 DEF Served, PackagesUnserved
  <2>3. Served(q)' = did
    BY <1>0, <1>1, <1>3, <1>5, <1>6, <2>1 DEF StillKnown, Served
  <2> QED BY <1>1, <1>8, <1>9, <2>1, <2>2, <2>3, RemoteServe
<1>10. CASE q \notin Tracked
  BY <1>8, <1>10, StepOfOther
<1> QED BY <1>9, <1>10

\* An answer ends the call with what was done about its newest package.
LEMMA AnswerRemote ==
  ASSUME LinkIInv, LinkIInv', NEW a \in replies, LinkAnswer(a)
  PROVE  [Remote!Next]_(Remote!vars)
<1>1. a.seq \in Seqs /\ Track(attempt) /\ a.kind \in {"normal", "no_such_cmd"}
  BY InUse DEF LinkIInv, LinkAnswer, LinkTypeOK, Peer!ServeTypeOK, Peer!ReplyKinds
<1>2. CASE UNCHANGED <<rpcAlive, waitingRsp, finallyType, seq, retryCount, rspHandleMap>>
  BY <1>1, <1>2, QuietRemote
<1>3. ASSUME NEW q \in Requests, NEW kind \in Result(a.kind),
             rspHandleMap[a.seq] = q,
             OnFinish(q, IF q \in canceled THEN "canceled" ELSE kind),
             rspHandleMap' = Without({a.seq}), UNCHANGED <<rpcAlive, seq, retryCount>>
      PROVE  [Remote!Next]_(Remote!vars)
  <2>1. PICK type : /\ type = IF q \in canceled THEN "canceled" ELSE kind
                    /\ OnFinish(q, type)
    BY <1>3
  <2>2. OthersSame(q) /\ (q \in Tracked => EndsWith(q, type))
    BY <1>1, <1>3, <2>1, EndSeen
  <2>3. CASE q \in Tracked
    <3>1. seq[q] = a.seq /\ type = kind
      BY <1>1, <1>3, <2>1, <2>3, TrackedFacts
    <3>2. Served(q) = IF a.kind = "normal" THEN "ran" ELSE "no_such_cmd"
      BY <1>3, <3>1 DEF Served, LinkIInv, AnswersBroughtAbout
    <3>3. type \in Remote!Told[Served(q)] /\ type \in FinallyTypes
      BY <1>1, <3>1, <3>2 DEF Result, Remote!Told, FinallyTypes
    <3> QED BY <1>3, <2>2, <2>3, <3>3, RemoteConclude
  <2>4. CASE q \notin Tracked
    BY <2>2, <2>4, StepOfOther
  <2> QED BY <2>3, <2>4
<1> QED BY <1>2, <1>3 DEF LinkAnswer, Answer, RecvRsp, UseDestroyed, vars

LEMMA LinkStepRemote ==
  ASSUME LinkIInv, LinkIInv', PackagesUnserved, [LinkNext]_linkVars
  PROVE  [Remote!Next]_(Remote!vars)
<1>1. CASE \E r \in Requests, given \in BOOLEAN : LinkCall(r, given)
  BY <1>1, CallRemote
<1>2. CASE \E s \in Seqs : LinkTimer(s)
  BY <1>2, TimerRemote
<1>3. CASE LinkUser
  BY <1>3, UserRemote
<1>4. CASE \E p \in packages : LinkServe(p)
  BY <1>4, ServeRemote
<1>5. CASE LinkPeer \/ Lose
  BY <1>5, QuietRemote DEF LinkPeer, Lose, vars
<1>6. CASE \E a \in replies : LinkAnswer(a)
  BY <1>6, AnswerRemote
<1>7. CASE UNCHANGED linkVars
  <2>1. rpcAlive' = rpcAlive /\ \A r \in Tracked : SameCall(r)
    BY <1>7 DEF linkVars, vars, SameCall, Served
  <2> QED BY <2>1, RemoteSame
<1> QED BY <1>1, <1>2, <1>3, <1>4, <1>5, <1>6, <1>7 DEF LinkNext

LEMMA LinkInitRemote == LinkInit => Remote!Init /\ PackagesUnserved
<1> SUFFICES ASSUME LinkInit PROVE Remote!Init /\ PackagesUnserved
  OBVIOUS
<1>1. /\ waitingRsp = {} /\ retryCount = Retry0 /\ rpcAlive = TRUE /\ packages = {}
      /\ finallyType = [r \in Requests |-> "no_need_rsp"]
  BY DEF LinkInit, Init
<1>2. LinkIInv
  BY LinkInitInv
<1>3. \A r \in Tracked : Served(r) = "none"
  BY <1>1, <1>2, TrackedFacts
<1>4. [r \in Tracked |-> Served(r)] = [r \in Tracked |-> "none"]
  BY <1>3
<1>5. [r \in Tracked |-> finallyType[r]] \in [Tracked -> FinallyTypes]
  BY <1>1 DEF FinallyTypes, Tracked
<1>6. [r \in Tracked |-> retryCount[r]] = [r \in Tracked |-> Retry0[r]]
  BY <1>1
<1> QED BY <1>1, <1>4, <1>5, <1>6 DEF Remote!Init, PackagesUnserved

\* The peer has done nothing yet about a package on its way, so each is taken once.
THEOREM PackagesNew == LinkSpec => []PackagesUnserved
BY LinkInitRemote, UnservedStep, LinkStepInv, LinkInductive, PTL DEF LinkSpec

\* The calling side, the wire and the serving side together implement RemoteCall:
\* a call tried again any number of times over a connection that loses, delays and
\* reorders tells what the peer did about its newest package, or "timeout" when no
\* retry is left, or why it was given up, and nothing once the rpc is gone.
THEOREM LinkImplementsRemoteCall == LinkSpec => ImplementsRemoteCall
BY LinkInitRemote, LinkStepRemote, LinkStepInv, LinkInductive, PackagesNew, PTL
DEF LinkSpec, ImplementsRemoteCall, Remote!Spec
=============================================================================
