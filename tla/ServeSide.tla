----------------------------- MODULE ServeSide -----------------------------
(***************************************************************************)
(* The serving side of one rpc object of the C++ library: the table of     *)
(* command handlers and the command branch of msg_dispatcher::dispatch     *)
(* (detail/msg_dispatcher.hpp), the handlers rpc::subscribe installs       *)
(* (rpc.hpp) and the request_response object rr an asynchronous handler    *)
(* answers through (request_response.hpp, async_helper).                   *)
(*                                                                         *)
(* Everything runs on the thread of the rpc (test_rpc.cpp:388).  A package *)
(* is received in one step up to the call of the user's handler, and       *)
(* finished in another when the handler returns; between the two and ever  *)
(* after, the user may call rsp() on an rr it holds.  A scheduler that     *)
(* runs the handler later is a handler that keeps rr and returns.          *)
(*                                                                         *)
(* A package is [seq, cmd, need]; an rr is named by the number of its      *)
(* package.  What is decoded, computed and encoded is left out: of a       *)
(* package only whether its body decodes, of an answer only its kind.      *)
(***************************************************************************)
EXTENDS Integers

CONSTANTS
  Seqs,      \* sequence numbers of the packages
  Cmds,      \* command names
  Ping,      \* the type flag ping, in the place of a command name
  NoSeq      \* no handler is running

ASSUME ServeSideAssumption == Ping \notin Cmds /\ NoSeq \notin Seqs

VARIABLES
  cmdHandleMap,  \* cmd_handle_map_: "none", "sync" or "async" for each command
  running,       \* the number of the package whose handler runs, or NoSeq
  runCmd,        \* the command of that handler, or Ping
  asked,         \* the packages received with need_rsp set
  holds,         \* the rr the user (or a scheduler) holds
  rspReady,      \* the rr with rsp_ready set
  rspSet,        \* the rr whose rsp closure, which holds the helper, is set
  isReadySet,    \* the rr held by the is_ready closure of their helper
  hooked,        \* the rr whose helper has send_async_response, and so holds
                 \* itself through the package the closure keeps
  connAlive,     \* FALSE once the connection object is destroyed
  replies,       \* the answers sent and not yet delivered
  answers        \* history: answers sent to the present package of a number

serveVars == <<cmdHandleMap, running, runCmd, asked, holds, rspReady, rspSet,
               isReadySet, hooked, connAlive, replies, answers>>

Packages == [seq : Seqs, cmd : Cmds \cup {Ping}, need : BOOLEAN]
HandlerKinds == {"none", "sync", "async"}
ReplyKinds == {"normal", "no_such_cmd"}

ServeInit ==
  /\ cmdHandleMap = [c \in Cmds |-> "none"]
  /\ running = NoSeq /\ runCmd = Ping
  /\ asked = {} /\ holds = {} /\ rspReady = {} /\ rspSet = {}
  /\ isReadySet = {} /\ hooked = {}
  /\ connAlive = TRUE
  /\ replies = {}
  /\ answers = [s \in Seqs |-> 0]
-----------------------------------------------------------------------------
\* Bugs the properties below are tried against.
RespondAgain(s) ==                        \* rsp_ready is not looked at
  /\ s \in rspSet
  /\ rspReady' = rspReady \cup {s}
  /\ IF s \in hooked /\ connAlive
     THEN /\ replies' = replies \cup {[seq |-> s, kind |-> "normal"]}
          /\ answers' = [answers EXCEPT ![s] = @ + 1]
     ELSE UNCHANGED <<replies, answers>>

NeedsHookNever(s) == FALSE                \* the answer is awaited by nobody

AnswersToAll(s) == TRUE                   \* need_rsp is not looked at

DiscardAnswered(p) ==                     \* serialize_error is sent
  /\ p.cmd # Ping
  /\ cmdHandleMap[p.cmd] # "none" /\ p.need
  /\ replies' = replies \cup {[seq |-> p.seq, kind |-> "serialize_error"]}
  /\ UNCHANGED <<cmdHandleMap, running, runCmd, asked, holds, rspReady, rspSet,
                 isReadySet, hooked, connAlive, answers>>
-----------------------------------------------------------------------------
\* send_package_impl of an answer.
Reply(s, kind) ==
  /\ replies' = replies \cup {[seq |-> s, kind |-> kind]}
  /\ answers' = [answers EXCEPT ![s] = @ + 1]

\* What is known of the number s is forgotten: a new package bears it.
Forget(s) ==
  /\ asked' = asked \ {s} /\ rspReady' = rspReady \ {s}
  /\ isReadySet' = isReadySet \ {s} /\ hooked' = hooked \ {s}
  /\ rspSet' = rspSet \ {s}

\* A number is free for the peer to use when neither a handler nor an rr bears
\* it (SeqWindow, a bound: no 2^32 packages pass while an rr is held).
Free(s) == s # running /\ s \notin holds

\* rpc::subscribe and rpc::unsubscribe of a command whose handler is not
\* running (a handler that replaces itself destroys the closure it runs in).
Subscribe(c, kind) ==
  /\ connAlive /\ c # runCmd
  /\ cmdHandleMap' = [cmdHandleMap EXCEPT ![c] = kind]
  /\ UNCHANGED <<running, runCmd, asked, holds, rspReady, rspSet, isReadySet,
                 hooked, connAlive, replies, answers>>

\* A command answered without a handler: a ping is sent back whether or not an
\* answer is asked for, an unknown command only if it is.
Refuse(p) ==
  /\ \/ p.cmd = Ping /\ replies' = replies \cup {[seq |-> p.seq, kind |-> "normal"]}
     \/ p.cmd # Ping /\ cmdHandleMap[p.cmd] = "none" /\ p.need
        /\ replies' = replies \cup {[seq |-> p.seq, kind |-> "no_such_cmd"]}
  /\ answers' = [answers EXCEPT ![p.seq] = 1]
  /\ Forget(p.seq)
  /\ UNCHANGED <<cmdHandleMap, running, runCmd, holds, connAlive>>

\* A command dropped without an answer: unknown and not asked for one, or its
\* body does not decode, and then no answer is sent although one is asked for.
Discard(p) ==
  /\ p.cmd # Ping
  /\ cmdHandleMap[p.cmd] = "none" => ~p.need
  /\ answers' = [answers EXCEPT ![p.seq] = 0]
  /\ Forget(p.seq)
  /\ UNCHANGED <<cmdHandleMap, running, runCmd, holds, connAlive, replies>>

\* The handler of a command whose body decodes starts; an asynchronous one is
\* given an rr, tied to its helper and back.
Start(p) ==
  LET async == cmdHandleMap[p.cmd] = "async"
      rr == IF async THEN {p.seq} ELSE {}
  IN /\ p.cmd # Ping /\ cmdHandleMap[p.cmd] # "none"
     /\ running' = p.seq /\ runCmd' = p.cmd
     /\ asked' = IF p.need THEN asked \cup {p.seq} ELSE asked \ {p.seq}
     /\ holds' = holds \cup rr
     /\ rspReady' = rspReady \ {p.seq}
     /\ rspSet' = (rspSet \ {p.seq}) \cup rr
     /\ isReadySet' = (isReadySet \ {p.seq}) \cup rr
     /\ hooked' = hooked \ {p.seq}
     /\ answers' = [answers EXCEPT ![p.seq] = 0]
     /\ UNCHANGED <<cmdHandleMap, connAlive, replies>>

\* A command package arrives.
Recv(p) ==
  /\ running = NoSeq /\ connAlive /\ Free(p.seq)
  /\ Refuse(p) \/ Discard(p) \/ Start(p)

\* rr->rsp(): the first call stores the answer, and sends it if the handler has
\* returned; later calls do nothing.
Respond(s) ==
  /\ s \in rspSet \ rspReady
  /\ rspReady' = rspReady \cup {s}
  /\ IF s \in hooked /\ connAlive THEN Reply(s, "normal")
     ELSE UNCHANGED <<replies, answers>>

\* The user calls rsp() on an rr it holds.
UserRsp(s) ==
  /\ s \in holds
  /\ Respond(s)
  /\ UNCHANGED <<cmdHandleMap, running, runCmd, asked, holds, rspSet, isReadySet,
                 hooked, connAlive>>

\* An rr and its helper hold each other, or the helper itself.
SelfHeld(s) == s \in hooked \/ s \in rspSet \cap isReadySet

\* The user lets go of an rr, which is destroyed unless the dispatcher or a
\* cycle holds it.
DropRR(s) ==
  /\ s \in holds
  /\ holds' = holds \ {s}
  /\ IF s = running \/ SelfHeld(s)
     THEN UNCHANGED <<asked, rspReady, rspSet, isReadySet, hooked>>
     ELSE Forget(s)
  /\ UNCHANGED <<cmdHandleMap, running, runCmd, connAlive, replies, answers>>

\* Whether the dispatcher answers the package whose handler has returned.
AnswersNow(s) == s \in asked

\* Whether the answer is not there yet and send_async_response has to be set.
NeedsHook(s) == cmdHandleMap[runCmd] = "async" /\ s \notin rspReady

\* The handler returns.  A synchronous one, and an rr answered meanwhile, is
\* answered here, which opens the cycle; an rr not yet answered gets the closure
\* that will.
Return ==
  /\ running # NoSeq
  /\ running' = NoSeq /\ runCmd' = Ping
  /\ \/ /\ ~AnswersNow(running)
        /\ UNCHANGED <<asked, rspReady, rspSet, isReadySet, hooked, replies,
                       answers>>
     \/ /\ AnswersNow(running) /\ NeedsHook(running)
        /\ hooked' = hooked \cup {running}
        /\ UNCHANGED <<asked, rspReady, rspSet, isReadySet, replies, answers>>
     \/ /\ AnswersNow(running) /\ ~NeedsHook(running)
        /\ Reply(running, "normal")
        /\ IF running \in holds
           THEN /\ isReadySet' = isReadySet \ {running}
                /\ UNCHANGED <<asked, rspReady, rspSet, hooked>>
           ELSE Forget(running)
  /\ UNCHANGED <<cmdHandleMap, holds, connAlive>>

\* The connection object is destroyed.
LoseConn ==
  /\ running = NoSeq /\ connAlive
  /\ connAlive' = FALSE
  /\ UNCHANGED <<cmdHandleMap, running, runCmd, asked, holds, rspReady, rspSet,
                 isReadySet, hooked, replies, answers>>

\* An answer leaves for the peer.
Deliver(a) ==
  /\ a \in replies
  /\ replies' = replies \ {a}
  /\ UNCHANGED <<cmdHandleMap, running, runCmd, asked, holds, rspReady, rspSet,
                 isReadySet, hooked, connAlive, answers>>

ServeNext ==
  \/ \E c \in Cmds, kind \in HandlerKinds : Subscribe(c, kind)
  \/ \E p \in Packages : Recv(p)
  \/ \E s \in Seqs : UserRsp(s) \/ DropRR(s)
  \/ Return
  \/ LoseConn
  \/ \E a \in replies : Deliver(a)

ServeSpec == ServeInit /\ [][ServeNext]_serveVars
-----------------------------------------------------------------------------
(***************************************************************************)
(* Properties                                                              *)
(***************************************************************************)
\* Every variable keeps its type.
ServeTypeOK ==
  /\ cmdHandleMap \in [Cmds -> HandlerKinds]
  /\ running \in Seqs \cup {NoSeq} /\ runCmd \in Cmds \cup {Ping}
  /\ running # NoSeq => runCmd \in Cmds
  /\ asked \subseteq Seqs /\ holds \subseteq Seqs /\ rspReady \subseteq Seqs
  /\ rspSet \subseteq Seqs /\ isReadySet \subseteq Seqs /\ hooked \subseteq Seqs
  /\ connAlive \in BOOLEAN
  /\ replies \subseteq [seq : Seqs, kind : ReplyKinds]
  /\ answers \in [Seqs -> Nat]

\* Hazard: rsp() called in the handler, after it, or twice.  A package is
\* answered at most once, whenever and however often the user responds.
OneAnswer == \A s \in Seqs : answers[s] <= 1

\* Hazard: an answer given before the handler returns, or after, falls between
\* the check and the closure that sends it.  An rr whose package asked for an
\* answer and whose handler has returned is answered exactly when rsp() has been
\* called, while the connection lives.
AnsweredWhenReady ==
  connAlive => \A s \in rspSet \cap asked :
    s # running => answers[s] = IF s \in rspReady THEN 1 ELSE 0

\* Hazard: an answer nobody asked for ends a call of the peer under the same
\* number.  The rr of a package that did not ask never answers it.
NoAnswerUnasked == \A s \in rspSet \ asked : answers[s] = 0

\* "it will be release in msg_dispatcher after check" (rpc.hpp:88): an rr that
\* has been answered and let go of is released.
RRReleased ==
  \A s \in rspReady : s \notin holds /\ s # running => ~SelfHeld(s)
-----------------------------------------------------------------------------
(***************************************************************************)
(* What makes the invariants above inductive                               *)
(***************************************************************************)
\* A handler that runs has not been answered for, and has an rr exactly if it
\* is asynchronous.
RunningUnanswered ==
  running # NoSeq =>
    /\ answers[running] = 0 /\ running \notin hooked
    /\ running \in rspSet <=> cmdHandleMap[runCmd] = "async"

\* What waits for its answer is hooked, and only that.
HookedWait ==
  /\ hooked \subseteq asked
  /\ \A s \in hooked \ rspReady : answers[s] = 0
  /\ \A s \in (rspSet \cap asked) \ rspReady : s # running => s \in hooked

\* The inductive invariant.
ServeIInv ==
  /\ ServeTypeOK /\ OneAnswer /\ AnsweredWhenReady /\ NoAnswerUnasked
  /\ RunningUnanswered /\ HookedWait
=============================================================================
