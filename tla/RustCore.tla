------------------------------ MODULE RustCore ------------------------------
(***************************************************************************)
(* One rpc of the Rust library with its requests and its dispatcher        *)
(* (request.rs, rpc.rs, detail/msg_dispatcher.rs).  The life of a call is  *)
(* that of CallSide; what is new is that each object is a RefCell, and     *)
(* that callbacks of the user run while some of them are borrowed: a       *)
(* second borrow panics.                                                   *)
(*                                                                         *)
(* A step goes from one callback of the user to the next.  Callbacks nest: *)
(* the dispatcher runs one at a time, and each finally callback may run    *)
(* inside it or inside another finally.  A panic ends the model, and says  *)
(* whose step it was.                                                      *)
(***************************************************************************)
EXTENDS Integers, Sequences, FiniteSets

CONSTANTS
  Requests,      \* the requests made by this rpc
  Seqs,          \* the numbers of packages
  NoReq,         \* no request
  Retry0,        \* the count each request was given with retry()
  TimerSet,      \* TRUE iff set_timer() was called
  ConnBorrowed   \* TRUE iff the connection is borrowed mutably while a package
                 \* it received is dispatched, as RpcClient does

VARIABLES
  waitingRsp, canceled, needRsp, selfKeeper, retryCount,   \* of the requests
  rspHandleMap,  \* MsgDispatcher: the request each number is registered for
  timers,        \* the numbers whose timer has not fired
  subscribed,    \* TRUE iff the command has a handler
  isReady,       \* Rpc::is_ready
  rpcAlive,      \* TRUE until the last Rc of the rpc goes
  held,          \* the requests the user has an Rc of
  borrowed,      \* what dispatches and has the dispatcher borrowed, or "none"
  callback,      \* the callback the dispatcher runs, and its request
  finals,        \* the requests whose finally callback runs, innermost first
  panicked       \* whose step has panicked, or "nobody"

requestVars == <<waitingRsp, canceled, needRsp, selfKeeper, retryCount>>
dispatcherVars == <<rspHandleMap, timers, subscribed>>
rpcVars == <<isReady, rpcAlive, held>>
stackVars == <<borrowed, callback, finals>>
rustVars == <<requestVars, dispatcherVars, rpcVars, stackVars, panicked>>

Callbacks == {"none", "cmd", "cmd_need_rsp", "rsp", "timeout"}
NoCallback == [kind |-> "none", req |-> NoReq]

RustInit ==
  /\ waitingRsp = {} /\ canceled = {} /\ needRsp \in SUBSET Requests
  /\ selfKeeper = {} /\ retryCount = Retry0
  /\ rspHandleMap = [s \in Seqs |-> NoReq] /\ timers = {} /\ subscribed = FALSE
  /\ isReady = FALSE /\ rpcAlive = TRUE /\ held = Requests
  /\ borrowed = "none" /\ callback = NoCallback /\ finals = <<>>
  /\ panicked = "nobody"
-----------------------------------------------------------------------------
\* A request is borrowed mutably while its finally callback runs.
Borrowed(r) == \E i \in DOMAIN finals : finals[i] = r

\* The connection is borrowed mutably, so that nothing can be sent.
ConnBusy == ConnBorrowed /\ borrowed = "package"

\* A request lives while the user, itself or a callback that runs refers to it.
Alive(r) == r \in held \cup selfKeeper \/ callback.req = r \/ Borrowed(r)

\* Nothing runs.
Idle == callback = NoCallback /\ finals = <<>>

\* What is borrowed is borrowed already: the step ends in a panic.
Panic(who) ==
  /\ panicked' = who
  /\ UNCHANGED <<requestVars, dispatcherVars, rpcVars, stackVars>>

\* on_finish of a request that waits or not, in a step that dispatches or not
\* (source) and runs no other callback any more if ends is TRUE.
OnFinish(r, waits, source, ends) ==
  LET inner == IF ends THEN NoCallback ELSE callback IN
  /\ waitingRsp' = waitingRsp \ {r}
  /\ callback' = inner
  /\ IF waits
     THEN finals' = <<r>> \o finals /\ borrowed' = source
     ELSE /\ finals' = finals
          /\ borrowed' = IF inner = NoCallback /\ finals = <<>> THEN "none"
                         ELSE source

\* MsgDispatcher::subscribe_rsp; without a timer nothing but an answer removes
\* the entry.
SubscribeRsp(r, s) ==
  /\ rspHandleMap' = [rspHandleMap EXCEPT ![s] = r]
  /\ timers' = IF TimerSet THEN timers \cup {s} ELSE timers

\* Rpc::make_seq.  A number is taken again only when nothing is left of it (a
\* bound, as in CallSide).
FreshSeqs == {s \in Seqs \ timers : rspHandleMap[s] = NoReq}
-----------------------------------------------------------------------------
\* Request::call, by the user or, for a retry, by the timeout callback of the
\* library, which is then over.
CallRefused(r) == r \in canceled \/ ~rpcAlive \/ ~isReady

CallPanics(r) ==
  \/ Borrowed(r)
  \/ ~CallRefused(r) /\ ConnBusy
  \/ ~CallRefused(r) /\ r \in needRsp /\ borrowed # "none"

CallBody(r, who, ends) ==
  \/ CallPanics(r) /\ Panic(who)
  \/ /\ ~CallPanics(r)
     /\ UNCHANGED <<canceled, needRsp, subscribed, rpcVars, panicked>>
     /\ \/ /\ CallRefused(r) \/ r \notin needRsp
           /\ selfKeeper' = IF r \in canceled THEN selfKeeper
                            ELSE selfKeeper \cup {r}
           /\ OnFinish(r, TRUE, borrowed, ends)
           /\ UNCHANGED <<rspHandleMap, timers>>
        \/ /\ ~CallRefused(r) /\ r \in needRsp
           /\ waitingRsp' = waitingRsp \cup {r}
           /\ selfKeeper' = selfKeeper \cup {r}
           /\ \E s \in FreshSeqs : SubscribeRsp(r, s)
           /\ UNCHANGED stackVars

\* The user calls call(), at any time, or in any callback.
Call(r) ==
  /\ panicked = "nobody" /\ r \in held
  /\ CallBody(r, "user", FALSE)
  /\ UNCHANGED retryCount

\* cancel(); Dispose::dismiss does it to one request after the other.
Cancel(r) ==
  /\ panicked = "nobody" /\ r \in held
  /\ \/ Borrowed(r) /\ Panic("user")
     \/ /\ ~Borrowed(r)
        /\ canceled' = canceled \cup {r}
        /\ OnFinish(r, r \in waitingRsp, borrowed, FALSE)
        /\ UNCHANGED <<needRsp, selfKeeper, retryCount, dispatcherVars, rpcVars,
                       panicked>>

\* reset_cancel(), rsp() and disable_rsp()
Configure(r) ==
  /\ panicked = "nobody" /\ r \in held
  /\ \/ Borrowed(r) /\ Panic("user")
     \/ /\ ~Borrowed(r)
        /\ \/ canceled' = canceled \ {r} /\ UNCHANGED needRsp
           \/ needRsp' = needRsp \cup {r} /\ UNCHANGED canceled
           \/ needRsp' = needRsp \ {r} /\ UNCHANGED canceled
        /\ UNCHANGED <<waitingRsp, selfKeeper, retryCount, dispatcherVars,
                       rpcVars, stackVars, panicked>>

\* Rpc::subscribe and unsubscribe
Subscribe(on) ==
  /\ panicked = "nobody" /\ rpcAlive
  /\ \/ borrowed # "none" /\ Panic("user")
     \/ /\ borrowed = "none"
        /\ subscribed' = on
        /\ UNCHANGED <<requestVars, rspHandleMap, timers, rpcVars, stackVars,
                       panicked>>

\* The user drops its last Rc of a request, or of the rpc outside callbacks, or
\* calls set_ready().
Drop(r) ==
  /\ panicked = "nobody" /\ held' = held \ {r}
  /\ UNCHANGED <<requestVars, dispatcherVars, isReady, rpcAlive, stackVars,
                 panicked>>
Expire ==
  /\ panicked = "nobody" /\ Idle /\ rpcAlive' = FALSE
  /\ rspHandleMap' = [s \in Seqs |-> NoReq] /\ subscribed' = FALSE
  /\ UNCHANGED <<requestVars, timers, isReady, held, stackVars, panicked>>
SetReady(ready) ==
  /\ panicked = "nobody" /\ rpcAlive /\ isReady' = ready
  /\ UNCHANGED <<requestVars, dispatcherVars, rpcAlive, held, stackVars,
                 panicked>>
-----------------------------------------------------------------------------
\* The dispatcher, borrowed by source, runs a callback of kind for r.
Run(kind, r, source) ==
  /\ callback' = [kind |-> kind, req |-> r]
  /\ borrowed' = source
  /\ UNCHANGED <<waitingRsp, finals>>

\* A command arrives: a handler runs.  Without one, or for a ping, an answer is
\* sent at once, through the connection.
RecvCmd(need) ==
  /\ panicked = "nobody" /\ Idle /\ rpcAlive
  /\ \/ /\ subscribed
        /\ Run(IF need THEN "cmd_need_rsp" ELSE "cmd", NoReq, "package")
        /\ UNCHANGED <<canceled, needRsp, selfKeeper, retryCount,
                       dispatcherVars, rpcVars, panicked>>
     \/ ~subscribed /\ need /\ ConnBorrowed /\ Panic("library")

\* The entry of s is removed before what is registered there runs, if its
\* request is still there.
TakeEntry(s, kind, source, finished) ==
  LET r == rspHandleMap[s] IN
  /\ rspHandleMap' = [rspHandleMap EXCEPT ![s] = NoReq]
  /\ \/ (r = NoReq \/ ~Alive(r)) /\ UNCHANGED <<waitingRsp, stackVars>>
     \/ r # NoReq /\ Alive(r) /\ finished
        /\ OnFinish(r, r \in waitingRsp, source, FALSE)
     \/ r # NoReq /\ Alive(r) /\ ~finished /\ Run(kind, r, source)
  /\ UNCHANGED <<canceled, needRsp, selfKeeper, retryCount, subscribed, rpcVars,
                 panicked>>

\* An answer arrives.  It is not given to the user if the request is canceled,
\* there was no such command, or it does not decode.
RecvRsp(s, readable) ==
  /\ panicked = "nobody" /\ Idle /\ rspHandleMap[s] # NoReq
  /\ TakeEntry(s, "rsp", "package",
               rspHandleMap[s] \in canceled \/ ~readable)
  /\ UNCHANGED timers

\* A timer fires.
TimerFire(s) ==
  /\ panicked = "nobody" /\ Idle /\ s \in timers
  /\ TakeEntry(s, "timeout", "timer", FALSE)
  /\ timers' = timers \ {s}

\* The retries left after one more; -1 stands for "for ever".
CountLeft(count) == IF count = -1 THEN count ELSE count - 1

\* A finally callback returns.
ReturnFinally ==
  /\ panicked = "nobody" /\ finals # <<>>
  /\ finals' = Tail(finals)
  /\ selfKeeper' = selfKeeper \ {Head(finals)}
  /\ borrowed' = IF Len(finals) = 1 /\ callback = NoCallback THEN "none"
                 ELSE borrowed
  /\ UNCHANGED <<waitingRsp, canceled, needRsp, retryCount, dispatcherVars,
                 rpcVars, callback, panicked>>

\* A command handler returns, and is answered if it is to be.
ReturnCmd ==
  /\ panicked = "nobody" /\ finals = <<>>
  /\ callback.kind \in {"cmd", "cmd_need_rsp"}
  /\ \/ callback.kind = "cmd_need_rsp" /\ ConnBusy /\ Panic("library")
     \/ /\ ~(callback.kind = "cmd_need_rsp" /\ ConnBusy)
        /\ callback' = NoCallback /\ borrowed' = "none"
        /\ UNCHANGED <<requestVars, dispatcherVars, rpcVars, finals, panicked>>

\* A response callback returns, or a timeout callback with no retry left.
\* No finally runs by then, so that the request is not borrowed.
ReturnLast(r) ==
  /\ OnFinish(r, r \in waitingRsp, borrowed, TRUE)
  /\ UNCHANGED <<canceled, needRsp, selfKeeper, retryCount, dispatcherVars,
                 rpcVars, panicked>>

\* A timeout callback returns and the call is made again.
ReturnRetry(r) ==
  /\ CallBody(r, "library", TRUE)
  /\ retryCount' = IF CallPanics(r) THEN retryCount
                   ELSE [retryCount EXCEPT ![r] = CountLeft(@)]

ReturnAnswered ==
  /\ panicked = "nobody" /\ finals = <<>>
  /\ \/ callback.kind = "rsp" /\ ReturnLast(callback.req)
     \/ callback.kind = "timeout" /\ retryCount[callback.req] = 0
        /\ ReturnLast(callback.req)
     \/ callback.kind = "timeout" /\ retryCount[callback.req] # 0
        /\ ReturnRetry(callback.req)

RustNext ==
  \/ \E r \in Requests : Call(r) \/ Cancel(r) \/ Configure(r) \/ Drop(r)
  \/ \E on \in BOOLEAN : Subscribe(on) \/ SetReady(on)
  \/ Expire
  \/ \E need \in BOOLEAN : RecvCmd(need)
  \/ \E s \in Seqs, readable \in BOOLEAN : RecvRsp(s, readable)
  \/ \E s \in Seqs : TimerFire(s)
  \/ ReturnFinally \/ ReturnCmd \/ ReturnAnswered

RustSpec == RustInit /\ [][RustNext]_rustVars
-----------------------------------------------------------------------------
(***************************************************************************)
(* Properties                                                              *)
(***************************************************************************)
\* Every variable keeps its type.
RustTypeOK ==
  /\ waitingRsp \subseteq Requests /\ canceled \subseteq Requests
  /\ needRsp \subseteq Requests /\ selfKeeper \subseteq Requests
  /\ retryCount \in [Requests -> Nat \cup {-1}]
  /\ rspHandleMap \in [Seqs -> Requests \cup {NoReq}] /\ timers \subseteq Seqs
  /\ subscribed \in BOOLEAN /\ isReady \in BOOLEAN /\ rpcAlive \in BOOLEAN
  /\ held \subseteq Requests
  /\ borrowed \in {"none", "package", "timer"}
  /\ callback \in [kind : Callbacks, req : Requests \cup {NoReq}]
  /\ finals \in Seq(Requests)
  /\ panicked \in {"nobody", "user", "library"}

\* "Support timeout, retry, cancel api" (README.md:35): whatever the user does and
\* wherever, a step of the library itself never panics.
LibraryNeverPanics == panicked # "library"

\* Hazard: a finally callback that calls its request again, or is reached a second
\* time, releases a request that waits.  A request keeps itself alive while it
\* waits, and beyond that only until its finally callback returns.
KeptUntilFinally ==
  /\ waitingRsp \subseteq selfKeeper
  /\ \A r \in selfKeeper \ waitingRsp : Borrowed(r)

\* Hazard: a call made from a callback, or during one of its own, that nothing ends.
\* While the rpc lives, a request that waits has an entry, with a timer if there
\* are any, or the callback that runs will end it.
WaiterHasEnd ==
  rpcAlive => \A r \in waitingRsp :
    \/ callback.req = r
    \/ \E s \in Seqs : rspHandleMap[s] = r /\ (TimerSet => s \in timers)
-----------------------------------------------------------------------------
(***************************************************************************)
(* What makes the properties above hold after any number of steps          *)
(***************************************************************************)
\* The finally callbacks that run are of requests apart, which do not wait.
FinalsApart ==
  /\ \A i, j \in DOMAIN finals : finals[i] = finals[j] => i = j
  /\ \A i \in DOMAIN finals : finals[i] \notin waitingRsp

\* The dispatcher is borrowed while it runs a callback; the callbacks of a request
\* are those of an answer and of a timer.
CallbackMatches ==
  /\ callback # NoCallback => borrowed # "none"
  /\ callback.req # NoReq <=> callback.kind \in {"rsp", "timeout"}

\* The inductive invariant.
RustIInv ==
  /\ RustTypeOK /\ KeptUntilFinally /\ WaiterHasEnd
  /\ FinalsApart /\ CallbackMatches
=============================================================================
