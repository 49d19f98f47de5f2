------------------------------ MODULE CallSide ------------------------------
(***************************************************************************)
(* The calling side of one rpc object of the C++ library: the requests of  *)
(* request.hpp / request.ipp, the table of response handlers and the       *)
(* timeout timers of detail/msg_dispatcher.hpp, rpc::send_request and the  *)
(* dispose of dispose.hpp.                                                 *)
(*                                                                         *)
(* Everything runs on one thread, one callback at a time: a step is one    *)
(* call of the user into the library, one firing of a timer, or one        *)
(* package from the connection.  User code run by a response or a timeout  *)
(* callback runs before the library changes any state, so what it does is  *)
(* a step of its own taken just before.                                    *)
(*                                                                         *)
(* The peer and the wire are left open: while a handler is registered the  *)
(* answer may come at any moment, with any result, or never.  A package    *)
(* whose number has no handler changes nothing (a lost, late or duplicated *)
(* answer), so it has no action.  RpcLink gives the peer and the wire.     *)
(***************************************************************************)
EXTENDS Integers

CONSTANTS
  Requests,    \* the request objects
  NoReq,       \* "no handler registered" in the table of handlers
  Seqs,        \* the sequence numbers (uint32 in the code)
  RspHandle,   \* the requests given a response callback: rsp(), mark_need_rsp()
  Retry0,      \* retry(count) of each request: -1 for ever, else how often
  Bound0,      \* the requests created by the rpc, so bound to it from the start
  TimerSet,    \* TRUE iff rpc::set_timer was called before the first call
  MayCancel,   \* the requests the user may cancel, resume or give to a dispose
  MayOverlap,  \* the requests the user may call() while a call is pending
  MayDrop,     \* the requests whose last shared_ptr the user may release
  MayToggle,   \* the requests the user may disable_rsp() / enable_rsp()
  MayExpire,   \* TRUE iff the user may destroy the rpc
  MaxOwed      \* bound: the user calls a request with -MaxOwed to MaxOwed - 1
               \* finally callbacks owed, and resumes it above -MaxOwed

ASSUME CallSideAssumption ==
  /\ NoReq \notin Requests
  /\ Seqs # {}
  /\ Retry0 \in [Requests -> Nat \cup {-1}]
  /\ TimerSet \in BOOLEAN /\ MayExpire \in BOOLEAN
  /\ MaxOwed \in Nat

VARIABLES
  waitingRsp,    \* the requests with waiting_rsp_ set
  canceled,      \* the requests with canceled_ set
  needRsp,       \* the requests with need_rsp_ set
  selfKeeper,    \* the requests whose self_keeper_ points to themselves
  bound,         \* the requests whose rpc_ points to the rpc
  retryCount,    \* retry_count_
  seq,           \* seq_
  finallyType,   \* finally_type_
  rspHandleMap,  \* rsp_handle_map_: whose handler waits for a number
  timers,        \* the numbers whose timer has been started and not yet fired
  isReady,       \* rpc::is_ready_
  rpcAlive,      \* FALSE once the rpc (and its dispatcher) is destroyed
  requests,      \* dispose::requests_ (weak pointers)
  held,          \* the requests the user holds a shared_ptr of
  owed,          \* history: calls made by the user minus finally callbacks run
  fault          \* TRUE once a destroyed request has been used

vars == <<waitingRsp, canceled, needRsp, selfKeeper, bound, retryCount, seq,
          finallyType, rspHandleMap, timers, isReady, rpcAlive, requests, held,
          owed, fault>>

FinallyTypes == {"normal", "timeout", "canceled", "rpc_expired",
                 "rpc_not_ready", "rsp_serialize_error", "no_such_cmd",
                 "no_need_rsp"}

AnswerKinds == {"normal", "rsp_serialize_error", "no_such_cmd"}

\* A request object exists while the user or its own keeper refers to it.
Alive(r) == r \in held \cup selfKeeper

Init ==
  /\ waitingRsp = {}
  /\ canceled = {}
  /\ needRsp = RspHandle \cap Requests
  /\ selfKeeper = {}
  /\ bound = Bound0 \cap Requests
  /\ retryCount = Retry0
  /\ seq \in {[r \in Requests |-> s] : s \in Seqs}
  /\ finallyType = [r \in Requests |-> "no_need_rsp"]
  /\ rspHandleMap = [s \in Seqs |-> NoReq]
  /\ timers = {}
  /\ isReady = FALSE
  /\ rpcAlive = TRUE
  /\ requests = {}
  /\ held = Requests
  /\ owed = [r \in Requests |-> 0]
  /\ fault = FALSE
-----------------------------------------------------------------------------
\* Bugs the properties below are tried against, each in place of the operator
\* it is named after.
WithoutNothing(gone) == rspHandleMap      \* the entry is not erased

FinishKept(r, type, debt) ==              \* self_keeper_ is not released
  /\ waitingRsp' = waitingRsp \ {r}
  /\ finallyType' = [finallyType EXCEPT ![r] = type]
  /\ owed' = [owed EXCEPT ![r] = debt - 1]
  /\ UNCHANGED selfKeeper

WaitUnkept(r, debt) ==                    \* self_keeper_ is not set
  /\ waitingRsp' = waitingRsp \cup {r}
  /\ owed' = [owed EXCEPT ![r] = debt]
  /\ UNCHANGED <<selfKeeper, finallyType>>

FreshSeqsAny == Seqs                      \* seq_ is not counted up

CountLeftSame(count) == count             \* retry_count_ is not counted down

CountLeftMore(count) == count + 1         \* retry_count_ is counted up

CallRefusedLate(r, reached, type) ==      \* canceled_ is not looked at
  \/ ~reached /\ type = "rpc_expired"
  \/ reached /\ ~isReady /\ type = "rpc_not_ready"
-----------------------------------------------------------------------------
\* rpc::make_seq counts up and wraps at 2^32.  SeqWindow, a bound: a
\* number is taken again only when its timer is gone, that is no 2^32 calls are
\* made within one timeout.
FreshSeqs == Seqs \ timers

\* A call of the user leaves one fresh number, of the 2^32 there are, for a
\* retry that may still come (the same bound).
CallSeqs == {n \in FreshSeqs :
               FreshSeqs = {n} => \A q \in Requests : retryCount[q] = 0}

\* The handlers left when the entries in gone have been erased.
Without(gone) == [s \in Seqs |-> IF s \in gone THEN NoReq ELSE rspHandleMap[s]]

\* on_finish of a waiting request: the finally callback runs and the request
\* lets go of itself.  debt is the number of finally callbacks owed before.
Finish(r, type, debt) ==
  /\ waitingRsp' = waitingRsp \ {r}
  /\ selfKeeper' = selfKeeper \ {r}
  /\ finallyType' = [finallyType EXCEPT ![r] = type]
  /\ owed' = [owed EXCEPT ![r] = debt - 1]

OnFinishAlways(r, type) ==                \* bug: waiting_rsp_ is not tested
  Finish(r, type, owed[r])

\* on_finish, which returns at once when nothing is waited for.
OnFinish(r, type) ==
  IF r \in waitingRsp
  THEN Finish(r, type, owed[r])
  ELSE UNCHANGED <<waitingRsp, selfKeeper, finallyType, owed>>

\* The request goes on waiting, kept alive by itself.
Wait(r, debt) ==
  /\ waitingRsp' = waitingRsp \cup {r}
  /\ selfKeeper' = selfKeeper \cup {r}
  /\ owed' = [owed EXCEPT ![r] = debt]
  /\ UNCHANGED finallyType

\* What makes call() give up before anything is sent, in the order tested.
CallRefused(r, reached, type) ==
  \/ r \in canceled /\ type = "canceled"
  \/ r \notin canceled /\ ~reached /\ type = "rpc_expired"
  \/ r \notin canceled /\ reached /\ ~isReady /\ type = "rpc_not_ready"

\* msg_dispatcher::subscribe_rsp registers a number only with a handler and a
\* timer implementation; otherwise it returns and nothing is remembered.
Subscribed(r, n) ==
  IF r \in needRsp \cap RspHandle /\ TimerSet THEN {n} ELSE {}

\* send_request under the fresh number n; the entries in gone are erased when
\* the timer that retries returns.
SendRequest(r, n, gone) ==
  /\ seq' = [seq EXCEPT ![r] = n]
  /\ rspHandleMap' = [s \in Seqs |-> IF s \in Subscribed(r, n)
                                     THEN r ELSE Without(gone)[s]]
  /\ timers' = (timers \ gone) \cup Subscribed(r, n)

\* The body of request::call: reached tells whether rpc_ can be locked, debt
\* how many finally callbacks are owed with this call.
CallBody(r, reached, debt, gone, fresh) ==
  \/ \E type \in FinallyTypes :
       /\ CallRefused(r, reached, type)
       /\ Finish(r, type, debt)
       /\ rspHandleMap' = Without(gone)
       /\ timers' = timers \ gone
       /\ UNCHANGED seq
  \/ /\ r \notin canceled /\ reached /\ isReady
     /\ \E n \in fresh : SendRequest(r, n, gone)
     /\ IF r \in needRsp THEN Wait(r, debt) ELSE Finish(r, "no_need_rsp", debt)
-----------------------------------------------------------------------------
\* The user calls call(), or call(rpc) when given is TRUE.
Call(r, given) ==
  /\ ~fault /\ r \in held
  /\ r \in waitingRsp => r \in MayOverlap
  /\ owed[r] < MaxOwed /\ -MaxOwed <= owed[r]
  /\ given => rpcAlive
  /\ bound' = IF given /\ r \notin canceled THEN bound \cup {r} ELSE bound
  /\ CallBody(r, given \/ (rpcAlive /\ r \in bound), owed[r] + 1, {},
              CallSeqs)
  /\ UNCHANGED <<canceled, needRsp, retryCount, isReady, rpcAlive, requests,
                 held, fault>>

\* cancel()
Cancel(r) ==
  /\ ~fault /\ r \in held \cap MayCancel
  /\ canceled' = canceled \cup {r}
  /\ OnFinish(r, "canceled")
  /\ UNCHANGED <<needRsp, bound, retryCount, seq, rspHandleMap, timers, isReady,
                 rpcAlive, requests, held, fault>>

\* canceled(bool), and reset_cancel() which is canceled(false)
SetCanceled(r, on) ==
  /\ ~fault /\ r \in held \cap MayCancel
  /\ on \/ -MaxOwed < owed[r]
  /\ canceled' = IF on THEN canceled \cup {r} ELSE canceled \ {r}
  /\ UNCHANGED <<waitingRsp, needRsp, selfKeeper, bound, retryCount, seq,
                 finallyType, rspHandleMap, timers, isReady, rpcAlive, requests,
                 held, owed, fault>>

\* enable_rsp() and disable_rsp()
SetNeedRsp(r, on) ==
  /\ ~fault /\ r \in held \cap MayToggle
  /\ needRsp' = IF on THEN needRsp \cup {r} ELSE needRsp \ {r}
  /\ UNCHANGED <<waitingRsp, canceled, selfKeeper, bound, retryCount, seq,
                 finallyType, rspHandleMap, timers, isReady, rpcAlive, requests,
                 held, owed, fault>>

\* add_to(dispose)
AddTo(r) ==
  /\ ~fault /\ r \in held \cap MayCancel
  /\ requests' = requests \cup {r}
  /\ UNCHANGED <<waitingRsp, canceled, needRsp, selfKeeper, bound, retryCount,
                 seq, finallyType, rspHandleMap, timers, isReady, rpcAlive,
                 held, owed, fault>>

\* dispose::remove, which also forgets the requests that are gone
Remove(r) ==
  /\ ~fault /\ r \in held
  /\ requests' = {q \in requests : Alive(q) /\ q # r}
  /\ UNCHANGED <<waitingRsp, canceled, needRsp, selfKeeper, bound, retryCount,
                 seq, finallyType, rspHandleMap, timers, isReady, rpcAlive,
                 held, owed, fault>>

\* dispose::dismiss, also run by ~dispose: cancel() every request still alive.
Dismiss ==
  LET live == {r \in requests : Alive(r)}
      ends == live \cap waitingRsp
  IN /\ ~fault /\ requests # {}
     /\ requests' = {}
     /\ canceled' = canceled \cup live
     /\ waitingRsp' = waitingRsp \ ends
     /\ selfKeeper' = selfKeeper \ ends
     /\ finallyType' = [r \in Requests |-> IF r \in ends THEN "canceled"
                                           ELSE finallyType[r]]
     /\ owed' = [r \in Requests |-> IF r \in ends THEN owed[r] - 1
                                    ELSE owed[r]]
     /\ UNCHANGED <<needRsp, bound, retryCount, seq, rspHandleMap, timers,
                    isReady, rpcAlive, held, fault>>

\* The user releases its last shared_ptr of a request.
Drop(r) ==
  /\ ~fault /\ r \in held \cap MayDrop
  /\ held' = held \ {r}
  /\ UNCHANGED <<waitingRsp, canceled, needRsp, selfKeeper, bound, retryCount,
                 seq, finallyType, rspHandleMap, timers, isReady, rpcAlive,
                 requests, owed, fault>>

\* rpc::set_ready
SetReady(ready) ==
  /\ ~fault /\ rpcAlive
  /\ isReady' = ready
  /\ UNCHANGED <<waitingRsp, canceled, needRsp, selfKeeper, bound, retryCount,
                 seq, finallyType, rspHandleMap, timers, rpcAlive, requests,
                 held, owed, fault>>

\* The last shared_ptr of the rpc goes: the dispatcher dies with its table.
Expire ==
  /\ ~fault /\ rpcAlive /\ MayExpire
  /\ rpcAlive' = FALSE
  /\ rspHandleMap' = Without(Seqs)
  /\ UNCHANGED <<waitingRsp, canceled, needRsp, selfKeeper, bound, retryCount,
                 seq, finallyType, timers, isReady, requests, held, owed, fault>>
-----------------------------------------------------------------------------
\* A handler or timeout callback holds a bare pointer to its request: run after
\* the request is destroyed, it is undefined behaviour and the model stops.
UseDestroyed(s) ==
  /\ rspHandleMap[s] # NoReq /\ ~Alive(rspHandleMap[s])
  /\ fault' = TRUE
  /\ UNCHANGED <<waitingRsp, canceled, needRsp, selfKeeper, bound, retryCount,
                 seq, finallyType, rspHandleMap, timers, isReady, rpcAlive,
                 requests, held, owed>>

\* The retries left after one more; -1 stands for "for ever".
CountLeft(count) == IF count = -1 THEN count ELSE count - 1

\* timeout_cb_ of a live request, then the dispatcher erases the entry.
Timeout(r, s) ==
  \/ /\ retryCount[r] # 0
     /\ retryCount' = [retryCount EXCEPT ![r] = CountLeft(@)]
     /\ CallBody(r, r \in bound, owed[r], {s}, FreshSeqs)
  \/ /\ retryCount[r] = 0
     /\ OnFinish(r, "timeout")
     /\ rspHandleMap' = Without({s})
     /\ timers' = timers \ {s}
     /\ UNCHANGED <<retryCount, seq>>

\* The timer of number s fires; with no handler left (answered, or the rpc is
\* gone) it does nothing.
TimerFire(s) ==
  /\ ~fault /\ s \in timers
  /\ \/ /\ rspHandleMap[s] = NoReq
        /\ timers' = timers \ {s}
        /\ UNCHANGED <<waitingRsp, canceled, needRsp, selfKeeper, bound,
                       retryCount, seq, finallyType, rspHandleMap, isReady,
                       rpcAlive, requests, held, owed, fault>>
     \/ UseDestroyed(s)
     \/ \E r \in Requests :
          /\ rspHandleMap[s] = r /\ Alive(r)
          /\ Timeout(r, s)
          /\ UNCHANGED <<canceled, needRsp, bound, isReady, rpcAlive, requests,
                         held, fault>>

\* A response for number s arrives.  The handler looks at canceled_ first; it
\* never compares seq_, so it may end a later call of the same request.
RecvRsp(s, kind) ==
  /\ ~fault
  /\ \/ UseDestroyed(s)
     \/ \E r \in Requests :
          /\ rspHandleMap[s] = r /\ Alive(r)
          /\ OnFinish(r, IF r \in canceled THEN "canceled" ELSE kind)
          /\ rspHandleMap' = Without({s})
          /\ UNCHANGED <<canceled, needRsp, bound, retryCount, seq, timers,
                         isReady, rpcAlive, requests, held, fault>>

Next ==
  \/ \E r \in Requests :
       \/ \E given \in BOOLEAN : Call(r, given)
       \/ Cancel(r)
       \/ \E on \in BOOLEAN : SetCanceled(r, on)
       \/ \E on \in BOOLEAN : SetNeedRsp(r, on)
       \/ AddTo(r)
       \/ Remove(r)
       \/ Drop(r)
  \/ Dismiss
  \/ \E ready \in BOOLEAN : SetReady(ready)
  \/ Expire
  \/ \E s \in Seqs : TimerFire(s)
  \/ \E s \in Seqs, kind \in AnswerKinds : RecvRsp(s, kind)

Spec == Init /\ [][Next]_vars

\* Every timer that was started fires in the end; nothing else is promised.
FairSpec == Spec /\ \A s \in Seqs : WF_vars(TimerFire(s))
-----------------------------------------------------------------------------
(***************************************************************************)
(* Properties                                                              *)
(***************************************************************************)
\* Every variable keeps its type, retry_count_ within what retry() gave.
TypeOK ==
  /\ waitingRsp \subseteq Requests /\ canceled \subseteq Requests
  /\ needRsp \subseteq Requests /\ selfKeeper \subseteq Requests
  /\ bound \subseteq Requests /\ requests \subseteq Requests
  /\ held \subseteq Requests
  /\ retryCount \in [Requests -> Nat \cup {-1}]
  /\ \A r \in Requests : IF Retry0[r] = -1 THEN retryCount[r] = -1
                        ELSE retryCount[r] \in 0 .. Retry0[r]
  /\ seq \in [Requests -> Seqs]
  /\ finallyType \in [Requests -> FinallyTypes]
  /\ owed \in [Requests -> Int]
  /\ rspHandleMap \in [Seqs -> Requests \cup {NoReq}]
  /\ timers \subseteq Seqs
  /\ isReady \in BOOLEAN /\ rpcAlive \in BOOLEAN /\ fault \in BOOLEAN

\* The requests whose handlers can outlive the call they were made for: a
\* cancel() and a call() while waiting leave the old handler in the table.
Interrupted == MayCancel \cup MayOverlap

\* The request can be answered or can time out.
Registers(r) == r \in RspHandle /\ TimerSet

\* "one call, one finally" (request.hpp:142) is kept for a request that is not
\* called again while it waits and, if it can be canceled, is never retried.
Disciplined(r) ==
  r \notin MayOverlap /\ (r \in MayCancel => Retry0[r] = 0)

\* Hazard: a registered handler that nothing will ever remove.  Every entry of
\* the handler table has a timer still to fire.
EntryHasTimer == \A s \in Seqs : rspHandleMap[s] # NoReq => s \in timers

\* Hazard: a pending call nobody can end, after retries, cancels and repeated
\* calls have replaced its number.  The last number sent is registered for it.
WaiterRegistered ==
  rpcAlive => \A r \in waitingRsp : Registers(r) => rspHandleMap[seq[r]] = r

\* Hazard: a request leaked, or destroyed while it waits.  A request keeps
\* itself alive exactly while its call is pending.
KeptWhileWaiting == selfKeeper = waitingRsp

\* Every call is followed by exactly one finally callback: one is owed while
\* the call is pending, and none once it has ended.
OneCallOneFinally ==
  \A r \in Requests :
    Disciplined(r) => owed[r] = IF r \in waitingRsp THEN 1 ELSE 0

\* "one call, one finally" as the comment of request::finally has it, for every
\* request that is not called while it waits.
OneCallOneFinallyAlways ==
  \A r \in Requests \ MayOverlap :
    owed[r] = IF r \in waitingRsp THEN 1 ELSE 0

\* For the disciplined requests the calling side implements CallContract.
Clean == {r \in Requests : Disciplined(r)}
Contract == INSTANCE CallContract WITH
  Requests <- Clean, Types <- FinallyTypes,
  owed <- [r \in Clean |-> owed[r]], result <- [r \in Clean |-> finallyType[r]]
ImplementsContract == Contract!Spec

\* Handlers and timers hold a bare pointer to their request.  The user keeps
\* that sound by holding on to what it cancels or calls again while waiting.
OwnershipKept == MayDrop \cap Interrupted = {}

\* Hazard: a handler left behind by a finished call.  The request behind every
\* registered handler is still alive, and so is never used when destroyed.
HandlersAlive ==
  /\ \A s \in Seqs : rspHandleMap[s] # NoReq => Alive(rspHandleMap[s])
  /\ ~fault

\* No response or timeout ever runs on a destroyed request.
NoUseAfterFree == ~fault

\* Hazard: the answer or timer of an earlier attempt ends the present call.  A
\* call that is neither canceled nor overlapped ends in the step that takes
\* its own last number from the table, or before it was sent at all.
EndedByOwnAttempt ==
  [][\A r \in waitingRsp \ Interrupted :
       r \notin waitingRsp' => /\ rspHandleMap[seq[r]] = r
                              /\ rspHandleMap'[seq[r]] = NoReq]_vars

\* Every call of a request with a finite number of retries ends, by an answer
\* or by the timer, as long as the rpc lives.
EveryCallEnds ==
  \A r \in Requests :
    Registers(r) /\ Retry0[r] # -1 =>
      (r \in waitingRsp ~> r \notin waitingRsp \/ ~rpcAlive)

\* A canceled request, even one that retries for ever, stops sending: its
\* handlers leave the table unless the user resumes it.
CancelStopsRetries ==
  \A r \in Requests :
    r \in canceled ~> \/ r \notin canceled
                      \/ \A s \in Seqs : rspHandleMap[s] # r
-----------------------------------------------------------------------------
(***************************************************************************)
(* What makes the invariants above inductive                               *)
(***************************************************************************)
\* A registered request is bound to the rpc, and a dead rpc has no entries.
EntriesReachable ==
  /\ \A s \in Seqs : rspHandleMap[s] # NoReq => rspHandleMap[s] \in bound
  /\ ~rpcAlive => \A s \in Seqs : rspHandleMap[s] = NoReq

\* A request that is never interrupted has no handler but that of its pending
\* call.
EntriesOwn ==
  \A s \in Seqs : rspHandleMap[s] \in Requests \ Interrupted =>
    /\ rspHandleMap[s] \in waitingRsp
    /\ seq[rspHandleMap[s]] = s

\* What the user may not do is never done.
RulesKept ==
  /\ canceled \subseteq MayCancel /\ requests \subseteq MayCancel
  /\ Requests \ MayDrop \subseteq held

\* The inductive invariant.
IInv ==
  /\ TypeOK /\ EntryHasTimer /\ KeptWhileWaiting /\ WaiterRegistered
  /\ EntriesReachable /\ EntriesOwn /\ RulesKept /\ OneCallOneFinally
=============================================================================
