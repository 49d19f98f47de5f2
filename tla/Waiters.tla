------------------------------- MODULE Waiters -------------------------------
(***************************************************************************)
(* Waiting for the answer of a call: request::future and request::co_call  *)
(* of request.ipp, on top of CallSide.                                     *)
(*                                                                         *)
(* Both put a callback into the request that completes what is waited on,  *)
(* a promise or a coroutine, and then call it.  When there is no result to *)
(* wait for (void) the finally callback completes it; otherwise the        *)
(* response callback does, and no other end of the call.  A copy of the    *)
(* response callback is in the table of handlers for every attempt, so an  *)
(* old attempt may complete what an earlier future() returned: the model   *)
(* follows the newest one of each request.                                 *)
(***************************************************************************)
EXTENDS CallSide

CONSTANTS
  ValueWaiters,  \* the requests called by future<R>() or co_call<R>()
  VoidWaiters    \* the requests called by future() or co_call(), of void

Waiting == ValueWaiters \cup VoidWaiters

ASSUME WaitersAssumption ==
  /\ Waiting \subseteq RspHandle \cap Requests
  /\ ValueWaiters \cap VoidWaiters = {}

VARIABLES
  waiter,   \* what the newest future() or co_call() of a request returned
  current,  \* the numbers whose handler completes the newest one
  twice     \* the requests that completed one twice: std::future_error is thrown

waitersVars == <<vars, waiter, current, twice>>

WaitersInit ==
  /\ Init
  /\ waiter = [r \in Requests |-> "idle"]
  /\ current = {}
  /\ twice = {}
-----------------------------------------------------------------------------
\* Bugs the properties below are tried against.
FinishedAnswered ==                       \* completed by the response callback
  {r \in VoidWaiters : owed'[r] < owed[r] /\ finallyType'[r] \in AnswerKinds}

AnsweredAny(s, kind) ==                   \* the response callback runs regardless
  ValueWaiters \cap {rspHandleMap[s]}

LeftAll(numbers) == numbers               \* a handler that ran stays
-----------------------------------------------------------------------------
\* The void waiters whose finally callback runs in this step.
Finished == {r \in VoidWaiters : owed'[r] < owed[r]}

\* The waiter whose response callback runs when the answer to s arrives: that of
\* a request alive, not canceled, for an answer that is one.
Answered(s, kind) ==
  {r \in ValueWaiters : /\ s \in current /\ rspHandleMap[s] = r
                        /\ Alive(r) /\ r \notin canceled /\ kind # "no_such_cmd"}

\* The numbers whose handlers stay in the table, and those whose handler is a new
\* copy of a request's response callback: a first attempt or a retry.
Left(numbers) == {s \in numbers : rspHandleMap'[s] # NoReq}
Copied == {s \in Seqs : rspHandleMap'[s] \notin {NoReq, rspHandleMap[s]}}

\* The callbacks run in this step complete what is waited on.
Complete(answered) ==
  LET completed == {r \in Finished \cup answered : waiter[r] # "idle"} IN
  /\ waiter' = [r \in Requests |-> IF r \in completed THEN "done" ELSE waiter[r]]
  /\ twice' = twice \cup {r \in completed : waiter[r] = "done"}
  /\ current' = Left(current) \cup Copied

\* future() and co_call().  rsp() and mark_need_rsp() also set need_rsp_: here
\* the user has done so before.  A void call refused at once is completed at once.
Future(r, given) ==
  /\ r \in needRsp
  /\ Call(r, given)
  /\ waiter' = [waiter EXCEPT ![r] =
                  IF r \in VoidWaiters /\ r \notin waitingRsp'
                  THEN "done" ELSE "waiting"]
  /\ current' = Left({s \in current : rspHandleMap[s] # r}) \cup Copied
  /\ UNCHANGED twice

\* A request that is waited for is always called by future() or co_call().
WaitersNext ==
  \/ \E r \in Waiting, given \in BOOLEAN : Future(r, given)
  \/ /\ \E r \in Requests \ Waiting, given \in BOOLEAN : Call(r, given)
     /\ Complete({})
  \/ \E r \in Requests : Cancel(r) /\ Complete({})
  \/ \E r \in Requests, on \in BOOLEAN : SetCanceled(r, on) /\ Complete({})
  \/ \E r \in Requests, on \in BOOLEAN : SetNeedRsp(r, on) /\ Complete({})
  \/ \E r \in Requests : AddTo(r) /\ Complete({})
  \/ \E r \in Requests : Remove(r) /\ Complete({})
  \/ \E r \in Requests : Drop(r) /\ Complete({})
  \/ Dismiss /\ Complete({})
  \/ \E ready \in BOOLEAN : SetReady(ready) /\ Complete({})
  \/ Expire /\ Complete({})
  \/ \E s \in Seqs : TimerFire(s) /\ Complete({})
  \/ \E s \in Seqs, kind \in AnswerKinds :
       RecvRsp(s, kind) /\ Complete(Answered(s, kind))

WaitersSpec == WaitersInit /\ [][WaitersNext]_waitersVars

\* Every timer that was started fires in the end; nothing else is promised.
FairWaitersSpec ==
  WaitersSpec /\ \A s \in Seqs : WF_waitersVars(TimerFire(s) /\ Complete({}))
-----------------------------------------------------------------------------
\* The variables added to CallSide keep their types, and only handlers in the
\* table complete anything.
WaitersTypeOK ==
  /\ waiter \in [Requests -> {"idle", "waiting", "done"}]
  /\ current \subseteq {s \in Seqs : rspHandleMap[s] # NoReq}
  /\ twice \subseteq Waiting

\* Hazard: a caller that waits for a call that is over, or goes on while it is
\* still pending.  A future of void is ready exactly when its call has ended,
\* however it ended.
VoidWaiterExact ==
  \A r \in VoidWaiters :
    Disciplined(r) => (waiter[r] = "waiting" <=> r \in waitingRsp)

\* Hazard: a caller that waits for ever for a result.  A future of a result is
\* ready only when its call has ended with an answer, one that could be read or
\* not; a timeout, a refusal or an unknown command leaves it waiting.
ValueWaiterExact ==
  \A r \in ValueWaiters \ Interrupted :
    waiter[r] = "done" <=>
      r \notin waitingRsp /\ finallyType[r] \in {"normal", "rsp_serialize_error"}

\* Hazard: a promise set twice throws out of the dispatcher.  What is waited on
\* is completed once, unless its request is both canceled and retried: after a
\* cancel, a resume and another future() the old timer still retries, with the
\* newest response callback, beside the new attempt.
CompletedOnce == \A r \in Waiting : Disciplined(r) => r \notin twice

\* Hazard: the wait of a caller that let go of its request.  Once the call has
\* ended nothing keeps the promise any more, so that a get() that was not
\* answered throws (broken_promise) instead of waiting for ever.
LetGoNotHung ==
  \A r \in ValueWaiters \ Interrupted :
    waiter[r] = "waiting" /\ r \notin held =>
      \/ r \in waitingRsp
      \/ \A s \in Seqs : rspHandleMap[s] # r

\* Every wait for a call of void ends, by an answer or by the timer, as long as
\* the rpc lives.
VoidWaitEnds ==
  \A r \in VoidWaiters :
    Registers(r) /\ Retry0[r] # -1 =>
      (waiter[r] = "waiting" ~> waiter[r] = "done" \/ ~rpcAlive)
=============================================================================
