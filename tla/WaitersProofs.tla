--------------------------- MODULE WaitersProofs ---------------------------
(* Proofs about Waiters: what waits on a call follows the call, and never      *)
(* disturbs it.                                                                *)
EXTENDS Waiters, CallSideProofs

\* The two ends of a call that a future of a result is completed by.
Answers == {"normal", "rsp_serialize_error"}

\* A future of a result and its call agree, and every handler left in the table
\* for the call completes the newest future.
Followed(r) ==
  /\ waiter[r] = "done" <=> r \notin waitingRsp /\ finallyType[r] \in Answers
  /\ r \in waitingRsp => waiter[r] = "waiting"
  /\ \A s \in Seqs : rspHandleMap[s] = r => s \in current

\* Whatever else is left in the table, one handler at most may complete the
\* newest future of r, and only when that has not been done.
OneLeft(r) ==
  /\ \A s \in current : rspHandleMap[s] = r => waiter[r] # "done"
  /\ \A s, t \in current : rspHandleMap[s] = r /\ rspHandleMap[t] = r => s = t

ValueOK(r) ==
  /\ r \notin Interrupted => Followed(r)
  /\ Disciplined(r) => OneLeft(r) /\ r \notin twice

VoidOK(r) ==
  Disciplined(r) =>
    (waiter[r] = "waiting" <=> r \in waitingRsp) /\ r \notin twice

\* The inductive invariant.
WaitersIInv ==
  /\ IInv /\ WaitersTypeOK
  /\ \A r \in ValueWaiters : ValueOK(r)
  /\ \A r \in VoidWaiters : VoidOK(r)
-----------------------------------------------------------------------------
(* The waiters only watch: a step is a step of CallSide. *)

LEMMA WatchOnly == [WaitersNext]_waitersVars => [Next]_vars
<1>1. CASE UNCHANGED waitersVars
  BY <1>1 DEF waitersVars
<1>2. ASSUME NEW r \in Waiting, NEW given \in BOOLEAN, Future(r, given) PROVE Next
  <2>1. r \in Requests
    BY WaitersAssumption DEF WaitersAssumption, Waiting
  <2> QED BY <1>2, <2>1 DEF Future, Next
<1>3. CASE WaitersNext
  BY <1>2, <1>3 DEF WaitersNext, Next
<1> QED BY <1>1, <1>3

\* By the way Waiters is composed; it makes what is proved of CallSide citable.
LEMMA WaitersWatch == WaitersSpec => Spec
<1>1. WaitersInit => Init
  BY DEF WaitersInit
<1> QED BY <1>1, WatchOnly, PTL DEF WaitersSpec, Spec

\* In particular the inductive invariant of CallSide.
THEOREM WaitersKeepIInv == WaitersSpec => []IInv
BY WaitersWatch, Inductive, PTL
-----------------------------------------------------------------------------
(* What a step does to a request that the user does not call in it. *)

\* Nothing: it waits as before, and ended as before.
Same(r) ==
  (r \in waitingRsp' <=> r \in waitingRsp) /\ finallyType'[r] = finallyType[r]

Passive(r) ==
  /\ owed'[r] <= owed[r]
  /\ r \notin Interrupted =>
       \/ Same(r)
       \/ r \in waitingRsp /\ (r \in waitingRsp' \/ finallyType'[r] \notin Answers)
  /\ Disciplined(r) /\ r \in Interrupted =>
       \A s \in Seqs : rspHandleMap'[s] = r => rspHandleMap[s] = r

LEMMA OnFinishOther ==
  ASSUME TypeOK, NEW q \in Requests, NEW type, OnFinish(q, type),
         NEW r \in Requests \ {q}
  PROVE  Same(r) /\ owed'[r] = owed[r]
BY DEF TypeOK, OnFinish, Finish, Same

LEMMA CallBodyOther ==
  ASSUME TypeOK, NEW q \in Requests, NEW reached, NEW debt \in Int, NEW gone,
         NEW fresh \in SUBSET Seqs, CallBody(q, reached, debt, gone, fresh),
         NEW r \in Requests \ {q}
  PROVE  /\ Same(r) /\ owed'[r] = owed[r]
         /\ \A s \in Seqs : rspHandleMap'[s] = r => rspHandleMap[s] = r
<1>1. Same(r) /\ owed'[r] = owed[r]
  BY DEF TypeOK, CallBody, Finish, Wait, Same
<1>2. \/ NoEntryAdded(q, gone)
      \/ \E n \in fresh : EntryAdded(q, gone, n)
  BY CallBodyTable
<1>3. r # NoReq
  BY CallSideAssumption DEF CallSideAssumption
<1> QED BY <1>1, <1>2, <1>3 DEF NoEntryAdded, EntryAdded

\* A call that is over as soon as it is made has not been answered.
LEMMA CallBodyEnd ==
  ASSUME TypeOK, NEW q \in Requests, NEW reached, NEW debt, NEW gone, NEW fresh,
         CallBody(q, reached, debt, gone, fresh)
  PROVE  q \in waitingRsp' \/ finallyType'[q] \notin Answers
<1>1. CASE \E type \in FinallyTypes :
             CallRefused(q, reached, type) /\ Finish(q, type, debt)
  BY <1>1 DEF TypeOK, CallRefused, Finish, Answers
<1>2. CASE IF q \in needRsp THEN Wait(q, debt) ELSE Finish(q, "no_need_rsp", debt)
  BY <1>2 DEF TypeOK, Finish, Wait, Answers
<1> QED BY <1>1, <1>2 DEF CallBody

\* A handler of a request that is never interrupted belongs to its pending call.
LEMMA EntryWaits ==
  ASSUME IInv, NEW s \in Seqs, NEW r \in Requests, r \notin Interrupted,
         rspHandleMap[s] = r
  PROVE  r \in waitingRsp /\ seq[r] = s
BY DEF IInv, EntriesOwn
-----------------------------------------------------------------------------
LEMMA CallPassive ==
  ASSUME IInv, NEW q \in Requests, NEW given \in BOOLEAN, Call(q, given),
         NEW r \in Requests \ {q}
  PROVE  /\ Passive(r) /\ owed'[r] = owed[r]
<1>1. TypeOK /\ owed[q] + 1 \in Int /\ owed[r] \in Int /\ CallSeqs \in SUBSET Seqs
  BY DEF IInv, TypeOK, CallSeqs, FreshSeqs
<1>2. CallBody(q, given \/ (rpcAlive /\ q \in bound), owed[q] + 1, {}, CallSeqs)
  BY DEF Call
<1>3. /\ Same(r) /\ owed'[r] = owed[r]
      /\ \A s \in Seqs : rspHandleMap'[s] = r => rspHandleMap[s] = r
  BY <1>1, <1>2, CallBodyOther
<1> QED BY <1>1, <1>3 DEF Passive

\* The steps of the user other than call().
LEMMA UserPassive ==
  ASSUME IInv, NEW r \in Requests,
         \/ Dismiss \/ Expire \/ \E ready \in BOOLEAN : SetReady(ready)
         \/ \E q \in Requests : \/ Cancel(q) \/ AddTo(q) \/ Remove(q) \/ Drop(q)
                                \/ \E on \in BOOLEAN : SetCanceled(q, on)
                                \/ \E on \in BOOLEAN : SetNeedRsp(q, on)
  PROVE  Passive(r)
<1>1. TypeOK /\ owed[r] \in Int /\ r # NoReq
  BY CallSideAssumption DEF IInv, TypeOK, CallSideAssumption
<1>2. ASSUME NEW q \in Requests, Cancel(q) PROVE Passive(r)
  <2>1. OnFinish(q, "canceled") /\ q \in MayCancel /\ UNCHANGED rspHandleMap
    BY <1>2 DEF Cancel
  <2>2. CASE q = r
    <3>1. owed'[r] <= owed[r]
      BY <1>1, <2>1, <2>2, OnFinishOwed
    <3> QED BY <2>1, <2>2, <3>1 DEF Passive, Interrupted
  <2>3. CASE q # r
    BY <1>1, <2>1, <2>3, OnFinishOther DEF Passive
  <2> QED BY <2>2, <2>3
<1>3. CASE Dismiss
  <2>1. /\ r \notin Interrupted => r \notin requests
        /\ owed'[r] <= owed[r] /\ UNCHANGED rspHandleMap
    BY <1>1, <1>3 DEF Dismiss, IInv, RulesKept, Interrupted
  <2>2. r \notin requests => Same(r)
    BY <1>3 DEF Dismiss, Same
  <2> QED BY <2>1, <2>2 DEF Passive
<1>4. CASE Expire
  BY <1>1, <1>4 DEF Expire, Without, Passive, Same
<1>5. CASE UNCHANGED <<waitingRsp, finallyType, rspHandleMap, owed>>
  BY <1>1, <1>5 DEF Passive, Same
<1> QED BY <1>2, <1>3, <1>4, <1>5 DEF AddTo, Remove, Drop, SetCanceled, SetNeedRsp,
                                      SetReady

\* A timer fires: a request whose call it ends was not answered.
LEMMA TimerPassive ==
  ASSUME IInv, NEW s \in Seqs, TimerFire(s), NEW r \in Requests
  PROVE  Passive(r)
<1>1. /\ TypeOK /\ owed[r] \in Int /\ r # NoReq
      /\ FreshSeqs \in SUBSET Seqs
  BY CallSideAssumption DEF IInv, TypeOK, CallSideAssumption, FreshSeqs
<1>2. CASE UNCHANGED <<waitingRsp, finallyType, rspHandleMap, owed>>
  BY <1>1, <1>2 DEF Passive, Same
<1>3. ASSUME NEW q \in Requests, rspHandleMap[s] = q, Timeout(q, s)
      PROVE  Passive(r)
  <2>0. owed[q] \in Int
    BY <1>1 DEF TypeOK
  <2>1. CASE /\ retryCount[q] # 0
             /\ CallBody(q, q \in bound, owed[q], {s}, FreshSeqs)
    <3>1. CASE q # r
      <4>1. /\ Same(r) /\ owed'[r] = owed[r]
            /\ \A t \in Seqs : rspHandleMap'[t] = r => rspHandleMap[t] = r
        BY <1>1, <2>0, <2>1, <3>1, CallBodyOther
      <4> QED BY <1>1, <4>1 DEF Passive
    <3>2. CASE q = r
      <4>1. owed'[r] <= owed[r]
        BY <1>1, <2>1, <3>2, CallBodyOwed
      <4>2. r \notin Interrupted => r \in waitingRsp
        BY <1>3, <3>2, EntryWaits
      <4>3. r \in waitingRsp' \/ finallyType'[r] \notin Answers
        BY <1>1, <2>1, <3>2, CallBodyEnd
      <4>4. Disciplined(r) => r \notin Interrupted
        BY <1>1, <2>1, <3>2 DEF TypeOK, Disciplined, Interrupted
      <4> QED BY <4>1, <4>2, <4>3, <4>4 DEF Passive
    <3> QED BY <3>1, <3>2
  <2>2. CASE OnFinish(q, "timeout") /\ rspHandleMap' = Without({s})
    <3>0. \A t \in Seqs : rspHandleMap'[t] = r => rspHandleMap[t] = r
      BY <1>1, <2>2 DEF Without
    <3>1. CASE q # r
      BY <1>1, <2>2, <3>0, <3>1, OnFinishOther DEF Passive
    <3>2. CASE q = r
      <4>1. owed'[r] <= owed[r]
        BY <1>1, <2>2, <3>2, OnFinishOwed
      <4>2. r \notin Interrupted => r \in waitingRsp
        BY <1>3, <3>2, EntryWaits
      <4>3. r \in waitingRsp => finallyType'[r] = "timeout"
        BY <1>1, <2>2, <3>2 DEF TypeOK, OnFinish, Finish
      <4> QED BY <3>0, <4>1, <4>2, <4>3 DEF Passive, Answers
    <3> QED BY <3>1, <3>2
  <2> QED BY <1>3, <2>1, <2>2 DEF Timeout
<1> QED BY <1>2, <1>3 DEF TimerFire, UseDestroyed
-----------------------------------------------------------------------------
(* What a step does to what waits. *)

\* Nothing, but that a new copy of the response callback completes it as well.
Watched(r) ==
  /\ waiter'[r] = waiter[r]
  /\ r \in twice' <=> r \in twice
  /\ \A s \in Seqs : rspHandleMap'[s] = r =>
       (s \in current' <=> s \in current \/ rspHandleMap[s] # r)

LEMMA CompleteWatched ==
  ASSUME WaitersTypeOK, NEW A \in SUBSET ValueWaiters, Complete(A),
         NEW r \in ValueWaiters \ A
  PROVE  Watched(r)
<1>1. r \in Requests /\ r # NoReq /\ r \notin Finished
  BY WaitersAssumption, CallSideAssumption
    DEF WaitersAssumption, CallSideAssumption, Waiting, Finished
<1> QED BY <1>1 DEF Complete, Watched, Left, Copied

LEMMA FutureWatched ==
  ASSUME WaitersTypeOK, NEW q \in Waiting, NEW given \in BOOLEAN, Future(q, given),
         NEW r \in Waiting \ {q}
  PROVE  Watched(r)
<1>1. r \in Requests /\ r # NoReq
  BY WaitersAssumption, CallSideAssumption
    DEF WaitersAssumption, CallSideAssumption, Waiting
<1> QED BY <1>1 DEF Future, Watched, Left, Copied, WaitersTypeOK

\* Then it stays what it was, for a result that has not been answered.
LEMMA ValueKeeps ==
  ASSUME IInv, IInv', WaitersTypeOK, WaitersTypeOK', NEW r \in ValueWaiters, ValueOK(r),
         Watched(r), Passive(r)
  PROVE  ValueOK(r)'
<1>1. ASSUME r \notin Interrupted PROVE Followed(r)'
  <2>1. Followed(r) /\ (waiter'[r] = "done" <=> waiter[r] = "done")
    BY <1>1 DEF ValueOK, Watched
  <2>2. /\ waiter'[r] = "done" <=> r \notin waitingRsp' /\ finallyType'[r] \in Answers
        /\ r \in waitingRsp' => waiter'[r] = "waiting"
    BY <1>1, <2>1 DEF Followed, Passive, Same, Watched
  <2>3. \A s \in Seqs : rspHandleMap'[s] = r => s \in current'
    BY <2>1 DEF Followed, Watched
  <2> QED BY <2>2, <2>3 DEF Followed
<1>2. ASSUME Disciplined(r) PROVE OneLeft(r)' /\ r \notin twice'
  <2>1. r \notin twice'
    BY <1>2 DEF ValueOK, Watched
  <2>2. current' \subseteq Seqs /\ r \in Requests
    BY WaitersAssumption DEF WaitersTypeOK, WaitersAssumption, Waiting
  <2>3. CASE r \notin Interrupted
    <3>1. \A s \in Seqs : rspHandleMap'[s] = r => r \in waitingRsp' /\ seq'[r] = s
      BY <2>2, <2>3 DEF IInv, EntriesOwn, Interrupted
    <3>2. Followed(r)'
      BY <1>1, <2>3
    <3>3. \A s \in current' : rspHandleMap'[s] = r => waiter'[r] # "done"
      BY <2>2, <3>1, <3>2 DEF Followed
    <3>4. \A s, t \in current' :
            rspHandleMap'[s] = r /\ rspHandleMap'[t] = r => s = t
      BY <2>2, <3>1
    <3> QED BY <2>1, <3>3, <3>4 DEF OneLeft
  <2>4. CASE r \in Interrupted
    <3>1. \A s \in current' : rspHandleMap'[s] = r =>
                              s \in current /\ rspHandleMap[s] = r
      BY <1>2, <2>2, <2>4 DEF Passive, Watched
    <3>2. OneLeft(r)
      BY <1>2 DEF ValueOK
    <3> QED BY <2>1, <3>1, <3>2 DEF OneLeft, Watched
  <2> QED BY <2>3, <2>4
<1> QED BY <1>1, <1>2 DEF ValueOK, Interrupted, Disciplined

\* What waits for a call of void goes on exactly when the call has ended.
LEMMA VoidKeeps ==
  ASSUME IInv, IInv', NEW A \in SUBSET ValueWaiters, Complete(A),
         NEW r \in VoidWaiters, VoidOK(r), owed'[r] <= owed[r]
  PROVE  VoidOK(r)'
<1> SUFFICES ASSUME Disciplined(r)
             PROVE  (waiter'[r] = "waiting" <=> r \in waitingRsp') /\ r \notin twice'
  BY DEF VoidOK, Disciplined
<1>1. r \in Requests /\ r \notin A
  BY WaitersAssumption DEF WaitersAssumption, Waiting
<1>2. /\ owed[r] = IF r \in waitingRsp THEN 1 ELSE 0
      /\ owed'[r] = IF r \in waitingRsp' THEN 1 ELSE 0
  BY <1>1 DEF IInv, OneCallOneFinally, Disciplined
<1>3. r \in Finished <=> r \in waitingRsp /\ r \notin waitingRsp'
  BY <1>2 DEF Finished
<1>4. r \in waitingRsp' => r \in waitingRsp
  BY <1>2
<1>5. (waiter[r] = "waiting" <=> r \in waitingRsp) /\ r \notin twice
  BY DEF VoidOK
<1>6. waiter'[r] = IF r \in Finished /\ waiter[r] # "idle" THEN "done"
                   ELSE waiter[r]
  BY <1>1 DEF Complete
<1>7. r \in twice' => r \in Finished /\ waiter[r] = "done"
  BY <1>1, <1>5 DEF Complete
<1> QED BY <1>3, <1>4, <1>5, <1>6, <1>7
-----------------------------------------------------------------------------
(* future() and co_call(), and an answer. *)

\* The request that is called gets a new future, which waits as long as the call.
LEMMA FutureKeeps ==
  ASSUME WaitersIInv, IInv', NEW r \in Waiting, NEW given \in BOOLEAN,
         Future(r, given)
  PROVE  (r \in ValueWaiters => ValueOK(r)') /\ (r \in VoidWaiters => VoidOK(r)')
<1>1. /\ r \in Requests /\ r # NoReq
      /\ r \in ValueWaiters => r \notin VoidWaiters
      /\ TypeOK /\ owed[r] + 1 \in Int /\ CallSeqs \in SUBSET Seqs
      /\ waiter \in [Requests -> {"idle", "waiting", "done"}]
      /\ current \subseteq Seqs
  BY WaitersAssumption, CallSideAssumption
    DEF WaitersAssumption, CallSideAssumption, Waiting, WaitersIInv, IInv, TypeOK,
        CallSeqs, FreshSeqs, WaitersTypeOK
<1>2. /\ waiter'[r] = IF r \in VoidWaiters /\ r \notin waitingRsp' THEN "done"
                      ELSE "waiting"
      /\ twice' = twice
      /\ CallBody(r, given \/ (rpcAlive /\ r \in bound), owed[r] + 1, {}, CallSeqs)
      /\ r \in waitingRsp => r \in MayOverlap
  BY <1>1 DEF Future, Call
<1>3. \A s \in Seqs : s \in current' /\ rspHandleMap'[s] = r => rspHandleMap[s] # r
  BY <1>1 DEF Future, Left, Copied
<1>4. \A s \in Seqs : rspHandleMap'[s] = r /\ rspHandleMap[s] # r => s \in current'
  BY <1>1 DEF Future, Copied
<1>5. ASSUME r \in VoidWaiters PROVE VoidOK(r)'
  BY <1>2, <1>5 DEF WaitersIInv, VoidOK, Disciplined
<1>6. ASSUME r \in ValueWaiters, r \notin Interrupted PROVE Followed(r)'
  <2>1. waiter'[r] = "waiting"
    BY <1>1, <1>2, <1>6
  <2>2. r \in waitingRsp' \/ finallyType'[r] \notin Answers
    BY <1>1, <1>2, CallBodyEnd
  <2>3. \A s \in Seqs : rspHandleMap[s] # r
    BY <1>1, <1>2, <1>6, EntryWaits DEF WaitersIInv, Interrupted
  <2> QED BY <1>4, <2>1, <2>2, <2>3 DEF Followed
<1>7. ASSUME r \in ValueWaiters, Disciplined(r) PROVE OneLeft(r)' /\ r \notin twice'
  <2>1. waiter'[r] = "waiting"
    BY <1>1, <1>2, <1>7
  <2>2. r \notin twice'
    BY <1>2, <1>7 DEF WaitersIInv, ValueOK
  <2>3. current' \subseteq Seqs
    BY <1>1 DEF Future, Left, Copied
  <2>4. \/ NoEntryAdded(r, {})
        \/ \E n \in CallSeqs : EntryAdded(r, {}, n)
    BY <1>1, <1>2, CallBodyTable
  <2>5. \A s, t \in Seqs : /\ rspHandleMap[s] # r /\ rspHandleMap'[s] = r
                          /\ rspHandleMap[t] # r /\ rspHandleMap'[t] = r => s = t
    BY <2>4 DEF NoEntryAdded, EntryAdded
  <2>6. \A s, t \in current' : rspHandleMap'[s] = r /\ rspHandleMap'[t] = r => s = t
    BY <1>3, <2>3, <2>5
  <2> QED BY <2>1, <2>2, <2>6 DEF OneLeft
<1> QED BY <1>5, <1>6, <1>7 DEF ValueOK, Interrupted, Disciplined

\* An answer completes the newest future of its request, or leaves it alone.
LEMMA AnswerKeeps ==
  ASSUME WaitersIInv, IInv', WaitersTypeOK', NEW s \in Seqs, NEW kind \in AnswerKinds,
         RecvRsp(s, kind), Complete(Answered(s, kind)), NEW r \in ValueWaiters
  PROVE  ValueOK(r)'
<1>0. /\ r \in Requests /\ r # NoReq /\ TypeOK /\ WaitersTypeOK /\ IInv
      /\ r \notin Finished /\ ValueOK(r)
  BY WaitersAssumption, CallSideAssumption
    DEF WaitersAssumption, CallSideAssumption, Waiting, WaitersIInv, IInv, Finished
<1>1. Answered(s, kind) \in SUBSET ValueWaiters /\ owed[r] \in Int
  BY <1>0 DEF Answered, TypeOK
<1>2. ASSUME r \notin Answered(s, kind), Passive(r) PROVE ValueOK(r)'
  BY <1>0, <1>1, <1>2, CompleteWatched, ValueKeeps
<1>3. CASE UseDestroyed(s)
  <2>1. Passive(r)
    BY <1>1, <1>3 DEF UseDestroyed, Passive, Same
  <2>2. r \notin Answered(s, kind)
    BY <1>3 DEF UseDestroyed, Answered
  <2> QED BY <1>2, <2>1, <2>2
<1>4. ASSUME NEW q \in Requests, rspHandleMap[s] = q, Alive(q),
             OnFinish(q, IF q \in canceled THEN "canceled" ELSE kind),
             rspHandleMap' = Without({s})
      PROVE  ValueOK(r)'
  <2>0. \A t \in Seqs : rspHandleMap'[t] = r <=> t # s /\ rspHandleMap[t] = r
    BY <1>0, <1>4 DEF Without
  <2>1. CASE q # r
    <3>1. Passive(r)
      BY <1>0, <1>1, <1>4, <2>0, <2>1, OnFinishOther DEF Passive
    <3> QED BY <1>2, <1>4, <2>1, <3>1 DEF Answered
  <2>2. CASE q = r /\ r \notin Answered(s, kind)
    <3>1. owed'[r] <= owed[r]
      BY <1>0, <1>1, <1>4, <2>2, OnFinishOwed
    <3>2. ASSUME r \notin Interrupted
          PROVE  r \in waitingRsp /\ finallyType'[r] \notin Answers
      <4>1. r \in waitingRsp
        BY <1>0, <1>4, <2>2, <3>2, EntryWaits
      <4>2. s \in current /\ r \notin canceled
        BY <1>0, <1>4, <2>2, <3>2 DEF ValueOK, Followed, IInv, RulesKept, Interrupted
      <4>3. kind = "no_such_cmd"
        BY <1>4, <2>2, <4>2 DEF Answered
      <4>4. finallyType'[r] = "no_such_cmd"
        BY <1>0, <1>4, <2>2, <4>1, <4>2, <4>3 DEF OnFinish, Finish, TypeOK
      <4> QED BY <4>1, <4>4 DEF Answers
    <3>3. Passive(r)
      BY <2>0, <3>1, <3>2 DEF Passive
    <3> QED BY <1>2, <2>2, <3>3
  <2>3. CASE q = r /\ r \in Answered(s, kind)
    <3>1. s \in current /\ rspHandleMap[s] = r /\ r \notin canceled /\ kind \in Answers
      BY <2>3 DEF Answered, AnswerKinds, Answers
    <3>2. \A t \in Seqs : rspHandleMap'[t] = r /\ t \in current' => t \in current
      BY <2>0 DEF Complete, Left, Copied
    <3>3. ASSUME r \notin Interrupted PROVE Followed(r)'
      <4>1. r \in waitingRsp /\ seq[r] = s /\ waiter[r] = "waiting"
        BY <1>0, <3>1, <3>3, EntryWaits DEF ValueOK, Followed
      <4>2. r \notin waitingRsp' /\ finallyType'[r] \in Answers
        BY <1>0, <1>4, <2>3, <3>1, <4>1 DEF OnFinish, Finish, TypeOK
      <4>3. waiter'[r] = "done"
        BY <1>0, <2>3, <4>1 DEF Complete
      <4>4. \A t \in Seqs : rspHandleMap'[t] # r
        BY <1>0, <2>0, <3>3, <4>1, EntryWaits
      <4> QED BY <4>2, <4>3, <4>4 DEF Followed
    <3>4. ASSUME Disciplined(r) PROVE OneLeft(r)' /\ r \notin twice'
      <4>1. OneLeft(r) /\ r \notin twice /\ current' \subseteq Seqs
        BY <1>0, <3>4 DEF ValueOK, WaitersTypeOK
      <4>2. waiter[r] # "done"
        BY <3>1, <4>1 DEF OneLeft
      <4>3. r \notin twice'
        BY <4>1, <4>2 DEF Complete
      <4>4. \A t \in current' : rspHandleMap'[t] # r
        BY <2>0, <3>1, <3>2, <4>1 DEF OneLeft
      <4> QED BY <4>3, <4>4 DEF OneLeft
    <3> QED BY <3>3, <3>4 DEF ValueOK, Interrupted, Disciplined
  <2> QED BY <2>1, <2>2, <2>3
<1> QED BY <1>3, <1>4 DEF RecvRsp

LEMMA AnswerOwed ==
  ASSUME IInv, NEW s \in Seqs, NEW kind, RecvRsp(s, kind), NEW r \in Requests
  PROVE  owed'[r] <= owed[r]
<1>1. TypeOK /\ owed[r] \in Int
  BY DEF IInv, TypeOK
<1>2. ASSUME NEW q \in Requests, NEW type, OnFinish(q, type)
      PROVE  owed'[r] <= owed[r]
  BY <1>1, <1>2, OnFinishOwed
<1> QED BY <1>1, <1>2 DEF RecvRsp, UseDestroyed
-----------------------------------------------------------------------------
(* Every step keeps the invariant. *)

LEMMA WaitersInitInv == WaitersInit => WaitersIInv
<1> SUFFICES ASSUME WaitersInit PROVE WaitersIInv
  OBVIOUS
<1>1. IInv /\ Init
  BY InitInv DEF WaitersInit
<1>2. \A r \in Waiting : r \in Requests /\ waiter[r] = "idle"
  BY WaitersAssumption DEF WaitersAssumption, WaitersInit
<1>3. \A s \in Seqs : rspHandleMap[s] = NoReq
  BY <1>1 DEF Init
<1>4. NoReq \notin Requests
  BY CallSideAssumption DEF CallSideAssumption
<1>5. WaitersTypeOK
  BY DEF WaitersInit, WaitersTypeOK
<1>6. ASSUME NEW r \in ValueWaiters PROVE ValueOK(r)
  <2>1. r \in Requests /\ waiter[r] = "idle"
    BY <1>2 DEF Waiting
  <2>2. r \notin waitingRsp /\ finallyType[r] = "no_need_rsp"
    BY <1>1, <2>1 DEF Init
  <2>3. \A s \in Seqs : rspHandleMap[s] # r
    BY <1>3, <1>4, <2>1, Zenon
  <2>4. Followed(r)
    BY <2>1, <2>2, <2>3 DEF Followed, Answers
  <2>5. OneLeft(r) /\ r \notin twice
    BY DEF OneLeft, WaitersInit
  <2> QED BY <2>4, <2>5, Zenon DEF ValueOK
<1>7. \A r \in VoidWaiters : VoidOK(r)
  BY <1>1, <1>2 DEF VoidOK, Waiting, Init, WaitersInit
<1> QED BY <1>1, <1>5, <1>6, <1>7, Zenon DEF WaitersIInv

LEMMA WaitersTypeStep == WaitersTypeOK /\ [WaitersNext]_waitersVars => WaitersTypeOK'
<1> SUFFICES ASSUME WaitersTypeOK, [WaitersNext]_waitersVars PROVE WaitersTypeOK'
  OBVIOUS
<1>1. CASE UNCHANGED waitersVars
  BY <1>1 DEF waitersVars, vars, WaitersTypeOK
<1>2. ASSUME NEW A \in SUBSET ValueWaiters, Complete(A) PROVE WaitersTypeOK'
  <2>1. current' \subseteq {s \in Seqs : rspHandleMap'[s] # NoReq}
    BY <1>2 DEF Complete, Left, Copied, WaitersTypeOK
  <2>2. twice' \subseteq Waiting
    BY <1>2 DEF Complete, Finished, Waiting, WaitersTypeOK
  <2>3. waiter' \in [Requests -> {"idle", "waiting", "done"}]
    BY <1>2 DEF Complete, WaitersTypeOK
  <2> QED BY <2>1, <2>2, <2>3 DEF WaitersTypeOK
<1>3. ASSUME NEW r \in Waiting, NEW given \in BOOLEAN, Future(r, given)
      PROVE  WaitersTypeOK'
  BY <1>3 DEF Future, Left, Copied, WaitersTypeOK
<1>4. ASSUME NEW s \in Seqs, NEW kind \in AnswerKinds,
             Complete(Answered(s, kind)) PROVE WaitersTypeOK'
  <2>1. Answered(s, kind) \in SUBSET ValueWaiters
    BY DEF Answered
  <2> QED BY <1>2, <1>4, <2>1
<1>5. CASE Complete({})
  BY <1>2, <1>5
<1> QED BY <1>1, <1>3, <1>4, <1>5 DEF WaitersNext

\* A step that completes no result, and calls no request that is waited for.
LEMMA PassiveKeeps ==
  ASSUME WaitersIInv, IInv', WaitersTypeOK', Complete({}),
         \A r \in Waiting : Passive(r)
  PROVE  WaitersIInv'
<1>1. \A r \in ValueWaiters : ValueOK(r)'
  <2> SUFFICES ASSUME NEW r \in ValueWaiters PROVE ValueOK(r)'
    OBVIOUS
  <2>1. Watched(r)
    BY CompleteWatched DEF WaitersIInv
  <2> QED BY <2>1, ValueKeeps DEF WaitersIInv, Waiting
<1>2. \A r \in VoidWaiters : VoidOK(r)'
  BY VoidKeeps DEF WaitersIInv, Waiting, Passive
<1> QED BY <1>1, <1>2 DEF WaitersIInv

LEMMA WaitersNextInv == WaitersIInv /\ [WaitersNext]_waitersVars => WaitersIInv'
<1> SUFFICES ASSUME WaitersIInv, [WaitersNext]_waitersVars PROVE WaitersIInv'
  OBVIOUS
<1>1. IInv /\ IInv' /\ WaitersTypeOK /\ WaitersTypeOK' /\ Waiting \subseteq Requests
  BY WatchOnly, NextInv, WaitersTypeStep, WaitersAssumption
    DEF WaitersIInv, WaitersAssumption
<1>2. CASE UNCHANGED waitersVars
  <2>1. \A r \in ValueWaiters : ValueOK(r)'
    BY <1>2 DEF waitersVars, vars, WaitersIInv, ValueOK, Followed, OneLeft,
                Disciplined, Interrupted
  <2>2. \A r \in VoidWaiters : VoidOK(r)'
    BY <1>2 DEF waitersVars, vars, WaitersIInv, VoidOK, Disciplined
  <2> QED BY <1>1, <2>1, <2>2 DEF WaitersIInv
<1>3. ASSUME NEW q \in Waiting, NEW given \in BOOLEAN, Future(q, given)
      PROVE  WaitersIInv'
  <2>1. Call(q, given)
    BY <1>3 DEF Future
  <2>2. \A r \in Waiting \ {q} : /\ Passive(r) /\ owed'[r] = owed[r] /\ Watched(r)
    BY <1>1, <1>3, <2>1, CallPassive, FutureWatched
  <2>3. \A r \in ValueWaiters : ValueOK(r)'
    <3> SUFFICES ASSUME NEW r \in ValueWaiters PROVE ValueOK(r)'
      OBVIOUS
    <3>1. CASE r = q
      BY <1>1, <1>3, <3>1, FutureKeeps
    <3>2. CASE r # q
      BY <1>1, <2>2, <3>2, ValueKeeps DEF Waiting, WaitersIInv
    <3> QED BY <3>1, <3>2
  <2>4. \A r \in VoidWaiters : VoidOK(r)'
    <3> SUFFICES ASSUME NEW r \in VoidWaiters PROVE VoidOK(r)'
      OBVIOUS
    <3>1. CASE r = q
      BY <1>1, <1>3, <3>1, FutureKeeps
    <3>2. CASE r # q
      <4>1. Watched(r) /\ owed'[r] = owed[r] /\ r \in Requests
        BY <1>1, <2>2, <3>2 DEF Waiting
      <4>2. Disciplined(r) => (r \in waitingRsp' <=> r \in waitingRsp)
        BY <1>1, <4>1 DEF IInv, OneCallOneFinally, Disciplined
      <4> QED BY <4>1, <4>2 DEF Watched, WaitersIInv, VoidOK, Disciplined
    <3> QED BY <3>1, <3>2
  <2> QED BY <1>1, <2>3, <2>4 DEF WaitersIInv
<1>4. ASSUME NEW q \in Requests \ Waiting, NEW given \in BOOLEAN, Call(q, given),
             Complete({})
      PROVE  WaitersIInv'
  <2>1. \A r \in Waiting : Passive(r)
    BY <1>1, <1>4, CallPassive
  <2> QED BY <1>1, <1>4, <2>1, PassiveKeeps
<1>5. ASSUME \/ Dismiss \/ Expire \/ \E ready \in BOOLEAN : SetReady(ready)
             \/ \E q \in Requests : \/ Cancel(q) \/ AddTo(q) \/ Remove(q) \/ Drop(q)
                                    \/ \E on \in BOOLEAN : SetCanceled(q, on)
                                    \/ \E on \in BOOLEAN : SetNeedRsp(q, on),
             Complete({})
      PROVE  WaitersIInv'
  <2>1. \A r \in Waiting : Passive(r)
    BY <1>1, <1>5, UserPassive
  <2> QED BY <1>1, <1>5, <2>1, PassiveKeeps
<1>6. ASSUME NEW s \in Seqs, TimerFire(s), Complete({}) PROVE WaitersIInv'
  <2>1. \A r \in Waiting : Passive(r)
    BY <1>1, <1>6, TimerPassive
  <2> QED BY <1>1, <1>6, <2>1, PassiveKeeps
<1>7. ASSUME NEW s \in Seqs, NEW kind \in AnswerKinds, RecvRsp(s, kind),
             Complete(Answered(s, kind))
      PROVE  WaitersIInv'
  <2>1. \A r \in ValueWaiters : ValueOK(r)'
    BY <1>1, <1>7, AnswerKeeps
  <2>2. Answered(s, kind) \in SUBSET ValueWaiters
    BY DEF Answered
  <2>3. \A r \in VoidWaiters : VoidOK(r)'
    BY <1>1, <1>7, <2>2, AnswerOwed, VoidKeeps DEF WaitersIInv, Waiting
  <2> QED BY <1>1, <2>1, <2>3 DEF WaitersIInv
<1> QED BY <1>2, <1>3, <1>4, <1>5, <1>6, <1>7 DEF WaitersNext

\* The inductive invariant of what waits on calls (request.ipp, future, co_call).
THEOREM WaitersInductive == WaitersSpec => []WaitersIInv
BY WaitersInitInv, WaitersNextInv, PTL DEF WaitersSpec

\* Only handlers that are in the table complete anything.
THEOREM WaitersTypeCorrect == WaitersSpec => []WaitersTypeOK
<1>1. WaitersIInv => WaitersTypeOK
  BY DEF WaitersIInv
<1> QED BY <1>1, WaitersInductive, PTL

\* A future or coroutine of void waits exactly as long as its call is pending,
\* however the call ends: answer, timeout, cancel or refusal.
THEOREM VoidWaitersExact == WaitersSpec => []VoidWaiterExact
<1>1. WaitersIInv => VoidWaiterExact
  BY DEF WaitersIInv, VoidOK, VoidWaiterExact
<1> QED BY <1>1, WaitersInductive, PTL

\* A future of a result is completed exactly by a call that ended with an answer.
THEOREM ValueWaitersExact == WaitersSpec => []ValueWaiterExact
<1>1. WaitersIInv => ValueWaiterExact
  BY DEF WaitersIInv, ValueOK, Followed, ValueWaiterExact, Answers
<1> QED BY <1>1, WaitersInductive, PTL

\* No promise is set twice by a request that is not both canceled and retried,
\* nor called again while it waits.
THEOREM PromiseSetOnce == WaitersSpec => []CompletedOnce
<1>1. WaitersIInv => CompletedOnce
  BY DEF WaitersIInv, ValueOK, VoidOK, CompletedOnce, Waiting
<1> QED BY <1>1, WaitersInductive, PTL

\* A caller that let go of its request never waits for a promise that nothing
\* keeps any more.
THEOREM NoHungWait == WaitersSpec => []LetGoNotHung
<1>1. IInv => LetGoNotHung
  <2> SUFFICES ASSUME IInv, NEW r \in ValueWaiters \ Interrupted, NEW s \in Seqs,
                      rspHandleMap[s] = r
               PROVE  r \in waitingRsp
    BY DEF LetGoNotHung
  <2>1. r \in Requests
    BY WaitersAssumption DEF WaitersAssumption, Waiting
  <2> QED BY <2>1, EntryWaits
<1> QED BY <1>1, WaitersKeepIInv, PTL
=============================================================================
