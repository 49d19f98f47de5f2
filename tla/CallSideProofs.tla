--------------------------- MODULE CallSideProofs ---------------------------
(* Proofs about CallSide, for every set of requests and numbers. *)
EXTENDS CallSide, TLAPS

\* The variables request::call writes, typed.
CallTypes ==
  /\ waitingRsp \subseteq Requests /\ selfKeeper \subseteq Requests
  /\ finallyType \in [Requests -> FinallyTypes]
  /\ owed \in [Requests -> Int]
  /\ seq \in [Requests -> Seqs]
  /\ rspHandleMap \in [Seqs -> Requests \cup {NoReq}]
  /\ timers \subseteq Seqs

LEMMA WithoutType ==
  ASSUME TypeOK, NEW gone
  PROVE  Without(gone) \in [Seqs -> Requests \cup {NoReq}]
BY DEF TypeOK, Without

LEMMA FinishType ==
  ASSUME TypeOK, NEW r \in Requests, NEW type \in FinallyTypes, NEW debt \in Int,
         Finish(r, type, debt)
  PROVE  /\ waitingRsp' \subseteq Requests /\ selfKeeper' \subseteq Requests
         /\ finallyType' \in [Requests -> FinallyTypes]
         /\ owed' \in [Requests -> Int]
BY DEF TypeOK, Finish

LEMMA OnFinishType ==
  ASSUME TypeOK, NEW r \in Requests, NEW type \in FinallyTypes, OnFinish(r, type)
  PROVE  /\ waitingRsp' \subseteq Requests /\ selfKeeper' \subseteq Requests
         /\ finallyType' \in [Requests -> FinallyTypes]
         /\ owed' \in [Requests -> Int]
<1>1. owed[r] \in Int
  BY DEF TypeOK
<1>2. CASE r \in waitingRsp
  BY <1>1, <1>2, FinishType DEF OnFinish
<1>3. CASE r \notin waitingRsp
  BY <1>3 DEF OnFinish, TypeOK
<1> QED BY <1>2, <1>3

LEMMA CallBodyType ==
  ASSUME TypeOK, NEW r \in Requests, NEW reached, NEW debt \in Int,
         NEW gone, NEW fresh \in SUBSET Seqs,
         CallBody(r, reached, debt, gone, fresh)
  PROVE  CallTypes'
<1>1. CASE \E type \in FinallyTypes :
             /\ Finish(r, type, debt)
             /\ rspHandleMap' = Without(gone)
             /\ timers' = timers \ gone
             /\ UNCHANGED seq
  <2>1. PICK type \in FinallyTypes : Finish(r, type, debt)
    BY <1>1
  <2> QED BY <1>1, <2>1, FinishType, WithoutType DEF CallTypes, TypeOK
<1>2. CASE /\ \E n \in fresh : SendRequest(r, n, gone)
           /\ IF r \in needRsp THEN Wait(r, debt)
              ELSE Finish(r, "no_need_rsp", debt)
  <2>1. PICK n \in fresh : SendRequest(r, n, gone)
    BY <1>2
  <2>2. seq' \in [Requests -> Seqs]
    BY <2>1 DEF SendRequest, TypeOK
  <2>3. rspHandleMap' \in [Seqs -> Requests \cup {NoReq}]
    BY <2>1, WithoutType DEF SendRequest, TypeOK
  <2>4. timers' \subseteq Seqs
    BY <2>1 DEF SendRequest, Subscribed, TypeOK
  <2>5. CASE Wait(r, debt)
    BY <2>2, <2>3, <2>4, <2>5 DEF Wait, CallTypes, TypeOK
  <2>6. CASE Finish(r, "no_need_rsp", debt)
    BY <2>2, <2>3, <2>4, <2>6, FinishType DEF CallTypes, FinallyTypes
  <2> QED BY <1>2, <2>5, <2>6
<1> QED BY <1>1, <1>2 DEF CallBody

LEMMA TypeInit == Init => TypeOK
<1> SUFFICES ASSUME Init PROVE TypeOK
  OBVIOUS
<1>1. /\ retryCount \in [Requests -> Nat \cup {-1}]
      /\ \A r \in Requests : IF Retry0[r] = -1 THEN retryCount[r] = -1
                            ELSE retryCount[r] \in 0 .. Retry0[r]
  BY CallSideAssumption DEF CallSideAssumption, Init
<1>2. seq \in [Requests -> Seqs]
  BY DEF Init
<1>3. rspHandleMap \in [Seqs -> Requests \cup {NoReq}]
  BY DEF Init
<1>4. finallyType \in [Requests -> FinallyTypes] /\ owed \in [Requests -> Int]
  BY DEF Init, FinallyTypes
<1> QED BY <1>1, <1>2, <1>3, <1>4 DEF Init, TypeOK

LEMMA TimeoutType ==
  ASSUME TypeOK, NEW r \in Requests, NEW s \in Seqs, Timeout(r, s)
  PROVE  /\ CallTypes'
         /\ retryCount' \in [Requests -> Nat \cup {-1}]
         /\ \A p \in Requests : IF Retry0[p] = -1 THEN retryCount'[p] = -1
                               ELSE retryCount'[p] \in 0 .. Retry0[p]
<1>1. owed[r] \in Int
  BY DEF TypeOK
<1>2. CASE /\ retryCount[r] # 0
           /\ retryCount' = [retryCount EXCEPT ![r] = CountLeft(@)]
           /\ CallBody(r, r \in bound, owed[r], {s}, FreshSeqs)
  <2>1. CallTypes'
    BY <1>1, <1>2, CallBodyType DEF FreshSeqs
  <2>2. IF Retry0[r] = -1 THEN CountLeft(retryCount[r]) = -1
        ELSE CountLeft(retryCount[r]) \in 0 .. Retry0[r]
    <3>1. Retry0[r] \in Nat \cup {-1}
      BY CallSideAssumption DEF CallSideAssumption
    <3>2. CASE Retry0[r] = -1
      BY <3>2 DEF CountLeft, TypeOK
    <3>3. CASE Retry0[r] # -1
      <4>1. retryCount[r] \in 1 .. Retry0[r] /\ Retry0[r] \in Nat
        BY <1>2, <3>1, <3>3 DEF TypeOK
      <4> QED BY <3>3, <4>1 DEF CountLeft
    <3> QED BY <3>2, <3>3
  <2> QED BY <1>2, <2>1, <2>2, CallSideAssumption DEF CallSideAssumption, TypeOK
<1>3. CASE /\ OnFinish(r, "timeout")
           /\ rspHandleMap' = Without({s})
           /\ timers' = timers \ {s}
           /\ UNCHANGED <<retryCount, seq>>
  BY <1>3, OnFinishType, WithoutType DEF CallTypes, FinallyTypes, TypeOK
<1> QED BY <1>2, <1>3 DEF Timeout

LEMMA TypeStep == TypeOK /\ [Next]_vars => TypeOK'
<1> SUFFICES ASSUME TypeOK, [Next]_vars PROVE TypeOK'
  OBVIOUS
<1>1. ASSUME NEW r \in Requests, NEW given \in BOOLEAN, Call(r, given)
      PROVE  TypeOK'
  <2>1. owed[r] + 1 \in Int
    BY DEF TypeOK
  <2>2. CallTypes'
    BY <1>1, <2>1, CallBodyType DEF Call, CallSeqs, FreshSeqs
  <2> QED BY <1>1, <2>2 DEF Call, CallTypes, TypeOK
<1>2. ASSUME NEW r \in Requests, Cancel(r) PROVE TypeOK'
  BY <1>2, OnFinishType DEF Cancel, FinallyTypes, TypeOK
<1>3. ASSUME NEW r \in Requests, NEW on \in BOOLEAN,
             SetCanceled(r, on) \/ SetNeedRsp(r, on)
      PROVE  TypeOK'
  BY <1>3 DEF SetCanceled, SetNeedRsp, TypeOK
<1>4. ASSUME NEW r \in Requests, AddTo(r) \/ Remove(r) \/ Drop(r) PROVE TypeOK'
  BY <1>4 DEF AddTo, Remove, Drop, TypeOK
<1>5. ASSUME Dismiss PROVE TypeOK'
  BY <1>5 DEF Dismiss, FinallyTypes, TypeOK
<1>6. ASSUME NEW ready \in BOOLEAN, SetReady(ready) PROVE TypeOK'
  BY <1>6 DEF SetReady, TypeOK
<1>7. ASSUME Expire PROVE TypeOK'
  BY <1>7, WithoutType DEF Expire, TypeOK
<1>8. ASSUME NEW s \in Seqs, UseDestroyed(s) PROVE TypeOK'
  BY <1>8 DEF UseDestroyed, TypeOK
<1>9. ASSUME NEW s \in Seqs, TimerFire(s) PROVE TypeOK'
  <2>1. ASSUME NEW r \in Requests, Timeout(r, s),
               UNCHANGED <<canceled, needRsp, bound, isReady, rpcAlive,
                           requests, held, fault>>
        PROVE  TypeOK'
    BY <2>1, TimeoutType DEF CallTypes, TypeOK
  <2>2. CASE rspHandleMap[s] = NoReq /\ timers' = timers \ {s}
             /\ UNCHANGED <<waitingRsp, canceled, needRsp, selfKeeper, bound,
                            retryCount, seq, finallyType, rspHandleMap, isReady,
                            rpcAlive, requests, held, owed, fault>>
    BY <2>2 DEF TypeOK
  <2> QED BY <1>8, <1>9, <2>1, <2>2 DEF TimerFire
<1>10. ASSUME NEW s \in Seqs, NEW kind \in AnswerKinds, RecvRsp(s, kind)
       PROVE  TypeOK'
  <2>1. ASSUME NEW r \in Requests,
               OnFinish(r, IF r \in canceled THEN "canceled" ELSE kind),
               rspHandleMap' = Without({s}),
               UNCHANGED <<canceled, needRsp, bound, retryCount, seq, timers,
                           isReady, rpcAlive, requests, held, fault>>
        PROVE  TypeOK'
    <3>1. (IF r \in canceled THEN "canceled" ELSE kind) \in FinallyTypes
      BY DEF AnswerKinds, FinallyTypes
    <3> QED BY <2>1, <3>1, OnFinishType, WithoutType DEF TypeOK
  <2> QED BY <1>8, <1>10, <2>1 DEF RecvRsp
<1>11. CASE UNCHANGED vars
  BY <1>11 DEF vars, TypeOK
<1> QED BY <1>1, <1>2, <1>3, <1>4, <1>5, <1>6, <1>7, <1>9, <1>10, <1>11 DEF Next

\* Every variable keeps its type, for any requests and numbers.
THEOREM TypeCorrect == Spec => []TypeOK
BY TypeInit, TypeStep, PTL DEF Spec
-----------------------------------------------------------------------------
(* What call() does to the handler table and to the request. *)

\* call() leaves the table alone but for the erased entries, or it adds one
\* entry: under a fresh number, for the request, which then waits.
NoEntryAdded(q, gone) ==
  /\ \A s \in Seqs : rspHandleMap'[s] = IF s \in gone THEN NoReq
                                        ELSE rspHandleMap[s]
  /\ timers' = timers \ gone
  /\ q \in waitingRsp' => ~Registers(q)

EntryAdded(q, gone, n) ==
  /\ q \in waitingRsp' /\ seq'[q] = n
  /\ \A s \in Seqs : rspHandleMap'[s] = IF s = n THEN q
                                        ELSE IF s \in gone THEN NoReq
                                        ELSE rspHandleMap[s]
  /\ timers' = (timers \ gone) \cup {n}

LEMMA CallBodyTable ==
  ASSUME TypeOK, NEW q \in Requests, NEW reached, NEW debt \in Int,
         NEW gone, NEW fresh \in SUBSET Seqs,
         CallBody(q, reached, debt, gone, fresh)
  PROVE  /\ \A r \in Requests \ {q} : seq'[r] = seq[r]
         /\ \/ NoEntryAdded(q, gone)
            \/ reached /\ \E n \in fresh : EntryAdded(q, gone, n)
<1> USE DEF NoEntryAdded, EntryAdded
<1>1. CASE \E type \in FinallyTypes :
             /\ Finish(q, type, debt)
             /\ rspHandleMap' = Without(gone)
             /\ timers' = timers \ gone
             /\ UNCHANGED seq
  BY <1>1 DEF Finish, Without
<1>2. CASE /\ reached
           /\ \E n \in fresh : SendRequest(q, n, gone)
           /\ IF q \in needRsp THEN Wait(q, debt)
              ELSE Finish(q, "no_need_rsp", debt)
  <2>1. PICK n \in fresh : SendRequest(q, n, gone)
    BY <1>2
  <2>2. seq' = [seq EXCEPT ![q] = n] /\ seq'[q] = n
    BY <2>1 DEF SendRequest, TypeOK
  <2>3. CASE q \in needRsp \cap RspHandle /\ TimerSet
    <3>1. Subscribed(q, n) = {n}
      BY <2>3 DEF Subscribed
    <3>2. q \in waitingRsp'
      BY <1>2, <2>3 DEF Wait
    <3> QED BY <1>2, <2>1, <2>2, <3>1, <3>2 DEF SendRequest, Without, TypeOK
  <2>4. CASE ~(q \in needRsp \cap RspHandle /\ TimerSet)
    <3>1. Subscribed(q, n) = {}
      BY <2>4 DEF Subscribed
    <3>2. q \in waitingRsp' => ~Registers(q)
      BY <1>2, <2>4 DEF Finish, Registers
    <3>3. \A s \in Seqs : rspHandleMap'[s] = IF s \in gone THEN NoReq
                                              ELSE rspHandleMap[s]
      BY <2>1, <3>1 DEF SendRequest, Without
    <3> QED BY <2>1, <2>2, <3>1, <3>2, <3>3 DEF SendRequest, TypeOK
  <2> QED BY <2>3, <2>4
<1> QED BY <1>1, <1>2 DEF CallBody

\* call() ends at once, paying its finally callback, or waits and owes it.
LEMMA CallBodyOwed ==
  ASSUME TypeOK, NEW q \in Requests, NEW reached, NEW debt \in Int,
         NEW gone, NEW fresh, CallBody(q, reached, debt, gone, fresh)
  PROVE  /\ owed'[q] = IF q \in waitingRsp' THEN debt ELSE debt - 1
         /\ \A r \in Requests \ {q} :
              owed'[r] = owed[r] /\ (r \in waitingRsp' <=> r \in waitingRsp)
         /\ selfKeeper = waitingRsp => selfKeeper' = waitingRsp'
BY DEF CallBody, Finish, Wait, TypeOK

\* on_finish pays the finally callback of a waiting request, once.
LEMMA OnFinishOwed ==
  ASSUME TypeOK, NEW q \in Requests, NEW type, OnFinish(q, type)
  PROVE  /\ owed'[q] = IF q \in waitingRsp THEN owed[q] - 1 ELSE owed[q]
         /\ waitingRsp' = waitingRsp \ {q}
         /\ \A r \in Requests \ {q} : owed'[r] = owed[r]
         /\ selfKeeper = waitingRsp => selfKeeper' = waitingRsp'
<1>1. CASE q \in waitingRsp
  BY <1>1 DEF OnFinish, Finish, TypeOK
<1>2. CASE q \notin waitingRsp
  BY <1>2 DEF OnFinish, TypeOK
<1> QED BY <1>1, <1>2
-----------------------------------------------------------------------------
(* The inductive invariant. *)

LEMMA InitInv == Init => IInv
<1> SUFFICES ASSUME Init PROVE IInv
  OBVIOUS
<1>1. TypeOK
  BY TypeInit
<1>2. \A s \in Seqs : rspHandleMap[s] = NoReq
  BY DEF Init
<1>3. EntryHasTimer /\ KeptWhileWaiting /\ WaiterRegistered /\ EntriesReachable
  BY <1>2 DEF Init, EntryHasTimer, KeptWhileWaiting, WaiterRegistered,
              EntriesReachable
<1>4. EntriesOwn
  BY <1>2, CallSideAssumption DEF CallSideAssumption, EntriesOwn
<1>5. RulesKept
  BY DEF Init, RulesKept
<1>6. OneCallOneFinally
  BY DEF Init, OneCallOneFinally
<1> QED BY <1>1, <1>3, <1>4, <1>5, <1>6 DEF IInv

LEMMA CallInv ==
  ASSUME IInv, NEW q \in Requests, NEW given \in BOOLEAN, Call(q, given)
  PROVE  IInv'
<1>1. TypeOK /\ owed[q] + 1 \in Int /\ CallSeqs \in SUBSET FreshSeqs
  BY DEF IInv, TypeOK, CallSeqs
<1>2. PICK reached \in BOOLEAN, debt \in Int, fresh \in SUBSET Seqs :
        /\ reached = (given \/ (rpcAlive /\ q \in bound))
        /\ debt = owed[q] + 1 /\ fresh = CallSeqs
        /\ CallBody(q, reached, debt, {}, fresh)
  BY <1>1 DEF Call, FreshSeqs
<1>3. /\ \A r \in Requests \ {q} : seq'[r] = seq[r]
      /\ \/ NoEntryAdded(q, {})
         \/ reached /\ \E n \in fresh : EntryAdded(q, {}, n)
  BY <1>1, <1>2, CallBodyTable
<1>4. /\ \A r \in Requests \ {q} : seq'[r] = seq[r]
      /\ \/ /\ \A s \in Seqs : rspHandleMap'[s] = rspHandleMap[s]
            /\ timers' = timers
            /\ q \in waitingRsp' => ~Registers(q)
         \/ \E n \in fresh :
              /\ reached /\ q \in waitingRsp' /\ seq'[q] = n
              /\ \A s \in Seqs : rspHandleMap'[s] = IF s = n THEN q
                                                     ELSE rspHandleMap[s]
              /\ timers' = timers \cup {n}
  BY <1>3 DEF NoEntryAdded, EntryAdded
<1>5. /\ owed'[q] = IF q \in waitingRsp' THEN owed[q] + 1 ELSE owed[q]
      /\ \A r \in Requests \ {q} :
           owed'[r] = owed[r] /\ (r \in waitingRsp' <=> r \in waitingRsp)
      /\ selfKeeper = waitingRsp => selfKeeper' = waitingRsp'
  <2>1. owed'[q] = IF q \in waitingRsp' THEN debt ELSE debt - 1
    BY <1>1, <1>2, CallBodyOwed
  <2>2. /\ \A r \in Requests \ {q} :
             owed'[r] = owed[r] /\ (r \in waitingRsp' <=> r \in waitingRsp)
        /\ selfKeeper = waitingRsp => selfKeeper' = waitingRsp'
    BY <1>1, <1>2, CallBodyOwed
  <2>3. owed[q] \in Int
    BY <1>1 DEF TypeOK
  <2> QED BY <1>2, <2>1, <2>2, <2>3
<1>6. TypeOK'
  BY TypeStep DEF IInv, Next
<1>7. EntryHasTimer' /\ KeptWhileWaiting'
  BY <1>1, <1>4, <1>5 DEF IInv, EntryHasTimer, KeptWhileWaiting, TypeOK
<1>8. WaiterRegistered'
  <2> SUFFICES ASSUME rpcAlive', NEW r \in waitingRsp', Registers(r)
               PROVE  rspHandleMap'[seq'[r]] = r
    BY DEF WaiterRegistered, Registers
  <2>1. rpcAlive /\ r \in Requests
    BY <1>6 DEF Call, TypeOK
  <2>2. CASE r = q
    BY <1>1, <1>4, <2>2 DEF TypeOK
  <2>3. CASE r # q
    <3>1. seq'[r] = seq[r] /\ rspHandleMap[seq[r]] = r /\ seq[r] \in Seqs
      BY <1>1, <1>4, <1>5, <2>1, <2>3 DEF IInv, WaiterRegistered, TypeOK
    <3>2. seq[r] \in timers
      BY <2>1, <3>1, CallSideAssumption
      DEF IInv, EntryHasTimer, CallSideAssumption
    <3> QED BY <1>1, <1>2, <1>4, <3>1, <3>2 DEF FreshSeqs
  <2> QED BY <2>2, <2>3
<1>9. EntriesReachable'
  <2>1. bound \subseteq bound' /\ rpcAlive' = rpcAlive
    BY DEF Call
  <2>2. reached => rpcAlive
    BY <1>2 DEF Call
  <2>3. reached /\ q \in waitingRsp' => q \in bound'
    <3>1. CASE q \in canceled
      BY <1>2, <3>1 DEF CallBody, Finish
    <3>2. CASE q \notin canceled
      BY <1>2, <3>2 DEF Call
    <3> QED BY <3>1, <3>2
  <2> QED BY <1>1, <1>4, <2>1, <2>2, <2>3 DEF IInv, EntriesReachable
<1>10. EntriesOwn'
  <2> SUFFICES ASSUME NEW s \in Seqs,
                      rspHandleMap'[s] \in Requests \ Interrupted
               PROVE  /\ rspHandleMap'[s] \in waitingRsp'
                      /\ seq'[rspHandleMap'[s]] = s
    BY DEF EntriesOwn, Interrupted
  <2>1. CASE rspHandleMap'[s] = rspHandleMap[s]
    <3>1. rspHandleMap[s] \in waitingRsp /\ seq[rspHandleMap[s]] = s
      BY <2>1 DEF IInv, EntriesOwn
    <3>2. rspHandleMap[s] # q
      BY <2>1, <3>1 DEF Call, Interrupted
    <3> QED BY <1>4, <1>5, <2>1, <3>1, <3>2
  <2>2. CASE rspHandleMap'[s] # rspHandleMap[s]
    BY <1>4, <2>2
  <2> QED BY <2>1, <2>2
<1>11. RulesKept'
  BY DEF IInv, RulesKept, Call
<1>12. OneCallOneFinally'
  <2> SUFFICES ASSUME NEW r \in Requests, Disciplined(r)
               PROVE  owed'[r] = IF r \in waitingRsp' THEN 1 ELSE 0
    BY DEF OneCallOneFinally, Disciplined
  <2>1. CASE r # q
    BY <1>5, <2>1 DEF IInv, OneCallOneFinally
  <2>2. CASE r = q
    <3>1. owed[q] = 0
      BY <2>2 DEF Call, Disciplined, IInv, OneCallOneFinally
    <3> QED BY <1>5, <2>2, <3>1
  <2> QED BY <2>1, <2>2
<1> QED BY <1>6, <1>7, <1>8, <1>9, <1>10, <1>11, <1>12 DEF IInv

\* A step that ends what entry s was registered for: an answer, or the timer
\* when no retry is left.
LEMMA EntryEnded ==
  ASSUME IInv, TypeOK', NEW s \in Seqs, NEW q \in Requests, NEW type,
         rspHandleMap[s] = q, OnFinish(q, type),
         rspHandleMap' = Without({s}),
         timers' = timers \ {s} \/ timers' = timers,
         UNCHANGED <<canceled, bound, retryCount, seq, rpcAlive, requests, held>>
  PROVE  IInv'
<1>1. TypeOK
  BY DEF IInv
<1>2. \A t \in Seqs : rspHandleMap'[t] = IF t = s THEN NoReq
                                        ELSE rspHandleMap[t]
  BY DEF Without
<1>3. /\ owed'[q] = IF q \in waitingRsp THEN owed[q] - 1 ELSE owed[q]
      /\ waitingRsp' = waitingRsp \ {q}
      /\ \A r \in Requests \ {q} : owed'[r] = owed[r]
      /\ selfKeeper = waitingRsp => selfKeeper' = waitingRsp'
  BY <1>1, OnFinishOwed
<1>4. EntryHasTimer' /\ KeptWhileWaiting'
  BY <1>2, <1>3 DEF IInv, EntryHasTimer, KeptWhileWaiting
<1>5. WaiterRegistered'
  <2> SUFFICES ASSUME rpcAlive', NEW r \in waitingRsp', Registers(r)
               PROVE  rspHandleMap'[seq'[r]] = r
    BY DEF WaiterRegistered, Registers
  <2>1. r \in waitingRsp /\ r # q /\ r \in Requests
    BY <1>1, <1>3 DEF TypeOK
  <2>2. rspHandleMap[seq[r]] = r /\ seq[r] \in Seqs
    BY <1>1, <2>1 DEF IInv, WaiterRegistered, TypeOK
  <2> QED BY <1>2, <2>1, <2>2
<1>6. EntriesReachable'
  BY <1>2 DEF IInv, EntriesReachable
<1>7. EntriesOwn'
  <2> SUFFICES ASSUME NEW t \in Seqs,
                      rspHandleMap'[t] \in Requests \ Interrupted
               PROVE  /\ rspHandleMap'[t] \in waitingRsp'
                      /\ seq'[rspHandleMap'[t]] = t
    BY DEF EntriesOwn, Interrupted
  <2>1. t # s /\ rspHandleMap'[t] = rspHandleMap[t]
    BY <1>2, CallSideAssumption DEF CallSideAssumption
  <2>2. rspHandleMap[t] \in waitingRsp /\ seq[rspHandleMap[t]] = t
    BY <2>1 DEF IInv, EntriesOwn
  <2>3. rspHandleMap[t] # q
    BY <2>1, <2>2 DEF IInv, EntriesOwn
  <2> QED BY <1>3, <2>1, <2>2, <2>3
<1>8. RulesKept'
  BY DEF IInv, RulesKept
<1>9. OneCallOneFinally'
  <2> SUFFICES ASSUME NEW r \in Requests, Disciplined(r)
               PROVE  owed'[r] = IF r \in waitingRsp' THEN 1 ELSE 0
    BY DEF OneCallOneFinally, Disciplined
  <2>1. owed[r] = IF r \in waitingRsp THEN 1 ELSE 0
    BY DEF IInv, OneCallOneFinally
  <2> QED BY <1>3, <2>1
<1> QED BY <1>4, <1>5, <1>6, <1>7, <1>8, <1>9 DEF IInv

\* The timer of entry s fires with a retry left.
LEMMA RetryInv ==
  ASSUME IInv, TypeOK', NEW s \in Seqs, NEW q \in Requests,
         rspHandleMap[s] = q, retryCount[q] # 0,
         retryCount' = [retryCount EXCEPT ![q] = CountLeft(@)],
         CallBody(q, q \in bound, owed[q], {s}, FreshSeqs),
         UNCHANGED <<canceled, bound, rpcAlive, requests, held>>
  PROVE  IInv'
<1>1. TypeOK /\ owed[q] \in Int /\ FreshSeqs \in SUBSET Seqs
  BY DEF IInv, TypeOK, FreshSeqs
<1>2. /\ \A r \in Requests \ {q} : seq'[r] = seq[r]
      /\ NoEntryAdded(q, {s}) \/ \E n \in FreshSeqs : EntryAdded(q, {s}, n)
  BY <1>1, CallBodyTable
<1>3. /\ owed'[q] = IF q \in waitingRsp' THEN owed[q] ELSE owed[q] - 1
      /\ \A r \in Requests \ {q} :
           owed'[r] = owed[r] /\ (r \in waitingRsp' <=> r \in waitingRsp)
      /\ selfKeeper = waitingRsp => selfKeeper' = waitingRsp'
  BY <1>1, CallBodyOwed
<1>4. s \in timers /\ rpcAlive /\ q \in bound /\ q # NoReq
  BY CallSideAssumption
  DEF IInv, EntryHasTimer, EntriesReachable, CallSideAssumption
<1>5. \A t \in Seqs \ {s} : t \in timers => rspHandleMap'[t] = rspHandleMap[t]
  BY <1>2 DEF NoEntryAdded, EntryAdded, FreshSeqs
<1>6. EntryHasTimer' /\ KeptWhileWaiting'
  BY <1>2, <1>3 DEF IInv, EntryHasTimer, KeptWhileWaiting, NoEntryAdded,
                    EntryAdded
<1>7. WaiterRegistered'
  <2> SUFFICES ASSUME rpcAlive', NEW r \in waitingRsp', Registers(r)
               PROVE  rspHandleMap'[seq'[r]] = r
    BY DEF WaiterRegistered, Registers
  <2>1. r \in Requests
    BY DEF TypeOK
  <2>2. CASE r = q
    BY <1>2, <2>2 DEF NoEntryAdded, EntryAdded, FreshSeqs
  <2>3. CASE r # q
    <3>1. rspHandleMap[seq[r]] = r /\ seq[r] \in Seqs /\ seq'[r] = seq[r]
      BY <1>1, <1>2, <1>3, <1>4, <2>1, <2>3 DEF IInv, WaiterRegistered, TypeOK
    <3>2. seq[r] # s /\ seq[r] \in timers
      BY <2>1, <2>3, <3>1, CallSideAssumption
      DEF IInv, EntryHasTimer, CallSideAssumption
    <3> QED BY <1>5, <3>1, <3>2
  <2> QED BY <2>2, <2>3
<1>8. EntriesReachable'
  BY <1>2, <1>4 DEF IInv, EntriesReachable, NoEntryAdded, EntryAdded
<1>9. EntriesOwn'
  <2> SUFFICES ASSUME NEW t \in Seqs,
                      rspHandleMap'[t] \in Requests \ Interrupted
               PROVE  /\ rspHandleMap'[t] \in waitingRsp'
                      /\ seq'[rspHandleMap'[t]] = t
    BY DEF EntriesOwn, Interrupted
  <2>1. CASE rspHandleMap'[t] = rspHandleMap[t] /\ t # s
    <3>1. rspHandleMap[t] \in waitingRsp /\ seq[rspHandleMap[t]] = t
      BY <2>1 DEF IInv, EntriesOwn
    <3>2. rspHandleMap[t] # q
      BY <2>1, <3>1 DEF IInv, EntriesOwn
    <3> QED BY <1>2, <1>3, <2>1, <3>1, <3>2
  <2>2. CASE ~(rspHandleMap'[t] = rspHandleMap[t] /\ t # s)
    BY <1>2, <2>2, CallSideAssumption
    DEF NoEntryAdded, EntryAdded, CallSideAssumption
  <2> QED BY <2>1, <2>2
<1>10. RulesKept'
  BY <1>1 DEF IInv, RulesKept, TypeOK
<1>11. OneCallOneFinally'
  <2> SUFFICES ASSUME NEW r \in Requests, Disciplined(r)
               PROVE  owed'[r] = IF r \in waitingRsp' THEN 1 ELSE 0
    BY DEF OneCallOneFinally, Disciplined
  <2>1. CASE r # q
    BY <1>3, <2>1 DEF IInv, OneCallOneFinally
  <2>2. CASE r = q
    <3>1. q \notin Interrupted
      BY <2>2 DEF Disciplined, Interrupted, IInv, TypeOK
    <3>2. owed[q] = 1
      BY <2>2, <3>1 DEF IInv, EntriesOwn, OneCallOneFinally
    <3> QED BY <1>3, <2>2, <3>2
  <2> QED BY <2>1, <2>2
<1> QED BY <1>6, <1>7, <1>8, <1>9, <1>10, <1>11 DEF IInv

LEMMA CancelInv ==
  ASSUME IInv, TypeOK', NEW q \in Requests, Cancel(q)
  PROVE  IInv'
<1>1. TypeOK
  BY DEF IInv
<1>2. /\ owed'[q] = IF q \in waitingRsp THEN owed[q] - 1 ELSE owed[q]
      /\ waitingRsp' = waitingRsp \ {q}
      /\ \A r \in Requests \ {q} : owed'[r] = owed[r]
      /\ selfKeeper = waitingRsp => selfKeeper' = waitingRsp'
  BY <1>1, OnFinishOwed DEF Cancel
<1>3. q \in Interrupted
  BY DEF Cancel, Interrupted
<1>4. EntryHasTimer' /\ KeptWhileWaiting' /\ WaiterRegistered'
      /\ EntriesReachable'
  BY <1>2 DEF Cancel, IInv, EntryHasTimer, KeptWhileWaiting, WaiterRegistered,
              EntriesReachable, Registers
<1>5. EntriesOwn'
  BY <1>2, <1>3 DEF Cancel, IInv, EntriesOwn, Interrupted
<1>6. RulesKept'
  BY DEF Cancel, IInv, RulesKept
<1>7. OneCallOneFinally'
  BY <1>2 DEF IInv, OneCallOneFinally, Disciplined
<1> QED BY <1>4, <1>5, <1>6, <1>7 DEF IInv

LEMMA DismissInv ==
  ASSUME IInv, TypeOK', Dismiss
  PROVE  IInv'
<1> DEFINE ends == {r \in requests : Alive(r)} \cap waitingRsp
<1>1. /\ waitingRsp' = waitingRsp \ ends /\ selfKeeper' = selfKeeper \ ends
      /\ \A r \in Requests :
           owed'[r] = IF r \in ends THEN owed[r] - 1 ELSE owed[r]
  BY DEF Dismiss
<1>2. ends \subseteq Interrupted /\ ends \subseteq waitingRsp
  BY DEF IInv, RulesKept, Interrupted
<1>3. EntryHasTimer' /\ KeptWhileWaiting' /\ WaiterRegistered'
      /\ EntriesReachable'
  BY <1>1 DEF Dismiss, IInv, EntryHasTimer, KeptWhileWaiting, WaiterRegistered,
              EntriesReachable, Registers
<1>4. EntriesOwn'
  BY <1>1, <1>2 DEF Dismiss, IInv, EntriesOwn, Interrupted
<1>5. RulesKept'
  BY DEF Dismiss, IInv, RulesKept
<1>6. OneCallOneFinally'
  BY <1>1, <1>2 DEF IInv, OneCallOneFinally, Disciplined
<1> QED BY <1>3, <1>4, <1>5, <1>6 DEF IInv

\* The actions that change neither calls nor the handler table.
LEMMA BookkeepingInv ==
  ASSUME IInv, TypeOK', canceled' \subseteq canceled \cup MayCancel,
         requests' \subseteq requests \cup MayCancel,
         held \ MayDrop \subseteq held',
         timers' = timers \/ \E s \in Seqs : /\ rspHandleMap[s] = NoReq
                                            /\ timers' = timers \ {s},
         UNCHANGED <<waitingRsp, selfKeeper, bound, retryCount, seq,
                     finallyType, rspHandleMap, rpcAlive, owed>>
  PROVE  IInv'
<1>1. EntryHasTimer' /\ KeptWhileWaiting' /\ WaiterRegistered'
      /\ EntriesReachable' /\ EntriesOwn'
  BY DEF IInv, EntryHasTimer, KeptWhileWaiting, WaiterRegistered,
         EntriesReachable, EntriesOwn, Registers, Interrupted
<1>2. RulesKept' /\ OneCallOneFinally'
  BY DEF IInv, RulesKept, OneCallOneFinally, Disciplined
<1> QED BY <1>1, <1>2 DEF IInv

LEMMA ExpireInv ==
  ASSUME IInv, TypeOK', Expire
  PROVE  IInv'
<1>1. \A s \in Seqs : rspHandleMap'[s] = NoReq
  BY DEF Expire, Without
<1>2. EntryHasTimer' /\ KeptWhileWaiting' /\ WaiterRegistered'
      /\ EntriesReachable'
  BY <1>1 DEF Expire, IInv, EntryHasTimer, KeptWhileWaiting, WaiterRegistered,
              EntriesReachable
<1>3. EntriesOwn'
  BY <1>1, CallSideAssumption DEF CallSideAssumption, EntriesOwn
<1>4. RulesKept' /\ OneCallOneFinally'
  BY DEF Expire, IInv, RulesKept, OneCallOneFinally, Disciplined
<1> QED BY <1>2, <1>3, <1>4 DEF IInv

LEMMA NextInv == IInv /\ [Next]_vars => IInv'
<1> SUFFICES ASSUME IInv, [Next]_vars PROVE IInv'
  OBVIOUS
<1>0. TypeOK /\ TypeOK'
  BY TypeStep DEF IInv
<1>1. ASSUME NEW r \in Requests, NEW given \in BOOLEAN, Call(r, given)
      PROVE  IInv'
  BY <1>1, CallInv
<1>2. ASSUME NEW r \in Requests, Cancel(r) PROVE IInv'
  BY <1>0, <1>2, CancelInv
<1>3. ASSUME NEW r \in Requests, NEW on \in BOOLEAN,
             SetCanceled(r, on) \/ SetNeedRsp(r, on)
      PROVE  IInv'
  <2>1. CASE SetCanceled(r, on)
    BY <1>0, <2>1, BookkeepingInv DEF SetCanceled
  <2>2. CASE SetNeedRsp(r, on)
    BY <1>0, <2>2, BookkeepingInv DEF SetNeedRsp
  <2> QED BY <1>3, <2>1, <2>2
<1>4. ASSUME NEW r \in Requests, AddTo(r) \/ Remove(r) \/ Drop(r) PROVE IInv'
  <2>1. CASE AddTo(r)
    BY <1>0, <2>1, BookkeepingInv DEF AddTo
  <2>2. CASE Remove(r)
    BY <1>0, <2>2, BookkeepingInv DEF Remove
  <2>3. CASE Drop(r)
    BY <1>0, <2>3, BookkeepingInv DEF Drop
  <2> QED BY <1>4, <2>1, <2>2, <2>3
<1>5. CASE Dismiss
  BY <1>0, <1>5, DismissInv
<1>6. ASSUME NEW ready \in BOOLEAN, SetReady(ready) PROVE IInv'
  BY <1>0, <1>6, BookkeepingInv DEF SetReady
<1>7. CASE Expire
  BY <1>0, <1>7, ExpireInv
<1>8. ASSUME NEW s \in Seqs, UseDestroyed(s) PROVE IInv'
  BY <1>0, <1>8, BookkeepingInv DEF UseDestroyed
<1>9. ASSUME NEW s \in Seqs, TimerFire(s) PROVE IInv'
  <2>1. CASE /\ rspHandleMap[s] = NoReq
             /\ timers' = timers \ {s}
             /\ UNCHANGED <<waitingRsp, canceled, needRsp, selfKeeper, bound,
                            retryCount, seq, finallyType, rspHandleMap, isReady,
                            rpcAlive, requests, held, owed, fault>>
    BY <1>0, <2>1, BookkeepingInv
  <2>2. ASSUME NEW r \in Requests, rspHandleMap[s] = r, Timeout(r, s),
               UNCHANGED <<canceled, needRsp, bound, isReady, rpcAlive,
                           requests, held, fault>>
        PROVE  IInv'
    <3>1. CASE /\ retryCount[r] # 0
               /\ retryCount' = [retryCount EXCEPT ![r] = CountLeft(@)]
               /\ CallBody(r, r \in bound, owed[r], {s}, FreshSeqs)
      BY <1>0, <2>2, <3>1, RetryInv
    <3>2. CASE /\ OnFinish(r, "timeout")
               /\ rspHandleMap' = Without({s})
               /\ timers' = timers \ {s}
               /\ UNCHANGED <<retryCount, seq>>
      BY <1>0, <2>2, <3>2, EntryEnded
    <3> QED BY <2>2, <3>1, <3>2 DEF Timeout
  <2> QED BY <1>8, <1>9, <2>1, <2>2 DEF TimerFire
<1>10. ASSUME NEW s \in Seqs, NEW kind \in AnswerKinds, RecvRsp(s, kind)
       PROVE  IInv'
  <2>1. ASSUME NEW r \in Requests, rspHandleMap[s] = r,
               OnFinish(r, IF r \in canceled THEN "canceled" ELSE kind),
               rspHandleMap' = Without({s}),
               UNCHANGED <<canceled, needRsp, bound, retryCount, seq, timers,
                           isReady, rpcAlive, requests, held, fault>>
        PROVE  IInv'
    BY <1>0, <2>1, EntryEnded
  <2> QED BY <1>8, <1>10, <2>1 DEF RecvRsp
<1>11. CASE UNCHANGED vars
  BY <1>0, <1>11, BookkeepingInv DEF vars
<1> QED BY <1>1, <1>2, <1>3, <1>4, <1>5, <1>6, <1>7, <1>9, <1>10, <1>11 DEF Next

THEOREM Inductive == Spec => []IInv
BY InitInv, NextInv, PTL DEF Spec

\* Every call that is not overlapped, nor both canceled and retried, is followed
\* by exactly one finally callback, in every interleaving.
THEOREM OneFinally == Spec => []OneCallOneFinally
BY Inductive, PTL DEF IInv

\* A pending call can always be ended: its last number stays in the table.
THEOREM NoLostWaiter == Spec => []WaiterRegistered
BY Inductive, PTL DEF IInv

\* Every entry of the handler table is removed by a timer still to fire.
THEOREM NoLeakedEntry == Spec => []EntryHasTimer
BY Inductive, PTL DEF IInv

\* A request keeps itself alive exactly while its call is pending.
THEOREM Kept == Spec => []KeptWhileWaiting
BY Inductive, PTL DEF IInv
-----------------------------------------------------------------------------
(* Handlers never run on a destroyed request. *)

LEMMA EntriesAlive ==
  ASSUME IInv, OwnershipKept, NEW s \in Seqs, rspHandleMap[s] # NoReq
  PROVE  Alive(rspHandleMap[s])
<1>1. rspHandleMap[s] \in Requests
  BY DEF IInv, TypeOK
<1>2. CASE rspHandleMap[s] \in Interrupted
  BY <1>1, <1>2 DEF OwnershipKept, IInv, RulesKept, Alive
<1>3. CASE rspHandleMap[s] \notin Interrupted
  BY <1>1, <1>3 DEF IInv, EntriesOwn, KeptWhileWaiting, Alive
<1> QED BY <1>2, <1>3

LEMMA NoFaultStep ==
  ASSUME IInv, OwnershipKept, ~fault, [Next]_vars
  PROVE  ~fault'
<1>1. ASSUME NEW s \in Seqs PROVE ~UseDestroyed(s)
  BY EntriesAlive DEF UseDestroyed
<1>2. ASSUME NEW s \in Seqs, TimerFire(s) PROVE ~fault'
  BY <1>1, <1>2 DEF TimerFire
<1>3. ASSUME NEW s \in Seqs, NEW kind \in AnswerKinds, RecvRsp(s, kind)
      PROVE  ~fault'
  BY <1>1, <1>3 DEF RecvRsp
<1> QED BY <1>2, <1>3 DEF Next, vars, Call, Cancel, SetCanceled, SetNeedRsp,
                          AddTo, Remove, Drop, Dismiss, SetReady, Expire

\* The request behind every handler is alive, if the user holds on to what it
\* cancels or calls again while waiting.
THEOREM Lifetime == OwnershipKept => (Spec => []HandlersAlive)
<1> SUFFICES ASSUME OwnershipKept PROVE Spec => []HandlersAlive
  OBVIOUS
<1>1. Init => ~fault
  BY DEF Init
<1>2. IInv /\ ~fault /\ [Next]_vars => ~fault'
  BY NoFaultStep
<1>3. IInv /\ ~fault => HandlersAlive
  BY EntriesAlive DEF HandlersAlive
<1> QED BY <1>1, <1>2, <1>3, Inductive, PTL DEF Spec
-----------------------------------------------------------------------------
(* A call ends by its own last attempt. *)

LEMMA OwnAttemptStep ==
  ASSUME IInv, IInv', [Next]_vars,
         NEW r \in waitingRsp \ Interrupted, r \notin waitingRsp'
  PROVE  rspHandleMap[seq[r]] = r /\ rspHandleMap'[seq[r]] = NoReq
<1>1. TypeOK /\ r \in Requests
  BY DEF IInv, TypeOK
<1>2. ASSUME NEW q \in Requests, NEW given \in BOOLEAN, Call(q, given)
      PROVE  FALSE
  <2>1. q # r
    BY <1>2 DEF Call, Interrupted
  <2> QED BY <1>2, <2>1 DEF Call, CallBody, Finish, Wait
<1>3. ASSUME NEW q \in Requests, Cancel(q) PROVE FALSE
  BY <1>3 DEF Cancel, OnFinish, Finish, Interrupted
<1>4. CASE Dismiss
  BY <1>4 DEF Dismiss, IInv, RulesKept, Interrupted
<1>5. ASSUME NEW s \in Seqs, NEW q \in Requests, rspHandleMap[s] = q,
             \A p \in Requests \ {q} : p \in waitingRsp' <=> p \in waitingRsp,
             rspHandleMap'[s] = NoReq
      PROVE  rspHandleMap[seq[r]] = r /\ rspHandleMap'[seq[r]] = NoReq
  BY <1>1, <1>5 DEF IInv, EntriesOwn
<1>6. ASSUME NEW s \in Seqs, TimerFire(s)
      PROVE  rspHandleMap[seq[r]] = r /\ rspHandleMap'[seq[r]] = NoReq
  <2>1. PICK q \in Requests : rspHandleMap[s] = q /\ Timeout(q, s)
    BY <1>6 DEF TimerFire, UseDestroyed
  <2>2. CASE CallBody(q, q \in bound, owed[q], {s}, FreshSeqs)
    <3>1. owed[q] \in Int /\ FreshSeqs \in SUBSET Seqs
      BY <1>1 DEF TypeOK, FreshSeqs
    <3>2. \A p \in Requests \ {q} : p \in waitingRsp' <=> p \in waitingRsp
      BY <1>1, <2>2, <3>1, CallBodyOwed
    <3>3. q = r
      BY <1>1, <3>2
    <3>4. NoEntryAdded(q, {s}) \/ \E n \in FreshSeqs : EntryAdded(q, {s}, n)
      BY <1>1, <2>2, <3>1, CallBodyTable
    <3>5. rspHandleMap'[s] = NoReq
      BY <3>3, <3>4 DEF NoEntryAdded, EntryAdded
    <3> QED BY <1>5, <2>1, <3>2, <3>5
  <2>3. CASE OnFinish(q, "timeout") /\ rspHandleMap' = Without({s})
    <3>1. rspHandleMap'[s] = NoReq
      BY <2>3 DEF Without
    <3>2. waitingRsp' = waitingRsp \ {q}
      BY <1>1, <2>3, OnFinishOwed
    <3> QED BY <1>5, <2>1, <3>1, <3>2
  <2> QED BY <2>1, <2>2, <2>3 DEF Timeout
<1>7. ASSUME NEW s \in Seqs, NEW kind \in AnswerKinds, RecvRsp(s, kind)
      PROVE  rspHandleMap[seq[r]] = r /\ rspHandleMap'[seq[r]] = NoReq
  <2>1. PICK q \in Requests :
          /\ rspHandleMap[s] = q
          /\ OnFinish(q, IF q \in canceled THEN "canceled" ELSE kind)
          /\ rspHandleMap' = Without({s})
    BY <1>7 DEF RecvRsp, UseDestroyed
  <2>2. rspHandleMap'[s] = NoReq
    BY <2>1 DEF Without
  <2>3. waitingRsp' = waitingRsp \ {q}
    BY <1>1, <2>1, OnFinishOwed
  <2> QED BY <1>5, <2>1, <2>2, <2>3
<1> QED BY <1>2, <1>3, <1>4, <1>6, <1>7
        DEF Next, vars, SetCanceled, SetNeedRsp, AddTo, Remove, Drop, SetReady,
            Expire

\* The answer or timer of an earlier attempt never ends a call that is neither
\* canceled nor overlapped.
THEOREM OwnAttempt == Spec => EndedByOwnAttempt
<1>1. IInv /\ IInv' /\ [Next]_vars =>
        [\A r \in waitingRsp \ Interrupted :
           r \notin waitingRsp' => /\ rspHandleMap[seq[r]] = r
                                  /\ rspHandleMap'[seq[r]] = NoReq]_vars
  BY OwnAttemptStep
<1> QED BY <1>1, Inductive, PTL DEF Spec, EndedByOwnAttempt
-----------------------------------------------------------------------------
(***************************************************************************)
(* CallSide implements CallContract for the disciplined requests.          *)
(***************************************************************************)
LEMMA ContractInit == Init => Contract!Init
<1> USE DEF Clean
<1> SUFFICES ASSUME Init PROVE Contract!Init
  OBVIOUS
<1> QED BY DEF Init, Contract!Init, FinallyTypes

\* A request that is not disciplined is not seen by the contract.
LEMMA UnseenStep ==
  ASSUME NEW q, q \notin Clean,
         \A r \in Requests \ {q} : /\ owed'[r] = owed[r]
                                   /\ finallyType'[r] = finallyType[r]
  PROVE  UNCHANGED Contract!vars
<1> USE DEF Clean
<1>1. \A r \in Clean : owed'[r] = owed[r] /\ finallyType'[r] = finallyType[r]
  OBVIOUS
<1>2. Clean' = Clean
  BY DEF Disciplined
<1> QED BY <1>1, <1>2 DEF Contract!vars, Disciplined

\* finally of a call the request had begun.
LEMMA ConcludeStep ==
  ASSUME TypeOK, NEW q \in Clean, NEW type \in FinallyTypes \ {"rpc_expired"},
         owed[q] = 1, Finish(q, type, 1)
  PROVE  Contract!Next
<1> USE DEF Clean
<1>1. /\ owed'[q] = 0 /\ \A r \in Clean \ {q} : owed'[r] = owed[r]
      /\ finallyType'[q] = type
      /\ \A r \in Clean \ {q} : finallyType'[r] = finallyType[r]
  BY DEF Finish, TypeOK
<1>2. [r \in Clean |-> owed'[r]] = [[r \in Clean |-> owed[r]] EXCEPT ![q] = 0]
  BY <1>1
<1>3. [r \in Clean |-> finallyType'[r]]
        = [[r \in Clean |-> finallyType[r]] EXCEPT ![q] = type]
  BY <1>1
<1>4. Contract!Conclude(q, type)
  BY <1>2, <1>3 DEF Contract!Conclude, Disciplined
<1> QED BY <1>4 DEF Contract!Next, Contract!Conclusions

\* finally of a call that call() itself ends.
LEMMA RefuseStep ==
  ASSUME TypeOK, NEW q \in Clean, NEW type \in Contract!Refusals,
         owed[q] = 0, Finish(q, type, 1)
  PROVE  Contract!Next
<1> USE DEF Clean
<1>1. /\ \A r \in Clean : owed'[r] = owed[r]
      /\ finallyType'[q] = type
      /\ \A r \in Clean \ {q} : finallyType'[r] = finallyType[r]
  BY DEF Finish, TypeOK
<1>2. [r \in Clean |-> owed'[r]] = [r \in Clean |-> owed[r]]
  BY <1>1
<1>3. [r \in Clean |-> finallyType'[r]]
        = [[r \in Clean |-> finallyType[r]] EXCEPT ![q] = type]
  BY <1>1
<1>4. Contract!Refuse(q, type)
  BY <1>2, <1>3 DEF Contract!Refuse, Disciplined
<1> QED BY <1>4 DEF Contract!Next

\* A call that begins to wait.
LEMMA BeginStep ==
  ASSUME TypeOK, NEW q \in Clean, owed[q] = 0, Wait(q, 1)
  PROVE  Contract!Next
<1> USE DEF Clean
<1>1. /\ owed'[q] = 1 /\ \A r \in Clean \ {q} : owed'[r] = owed[r]
      /\ \A r \in Clean : finallyType'[r] = finallyType[r]
  BY DEF Wait, TypeOK
<1>2. [r \in Clean |-> owed'[r]] = [[r \in Clean |-> owed[r]] EXCEPT ![q] = 1]
  BY <1>1
<1>3. [r \in Clean |-> finallyType'[r]] = [r \in Clean |-> finallyType[r]]
  BY <1>1
<1>4. Contract!Begin(q)
  BY <1>2, <1>3 DEF Contract!Begin, Disciplined
<1> QED BY <1>4 DEF Contract!Next

\* The dispose cancels what is pending among the disciplined requests.
LEMMA CancelAllStep ==
  ASSUME IInv, Dismiss
  PROVE  Contract!Next
<1> USE DEF Clean
<1> DEFINE ends == {r \in requests : Alive(r)} \cap waitingRsp \cap Clean
<1>1. \A r \in Clean :
        /\ owed'[r] = IF r \in ends THEN owed[r] - 1 ELSE owed[r]
        /\ finallyType'[r] = IF r \in ends THEN "canceled" ELSE finallyType[r]
  BY DEF Dismiss
<1>2. \A r \in ends : owed[r] = 1
  BY DEF IInv, OneCallOneFinally
<1>3. [r \in Clean |-> owed'[r]]
        = [r \in Clean |-> IF r \in ends THEN 0 ELSE owed[r]]
  BY <1>1, <1>2
<1>4. [r \in Clean |-> finallyType'[r]]
        = [r \in Clean |-> IF r \in ends THEN "canceled" ELSE finallyType[r]]
  BY <1>1
<1>5. PICK S \in SUBSET Clean : S = ends
  OBVIOUS
<1> HIDE DEF ends
<1>6. Contract!CancelAll(S)
  BY <1>2, <1>3, <1>4, <1>5 DEF Contract!CancelAll, Disciplined
<1> QED BY <1>6 DEF Contract!Next

\* What call() and its refusals do is a step of the contract, or unseen.
LEMMA CallStep ==
  ASSUME IInv, NEW q \in Requests, NEW given \in BOOLEAN, Call(q, given)
  PROVE  [Contract!Next]_(Contract!vars)
<1> USE DEF Clean
<1>1. TypeOK /\ owed[q] \in Int
  BY DEF IInv, TypeOK
<1>2. CASE q \in Clean
  <2>1. owed[q] = 0 /\ owed[q] + 1 = 1
    BY <1>1, <1>2 DEF IInv, OneCallOneFinally, Call, Disciplined
  <2>2. \/ \E type \in Contract!Refusals : Finish(q, type, 1)
        \/ Wait(q, 1)
    BY <2>1 DEF Call, CallBody, CallRefused, Contract!Refusals
  <2> QED BY <1>1, <1>2, <2>1, <2>2, RefuseStep, BeginStep
<1>3. CASE q \notin Clean
  <2>1. \A r \in Requests \ {q} : /\ owed'[r] = owed[r]
                                  /\ finallyType'[r] = finallyType[r]
    BY <1>1 DEF Call, CallBody, Finish, Wait, TypeOK
  <2> QED BY <1>3, <2>1, UnseenStep
<1> QED BY <1>2, <1>3

\* on_finish is a conclusion of the contract, or unseen.
LEMMA OnFinishStep ==
  ASSUME IInv, NEW q \in Requests, NEW type \in FinallyTypes \ {"rpc_expired"},
         OnFinish(q, type)
  PROVE  [Contract!Next]_(Contract!vars)
<1> USE DEF Clean
<1>1. TypeOK
  BY DEF IInv
<1>2. CASE q \notin waitingRsp
  BY <1>2 DEF OnFinish, Contract!vars, Disciplined
<1>3. CASE q \in waitingRsp /\ q \in Clean
  <2>1. owed[q] = 1
    BY <1>3 DEF IInv, OneCallOneFinally
  <2> QED BY <1>1, <1>3, <2>1, ConcludeStep DEF OnFinish
<1>4. CASE q \in waitingRsp /\ q \notin Clean
  <2>1. \A r \in Requests \ {q} : /\ owed'[r] = owed[r]
                                  /\ finallyType'[r] = finallyType[r]
    BY <1>1, <1>4 DEF OnFinish, Finish, TypeOK
  <2> QED BY <1>4, <2>1, UnseenStep
<1> QED BY <1>2, <1>3, <1>4

\* A timeout retries, which the contract does not see, or concludes.
LEMMA TimeoutStep ==
  ASSUME IInv, NEW s \in Seqs, NEW q \in Requests,
         rspHandleMap[s] = q, Timeout(q, s)
  PROVE  [Contract!Next]_(Contract!vars)
<1> USE DEF Clean
<1>1. TypeOK /\ q \in bound
  BY CallSideAssumption
  DEF IInv, EntriesReachable, CallSideAssumption
<1>2. CASE OnFinish(q, "timeout")
  <2>1. "timeout" \in FinallyTypes \ {"rpc_expired"}
    BY DEF FinallyTypes
  <2> QED BY <1>2, <2>1, OnFinishStep
<1>3. CASE /\ retryCount[q] # 0 /\ q \in Clean
           /\ CallBody(q, q \in bound, owed[q], {s}, FreshSeqs)
  <2>1. q \notin Interrupted
    BY <1>3 DEF Disciplined, Interrupted, IInv, TypeOK
  <2>2. owed[q] = 1
    BY <1>3, <2>1 DEF IInv, EntriesOwn, OneCallOneFinally
  <2>3. CASE Wait(q, 1)
    <3>1. \A r \in Clean : /\ owed'[r] = owed[r]
                           /\ finallyType'[r] = finallyType[r]
      BY <1>1, <2>2, <2>3 DEF Wait, TypeOK
    <3> QED BY <3>1 DEF Contract!vars, Disciplined
  <2>4. CASE \E type \in FinallyTypes \ {"rpc_expired"} : Finish(q, type, 1)
    BY <1>1, <1>3, <2>2, <2>4, ConcludeStep
  <2>5. \/ Wait(q, 1)
        \/ \E type \in FinallyTypes \ {"rpc_expired"} : Finish(q, type, 1)
    BY <1>1, <1>3, <2>2 DEF CallBody, CallRefused, FinallyTypes
  <2> QED BY <2>3, <2>4, <2>5
<1>4. CASE /\ q \notin Clean
           /\ CallBody(q, q \in bound, owed[q], {s}, FreshSeqs)
  <2>1. \A r \in Requests \ {q} : /\ owed'[r] = owed[r]
                                  /\ finallyType'[r] = finallyType[r]
    BY <1>1, <1>4 DEF CallBody, Finish, Wait, TypeOK
  <2> QED BY <1>4, <2>1, UnseenStep
<1> QED BY <1>2, <1>3, <1>4 DEF Timeout

LEMMA ContractStep == IInv /\ [Next]_vars => [Contract!Next]_(Contract!vars)
<1> USE DEF Clean
<1> SUFFICES ASSUME IInv, [Next]_vars PROVE [Contract!Next]_(Contract!vars)
  OBVIOUS
<1>1. ASSUME NEW r \in Requests, NEW given \in BOOLEAN, Call(r, given)
      PROVE  [Contract!Next]_(Contract!vars)
  BY <1>1, CallStep
<1>2. ASSUME NEW r \in Requests, Cancel(r)
      PROVE  [Contract!Next]_(Contract!vars)
  <2>1. "canceled" \in FinallyTypes \ {"rpc_expired"}
    BY DEF FinallyTypes
  <2> QED BY <1>2, <2>1, OnFinishStep DEF Cancel
<1>3. CASE Dismiss
  BY <1>3, CancelAllStep
<1>4. ASSUME UNCHANGED <<owed, finallyType>>
      PROVE  [Contract!Next]_(Contract!vars)
  BY <1>4 DEF Contract!vars, Disciplined
<1>5. ASSUME NEW s \in Seqs, TimerFire(s)
      PROVE  [Contract!Next]_(Contract!vars)
  <2>1. \/ UNCHANGED <<owed, finallyType>>
        \/ \E q \in Requests : rspHandleMap[s] = q /\ Timeout(q, s)
    BY <1>5 DEF TimerFire, UseDestroyed
  <2> QED BY <1>4, <2>1, TimeoutStep
<1>6. ASSUME NEW s \in Seqs, NEW kind \in AnswerKinds, RecvRsp(s, kind)
      PROVE  [Contract!Next]_(Contract!vars)
  <2>1. \/ UNCHANGED <<owed, finallyType>>
        \/ \E q \in Requests :
             OnFinish(q, IF q \in canceled THEN "canceled" ELSE kind)
    BY <1>6 DEF RecvRsp, UseDestroyed
  <2>2. \A q \in Requests : (IF q \in canceled THEN "canceled" ELSE kind)
                             \in FinallyTypes \ {"rpc_expired"}
    BY DEF AnswerKinds, FinallyTypes
  <2> QED BY <1>4, <2>1, <2>2, OnFinishStep
<1>7. CASE UNCHANGED vars
  BY <1>4, <1>7 DEF vars
<1> QED BY <1>1, <1>2, <1>3, <1>4, <1>5, <1>6, <1>7
        DEF Next, SetCanceled, SetNeedRsp, AddTo, Remove, Drop, SetReady, Expire

\* The calling side keeps the contract of a request: one call, one finally, with
\* a finally_t that fits what ended the call.
THEOREM Refinement == Spec => ImplementsContract
BY ContractInit, ContractStep, Inductive, PTL
DEF Spec, ImplementsContract, Contract!Spec, Clean
=============================================================================
