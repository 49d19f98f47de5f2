--------------------------- MODULE RustCoreProofs ---------------------------
(***************************************************************************)
(* Theorems about RustCore: what a request keeps and what ends it however  *)
(* callbacks nest, and when the library does not panic.                    *)
(***************************************************************************)
EXTENDS RustCore, SequenceTheorems, TLAPS

\* What the theorems ask of the constants.
RustAssumption ==
  /\ NoReq \notin Requests
  /\ Retry0 \in [Requests -> Nat \cup {-1}]
  /\ TimerSet \in BOOLEAN /\ ConnBorrowed \in BOOLEAN

\* A finally callback begins: one more request is borrowed.
LEMMA PushFinal ==
  ASSUME finals \in Seq(Requests), NEW r \in Requests, finals' = <<r>> \o finals
  PROVE  /\ finals' \in Seq(Requests)
         /\ finals' # <<>>
         /\ \A q : Borrowed(q)' <=> q = r \/ Borrowed(q)
         /\ ~Borrowed(r) /\ (\A i, j \in DOMAIN finals :
                                finals[i] = finals[j] => i = j)
              => \A i, j \in DOMAIN finals' : finals'[i] = finals'[j] => i = j
  <1>1. /\ Len(finals') = Len(finals) + 1 /\ Len(finals) \in Nat
        /\ finals' \in Seq(Requests)
        /\ DOMAIN finals = 1 .. Len(finals) /\ DOMAIN finals' = 1 .. Len(finals')
    BY ConcatProperties, LenProperties
  <1>2. finals'[1] = r
    BY <1>1, ConcatProperties
  <1>3. \A i \in 1 .. Len(finals) : finals'[i + 1] = finals[i]
    BY <1>1, ConcatProperties
  <1>4. \A i \in DOMAIN finals' :
          i = 1 \/ (i - 1 \in DOMAIN finals /\ finals'[i] = finals[i - 1])
    BY <1>1, <1>3
  <1>5. \A q : Borrowed(q)' <=> q = r \/ Borrowed(q)
    <2>1. ASSUME NEW q, Borrowed(q)'  PROVE q = r \/ Borrowed(q)
      BY <2>1, <1>2, <1>4 DEF Borrowed
    <2>2. ASSUME NEW q, q = r \/ Borrowed(q)  PROVE Borrowed(q)'
      <3>1. CASE q = r
        BY <3>1, <1>1, <1>2 DEF Borrowed
      <3>2. ASSUME NEW i \in DOMAIN finals, finals[i] = q  PROVE Borrowed(q)'
        <4>1. i + 1 \in DOMAIN finals' /\ finals'[i + 1] = q
          BY <3>2, <1>1, <1>3
        <4>2. QED  BY <4>1 DEF Borrowed
      <3>3. QED  BY <2>2, <3>1, <3>2 DEF Borrowed
    <2>3. QED  BY <2>1, <2>2
  <1>6. ASSUME ~Borrowed(r), \A i, j \in DOMAIN finals : finals[i] = finals[j] => i = j,
               NEW i \in DOMAIN finals', NEW j \in DOMAIN finals',
               finals'[i] = finals'[j]
        PROVE  i = j
    <2>1. CASE i = 1 /\ j # 1
      BY <2>1, <1>2, <1>4, <1>6 DEF Borrowed
    <2>2. CASE i # 1 /\ j = 1
      BY <2>2, <1>2, <1>4, <1>6 DEF Borrowed
    <2>3. CASE i # 1 /\ j # 1
      <3>1. finals[i - 1] = finals[j - 1]
        BY <2>3, <1>4, <1>6
      <3>2. i - 1 = j - 1
        BY <2>3, <3>1, <1>4, <1>6
      <3>3. QED  BY <3>2, <1>1
    <2>4. QED  BY <2>1, <2>2, <2>3
  <1>7. finals' # <<>>
    BY <1>1
  <1>8. QED  BY <1>1, <1>5, <1>6, <1>7

\* A finally callback returns: its request, and no other, is not borrowed any more.
LEMMA PopFinal ==
  ASSUME finals \in Seq(Requests), finals # <<>>, FinalsApart,
         finals' = Tail(finals)
  PROVE  /\ finals' \in Seq(Requests) /\ Head(finals) \in Requests
         /\ Borrowed(Head(finals))
         /\ \A q : Borrowed(q)' <=> q # Head(finals) /\ Borrowed(q)
         /\ \A i, j \in DOMAIN finals' : finals'[i] = finals'[j] => i = j
  <1>1. /\ Len(finals) \in Nat /\ Len(finals) > 0 /\ Head(finals) = finals[1]
        /\ finals' \in Seq(Requests) /\ Len(finals') = Len(finals) - 1
        /\ DOMAIN finals = 1 .. Len(finals) /\ DOMAIN finals' = 1 .. Len(finals')
        /\ Head(finals) \in Requests
    BY HeadTailProperties, LenProperties, EmptySeq
  <1>2. \A i \in DOMAIN finals' : /\ i + 1 \in DOMAIN finals
                                  /\ finals'[i] = finals[i + 1]
    BY <1>1, HeadTailProperties
  <1>3. 1 \in DOMAIN finals
    BY <1>1
  <1>4. \A q : Borrowed(q)' <=> q # Head(finals) /\ Borrowed(q)
    <2>1. ASSUME NEW q, Borrowed(q)'  PROVE q # Head(finals) /\ Borrowed(q)
      <3>1. PICK i \in DOMAIN finals' : finals'[i] = q
        BY <2>1 DEF Borrowed
      <3>2. i + 1 # 1 /\ i + 1 \in DOMAIN finals /\ finals[i + 1] = q
        BY <3>1, <1>1, <1>2
      <3>3. QED  BY <3>2, <1>1, <1>3 DEF Borrowed, FinalsApart
    <2>2. ASSUME NEW q, q # Head(finals), Borrowed(q)  PROVE Borrowed(q)'
      <3>1. PICK i \in DOMAIN finals : finals[i] = q
        BY <2>2 DEF Borrowed
      <3>2. i - 1 \in DOMAIN finals' /\ (i - 1) + 1 = i
        BY <2>2, <3>1, <1>1
      <3>3. finals'[i - 1] = q
        BY <3>1, <3>2, <1>2
      <3>4. QED  BY <3>2, <3>3 DEF Borrowed
    <2>3. QED  BY <2>1, <2>2
  <1>5. ASSUME NEW i \in DOMAIN finals', NEW j \in DOMAIN finals',
               finals'[i] = finals'[j]
        PROVE  i = j
    <2>1. i + 1 = j + 1
      BY <1>2, <1>5 DEF FinalsApart
    <2>2. QED  BY <2>1, <1>1
  <1>6. Borrowed(Head(finals))
    BY <1>1, <1>3 DEF Borrowed
  <1>7. QED  BY <1>1, <1>4, <1>5, <1>6
-----------------------------------------------------------------------------
\* The initial states.
LEMMA RustInitKeeps ==
  ASSUME RustAssumption, RustInit
  PROVE  RustIInv
  <1>1. RustTypeOK
    <2>1. finals \in Seq(Requests)
      BY EmptySeq DEF RustInit
    <2>2. QED
      BY <2>1 DEF RustAssumption, RustInit, RustTypeOK, NoCallback, Callbacks
  <1>2. KeptUntilFinally /\ WaiterHasEnd
    BY DEF RustInit, KeptUntilFinally, WaiterHasEnd
  <1>3. FinalsApart
    <2>1. DOMAIN finals = {}
      BY DEF RustInit
    <2>2. QED  BY <2>1 DEF FinalsApart
  <1>4. CallbackMatches
    BY DEF RustInit, CallbackMatches, NoCallback
  <1>5. QED  BY <1>1, <1>2, <1>3, <1>4 DEF RustIInv

\* A panic changes nothing the invariant speaks of.
LEMMA PanicKeeps ==
  ASSUME RustIInv, NEW who \in {"user", "library"}, Panic(who)
  PROVE  RustIInv'
  <1>1. UNCHANGED <<requestVars, dispatcherVars, rpcVars, stackVars>>
    BY DEF Panic
  <1>2. RustTypeOK'
    BY <1>1 DEF Panic, RustIInv, RustTypeOK, requestVars, dispatcherVars, rpcVars,
                stackVars
  <1>3. KeptUntilFinally' /\ WaiterHasEnd' /\ FinalsApart' /\ CallbackMatches'
    BY <1>1 DEF RustIInv, KeptUntilFinally, WaiterHasEnd, FinalsApart,
                CallbackMatches, Borrowed, requestVars, dispatcherVars, rpcVars,
                stackVars
  <1>4. QED  BY <1>2, <1>3 DEF RustIInv

\* What on_finish does to the callbacks that run, and to the request.
LEMMA FinishKeeps ==
  ASSUME RustIInv, NEW r \in Requests, ~Borrowed(r), NEW waits \in BOOLEAN,
         NEW source \in {"none", "package", "timer"}, NEW ends \in BOOLEAN,
         callback # NoCallback => source # "none",
         OnFinish(r, waits, source, ends)
  PROVE  /\ waitingRsp' = waitingRsp \ {r}
         /\ finals' \in Seq(Requests)
         /\ borrowed' \in {"none", "package", "timer"}
         /\ callback' = IF ends THEN NoCallback ELSE callback
         /\ \A q : Borrowed(q)' <=> (Borrowed(q) \/ (waits /\ q = r))
         /\ FinalsApart' /\ CallbackMatches'
  <1>1. /\ waitingRsp' = waitingRsp \ {r}
        /\ callback' = IF ends THEN NoCallback ELSE callback
        /\ finals \in Seq(Requests)
    BY DEF OnFinish, RustIInv, RustTypeOK
  <1>2. borrowed' \in {"none", "package", "timer"}
    BY DEF OnFinish
  <1>3. CallbackMatches'
    <2>1. callback' # NoCallback => borrowed' # "none"
      BY <1>1 DEF OnFinish
    <2>2. callback'.req # NoReq <=> callback'.kind \in {"rsp", "timeout"}
      BY <1>1 DEF RustIInv, CallbackMatches, NoCallback
    <2>3. QED  BY <2>1, <2>2 DEF CallbackMatches
  <1>4. CASE waits
    <2>1. finals' = <<r>> \o finals
      BY <1>4 DEF OnFinish
    <2>2. /\ finals' \in Seq(Requests)
          /\ \A q : Borrowed(q)' <=> q = r \/ Borrowed(q)
          /\ \A i, j \in DOMAIN finals' : finals'[i] = finals'[j] => i = j
      BY <1>1, <2>1, PushFinal DEF RustIInv, FinalsApart
    <2>3. ASSUME NEW i \in DOMAIN finals', NEW q, q = finals'[i]
          PROVE  q \notin waitingRsp'
      <3>1. Borrowed(q)'
        BY <2>3 DEF Borrowed
      <3>2. q = r \/ Borrowed(q)
        BY <3>1, <2>2
      <3>3. QED  BY <3>2, <1>1 DEF RustIInv, FinalsApart, Borrowed
    <2>4. FinalsApart'
      BY <2>2, <2>3 DEF FinalsApart
    <2>5. QED  BY <1>1, <1>2, <1>3, <1>4, <2>2, <2>4
  <1>5. CASE ~waits
    <2>1. finals' = finals
      BY <1>5 DEF OnFinish
    <2>2. FinalsApart'
      BY <2>1, <1>1 DEF RustIInv, FinalsApart
    <2>3. \A q : Borrowed(q)' <=> Borrowed(q)
      BY <2>1 DEF Borrowed
    <2>4. QED  BY <1>1, <1>2, <1>3, <1>5, <2>1, <2>2, <2>3
  <1>6. QED  BY <1>4, <1>5

\* The same, for a request that waits or not.
LEMMA FinishIfWaits ==
  ASSUME RustIInv, NEW r \in Requests, ~Borrowed(r),
         NEW source \in {"none", "package", "timer"}, NEW ends \in BOOLEAN,
         callback # NoCallback => source # "none",
         OnFinish(r, r \in waitingRsp, source, ends)
  PROVE  /\ waitingRsp' = waitingRsp \ {r}
         /\ finals' \in Seq(Requests)
         /\ borrowed' \in {"none", "package", "timer"}
         /\ callback' = IF ends THEN NoCallback ELSE callback
         /\ \A q : Borrowed(q)' <=> (Borrowed(q) \/ (r \in waitingRsp /\ q = r))
         /\ FinalsApart' /\ CallbackMatches'
  <1>1. CASE r \in waitingRsp
    <2>1. OnFinish(r, TRUE, source, ends)
      BY <1>1 DEF OnFinish
    <2>2. QED  BY <1>1, <2>1, FinishKeeps
  <1>2. CASE r \notin waitingRsp
    <2>1. OnFinish(r, FALSE, source, ends)
      BY <1>2 DEF OnFinish
    <2>2. QED  BY <1>2, <2>1, FinishKeeps
  <1>3. QED  BY <1>1, <1>2

\* When a request ends, the others wait as before: what the dispatcher ran, if it
\* is over, was for the request that ends.
LEMMA OthersHaveEnds ==
  ASSUME RustIInv, NEW r, waitingRsp' = waitingRsp \ {r},
         callback' = callback \/ callback.req \in {r, NoReq},
         NoReq \notin Requests,
         rpcAlive' => rpcAlive,
         \A s \in Seqs : \/ rspHandleMap[s] \in {r, NoReq}
                         \/ /\ rspHandleMap'[s] = rspHandleMap[s]
                            /\ s \in timers => s \in timers'
  PROVE  WaiterHasEnd'
  <1> SUFFICES ASSUME rpcAlive', NEW q \in waitingRsp'
               PROVE  \/ callback'.req = q
                      \/ \E s \in Seqs : /\ rspHandleMap'[s] = q
                                         /\ TimerSet => s \in timers'
    BY DEF WaiterHasEnd
  <1>1. q \in waitingRsp /\ q # r /\ q # NoReq
    BY DEF RustIInv, RustTypeOK
  <1>2. CASE callback.req = q
    BY <1>1, <1>2
  <1>3. ASSUME NEW s \in Seqs, rspHandleMap[s] = q, TimerSet => s \in timers
        PROVE  \E t \in Seqs : rspHandleMap'[t] = q /\ (TimerSet => t \in timers')
    BY <1>1, <1>3
  <1>4. QED  BY <1>1, <1>2, <1>3 DEF RustIInv, WaiterHasEnd

\* Request::call, by the user or for a retry.
LEMMA CallKeeps ==
  ASSUME RustAssumption, RustIInv, NEW r \in Requests,
         NEW who \in {"user", "library"}, NEW ends \in BOOLEAN,
         ends => callback.req = r, CallBody(r, who, ends),
         retryCount' \in [Requests -> Nat \cup {-1}]
  PROVE  RustIInv'
  <1>1. CASE Panic(who)
    BY <1>1, PanicKeeps
  <1>2. ASSUME ~CallPanics(r),
               UNCHANGED <<canceled, needRsp, subscribed, rpcVars, panicked>>,
               selfKeeper' = IF r \in canceled THEN selfKeeper
                             ELSE selfKeeper \cup {r},
               OnFinish(r, TRUE, borrowed, ends),
               UNCHANGED <<rspHandleMap, timers>>
        PROVE  RustIInv'
    <2>1. /\ callback # NoCallback => borrowed # "none"
          /\ borrowed \in {"none", "package", "timer"}
          /\ ~Borrowed(r)
      BY <1>2 DEF RustIInv, CallbackMatches, RustTypeOK, CallPanics
    <2>2. /\ waitingRsp' = waitingRsp \ {r}
          /\ finals' \in Seq(Requests)
          /\ borrowed' \in {"none", "package", "timer"}
          /\ callback' = IF ends THEN NoCallback ELSE callback
          /\ \A q : Borrowed(q)' <=> (Borrowed(q) \/ q = r)
          /\ FinalsApart' /\ CallbackMatches'
      BY <1>2, <2>1, FinishKeeps
    <2>3. RustTypeOK'
      BY <1>2, <2>2 DEF RustIInv, RustTypeOK, rpcVars, NoCallback, Callbacks
    <2>4. KeptUntilFinally'
      BY <1>2, <2>2 DEF RustIInv, KeptUntilFinally
    <2>5. WaiterHasEnd'
      <3>1. callback' = callback \/ callback.req \in {r, NoReq}
        BY <2>2
      <3>2. QED
        BY <1>2, <2>2, <3>1, OthersHaveEnds DEF RustAssumption, rpcVars
    <2>6. QED  BY <2>2, <2>3, <2>4, <2>5 DEF RustIInv
  <1>3. ASSUME ~CallPanics(r),
               UNCHANGED <<canceled, needRsp, subscribed, rpcVars, panicked>>,
               waitingRsp' = waitingRsp \cup {r},
               selfKeeper' = selfKeeper \cup {r},
               NEW s \in FreshSeqs, SubscribeRsp(r, s),
               UNCHANGED stackVars
        PROVE  RustIInv'
    <2>1. /\ s \in Seqs /\ rspHandleMap[s] = NoReq
          /\ rspHandleMap' = [rspHandleMap EXCEPT ![s] = r]
          /\ rspHandleMap \in [Seqs -> Requests \cup {NoReq}]
          /\ timers' = IF TimerSet THEN timers \cup {s} ELSE timers
          /\ \A q : Borrowed(q)' <=> Borrowed(q)
          /\ ~Borrowed(r)
      BY <1>3 DEF FreshSeqs, SubscribeRsp, stackVars, Borrowed, RustIInv, RustTypeOK,
                  CallPanics
    <2>2. RustTypeOK'
      BY <1>3, <2>1 DEF RustIInv, RustTypeOK, rpcVars, stackVars
    <2>3. KeptUntilFinally'
      BY <1>3, <2>1 DEF RustIInv, KeptUntilFinally
    <2>4. FinalsApart' /\ CallbackMatches'
      <3>1. \A i \in DOMAIN finals : finals[i] # r
        BY <2>1 DEF Borrowed
      <3>2. QED
        BY <1>3, <3>1 DEF RustIInv, FinalsApart, CallbackMatches, stackVars
    <2>5. WaiterHasEnd'
      <3> SUFFICES ASSUME rpcAlive', NEW q \in waitingRsp'
                   PROVE  \/ callback'.req = q
                          \/ \E t \in Seqs : /\ rspHandleMap'[t] = q
                                             /\ TimerSet => t \in timers'
        BY DEF WaiterHasEnd
      <3>1. CASE q = r
        BY <3>1, <2>1
      <3>2. CASE q # r /\ callback.req = q
        BY <3>2, <1>3 DEF stackVars
      <3>3. ASSUME q # r, q # NoReq, NEW t \in Seqs, rspHandleMap[t] = q,
                   TimerSet => t \in timers
            PROVE  \E u \in Seqs : /\ rspHandleMap'[u] = q
                                   /\ TimerSet => u \in timers'
        BY <3>3, <2>1
      <3>4. q # NoReq
        BY <2>2 DEF RustAssumption, RustTypeOK
      <3>5. q # r => q \in waitingRsp /\ rpcAlive
        BY <1>3 DEF rpcVars
      <3>6. QED  BY <3>1, <3>2, <3>3, <3>4, <3>5 DEF RustIInv, WaiterHasEnd
    <2>6. QED  BY <2>2, <2>3, <2>4, <2>5 DEF RustIInv
  <1>4. QED  BY <1>1, <1>2, <1>3 DEF CallBody

\* cancel()
LEMMA RustCancelKeeps ==
  ASSUME RustAssumption, RustIInv, NEW r \in Requests, Cancel(r)
  PROVE  RustIInv'
  <1>1. CASE Panic("user")
    BY <1>1, PanicKeeps
  <1>2. ASSUME ~Borrowed(r), canceled' = canceled \cup {r},
               OnFinish(r, r \in waitingRsp, borrowed, FALSE),
               UNCHANGED <<needRsp, selfKeeper, retryCount, dispatcherVars,
                           rpcVars, panicked>>
        PROVE  RustIInv'
    <2>1. /\ callback # NoCallback => borrowed # "none"
          /\ borrowed \in {"none", "package", "timer"}
      BY DEF RustIInv, CallbackMatches, RustTypeOK
    <2>2. /\ waitingRsp' = waitingRsp \ {r}
          /\ finals' \in Seq(Requests)
          /\ borrowed' \in {"none", "package", "timer"}
          /\ callback' = callback
          /\ \A q : Borrowed(q)' <=> (Borrowed(q) \/ (r \in waitingRsp /\ q = r))
          /\ FinalsApart' /\ CallbackMatches'
      BY <1>2, <2>1, FinishIfWaits
    <2>3. RustTypeOK'
      BY <1>2, <2>2 DEF RustIInv, RustTypeOK, rpcVars, dispatcherVars
    <2>4. KeptUntilFinally'
      BY <1>2, <2>2 DEF RustIInv, KeptUntilFinally
    <2>5. WaiterHasEnd'
      BY <1>2, <2>2, OthersHaveEnds
         DEF RustAssumption, rpcVars, dispatcherVars
    <2>6. QED  BY <2>2, <2>3, <2>4, <2>5 DEF RustIInv
  <1>3. QED  BY <1>1, <1>2 DEF Cancel

\* The steps of the user that change neither what waits nor what runs.
LEMMA SettingKeeps ==
  ASSUME RustIInv,
         UNCHANGED <<waitingRsp, selfKeeper, retryCount, rspHandleMap, timers,
                     stackVars>>,
         canceled' \subseteq Requests, needRsp' \subseteq Requests,
         subscribed' \in BOOLEAN, isReady' \in BOOLEAN, rpcAlive' = rpcAlive,
         held' \subseteq Requests, panicked' = panicked
  PROVE  RustIInv'
  <1>1. RustTypeOK'
    BY DEF RustIInv, RustTypeOK, stackVars
  <1>2. KeptUntilFinally' /\ WaiterHasEnd' /\ FinalsApart' /\ CallbackMatches'
    BY DEF RustIInv, KeptUntilFinally, WaiterHasEnd, FinalsApart, CallbackMatches,
           Borrowed, stackVars
  <1>3. QED  BY <1>1, <1>2 DEF RustIInv

LEMMA UserKeeps ==
  ASSUME RustAssumption, RustIInv,
         \/ \E r \in Requests : Configure(r) \/ Drop(r)
         \/ \E on \in BOOLEAN : Subscribe(on) \/ SetReady(on)
         \/ Expire
  PROVE  RustIInv'
  <1>1. ASSUME NEW r \in Requests, Configure(r)  PROVE RustIInv'
    <2>1. CASE Panic("user")
      BY <2>1, PanicKeeps
    <2>2. CASE ~Panic("user")
      <3>1. /\ UNCHANGED <<waitingRsp, selfKeeper, retryCount, dispatcherVars,
                           rpcVars, stackVars, panicked>>
            /\ canceled' \subseteq Requests /\ needRsp' \subseteq Requests
        BY <1>1, <2>2 DEF Configure, RustIInv, RustTypeOK
      <3>2. QED
        BY <3>1, SettingKeeps DEF RustIInv, RustTypeOK, dispatcherVars, rpcVars
    <2>3. QED  BY <2>1, <2>2
  <1>2. ASSUME NEW r \in Requests, Drop(r)  PROVE RustIInv'
    BY <1>2, SettingKeeps
       DEF Drop, RustIInv, RustTypeOK, requestVars, dispatcherVars
  <1>3. ASSUME NEW on \in BOOLEAN, Subscribe(on)  PROVE RustIInv'
    <2>1. CASE Panic("user")
      BY <2>1, PanicKeeps
    <2>2. CASE ~Panic("user")
      BY <1>3, <2>2, SettingKeeps
         DEF Subscribe, RustIInv, RustTypeOK, requestVars, rpcVars
    <2>3. QED  BY <2>1, <2>2
  <1>4. ASSUME NEW on \in BOOLEAN, SetReady(on)  PROVE RustIInv'
    BY <1>4, SettingKeeps
       DEF SetReady, RustIInv, RustTypeOK, requestVars, dispatcherVars
  <1>5. CASE Expire
    <2>1. RustTypeOK'
      BY <1>5 DEF Expire, RustIInv, RustTypeOK, requestVars, stackVars
    <2>2. KeptUntilFinally' /\ WaiterHasEnd' /\ FinalsApart' /\ CallbackMatches'
      BY <1>5 DEF Expire, RustIInv, KeptUntilFinally, WaiterHasEnd, FinalsApart,
                  CallbackMatches, Borrowed, requestVars, stackVars
    <2>3. QED  BY <2>1, <2>2 DEF RustIInv
  <1>6. QED  BY <1>1, <1>2, <1>3, <1>4, <1>5
-----------------------------------------------------------------------------
\* A command arrives.
LEMMA RecvCmdKeeps ==
  ASSUME RustAssumption, RustIInv, NEW need \in BOOLEAN, RecvCmd(need)
  PROVE  RustIInv'
  <1>1. CASE Panic("library")
    BY <1>1, PanicKeeps
  <1>2. CASE ~Panic("library")
    <2>1. /\ callback' \in [kind : {"cmd", "cmd_need_rsp"}, req : {NoReq}]
          /\ borrowed' = "package" /\ finals' = finals /\ panicked' = panicked
          /\ UNCHANGED <<requestVars, dispatcherVars, rpcVars>>
      BY <1>2 DEF RecvCmd, Run, requestVars
    <2>2. callback.req = NoReq
      BY <1>2 DEF RecvCmd, Idle, NoCallback
    <2>3. RustTypeOK'
      BY <2>1 DEF RustIInv, RustTypeOK, requestVars, dispatcherVars, rpcVars, Callbacks
    <2>4. KeptUntilFinally' /\ FinalsApart' /\ CallbackMatches'
      BY <2>1 DEF RustIInv, KeptUntilFinally, FinalsApart, CallbackMatches, Borrowed,
                  requestVars
    <2>5. WaiterHasEnd'
      BY <2>1, <2>2 DEF RustAssumption, RustIInv, RustTypeOK, WaiterHasEnd,
                        requestVars, dispatcherVars, rpcVars
    <2>6. QED  BY <2>3, <2>4, <2>5 DEF RustIInv
  <1>3. QED  BY <1>1, <1>2

\* An answer or a timer takes its entry.
LEMMA TakeEntryKeeps ==
  ASSUME RustAssumption, RustIInv, Idle, NEW s \in Seqs,
         NEW kind \in {"rsp", "timeout"}, NEW source \in {"package", "timer"},
         NEW finished \in BOOLEAN, TakeEntry(s, kind, source, finished),
         timers' = timers \/ timers' = timers \ {s}
  PROVE  RustIInv'
  <1> DEFINE r == rspHandleMap[s]
  <1>1. /\ r \in Requests \cup {NoReq}
        /\ rspHandleMap' = [rspHandleMap EXCEPT ![s] = NoReq]
        /\ rspHandleMap' \in [Seqs -> Requests \cup {NoReq}]
        /\ \A t \in Seqs \ {s} : rspHandleMap'[t] = rspHandleMap[t]
        /\ UNCHANGED <<canceled, needRsp, selfKeeper, retryCount, subscribed,
                       rpcVars, panicked>>
        /\ callback = NoCallback /\ finals = <<>> /\ callback.req = NoReq
        /\ timers' \subseteq Seqs
        /\ \A t \in Seqs \ {s} : t \in timers => t \in timers'
    BY DEF TakeEntry, RustIInv, RustTypeOK, Idle, NoCallback
  <1>2. \A q : ~Borrowed(q)
    BY <1>1 DEF Borrowed
  <1> HIDE DEF r
  <1>3. ASSUME r = NoReq \/ ~Alive(r), UNCHANGED <<waitingRsp, stackVars>>
        PROVE  RustIInv'
    <2>1. r \notin waitingRsp
      BY <1>3 DEF RustAssumption, RustIInv, RustTypeOK, KeptUntilFinally, Alive
    <2>2. RustTypeOK'
      BY <1>1, <1>3 DEF RustIInv, RustTypeOK, rpcVars, stackVars
    <2>3. KeptUntilFinally' /\ FinalsApart' /\ CallbackMatches'
      BY <1>1, <1>3 DEF RustIInv, KeptUntilFinally, FinalsApart, CallbackMatches,
                        Borrowed, stackVars
    <2>4. WaiterHasEnd'
      <3>1. waitingRsp' = waitingRsp \ {r} /\ callback' = callback
        BY <1>3, <2>1 DEF stackVars
      <3>2. \A t \in Seqs : \/ rspHandleMap[t] \in {r, NoReq}
                            \/ /\ rspHandleMap'[t] = rspHandleMap[t]
                               /\ t \in timers => t \in timers'
        BY <1>1 DEF r
      <3>3. QED  BY <1>1, <3>1, <3>2, OthersHaveEnds DEF RustAssumption, rpcVars
    <2>5. QED  BY <2>2, <2>3, <2>4 DEF RustIInv
  <1>4. ASSUME r # NoReq, OnFinish(r, r \in waitingRsp, source, FALSE)
        PROVE  RustIInv'
    <2>1. /\ waitingRsp' = waitingRsp \ {r}
          /\ finals' \in Seq(Requests)
          /\ borrowed' \in {"none", "package", "timer"}
          /\ callback' = callback
          /\ \A q : Borrowed(q)' <=> (Borrowed(q) \/ (r \in waitingRsp /\ q = r))
          /\ FinalsApart' /\ CallbackMatches'
      <3>1. r \in Requests /\ ~Borrowed(r)
        BY <1>1, <1>2, <1>4
      <3>2. source \in {"none", "package", "timer"} /\ FALSE \in BOOLEAN
        OBVIOUS
      <3>3. QED  BY <1>1, <1>4, <3>1, <3>2, FinishIfWaits
    <2>2. RustTypeOK'
      BY <1>1, <2>1 DEF RustIInv, RustTypeOK, rpcVars
    <2>3. KeptUntilFinally'
      BY <1>1, <2>1 DEF RustIInv, KeptUntilFinally
    <2>4. WaiterHasEnd'
      <3>1. \A t \in Seqs : \/ rspHandleMap[t] \in {r, NoReq}
                            \/ /\ rspHandleMap'[t] = rspHandleMap[t]
                               /\ t \in timers => t \in timers'
        BY <1>1 DEF r
      <3>2. QED  BY <1>1, <2>1, <3>1, OthersHaveEnds DEF RustAssumption, rpcVars
    <2>5. QED  BY <2>1, <2>2, <2>3, <2>4 DEF RustIInv
  <1>5. ASSUME r # NoReq, Run(kind, r, source)
        PROVE  RustIInv'
    <2>1. /\ callback' = [kind |-> kind, req |-> r] /\ borrowed' = source
          /\ waitingRsp' = waitingRsp /\ finals' = finals /\ r \in Requests
      BY <1>1, <1>5 DEF Run
    <2>2. RustTypeOK'
      BY <1>1, <2>1 DEF RustIInv, RustTypeOK, rpcVars, Callbacks
    <2>3. KeptUntilFinally' /\ FinalsApart' /\ CallbackMatches'
      BY <1>1, <1>5, <2>1 DEF RustIInv, KeptUntilFinally, FinalsApart,
                              CallbackMatches, Borrowed
    <2>4. WaiterHasEnd'
      <3> SUFFICES ASSUME rpcAlive', NEW q \in waitingRsp', q # r
                   PROVE  \E t \in Seqs : /\ rspHandleMap'[t] = q
                                          /\ TimerSet => t \in timers'
        BY <2>1 DEF WaiterHasEnd
      <3>1. q # NoReq /\ q \in waitingRsp /\ rpcAlive
        BY <1>1, <2>1 DEF RustAssumption, RustIInv, RustTypeOK, rpcVars
      <3>2. PICK t \in Seqs : rspHandleMap[t] = q /\ (TimerSet => t \in timers)
        BY <1>1, <3>1 DEF RustIInv, WaiterHasEnd
      <3>3. t # s
        BY <3>2 DEF r
      <3>4. QED  BY <1>1, <3>2, <3>3
    <2>5. QED  BY <2>2, <2>3, <2>4 DEF RustIInv
  <1>6. QED  BY <1>3, <1>4, <1>5 DEF TakeEntry, r

\* A finally callback returns.
LEMMA ReturnFinallyKeeps ==
  ASSUME RustAssumption, RustIInv, ReturnFinally
  PROVE  RustIInv'
  <1>1. /\ finals \in Seq(Requests) /\ finals # <<>> /\ finals' = Tail(finals)
        /\ selfKeeper' = selfKeeper \ {Head(finals)}
        /\ UNCHANGED <<waitingRsp, canceled, needRsp, retryCount, dispatcherVars,
                       rpcVars, callback, panicked>>
    BY DEF ReturnFinally, RustIInv, RustTypeOK
  <1>2. /\ finals' \in Seq(Requests)
        /\ Borrowed(Head(finals))
        /\ \A q : Borrowed(q)' <=> q # Head(finals) /\ Borrowed(q)
        /\ \A i, j \in DOMAIN finals' : finals'[i] = finals'[j] => i = j
    BY <1>1, PopFinal DEF RustIInv
  <1>3. RustTypeOK'
    BY <1>1, <1>2 DEF ReturnFinally, RustIInv, RustTypeOK, dispatcherVars, rpcVars
  <1>4. KeptUntilFinally'
    <2>1. Head(finals) \notin waitingRsp
      BY <1>2 DEF RustIInv, FinalsApart, Borrowed
    <2>2. QED  BY <1>1, <1>2, <2>1 DEF RustIInv, KeptUntilFinally
  <1>5. FinalsApart'
    <2>1. ASSUME NEW i \in DOMAIN finals', NEW q, q = finals'[i]
          PROVE  q \notin waitingRsp'
      <3>1. Borrowed(q)'
        BY <2>1 DEF Borrowed
      <3>2. Borrowed(q)
        BY <3>1, <1>2
      <3>3. QED  BY <3>2, <1>1 DEF RustIInv, FinalsApart, Borrowed
    <2>2. QED  BY <1>2, <2>1 DEF FinalsApart
  <1>6. CallbackMatches'
    BY <1>1 DEF ReturnFinally, RustIInv, CallbackMatches
  <1>7. WaiterHasEnd'
    BY <1>1 DEF RustIInv, WaiterHasEnd, dispatcherVars, rpcVars
  <1>8. QED  BY <1>3, <1>4, <1>5, <1>6, <1>7 DEF RustIInv

\* A command handler returns.
LEMMA ReturnCmdKeeps ==
  ASSUME RustAssumption, RustIInv, ReturnCmd
  PROVE  RustIInv'
  <1>1. CASE Panic("library")
    BY <1>1, PanicKeeps
  <1>2. CASE ~Panic("library")
    <2>1. /\ callback' = NoCallback /\ borrowed' = "none"
          /\ UNCHANGED <<requestVars, dispatcherVars, rpcVars, finals, panicked>>
          /\ callback.kind \in {"cmd", "cmd_need_rsp"}
      BY <1>2 DEF ReturnCmd
    <2>2. callback.req = NoReq
      BY <2>1 DEF RustIInv, CallbackMatches
    <2>3. RustTypeOK'
      BY <2>1 DEF RustIInv, RustTypeOK, NoCallback, Callbacks, requestVars,
                  dispatcherVars, rpcVars
    <2>4. KeptUntilFinally' /\ FinalsApart' /\ CallbackMatches'
      BY <2>1 DEF RustIInv, KeptUntilFinally, FinalsApart, CallbackMatches, Borrowed,
                  NoCallback, requestVars
    <2>5. WaiterHasEnd'
      BY <2>1, <2>2 DEF RustAssumption, RustIInv, RustTypeOK, WaiterHasEnd,
                        NoCallback, requestVars, dispatcherVars, rpcVars
    <2>6. QED  BY <2>3, <2>4, <2>5 DEF RustIInv
  <1>3. QED  BY <1>1, <1>2

\* A response callback returns, or a timeout callback with no retry left.
LEMMA ReturnLastKeeps ==
  ASSUME RustAssumption, RustIInv, NEW r \in Requests, callback.req = r,
         finals = <<>>, ReturnLast(r)
  PROVE  RustIInv'
  <1>1. /\ ~Borrowed(r)
        /\ OnFinish(r, r \in waitingRsp, borrowed, TRUE)
        /\ UNCHANGED <<canceled, needRsp, selfKeeper, retryCount, dispatcherVars,
                       rpcVars, panicked>>
    <2>1. ~Borrowed(r)
      BY DEF Borrowed
    <2>2. QED  BY <2>1 DEF ReturnLast
  <1>2. /\ callback # NoCallback => borrowed # "none"
        /\ borrowed \in {"none", "package", "timer"}
    BY DEF RustIInv, CallbackMatches, RustTypeOK
  <1>3. /\ waitingRsp' = waitingRsp \ {r}
        /\ finals' \in Seq(Requests)
        /\ borrowed' \in {"none", "package", "timer"}
        /\ callback' = NoCallback
        /\ \A q : Borrowed(q)' <=> (Borrowed(q) \/ (r \in waitingRsp /\ q = r))
        /\ FinalsApart' /\ CallbackMatches'
    BY <1>1, <1>2, FinishIfWaits
  <1>4. RustTypeOK'
    BY <1>1, <1>3 DEF RustIInv, RustTypeOK, NoCallback, Callbacks, rpcVars,
                      dispatcherVars
  <1>5. KeptUntilFinally'
    BY <1>1, <1>3 DEF RustIInv, KeptUntilFinally
  <1>6. WaiterHasEnd'
    BY <1>1, <1>3, OthersHaveEnds DEF RustAssumption, rpcVars, dispatcherVars
  <1>7. QED  BY <1>3, <1>4, <1>5, <1>6 DEF RustIInv

\* An answer or a timeout has been given to the user.
LEMMA ReturnAnsweredKeeps ==
  ASSUME RustAssumption, RustIInv, ReturnAnswered
  PROVE  RustIInv'
  <1> DEFINE r == callback.req
  <1>1. r \in Requests
    BY DEF ReturnAnswered, RustIInv, RustTypeOK, CallbackMatches
  <1>2. CASE ReturnLast(r)
    BY <1>1, <1>2, ReturnLastKeeps DEF ReturnAnswered
  <1>3. CASE ReturnRetry(r)
    <2>1. retryCount' \in [Requests -> Nat \cup {-1}]
      BY <1>1, <1>3 DEF ReturnRetry, CountLeft, RustIInv, RustTypeOK
    <2>2. QED  BY <1>1, <1>3, <2>1, CallKeeps DEF ReturnRetry
  <1>4. QED  BY <1>2, <1>3 DEF ReturnAnswered
-----------------------------------------------------------------------------
\* Every step keeps the invariant.
LEMMA RustStepKeeps ==
  ASSUME RustAssumption, RustIInv, [RustNext]_rustVars
  PROVE  RustIInv'
  <1>1. ASSUME NEW r \in Requests, Call(r)  PROVE RustIInv'
    BY <1>1, CallKeeps DEF Call, RustIInv, RustTypeOK
  <1>2. ASSUME NEW r \in Requests, Cancel(r)  PROVE RustIInv'
    BY <1>2, RustCancelKeeps
  <1>3. ASSUME \/ \E r \in Requests : Configure(r) \/ Drop(r)
               \/ \E on \in BOOLEAN : Subscribe(on) \/ SetReady(on)
               \/ Expire
        PROVE  RustIInv'
    BY <1>3, UserKeeps
  <1>4. ASSUME NEW need \in BOOLEAN, RecvCmd(need)  PROVE RustIInv'
    BY <1>4, RecvCmdKeeps
  <1>5. ASSUME NEW s \in Seqs, NEW readable \in BOOLEAN, RecvRsp(s, readable)
        PROVE  RustIInv'
    <2>1. (rspHandleMap[s] \in canceled \/ ~readable) \in BOOLEAN
      OBVIOUS
    <2>2. QED  BY <1>5, <2>1, TakeEntryKeeps DEF RecvRsp
  <1>6. ASSUME NEW s \in Seqs, TimerFire(s)  PROVE RustIInv'
    BY <1>6, TakeEntryKeeps DEF TimerFire
  <1>7. CASE ReturnFinally
    BY <1>7, ReturnFinallyKeeps
  <1>8. CASE ReturnCmd
    BY <1>8, ReturnCmdKeeps
  <1>9. CASE ReturnAnswered
    BY <1>9, ReturnAnsweredKeeps
  <1>10. CASE UNCHANGED rustVars
    <2>1. UNCHANGED <<requestVars, dispatcherVars, rpcVars, stackVars, panicked>>
      BY <1>10 DEF rustVars
    <2>2. RustTypeOK'
      BY <2>1 DEF RustIInv, RustTypeOK, requestVars, dispatcherVars, rpcVars, stackVars
    <2>3. KeptUntilFinally' /\ WaiterHasEnd' /\ FinalsApart' /\ CallbackMatches'
      BY <2>1 DEF RustIInv, KeptUntilFinally, WaiterHasEnd, FinalsApart,
                  CallbackMatches, Borrowed, requestVars, dispatcherVars, rpcVars,
                  stackVars
    <2>4. QED  BY <2>2, <2>3 DEF RustIInv
  <1>11. QED
    BY <1>1, <1>2, <1>3, <1>4, <1>5, <1>6, <1>7, <1>8, <1>9, <1>10 DEF RustNext

\* The inductive invariant holds in every state.
THEOREM RustInductive ==
  ASSUME RustAssumption
  PROVE  RustSpec => []RustIInv
  <1>1. RustInit => RustIInv
    BY RustInitKeeps
  <1>2. RustIInv /\ [RustNext]_rustVars => RustIInv'
    BY RustStepKeeps
  <1>3. QED  BY <1>1, <1>2, PTL DEF RustSpec

\* Every variable keeps its type.
THEOREM RustTypeCorrect ==
  ASSUME RustAssumption
  PROVE  RustSpec => []RustTypeOK
  <1>1. RustIInv => RustTypeOK
    BY DEF RustIInv
  <1>2. QED  BY <1>1, RustInductive, PTL

\* A request of the Rust library keeps itself alive while it waits, and then until
\* its finally callback has returned, however many callbacks run inside each other.
THEOREM RustKept ==
  ASSUME RustAssumption
  PROVE  RustSpec => []KeptUntilFinally
  <1>1. RustIInv => KeptUntilFinally
    BY DEF RustIInv
  <1>2. QED  BY <1>1, RustInductive, PTL

\* While the rpc lives, each request that waits has an entry in the dispatcher, with
\* a timer if there are any, or the callback that runs ends it.
THEOREM RustWaiters ==
  ASSUME RustAssumption
  PROVE  RustSpec => []WaiterHasEnd
  <1>1. RustIInv => WaiterHasEnd
    BY DEF RustIInv
  <1>2. QED  BY <1>1, RustInductive, PTL
-----------------------------------------------------------------------------
\* A step of the library that panics retries a call, or sends through a connection
\* that is borrowed.
LEMMA LibraryStepSafe ==
  ASSUME RustAssumption, RustIInv, LibraryNeverPanics, ~ConnBorrowed,
         retryCount = [r \in Requests |-> 0], [RustNext]_rustVars
  PROVE  LibraryNeverPanics' /\ retryCount' = retryCount
  <1>1. ASSUME NEW r \in Requests, Call(r)
        PROVE  LibraryNeverPanics' /\ retryCount' = retryCount
    BY <1>1 DEF Call, CallBody, Panic, LibraryNeverPanics
  <1>2. ASSUME NEW r \in Requests, Cancel(r)
        PROVE  LibraryNeverPanics' /\ retryCount' = retryCount
    BY <1>2 DEF Cancel, Panic, LibraryNeverPanics, requestVars
  <1>3. ASSUME NEW r \in Requests, Configure(r) \/ Drop(r)
        PROVE  LibraryNeverPanics' /\ retryCount' = retryCount
    BY <1>3 DEF Configure, Drop, Panic, LibraryNeverPanics, requestVars
  <1>4. ASSUME NEW on \in BOOLEAN, Subscribe(on) \/ SetReady(on)
        PROVE  LibraryNeverPanics' /\ retryCount' = retryCount
    BY <1>4 DEF Subscribe, SetReady, Panic, LibraryNeverPanics, requestVars
  <1>5. CASE Expire
    BY <1>5 DEF Expire, LibraryNeverPanics, requestVars
  <1>6. ASSUME NEW need \in BOOLEAN, RecvCmd(need)
        PROVE  LibraryNeverPanics' /\ retryCount' = retryCount
    BY <1>6 DEF RecvCmd, LibraryNeverPanics
  <1>7. ASSUME NEW s \in Seqs, NEW readable \in BOOLEAN, RecvRsp(s, readable)
        PROVE  LibraryNeverPanics' /\ retryCount' = retryCount
    BY <1>7 DEF RecvRsp, TakeEntry, LibraryNeverPanics
  <1>8. ASSUME NEW s \in Seqs, TimerFire(s)
        PROVE  LibraryNeverPanics' /\ retryCount' = retryCount
    BY <1>8 DEF TimerFire, TakeEntry, LibraryNeverPanics
  <1>9. CASE ReturnFinally
    BY <1>9 DEF ReturnFinally, LibraryNeverPanics
  <1>10. CASE ReturnCmd
    BY <1>10 DEF ReturnCmd, ConnBusy, LibraryNeverPanics, requestVars
  <1>11. CASE ReturnAnswered
    <2>1. callback.req \in Requests /\ finals = <<>>
      BY <1>11 DEF ReturnAnswered, RustIInv, RustTypeOK, CallbackMatches
    <2>2. retryCount[callback.req] = 0
      BY <2>1
    <2>3. ReturnLast(callback.req)
      BY <1>11, <2>2 DEF ReturnAnswered
    <2>4. QED  BY <2>3 DEF ReturnLast, LibraryNeverPanics
  <1>12. CASE UNCHANGED rustVars
    BY <1>12 DEF rustVars, requestVars, LibraryNeverPanics
  <1>13. QED
    BY <1>1, <1>2, <1>3, <1>4, <1>5, <1>6, <1>7, <1>8, <1>9, <1>10, <1>11, <1>12
       DEF RustNext

\* The library panics nowhere of itself if no request was given a retry and no
\* package is dispatched inside a mutable borrow of the connection: those are the
\* two ways, whatever the user's callbacks do.
THEOREM NeverPanics ==
  ASSUME RustAssumption, Retry0 = [r \in Requests |-> 0], ~ConnBorrowed
  PROVE  RustSpec => []LibraryNeverPanics
  <1> DEFINE Counts == retryCount = [r \in Requests |-> 0]
  <1>1. RustInit => LibraryNeverPanics /\ Counts
    BY DEF RustInit, LibraryNeverPanics
  <1>2. RustIInv /\ LibraryNeverPanics /\ Counts /\ [RustNext]_rustVars
          => LibraryNeverPanics' /\ Counts'
    BY LibraryStepSafe
  <1> HIDE DEF Counts
  <1>3. QED  BY <1>1, <1>2, RustInductive, PTL DEF RustSpec
=============================================================================
