-------------------------- MODULE ServeSideProofs --------------------------
(***************************************************************************)
(* Proofs about ServeSide, for any commands and numbers: whenever and      *)
(* however often the user responds, a package is answered at most once,    *)
(* when it should be, and never unasked.                                   *)
(***************************************************************************)
EXTENDS ServeSide, TLAPS

-----------------------------------------------------------------------------
\* Nothing is running, held or answered at the start.
THEOREM ServeInitInv == ServeInit => ServeIInv
<1> SUFFICES ASSUME ServeInit PROVE ServeIInv
  OBVIOUS
<1>1. ServeTypeOK
  BY DEF ServeInit, ServeTypeOK, HandlerKinds
<1>2. OneAnswer /\ AnsweredWhenReady /\ NoAnswerUnasked
  BY DEF ServeInit, OneAnswer, AnsweredWhenReady, NoAnswerUnasked
<1>3. RunningUnanswered /\ HookedWait
  BY DEF ServeInit, RunningUnanswered, HookedWait
<1> QED BY <1>1, <1>2, <1>3 DEF ServeIInv

LEMMA SubscribeInv ==
  ASSUME ServeIInv, NEW c \in Cmds, NEW kind \in HandlerKinds, Subscribe(c, kind)
  PROVE  ServeIInv'
<1>1. /\ c # runCmd /\ cmdHandleMap' = [cmdHandleMap EXCEPT ![c] = kind]
      /\ UNCHANGED <<running, runCmd, asked, holds, rspReady, rspSet, isReadySet,
                     hooked, connAlive, replies, answers>>
  BY DEF Subscribe
<1>2. ServeTypeOK'
  BY <1>1 DEF ServeIInv, ServeTypeOK
<1>3. OneAnswer' /\ AnsweredWhenReady' /\ NoAnswerUnasked' /\ HookedWait'
  BY <1>1 DEF ServeIInv, OneAnswer, AnsweredWhenReady, NoAnswerUnasked,
              HookedWait
<1>4. RunningUnanswered'
  <2>1. running # NoSeq => runCmd \in Cmds /\ cmdHandleMap'[runCmd] = cmdHandleMap[runCmd]
    BY <1>1 DEF ServeIInv, ServeTypeOK
  <2> QED BY <1>1, <2>1 DEF ServeIInv, RunningUnanswered
<1> QED BY <1>2, <1>3, <1>4 DEF ServeIInv

\* A package answered or dropped without a handler.
LEMMA NoHandlerInv ==
  ASSUME ServeIInv, NEW p \in Packages, running = NoSeq,
         Refuse(p) \/ Discard(p)
  PROVE  ServeIInv'
<1> DEFINE s == p.seq
<1>1. /\ s \in Seqs
      /\ asked' = asked \ {s} /\ rspReady' = rspReady \ {s}
      /\ isReadySet' = isReadySet \ {s} /\ hooked' = hooked \ {s}
      /\ rspSet' = rspSet \ {s}
      /\ UNCHANGED <<cmdHandleMap, running, runCmd, holds, connAlive>>
  BY DEF Refuse, Discard, Forget, Packages
<1>2. PICK n \in {0, 1} : answers' = [answers EXCEPT ![s] = n]
  BY DEF Refuse, Discard
<1>3. replies' \subseteq replies \cup [seq : {s}, kind : ReplyKinds]
  BY DEF Refuse, Discard, ReplyKinds
<1> HIDE DEF s
<1>4. ServeTypeOK'
  BY <1>1, <1>2, <1>3 DEF ServeIInv, ServeTypeOK
<1>5. \A t \in Seqs \ {s} : answers'[t] = answers[t]
  BY <1>2 DEF ServeIInv, ServeTypeOK
<1>6. answers'[s] \in {0, 1}
  BY <1>1, <1>2 DEF ServeIInv, ServeTypeOK
<1>7. OneAnswer'
  BY <1>5, <1>6 DEF ServeIInv, OneAnswer
<1>8. AnsweredWhenReady' /\ NoAnswerUnasked' /\ HookedWait'
  BY <1>1, <1>5
  DEF ServeIInv, ServeTypeOK, AnsweredWhenReady, NoAnswerUnasked, HookedWait
<1>9. RunningUnanswered'
  BY <1>1 DEF RunningUnanswered
<1> QED BY <1>4, <1>7, <1>8, <1>9 DEF ServeIInv

LEMMA StartInv ==
  ASSUME ServeIInv, NEW p \in Packages, running = NoSeq, Start(p)
  PROVE  ServeIInv'
<1> DEFINE s == p.seq
           rr == IF cmdHandleMap[p.cmd] = "async" THEN {s} ELSE {}
<1>1. /\ s \in Seqs /\ p.cmd \in Cmds
      /\ running' = s /\ runCmd' = p.cmd
      /\ asked' = IF p.need THEN asked \cup {s} ELSE asked \ {s}
      /\ holds' = holds \cup rr
      /\ rspReady' = rspReady \ {s}
      /\ rspSet' = (rspSet \ {s}) \cup rr
      /\ isReadySet' = (isReadySet \ {s}) \cup rr
      /\ hooked' = hooked \ {s}
      /\ answers' = [answers EXCEPT ![s] = 0]
      /\ UNCHANGED <<cmdHandleMap, connAlive, replies>>
  BY DEF Start, Packages
<1>2. /\ answers' \in [Seqs -> Nat] /\ answers'[s] = 0
      /\ \A t \in Seqs \ {s} : answers'[t] = answers[t]
  BY <1>1 DEF ServeIInv, ServeTypeOK
<1>3. rr \subseteq {s}
  OBVIOUS
<1>4. s \in rspSet' <=> cmdHandleMap'[runCmd'] = "async"
  BY <1>1
<1> HIDE DEF s, rr
<1>5. asked' \ {s} = asked \ {s} /\ asked' \subseteq asked \cup {s}
  BY <1>1
<1>6. rspSet' \ {s} = rspSet \ {s} /\ rspSet' \subseteq rspSet \cup {s}
  BY <1>1, <1>3
<1>7. ServeTypeOK'
  BY <1>1, <1>2, <1>3 DEF ServeIInv, ServeTypeOK
<1>8. OneAnswer'
  BY <1>2 DEF ServeIInv, OneAnswer
<1>9. ASSUME NEW t \in Seqs, t # s
       PROVE  /\ t \in asked' <=> t \in asked
              /\ t \in rspSet' <=> t \in rspSet
              /\ t \in rspReady' <=> t \in rspReady
              /\ t \in hooked' <=> t \in hooked
              /\ t # running /\ t # running' /\ answers'[t] = answers[t]
  BY <1>1, <1>2, <1>5, <1>6, <1>9, ServeSideAssumption DEF ServeSideAssumption
<1>10. AnsweredWhenReady' /\ NoAnswerUnasked'
  <2>1. AnsweredWhenReady'
    BY <1>1, <1>7, <1>9 DEF ServeIInv, ServeTypeOK, AnsweredWhenReady
  <2>2. NoAnswerUnasked'
    BY <1>2, <1>7, <1>9 DEF ServeIInv, ServeTypeOK, NoAnswerUnasked
  <2> QED BY <2>1, <2>2
<1>11. RunningUnanswered'
  BY <1>1, <1>2, <1>4 DEF RunningUnanswered
<1>12. HookedWait'
  <2>1. s \notin hooked' /\ running' = s /\ hooked' \subseteq Seqs
    BY <1>1, <1>7 DEF ServeTypeOK
  <2>2. hooked' \subseteq asked'
    BY <1>9, <2>1 DEF ServeIInv, HookedWait
  <2>3. \A t \in hooked' \ rspReady' : answers'[t] = 0
    BY <1>9, <2>1 DEF ServeIInv, HookedWait
  <2>4. \A t \in (rspSet' \cap asked') \ rspReady' : t # running' => t \in hooked'
    BY <1>7, <1>9, <2>1 DEF ServeIInv, ServeTypeOK, HookedWait
  <2> QED BY <2>2, <2>3, <2>4 DEF HookedWait
<1> QED BY <1>7, <1>8, <1>10, <1>11, <1>12 DEF ServeIInv

\* rsp() of an rr whose handler has returned is sent exactly if it is hooked.
LEMMA UserRspInv ==
  ASSUME ServeIInv, NEW s \in Seqs, UserRsp(s)
  PROVE  ServeIInv'
<1>1. /\ s \in rspSet \ rspReady
      /\ rspReady' = rspReady \cup {s}
      /\ UNCHANGED <<cmdHandleMap, running, runCmd, asked, holds, rspSet,
                     isReadySet, hooked, connAlive>>
  BY DEF UserRsp, Respond
<1>2. CASE s \in hooked /\ connAlive
  <2>1. /\ replies' = replies \cup {[seq |-> s, kind |-> "normal"]}
        /\ answers' = [answers EXCEPT ![s] = @ + 1]
    BY <1>2 DEF UserRsp, Respond, Reply
  <2>2. answers[s] = 0
    BY <1>1, <1>2 DEF ServeIInv, HookedWait
  <2>3. /\ answers' \in [Seqs -> Nat] /\ answers'[s] = 1
        /\ \A t \in Seqs \ {s} : answers'[t] = answers[t]
    BY <2>1, <2>2 DEF ServeIInv, ServeTypeOK
  <2>4. ServeTypeOK'
    BY <1>1, <2>1, <2>3 DEF ServeIInv, ServeTypeOK, ReplyKinds
  <2>5. OneAnswer'
    BY <2>3 DEF ServeIInv, OneAnswer
  <2>6. AnsweredWhenReady' /\ NoAnswerUnasked' /\ HookedWait'
    BY <1>1, <1>2, <2>3
    DEF ServeIInv, ServeTypeOK, AnsweredWhenReady, NoAnswerUnasked, HookedWait
  <2>7. RunningUnanswered'
    <3>1. running # NoSeq => running # s /\ running \in Seqs
      BY <1>2 DEF ServeIInv, RunningUnanswered, ServeTypeOK
    <3> QED BY <1>1, <2>3, <3>1 DEF ServeIInv, RunningUnanswered
  <2> QED BY <2>4, <2>5, <2>6, <2>7 DEF ServeIInv
<1>3. CASE ~(s \in hooked /\ connAlive)
  <2>1. UNCHANGED <<replies, answers>>
    BY <1>3 DEF UserRsp, Respond
  <2>2. ServeTypeOK' /\ OneAnswer'
    BY <1>1, <2>1 DEF ServeIInv, ServeTypeOK, OneAnswer
  <2>3. AnsweredWhenReady'
    BY <1>1, <1>3, <2>1 DEF ServeIInv, AnsweredWhenReady, HookedWait
  <2>4. NoAnswerUnasked' /\ HookedWait' /\ RunningUnanswered'
    BY <1>1, <2>1 DEF ServeIInv, NoAnswerUnasked, HookedWait, RunningUnanswered
  <2> QED BY <2>2, <2>3, <2>4 DEF ServeIInv
<1> QED BY <1>2, <1>3

LEMMA DropRRInv ==
  ASSUME ServeIInv, NEW s \in Seqs, DropRR(s)
  PROVE  ServeIInv'
<1>1. /\ holds' = holds \ {s}
      /\ UNCHANGED <<cmdHandleMap, running, runCmd, connAlive, replies, answers>>
  BY DEF DropRR
<1>2. CASE s = running \/ SelfHeld(s)
  <2>1. UNCHANGED <<asked, rspReady, rspSet, isReadySet, hooked>>
    BY <1>2 DEF DropRR
  <2> QED BY <1>1, <2>1
          DEF ServeIInv, ServeTypeOK, OneAnswer, AnsweredWhenReady,
              NoAnswerUnasked, RunningUnanswered, HookedWait
<1>3. CASE ~(s = running \/ SelfHeld(s))
  <2>1. /\ asked' = asked \ {s} /\ rspReady' = rspReady \ {s}
        /\ isReadySet' = isReadySet \ {s} /\ hooked' = hooked \ {s}
        /\ rspSet' = rspSet \ {s} /\ s # running
    BY <1>3 DEF DropRR, Forget
  <2>2. ServeTypeOK' /\ OneAnswer'
    BY <1>1, <2>1 DEF ServeIInv, ServeTypeOK, OneAnswer
  <2>3. AnsweredWhenReady' /\ NoAnswerUnasked'
    BY <1>1, <2>1 DEF ServeIInv, AnsweredWhenReady, NoAnswerUnasked
  <2>4. RunningUnanswered' /\ HookedWait'
    BY <1>1, <2>1 DEF ServeIInv, RunningUnanswered, HookedWait
  <2> QED BY <2>2, <2>3, <2>4 DEF ServeIInv
<1> QED BY <1>2, <1>3

\* What the dispatcher does after the handler: nothing, hook, or answer.
LEMMA ReturnInv ==
  ASSUME ServeIInv, Return
  PROVE  ServeIInv'
<1> DEFINE s == running
<1>1. /\ s # NoSeq /\ s \in Seqs /\ runCmd \in Cmds
      /\ answers[s] = 0 /\ s \notin hooked
      /\ s \in rspSet <=> cmdHandleMap[runCmd] = "async"
  BY DEF Return, ServeIInv, ServeTypeOK, RunningUnanswered
<1>2. /\ running' = NoSeq /\ runCmd' = Ping
      /\ UNCHANGED <<cmdHandleMap, holds, connAlive>>
  BY DEF Return
<1>3. RunningUnanswered'
  BY <1>2 DEF RunningUnanswered
<1>4. CASE /\ s \notin asked
           /\ UNCHANGED <<asked, rspReady, rspSet, isReadySet, hooked, replies,
                          answers>>
  <2>1. ServeTypeOK' /\ OneAnswer'
    BY <1>2, <1>4 DEF ServeIInv, ServeTypeOK, OneAnswer
  <2>2. AnsweredWhenReady' /\ NoAnswerUnasked' /\ HookedWait'
    BY <1>2, <1>4 DEF ServeIInv, AnsweredWhenReady, NoAnswerUnasked, HookedWait
  <2> QED BY <1>3, <2>1, <2>2 DEF ServeIInv
<1>5. CASE /\ s \in asked /\ s \notin rspReady /\ s \in rspSet
           /\ hooked' = hooked \cup {s}
           /\ UNCHANGED <<asked, rspReady, rspSet, isReadySet, replies, answers>>
  <2>1. ServeTypeOK' /\ OneAnswer'
    BY <1>1, <1>2, <1>5 DEF ServeIInv, ServeTypeOK, OneAnswer
  <2>2. AnsweredWhenReady' /\ NoAnswerUnasked'
    BY <1>1, <1>2, <1>5 DEF ServeIInv, AnsweredWhenReady, NoAnswerUnasked
  <2>3. HookedWait'
    BY <1>1, <1>2, <1>5 DEF ServeIInv, HookedWait
  <2> QED BY <1>3, <2>1, <2>2, <2>3 DEF ServeIInv
<1>6. CASE /\ s \in asked /\ (s \in rspReady \/ s \notin rspSet)
           /\ Reply(s, "normal")
           /\ \/ isReadySet' = isReadySet \ {s}
                 /\ UNCHANGED <<asked, rspReady, rspSet, hooked>>
              \/ Forget(s)
  <2>1. /\ replies' = replies \cup {[seq |-> s, kind |-> "normal"]}
        /\ answers' = [answers EXCEPT ![s] = @ + 1]
    BY <1>6 DEF Reply
  <2>2. /\ answers' \in [Seqs -> Nat] /\ answers'[s] = 1
        /\ \A t \in Seqs \ {s} : answers'[t] = answers[t]
    BY <1>1, <2>1 DEF ServeIInv, ServeTypeOK
  <2>3. /\ asked' \subseteq asked /\ rspSet' \subseteq rspSet
        /\ rspReady' \subseteq rspReady /\ isReadySet' \subseteq isReadySet
        /\ hooked' = hooked
        /\ asked' \ {s} = asked \ {s} /\ rspSet' \ {s} = rspSet \ {s}
        /\ rspReady' \ {s} = rspReady \ {s}
        /\ s \in rspSet' => s \in asked' /\ s \in rspReady'
    BY <1>1, <1>6 DEF Forget
  <2> HIDE DEF s
  <2>4. ServeTypeOK'
    BY <1>1, <1>2, <2>1, <2>2, <2>3 DEF ServeIInv, ServeTypeOK, ReplyKinds
  <2>5. OneAnswer'
    BY <2>2 DEF ServeIInv, OneAnswer
  <2>6. AnsweredWhenReady'
    BY <1>2, <2>2, <2>3 DEF ServeIInv, ServeTypeOK, AnsweredWhenReady, s
  <2>7. NoAnswerUnasked'
    BY <1>2, <2>2, <2>3 DEF ServeIInv, ServeTypeOK, NoAnswerUnasked
  <2>8. HookedWait'
    BY <1>1, <1>2, <2>2, <2>3 DEF ServeIInv, ServeTypeOK, HookedWait, s
  <2> QED BY <1>3, <2>4, <2>5, <2>6, <2>7, <2>8 DEF ServeIInv
<1> QED BY <1>1, <1>4, <1>5, <1>6 DEF Return, AnswersNow, NeedsHook

LEMMA ServeStepInv ==
  ASSUME ServeIInv, [ServeNext]_serveVars
  PROVE  ServeIInv'
<1>1. ASSUME NEW c \in Cmds, NEW kind \in HandlerKinds, Subscribe(c, kind)
      PROVE  ServeIInv'
  BY <1>1, SubscribeInv
<1>2. ASSUME NEW p \in Packages, Recv(p) PROVE ServeIInv'
  BY <1>2, NoHandlerInv, StartInv DEF Recv
<1>3. ASSUME NEW s \in Seqs, UserRsp(s) PROVE ServeIInv'
  BY <1>3, UserRspInv
<1>4. ASSUME NEW s \in Seqs, DropRR(s) PROVE ServeIInv'
  BY <1>4, DropRRInv
<1>5. CASE Return
  BY <1>5, ReturnInv
<1>6. CASE LoseConn
  BY <1>6 DEF LoseConn, ServeIInv, ServeTypeOK, OneAnswer, AnsweredWhenReady,
              NoAnswerUnasked, RunningUnanswered, HookedWait
<1>7. ASSUME NEW a \in replies, Deliver(a) PROVE ServeIInv'
  BY <1>7 DEF Deliver, ServeIInv, ServeTypeOK, OneAnswer, AnsweredWhenReady,
              NoAnswerUnasked, RunningUnanswered, HookedWait
<1>8. CASE UNCHANGED serveVars
  BY <1>8 DEF serveVars, ServeIInv, ServeTypeOK, OneAnswer, AnsweredWhenReady,
              NoAnswerUnasked, RunningUnanswered, HookedWait
<1> QED BY <1>1, <1>2, <1>3, <1>4, <1>5, <1>6, <1>7, <1>8 DEF ServeNext

\* msg_dispatcher.hpp:44-106, rpc.hpp:76-117: the inductive invariant.
THEOREM ServeInductive == ServeSpec => []ServeIInv
<1>1. ServeInit => ServeIInv
  BY ServeInitInv
<1>2. ServeIInv /\ [ServeNext]_serveVars => ServeIInv'
  BY ServeStepInv
<1> QED BY <1>1, <1>2, PTL DEF ServeSpec

\* The variables of the serving side keep their types.
THEOREM ServeTypeCorrect == ServeSpec => []ServeTypeOK
<1>1. ServeIInv => ServeTypeOK
  BY DEF ServeIInv
<1> QED BY <1>1, ServeInductive, PTL

\* A command is answered at most once, whenever and however often the user calls
\* rsp().
THEOREM AtMostOneAnswer == ServeSpec => []OneAnswer
<1>1. ServeIInv => OneAnswer
  BY DEF ServeIInv
<1> QED BY <1>1, ServeInductive, PTL

\* An answer given in the handler or after it is sent, while the connection
\* lives.
THEOREM NoAnswerLost == ServeSpec => []AnsweredWhenReady
<1>1. ServeIInv => AnsweredWhenReady
  BY DEF ServeIInv
<1> QED BY <1>1, ServeInductive, PTL

\* A command that did not ask for an answer gets none.
THEOREM AnswersAsked == ServeSpec => []NoAnswerUnasked
<1>1. ServeIInv => NoAnswerUnasked
  BY DEF ServeIInv
<1> QED BY <1>1, ServeInductive, PTL
=============================================================================
