----------------------------- MODULE RemoteCall -----------------------------
(***************************************************************************)
(* What the two ends of a connection promise a caller together.  A call is *)
(* a row of attempts.  The peer may do something about the newest of them, *)
(* once; an answer tells what that was; "timeout" comes when no attempt is *)
(* left, and not before.  Once the rpc is gone nothing is told of a call   *)
(* that is pending, and no other begins.                                   *)
(***************************************************************************)
EXTENDS Integers

CONSTANTS
  Requests,   \* the requests that make calls
  Types,      \* finally_t
  Retry0      \* how often each call may be tried again, -1 for ever

VARIABLES
  calling,    \* the requests whose call is pending
  left,       \* the retries each request has left
  served,     \* what the peer did about the newest attempt of each request
  result,     \* what the last finally callback was given
  alive       \* FALSE once the rpc is gone

vars == <<calling, left, served, result, alive>>

\* What a call may be told, by what the peer did about its newest attempt.
Told == [none        |-> {},
         ran         |-> {"normal", "rsp_serialize_error"},
         no_such_cmd |-> {"no_such_cmd"},
         discarded   |-> {}]

\* What call() itself may end a call with, the first time or when it retries.
Refusals == {"rpc_expired", "rpc_not_ready", "no_need_rsp"}
RetryRefusals == {"rpc_not_ready", "no_need_rsp"}

Init ==
  /\ calling = {}
  /\ left = Retry0
  /\ served = [r \in Requests |-> "none"]
  /\ result \in [Requests -> Types]
  /\ alive = TRUE

Begin(r) ==
  /\ alive /\ r \notin calling
  /\ calling' = calling \cup {r}
  /\ UNCHANGED <<left, served, result, alive>>

Refuse(r, type) ==
  /\ r \notin calling
  /\ alive \/ type = "rpc_expired"
  /\ result' = [result EXCEPT ![r] = type]
  /\ UNCHANGED <<calling, left, served, alive>>

\* The peer gets the newest attempt of r.
Serve(r, did) ==
  /\ r \in calling /\ served[r] = "none"
  /\ served' = [served EXCEPT ![r] = did]
  /\ UNCHANGED <<calling, left, result, alive>>

\* The call ends, and what was done about it is no longer of interest.
End(r, type) ==
  /\ alive /\ r \in calling
  /\ calling' = calling \ {r}
  /\ served' = [served EXCEPT ![r] = "none"]
  /\ result' = [result EXCEPT ![r] = type]
  /\ UNCHANGED alive

Conclude(r, type) ==
  /\ type \in Told[served[r]]
  /\ End(r, type)
  /\ UNCHANGED left

TimeOut(r) ==
  /\ left[r] = 0
  /\ End(r, "timeout")
  /\ UNCHANGED left

\* One retry is used up, by a new attempt or by a refusal.
CountDown(r) ==
  /\ left[r] # 0
  /\ left' = IF left[r] = -1 THEN left ELSE [left EXCEPT ![r] = @ - 1]

Retry(r) ==
  /\ alive /\ r \in calling
  /\ CountDown(r)
  /\ served' = [served EXCEPT ![r] = "none"]
  /\ UNCHANGED <<calling, result, alive>>

GiveUp(r, type) == CountDown(r) /\ End(r, type)

Expire ==
  /\ alive' = FALSE
  /\ served' = [r \in Requests |-> "none"]
  /\ UNCHANGED <<calling, left, result>>

Next ==
  \/ \E r \in Requests :
       \/ Begin(r) \/ TimeOut(r) \/ Retry(r)
       \/ \E type \in Refusals : Refuse(r, type)
       \/ \E did \in DOMAIN Told \ {"none"} : Serve(r, did)
       \/ \E type \in Types : Conclude(r, type)
       \/ \E type \in RetryRefusals : GiveUp(r, type)
  \/ Expire

Spec == Init /\ [][Next]_vars
=============================================================================
