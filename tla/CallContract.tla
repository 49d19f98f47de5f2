---------------------------- MODULE CallContract ----------------------------
(***************************************************************************)
(* What the calling side promises the user of a request: a call is either  *)
(* refused on the spot or goes on until it is concluded, and either way    *)
(* its finally callback runs once, with one finally_t (request.hpp:142).   *)
(***************************************************************************)
EXTENDS Integers

CONSTANTS
  Requests,   \* the requests that make calls
  Types       \* finally_t

VARIABLES
  owed,       \* finally callbacks owed to each request
  result      \* what the last finally callback was given

vars == <<owed, result>>

\* A call that call() itself ends, and what can end one that has begun.
Refusals == {"canceled", "rpc_expired", "rpc_not_ready", "no_need_rsp"}
Conclusions == Types \ {"rpc_expired"}

Init ==
  /\ owed = [r \in Requests |-> 0]
  /\ result \in [Requests -> Types]

Refuse(r, type) ==
  /\ owed[r] = 0
  /\ result' = [result EXCEPT ![r] = type]
  /\ UNCHANGED owed

Begin(r) ==
  /\ owed[r] = 0
  /\ owed' = [owed EXCEPT ![r] = 1]
  /\ UNCHANGED result

Conclude(r, type) ==
  /\ owed[r] = 1
  /\ owed' = [owed EXCEPT ![r] = 0]
  /\ result' = [result EXCEPT ![r] = type]

\* A dispose cancels all of its pending requests at once.
CancelAll(S) ==
  /\ \A r \in S : owed[r] = 1
  /\ owed' = [r \in Requests |-> IF r \in S THEN 0 ELSE owed[r]]
  /\ result' = [r \in Requests |-> IF r \in S THEN "canceled" ELSE result[r]]

Next ==
  \/ \E r \in Requests :
       \/ \E type \in Refusals : Refuse(r, type)
       \/ Begin(r)
       \/ \E type \in Conclusions : Conclude(r, type)
  \/ \E S \in SUBSET Requests : CancelAll(S)

Spec == Init /\ [][Next]_vars
=============================================================================
