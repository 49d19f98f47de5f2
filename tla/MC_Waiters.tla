----------------------------- MODULE MC_Waiters -----------------------------
(* The small instances of CallSide, their requests called by future() or      *)
(* co_call().                                                                 *)
EXTENDS MC_CallSide, Waiters
=============================================================================
