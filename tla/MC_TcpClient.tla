---------------------------- MODULE MC_TcpClient ----------------------------
(* Two tasks of do_open() may be under way at once: the user's and a timer's, *)
(* or two of the user's.                                                      *)
EXTENDS TcpClient, TLC
CONSTANTS o1, o2
TwoOpeners == {o1, o2}
=============================================================================
