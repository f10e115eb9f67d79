------------------------------- MODULE MCQueue --------------------------------
(***************************************************************************)
(* Small instances of Queue for TLC.  Four threads give two sleepers, one   *)
(* that wakes them and one that gets in between; two objects give a queue   *)
(* longer than MaxSize.                                                     *)
(***************************************************************************)
EXTENDS Queue

CONSTANTS t1, t2, t3, t4, v1, v2

MCFourThreads == {t1, t2, t3, t4}
MCValues == {v1, v2}
===============================================================================
