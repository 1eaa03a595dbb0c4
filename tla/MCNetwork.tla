------------------------------ MODULE MCNetwork ------------------------------
(* Model values for TLC.  The listeners do not interact, so one of them, of *)
(* any kind, meets every behaviour of the network task.                     *)
EXTENDS Network
===============================================================================
