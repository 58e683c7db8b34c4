------------------------------ MODULE MCMutex ------------------------------
(* The mutex with a handful of calls, and the mutations of its actions. *)
EXTENDS Mutex, TLC
=============================================================================
