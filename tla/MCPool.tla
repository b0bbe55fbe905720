-------------------------------- MODULE MCPool --------------------------------
(***************************************************************************)
(* TLC instances of Pool: each task has a caller of its own.               *)
(***************************************************************************)
EXTENDS Pool

OwnCaller == [t \in Tasks |-> t]
===============================================================================
