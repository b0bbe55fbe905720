---------------------------- MODULE MCBalancedPool ----------------------------
(***************************************************************************)
(* TLC instances of BalancedPool: estimates of two thirds of a microsecond *)
(* and, for task 2, a maximum delay of one third.                          *)
(***************************************************************************)
EXTENDS BalancedPool

MCETA == [t \in Tasks |-> 2]
MCMaxDelay == [t \in Tasks |-> IF t = 2 THEN 1 ELSE 0]
===============================================================================
