--------------------------------- MODULE MCFan ---------------------------------
(***************************************************************************)
(* A TLC instance of Fan: Out is called up to three times, the last time   *)
(* with fewer items.                                                       *)
(***************************************************************************)
EXTENDS Fan

MCLengths == <<2, 2, 1>>
MCTasks == {<<1, 1>>, <<1, 2>>, <<2, 1>>, <<2, 2>>, <<3, 1>>}
MCCallerOf == [t \in MCTasks |-> CHOOSE c \in Callers : TRUE]
===============================================================================
