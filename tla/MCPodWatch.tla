------------------------------- MODULE MCPodWatch ------------------------------
(***************************************************************************)
(* TLC instance of PodWatch: the statuses of a pod that is ready, half ready *)
(* and no longer running.                                                  *)
(***************************************************************************)
EXTENDS PodWatch

MCStatuses ==
  { [running |-> TRUE, containers |-> {TRUE}],
    [running |-> TRUE, containers |-> BOOLEAN],
    [running |-> FALSE, containers |-> {TRUE}] }
===============================================================================
