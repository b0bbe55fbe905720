------------------------------ MODULE MCK8sClient ------------------------------
(***************************************************************************)
(* TLC instances of K8sClient.                                             *)
(***************************************************************************)
EXTENDS K8sClient

Request(op, kind, name, wait) ==
  [op |-> op, kind |-> kind, namespace |-> "ns", name |-> name, wait |-> wait]

Web == <<"web">>
MCTemplates == {<<"data">>}
Claim(name) == Address("PersistentVolumeClaim", "ns", name)

(* One StatefulSet with a claim, both there at first, calls of every kind    *)
(* about them, and the kinds that are treated differently.                   *)
MCRequests ==
  { Request(op, "StatefulSet", Web, TRUE) : op \in {"Remove", "Rollout"} }
  \cup { Request("Remove", "StatefulSet", Web, FALSE),
         Request("Rollout", "HorizontalPodAutoscaler", Web, TRUE),
         Request("Get", "CustomResourceDefinition", Web, FALSE),
         Request("Rollout", "Unheard", Web, FALSE) }

MCInitially == {Address("StatefulSet", "ns", Web), Claim(<<"data", "-", "web", "-", "0">>)}

(* The claims data-web-0, data-web-db-0 and mydata-web-0: the last two are   *)
(* those of the StatefulSet web-db and of no StatefulSet.                    *)
PvcsRequests == {Request("Remove", "StatefulSet", Web, FALSE)}
PvcsInitially ==
  { Address("StatefulSet", "ns", Web), Address("StatefulSet", "ns", <<"web", "-", "db">>),
    Claim(<<"data", "-", "web", "-", "0">>), Claim(<<"data", "-", "web", "-", "db", "-", "0">>),
    Claim(<<"my", "data", "-", "web", "-", "0">>) }
===============================================================================
