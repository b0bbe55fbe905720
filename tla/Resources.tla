------------------------------- MODULE Resources -------------------------------
(***************************************************************************)
(* Package k8s: the kinds of objects it knows, where an object is, what a  *)
(* list holds and which claims a StatefulSet is taken to have.             *)
(*                                                                         *)
(* A name is a sequence of parts, of which the dash is one: "mydata-web-0" *)
(* is <<"my", "data", "-", "web", "-", "0">>, and mentions "data-web-".    *)
(***************************************************************************)
EXTENDS Integers, Sequences

Kinds == {
  "Deployment", "StatefulSet", "ConfigMap", "CronJob", "Service", "Ingress",
  "PodDisruptionBudget", "Secret", "StorageClass", "PersistentVolumeClaim",
  "PersistentVolume", "CustomResourceDefinition", "ServiceAccount", "ClusterRole",
  "ClusterRoleBinding", "Role", "RoleBinding", "DaemonSet", "Pod", "Job",
  "HorizontalPodAutoscaler" }

(* These are not in a namespace, whatever namespace is given. *)
ClusterScoped == {
  "StorageClass", "PersistentVolume", "CustomResourceDefinition", "ClusterRole",
  "ClusterRoleBinding" }

Address(kind, namespace, name) ==
  [kind |-> kind, name |-> name,
   namespace |-> IF kind \in ClusterScoped THEN "" ELSE namespace]

(* Kinds whose rollout is waited for by looking at their status. *)
RolledOut == {"Deployment", "StatefulSet"}

(* An object of a typed list, or of all namespaces, that the pattern admits; *)
(* without a pattern it is the set of all names.                             *)
Listed(objects, kind, namespace, pattern) ==
  { o \in objects :
      /\ o.kind = kind
      /\ kind \in ClusterScoped \/ namespace = "" \/ o.namespace = namespace
      /\ o.name \in pattern }

(* "<template>-<name>-", which begins the name of each claim of a template  *)
(* for a StatefulSet; the ordinal of the replica ends it.                    *)
ClaimPrefix(template, sts) == template \o <<"-">> \o sts.name \o <<"-">>

BelongsTo(claim, sts, templates) ==
  /\ claim.kind = "PersistentVolumeClaim"
  /\ claim.namespace = sts.namespace
  /\ \E t \in templates :
       LET prefix == ClaimPrefix(t, sts) IN
         /\ Len(claim.name) = Len(prefix) + 1
         /\ SubSeq(claim.name, 1, Len(prefix)) = prefix

(* strings.Contains(claim, "<template>-<name>-") *)
Mentions(name, parts) ==
  \E i \in 1 .. Len(name) - Len(parts) + 1 : SubSeq(name, i, i + Len(parts) - 1) = parts

Matches(claim, sts, templates) ==
  \E t \in templates : Mentions(claim.name, ClaimPrefix(t, sts))

ClaimsOf(objects, sts, templates) ==
  { p \in Listed(objects, "PersistentVolumeClaim", sts.namespace, { o.name : o \in objects }) :
      Matches(p, sts, templates) }
===============================================================================
