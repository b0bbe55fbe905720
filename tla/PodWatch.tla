-------------------------------- MODULE PodWatch -------------------------------
(***************************************************************************)
(* Package k8s: one call of WatchPods in a namespace whose pods come, go   *)
(* and change while it lists them, opens its watch and works on events.    *)
(*                                                                         *)
(* The API server sends every event since the watch was opened, in order,  *)
(* and at first an Added one for each pod there is; it may send bookmarks  *)
(* and may end the stream.  Both callbacks are set; a nil one is skipped    *)
(* and changes nothing else.                                               *)
(***************************************************************************)
EXTENDS Resources, FiniteSets, SequencesExt

CONSTANTS
  Pods,            \* names of pods
  Pattern,         \* the names the pattern admits
  Statuses,        \* statuses of pods: records [running, containers]
  Initially,       \* pods there are at first
  Absent,          \* no pod
  MaxChanges,      \* bound: changes of the pods
  MaxBookmarks     \* bound: events that are not about a pod

ASSUME PodWatchAssumption ==
  /\ IsFiniteSet(Pods) /\ Pattern \subseteq Pods /\ Initially \subseteq Pods
  /\ \A s \in Statuses : s.running \in BOOLEAN /\ s.containers \subseteq BOOLEAN
  /\ Absent \notin Statuses
  /\ MaxChanges \in Nat /\ MaxBookmarks \in Nat

VARIABLES
  pc,              \* where WatchPods is
  err,             \* what it returned
  cluster,         \* the API server's pods: name -> status
  listed,          \* what List returned: name -> status
  stream,          \* the watch: none, open, closed by the server, stopped
  events,          \* its undelivered events
  podReadyMap,     \* name -> was it ready; a missing one counts as not ready
  cancelled,       \* is the context done
  told,            \* history: calls of onAvailable and onUnavailable
  unseen,          \* history: pods changed between the list and the watch, or
                   \*   added ready, and not changed since by other events
  changes, bookmarks

vars == <<pc, err, cluster, listed, stream, events, podReadyMap, cancelled, told, unseen,
          changes, bookmarks>>

Event == [type : {"Added", "Modified", "Deleted"}, pod : Pods, status : Statuses]
         \cup [type : {"Bookmark"}]

Init ==
  /\ pc = "init" /\ err = "none"
  /\ cluster \in [Pods -> Statuses \cup {Absent}]
  /\ \A p \in Pods : cluster[p] # Absent <=> p \in Initially
  /\ listed = [p \in Pods |-> Absent]
  /\ stream = "none" /\ events = <<>>
  /\ podReadyMap = [p \in Pods |-> FALSE]
  /\ cancelled = FALSE
  /\ told = <<>> /\ unseen = {}
  /\ changes = 0 /\ bookmarks = 0

-------------------------------------------------------------------------------
isPodReady(s) == s.running /\ s.containers = {TRUE}
IsReady(p) == cluster[p] # Absent /\ isPodReady(cluster[p])

Here == { p \in Pods : cluster[p] # Absent }

ListPods ==
  { o.name : o \in Listed({ Address("Pod", "ns", p) : p \in Here }, "Pod", "ns", Pattern) }

Return(e) == pc' = "returned" /\ err' = e

(* Init and List: either can fail. *)
DoList ==
  /\ pc = "init"
  /\ \/ /\ pc' = "listed" /\ UNCHANGED err
        /\ listed' = [p \in Pods |-> IF p \in ListPods THEN cluster[p] ELSE Absent]
        /\ unseen' = {}
     \/ \E e \in {"ErrInit", "ErrApi"} : Return(e) /\ UNCHANGED <<listed, unseen>>
  /\ UNCHANGED <<cluster, stream, events, podReadyMap, cancelled, told, changes, bookmarks>>

Tell(p, up) == told' = Append(told, [pod |-> p, up |-> up])

(* The watch is opened; then the listed pods are gone through. *)
Start ==
  /\ pc = "listed"
  /\ \/ /\ pc' = "loop" /\ UNCHANGED err
        /\ stream' = "open"
        /\ events' = SetToSeq({ [type |-> "Added", pod |-> p, status |-> cluster[p]] : p \in Here })
        /\ LET up == { p \in Pods : listed[p] # Absent /\ isPodReady(listed[p]) } IN
             /\ podReadyMap' = [p \in Pods |-> p \in up]
             /\ told' = SetToSeq({ [pod |-> p, up |-> TRUE] : p \in up })
     \/ Return("ErrApi") /\ UNCHANGED <<stream, events, podReadyMap, told>>
  /\ UNCHANGED <<cluster, listed, cancelled, unseen, changes, bookmarks>>

ForgetsDeleted(p) == UNCHANGED podReadyMap            \* mutant: of Deleted
Deleted(p) == podReadyMap' = [podReadyMap EXCEPT ![p] = FALSE]

OnDeleted(e) ==
  /\ IF podReadyMap[e.pod] THEN Tell(e.pod, FALSE) ELSE UNCHANGED told
  /\ Deleted(e.pod)

OnModified_UpOnly(e) ==                               \* mutant: the map is set with a call only
  IF isPodReady(e.status) /\ ~podReadyMap[e.pod]
    THEN Tell(e.pod, TRUE) /\ podReadyMap' = [podReadyMap EXCEPT ![e.pod] = TRUE]
    ELSE UNCHANGED <<told, podReadyMap>>

OnModified(e) ==
  LET ready == isPodReady(e.status) IN
    /\ IF ready # podReadyMap[e.pod] THEN Tell(e.pod, ready) ELSE UNCHANGED told
    /\ podReadyMap' = [podReadyMap EXCEPT ![e.pod] = ready]

(* Every other event is passed over, Added ones too. *)
Concerns(e) == e.type \in {"Modified", "Deleted"} /\ e.pod \in Pattern

OnEvent ==
  /\ pc = "loop" /\ events # <<>>
  /\ LET e == Head(events) IN
       CASE Concerns(e) /\ e.type = "Modified" -> OnModified(e)
         [] Concerns(e) /\ e.type = "Deleted" -> OnDeleted(e)
         [] ~Concerns(e) -> UNCHANGED <<told, podReadyMap>>
  /\ events' = Tail(events)
  /\ UNCHANGED <<pc, err, cluster, listed, stream, cancelled, unseen, changes, bookmarks>>

OnClosed_Spins == FALSE /\ UNCHANGED vars             \* mutant: the end of the channel is no event

(* What the stream holds is delivered before its end. *)
OnClosed ==
  /\ pc = "loop" /\ events = <<>> /\ stream = "closed"
  /\ Return("nil")
  /\ UNCHANGED <<cluster, listed, stream, events, podReadyMap, cancelled, told, unseen, changes,
                 bookmarks>>

OnDone ==
  /\ pc = "loop" /\ cancelled
  /\ Return("nil")
  /\ stream' = "stopped"
  /\ UNCHANGED <<cluster, listed, events, podReadyMap, cancelled, told, unseen, changes,
                 bookmarks>>

-------------------------------------------------------------------------------
(* The namespace and its API server, and the caller that cancels. *)
Send(e) == events' = IF stream = "open" THEN Append(events, e) ELSE events

InGap == pc # "loop"

Change(p, type, status) ==
  /\ changes < MaxChanges /\ pc # "returned"
  /\ changes' = changes + 1
  /\ cluster' = [cluster EXCEPT ![p] = IF type = "Deleted" THEN Absent ELSE status]
  /\ Send([type |-> type, pod |-> p, status |-> status])
  /\ unseen' = CASE InGap \/ (type = "Added" /\ isPodReady(status)) -> unseen \cup {p}
                 [] ~InGap /\ type = "Added" /\ ~isPodReady(status) -> unseen
                 [] ~InGap /\ type # "Added" -> unseen \ {p}
  /\ UNCHANGED <<pc, err, listed, stream, podReadyMap, cancelled, told, bookmarks>>

AddPod(p) == cluster[p] = Absent /\ \E s \in Statuses : Change(p, "Added", s)

ModifyPod(p) ==
  /\ cluster[p] # Absent
  /\ \E s \in Statuses \ {cluster[p]} : Change(p, "Modified", s)

DeletePod(p) == cluster[p] # Absent /\ Change(p, "Deleted", cluster[p])

Bookmark ==
  /\ stream = "open" /\ bookmarks < MaxBookmarks
  /\ bookmarks' = bookmarks + 1
  /\ Send([type |-> "Bookmark"])
  /\ UNCHANGED <<pc, err, cluster, listed, stream, podReadyMap, cancelled, told, unseen, changes>>

EndStream ==
  /\ stream = "open"
  /\ stream' = "closed"
  /\ UNCHANGED <<pc, err, cluster, listed, events, podReadyMap, cancelled, told, unseen, changes,
                 bookmarks>>

Cancel ==
  /\ ~cancelled /\ pc # "returned"
  /\ cancelled' = TRUE
  /\ UNCHANGED <<pc, err, cluster, listed, stream, events, podReadyMap, told, unseen, changes,
                 bookmarks>>

WatchPods == DoList \/ Start \/ OnEvent \/ OnClosed \/ OnDone
Environment ==
  \/ \E p \in Pods : AddPod(p) \/ ModifyPod(p) \/ DeletePod(p)
  \/ Bookmark \/ EndStream \/ Cancel

Next == WatchPods \/ Environment

Spec == Init /\ [][Next]_vars

(* Fairness: the goroutine that called WatchPods is scheduled, and the      *)
(* server answers.  Nothing is required of pods, stream or canceller.       *)
FairSpec == Spec /\ WF_vars(WatchPods)

-------------------------------------------------------------------------------
TypeOK ==
  /\ pc \in {"init", "listed", "loop", "returned"}
  /\ err \in {"none", "nil", "ErrInit", "ErrApi"}
  /\ cluster \in [Pods -> Statuses \cup {Absent}]
  /\ listed \in [Pods -> Statuses \cup {Absent}]
  /\ stream \in {"none", "open", "closed", "stopped"}
  /\ events \in Seq(Event)
  /\ podReadyMap \in [Pods -> BOOLEAN]
  /\ cancelled \in BOOLEAN
  /\ told \in Seq([pod : Pods, up : BOOLEAN])
  /\ unseen \subseteq Pods
  /\ changes \in 0 .. MaxChanges /\ bookmarks \in 0 .. MaxBookmarks

(* Of the first i announcements, is the last one of p that it is available? *)
UpAfter(i, p) ==
  \E j \in 1 .. i : /\ told[j].pod = p /\ told[j].up
                   /\ \A k \in j + 1 .. i : told[k].pod # p

(* A pod is announced available and unavailable in turn, available first:   *)
(* no event repeats what was said (k8s.go:938-989).                         *)
AnnouncementsAlternate ==
  \A i \in DOMAIN told : told[i].up <=> ~UpAfter(i - 1, told[i].pod)

(* Once its events are delivered, what was said last of a pod is true of it, *)
(* but for a change that fell between the list and the watch or was an       *)
(* addition, until the next change of that pod (k8s.go:931-989).  Of pods    *)
(* the pattern leaves out nothing is said.                                   *)
SaidLastIsTrue ==
  pc = "loop" /\ events = <<>> /\ stream = "open" =>
    \A p \in Pods :
      IF p \in Pattern
        THEN p \in unseen \/ (UpAfter(Len(told), p) <=> IsReady(p))
        ELSE \A i \in DOMAIN told : told[i].pod # p

(* A cancelled call and one whose stream ended return, however many events  *)
(* there are (k8s.go:951-958).                                              *)
WatchEnds == (cancelled \/ stream = "closed") ~> pc = "returned"
===============================================================================
