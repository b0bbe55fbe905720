---------------------------- MODULE PodWatch_proofs ----------------------------
(***************************************************************************)
(* Theorems about PodWatch, for any pods, statuses and number of changes:  *)
(* the types of its variables, that announcements alternate, and that what *)
(* was said last of a pod is true of it.                                   *)
(***************************************************************************)
EXTENDS PodWatch, FiniteSetTheorems, SequenceTheorems, TLAPS

(* A sequence of a finite set holds each element once. *)
LEMMA SequenceOfSet ==
  ASSUME NEW S, IsFiniteSet(S)
  PROVE  LET s == SetToSeq(S) IN
           /\ s \in Seq(S)
           /\ \A i, j \in DOMAIN s : s[i] = s[j] => i = j
           /\ \A x \in S : \E i \in DOMAIN s : s[i] = x
<1> DEFINE n == Cardinality(S)
           s == SetToSeq(S)
<1>1. n \in Nat /\ ExistsBijection(1 .. n, S)
  BY FS_CardinalityType
<1>2. \E f \in [1 .. n -> S] : IsInjective(f)
  BY <1>1 DEF ExistsBijection, Bijection, Injection
<1>3. s \in [1 .. n -> S] /\ IsInjective(s)
  BY <1>2 DEF SetToSeq
<1>4. s \in Surjection(1 .. n, S)
  <2>1. s \in Injection(1 .. n, S)
    BY <1>3 DEF Injection
  <2>2. IsFiniteSet(1 .. n) /\ Cardinality(1 .. n) = n
    BY <1>1, FS_Interval
  <2> QED BY <2>1, <2>2, FS_Injection
<1>5. s \in Seq(S)
  BY <1>1, <1>3
<1> QED
  BY <1>3, <1>4, <1>5 DEF IsInjective, Surjection

(* A set of records, one for each element of a finite set, is finite. *)
LEMMA FiniteAdded ==
  ASSUME NEW f, NEW P, IsFiniteSet(P)
  PROVE  IsFiniteSet({ [type |-> "Added", pod |-> p, status |-> f[p]] : p \in P })
<1> DEFINE T == { [type |-> "Added", pod |-> p, status |-> f[p]] : p \in P }
           g == [p \in P |-> [type |-> "Added", pod |-> p, status |-> f[p]]]
<1>1. g \in Surjection(P, T)
  BY DEF Surjection
<1> QED
  BY <1>1, FS_Surjection

LEMMA FiniteUp ==
  ASSUME NEW P, IsFiniteSet(P)
  PROVE  IsFiniteSet({ [pod |-> p, up |-> TRUE] : p \in P })
<1> DEFINE T == { [pod |-> p, up |-> TRUE] : p \in P }
           g == [p \in P |-> [pod |-> p, up |-> TRUE]]
<1>1. g \in Surjection(P, T)
  BY DEF Surjection
<1> QED
  BY <1>1, FS_Surjection

LEMMA FinitePods == ASSUME NEW P \in SUBSET Pods PROVE IsFiniteSet(P)
  BY PodWatchAssumption, FS_Subset

-------------------------------------------------------------------------------
(* The types *)

(* The events an open watch starts with, and the first announcements. *)
LEMMA StartTypes ==
  ASSUME TypeOK, NEW up \in SUBSET Pods
  PROVE  /\ SetToSeq({ [type |-> "Added", pod |-> p, status |-> cluster[p]] : p \in Here })
              \in Seq(Event)
         /\ SetToSeq({ [pod |-> p, up |-> TRUE] : p \in up }) \in Seq([pod : Pods, up : BOOLEAN])
<1> DEFINE A == { [type |-> "Added", pod |-> p, status |-> cluster[p]] : p \in Here }
           U == { [pod |-> p, up |-> TRUE] : p \in up }
<1>1. \A p \in Here : p \in Pods /\ cluster[p] \in Statuses
  BY DEF TypeOK, Here
<1>2. A \subseteq Event
  BY <1>1 DEF Event
<1>3. U \subseteq [pod : Pods, up : BOOLEAN]
  <2>1. ASSUME NEW p \in up PROVE [pod |-> p, up |-> TRUE] \in [pod : Pods, up : BOOLEAN]
    OBVIOUS
  <2> QED BY <2>1, Zenon
<1>4. IsFiniteSet(A) /\ IsFiniteSet(U)
  <2>1. IsFiniteSet(Here) /\ IsFiniteSet(up)
    BY FinitePods DEF Here
  <2> QED BY <2>1, FiniteAdded, FiniteUp
<1> HIDE DEF A, U
<1>5. SetToSeq(A) \in Seq(A) /\ SetToSeq(U) \in Seq(U)
  BY <1>4, SequenceOfSet
<1>6. SetToSeq(A) \in Seq(Event)
  BY <1>2, <1>5, SeqMonotonic
<1>7. SetToSeq(U) \in Seq([pod : Pods, up : BOOLEAN])
  BY <1>3, <1>5, SeqMonotonic
<1> QED
  BY <1>6, <1>7 DEF A, U

LEMMA ReadyIsBoolean == \A s : isPodReady(s) \in BOOLEAN
  BY Zenon DEF isPodReady

LEMMA TellTypes ==
  ASSUME TypeOK, NEW p \in Pods, NEW up \in BOOLEAN, Tell(p, up)
  PROVE  /\ told' \in Seq([pod : Pods, up : BOOLEAN])
         /\ Len(told) \in Nat /\ Len(told') = Len(told) + 1
         /\ \A i \in 1 .. Len(told) : told'[i] = told[i]
         /\ told'[Len(told) + 1] = [pod |-> p, up |-> up]
<1>1. told \in Seq([pod : Pods, up : BOOLEAN]) /\ [pod |-> p, up |-> up] \in [pod : Pods, up : BOOLEAN]
  BY DEF TypeOK
<1> QED
  BY <1>1, AppendProperties, LenProperties DEF Tell

(* What an event of a pod that the pattern admits comes to. *)
About(e, p) == e.type \in {"Modified", "Deleted"} /\ e.pod = p
Outcome(e) == e.type = "Modified" /\ isPodReady(e.status)

LEMMA OnEventCases ==
  ASSUME TypeOK, OnEvent
  PROVE  LET e == Head(events) IN
           /\ e \in Event /\ events' = Tail(events) /\ events # <<>>
           /\ UNCHANGED <<pc, err, cluster, listed, stream, cancelled, unseen, changes, bookmarks>>
           /\ \/ ~Concerns(e) /\ UNCHANGED <<told, podReadyMap>>
              \/ /\ e.type \in {"Modified", "Deleted"} /\ e.pod \in Pods /\ e.pod \in Pattern
                 /\ podReadyMap' = [podReadyMap EXCEPT ![e.pod] = Outcome(e)]
                 /\ IF Outcome(e) # podReadyMap[e.pod] THEN Tell(e.pod, Outcome(e)) ELSE UNCHANGED told
<1> DEFINE e == Head(events)
<1>1. e \in Event /\ events' = Tail(events) /\ events # <<>>
  BY HeadTailProperties DEF OnEvent, TypeOK
<1>2. CASE ~Concerns(e) /\ UNCHANGED <<told, podReadyMap>>
  BY <1>1, <1>2 DEF OnEvent
<1>3. CASE Concerns(e) /\ e.type = "Modified" /\ OnModified(e)
  <2>1. Outcome(e) <=> isPodReady(e.status)
    BY <1>3 DEF Outcome
  <2>2. Outcome(e) = isPodReady(e.status)
    BY <2>1, ReadyIsBoolean, Zenon DEF Outcome
  <2> QED BY <1>1, <1>3, <2>2, PodWatchAssumption DEF OnModified, Concerns, OnEvent
<1>4. CASE Concerns(e) /\ e.type = "Deleted" /\ OnDeleted(e)
  <2>1. Outcome(e) = FALSE
    BY <1>4 DEF Outcome
  <2>2. e.pod \in Pods /\ podReadyMap[e.pod] \in BOOLEAN
    BY <1>4, PodWatchAssumption DEF Concerns, TypeOK
  <2> QED BY <1>1, <1>4, <2>1, <2>2 DEF OnDeleted, Deleted, Concerns, OnEvent
<1>5. Concerns(e) => e.type = "Modified" \/ e.type = "Deleted"
  BY DEF Concerns
<1> QED
  BY <1>2, <1>3, <1>4, <1>5 DEF OnEvent

LEMMA SendTypes ==
  ASSUME TypeOK, NEW e \in Event, Send(e)
  PROVE  events' \in Seq(Event)
  BY AppendProperties DEF Send, TypeOK

LEMMA ChangeTypes ==
  ASSUME TypeOK, NEW p \in Pods, NEW type \in {"Added", "Modified", "Deleted"},
         NEW s \in Statuses, Change(p, type, s)
  PROVE  TypeOK'
<1>1. [type |-> type, pod |-> p, status |-> s] \in Event
  BY DEF Event
<1>2. events' \in Seq(Event)
  BY <1>1, SendTypes DEF Change
<1>3. unseen' \in {unseen, unseen \cup {p}, unseen \ {p}}
  BY DEF Change
<1>4. changes' \in 0 .. MaxChanges
  BY PodWatchAssumption DEF Change, TypeOK
<1>5. cluster' \in [Pods -> Statuses \cup {Absent}]
  BY DEF Change, TypeOK
<1> QED
  BY <1>2, <1>3, <1>4, <1>5 DEF Change, TypeOK

LEMMA ChangeCases ==
  ASSUME TypeOK, NEW p \in Pods, AddPod(p) \/ ModifyPod(p) \/ DeletePod(p)
  PROVE  \E type \in {"Added", "Modified", "Deleted"}, s \in Statuses :
           Change(p, type, s) /\ (cluster[p] = Absent <=> type = "Added")
<1>1. cluster[p] # Absent => cluster[p] \in Statuses
  BY DEF TypeOK
<1> QED
  BY <1>1 DEF AddPod, ModifyPod, DeletePod

LEMMA TypesKept == ASSUME TypeOK, [Next]_vars PROVE TypeOK'
<1>1. CASE DoList
  <2>1. listed' \in [Pods -> Statuses \cup {Absent}]
    BY <1>1 DEF DoList, TypeOK
  <2> QED BY <1>1, <2>1 DEF DoList, Return, TypeOK
<1>2. CASE Start
  <2>1. CASE Return("ErrApi") /\ UNCHANGED <<stream, events, podReadyMap, told>>
    BY <1>2, <2>1 DEF Start, Return, TypeOK
  <2> DEFINE up == { p \in Pods : listed[p] # Absent /\ isPodReady(listed[p]) }
  <2>2. CASE /\ pc' = "loop" /\ UNCHANGED err /\ stream' = "open"
             /\ events' = SetToSeq({ [type |-> "Added", pod |-> p, status |-> cluster[p]] : p \in Here })
             /\ podReadyMap' = [p \in Pods |-> p \in up]
             /\ told' = SetToSeq({ [pod |-> p, up |-> TRUE] : p \in up })
    <3>1. up \in SUBSET Pods
      OBVIOUS
    <3> HIDE DEF up
    <3>2. events' \in Seq(Event) /\ told' \in Seq([pod : Pods, up : BOOLEAN])
      BY <2>2, <3>1, StartTypes
    <3>3. podReadyMap' \in [Pods -> BOOLEAN]
      BY <2>2
    <3> QED BY <1>2, <2>2, <3>2, <3>3 DEF Start, TypeOK
  <2> QED BY <1>2, <2>1, <2>2 DEF Start
<1>3. CASE OnEvent
  <2> DEFINE e == Head(events)
  <2>1. /\ events' = Tail(events) /\ events # <<>>
        /\ UNCHANGED <<pc, err, cluster, listed, stream, cancelled, unseen, changes, bookmarks>>
        /\ \/ UNCHANGED <<told, podReadyMap>>
           \/ /\ e.pod \in Pods
              /\ podReadyMap' = [podReadyMap EXCEPT ![e.pod] = Outcome(e)]
              /\ UNCHANGED told \/ Tell(e.pod, Outcome(e))
    BY <1>3, OnEventCases
  <2>2. events' \in Seq(Event)
    BY <2>1, HeadTailProperties DEF TypeOK
  <2>3. Outcome(e) \in BOOLEAN
    BY Zenon DEF Outcome
  <2>4. told' \in Seq([pod : Pods, up : BOOLEAN]) /\ podReadyMap' \in [Pods -> BOOLEAN]
    BY <2>1, <2>3, TellTypes DEF TypeOK
  <2> QED BY <2>1, <2>2, <2>4 DEF TypeOK
<1>4. CASE OnClosed \/ OnDone
  BY <1>4 DEF OnClosed, OnDone, Return, TypeOK
<1>5. ASSUME NEW p \in Pods, AddPod(p) \/ ModifyPod(p) \/ DeletePod(p) PROVE TypeOK'
  BY <1>5, ChangeCases, ChangeTypes
<1>6. CASE Bookmark
  <2>1. [type |-> "Bookmark"] \in Event
    BY DEF Event
  <2>2. events' \in Seq(Event)
    BY <1>6, <2>1, SendTypes DEF Bookmark
  <2>3. bookmarks' \in 0 .. MaxBookmarks
    BY <1>6, PodWatchAssumption DEF Bookmark, TypeOK
  <2> QED BY <1>6, <2>2, <2>3 DEF Bookmark, TypeOK
<1>7. CASE EndStream \/ Cancel
  BY <1>7 DEF EndStream, Cancel, TypeOK
<1>8. CASE UNCHANGED vars
  BY <1>8 DEF vars, TypeOK
<1> QED
  BY <1>1, <1>2, <1>3, <1>4, <1>5, <1>6, <1>7, <1>8 DEF Next, WatchPods, Environment

LEMMA InitTypes == ASSUME Init PROVE TypeOK
<1>1. events \in Seq(Event) /\ told \in Seq([pod : Pods, up : BOOLEAN])
  BY EmptySeq DEF Init
<1>2. changes \in 0 .. MaxChanges /\ bookmarks \in 0 .. MaxBookmarks
  BY PodWatchAssumption DEF Init
<1> QED
  BY <1>1, <1>2 DEF Init, TypeOK

(* Every variable keeps its type, however pods change during the call: no   *)
(* event that is not about a pod is looked at as one.                       *)
THEOREM TypeCorrect == Spec => []TypeOK
  BY InitTypes, TypesKept, PTL DEF Spec

-------------------------------------------------------------------------------
(* The announcements *)

(* UpAfter of any sequence. *)
UpIn(s, i, p) ==
  \E j \in 1 .. i : s[j].pod = p /\ s[j].up /\ \A k \in j + 1 .. i : s[k].pod # p

LEMMA UpAfterIsUpIn ==
  /\ \A i, p : UpAfter(i, p) <=> UpIn(told, i, p)
  /\ \A i, p : UpAfter(i, p)' <=> UpIn(told', i, p)
  BY DEF UpAfter, UpIn

LEMMA UpInPrefix ==
  ASSUME NEW s, NEW t, NEW n \in Nat, \A i \in 1 .. n : t[i] = s[i], NEW i \in 0 .. n, NEW p
  PROVE  UpIn(t, i, p) <=> UpIn(s, i, p)
<1>1. \A j \in 1 .. i : t[j] = s[j] /\ \A k \in j + 1 .. i : t[k] = s[k]
  OBVIOUS
<1> QED
  BY <1>1 DEF UpIn

LEMMA UpInStep ==
  ASSUME NEW s, NEW n \in Nat, NEW p
  PROVE  UpIn(s, n + 1, p) <=> IF s[n + 1].pod = p THEN s[n + 1].up ELSE UpIn(s, n, p)
<1>1. \A j \in 1 .. n + 1 : j \in 1 .. n \/ j = n + 1
  OBVIOUS
<1>2. n + 1 \in 1 .. n + 1 /\ \A k \in n + 1 + 1 .. n + 1 : FALSE
  OBVIOUS
<1>3. \A j \in 1 .. n : /\ j \in 1 .. n + 1 /\ n + 1 \in j + 1 .. n + 1
                        /\ \A k \in j + 1 .. n + 1 : k \in j + 1 .. n \/ k = n + 1
                        /\ \A k \in j + 1 .. n : k \in j + 1 .. n + 1
  OBVIOUS
<1>4. CASE s[n + 1].pod = p
  BY <1>1, <1>2, <1>3, <1>4, Zenon DEF UpIn
<1>5. CASE s[n + 1].pod # p
  BY <1>1, <1>3, <1>5, Zenon DEF UpIn
<1> QED
  BY <1>4, <1>5

(* The first announcements: each pod that is listed ready, once. *)
LEMMA FirstTold ==
  ASSUME NEW up \in SUBSET Pods, NEW s, s = SetToSeq({ [pod |-> p, up |-> TRUE] : p \in up })
  PROVE  /\ Len(s) \in Nat /\ DOMAIN s = 1 .. Len(s)
         /\ \A i \in 1 .. Len(s) : s[i].pod \in up /\ s[i].up /\ ~UpIn(s, i - 1, s[i].pod)
         /\ \A p \in Pods : UpIn(s, Len(s), p) <=> p \in up
<1> DEFINE U == { [pod |-> p, up |-> TRUE] : p \in up }
<1>1. IsFiniteSet(U)
  BY FinitePods, FiniteUp
<1>2. \A x \in U : x.pod \in up /\ x = [pod |-> x.pod, up |-> TRUE]
  OBVIOUS
<1>3. \A x \in U : x.up
  OBVIOUS
<1>4. ASSUME NEW p \in up PROVE \E x \in U : x.pod = p
  <2>1. [pod |-> p, up |-> TRUE] \in U /\ [pod |-> p, up |-> TRUE].pod = p
    OBVIOUS
  <2> QED BY <2>1, Zenon
<1> HIDE DEF U
<1>5. /\ s \in Seq(U)
      /\ \A i, j \in DOMAIN s : s[i] = s[j] => i = j
      /\ \A x \in U : \E i \in DOMAIN s : s[i] = x
  BY <1>1, SequenceOfSet DEF U
<1>6. Len(s) \in Nat /\ DOMAIN s = 1 .. Len(s) /\ \A i \in 1 .. Len(s) : s[i] \in U
  BY <1>5, LenProperties, ElementOfSeq
<1>7. ASSUME NEW i \in 1 .. Len(s), NEW j \in 1 .. Len(s), s[i].pod = s[j].pod PROVE i = j
  <2>1. s[i] = s[j]
    BY <1>2, <1>6, <1>7, Zenon
  <2> QED BY <1>5, <1>6, <2>1
<1>8. ASSUME NEW i \in 1 .. Len(s) PROVE s[i].pod \in up /\ s[i].up /\ ~UpIn(s, i - 1, s[i].pod)
  <2>1. \A j \in 1 .. i - 1 : j \in 1 .. Len(s) /\ j # i
    BY <1>6
  <2>2. ~UpIn(s, i - 1, s[i].pod)
    BY <1>7, <2>1, Zenon DEF UpIn
  <2> QED BY <1>2, <1>3, <1>6, <2>2, Zenon
<1>9. ASSUME NEW p \in up PROVE UpIn(s, Len(s), p)
  <2>1. PICK i \in 1 .. Len(s) : s[i].pod = p
    BY <1>4, <1>5, <1>6
  <2>2. \A k \in i + 1 .. Len(s) : k \in 1 .. Len(s) /\ k # i
    BY <1>6
  <2>3. s[i].up
    BY <1>3, <1>6, Zenon
  <2>4. \A k \in i + 1 .. Len(s) : s[k].pod # p
    BY <1>7, <2>1, <2>2
  <2> QED BY <2>1, <2>3, <2>4, Zenon DEF UpIn
<1>10. ASSUME NEW p, UpIn(s, Len(s), p) PROVE p \in up
  BY <1>2, <1>6, <1>10, Zenon DEF UpIn
<1> QED
  BY <1>6, <1>8, <1>9, <1>10

(* The map says what was said last, of pods the pattern admits only; before *)
(* the watch nothing is said.                                               *)
MapInv ==
  /\ \A p \in Pods : podReadyMap[p] <=> UpIn(told, Len(told), p)
  /\ \A i \in 1 .. Len(told) : told[i].pod \in Pattern
  /\ \A i \in 1 .. Len(told) : told[i].up <=> ~UpIn(told, i - 1, told[i].pod)
  /\ pc = "listed" => \A p \in Pods \ Pattern : listed[p] = Absent

LEMMA ListedPods ==
  /\ ListPods \subseteq Pattern
  /\ \A p \in Pattern : p \in Pods /\ cluster[p] # Absent => p \in ListPods
<1> DEFINE O == { Address("Pod", "ns", p) : p \in Here }
<1>1. \A p : /\ Address("Pod", "ns", p).name = p /\ Address("Pod", "ns", p).kind = "Pod"
             /\ Address("Pod", "ns", p).namespace = "ns"
  BY DEF Address, ClusterScoped
<1>2. ListPods \subseteq Pattern
  BY DEF ListPods, Listed
<1>3. ASSUME NEW p \in Pattern, p \in Pods, cluster[p] # Absent PROVE p \in ListPods
  <2>1. Address("Pod", "ns", p) \in Listed(O, "Pod", "ns", Pattern)
    BY <1>1, <1>3 DEF Listed, Here
  <2> QED BY <1>1, <2>1 DEF ListPods
<1> QED
  BY <1>2, <1>3

LEMMA TellKeeps ==
  ASSUME TypeOK, MapInv, NEW p \in Pods, p \in Pattern, NEW up \in BOOLEAN,
         podReadyMap' = [podReadyMap EXCEPT ![p] = up],
         IF up # podReadyMap[p] THEN Tell(p, up) ELSE UNCHANGED told,
         pc' # "listed"
  PROVE  MapInv'
<1>1. podReadyMap[p] \in BOOLEAN /\ podReadyMap \in [Pods -> BOOLEAN] /\ Len(told) \in Nat
  BY LenProperties DEF TypeOK
<1>2. CASE up = podReadyMap[p] /\ UNCHANGED told
  <2>1. podReadyMap' = podReadyMap
    BY <1>1, <1>2
  <2> QED BY <1>2, <2>1 DEF MapInv
<1>3. CASE up # podReadyMap[p] /\ Tell(p, up)
  <2> DEFINE n == Len(told)
  <2>1. /\ n \in Nat /\ Len(told') = n + 1
        /\ \A i \in 1 .. n : told'[i] = told[i]
        /\ told'[n + 1] = [pod |-> p, up |-> up]
    BY <1>3, TellTypes
  <2>2. told'[n + 1].pod = p
    BY <2>1
  <2>3. told'[n + 1].up = up
    BY <2>1
  <2>4. \A i \in 0 .. n, q \in Pods : UpIn(told', i, q) <=> UpIn(told, i, q)
    BY <2>1, UpInPrefix
  <2>5. \A q \in Pods : UpIn(told', n, q) <=> podReadyMap[q]
    BY <2>1, <2>4 DEF MapInv
  <2>6. ASSUME NEW q \in Pods PROVE podReadyMap'[q] <=> UpIn(told', n + 1, q)
    <3>1. UpIn(told', n + 1, q) <=> IF p = q THEN up ELSE UpIn(told', n, q)
      BY <2>1, <2>2, <2>3, UpInStep
    <3>2. podReadyMap'[q] = IF p = q THEN up ELSE podReadyMap[q]
      BY <1>1
    <3> QED BY <2>5, <3>1, <3>2
  <2>7. ASSUME NEW i \in 1 .. n + 1
        PROVE  told'[i].pod \in Pattern /\ (told'[i].up <=> ~UpIn(told', i - 1, told'[i].pod))
    <3>1. CASE i \in 1 .. n
      <4>1. told'[i] = told[i] /\ told[i].pod \in Pattern /\ told[i].pod \in Pods /\ i - 1 \in 0 .. n
        BY <2>1, <3>1, PodWatchAssumption DEF MapInv
      <4>2. UpIn(told', i - 1, told[i].pod) <=> UpIn(told, i - 1, told[i].pod)
        BY <2>4, <4>1
      <4>3. told[i].up <=> ~UpIn(told, i - 1, told[i].pod)
        BY <3>1 DEF MapInv
      <4> QED BY <4>1, <4>2, <4>3
    <3>2. CASE i = n + 1
      <4>1. i - 1 = n
        BY <2>1, <3>2
      <4>2. up <=> ~UpIn(told', n, p)
        BY <1>1, <1>3, <2>5
      <4> QED BY <2>2, <2>3, <3>2, <4>1, <4>2
    <3> QED BY <2>1, <3>1, <3>2
  <2> QED BY <2>1, <2>6, <2>7 DEF MapInv
<1> QED
  BY <1>2, <1>3

LEMMA MapKept == ASSUME TypeOK, MapInv, [Next]_vars PROVE MapInv'
<1>1. CASE DoList
  <2>1. pc' = "listed" => \A p \in Pods \ Pattern : listed'[p] = Absent
    BY <1>1, ListedPods DEF DoList, Return
  <2> QED BY <1>1, <2>1 DEF DoList, MapInv
<1>2. CASE Start
  <2>1. CASE Return("ErrApi") /\ UNCHANGED <<stream, events, podReadyMap, told>>
    BY <1>2, <2>1 DEF Start, Return, MapInv
  <2> DEFINE up == { p \in Pods : listed[p] # Absent /\ isPodReady(listed[p]) }
  <2>2. CASE /\ pc' = "loop"
             /\ podReadyMap' = [p \in Pods |-> p \in up]
             /\ told' = SetToSeq({ [pod |-> p, up |-> TRUE] : p \in up })
    <3>1. up \in SUBSET Pods /\ up \subseteq Pattern
      BY <1>2 DEF MapInv, Start
    <3> HIDE DEF up
    <3>2. /\ \A i \in 1 .. Len(told') : told'[i].pod \in up /\ told'[i].up
                                        /\ ~UpIn(told', i - 1, told'[i].pod)
          /\ \A p \in Pods : UpIn(told', Len(told'), p) <=> p \in up
      BY <2>2, <3>1, FirstTold
    <3> QED BY <2>2, <3>1, <3>2 DEF MapInv
  <2> QED BY <1>2, <2>1, <2>2 DEF Start
<1>3. CASE OnEvent
  <2> DEFINE e == Head(events)
  <2>1. /\ UNCHANGED <<pc, listed>> /\ pc = "loop"
        /\ \/ UNCHANGED <<told, podReadyMap>>
           \/ /\ e.pod \in Pods /\ e.pod \in Pattern
              /\ podReadyMap' = [podReadyMap EXCEPT ![e.pod] = Outcome(e)]
              /\ IF Outcome(e) # podReadyMap[e.pod] THEN Tell(e.pod, Outcome(e)) ELSE UNCHANGED told
    BY <1>3, OnEventCases DEF OnEvent
  <2>2. Outcome(e) \in BOOLEAN
    BY Zenon DEF Outcome
  <2>3. CASE UNCHANGED <<told, podReadyMap>>
    BY <2>1, <2>3 DEF MapInv
  <2> HIDE DEF e
  <2> QED BY <2>1, <2>2, <2>3, TellKeeps
<1>4. CASE UNCHANGED <<told, podReadyMap, listed>> /\ (pc' = "listed" => pc = "listed")
  BY <1>4 DEF MapInv
<1>5. CASE OnClosed \/ OnDone
  BY <1>4, <1>5 DEF OnClosed, OnDone, Return
<1>6. CASE Environment \/ UNCHANGED vars
  BY <1>4, <1>6
     DEF Environment, AddPod, ModifyPod, DeletePod, Change, Bookmark, EndStream, Cancel, vars
<1> QED
  BY <1>1, <1>2, <1>3, <1>5, <1>6 DEF Next, WatchPods

LEMMA InitMap == ASSUME Init PROVE MapInv
  BY DEF Init, MapInv, UpIn

LEMMA MapImplies == ASSUME TypeOK, MapInv PROVE AnnouncementsAlternate
<1>1. DOMAIN told = 1 .. Len(told)
  BY LenProperties DEF TypeOK
<1> QED
  BY <1>1, UpAfterIsUpIn DEF MapInv, AnnouncementsAlternate

(* The callbacks of a pod alternate, beginning with the one that it is      *)
(* available, however its events repeat or skip what it was.                *)
THEOREM Alternate == Spec => []AnnouncementsAlternate
<1>1. Init => TypeOK /\ MapInv
  BY InitTypes, InitMap
<1>2. TypeOK /\ MapInv /\ [Next]_vars => (TypeOK /\ MapInv)'
  BY TypesKept, MapKept
<1> QED
  BY <1>1, <1>2, MapImplies, PTL DEF Spec

-------------------------------------------------------------------------------
(* What was said last is true *)

(* What the map will say of p when the events s are delivered: the last of  *)
(* those about p decides, and Added events are about none.                  *)
Decides(s, p, i) == About(s[i], p) /\ \A j \in DOMAIN s : j > i => ~About(s[j], p)

Settled(s, p, map) ==
  \/ \E i \in DOMAIN s : Decides(s, p, i) /\ Outcome(s[i])
  \/ map[p] /\ \A i \in DOMAIN s : ~About(s[i], p)

TruthInv ==
  /\ pc = "listed" =>
       \A p \in Pattern : p \in Pods /\ (p \in unseen \/ listed[p] = cluster[p])
  /\ pc = "loop" /\ stream = "open" =>
       \A p \in Pattern : p \in unseen \/ (Settled(events, p, podReadyMap) <=> IsReady(p))

LEMMA SettledTail ==
  ASSUME NEW s \in Seq(Event), s # <<>>, NEW map \in [Pods -> BOOLEAN], NEW new \in [Pods -> BOOLEAN],
         NEW p \in Pods,
         IF About(Head(s), p) THEN new[p] = Outcome(Head(s)) ELSE new[p] = map[p]
  PROVE  Settled(Tail(s), p, new) <=> Settled(s, p, map)
<1> DEFINE t == Tail(s)
<1>1. /\ Len(s) \in Nat \ {0} /\ Len(t) = Len(s) - 1
      /\ DOMAIN s = 1 .. Len(s) /\ DOMAIN t = 1 .. Len(s) - 1
      /\ \A i \in 1 .. Len(s) - 1 : t[i] = s[i + 1]
      /\ Head(s) = s[1]
  BY HeadTailProperties, LenProperties, EmptySeq
<1> HIDE DEF t
<1>2. (\E i \in DOMAIN t : About(t[i], p)) <=> (\E i \in DOMAIN s : i > 1 /\ About(s[i], p))
  <2>1. ASSUME NEW i \in DOMAIN t, About(t[i], p) PROVE \E k \in DOMAIN s : k > 1 /\ About(s[k], p)
    <3>1. i + 1 \in DOMAIN s /\ i + 1 > 1 /\ t[i] = s[i + 1]
      BY <1>1
    <3> QED BY <2>1, <3>1
  <2>2. ASSUME NEW i \in DOMAIN s, i > 1, About(s[i], p) PROVE \E k \in DOMAIN t : About(t[k], p)
    <3>1. i - 1 \in DOMAIN t /\ t[i - 1] = s[i]
      BY <1>1, <2>2
    <3> QED BY <2>2, <3>1
  <2> QED BY <2>1, <2>2
<1>3. ASSUME NEW i \in DOMAIN t PROVE Decides(t, p, i) <=> Decides(s, p, i + 1)
  <2>1. i + 1 \in DOMAIN s /\ t[i] = s[i + 1]
    BY <1>1
  <2>2. \A j \in DOMAIN t : j > i => j + 1 \in DOMAIN s /\ j + 1 > i + 1 /\ t[j] = s[j + 1]
    BY <1>1
  <2>3. \A j \in DOMAIN s : j > i + 1 => j - 1 \in DOMAIN t /\ j - 1 > i /\ t[j - 1] = s[j]
    BY <1>1
  <2> QED BY <2>1, <2>2, <2>3 DEF Decides
<1>4. CASE \E i \in DOMAIN t : About(t[i], p)
  <2>1. ~(\A i \in DOMAIN t : ~About(t[i], p)) /\ ~(\A i \in DOMAIN s : ~About(s[i], p))
    BY <1>2, <1>4
  <2>2. ASSUME NEW i \in DOMAIN t, Decides(t, p, i), Outcome(t[i])
        PROVE  \E k \in DOMAIN s : Decides(s, p, k) /\ Outcome(s[k])
    <3>1. i + 1 \in DOMAIN s /\ t[i] = s[i + 1]
      BY <1>1
    <3> QED BY <1>3, <2>2, <3>1
  <2>3. ASSUME NEW k \in DOMAIN s, Decides(s, p, k), Outcome(s[k])
        PROVE  \E i \in DOMAIN t : Decides(t, p, i) /\ Outcome(t[i])
    <3>1. PICK m \in DOMAIN s : m > 1 /\ About(s[m], p)
      BY <1>2, <1>4
    <3>2. k > 1
      BY <1>1, <2>3, <3>1 DEF Decides
    <3>3. k - 1 \in DOMAIN t /\ t[k - 1] = s[k] /\ k - 1 + 1 = k
      BY <1>1, <3>2
    <3>4. Decides(t, p, k - 1)
      BY <1>3, <2>3, <3>3
    <3> QED BY <2>3, <3>3, <3>4
  <2>4. Settled(t, p, new) <=> Settled(s, p, map)
    BY <2>1, <2>2, <2>3, Zenon DEF Settled
  <2> QED BY <2>4 DEF t
<1>5. CASE \A i \in DOMAIN t : ~About(t[i], p)
  <2>1. \A i \in DOMAIN s : About(s[i], p) => i = 1
    BY <1>1, <1>2, <1>5
  <2>2. Settled(t, p, new) <=> new[p]
    BY <1>5 DEF Settled, Decides
  <2>3. CASE About(s[1], p)
    <3>1. 1 \in DOMAIN s /\ Decides(s, p, 1)
      BY <1>1, <2>1, <2>3 DEF Decides
    <3>2. \A i \in DOMAIN s : Decides(s, p, i) => i = 1
      BY <2>1 DEF Decides
    <3>3. Settled(s, p, map) <=> Outcome(s[1])
      BY <2>3, <3>1, <3>2 DEF Settled
    <3>4. new[p] = Outcome(s[1])
      BY <1>1, <2>3
    <3> QED BY <2>2, <3>3, <3>4 DEF t
  <2>4. CASE ~About(s[1], p)
    <3>1. \A i \in DOMAIN s : ~About(s[i], p)
      BY <2>1, <2>4
    <3>2. Settled(s, p, map) <=> map[p]
      BY <3>1 DEF Settled, Decides
    <3>3. new[p] = map[p]
      BY <1>1, <2>4
    <3> QED BY <2>2, <3>2, <3>3 DEF t
  <2> QED BY <2>3, <2>4
<1> QED
  BY <1>4, <1>5 DEF t

LEMMA SettledAppend ==
  ASSUME NEW s \in Seq(Event), NEW e \in Event, NEW map \in [Pods -> BOOLEAN], NEW p \in Pods
  PROVE  Settled(Append(s, e), p, map) <=>
           IF About(e, p) THEN Outcome(e) ELSE Settled(s, p, map)
<1> DEFINE t == Append(s, e)
           n == Len(s)
<1>1. /\ n \in Nat /\ DOMAIN s = 1 .. n /\ DOMAIN t = 1 .. n + 1
      /\ \A i \in 1 .. n : t[i] = s[i]
      /\ t[n + 1] = e
  BY AppendProperties, LenProperties
<1> HIDE DEF t, n
<1>2. CASE About(e, p)
  <2>1. n + 1 \in DOMAIN t /\ Decides(t, p, n + 1)
    BY <1>1, <1>2 DEF Decides
  <2>2. \A i \in DOMAIN t : Decides(t, p, i) => i = n + 1
    BY <1>1, <1>2 DEF Decides
  <2>3. Settled(t, p, map) <=> Outcome(e)
    BY <1>1, <1>2, <2>1, <2>2 DEF Settled
  <2> QED BY <1>2, <2>3 DEF t
<1>3. CASE ~About(e, p)
  <2>1. \A i \in DOMAIN s : Decides(t, p, i) <=> Decides(s, p, i)
    BY <1>1, <1>3 DEF Decides
  <2>2. ~Decides(t, p, n + 1)
    BY <1>1, <1>3 DEF Decides
  <2>3. (\A i \in DOMAIN t : ~About(t[i], p)) <=> (\A i \in DOMAIN s : ~About(s[i], p))
    BY <1>1, <1>3
  <2>4. \A i \in DOMAIN t : i \in DOMAIN s \/ i = n + 1
    BY <1>1
  <2>5. \A i \in DOMAIN s : i \in DOMAIN t /\ t[i] = s[i]
    BY <1>1
  <2>6. Settled(t, p, map) <=> Settled(s, p, map)
    BY <2>1, <2>2, <2>3, <2>4, <2>5 DEF Settled
  <2> QED BY <1>3, <2>6 DEF t
<1> QED
  BY <1>2, <1>3

(* The first events of a watch are about no pod. *)
LEMMA FirstEvents ==
  ASSUME TypeOK, NEW s,
         s = SetToSeq({ [type |-> "Added", pod |-> p, status |-> cluster[p]] : p \in Here }),
         NEW map, NEW p
  PROVE  Settled(s, p, map) <=> map[p]
<1> DEFINE A == { [type |-> "Added", pod |-> q, status |-> cluster[q]] : q \in Here }
<1>1. IsFiniteSet(A)
  BY FinitePods, FiniteAdded DEF Here
<1>2. \A e \in A : ~About(e, p)
  BY DEF About
<1> HIDE DEF A
<1>3. s \in Seq(A)
  BY <1>1, SequenceOfSet DEF A
<1>4. \A i \in DOMAIN s : ~About(s[i], p)
  BY <1>2, <1>3
<1> QED
  BY <1>4 DEF Settled, Decides

LEMMA TruthOfChange ==
  ASSUME TypeOK, TruthInv, NEW q \in Pods, NEW type \in {"Added", "Modified", "Deleted"},
         NEW s \in Statuses, Change(q, type, s), cluster[q] = Absent <=> type = "Added"
  PROVE  TruthInv'
<1> DEFINE e == [type |-> type, pod |-> q, status |-> s]
<1>1. e \in Event
  BY DEF Event
<1>2. /\ UNCHANGED <<pc, listed, stream, podReadyMap>>
      /\ \A p \in Pods : p # q => cluster'[p] = cluster[p]
      /\ cluster'[q] = IF type = "Deleted" THEN Absent ELSE s
  BY DEF Change, TypeOK
<1>3. CASE InGap
  <2>1. unseen' = unseen \cup {q}
    BY <1>3 DEF Change
  <2> QED BY <1>2, <1>3, <2>1 DEF TruthInv, InGap
<1>4. CASE ~InGap
  <2>1. pc = "loop"
    BY <1>4 DEF InGap
  <2>2. ASSUME stream = "open", NEW p \in Pattern
        PROVE  p \in unseen' \/ (Settled(events', p, podReadyMap) <=> IsReady(p)')
    <3>1. events' = Append(events, e) /\ events \in Seq(Event) /\ p \in Pods /\ podReadyMap \in [Pods -> BOOLEAN]
      BY <2>2, PodWatchAssumption DEF Change, Send, TypeOK
    <3>2. Settled(events', p, podReadyMap) <=>
            IF About(e, p) THEN Outcome(e) ELSE Settled(events, p, podReadyMap)
      BY <1>1, <3>1, SettledAppend
    <3>3. p \in unseen \/ (Settled(events, p, podReadyMap) <=> IsReady(p))
      BY <2>1, <2>2 DEF TruthInv
    <3>4. CASE p # q
      <4>1. ~About(e, p)
        BY <3>4 DEF About
      <4>2. IsReady(p)' <=> IsReady(p)
        BY <1>2, <3>1, <3>4 DEF IsReady
      <4>3. p \in unseen => p \in unseen'
        BY <3>4 DEF Change
      <4> QED BY <3>2, <3>3, <4>1, <4>2, <4>3
    <3>5. CASE p = q /\ type = "Added"
      <4>1. ~About(e, p) /\ ~IsReady(p)
        BY <3>5 DEF About, IsReady
      <4>2. CASE isPodReady(s)
        <5>1. unseen' = unseen \cup {q}
          BY <1>4, <3>5, <4>2 DEF Change
        <5> QED BY <3>5, <5>1
      <4>3. CASE ~isPodReady(s)
        <5>1. unseen' = unseen
          BY <1>4, <3>5, <4>3 DEF Change
        <5>2. ~IsReady(p)'
          BY <1>2, <3>5, <4>3 DEF IsReady
        <5> QED BY <3>2, <3>3, <4>1, <5>1, <5>2
      <4> QED BY <4>2, <4>3
    <3>6. CASE p = q /\ type # "Added"
      <4>1. About(e, p)
        BY <3>6 DEF About
      <4>2. s # Absent
        BY PodWatchAssumption
      <4>3. Outcome(e) <=> IsReady(p)'
        BY <1>2, <3>6, <4>2 DEF Outcome, IsReady
      <4> QED BY <3>2, <4>1, <4>3
    <3> QED BY <3>4, <3>5, <3>6
  <2> QED BY <1>2, <2>1, <2>2 DEF TruthInv
<1> QED
  BY <1>3, <1>4

LEMMA TruthKept == ASSUME TypeOK, MapInv, TruthInv, [Next]_vars PROVE TruthInv'
<1>1. CASE DoList
  <2>1. pc' = "listed" => \A p \in Pattern : p \in Pods /\ listed'[p] = cluster'[p]
    <3>1. \A p \in Pattern : p \in Pods
      BY PodWatchAssumption
    <3>2. CASE pc' = "listed"
      <4>1. listed' = [p \in Pods |-> IF p \in ListPods THEN cluster[p] ELSE Absent]
        BY <1>1, <3>2 DEF DoList, Return
      <4>2. \A p \in Pattern : cluster[p] # Absent => p \in ListPods
        BY <3>1, ListedPods
      <4> QED BY <1>1, <3>1, <4>1, <4>2 DEF DoList
    <3> QED BY <3>2
  <2>2. pc' # "loop"
    BY <1>1 DEF DoList, Return
  <2> QED BY <2>1, <2>2 DEF TruthInv
<1>2. CASE Start
  <2>1. CASE Return("ErrApi")
    BY <2>1 DEF Return, TruthInv
  <2> DEFINE up == { p \in Pods : listed[p] # Absent /\ isPodReady(listed[p]) }
  <2>2. CASE /\ pc' = "loop"
             /\ events' = SetToSeq({ [type |-> "Added", pod |-> p, status |-> cluster[p]] : p \in Here })
             /\ podReadyMap' = [p \in Pods |-> p \in up]
    <3>1. ASSUME NEW p \in Pattern
          PROVE  p \in unseen' \/ (Settled(events', p, podReadyMap') <=> IsReady(p)')
      <4>1. p \in Pods /\ (p \in unseen \/ listed[p] = cluster[p])
        BY <1>2, <3>1 DEF Start, TruthInv
      <4>2. unseen' = unseen /\ cluster' = cluster
        BY <1>2 DEF Start
      <4>3. Settled(events', p, podReadyMap') <=> podReadyMap'[p]
        BY <2>2, FirstEvents
      <4>4. podReadyMap'[p] <=> listed[p] # Absent /\ isPodReady(listed[p])
        BY <2>2, <4>1
      <4>5. IsReady(p)' <=> cluster[p] # Absent /\ isPodReady(cluster[p])
        BY <4>2 DEF IsReady
      <4> QED BY <4>1, <4>2, <4>3, <4>4, <4>5
    <3> QED BY <2>2, <3>1 DEF TruthInv
  <2> QED BY <1>2, <2>1, <2>2 DEF Start
<1>3. CASE OnEvent
  <2> DEFINE e == Head(events)
  <2>1. /\ e \in Event /\ events' = Tail(events) /\ events # <<>> /\ events \in Seq(Event)
        /\ UNCHANGED <<pc, cluster, listed, stream, unseen>> /\ pc = "loop"
        /\ \/ ~Concerns(e) /\ UNCHANGED <<told, podReadyMap>>
           \/ /\ e.type \in {"Modified", "Deleted"} /\ e.pod \in Pods /\ e.pod \in Pattern
              /\ podReadyMap' = [podReadyMap EXCEPT ![e.pod] = Outcome(e)]
    BY <1>3, OnEventCases DEF OnEvent, TypeOK
  <2>2. podReadyMap \in [Pods -> BOOLEAN] /\ podReadyMap' \in [Pods -> BOOLEAN]
    BY <1>3, TypesKept DEF TypeOK, Next, WatchPods
  <2>3. ASSUME NEW p \in Pattern
        PROVE  Settled(events', p, podReadyMap') <=> Settled(events, p, podReadyMap)
    <3>1. p \in Pods
      BY PodWatchAssumption
    <3>2. IF About(e, p) THEN podReadyMap'[p] = Outcome(e) ELSE podReadyMap'[p] = podReadyMap[p]
      BY <2>1, <2>2, <2>3, <3>1 DEF About, Concerns
    <3> QED BY <2>1, <2>2, <3>1, <3>2, SettledTail
  <2>4. \A p : IsReady(p)' <=> IsReady(p)
    BY <2>1 DEF IsReady
  <2> QED BY <2>1, <2>3, <2>4 DEF TruthInv
<1>4. CASE OnClosed \/ OnDone
  BY <1>4 DEF OnClosed, OnDone, Return, TruthInv
<1>5. ASSUME NEW p \in Pods, AddPod(p) \/ ModifyPod(p) \/ DeletePod(p) PROVE TruthInv'
  BY <1>5, ChangeCases, TruthOfChange
<1>6. CASE Bookmark
  <2> DEFINE e == [type |-> "Bookmark"]
  <2>1. e \in Event /\ \A p : ~About(e, p)
    BY DEF Event, About
  <2>2. /\ events \in Seq(Event) /\ podReadyMap \in [Pods -> BOOLEAN] /\ events' = Append(events, e)
        /\ UNCHANGED <<pc, cluster, listed, stream, podReadyMap, unseen>>
    BY <1>6 DEF Bookmark, Send, TypeOK
  <2>3. \A p \in Pattern : Settled(events', p, podReadyMap) <=> Settled(events, p, podReadyMap)
    BY <2>1, <2>2, SettledAppend, PodWatchAssumption
  <2>4. \A p : IsReady(p)' <=> IsReady(p)
    BY <2>2 DEF IsReady
  <2> QED BY <2>2, <2>3, <2>4 DEF TruthInv
<1>7. CASE EndStream
  BY <1>7 DEF EndStream, TruthInv
<1>8. CASE Cancel \/ UNCHANGED vars
  <2>1. UNCHANGED <<pc, cluster, listed, stream, events, podReadyMap, unseen>>
    BY <1>8 DEF Cancel, vars
  <2>2. \A p : IsReady(p)' <=> IsReady(p)
    BY <2>1 DEF IsReady
  <2> QED BY <2>1, <2>2 DEF TruthInv
<1> QED
  BY <1>1, <1>2, <1>3, <1>4, <1>5, <1>6, <1>7, <1>8 DEF Next, WatchPods, Environment

LEMMA TruthImplies == ASSUME TypeOK, MapInv, TruthInv PROVE SaidLastIsTrue
<1>1. DOMAIN told = 1 .. Len(told)
  BY LenProperties DEF TypeOK
<1>2. ASSUME pc = "loop", events = <<>>, stream = "open", NEW p \in Pods, p \in Pattern, p \notin unseen
      PROVE  UpAfter(Len(told), p) <=> IsReady(p)
  <2>1. DOMAIN events = {}
    BY <1>2
  <2>2. Settled(events, p, podReadyMap) <=> podReadyMap[p]
    BY <2>1 DEF Settled
  <2>3. podReadyMap[p] <=> UpAfter(Len(told), p)
    BY UpAfterIsUpIn DEF MapInv
  <2> QED BY <1>2, <2>2, <2>3 DEF TruthInv
<1>3. \A i \in DOMAIN told : told[i].pod \in Pattern
  BY <1>1 DEF MapInv
<1> QED
  BY <1>2, <1>3 DEF SaidLastIsTrue

(* Between events, what was said last of an admitted pod is true of it, but *)
(* for changes that fell into the gap or were additions.                    *)
THEOREM SaidLast == Spec => []SaidLastIsTrue
<1>1. Init => TypeOK /\ MapInv /\ TruthInv
  <2>1. Init => TruthInv
    BY DEF Init, TruthInv
  <2> QED BY <2>1, InitTypes, InitMap
<1>2. TypeOK /\ MapInv /\ TruthInv /\ [Next]_vars => (TypeOK /\ MapInv /\ TruthInv)'
  BY TypesKept, MapKept, TruthKept
<1> QED
  BY <1>1, <1>2, TruthImplies, PTL DEF Spec
================================================================================
