----------------------------- MODULE Cache_proofs -----------------------------
(***************************************************************************)
(* Theorems about Cache, for any keys, clients, options, times and number  *)
(* of calls: the types of its variables, what the last Set or Delete       *)
(* leaves, when Get fails unexpectedly, how recent what it returns is, and *)
(* how many rounds follow a cancellation.                                  *)
(***************************************************************************)
EXTENDS Cache, TLAPS

(* The part of the type invariant about one call, and about the map and the *)
(* refresher.                                                               *)
CallOK(r) ==
  /\ r \in Call
  /\ r.pc \in HasItem => r.item \in Item
  /\ r.pc = "refresh" => r.item.src # NoSource
  /\ r.pc = "load" => r.opts.src # NoSource

CallsOK == call \in [Clients -> Call] /\ \A c \in Clients : CallOK(call[c])

MapOK == DOMAIN m \subseteq Keys /\ m \in [DOMAIN m -> Item]

RefOK ==
  /\ ref \in Ref
  /\ ref.pc \in Cloned => ref.item \in Item
  /\ ref.pc = "refresh" => ref.item.src # NoSource

RestOK ==
  /\ now \in Times
  /\ calls \in 0 .. MaxCalls
  /\ ticker \in {"runs", "tickLeft", "stopped"}
  /\ ctxDone \in BOOLEAN
  /\ left \in [Keys -> [gen : Nat, overtaken : BOOLEAN]]
  /\ late \in 0 .. 3

LEMMA TypeParts ==
  /\ TypeOK <=> CallsOK /\ MapOK /\ RefOK /\ RestOK
  /\ TypeOK' <=> CallsOK' /\ MapOK' /\ RefOK' /\ RestOK'
  BY DEF TypeOK, CallsOK, CallOK, MapOK, RefOK, RestOK

LEMMA NoCallType == NoCall \in Call /\ NoCall.pc = "idle" /\ NoCall.key \in Keys
<1>1. PICK k \in Keys, o \in Options : k = NoCall.key /\ o = NoCall.opts
  BY CacheAssumption DEF NoCall
<1> QED
  BY <1>1, CacheAssumption DEF NoCall, Call, Pcs, Errors

LEMMA RoundType ==
  ASSUME NEW todo \in SUBSET Keys
  PROVE  /\ Round(todo) \in Ref /\ Round(todo).pc = "round"
         /\ Selecting \in Ref /\ Selecting.pc = "select"
  BY NoCallType DEF Round, Selecting, Ref

LEMMA InitTypeOK == Init => TypeOK
<1> SUFFICES ASSUME Init PROVE TypeOK
  OBVIOUS
<1>1. m \in [DOMAIN m -> Item] /\ DOMAIN m \subseteq Keys
  BY DEF Init
<1>2. ref \in Ref /\ ref.pc = "select"
  BY RoundType DEF Init
<1>3. call \in [Clients -> Call] /\ \A c \in Clients : call[c].pc = "idle"
  BY NoCallType DEF Init
<1>4. /\ now \in Times /\ calls \in 0 .. MaxCalls
      /\ ticker \in {"runs", "tickLeft", "stopped"} /\ late \in 0 .. 3
  BY CacheAssumption DEF Init
<1>6. ctxDone \in BOOLEAN
  BY DEF Init
<1>7. left \in [Keys -> [gen : Nat, overtaken : BOOLEAN]]
  <2>1. [gen |-> 0, overtaken |-> FALSE] \in [gen : Nat, overtaken : BOOLEAN]
    OBVIOUS
  <2> QED BY <2>1 DEF Init
<1>5. ref.pc \notin Cloned /\ \A c \in Clients : call[c].pc \notin HasItem
  BY <1>2, <1>3 DEF HasItem, Cloned
<1> QED
  BY <1>1, <1>2, <1>3, <1>4, <1>5, <1>6, <1>7 DEF TypeOK

(* Operations of the map keep its type. *)
LEMMA PutType ==
  ASSUME MapOK, NEW k \in Keys, NEW item \in Item, Put(k, item)
  PROVE  MapOK'
  BY DEF MapOK, Put

LEMMA RemoveType ==
  ASSUME MapOK, NEW k \in Keys, Remove(k)
  PROVE  MapOK'
  BY DEF MapOK, Remove, Restrict

(* One call's record changes. *)
LEMMA CallChanges ==
  ASSUME CallsOK, NEW c \in Clients, NEW r, CallOK(r), call' = [call EXCEPT ![c] = r]
  PROVE  CallsOK'
<1>1. call' \in [Clients -> Call]
  BY DEF CallsOK, CallOK
<1>2. \A d \in Clients : call'[d] = IF d = c THEN r ELSE call[d]
  BY DEF CallsOK
<1> QED
  BY <1>1, <1>2 DEF CallsOK

LEMMA GotoType ==
  ASSUME CallsOK, NEW c \in Clients, NEW pc \in Pcs, Goto(c, pc),
         pc \in HasItem => call[c].item \in Item,
         pc = "refresh" => call[c].item.src # NoSource,
         pc = "load" => call[c].opts.src # NoSource
  PROVE  CallsOK'
<1>1. CallOK([call[c] EXCEPT !.pc = pc])
  BY DEF CallsOK, CallOK, Call
<1> QED
  BY <1>1, CallChanges DEF Goto, CallsOK

LEMMA AnswerType ==
  ASSUME CallsOK, NEW c \in Clients, NEW err \in Errors, NEW item \in Item \cup {NoItem},
         Answer(c, err, item)
  PROVE  CallsOK'
<1> DEFINE r == [call[c] EXCEPT !.pc = "answered", !.err = err, !.item = item]
<1>1. CallOK(r)
  BY DEF CallsOK, CallOK, Call, Pcs, HasItem, Cloned
<1>2. call' = [call EXCEPT ![c] = r]
  BY DEF Answer, CallsOK
<1> QED
  BY <1>1, <1>2, CallChanges

LEMMA BeginType ==
  ASSUME TypeOK, NEW c \in Clients, NEW pc \in {"make", "load", "look", "delete", "answered"},
         NEW err \in Errors, NEW k \in Keys, NEW o \in Options, Begin(c, pc, err, k, o),
         pc = "load" => o.src # NoSource
  PROVE  CallsOK' /\ calls' \in 0 .. MaxCalls
<1> DEFINE r == [pc |-> pc, key |-> k, opts |-> o, item |-> NoItem, began |-> now,
                 gen |-> calls', missed |-> FALSE, cut |-> FALSE, err |-> err]
<1>1. calls' \in 0 .. MaxCalls /\ calls' \in Nat
  BY CacheAssumption DEF TypeOK, Begin
<1>2. now \in Nat
  BY CacheAssumption DEF TypeOK
<1>3. CallOK(r)
  BY <1>1, <1>2 DEF CallOK, Call, Pcs, HasItem, Cloned
<1>4. call' = [call EXCEPT ![c] = r]
  BY DEF Begin
<1> HIDE DEF r
<1> QED
  BY <1>1, <1>3, <1>4, CallChanges, TypeParts

(* What a client does leaves the refresher and its surroundings alone. *)
LEMMA ClientStepType ==
  ASSUME TypeOK, NEW c \in Clients, ClientStep(c)
  PROVE  TypeOK'
<1> USE TypeParts
<1>1. CallsOK /\ MapOK /\ RefOK /\ RestOK /\ CallOK(call[c]) /\ call[c] \in Call
  BY DEF CallsOK, CallOK
<1>2. UNCHANGED <<now, calls, ref, ticker, ctxDone, late>>
  BY DEF ClientStep, EndLoad, MakeItem, StoreItem, Look, LookAgain, Check, EndRefresh,
         StoreRefreshed, Delete, Return
<1>3. RefOK'
  BY <1>1, <1>2 DEF RefOK
<1>4. ASSUME UNCHANGED left PROVE RestOK'
  BY <1>1, <1>2, <1>4 DEF RestOK
<1>5. ASSUME UNCHANGED m PROVE MapOK'
  BY <1>1, <1>5 DEF MapOK
<1>6. now \in Nat
  BY <1>1, CacheAssumption DEF RestOK
<1>7. call[c].key \in Keys /\ call[c].opts \in Options /\ call[c].gen \in Nat
  BY <1>1 DEF Call
<1>8. {"idle", "load", "make", "store", "look", "again", "delete", "answered"} \subseteq Pcs \ Cloned
  BY DEF Pcs, Cloned
<1>9. ASSUME NEW g \in Nat, NEW b \in BOOLEAN, NEW k \in Keys,
             left' = [left EXCEPT ![k] = [gen |-> g, overtaken |-> b]]
      PROVE  RestOK'
  <2>1. [gen |-> g, overtaken |-> b] \in [gen : Nat, overtaken : BOOLEAN]
    OBVIOUS
  <2>2. left' \in [Keys -> [gen : Nat, overtaken : BOOLEAN]]
    BY <1>1, <1>9, <2>1 DEF RestOK
  <2> QED BY <1>1, <1>2, <2>2 DEF RestOK
<1>10. CASE EndLoad(c)
  BY <1>1, <1>3, <1>4, <1>5, <1>8, <1>10, GotoType, AnswerType
     DEF EndLoad, HasItem, Cloned, Errors
<1>11. CASE MakeItem(c)
  <2> DEFINE item == [ts |-> now, ttl |-> call[c].opts.ttl, src |-> call[c].opts.src,
                      lazy |-> call[c].opts.lazy, gen |-> call[c].gen]
             r == [call[c] EXCEPT !.pc = "store", !.item = item]
  <2>1. item \in Item
    BY <1>6, <1>7, CacheAssumption DEF Item
  <2> HIDE DEF item
  <2>2. CallOK(r)
    BY <1>1, <1>8, <2>1 DEF CallOK, Call
  <2>3. call' = [call EXCEPT ![c] = r]
    BY <1>1, <1>11 DEF MakeItem, CallsOK, item
  <2> QED
    BY <1>1, <1>3, <1>4, <1>5, <1>11, <2>2, <2>3, CallChanges DEF MakeItem
<1>12. CASE StoreItem(c)
  <2>1. call[c].item \in Item
    BY <1>1, <1>12 DEF StoreItem, At, CallOK, HasItem
  <2>2. MapOK'
    BY <1>1, <1>7, <1>12, <2>1, PutType DEF StoreItem
  <2>3. CallsOK'
    BY <1>1, <1>8, <1>12, GotoType, AnswerType DEF StoreItem, HasItem, Cloned, Errors
  <2>4. CloneIsAround(call[c].key, c) \in BOOLEAN
    BY DEF CloneIsAround
  <2>5. RestOK'
    BY <1>7, <1>9, <1>12, <2>4 DEF StoreItem
  <2> QED BY <1>3, <2>2, <2>3, <2>5
<1>13. CASE Look(c)
  <2>1. CASE Has(call[c].key)
    <3> DEFINE r == [call[c] EXCEPT !.pc = "check", !.item = m[call[c].key]]
    <3>1. m[call[c].key] \in Item
      BY <1>1, <2>1 DEF Has, MapOK
    <3>2. CallOK(r)
      BY <1>1, <3>1 DEF CallOK, Call, Pcs, Cloned
    <3>3. call' = [call EXCEPT ![c] = r]
      BY <1>1, <1>13, <2>1 DEF Look, CallsOK
    <3> QED BY <1>1, <1>3, <1>4, <1>5, <1>13, <3>2, <3>3, CallChanges DEF Look
  <2>2. CASE ~Has(call[c].key) /\ SetIsRefused(call[c].opts)
    BY <1>1, <1>3, <1>4, <1>5, <1>13, <2>2, AnswerType DEF Look, Errors
  <2>3. CASE ~Has(call[c].key) /\ ~SetIsRefused(call[c].opts)
    <3> DEFINE r == [call[c] EXCEPT !.pc = SetStarts(call[c].opts), !.missed = TRUE]
    <3>1. CallOK(r)
      BY <1>1, <1>7, <2>3, CacheAssumption
         DEF CallOK, Call, Pcs, HasItem, Cloned, SetStarts, SetIsRefused
    <3>2. call' = [call EXCEPT ![c] = r]
      BY <1>1, <1>13, <2>3 DEF Look, CallsOK
    <3> QED BY <1>1, <1>3, <1>4, <1>5, <1>13, <3>1, <3>2, CallChanges DEF Look
  <2> QED BY <2>1, <2>2, <2>3
<1>14. CASE LookAgain(c)
  <2>1. Has(call[c].key) => m[call[c].key] \in Item
    BY <1>1 DEF Has, MapOK
  <2> QED
    BY <1>1, <1>3, <1>4, <1>5, <1>14, <2>1, AnswerType DEF LookAgain, Errors
<1>15. CASE Check(c)
  <2>1. call[c].item \in Item
    BY <1>1, <1>15 DEF Check, At, CallOK, HasItem, Cloned
  <2>2. CASE NeedsRefresh(call[c].item)
    BY <1>1, <1>3, <1>4, <1>5, <1>15, <2>1, <2>2, GotoType
       DEF Check, NeedsRefresh, Pcs, Cloned
  <2>3. CASE ~NeedsRefresh(call[c].item)
    <3>1. \E err \in {"nil", "ErrStale", "ErrNoRefresher"} : Answer(c, err, call[c].item)
      BY <1>15, <2>3 DEF Check
    <3> QED
      BY <1>1, <1>3, <1>4, <1>5, <1>15, <2>1, <3>1, AnswerType DEF Check, Errors
  <2> QED BY <2>2, <2>3
<1>16. CASE EndRefresh(c)
  <2>1. call[c].item \in Item
    BY <1>1, <1>16 DEF EndRefresh, At, CallOK, HasItem, Cloned
  <2> DEFINE r == [call[c] EXCEPT !.pc = "storeRefreshed", !.item = Refreshed(call[c].item)]
  <2>2. Refreshed(call[c].item) \in Item
    BY <1>6, <2>1 DEF Refreshed, Item
  <2>3. CallOK(r)
    BY <1>1, <2>2 DEF CallOK, Call, Pcs, Cloned
  <2>4. CASE call' = [call EXCEPT ![c].pc = "storeRefreshed",
                                  ![c].item = Refreshed(call[c].item)]
    <3>1. call' = [call EXCEPT ![c] = r]
      BY <1>1, <2>4 DEF CallsOK
    <3> QED BY <1>1, <1>3, <1>4, <1>5, <1>16, <2>3, <3>1, CallChanges DEF EndRefresh
  <2>5. CASE Answer(c, "ErrStale", call[c].item) \/ Answer(c, "ErrOfRefresher", NoItem)
    BY <1>1, <1>3, <1>4, <1>5, <1>16, <2>1, <2>5, AnswerType DEF EndRefresh, Errors
  <2> QED BY <1>16, <2>4, <2>5 DEF EndRefresh
<1>17. CASE StoreRefreshed(c)
  <2>1. call[c].item \in Item
    BY <1>1, <1>17 DEF StoreRefreshed, At, CallOK, HasItem, Cloned
  <2>2. MapOK'
    BY <1>1, <1>7, <1>17, <2>1, PutType DEF StoreRefreshed
  <2>3. CallsOK'
    BY <1>1, <1>17, <2>1, AnswerType DEF StoreRefreshed, Errors
  <2> QED BY <1>3, <1>4, <1>17, <2>2, <2>3 DEF StoreRefreshed
<1>18. CASE Delete(c)
  <2>1. MapOK'
    BY <1>1, <1>7, <1>18, RemoveType DEF Delete
  <2>2. \A d \in Clients : CallOK(call'[d]) /\ call'[d] \in Call
    <3> SUFFICES ASSUME NEW d \in Clients PROVE CallOK(call'[d])
      BY DEF CallOK
    <3>1. CallOK(call[d])
      BY <1>1 DEF CallsOK
    <3>2. CASE d = c
      <4>1. call'[d] = [call[d] EXCEPT !.pc = "answered", !.err = "nil"]
        BY <1>18, <3>2 DEF Delete
      <4> QED BY <3>1, <4>1 DEF CallOK, Call, Pcs, HasItem, Cloned, Errors
    <3>3. CASE d # c
      <4>1. call'[d] \in {call[d], [call[d] EXCEPT !.cut = TRUE]}
        BY <1>18, <3>3 DEF Delete
      <4> QED BY <3>1, <4>1 DEF CallOK, Call
    <3> QED BY <3>2, <3>3
  <2>3. CallsOK'
    <3>1. call' = [d \in Clients |-> call'[d]]
      BY <1>18 DEF Delete
    <3> QED BY <2>2, <3>1 DEF CallsOK
  <2>4. CloneIsAround(call[c].key, c) \in BOOLEAN
    BY DEF CloneIsAround
  <2>5. RestOK'
    BY <1>7, <1>9, <1>18, <2>4 DEF Delete
  <2> QED BY <1>3, <2>1, <2>3, <2>5
<1>19. CASE Return(c)
  <2>1. CallOK(NoCall)
    BY NoCallType DEF CallOK, HasItem, Cloned
  <2> QED BY <1>1, <1>3, <1>4, <1>5, <1>19, <2>1, CallChanges DEF Return
<1> QED
  BY <1>10, <1>11, <1>12, <1>13, <1>14, <1>15, <1>16, <1>17, <1>18, <1>19 DEF ClientStep

(* The refresher leaves the calls alone. *)
LEMMA RefresherStepType ==
  ASSUME TypeOK, RefresherStep
  PROVE  TypeOK'
<1> USE TypeParts
<1>1. CallsOK /\ MapOK /\ RefOK /\ RestOK
  OBVIOUS
<1>2. UNCHANGED <<now, calls, call, ctxDone, left>>
  BY DEF RefresherStep, SelectTick, EndRound, ReadKey, CheckKey, RefreshKey, StoreKey
<1>3. CallsOK'
  BY <1>1, <1>2 DEF CallsOK
<1>4. RestOK'
  BY <1>1, <1>2 DEF RestOK, RefresherStep, SelectTick, EndRound, ReadKey, CheckKey,
                    RefreshKey, StoreKey
<1>5. ASSUME UNCHANGED m PROVE MapOK'
  BY <1>1, <1>5 DEF MapOK
<1>6. ref.todo \in SUBSET Keys /\ ref.key \in Keys
  BY <1>1 DEF RefOK, Ref
<1>7. ASSUME NEW todo \in SUBSET Keys, ref' = Round(todo) \/ ref' = Selecting
      PROVE  RefOK'
  BY <1>7, RoundType DEF RefOK, Cloned
<1>8. CASE SelectTick
  BY <1>1, <1>3, <1>4, <1>5, <1>7, <1>8 DEF SelectTick, MapOK
<1>9. CASE EndRound
  BY <1>3, <1>4, <1>5, <1>6, <1>7, <1>9 DEF EndRound
<1>10. CASE ReadKey
  <2>1. PICK k \in ref.todo :
          ref' = IF Has(k) /\ ~m[k].lazy
                   THEN [pc |-> "check", todo |-> ref.todo \ {k}, key |-> k, item |-> m[k]]
                   ELSE Round(ref.todo \ {k})
    BY <1>10 DEF ReadKey
  <2>2. CASE Has(k) /\ ~m[k].lazy
    <3>1. m[k] \in Item
      BY <1>1, <2>2 DEF Has, MapOK
    <3>2. RefOK'
      BY <1>6, <2>1, <2>2, <3>1 DEF RefOK, Ref, Cloned
    <3> QED BY <1>3, <1>4, <1>5, <1>10, <3>2 DEF ReadKey
  <2>3. CASE ~(Has(k) /\ ~m[k].lazy)
    BY <1>3, <1>4, <1>5, <1>6, <1>7, <1>10, <2>1, <2>3 DEF ReadKey
  <2> QED BY <2>2, <2>3
<1>11. CASE CheckKey
  <2>1. CASE NeedsRefresh(ref.item)
    BY <1>1, <1>3, <1>4, <1>5, <1>11, <2>1 DEF CheckKey, RefOK, Ref, Cloned, NeedsRefresh
  <2>2. CASE ~NeedsRefresh(ref.item)
    BY <1>3, <1>4, <1>5, <1>6, <1>7, <1>11, <2>2 DEF CheckKey
  <2> QED BY <2>1, <2>2
<1>12. CASE RefreshKey
  <2>1. CASE ref' = [ref EXCEPT !.pc = "storeRefreshed", !.item = Refreshed(ref.item)]
    <3>1. now \in Nat
      BY <1>1, CacheAssumption DEF RestOK
    <3>2. Refreshed(ref.item) \in Item
      BY <1>1, <1>12, <3>1 DEF RefreshKey, RefOK, Cloned, Refreshed, Item
    <3>3. RefOK'
      BY <1>1, <2>1, <3>2 DEF RefOK, Ref, Cloned
    <3> QED BY <1>3, <1>4, <1>5, <1>12, <3>3 DEF RefreshKey
  <2>2. CASE RefreshFails
    BY <1>3, <1>4, <1>5, <1>6, <1>7, <1>12, <2>2 DEF RefreshKey, RefreshFails
  <2> QED BY <1>12, <2>1, <2>2 DEF RefreshKey
<1>13. CASE StoreKey
  <2>1. ref.item \in Item
    BY <1>1, <1>13 DEF StoreKey, RefOK, Cloned
  <2>2. MapOK'
    BY <1>1, <1>6, <1>13, <2>1, PutType DEF StoreKey
  <2> QED BY <1>3, <1>4, <1>6, <1>7, <1>13, <2>2 DEF StoreKey
<1> QED
  BY <1>8, <1>9, <1>10, <1>11, <1>12, <1>13 DEF RefresherStep

LEMMA StepTypeOK == TypeOK /\ [Next]_vars => TypeOK'
<1> SUFFICES ASSUME TypeOK, [Next]_vars PROVE TypeOK'
  OBVIOUS
<1> USE TypeParts
<1>1. CallsOK /\ MapOK /\ RefOK /\ RestOK
  OBVIOUS
<1>2. ASSUME NEW c \in Clients, CallSet(c) \/ CallGet(c) \/ CallDelete(c) PROVE TypeOK'
  <2>1. UNCHANGED <<now, m, ref, ticker, ctxDone, left, late>>
    BY <1>2 DEF CallSet, CallGet, CallDelete, Begin
  <2>2. CallsOK' /\ calls' \in 0 .. MaxCalls
    <3>1. CASE CallSet(c)
      <4>1. PICK k \in Keys, o \in Options :
              IF SetIsRefused(o) THEN Begin(c, "answered", "ErrNoRefresher", k, o)
                                 ELSE Begin(c, SetStarts(o), "none", k, o)
        BY <3>1 DEF CallSet
      <4>2. CASE SetIsRefused(o)
        BY <4>1, <4>2, BeginType DEF Errors
      <4>3. CASE ~SetIsRefused(o)
        <5>1. SetStarts(o) \in {"make", "load"} /\ (SetStarts(o) = "load" => o.src # NoSource)
          BY <4>3, CacheAssumption DEF SetStarts, SetIsRefused
        <5> QED BY <4>1, <4>3, <5>1, BeginType DEF Errors
      <4> QED BY <4>2, <4>3
    <3>2. CASE CallGet(c)
      BY <3>2, BeginType DEF CallGet, Errors
    <3>3. CASE CallDelete(c)
      <4>1. NoCall.opts \in Options
        BY NoCallType DEF Call
      <4> QED BY <3>3, <4>1, BeginType DEF CallDelete, Errors
    <3> QED BY <1>2, <3>1, <3>2, <3>3
  <2> QED BY <1>1, <2>1, <2>2 DEF MapOK, RefOK, RestOK
<1>3. ASSUME NEW c \in Clients, ClientStep(c) PROVE TypeOK'
  BY <1>3, ClientStepType
<1>4. CASE RefresherStep
  BY <1>4, RefresherStepType
<1>5. CASE SelectDone \/ Tick \/ Cancel \/ UNCHANGED vars
  <2>1. UNCHANGED <<m, calls, call, ref, left>>
    BY <1>5 DEF SelectDone, Tick, Cancel, vars
  <2>2. now' \in Times
    BY <1>1, <1>5 DEF SelectDone, Tick, Cancel, vars, RestOK
  <2>3. ticker' \in {"runs", "tickLeft", "stopped"} /\ late' \in 0 .. 3
    BY <1>1, <1>5 DEF SelectDone, Tick, Cancel, vars, RestOK
  <2>4. ctxDone' \in BOOLEAN
    BY <1>1, <1>5 DEF SelectDone, Tick, Cancel, vars, RestOK
  <2>5. CallsOK' /\ MapOK' /\ RefOK'
    BY <1>1, <2>1 DEF CallsOK, MapOK, RefOK
  <2>6. RestOK'
    BY <1>1, <2>1, <2>2, <2>3, <2>4 DEF RestOK
  <2> QED BY <2>5, <2>6
<1> QED
  BY <1>2, <1>3, <1>4, <1>5 DEF Next

(* Every variable of the cache keeps its type, and neither Get nor the      *)
(* refresher calls a nil refresher (cache.go:74, 146-148, 295).             *)
THEOREM TypeCorrect == Spec => []TypeOK
  BY InitTypeOK, StepTypeOK, PTL DEF Spec

-------------------------------------------------------------------------------
(* A clone of an item of k has the gen of the last Set of k, unless it was  *)
(* overtaken; an item about to be stored has its own call's.                *)
ClonesAreOfLast ==
  /\ \A c \in Clients :
       call[c].pc \in Cloned /\ ~left[call[c].key].overtaken =>
         call[c].item.gen = left[call[c].key].gen
  /\ ref.pc \in Cloned /\ ~left[ref.key].overtaken => ref.item.gen = left[ref.key].gen
  /\ \A c \in Clients : call[c].pc = "store" => call[c].item.gen = call[c].gen

LastInv == TypeOK /\ LastCallWins /\ ClonesAreOfLast

(* What a step does to the call of c that leaves the map alone: it comes to *)
(* hold no item, or keeps the one it had, refreshed perhaps, or made it, or *)
(* cloned it from the map.                                                  *)
ItemOrigin(c) ==
  \/ call'[c].pc \notin HasItem
  \/ /\ call'[c].pc \in Cloned /\ call[c].pc \in Cloned
     /\ call'[c].key = call[c].key /\ call'[c].item.gen = call[c].item.gen
  \/ call'[c].pc = "store" /\ call'[c].item.gen = call'[c].gen
  \/ /\ call'[c].pc = "check" /\ call'[c].key \in DOMAIN m
     /\ call'[c].item = m[call'[c].key]

LEMMA ItemOrigins ==
  ASSUME TypeOK, NEW c \in Clients,
         \/ CallSet(c) \/ CallGet(c) \/ CallDelete(c) \/ EndLoad(c) \/ MakeItem(c)
         \/ Look(c) \/ LookAgain(c) \/ Check(c) \/ EndRefresh(c) \/ Return(c)
  PROVE  /\ UNCHANGED <<m, ref, left>>
         /\ \A d \in Clients \ {c} : call'[d] = call[d]
         /\ ItemOrigin(c)
<1> USE DEF HasItem, Cloned
<1>1. call \in [Clients -> Call] /\ \A d \in Clients : call[d] \in Call
  BY DEF TypeOK
<1>2. CASE CallSet(c) \/ CallGet(c) \/ CallDelete(c)
  <2>1. PICK pc \in {"make", "load", "look", "delete", "answered"} :
          \E err \in Errors, k \in Keys : \E o : Begin(c, pc, err, k, o)
    BY <1>2 DEF CallSet, CallGet, CallDelete, SetStarts, Errors
  <2> QED BY <1>1, <2>1 DEF Begin, ItemOrigin
<1>3. CASE EndLoad(c) \/ LookAgain(c)
  BY <1>1, <1>3 DEF EndLoad, LookAgain, Goto, Answer, Call, ItemOrigin
<1>4. CASE MakeItem(c)
  BY <1>1, <1>4 DEF MakeItem, Call, ItemOrigin
<1>5. CASE Look(c)
  BY <1>1, <1>5 DEF Look, Has, Answer, Call, SetStarts, ItemOrigin
<1>6. CASE Check(c)
  <2>1. Goto(c, "refresh") \/ \E err : Answer(c, err, call[c].item)
    BY <1>6 DEF Check
  <2>2. call[c].pc = "check" /\ UNCHANGED <<m, ref, left>>
    BY <1>6 DEF Check, At
  <2>3. CASE Goto(c, "refresh")
    BY <1>1, <2>2, <2>3 DEF Goto, Call, ItemOrigin
  <2>4. CASE \E err : Answer(c, err, call[c].item)
    BY <1>1, <2>2, <2>4 DEF Answer, Call, ItemOrigin
  <2> QED BY <2>1, <2>3, <2>4, <2>2
<1>7. CASE EndRefresh(c)
  <2>1. call[c].item \in Item
    BY <1>7 DEF EndRefresh, At, TypeOK
  <2>2. Refreshed(call[c].item).gen = call[c].item.gen
    BY <2>1 DEF Refreshed, Item
  <2> QED BY <1>1, <1>7, <2>2 DEF EndRefresh, At, Answer, Call, ItemOrigin
<1>8. CASE Return(c)
  BY <1>1, <1>8, NoCallType DEF Return, ItemOrigin
<1> QED
  BY <1>2, <1>3, <1>4, <1>5, <1>6, <1>7, <1>8

(* The steps that change neither the map nor what is known of its keys, ... *)
LEMMA QuietStep ==
  ASSUME LastInv, NEW c \in Clients, UNCHANGED <<m, ref, left>>,
         \A d \in Clients \ {c} : call'[d] = call[d],
         ItemOrigin(c), TypeOK'
  PROVE  LastCallWins' /\ ClonesAreOfLast'
<1>1. LastCallWins'
  BY DEF LastInv, LastCallWins, Has
<1>2. ASSUME NEW d \in Clients, call'[d].pc \in Cloned, ~left[call'[d].key].overtaken
      PROVE  call'[d].item.gen = left[call'[d].key].gen
  <2>1. CASE d # c
    BY <1>2, <2>1 DEF LastInv, ClonesAreOfLast
  <2>2. CASE d = c /\ call[c].pc \in Cloned /\ call'[c].key = call[c].key
                  /\ call'[c].item.gen = call[c].item.gen
    BY <1>2, <2>2 DEF LastInv, ClonesAreOfLast
  <2>3. CASE d = c /\ call'[c].key \in DOMAIN m /\ call'[c].item = m[call'[c].key]
    <3>1. call'[c].key \in Keys
      BY DEF TypeOK, Call
    <3> QED BY <1>2, <2>3, <3>1 DEF LastInv, LastCallWins, Has
  <2> QED BY <1>2, <2>1, <2>2, <2>3 DEF ItemOrigin, HasItem, Cloned
<1>3. ASSUME NEW d \in Clients, call'[d].pc = "store"
      PROVE  call'[d].item.gen = call'[d].gen
  BY <1>3 DEF LastInv, ClonesAreOfLast, ItemOrigin, HasItem, Cloned
<1> QED
  BY <1>1, <1>2, <1>3 DEF LastInv, ClonesAreOfLast

(* ... those that store or delete, ... *)
LEMMA WritingStep ==
  ASSUME LastInv, NEW c \in Clients, StoreItem(c) \/ StoreRefreshed(c) \/ Delete(c)
  PROVE  LastCallWins' /\ ClonesAreOfLast'
<1>k. PICK k \in Keys : k = call[c].key
  BY DEF LastInv, TypeOK, Call
<1>1. /\ call \in [Clients -> Call] /\ \A d \in Clients : call[d] \in Call
      /\ left \in [Keys -> [gen : Nat, overtaken : BOOLEAN]]
  BY DEF LastInv, TypeOK
<1>2. /\ UNCHANGED ref
      /\ call'[c].pc \notin HasItem
      /\ \A d \in Clients \ {c} :
           /\ call'[d].pc = call[d].pc /\ call'[d].key = call[d].key
           /\ call'[d].item = call[d].item /\ call'[d].gen = call[d].gen
  <2>1. CASE StoreItem(c)
    BY <1>1, <2>1 DEF StoreItem, Goto, Answer, Call, HasItem, Cloned
  <2>2. CASE StoreRefreshed(c)
    BY <1>1, <2>2 DEF StoreRefreshed, Answer, Call, HasItem, Cloned
  <2>3. CASE Delete(c)
    <3>1. UNCHANGED ref /\ call'[c] = [call[c] EXCEPT !.pc = "answered", !.err = "nil"]
      BY <2>3 DEF Delete
    <3>2. \A d \in Clients \ {c} : call'[d] \in {call[d], [call[d] EXCEPT !.cut = TRUE]}
      BY <2>3 DEF Delete
    <3> QED BY <1>1, <3>1, <3>2 DEF Call, HasItem, Cloned
  <2> QED BY <2>1, <2>2, <2>3
<1>3. \A x \in Keys \ {k} :
        /\ left'[x] = left[x]
        /\ x \in DOMAIN m' <=> x \in DOMAIN m
        /\ x \in DOMAIN m => m'[x] = m[x]
  <2>1. CASE StoreItem(c) \/ StoreRefreshed(c)
    BY <1>1, <1>k, <2>1 DEF StoreItem, StoreRefreshed, Put, Has
  <2>2. CASE Delete(c)
    BY <1>1, <1>k, <2>2 DEF Delete, Remove, Restrict, Has
  <2> QED BY <2>1, <2>2
<1>4. /\ ~left'[k].overtaken => IF Has(k)' THEN m'[k].gen = left'[k].gen ELSE left'[k].gen = 0
      /\ ~left'[k].overtaken =>
           /\ \A d \in Clients \ {c} : call[d].key = k /\ call[d].pc \in Cloned =>
                call[d].item.gen = left'[k].gen
           /\ ref.pc \in Cloned /\ ref.key = k => ref.item.gen = left'[k].gen
  <2>1. CASE StoreItem(c)
    <3>1. call[c].item.gen = call[c].gen
      BY <2>1 DEF StoreItem, At, LastInv, ClonesAreOfLast
    <3>2. left'[k] = [gen |-> call[c].gen, overtaken |-> CloneIsAround(k, c)]
      BY <1>1, <1>k, <2>1 DEF StoreItem
    <3>3. Has(k)' /\ m'[k] = call[c].item
      BY <1>k, <2>1 DEF StoreItem, Put, Has
    <3> QED BY <3>1, <3>2, <3>3 DEF CloneIsAround
  <2>2. CASE StoreRefreshed(c)
    <3>1. ~left[k].overtaken => call[c].item.gen = left[k].gen
      BY <1>k, <2>2 DEF StoreRefreshed, At, Cloned, LastInv, ClonesAreOfLast
    <3>2. Has(k)' /\ m'[k] = call[c].item /\ left' = left
      BY <1>k, <2>2 DEF StoreRefreshed, Put, Has
    <3> QED BY <3>1, <3>2 DEF LastInv, ClonesAreOfLast
  <2>3. CASE Delete(c)
    <3>1. left'[k] = [gen |-> 0, overtaken |-> CloneIsAround(k, c)]
      BY <1>1, <1>k, <2>3 DEF Delete
    <3>2. ~Has(k)'
      BY <1>k, <2>3 DEF Delete, Remove, Restrict, Has
    <3> QED BY <3>1, <3>2 DEF CloneIsAround
  <2> QED BY <2>1, <2>2, <2>3
<1>5. LastCallWins'
  <2>1. ASSUME NEW x \in Keys, ~left'[x].overtaken
        PROVE  IF Has(x)' THEN m'[x].gen = left'[x].gen ELSE left'[x].gen = 0
    <3>1. CASE x = k
      BY <1>4, <2>1, <3>1
    <3>2. CASE x # k
      BY <1>3, <2>1, <3>2 DEF LastInv, LastCallWins, Has
    <3> QED BY <3>1, <3>2
  <2> QED BY <2>1 DEF LastCallWins, Has
<1>6. ASSUME NEW d \in Clients, call'[d].pc \in Cloned, ~left'[call'[d].key].overtaken
      PROVE  call'[d].item.gen = left'[call'[d].key].gen
  <2>1. d # c /\ call[d].key \in Keys
    BY <1>1, <1>2, <1>6 DEF HasItem, Call
  <2>2. call[d].pc \in Cloned /\ call'[d].key = call[d].key /\ call'[d].item = call[d].item
    BY <1>2, <1>6, <2>1
  <2>3. CASE call[d].key = k
    BY <1>4, <1>6, <2>1, <2>2, <2>3
  <2>4. CASE call[d].key # k
    <3>1. left'[call[d].key] = left[call[d].key]
      BY <1>3, <2>1, <2>4
    <3> QED BY <1>6, <2>2, <3>1 DEF LastInv, ClonesAreOfLast
  <2> QED BY <2>3, <2>4
<1>7. ref'.pc \in Cloned /\ ~left'[ref'.key].overtaken => ref'.item.gen = left'[ref'.key].gen
  <2>1. ref.key \in Keys
    BY DEF LastInv, TypeOK, Ref
  <2>2. CASE ref.key = k
    BY <1>2, <1>4, <2>2
  <2>3. CASE ref.key # k
    BY <1>2, <1>3, <2>1, <2>3 DEF LastInv, ClonesAreOfLast
  <2> QED BY <2>2, <2>3
<1>8. ASSUME NEW d \in Clients, call'[d].pc = "store" PROVE call'[d].item.gen = call'[d].gen
  BY <1>2, <1>8 DEF LastInv, ClonesAreOfLast, HasItem
<1> QED
  BY <1>5, <1>6, <1>7, <1>8 DEF ClonesAreOfLast

(* ... and those of the refresher, which holds clones as a Get does. *)
LEMMA RefreshingStep ==
  ASSUME LastInv, RefresherStep
  PROVE  LastCallWins' /\ ClonesAreOfLast'
<1>1. UNCHANGED <<call, left>>
  BY DEF RefresherStep, SelectTick, EndRound, ReadKey, CheckKey, RefreshKey, StoreKey
<1>2. /\ \A c \in Clients :
           call'[c].pc \in Cloned /\ ~left'[call'[c].key].overtaken =>
             call'[c].item.gen = left'[call'[c].key].gen
      /\ \A c \in Clients : call'[c].pc = "store" => call'[c].item.gen = call'[c].gen
  BY <1>1 DEF LastInv, ClonesAreOfLast
<1>3. ASSUME UNCHANGED m PROVE LastCallWins'
  BY <1>1, <1>3 DEF LastInv, LastCallWins, Has
<1>4. ASSUME ref'.pc \notin Cloned \/
             (/\ ref'.key = ref.key /\ ref.pc \in Cloned /\ ref'.item.gen = ref.item.gen)
      PROVE  ClonesAreOfLast'
  BY <1>1, <1>2, <1>4 DEF LastInv, ClonesAreOfLast
<1>5. \A todo : Round(todo).pc \notin Cloned /\ Selecting.pc \notin Cloned
  BY DEF Round, Selecting, Cloned
<1>6. ref \in Ref
  BY DEF LastInv, TypeOK
<1>7. CASE SelectTick \/ EndRound
  BY <1>3, <1>4, <1>5, <1>7 DEF SelectTick, EndRound
<1>8. CASE ReadKey
  <2>1. PICK k \in ref.todo :
          ref' = IF Has(k) /\ ~m[k].lazy
                   THEN [pc |-> "check", todo |-> ref.todo \ {k}, key |-> k, item |-> m[k]]
                   ELSE Round(ref.todo \ {k})
    BY <1>8 DEF ReadKey
  <2>2. k \in Keys
    BY <1>6 DEF Ref
  <2>3. CASE Has(k) /\ ~m[k].lazy
    <3>1. ref'.key = k /\ ref'.item = m[k]
      BY <2>1, <2>3
    <3>2. ~left[k].overtaken => ref'.item.gen = left[k].gen
      BY <2>2, <2>3, <3>1 DEF LastInv, LastCallWins
    <3>3. ClonesAreOfLast'
      BY <1>1, <1>2, <3>1, <3>2 DEF ClonesAreOfLast
    <3> QED BY <1>3, <1>8, <3>3 DEF ReadKey
  <2>4. CASE ~(Has(k) /\ ~m[k].lazy)
    BY <1>3, <1>4, <1>5, <1>8, <2>1, <2>4 DEF ReadKey
  <2> QED BY <2>3, <2>4
<1>9. CASE CheckKey
  <2>1. ref' = [ref EXCEPT !.pc = "refresh"] \/ ref' = Round(ref.todo)
    BY <1>9 DEF CheckKey
  <2> QED BY <1>3, <1>4, <1>5, <1>6, <1>9, <2>1 DEF CheckKey, Ref, Cloned
<1>10. CASE RefreshKey
  <2>1. ref.item \in Item
    BY <1>10 DEF RefreshKey, LastInv, TypeOK, Cloned
  <2>2. Refreshed(ref.item).gen = ref.item.gen
    BY <2>1 DEF Refreshed, Item
  <2>3. CASE ref' = [ref EXCEPT !.pc = "storeRefreshed", !.item = Refreshed(ref.item)]
    BY <1>3, <1>4, <1>6, <1>10, <2>2, <2>3 DEF RefreshKey, Ref, Cloned
  <2>4. CASE RefreshFails
    BY <1>3, <1>4, <1>5, <1>10, <2>4 DEF RefreshKey, RefreshFails
  <2> QED BY <1>10, <2>3, <2>4 DEF RefreshKey
<1>11. CASE StoreKey
  <2>1. PICK k \in Keys : k = ref.key
    BY <1>6 DEF Ref
  <2>2. ~left[k].overtaken => ref.item.gen = left[k].gen
    BY <1>11, <2>1 DEF StoreKey, Cloned, LastInv, ClonesAreOfLast
  <2>3. /\ k \in DOMAIN m' /\ m'[k] = ref.item
        /\ \A x \in Keys \ {k} : /\ x \in DOMAIN m' <=> x \in DOMAIN m
                                 /\ x \in DOMAIN m => m'[x] = m[x]
    BY <1>11, <2>1 DEF StoreKey, Put
  <2>4. ASSUME NEW x \in Keys, ~left[x].overtaken
        PROVE  IF x \in DOMAIN m' THEN m'[x].gen = left[x].gen ELSE left[x].gen = 0
    BY <2>2, <2>3, <2>4 DEF LastInv, LastCallWins, Has
  <2>5. LastCallWins'
    BY <1>1, <2>4 DEF LastCallWins, Has
  <2> QED BY <1>4, <1>5, <1>11, <2>5 DEF StoreKey
<1> QED
  BY <1>7, <1>8, <1>9, <1>10, <1>11 DEF RefresherStep

LEMMA InitLast == Init => LastInv
<1> SUFFICES ASSUME Init PROVE LastInv
  OBVIOUS
<1>1. TypeOK
  BY InitTypeOK
<1>2. LastCallWins
  BY DEF Init, LastCallWins, Has
<1>3. ref.pc \notin Cloned
  BY DEF Init, Selecting, Cloned
<1>4. \A c \in Clients : call[c].pc \notin HasItem
  BY NoCallType DEF Init, HasItem, Cloned
<1> QED
  BY <1>1, <1>2, <1>3, <1>4 DEF LastInv, ClonesAreOfLast, HasItem

LEMMA StepLast == LastInv /\ [Next]_vars => LastInv'
<1> SUFFICES ASSUME LastInv, [Next]_vars PROVE LastInv'
  OBVIOUS
<1>1. TypeOK'
  BY StepTypeOK DEF LastInv
<1>2. ASSUME NEW c \in Clients, CallSet(c) \/ CallGet(c) \/ CallDelete(c) \/ ClientStep(c)
      PROVE  LastInv'
  <2>1. CASE StoreItem(c) \/ StoreRefreshed(c) \/ Delete(c)
    BY <1>1, <2>1, WritingStep DEF LastInv
  <2>2. CASE \/ CallSet(c) \/ CallGet(c) \/ CallDelete(c) \/ EndLoad(c) \/ MakeItem(c)
             \/ Look(c) \/ LookAgain(c) \/ Check(c) \/ EndRefresh(c) \/ Return(c)
    <3>1. /\ UNCHANGED <<m, ref, left>>
          /\ \A d \in Clients \ {c} : call'[d] = call[d]
          /\ ItemOrigin(c)
      BY <2>2, ItemOrigins DEF LastInv
    <3>2. LastCallWins' /\ ClonesAreOfLast'
      BY <1>1, <3>1, QuietStep
    <3> QED BY <1>1, <3>2 DEF LastInv
  <2> QED BY <1>2, <2>1, <2>2 DEF ClientStep
<1>3. CASE RefresherStep
  BY <1>1, <1>3, RefreshingStep DEF LastInv
<1>4. CASE SelectDone \/ Tick \/ Cancel \/ UNCHANGED vars
  <2>1. UNCHANGED <<m, call, ref, left>>
    BY <1>4 DEF SelectDone, Tick, Cancel, vars
  <2> QED BY <1>1, <2>1 DEF LastInv, LastCallWins, ClonesAreOfLast, Has
<1> QED
  BY <1>2, <1>3, <1>4 DEF Next

(* However calls, refreshes and rounds interleave, what the last Set or      *)
(* Delete of a key left is what the map holds, refreshed or not, unless a    *)
(* clone of an earlier item was around when it happened (cache.go:155, 166,  *)
(* 257, 307).                                                                *)
THEOREM LastLeft == Spec => []LastCallWins
<1>1. LastInv => LastCallWins
  BY DEF LastInv
<1> QED
  BY <1>1, InitLast, StepLast, PTL DEF Spec

-------------------------------------------------------------------------------
(* A Get that set a missing key finds it when it looks again, or the key was *)
(* deleted in between.                                                       *)
StillThere ==
  /\ \A c \in Clients : call[c].pc = "again" => Has(call[c].key) \/ call[c].cut
  /\ UnexpectedOnlyIfDeleted

UnexpectedInv == TypeOK /\ StillThere

(* Nothing but Delete takes a key out of the map. *)
LEMMA KeysStay ==
  ASSUME [Next]_vars
  PROVE  DOMAIN m \subseteq DOMAIN m' \/ \E c \in Clients : Delete(c)
<1>1. CASE \E c \in Clients : CallSet(c) \/ CallGet(c) \/ CallDelete(c) \/ ClientStep(c)
  BY <1>1 DEF CallSet, CallGet, CallDelete, Begin, ClientStep, EndLoad, MakeItem, StoreItem,
              Look, LookAgain, Check, EndRefresh, StoreRefreshed, Return, Put
<1>2. CASE RefresherStep
  BY <1>2 DEF RefresherStep, SelectTick, EndRound, ReadKey, CheckKey, RefreshKey, StoreKey, Put
<1>3. CASE SelectDone \/ Tick \/ Cancel \/ UNCHANGED vars
  BY <1>3 DEF SelectDone, Tick, Cancel, vars
<1> QED
  BY <1>1, <1>2, <1>3 DEF Next

(* What a step of c other than Delete does to its call. *)
CallGoesOn(c) ==
  \/ /\ call'[c].key = call[c].key /\ call'[c].cut = call[c].cut
     /\ call'[c].err = call[c].err
     /\ call'[c].pc = "again" => call'[c].key \in DOMAIN m'
  \/ call'[c].pc # "again" /\ call'[c].err # "ErrUnexpected"
  \/ /\ call[c].pc = "again" /\ ~Has(call[c].key)
     /\ call'[c].pc # "again" /\ call'[c].cut = call[c].cut

LEMMA ClientGoesOn ==
  ASSUME TypeOK, NEW c \in Clients,
         CallSet(c) \/ CallGet(c) \/ CallDelete(c) \/ (ClientStep(c) /\ ~Delete(c))
  PROVE  CallGoesOn(c) /\ \A d \in Clients \ {c} : call'[d] = call[d]
<1>1. call \in [Clients -> Call] /\ \A d \in Clients : call[d] \in Call
  BY DEF TypeOK
<1>2. CASE CallSet(c) \/ CallGet(c) \/ CallDelete(c)
  <2>1. PICK pc \in {"make", "load", "look", "delete", "answered"} :
          \E err \in Errors \ {"ErrUnexpected"}, k \in Keys : \E o : Begin(c, pc, err, k, o)
    BY <1>2 DEF CallSet, CallGet, CallDelete, SetStarts, Errors
  <2>2. PICK err \in Errors \ {"ErrUnexpected"}, k \in Keys : \E o : Begin(c, pc, err, k, o)
    BY <2>1
  <2>3. /\ call'[c].pc = pc /\ call'[c].err = err
        /\ \A d \in Clients \ {c} : call'[d] = call[d]
    BY <1>1, <2>2 DEF Begin
  <2> QED BY <2>3 DEF CallGoesOn
<1>3. CASE EndLoad(c) \/ LookAgain(c)
  BY <1>1, <1>3 DEF EndLoad, LookAgain, At, Goto, Answer, Call, CallGoesOn
<1>4. CASE MakeItem(c) \/ EndRefresh(c) \/ StoreRefreshed(c)
  BY <1>1, <1>4 DEF MakeItem, EndRefresh, StoreRefreshed, Answer, Call, CallGoesOn
<1>5. CASE StoreItem(c)
  BY <1>1, <1>5 DEF StoreItem, Put, Goto, Answer, Call, CallGoesOn
<1>6. CASE Look(c)
  BY <1>1, <1>6 DEF Look, Answer, Call, SetStarts, CallGoesOn
<1>7. CASE Check(c)
  <2>1. \/ Goto(c, "refresh")
        \/ \E err \in {"nil", "ErrStale", "ErrNoRefresher"} : Answer(c, err, call[c].item)
    BY <1>7 DEF Check
  <2> QED BY <1>1, <2>1 DEF Goto, Answer, Call, CallGoesOn
<1>8. CASE Return(c)
  <2>1. NoCall.pc = "idle" /\ NoCall.err = "none"
    BY DEF NoCall
  <2> QED BY <1>1, <1>8, <2>1 DEF Return, CallGoesOn
<1> QED
  BY <1>2, <1>3, <1>4, <1>5, <1>6, <1>7, <1>8 DEF ClientStep

LEMMA StepUnexpected == UnexpectedInv /\ [Next]_vars => UnexpectedInv'
<1> SUFFICES ASSUME UnexpectedInv, [Next]_vars PROVE UnexpectedInv'
  OBVIOUS
<1>1. TypeOK /\ TypeOK'
  BY StepTypeOK DEF UnexpectedInv
<1>2. SUFFICES ASSUME NEW d \in Clients
               PROVE  /\ call'[d].pc = "again" => call'[d].key \in DOMAIN m' \/ call'[d].cut
                      /\ call'[d].err = "ErrUnexpected" => call'[d].cut
  BY <1>1 DEF UnexpectedInv, StillThere, UnexpectedOnlyIfDeleted, Has
<1>3. /\ call[d].pc = "again" => call[d].key \in DOMAIN m \/ call[d].cut
      /\ call[d].err = "ErrUnexpected" => call[d].cut
  BY DEF UnexpectedInv, StillThere, UnexpectedOnlyIfDeleted, Has
<1>4. ASSUME NEW c \in Clients, Delete(c)
      PROVE  /\ call'[d].pc = "again" => call'[d].key \in DOMAIN m' \/ call'[d].cut
             /\ call'[d].err = "ErrUnexpected" => call'[d].cut
  <2>1. call[d] \in Call
    BY <1>1 DEF TypeOK
  <2>2. CASE d = c
    <3>1. call'[d] = [call[d] EXCEPT !.pc = "answered", !.err = "nil"]
      BY <1>4, <2>2 DEF Delete
    <3> QED BY <2>1, <3>1 DEF Call
  <2>3. CASE d # c /\ call[d].key = call[c].key
    <3>1. call'[d] = [call[d] EXCEPT !.cut = TRUE]
      BY <1>4, <2>3 DEF Delete
    <3> QED BY <2>1, <3>1 DEF Call
  <2>4. CASE d # c /\ call[d].key # call[c].key
    <3>1. call'[d] = call[d]
      BY <1>4, <2>4 DEF Delete
    <3>2. call[d].key \in DOMAIN m => call[d].key \in DOMAIN m'
      BY <1>4, <2>4 DEF Delete, Remove, Restrict
    <3> QED BY <1>3, <3>1, <3>2
  <2> QED BY <2>2, <2>3, <2>4
<1>5. CASE ~\E c \in Clients : Delete(c)
  <2>1. DOMAIN m \subseteq DOMAIN m'
    BY <1>5, KeysStay
  <2>2. CASE call'[d] = call[d]
    BY <1>3, <2>1, <2>2
  <2>3. CASE CallGoesOn(d)
    BY <1>3, <2>1, <2>3 DEF CallGoesOn, Has
  <2>4. CASE \E c \in Clients : CallSet(c) \/ CallGet(c) \/ CallDelete(c) \/ ClientStep(c)
    BY <1>1, <1>5, <2>2, <2>3, <2>4, ClientGoesOn
  <2>5. CASE RefresherStep \/ SelectDone \/ Tick \/ Cancel \/ UNCHANGED vars
    <3>1. UNCHANGED call
      BY <2>5 DEF RefresherStep, SelectTick, EndRound, ReadKey, CheckKey, RefreshKey, StoreKey,
                  SelectDone, Tick, Cancel, vars
    <3> QED BY <2>2, <3>1
  <2> QED BY <2>4, <2>5 DEF Next
<1> QED
  BY <1>4, <1>5

(* Get never fails with ErrUnexpected unless the key was deleted while it ran *)
(* (cache.go:281-286).                                                        *)
THEOREM UnexpectedMeansDeleted == Spec => []UnexpectedOnlyIfDeleted
<1>1. Init => UnexpectedInv
  <2>1. NoCall.pc = "idle" /\ NoCall.err = "none"
    BY DEF NoCall
  <2> QED BY <2>1, InitTypeOK DEF Init, UnexpectedInv, StillThere, UnexpectedOnlyIfDeleted
<1>2. UnexpectedInv => UnexpectedOnlyIfDeleted
  BY DEF UnexpectedInv, StillThere
<1> QED
  BY <1>1, <1>2, StepUnexpected, PTL DEF Spec

-------------------------------------------------------------------------------
(* The tick that is left explains the round that is late. *)
LateInv ==
  /\ ticker \in {"runs", "tickLeft", "stopped"}
  /\ \/ late = 0 /\ ticker = "runs"
     \/ late = 1 /\ ticker # "runs"
     \/ late = 2 /\ ticker = "stopped"

LEMMA StepLate == LateInv /\ [Next]_vars => LateInv'
<1> SUFFICES ASSUME LateInv, [Next]_vars PROVE LateInv'
  OBVIOUS
<1>1. CASE SelectTick
  BY <1>1 DEF LateInv, SelectTick
<1>2. CASE SelectDone
  BY <1>2 DEF LateInv, SelectDone
<1>3. ASSUME UNCHANGED <<ticker, late>> PROVE LateInv'
  BY <1>3 DEF LateInv
<1>4. CASE \E c \in Clients : CallSet(c) \/ CallGet(c) \/ CallDelete(c) \/ ClientStep(c)
  BY <1>3, <1>4 DEF CallSet, CallGet, CallDelete, Begin, ClientStep, EndLoad, MakeItem,
     StoreItem, Look, LookAgain, Check, EndRefresh, StoreRefreshed, Delete, Return
<1>5. CASE EndRound \/ ReadKey \/ CheckKey \/ RefreshKey \/ StoreKey \/ Tick \/ Cancel
           \/ UNCHANGED vars
  BY <1>3, <1>5 DEF EndRound, ReadKey, CheckKey, RefreshKey, StoreKey, Tick, Cancel, vars
<1> QED
  BY <1>1, <1>2, <1>4, <1>5 DEF Next, RefresherStep

(* Once the refresher noticed the cancellation it begins one more round at   *)
(* the most, for the tick that had already come (cache.go:137-140).          *)
THEOREM OneLateRound == Spec => []AtMostOneLateRound
<1>1. Init => LateInv
  BY DEF Init, LateInv
<1>2. LateInv => AtMostOneLateRound
  BY DEF LateInv, AtMostOneLateRound
<1> QED
  BY <1>1, <1>2, StepLate, PTL DEF Spec
-------------------------------------------------------------------------------
(* What a Get returns with nil is as recent as the call.                     *)

(* NilMeansFresh, of one call. *)
Fresh(a) ==
  a.pc = "answered" /\ a.err = "nil" /\ a.item # NoItem =>
    \/ a.item.ttl = 0
    \/ a.item.ts + a.item.ttl >= a.began
    \/ a.missed /\ a.item.gen # a.gen

(* A call that began by the moment t, the n-th or an earlier one: what it    *)
(* refreshed is more recent than its beginning, and it looks again only      *)
(* after it missed the key.                                                  *)
CallFresh(a, t, n) ==
  /\ a.began <= t
  /\ a.gen <= n
  /\ a.pc # "idle" => a.gen # 0
  /\ a.pc = "again" => a.missed
  /\ a.pc = "delete" => a.item = NoItem
  /\ a.pc = "storeRefreshed" => a.item.ts >= a.began
  /\ Fresh(a)

(* The items in the map and in the hands of clients and of the refresher ... *)
Around(x) ==
  \/ \E k \in DOMAIN m : x = m[k]
  \/ \E c \in Clients : call[c].pc \in HasItem /\ x = call[c].item
  \/ ref.pc \in Cloned /\ x = ref.item

(* ... are of calls so far, and none is older than the call that made it.    *)
ItemFresh(x) ==
  /\ x.gen \in 1 .. calls
  /\ \A c \in Clients : call[c].gen = x.gen => x.ts >= call[c].began

CallsDiffer ==
  \A c, d \in Clients : call[c].gen = call[d].gen /\ call[c].gen # 0 => c = d

FreshInv ==
  /\ TypeOK
  /\ CallsDiffer
  /\ \A c \in Clients : CallFresh(call[c], now, calls)
  /\ \A x \in Item : Around(x) => ItemFresh(x)

(* How the number and the beginning of calls change: one call begins or      *)
(* ends at a time.                                                           *)
SameCall(d) == call'[d].gen = call[d].gen /\ call'[d].began = call[d].began

CallsMove ==
  /\ calls' \in {calls, calls + 1}
  /\ \A d \in Clients :
       \/ SameCall(d)
       \/ call'[d].gen = 0
       \/ call'[d].gen = calls + 1 /\ calls' = calls + 1
  /\ \A d, e \in Clients : d # e => SameCall(d) \/ SameCall(e)

(* A client's step changes its own call; a Delete marks others as cut.       *)
LEMMA OthersKept ==
  ASSUME TypeOK, NEW c \in Clients,
         CallSet(c) \/ CallGet(c) \/ CallDelete(c) \/ ClientStep(c)
  PROVE  /\ now' = now
         /\ \A d \in Clients \ {c} : call'[d] \in {call[d], [call[d] EXCEPT !.cut = TRUE]}
<1>1. call \in [Clients -> Call]
  BY DEF TypeOK
<1>2. CASE CallSet(c) \/ CallGet(c) \/ CallDelete(c)
  <2>1. PICK pc, err, k, o : Begin(c, pc, err, k, o)
    BY <1>2 DEF CallSet, CallGet, CallDelete
  <2> QED BY <1>1, <2>1 DEF Begin
<1>3. CASE EndLoad(c) \/ MakeItem(c) \/ LookAgain(c) \/ Return(c)
  BY <1>1, <1>3 DEF EndLoad, MakeItem, LookAgain, Return, Goto, Answer
<1>4. CASE StoreItem(c) \/ StoreRefreshed(c)
  BY <1>1, <1>4 DEF StoreItem, StoreRefreshed, Goto, Answer
<1>5. CASE Look(c)
  BY <1>1, <1>5 DEF Look, Answer
<1>6. CASE Check(c)
  <2>1. now' = now /\ (Goto(c, "refresh") \/ \E err : Answer(c, err, call[c].item))
    BY <1>6 DEF Check
  <2> QED BY <1>1, <2>1 DEF Goto, Answer
<1>7. CASE EndRefresh(c)
  BY <1>1, <1>7 DEF EndRefresh, Answer
<1>8. CASE Delete(c)
  BY <1>1, <1>8 DEF Delete
<1> QED
  BY <1>2, <1>3, <1>4, <1>5, <1>6, <1>7, <1>8 DEF ClientStep

(* The steps of the refresher, the clock and the context leave the calls     *)
(* alone, and time goes on.                                                  *)
LEMMA TimePasses ==
  ASSUME TypeOK, RefresherStep \/ SelectDone \/ Tick \/ Cancel \/ UNCHANGED vars
  PROVE  /\ UNCHANGED <<call, calls>>
         /\ now \in Nat /\ now' \in Nat /\ now <= now'
<1>1. now \in Nat /\ Times \subseteq Nat
  BY CacheAssumption DEF TypeOK
<1>2. CASE Tick
  BY <1>1, <1>2 DEF Tick
<1>3. CASE RefresherStep \/ SelectDone \/ Cancel \/ UNCHANGED vars
  <2>1. UNCHANGED <<call, calls, now>>
    BY <1>3 DEF RefresherStep, SelectTick, EndRound, ReadKey, CheckKey, RefreshKey,
                StoreKey, SelectDone, Cancel, vars
  <2> QED BY <1>1, <2>1
<1> QED BY <1>2, <1>3

LEMMA CallsMoveSo == ASSUME TypeOK, [Next]_vars PROVE CallsMove
<1>1. call \in [Clients -> Call] /\ calls \in Nat
  BY CacheAssumption DEF TypeOK
<1>2. ASSUME NEW c \in Clients, CallSet(c) \/ CallGet(c) \/ CallDelete(c) \/ ClientStep(c)
      PROVE  CallsMove
  <2>1. \A d \in Clients \ {c} : SameCall(d)
    <3> SUFFICES ASSUME NEW d \in Clients \ {c} PROVE SameCall(d)
      OBVIOUS
    <3>1. call'[d] \in {call[d], [call[d] EXCEPT !.cut = TRUE]} /\ call[d] \in Call
      BY <1>1, <1>2, OthersKept
    <3> QED BY <3>1 DEF Call, SameCall
  <2>2. /\ calls' \in {calls, calls + 1}
        /\ \/ SameCall(c)
           \/ call'[c].gen = 0
           \/ call'[c].gen = calls + 1 /\ calls' = calls + 1
    <3>1. call[c] \in Call
      BY <1>1
    <3>2. CASE CallSet(c) \/ CallGet(c) \/ CallDelete(c)
      <4>1. PICK pc, err, k, o : Begin(c, pc, err, k, o)
        BY <3>2 DEF CallSet, CallGet, CallDelete
      <4> QED BY <1>1, <4>1 DEF Begin
    <3>3. CASE EndLoad(c) \/ MakeItem(c) \/ LookAgain(c)
      BY <1>1, <3>1, <3>3 DEF EndLoad, MakeItem, LookAgain, Goto, Answer, Call, SameCall
    <3>4. CASE StoreItem(c) \/ StoreRefreshed(c)
      BY <1>1, <3>1, <3>4 DEF StoreItem, StoreRefreshed, Goto, Answer, Call, SameCall
    <3>5. CASE Look(c)
      BY <1>1, <3>1, <3>5 DEF Look, Answer, Call, SameCall
    <3>6. CASE Check(c)
      <4>1. calls' = calls /\ (Goto(c, "refresh") \/ \E err : Answer(c, err, call[c].item))
        BY <3>6 DEF Check
      <4>2. CASE Goto(c, "refresh")
        BY <1>1, <3>1, <4>1, <4>2 DEF Goto, Call, SameCall
      <4>3. ASSUME NEW err, Answer(c, err, call[c].item) PROVE SameCall(c)
        BY <1>1, <3>1, <4>3 DEF Answer, Call, SameCall
      <4> QED BY <4>1, <4>2, <4>3
    <3>7. CASE EndRefresh(c)
      BY <1>1, <3>1, <3>7 DEF EndRefresh, Answer, Call, SameCall
    <3>8. CASE Delete(c)
      <4>1. calls' = calls /\ call'[c] = [call[c] EXCEPT !.pc = "answered", !.err = "nil"]
        BY <3>8 DEF Delete
      <4> QED BY <3>1, <4>1 DEF Call, SameCall
    <3>9. CASE Return(c)
      <4>1. NoCall.gen = 0
        BY DEF NoCall
      <4> QED BY <1>1, <3>9, <4>1 DEF Return
    <3> QED
      BY <1>2, <3>2, <3>3, <3>4, <3>5, <3>6, <3>7, <3>8, <3>9 DEF ClientStep
  <2> QED BY <2>1, <2>2 DEF CallsMove
<1>3. CASE RefresherStep \/ SelectDone \/ Tick \/ Cancel \/ UNCHANGED vars
  BY <1>3, TimePasses DEF CallsMove, SameCall
<1> QED BY <1>2, <1>3 DEF Next

(* An item that is fresh stays so: no call takes its number. *)
LEMMA ItemStaysFresh ==
  ASSUME TypeOK, CallsMove, NEW x \in Item, ItemFresh(x)
  PROVE  ItemFresh(x)'
<1>1. calls \in Nat /\ x.gen \in 1 .. calls /\ x.gen \in Nat
  BY CacheAssumption DEF TypeOK, ItemFresh
<1>2. x.gen \in 1 .. calls'
  BY <1>1 DEF CallsMove
<1>3. ASSUME NEW d \in Clients, call'[d].gen = x.gen PROVE x.ts >= call'[d].began
  <2>1. call'[d].gen # 0 /\ call'[d].gen # calls + 1
    BY <1>1, <1>3
  <2>2. SameCall(d)
    BY <2>1 DEF CallsMove
  <2> QED BY <1>3, <2>2 DEF SameCall, ItemFresh
<1> QED BY <1>2, <1>3 DEF ItemFresh

(* Where an item comes from: it was there, was refreshed, or was made.       *)
Recent(x) ==
  /\ x.ts = now
  /\ \/ \E y \in Item : Around(y) /\ x.gen = y.gen
     \/ \E c \in Clients : call[c].pc = "make" /\ x.gen = call[c].gen

LEMMA ClientsItems ==
  ASSUME TypeOK, NEW c \in Clients, NEW x \in Item, Around(x)',
         CallSet(c) \/ CallGet(c) \/ CallDelete(c) \/ ClientStep(c)
  PROVE  Around(x) \/ Recent(x)
<1> USE DEF HasItem, Cloned
<1>1. /\ call \in [Clients -> Call] /\ \A d \in Clients : call[d] \in Call
      /\ \A d \in Clients : call[d].pc \in HasItem => call[d].item \in Item
  BY DEF TypeOK
<1>2. UNCHANGED ref
  BY DEF CallSet, CallGet, CallDelete, Begin, ClientStep, EndLoad, MakeItem, StoreItem, Look,
         LookAgain, Check, EndRefresh, StoreRefreshed, Delete, Return
<1>3. CASE ref'.pc \in Cloned /\ x = ref'.item
  BY <1>2, <1>3 DEF Around
<1>4. ASSUME NEW d \in Clients \ {c}, call'[d].pc \in HasItem, x = call'[d].item
      PROVE  Around(x)
  <2>1. call'[d] \in {call[d], [call[d] EXCEPT !.cut = TRUE]} /\ call[d] \in Call
    BY <1>1, OthersKept
  <2> QED BY <1>4, <2>1 DEF Call, Around
<1>5. ASSUME NEW k \in DOMAIN m', x = m'[k] PROVE Around(x)
  <2>1. CASE UNCHANGED m
    BY <1>5, <2>1 DEF Around
  <2>2. CASE StoreItem(c) \/ StoreRefreshed(c)
    <3>1. Put(call[c].key, call[c].item) /\ call[c].pc \in HasItem
      BY <2>2 DEF StoreItem, StoreRefreshed, At
    <3>2. x = call[c].item \/ (k \in DOMAIN m /\ x = m[k])
      BY <1>5, <3>1 DEF Put
    <3> QED BY <3>1, <3>2 DEF Around
  <2>3. CASE Delete(c)
    BY <1>5, <2>3 DEF Delete, Remove, Restrict, Around
  <2>4. UNCHANGED m \/ StoreItem(c) \/ StoreRefreshed(c) \/ Delete(c)
    BY DEF CallSet, CallGet, CallDelete, Begin, ClientStep, EndLoad, MakeItem, Look,
           LookAgain, Check, EndRefresh, Return
  <2> QED BY <2>1, <2>2, <2>3, <2>4
<1>6. ASSUME call'[c].pc \in HasItem, x = call'[c].item
      PROVE  Around(x) \/ Recent(x)
  <2>1. CASE CallSet(c) \/ CallGet(c) \/ CallDelete(c)
    <3>1. PICK pc \in {"make", "load", "look", "delete", "answered"} :
            \E err, k, o : Begin(c, pc, err, k, o)
      BY <2>1 DEF CallSet, CallGet, CallDelete, SetStarts
    <3> QED BY <1>1, <1>6, <3>1 DEF Begin
  <2>2. CASE EndLoad(c) \/ LookAgain(c) \/ StoreItem(c) \/ StoreRefreshed(c)
    BY <1>1, <1>6, <2>2 DEF EndLoad, LookAgain, StoreItem, StoreRefreshed, Goto, Answer, Call
  <2>3. CASE MakeItem(c)
    <3>1. x.ts = now /\ x.gen = call[c].gen /\ call[c].pc = "make"
      BY <1>1, <1>6, <2>3 DEF MakeItem, At, Call
    <3> QED BY <3>1 DEF Recent
  <2>4. CASE Look(c)
    <3>1. Has(call[c].key) /\ x = m[call[c].key]
      BY <1>1, <1>6, <2>4 DEF Look, Answer, SetStarts, Call
    <3> QED BY <3>1 DEF Has, Around
  <2>5. CASE Check(c)
    <3>1. /\ call[c].pc = "check"
          /\ Goto(c, "refresh") \/ \E err : Answer(c, err, call[c].item)
      BY <2>5 DEF Check, At
    <3>2. x = call[c].item
      BY <1>1, <1>6, <3>1 DEF Goto, Answer, Call
    <3> QED BY <3>1, <3>2 DEF Around
  <2>6. CASE EndRefresh(c)
    <3>1. call[c].item \in Item /\ Around(call[c].item)
      BY <1>1, <2>6 DEF EndRefresh, At, Around
    <3>2. x = Refreshed(call[c].item)
      BY <1>1, <1>6, <2>6 DEF EndRefresh, Answer, Call
    <3>3. x.ts = now /\ x.gen = call[c].item.gen
      BY <3>1, <3>2 DEF Refreshed, Item
    <3> QED BY <3>1, <3>3 DEF Recent
  <2>7. CASE Delete(c)
    <3>1. call'[c] = [call[c] EXCEPT !.pc = "answered", !.err = "nil"]
      BY <2>7 DEF Delete
    <3> QED BY <1>1, <1>6, <3>1 DEF Call
  <2>8. CASE Return(c)
    BY <1>1, <1>6, <2>8, NoCallType DEF Return
  <2> QED
    BY <2>1, <2>2, <2>3, <2>4, <2>5, <2>6, <2>7, <2>8 DEF ClientStep
<1> QED BY <1>3, <1>4, <1>5, <1>6 DEF Around

LEMMA RefreshersItems ==
  ASSUME TypeOK, NEW x \in Item, Around(x)', RefresherStep
  PROVE  Around(x) \/ Recent(x)
<1> USE DEF HasItem, Cloned
<1>1. ref \in Ref /\ (ref.pc \in Cloned => ref.item \in Item)
  BY DEF TypeOK
<1>2. UNCHANGED call
  BY DEF RefresherStep, SelectTick, EndRound, ReadKey, CheckKey, RefreshKey, StoreKey
<1>3. ASSUME NEW c \in Clients, call'[c].pc \in HasItem, x = call'[c].item
      PROVE  Around(x)
  BY <1>2, <1>3 DEF Around
<1>4. ASSUME NEW k \in DOMAIN m', x = m'[k] PROVE Around(x)
  <2>1. CASE UNCHANGED m
    BY <1>4, <2>1 DEF Around
  <2>2. CASE StoreKey
    <3>1. Put(ref.key, ref.item) /\ ref.pc \in Cloned
      BY <2>2 DEF StoreKey
    <3>2. x = ref.item \/ (k \in DOMAIN m /\ x = m[k])
      BY <1>4, <3>1 DEF Put
    <3> QED BY <3>1, <3>2 DEF Around
  <2> QED
    BY <2>1, <2>2 DEF RefresherStep, SelectTick, EndRound, ReadKey, CheckKey, RefreshKey
<1>5. \A todo : Round(todo).pc = "round" /\ Selecting.pc = "select"
  BY DEF Round, Selecting
<1>6. ASSUME ref'.pc \in Cloned, x = ref'.item
      PROVE  Around(x) \/ Recent(x)
  <2>1. CASE SelectTick \/ EndRound \/ StoreKey
    BY <1>5, <1>6, <2>1 DEF SelectTick, EndRound, StoreKey
  <2>2. CASE ReadKey
    <3>1. PICK k \in ref.todo :
            ref' = IF Has(k) /\ ~m[k].lazy
                     THEN [pc |-> "check", todo |-> ref.todo \ {k}, key |-> k, item |-> m[k]]
                     ELSE Round(ref.todo \ {k})
      BY <2>2 DEF ReadKey
    <3>2. Has(k) /\ x = m[k]
      BY <1>5, <1>6, <3>1
    <3> QED BY <3>2 DEF Has, Around
  <2>3. CASE CheckKey
    <3>1. ref.pc = "check" /\ (ref' = [ref EXCEPT !.pc = "refresh"] \/ ref' = Round(ref.todo))
      BY <2>3 DEF CheckKey
    <3>2. x = ref.item
      BY <1>1, <1>5, <1>6, <3>1 DEF Ref
    <3> QED BY <3>1, <3>2 DEF Around
  <2>4. CASE RefreshKey
    <3>1. ref.pc = "refresh" /\ (\/ ref' = [ref EXCEPT !.pc = "storeRefreshed",
                                                   !.item = Refreshed(ref.item)]
                                 \/ ref' = Round(ref.todo))
      BY <2>4 DEF RefreshKey, RefreshFails
    <3>2. x = Refreshed(ref.item) /\ ref.item \in Item /\ Around(ref.item)
      BY <1>1, <1>5, <1>6, <3>1 DEF Ref, Around
    <3>3. x.ts = now /\ x.gen = ref.item.gen
      BY <3>2 DEF Refreshed, Item
    <3> QED BY <3>2, <3>3 DEF Recent
  <2> QED BY <2>1, <2>2, <2>3, <2>4 DEF RefresherStep
<1> QED BY <1>3, <1>4, <1>6 DEF Around

(* What is there after a step is fresh already before it. *)
LEMMA ItemsFresh ==
  ASSUME FreshInv, [Next]_vars, NEW x \in Item, Around(x)'
  PROVE  ItemFresh(x)
<1>1. Around(x) \/ Recent(x)
  <2>1. CASE \E c \in Clients : CallSet(c) \/ CallGet(c) \/ CallDelete(c) \/ ClientStep(c)
    BY <2>1, ClientsItems DEF FreshInv
  <2>2. CASE RefresherStep
    BY <2>2, RefreshersItems DEF FreshInv
  <2>3. CASE SelectDone \/ Tick \/ Cancel \/ UNCHANGED vars
    BY <2>3 DEF SelectDone, Tick, Cancel, vars, Around
  <2> QED BY <2>1, <2>2, <2>3 DEF Next
<1>2. CASE Around(x)
  BY <1>2 DEF FreshInv
<1>3. CASE Recent(x)
  <2>1. x.gen \in 1 .. calls
    <3>1. CASE \E y \in Item : Around(y) /\ x.gen = y.gen
      BY <3>1 DEF FreshInv, ItemFresh
    <3>2. ASSUME NEW c \in Clients, call[c].pc = "make", x.gen = call[c].gen
          PROVE  x.gen \in 1 .. calls
      <4>1. call[c].gen \in Nat /\ call[c].gen # 0 /\ call[c].gen <= calls /\ calls \in Nat
        BY <3>2, CacheAssumption DEF FreshInv, CallFresh, TypeOK, Call
      <4> QED BY <3>2, <4>1
    <3> QED BY <1>3, <3>1, <3>2 DEF Recent
  <2>2. \A c \in Clients : x.ts >= call[c].began
    <3>1. x.ts = now /\ now \in Nat
      BY <1>3, CacheAssumption DEF Recent, FreshInv, TypeOK
    <3>2. \A c \in Clients : call[c].began \in Nat /\ call[c].began <= now
      BY DEF FreshInv, CallFresh, TypeOK, Call
    <3> QED BY <3>1, <3>2
  <2> QED BY <2>1, <2>2 DEF ItemFresh
<1> QED BY <1>1, <1>2, <1>3

(* The call that a client's step is of. *)
LEMMA OwnCallFresh ==
  ASSUME FreshInv, NEW c \in Clients,
         CallSet(c) \/ CallGet(c) \/ CallDelete(c) \/ ClientStep(c)
  PROVE  CallFresh(call'[c], now, calls')
<1> DEFINE a == call[c]
<1>1. /\ call \in [Clients -> Call] /\ a \in Call
      /\ a.pc \in HasItem => a.item \in Item
      /\ now \in Nat /\ calls \in Nat
      /\ DOMAIN m \subseteq Keys /\ \A k \in DOMAIN m : m[k] \in Item
  BY CacheAssumption DEF FreshInv, TypeOK
<1>2. CallFresh(a, now, calls)
  BY DEF FreshInv
<1>3. a.began \in Nat /\ a.gen \in Nat /\ a.began <= now /\ a.gen <= calls
  BY <1>1, <1>2 DEF Call, CallFresh
<1>4. ASSUME NEW pc \in Pcs \ {"idle", "again", "delete", "storeRefreshed", "answered"},
             NEW r, r.pc = pc, r.began = a.began, r.gen = a.gen, a.pc # "idle", calls' = calls
      PROVE  CallFresh(r, now, calls')
  BY <1>2, <1>3, <1>4 DEF CallFresh, Fresh
<1>5. ASSUME NEW err, NEW item, Answer(c, err, item), a.pc # "idle", calls' = calls,
             \/ err # "nil" \/ item = NoItem \/ item.ttl = 0
             \/ item.ts + item.ttl >= a.began
             \/ a.missed /\ item.gen # a.gen
      PROVE  CallFresh(call'[c], now, calls')
  <2>1. call'[c] = [a EXCEPT !.pc = "answered", !.err = err, !.item = item]
    BY <1>1, <1>5 DEF Answer
  <2>2. /\ call'[c].pc = "answered" /\ call'[c].err = err /\ call'[c].item = item
        /\ call'[c].began = a.began /\ call'[c].gen = a.gen /\ call'[c].missed = a.missed
    BY <1>1, <2>1 DEF Call
  <2>3. Fresh(call'[c])
    BY <1>5, <2>2 DEF Fresh
  <2>4. a.gen # 0
    BY <1>2, <1>5 DEF CallFresh
  <2> QED BY <1>3, <1>5, <2>2, <2>3, <2>4 DEF CallFresh
<1>6. ASSUME NEW pc \in Pcs, Goto(c, pc)
      PROVE  /\ call'[c].pc = pc /\ call'[c].began = a.began /\ call'[c].gen = a.gen
             /\ call'[c].missed = a.missed /\ call'[c].item = a.item
  BY <1>1, <1>6 DEF Goto, Call
<1>7. CASE CallSet(c) \/ CallGet(c) \/ CallDelete(c)
  <2>1. PICK pc \in {"make", "load", "look", "delete", "answered"} :
          \E err \in Errors \ {"nil"} : \E k, o : Begin(c, pc, err, k, o)
    BY <1>7 DEF CallSet, CallGet, CallDelete, SetStarts, Errors
  <2>2. /\ call'[c].pc = pc /\ call'[c].began = now /\ call'[c].gen = calls'
        /\ call'[c].item = NoItem /\ calls' = calls + 1
    BY <1>1, <2>1 DEF Begin
  <2> QED BY <1>1, <2>2 DEF CallFresh, Fresh
<1>8. CASE EndLoad(c)
  <2>1. a.pc # "idle" /\ calls' = calls
    BY <1>8 DEF EndLoad, At
  <2>2. CASE Goto(c, "make")
    BY <1>4, <1>6, <2>1, <2>2 DEF Pcs
  <2>3. CASE Answer(c, "ErrOfRefresher", NoItem)
    BY <1>5, <2>1, <2>3
  <2> QED BY <1>8, <2>2, <2>3 DEF EndLoad
<1>9. CASE MakeItem(c)
  <2>1. /\ a.pc # "idle" /\ calls' = calls
        /\ call'[c].pc = "store" /\ call'[c].began = a.began /\ call'[c].gen = a.gen
    BY <1>1, <1>9 DEF MakeItem, At, Call
  <2> QED BY <1>4, <2>1 DEF Pcs
<1>10. CASE StoreItem(c)
  <2>1. a.pc = "store" /\ calls' = calls
    BY <1>10 DEF StoreItem, At
  <2>2. CASE a.missed
    <3>1. Goto(c, "again")
      BY <1>10, <2>2 DEF StoreItem
    <3>2. /\ call'[c].pc = "again" /\ call'[c].began = a.began /\ call'[c].gen = a.gen
          /\ call'[c].missed
      BY <1>6, <2>2, <3>1 DEF Pcs
    <3>3. a.gen # 0
      BY <1>2, <2>1 DEF CallFresh
    <3> QED BY <1>3, <2>1, <3>2, <3>3 DEF CallFresh, Fresh
  <2>3. CASE ~a.missed
    <3>1. Answer(c, "nil", NoItem)
      BY <1>10, <2>3 DEF StoreItem
    <3> QED BY <1>5, <2>1, <3>1
  <2> QED BY <2>2, <2>3
<1>11. CASE Look(c)
  <2>1. a.pc # "idle" /\ calls' = calls
    BY <1>11 DEF Look, At
  <2>2. CASE Answer(c, "ErrNoRefresher", NoItem)
    BY <1>5, <2>1, <2>2
  <2>3. CASE \/ call' = [call EXCEPT ![c].pc = "check", ![c].item = m[a.key]]
             \/ call' = [call EXCEPT ![c].pc = SetStarts(a.opts), ![c].missed = TRUE]
    <3>1. /\ call'[c].pc \in {"check", "make", "load"}
          /\ call'[c].began = a.began /\ call'[c].gen = a.gen
      BY <1>1, <2>3 DEF Call, SetStarts
    <3> QED BY <1>4, <2>1, <3>1 DEF Pcs, Cloned
  <2> QED BY <1>11, <2>2, <2>3 DEF Look
<1>12. CASE LookAgain(c)
  <2>1. a.pc = "again" /\ calls' = calls /\ a.missed
    BY <1>2, <1>12 DEF LookAgain, At, CallFresh
  <2>2. CASE Has(a.key)
    <3>1. PICK x \in Item : x = m[a.key] /\ Around(x)
      BY <1>1, <2>2 DEF Has, Around
    <3>2. Answer(c, "nil", x)
      BY <1>12, <2>2, <3>1 DEF LookAgain
    <3>3. CASE x.gen = a.gen
      <4>1. x.ts >= a.began
        BY <3>1, <3>3 DEF FreshInv, ItemFresh
      <4>2. x.ts + x.ttl >= a.began
        BY <1>3, <4>1 DEF Item
      <4> QED BY <1>5, <2>1, <3>2, <4>2
    <3>4. CASE x.gen # a.gen
      BY <1>5, <2>1, <3>2, <3>4
    <3> QED BY <3>3, <3>4
  <2>3. CASE ~Has(a.key)
    <3>1. Answer(c, "ErrUnexpected", NoItem)
      BY <1>12, <2>3 DEF LookAgain
    <3> QED BY <1>5, <2>1, <3>1
  <2> QED BY <2>2, <2>3
<1>13. CASE Check(c)
  <2>1. a.pc = "check" /\ calls' = calls
    BY <1>13 DEF Check, At
  <2>2. CASE Goto(c, "refresh")
    BY <1>4, <1>6, <2>1, <2>2 DEF Pcs, Cloned
  <2>3. CASE ~Expired(a.item) /\ Answer(c, "nil", a.item)
    <3>1. a.item \in Item
      BY <1>1, <2>1 DEF HasItem, Cloned
    <3>2. a.item.ttl = 0 \/ a.item.ts + a.item.ttl >= a.began
      BY <1>1, <1>3, <2>3, <3>1 DEF Expired, Item
    <3> QED BY <1>5, <2>1, <2>3, <3>2
  <2>4. CASE \E err \in {"ErrStale", "ErrNoRefresher"} : Answer(c, err, a.item)
    BY <1>5, <2>1, <2>4
  <2>5. \/ Goto(c, "refresh")
        \/ ~Expired(a.item) /\ Answer(c, "nil", a.item)
        \/ \E err \in {"ErrStale", "ErrNoRefresher"} : Answer(c, err, a.item)
    BY <1>13 DEF Check, NeedsRefresh
  <2> QED BY <2>2, <2>3, <2>4, <2>5
<1>14. CASE EndRefresh(c)
  <2>1. a.pc = "refresh" /\ calls' = calls
    BY <1>14 DEF EndRefresh, At
  <2>2. CASE call' = [call EXCEPT ![c].pc = "storeRefreshed", ![c].item = Refreshed(a.item)]
    <3>1. a.item \in Item
      BY <1>1, <2>1 DEF HasItem, Cloned
    <3>2. Refreshed(a.item).ts = now
      BY <3>1 DEF Refreshed, Item
    <3>3. /\ call'[c].pc = "storeRefreshed" /\ call'[c].began = a.began /\ call'[c].gen = a.gen
          /\ call'[c].item = Refreshed(a.item)
      BY <1>1, <2>2 DEF Call
    <3>4. a.gen # 0
      BY <1>2, <2>1 DEF CallFresh
    <3> QED BY <1>1, <1>3, <2>1, <3>2, <3>3, <3>4 DEF CallFresh, Fresh
  <2>3. CASE Answer(c, "ErrStale", a.item) \/ Answer(c, "ErrOfRefresher", NoItem)
    BY <1>5, <2>1, <2>3
  <2> QED BY <1>14, <2>2, <2>3 DEF EndRefresh
<1>15. CASE StoreRefreshed(c)
  <2>1. a.pc = "storeRefreshed" /\ calls' = calls /\ Answer(c, "nil", a.item)
    BY <1>15 DEF StoreRefreshed, At
  <2>2. a.item \in Item /\ a.item.ts >= a.began
    BY <1>1, <1>2, <2>1 DEF HasItem, Cloned, CallFresh
  <2>3. a.item.ts + a.item.ttl >= a.began
    BY <1>3, <2>2 DEF Item
  <2> QED BY <1>5, <2>1, <2>3
<1>16. CASE Delete(c)
  <2>1. /\ a.pc = "delete" /\ calls' = calls
        /\ call'[c] = [a EXCEPT !.pc = "answered", !.err = "nil"]
    BY <1>16 DEF Delete, At
  <2>2. a.item = NoItem /\ a.gen # 0
    BY <1>2, <2>1 DEF CallFresh
  <2>3. /\ call'[c].pc = "answered" /\ call'[c].began = a.began /\ call'[c].gen = a.gen
        /\ call'[c].item = NoItem
    BY <1>1, <2>1, <2>2 DEF Call
  <2> QED BY <1>3, <2>1, <2>2, <2>3 DEF CallFresh, Fresh
<1>17. CASE Return(c)
  <2>1. call'[c] = NoCall /\ calls' = calls
    BY <1>1, <1>17 DEF Return
  <2>2. NoCall.pc = "idle" /\ NoCall.gen = 0 /\ NoCall.began = 0
    BY DEF NoCall
  <2> QED BY <1>1, <2>1, <2>2 DEF CallFresh, Fresh
<1> QED
  BY <1>7, <1>8, <1>9, <1>10, <1>11, <1>12, <1>13, <1>14, <1>15, <1>16, <1>17 DEF ClientStep

LEMMA StepFresh == FreshInv /\ [Next]_vars => FreshInv'
<1> SUFFICES ASSUME FreshInv, [Next]_vars PROVE FreshInv'
  OBVIOUS
<1>1. TypeOK /\ TypeOK' /\ CallsMove
  BY StepTypeOK, CallsMoveSo DEF FreshInv
<1>2. CallsDiffer'
  <2> SUFFICES ASSUME NEW d \in Clients, NEW e \in Clients, d # e,
                      call'[d].gen = call'[e].gen, call'[d].gen # 0
               PROVE  FALSE
    BY DEF CallsDiffer
  <2>1. /\ calls \in Nat
        /\ \A c \in Clients : call[c].gen \in Nat /\ call[c].gen <= calls
    BY <1>1, CacheAssumption DEF TypeOK, Call, FreshInv, CallFresh
  <2>2. CASE SameCall(d) /\ SameCall(e)
    BY <2>2 DEF SameCall, FreshInv, CallsDiffer
  <2>3. CASE ~SameCall(d)
    BY <1>1, <2>1, <2>3 DEF CallsMove, SameCall
  <2>4. CASE ~SameCall(e)
    BY <1>1, <2>1, <2>4 DEF CallsMove, SameCall
  <2> QED BY <2>2, <2>3, <2>4
<1>3. ASSUME NEW d \in Clients PROVE CallFresh(call'[d], now', calls')
  <2>1. /\ CallFresh(call[d], now, calls) /\ call[d] \in Call
        /\ calls \in Nat /\ call[d].gen \in Nat /\ call[d].began \in Nat /\ now \in Nat
    BY <1>1, CacheAssumption DEF FreshInv, TypeOK, Call
  <2>2. calls' \in {calls, calls + 1}
    BY <1>1 DEF CallsMove
  <2>3. ASSUME NEW c \in Clients, CallSet(c) \/ CallGet(c) \/ CallDelete(c) \/ ClientStep(c)
        PROVE  CallFresh(call'[d], now', calls')
    <3>1. now' = now
      BY <1>1, <2>3, OthersKept
    <3>2. CASE d = c
      BY <2>3, <3>1, <3>2, OwnCallFresh
    <3>3. CASE d # c
      <4>1. call'[d] \in {call[d], [call[d] EXCEPT !.cut = TRUE]}
        BY <1>1, <2>3, <3>3, OthersKept
      <4>2. /\ call'[d].pc = call[d].pc /\ call'[d].err = call[d].err
            /\ call'[d].item = call[d].item /\ call'[d].began = call[d].began
            /\ call'[d].gen = call[d].gen /\ call'[d].missed = call[d].missed
        BY <2>1, <4>1 DEF Call
      <4>3. Fresh(call'[d])
        BY <2>1, <4>2 DEF CallFresh, Fresh
      <4>4. call[d].gen <= calls'
        BY <2>1, <2>2 DEF CallFresh
      <4> QED BY <2>1, <3>1, <4>2, <4>3, <4>4 DEF CallFresh
    <3> QED BY <3>2, <3>3
  <2>4. CASE RefresherStep \/ SelectDone \/ Tick \/ Cancel \/ UNCHANGED vars
    <3>1. UNCHANGED <<call, calls>> /\ now' \in Nat /\ now <= now'
      BY <1>1, <2>4, TimePasses
    <3>2. call[d].began <= now'
      BY <2>1, <3>1 DEF CallFresh
    <3> QED BY <2>1, <3>1, <3>2 DEF CallFresh
  <2> QED BY <2>3, <2>4 DEF Next
<1>4. ASSUME NEW x \in Item, Around(x)' PROVE ItemFresh(x)'
  BY <1>1, <1>4, ItemsFresh, ItemStaysFresh
<1> QED BY <1>1, <1>2, <1>3, <1>4 DEF FreshInv

(* However Get, Set and the refresher interleave, a Get that finds the key,  *)
(* or sets it and then finds its own item, returns with nil only a value     *)
(* that was within its time to live at some moment of the call (cache.go:68, *)
(* 81, 285-290, 307).                                                        *)
THEOREM NilIsFresh == Spec => []NilMeansFresh
<1>1. Init => FreshInv
  <2> SUFFICES ASSUME Init PROVE FreshInv
    OBVIOUS
  <2>1. NoCall.pc = "idle" /\ NoCall.gen = 0 /\ NoCall.began = 0
    BY DEF NoCall
  <2>2. \A c \in Clients : call[c] = NoCall
    BY DEF Init
  <2>3. \A c \in Clients : CallFresh(call[c], now, calls)
    BY <2>1, <2>2 DEF Init, CallFresh, Fresh
  <2>4. \A x : ~Around(x)
    <3>1. DOMAIN m = {} /\ ref.pc = "select"
      BY DEF Init, Selecting
    <3> QED BY <2>1, <2>2, <3>1 DEF Around, HasItem, Cloned
  <2> QED BY <2>1, <2>2, <2>3, <2>4, InitTypeOK DEF FreshInv, CallsDiffer
<1>2. FreshInv => NilMeansFresh
  BY DEF FreshInv, CallFresh, Fresh, NilMeansFresh, GaveValue, WasFresh
<1> QED BY <1>1, <1>2, StepFresh, PTL DEF Spec
===============================================================================
