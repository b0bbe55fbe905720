--------------------------------- MODULE Cache ---------------------------------
(***************************************************************************)
(* cache.Cache over safe.Map: clients call Set, Get and Delete while one   *)
(* goroutine refreshes expired items.  Each operation of the map is one    *)
(* critical section and one step here; a call is a sequence of them with   *)
(* the refresher function of the client, which takes its time, in between. *)
(*                                                                         *)
(* Items are cloned before they are refreshed, so that a stored item never *)
(* changes and an item can be a value.  Its own value is not represented:  *)
(* gen, the number of the call that made the item, says where it is from.  *)
(***************************************************************************)
EXTENDS Integers, Functions

CONSTANTS
  Keys, Clients,
  Options,         \* what calls may be given, as records [solid, src, ttl, lazy, stale]
  Sources,         \* refresher functions
  Reliable,        \* those that never fail
  NoSource,        \* a nil refresher
  NoItem,          \* no value is returned
  Times,           \* bound: the moments the clock may show, the first is 0
  MaxCalls         \* bound: calls of Set, Get and Delete

ASSUME CacheAssumption ==
  /\ NoSource \notin Sources
  /\ Reliable \subseteq Sources
  /\ Options \subseteq [solid : BOOLEAN, src : Sources \cup {NoSource},
                        ttl : Nat, lazy : BOOLEAN, stale : BOOLEAN]
  /\ Times \subseteq Nat
  /\ 0 \in Times
  /\ MaxCalls \in Nat
  /\ Keys # {} /\ Options # {}

Item == [ts : Nat, ttl : Nat, src : Sources \cup {NoSource}, lazy : BOOLEAN, gen : Nat]

ASSUME NoItemAssumption == NoItem \notin Item

VARIABLES
  now,             \* time.Now()
  m,               \* c.m: a function on the keys that are present
  calls,           \* number of calls so far
  call,            \* the call of each client, or NoCall
  ref,             \* the refreshing goroutine: where it is, its keys, key and item
  ticker,          \* runs, or is stopped, with a tick left in its channel or without
  ctxDone,
  left,            \* history: gen of the item the last Set left (0: Delete), and
                   \*   whether a clone of an earlier one was around at the time
  late             \* history: 1 once the refresher noticed the cancellation, and
                   \*   one more for each round it began after that

vars == <<now, m, calls, call, ref, ticker, ctxDone, left, late>>

Cloned == {"check", "refresh", "storeRefreshed"}
Pcs == Cloned \cup {"idle", "load", "make", "store", "look", "again", "delete", "answered"}
Errors == {"none", "nil", "ErrStale", "ErrNoRefresher", "ErrUnexpected", "ErrOfRefresher"}

Call == [pc : Pcs, key : Keys, opts : Options, item : Item \cup {NoItem}, began : Nat,
         gen : Nat, missed : BOOLEAN, cut : BOOLEAN, err : Errors]
Ref == [pc : Cloned \cup {"select", "round"}, todo : SUBSET Keys, key : Keys,
        item : Item \cup {NoItem}]

(* The places where an item is at hand. *)
HasItem == Cloned \cup {"store"}

(* Every variable has its type; a nil refresher is never called. *)
TypeOK ==
  /\ now \in Times
  /\ DOMAIN m \subseteq Keys
  /\ m \in [DOMAIN m -> Item]
  /\ calls \in 0 .. MaxCalls
  /\ call \in [Clients -> Call]
  /\ \A c \in Clients :
       /\ call[c].pc \in HasItem => call[c].item \in Item
       /\ call[c].pc = "refresh" => call[c].item.src # NoSource
       /\ call[c].pc = "load" => call[c].opts.src # NoSource
  /\ ref \in Ref
  /\ ref.pc \in Cloned => ref.item \in Item
  /\ ref.pc = "refresh" => ref.item.src # NoSource
  /\ ticker \in {"runs", "tickLeft", "stopped"}
  /\ ctxDone \in BOOLEAN
  /\ left \in [Keys -> [gen : Nat, overtaken : BOOLEAN]]
  /\ late \in 0 .. 3

NoCall == [pc |-> "idle", key |-> CHOOSE k \in Keys : TRUE,
           opts |-> CHOOSE o \in Options : TRUE, item |-> NoItem, began |-> 0,
           gen |-> 0, missed |-> FALSE, cut |-> FALSE, err |-> "none"]

Selecting == [pc |-> "select", todo |-> {}, key |-> NoCall.key, item |-> NoItem]
Round(todo) == [Selecting EXCEPT !.pc = "round", !.todo = todo]

Init ==
  /\ now = 0
  /\ m = [k \in {} |-> NoItem]
  /\ calls = 0
  /\ call = [c \in Clients |-> NoCall]
  /\ ref = Selecting
  /\ ticker = "runs"
  /\ ctxDone = FALSE
  /\ left = [k \in Keys |-> [gen |-> 0, overtaken |-> FALSE]]
  /\ late = 0

-------------------------------------------------------------------------------
(* safe.Map *)
Has(k) == k \in DOMAIN m
Put(k, item) == m' = [x \in DOMAIN m \cup {k} |-> IF x = k THEN item ELSE m[x]]
Remove(k) == m' = Restrict(m, DOMAIN m \ {k})

Expired(item) == item.ttl # 0 /\ item.ts + item.ttl < now

Refreshed_KeepsTime(item) == item        \* mutant: the time stamp is left as it is
Refreshed(item) == [item EXCEPT !.ts = now]

NeedsRefresh(item) == item.src # NoSource /\ Expired(item)

(* Someone other than c holds a clone of an item of k that it may store. *)
CloneIsAround(k, c) ==
  \/ ref.pc \in Cloned /\ ref.key = k
  \/ \E d \in Clients \ {c} : call[d].pc \in Cloned /\ call[d].key = k

-------------------------------------------------------------------------------
(* Clients *)
At(c, pc) == call[c].pc = pc
Goto(c, pc) == call' = [call EXCEPT ![c].pc = pc]
Answer(c, err, item) ==
  call' = [call EXCEPT ![c].pc = "answered", ![c].err = err, ![c].item = item]

Begin(c, pc, err, k, o) ==
  /\ At(c, "idle")
  /\ calls < MaxCalls
  /\ calls' = calls + 1
  /\ call' = [call EXCEPT ![c] =
               [pc |-> pc, key |-> k, opts |-> o, item |-> NoItem, began |-> now,
                gen |-> calls', missed |-> FALSE, cut |-> FALSE, err |-> err]]
  /\ UNCHANGED <<now, m, ref, ticker, ctxDone, left, late>>

(* Where Set goes first: a value or else a refresher must have been given. *)
SetStarts(o) == IF o.solid THEN "make" ELSE "load"
SetIsRefused(o) == ~o.solid /\ o.src = NoSource

CallSet(c) ==
  \E k \in Keys, o \in Options :
    IF SetIsRefused(o) THEN Begin(c, "answered", "ErrNoRefresher", k, o)
                       ELSE Begin(c, SetStarts(o), "none", k, o)
CallGet(c) == \E k \in Keys, o \in Options : Begin(c, "look", "none", k, o)
CallDelete(c) == \E k \in Keys : Begin(c, "delete", "none", k, NoCall.opts)

Return(c) ==
  /\ At(c, "answered")
  /\ call' = [call EXCEPT ![c] = NoCall]
  /\ UNCHANGED <<now, m, calls, ref, ticker, ctxDone, left, late>>

EndLoad(c) ==
  /\ At(c, "load")
  /\ \/ Goto(c, "make")
     \/ call[c].opts.src \notin Reliable /\ Answer(c, "ErrOfRefresher", NoItem)
  /\ UNCHANGED <<now, m, calls, ref, ticker, ctxDone, left, late>>

MakeItem(c) ==
  /\ At(c, "make")
  /\ LET o == call[c].opts IN
       call' = [call EXCEPT ![c].pc = "store",
                            ![c].item = [ts |-> now, ttl |-> o.ttl, src |-> o.src,
                                         lazy |-> o.lazy, gen |-> call[c].gen]]
  /\ UNCHANGED <<now, m, calls, ref, ticker, ctxDone, left, late>>

StoreItem_IfNotExists(c) ==                  \* mutant: SetIfNotExists is used
  /\ At(c, "store")
  /\ LET k == call[c].key IN
       /\ IF Has(k) THEN UNCHANGED m ELSE Put(k, call[c].item)
       /\ left' = [left EXCEPT ![k] = [gen |-> call[c].gen, overtaken |-> CloneIsAround(k, c)]]
  /\ IF call[c].missed THEN Goto(c, "again") ELSE Answer(c, "nil", NoItem)
  /\ UNCHANGED <<now, calls, ref, ticker, ctxDone, late>>

StoreItem(c) ==
  /\ At(c, "store")
  /\ LET k == call[c].key IN
       /\ Put(k, call[c].item)
       /\ left' = [left EXCEPT ![k] = [gen |-> call[c].gen, overtaken |-> CloneIsAround(k, c)]]
  /\ IF call[c].missed THEN Goto(c, "again") ELSE Answer(c, "nil", NoItem)
  /\ UNCHANGED <<now, calls, ref, ticker, ctxDone, late>>

(* Get looks, sets with its own options when the key is missing, ... *)
Look(c) ==
  /\ At(c, "look")
  /\ LET k == call[c].key  o == call[c].opts IN
       IF Has(k)
         THEN call' = [call EXCEPT ![c].pc = "check", ![c].item = m[k]]
         ELSE IF SetIsRefused(o)
                THEN Answer(c, "ErrNoRefresher", NoItem)
                ELSE call' = [call EXCEPT ![c].pc = SetStarts(o), ![c].missed = TRUE]
  /\ UNCHANGED <<now, m, calls, ref, ticker, ctxDone, left, late>>

(* ... and looks again. *)
LookAgain(c) ==
  /\ At(c, "again")
  /\ IF Has(call[c].key) THEN Answer(c, "nil", m[call[c].key])
                         ELSE Answer(c, "ErrUnexpected", NoItem)
  /\ UNCHANGED <<now, m, calls, ref, ticker, ctxDone, left, late>>

(* An item that was there is returned, or refreshed with its own refresher. *)
Check(c) ==
  /\ At(c, "check")
  /\ LET item == call[c].item IN
       IF NeedsRefresh(item)
         THEN Goto(c, "refresh")
         ELSE Answer(c, CASE ~Expired(item) -> "nil"
                          [] Expired(item) /\ call[c].opts.stale -> "ErrStale"
                          [] OTHER -> "ErrNoRefresher", item)
  /\ UNCHANGED <<now, m, calls, ref, ticker, ctxDone, left, late>>

EndRefresh(c) ==
  /\ At(c, "refresh")
  /\ LET item == call[c].item IN
       \/ call' = [call EXCEPT ![c].pc = "storeRefreshed", ![c].item = Refreshed(item)]
       \/ /\ item.src \notin Reliable
          /\ IF call[c].opts.stale THEN Answer(c, "ErrStale", item)
                                   ELSE Answer(c, "ErrOfRefresher", NoItem)
  /\ UNCHANGED <<now, m, calls, ref, ticker, ctxDone, left, late>>

StoreRefreshed(c) ==
  /\ At(c, "storeRefreshed")
  /\ Put(call[c].key, call[c].item)
  /\ Answer(c, "nil", call[c].item)
  /\ UNCHANGED <<now, calls, ref, ticker, ctxDone, left, late>>

Delete(c) ==
  /\ At(c, "delete")
  /\ LET k == call[c].key IN
       /\ Remove(k)
       /\ left' = [left EXCEPT ![k] = [gen |-> 0, overtaken |-> CloneIsAround(k, c)]]
       /\ call' = [d \in Clients |->
                    CASE d = c -> [call[d] EXCEPT !.pc = "answered", !.err = "nil"]
                      [] d # c /\ call[d].key = k -> [call[d] EXCEPT !.cut = TRUE]
                      [] OTHER -> call[d]]
  /\ UNCHANGED <<now, calls, ref, ticker, ctxDone, late>>

ClientStep(c) ==
  \/ EndLoad(c)
  \/ MakeItem(c)
  \/ StoreItem(c)
  \/ Look(c)
  \/ LookAgain(c)
  \/ Check(c)
  \/ EndRefresh(c)
  \/ StoreRefreshed(c)
  \/ Delete(c)
  \/ Return(c)

-------------------------------------------------------------------------------
(* refreshAll *)

SelectDone ==
  /\ ref.pc = "select"
  /\ ctxDone
  /\ IF ticker = "runs" THEN ticker' \in {"tickLeft", "stopped"} ELSE UNCHANGED ticker
  /\ late' = IF late = 0 THEN 1 ELSE late
  /\ UNCHANGED <<now, m, calls, call, ref, ctxDone, left>>

(* While the ticker runs a tick comes at any time. *)
SelectTick ==
  /\ ref.pc = "select"
  /\ ticker # "stopped"
  /\ ticker' = IF ticker = "tickLeft" THEN "stopped" ELSE ticker
  /\ ref' = Round(DOMAIN m)
  /\ late' = IF late \in {1, 2} THEN late + 1 ELSE late
  /\ UNCHANGED <<now, m, calls, call, ctxDone, left>>

EndRound ==
  /\ ref.pc = "round"
  /\ ref.todo = {}
  /\ ref' = Selecting
  /\ UNCHANGED <<now, m, calls, call, ticker, ctxDone, left, late>>

ReadKey ==
  /\ ref.pc = "round"
  /\ \E k \in ref.todo :
       ref' = IF Has(k) /\ ~m[k].lazy
                THEN [pc |-> "check", todo |-> ref.todo \ {k}, key |-> k, item |-> m[k]]
                ELSE Round(ref.todo \ {k})
  /\ UNCHANGED <<now, m, calls, call, ticker, ctxDone, left, late>>

CheckKey ==
  /\ ref.pc = "check"
  /\ ref' = IF NeedsRefresh(ref.item) THEN [ref EXCEPT !.pc = "refresh"] ELSE Round(ref.todo)
  /\ UNCHANGED <<now, m, calls, call, ticker, ctxDone, left, late>>

RefreshFails_EndsRound == ref' = Selecting  \* mutant: break
RefreshFails == ref' = Round(ref.todo)

RefreshKey ==
  /\ ref.pc = "refresh"
  /\ \/ ref' = [ref EXCEPT !.pc = "storeRefreshed", !.item = Refreshed(ref.item)]
     \/ ref.item.src \notin Reliable /\ RefreshFails
  /\ UNCHANGED <<now, m, calls, call, ticker, ctxDone, left, late>>

StoreKey ==
  /\ ref.pc = "storeRefreshed"
  /\ Put(ref.key, ref.item)
  /\ ref' = Round(ref.todo)
  /\ UNCHANGED <<now, calls, call, ticker, ctxDone, left, late>>

RefresherStep == SelectTick \/ EndRound \/ ReadKey \/ CheckKey \/ RefreshKey \/ StoreKey

-------------------------------------------------------------------------------
Tick ==
  /\ \E t \in Times : t > now /\ now' = t
  /\ UNCHANGED <<m, calls, call, ref, ticker, ctxDone, left, late>>

Cancel ==
  /\ ~ctxDone
  /\ ctxDone' = TRUE
  /\ UNCHANGED <<now, m, calls, call, ref, ticker, left, late>>

Next ==
  \/ \E c \in Clients : CallSet(c) \/ CallGet(c) \/ CallDelete(c) \/ ClientStep(c)
  \/ RefresherStep
  \/ SelectDone
  \/ Tick
  \/ Cancel

Spec == Init /\ [][Next]_vars

(* Fairness: the refresher is scheduled, its ticker ticks, refresher        *)
(* functions return.  No one need call anything, or cancel.                 *)
FairSpec ==
  /\ Spec
  /\ WF_vars(RefresherStep)

-------------------------------------------------------------------------------
(* A Get that has answered with a value and no error. *)
GaveValue(a) == a.pc = "answered" /\ a.err = "nil" /\ a.item # NoItem

(* The item was within its time to live at some moment of the call. *)
WasFresh(a) == a.item.ttl = 0 \/ a.item.ts + a.item.ttl >= a.began

(* A Get that finds the key, or sets the missing key and then finds its own *)
(* item, refreshed or not, answers without an error only with a value that  *)
(* was within its time to live at some moment of the call (cache.go:68, 81, *)
(* 285-290, 307).  Of a Get that sets the key and finds the item of another *)
(* call nothing is said here: see NilIsNeverStale.                          *)
NilMeansFresh ==
  \A c \in Clients :
    LET a == call[c] IN
      GaveValue(a) /\ (a.missed => a.item.gen = a.gen) => WasFresh(a)

(* What the last Set or Delete of a key left is what is there, refreshed or *)
(* not, unless a Get or the refresher held a clone of an earlier item at    *)
(* the time and stored it afterwards (cache.go:155, 166, 257, 307).         *)
LastCallWins ==
  \A k \in Keys :
    ~left[k].overtaken =>
      IF Has(k) THEN m[k].gen = left[k].gen ELSE left[k].gen = 0

(* Get fails with ErrUnexpected only if the key was deleted during the call *)
(* (cache.go:281-286): nothing but Delete takes a key out of the map.       *)
UnexpectedOnlyIfDeleted ==
  \A c \in Clients : call[c].err = "ErrUnexpected" => call[c].cut

(* An expired item that is not lazy and whose refresher works is refreshed, *)
(* replaced or deleted, whatever the refreshers of other keys do, as long   *)
(* as the context is not cancelled (cache.go:139-157).                      *)
IsDue(k, t) ==
  /\ ~ctxDone
  /\ Has(k)
  /\ m[k].ts = t /\ Expired(m[k])
  /\ ~m[k].lazy /\ m[k].src \in Reliable

EveryDueItemIsRefreshed ==
  \A k \in Keys, t \in Times : IsDue(k, t) ~> ~IsDue(k, t)

(* Once the cancellation was noticed at most one more round is started: for *)
(* the tick that was in the ticker's channel (cache.go:137-140).            *)
AtMostOneLateRound == late < 3

-------------------------------------------------------------------------------
(* What the documentation says and the code does not do *)

(* "note, when stale data is returned, ErrStale should be expected"         *)
(* (cache.go:219): whatever a Get answers without an error was within its   *)
(* time to live at some moment of the call.  Get looks again after it set a *)
(* missing key and returns what it finds as it is (cache.go:284-287).       *)
NilIsNeverStale == \A c \in Clients : GaveValue(call[c]) => WasFresh(call[c])
===============================================================================
