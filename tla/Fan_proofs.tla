------------------------------ MODULE Fan_proofs ------------------------------
(***************************************************************************)
(* Proofs about Pool and about Fan, which is built on it.                  *)
(*                                                                         *)
(* Pool, for any tasks, callers and size: types and the wait group, that   *)
(* UntilFinished returns nil only when all tasks have ended, and that the  *)
(* limit holds for the calls of a single goroutine.                        *)
(*                                                                         *)
(* Fan, for any slices, concurrency and cancellation: it uses its pool as  *)
(* Pool specifies, within the limit; what In returns with nil is final and *)
(* in place; and a task writes out of range only if Out was called with    *)
(* fewer items than before.                                                *)
(***************************************************************************)
EXTENDS Fan, FiniteSetTheorems, SequenceTheorems, TLAPS

(***************************************************************************)
(* The pool.                                                               *)
(***************************************************************************)

LEMMA InitTypeOK == Init => TypeOK
<1> SUFFICES ASSUME Init PROVE TypeOK
  OBVIOUS
<1>1. wg = {w \in Tasks : worker[w] \in {"select", "busy"}}
  BY DEF Init
<1>2. cur \in [Tasks -> Tasks]
  BY DEF Init
<1> QED BY <1>1, <1>2 DEF Init, TypeOK, InRun

LEMMA StepTypeOK == TypeOK /\ [Next]_vars => TypeOK'
<1> SUFFICES ASSUME TypeOK, [Next]_vars PROVE TypeOK'
  OBVIOUS
<1> USE DEF TypeOK, InRun
<1>1. ASSUME NEW t \in Tasks, CheckCount(t) PROVE TypeOK'
  BY <1>1 DEF CheckCount
<1>2. ASSUME NEW t \in Tasks, LoadCount(t) PROVE TypeOK'
  BY <1>2 DEF LoadCount
<1>3. ASSUME NEW t \in Tasks, StoreCount(t) PROVE TypeOK'
  BY <1>3 DEF StoreCount
<1>4. ASSUME NEW t \in Tasks, StartWorker(t) PROVE TypeOK'
  BY <1>4 DEF StartWorker
<1>5. ASSUME NEW t \in Tasks, NEW w \in Tasks, HandOver(t, w) PROVE TypeOK'
  BY <1>5 DEF HandOver
<1>6. ASSUME NEW w \in Tasks, EndTask(w) PROVE TypeOK'
  BY <1>6 DEF EndTask
<1>7. ASSUME NEW w \in Tasks, ExitWorker(w) PROVE TypeOK'
  BY <1>7 DEF ExitWorker
<1>8. CASE UntilFinished \/ StopWaiting \/ ReturnNil \/ ReturnError \/ Cancel
  BY <1>8 DEF UntilFinished, StopWaiting, ReturnNil, ReturnError, Cancel
<1>9. CASE UNCHANGED vars
  BY <1>9 DEF vars
<1> QED
  BY <1>1, <1>2, <1>3, <1>4, <1>5, <1>6, <1>7, <1>8, <1>9
     DEF Next, RunStep, WorkerStep, WaiterStep, Rest

(* Type correctness: in particular the wait group counts exactly the        *)
(* goroutines that have not exited (pool.go:74-76).                         *)
THEOREM TypeCorrect == Spec => []TypeOK
BY InitTypeOK, StepTypeOK, PTL DEF Spec

-------------------------------------------------------------------------------
(* The goroutine a Run starts is a new one. *)
NotYetStarted ==
  \A t \in Tasks : run[t] \in {"idle", "spawn", "store", "go"} => worker[t] = "none"

LEMMA StepNotYetStarted ==
  TypeOK /\ NotYetStarted /\ [Next]_vars => NotYetStarted'
<1> SUFFICES ASSUME TypeOK, NotYetStarted, [Next]_vars PROVE NotYetStarted'
  OBVIOUS
<1> USE DEF TypeOK, InRun, NotYetStarted
<1>1. ASSUME NEW t \in Tasks, CheckCount(t) \/ LoadCount(t) \/ StoreCount(t)
      PROVE  NotYetStarted'
  BY <1>1 DEF CheckCount, LoadCount, StoreCount
<1>2. ASSUME NEW t \in Tasks, StartWorker(t) PROVE NotYetStarted'
  BY <1>2 DEF StartWorker
<1>3. ASSUME NEW t \in Tasks, NEW w \in Tasks, HandOver(t, w) PROVE NotYetStarted'
  BY <1>3 DEF HandOver
<1>4. ASSUME NEW w \in Tasks, WorkerStep(w) PROVE NotYetStarted'
  BY <1>4 DEF WorkerStep, EndTask, ExitWorker
<1>5. CASE UNCHANGED <<run, worker>>
  BY <1>5
<1> QED
  BY <1>1, <1>2, <1>3, <1>4, <1>5
     DEF Next, RunStep, WaiterStep, Rest, UntilFinished, StopWaiting, ReturnNil,
         ReturnError, Cancel, vars

-------------------------------------------------------------------------------
(* A task that was handed over has ended or is being executed. *)
HandedOver ==
  \A t \in Tasks :
    run[t] = "returned" /\ t \notin NilTasks =>
      t \in ended \/ \E w \in Tasks : worker[w] = "busy" /\ cur[w] = t

LEMMA StepHandedOver ==
  TypeOK /\ NotYetStarted /\ HandedOver /\ [Next]_vars => HandedOver'
<1> SUFFICES ASSUME TypeOK, NotYetStarted, HandedOver, [Next]_vars PROVE HandedOver'
  OBVIOUS
<1> USE DEF TypeOK, HandedOver
<1>1. ASSUME \A t \in Tasks : run'[t] = "returned" => run[t] = "returned",
             ended \subseteq ended',
             \A w \in Tasks : worker[w] = "busy" =>
               \/ worker'[w] = "busy" /\ cur'[w] = cur[w]
               \/ cur[w] \in ended'
      PROVE  HandedOver'
  BY <1>1
<1>2. ASSUME NEW t \in Tasks, CheckCount(t) \/ LoadCount(t) \/ StoreCount(t)
      PROVE  HandedOver'
  BY <1>1, <1>2 DEF CheckCount, LoadCount, StoreCount
<1>3. ASSUME NEW t \in Tasks, StartWorker(t) PROVE HandedOver'
  BY <1>1, <1>3 DEF StartWorker, NotYetStarted
<1>4. ASSUME NEW t \in Tasks, NEW w \in Tasks, HandOver(t, w) PROVE HandedOver'
  <2>1. \A v \in Tasks : worker[v] = "busy" => worker'[v] = "busy" /\ cur'[v] = cur[v]
    BY <1>4 DEF HandOver
  <2>2. \A u \in Tasks : run'[u] = "returned" => run[u] = "returned" \/ u = t
    BY <1>4 DEF HandOver
  <2>3. t \notin NilTasks => worker'[w] = "busy" /\ cur'[w] = t
    BY <1>4 DEF HandOver
  <2>4. ended' = ended
    BY <1>4 DEF HandOver
  <2> QED BY <2>1, <2>2, <2>3, <2>4
<1>5. ASSUME NEW w \in Tasks, WorkerStep(w) PROVE HandedOver'
  BY <1>1, <1>5 DEF WorkerStep, EndTask, ExitWorker
<1>6. CASE UNCHANGED <<run, worker, cur, ended>>
  BY <1>6
<1> QED
  BY <1>2, <1>3, <1>4, <1>5, <1>6
     DEF Next, RunStep, WaiterStep, Rest, UntilFinished, StopWaiting, ReturnNil,
         ReturnError, Cancel, vars

(* Once UntilFinished is called no Run is in progress, so that a wait group *)
(* that was found at zero stays there.                                      *)
NoRunAnyMore ==
  /\ waiter = "idle" <=> signaller = "none"
  /\ waiter # "idle" => \A t \in Tasks : run[t] \notin InRun
  /\ signaller \in {"sending", "exited"} => wg = {}
  /\ waiter = "nil" => signaller = "exited"

LEMMA StepNoRunAnyMore == TypeOK /\ NoRunAnyMore /\ [Next]_vars => NoRunAnyMore'
<1> SUFFICES ASSUME TypeOK, NoRunAnyMore, [Next]_vars PROVE NoRunAnyMore'
  OBVIOUS
<1> USE DEF NoRunAnyMore, InRun
<1>1. ASSUME NEW t \in Tasks, CheckCount(t) PROVE NoRunAnyMore'
  BY <1>1 DEF CheckCount
<1>2. ASSUME NEW t \in Tasks, RunStep(t) PROVE NoRunAnyMore'
  <2>1. waiter = "idle" /\ signaller = "none"
    BY <1>2 DEF RunStep, LoadCount, StoreCount, StartWorker, HandOver
  <2>2. UNCHANGED <<waiter, signaller>>
    BY <1>2 DEF RunStep, LoadCount, StoreCount, StartWorker, HandOver
  <2> QED BY <2>1, <2>2
<1>3. ASSUME NEW w \in Tasks, WorkerStep(w) PROVE NoRunAnyMore'
  BY <1>3 DEF WorkerStep, EndTask, ExitWorker
<1>4. CASE UntilFinished
  BY <1>4 DEF UntilFinished
<1>5. CASE StopWaiting
  BY <1>5 DEF StopWaiting, WaitGroupIsZero
<1>6. CASE WaiterStep
  BY <1>6 DEF WaiterStep, ReturnNil, ReturnError
<1>7. CASE Cancel \/ UNCHANGED vars
  BY <1>7 DEF Cancel, vars
<1> QED BY <1>1, <1>2, <1>3, <1>4, <1>5, <1>6, <1>7 DEF Next, Rest

(* UntilFinished returns nil only when every task that was handed over has  *)
(* been executed to its end: the wait group is empty then, so that no       *)
(* goroutine can still be executing one (pool.go:71-107).                   *)
THEOREM NilIsFinal == Spec => []NilMeansAllTasksEnded
<1> DEFINE WaitInv == TypeOK /\ NotYetStarted /\ HandedOver /\ NoRunAnyMore
<1>1. Init => WaitInv
  BY InitTypeOK DEF Init, NotYetStarted, HandedOver, NoRunAnyMore
<1>2. WaitInv /\ [Next]_vars => WaitInv'
  BY StepTypeOK, StepNotYetStarted, StepHandedOver, StepNoRunAnyMore
<1>3. WaitInv => NilMeansAllTasksEnded
  BY DEF TypeOK, HandedOver, NoRunAnyMore, NilMeansAllTasksEnded
<1> QED BY <1>1, <1>2, <1>3, PTL DEF Spec

-------------------------------------------------------------------------------
(* The limit, for the calls of one goroutine: the count is then the number  *)
(* of goroutines ever started.                                              *)
Spawned == {w \in Tasks : worker[w] # "none"}

CountIsExact ==
  /\ IsFiniteSet(Spawned)
  /\ (\A t \in Tasks : run[t] # "go") => count = Cardinality(Spawned)
  /\ \A t \in Tasks :
       /\ run[t] = "go" => count = Cardinality(Spawned) + 1
       /\ run[t] = "store" => loaded[t] = count
       /\ run[t] \in {"spawn", "store"} /\ Size # 0 => count < Size
  /\ Size # 0 => count <= Size

LEMMA StepCountIsExact ==
  ASSUME \A t, u \in Tasks : CallerOf[t] = CallerOf[u]
  PROVE  TypeOK /\ NotYetStarted /\ CountIsExact /\ [Next]_vars => CountIsExact'
<1> SUFFICES ASSUME TypeOK, NotYetStarted, CountIsExact, [Next]_vars
             PROVE  CountIsExact'
  OBVIOUS
<1> USE PoolAssumption DEF TypeOK, InRun, CountIsExact
<1>1. Cardinality(Spawned) \in Nat /\ count \in Nat /\ Size \in Nat
  BY FS_CardinalityType
<1>2. \A t, u \in Tasks : run[t] \in InRun /\ run[u] \in InRun => t = u
  OBVIOUS
<1>3. ASSUME NEW t \in Tasks, CheckCount(t) PROVE CountIsExact'
  <2>1. UNCHANGED <<count, loaded, Spawned>>
    BY <1>3 DEF CheckCount, Spawned
  <2>2. \A u \in Tasks : run[u] \notin InRun
    BY <1>3 DEF CheckCount
  <2>3. \A u \in Tasks : run'[u] \notin {"store", "go"}
    BY <1>3, <2>2 DEF CheckCount
  <2>4. \A u \in Tasks : run'[u] = "spawn" /\ Size # 0 => count < Size
    BY <1>3, <2>2 DEF CheckCount, BelowLimit
  <2> QED BY <2>1, <2>2, <2>3, <2>4
<1>4. ASSUME NEW t \in Tasks, LoadCount(t) PROVE CountIsExact'
  <2>1. UNCHANGED <<count, Spawned>>
    BY <1>4 DEF LoadCount, Spawned
  <2> QED BY <1>2, <1>4, <2>1 DEF LoadCount
<1>5. ASSUME NEW t \in Tasks, StoreCount(t) PROVE CountIsExact'
  <2>1. UNCHANGED Spawned /\ count' = count + 1
    BY <1>5 DEF StoreCount, Spawned
  <2>2. \A u \in Tasks : u # t => run'[u] \notin InRun
    BY <1>2, <1>5 DEF StoreCount
  <2>3. run'[t] = "go" /\ count = Cardinality(Spawned)
    BY <1>2, <1>5 DEF StoreCount
  <2>4. Size # 0 => count < Size
    BY <1>5 DEF StoreCount
  <2> QED BY <1>1, <2>1, <2>2, <2>3, <2>4
<1>6. ASSUME NEW t \in Tasks, StartWorker(t) PROVE CountIsExact'
  <2>1. Spawned' = Spawned \cup {t} /\ t \notin Spawned
    BY <1>6 DEF StartWorker, Spawned, NotYetStarted
  <2>2. IsFiniteSet(Spawned') /\ Cardinality(Spawned') = Cardinality(Spawned) + 1
    BY <2>1, FS_AddElement
  <2>3. \A u \in Tasks : run'[u] \notin {"spawn", "store", "go"}
    BY <1>2, <1>6 DEF StartWorker
  <2>4. count' = count /\ count = Cardinality(Spawned) + 1
    BY <1>6 DEF StartWorker
  <2> QED BY <2>2, <2>3, <2>4
<1>7. ASSUME UNCHANGED <<count, loaded, Spawned>>,
             \A u \in Tasks : run'[u] = run[u] \/ (run[u] = "sending" /\ run'[u] = "returned")
      PROVE  CountIsExact'
  BY <1>7
<1>8. ASSUME NEW t \in Tasks, NEW w \in Tasks, HandOver(t, w) PROVE CountIsExact'
  <2>1. \A v \in Tasks : worker'[v] # "none" <=> worker[v] # "none"
    BY <1>8 DEF HandOver
  <2>2. UNCHANGED Spawned
    BY <2>1 DEF Spawned
  <2>3. /\ UNCHANGED <<count, loaded>>
        /\ \A u \in Tasks : run'[u] = run[u] \/ (run[u] = "sending" /\ run'[u] = "returned")
    BY <1>8 DEF HandOver
  <2> QED BY <1>7, <2>2, <2>3
<1>9. ASSUME NEW w \in Tasks, WorkerStep(w) PROVE CountIsExact'
  <2>1. \A v \in Tasks : worker'[v] # "none" <=> worker[v] # "none"
    <3>1. CASE EndTask(w)
      BY <3>1 DEF EndTask
    <3>2. CASE ExitWorker(w)
      BY <3>2 DEF ExitWorker
    <3> QED BY <1>9, <3>1, <3>2 DEF WorkerStep
  <2>2. UNCHANGED Spawned
    BY <2>1 DEF Spawned
  <2>3. UNCHANGED <<count, loaded, run>>
    BY <1>9 DEF WorkerStep, EndTask, ExitWorker
  <2> QED BY <1>7, <2>2, <2>3
<1>10. CASE UNCHANGED <<count, loaded, worker, run>>
  BY <1>7, <1>10 DEF Spawned
<1> QED
  BY <1>3, <1>4, <1>5, <1>6, <1>8, <1>9, <1>10
     DEF Next, RunStep, WaiterStep, Rest, UntilFinished, StopWaiting, ReturnNil,
         ReturnError, Cancel, vars

(* When one goroutine makes all the calls of Run, as fan.Out does, there    *)
(* are never more goroutines than the limit (pool.go:72-75, fan.go:57-65).  *)
THEOREM LimitForOneCaller ==
  ASSUME \A t, u \in Tasks : CallerOf[t] = CallerOf[u]
  PROVE  Spec => []GoroutinesWithinLimit
<1> DEFINE LimitInv == TypeOK /\ NotYetStarted /\ CountIsExact
<1>1. Init => LimitInv
  <2>1. Init => Spawned = {}
    BY DEF Init, Spawned
  <2> QED BY <2>1, FS_EmptySet, InitTypeOK, PoolAssumption
          DEF Init, NotYetStarted, CountIsExact
<1>2. LimitInv /\ [Next]_vars => LimitInv'
  BY StepTypeOK, StepNotYetStarted, StepCountIsExact
<1>3. LimitInv => GoroutinesWithinLimit
  <2> SUFFICES ASSUME LimitInv, Size # 0 PROVE Cardinality(Live) <= Size
    BY DEF GoroutinesWithinLimit
  <2>1. IsFiniteSet(Spawned) /\ Live \subseteq Spawned
    BY DEF CountIsExact, Live, Spawned
  <2>2. /\ Cardinality(Live) <= Cardinality(Spawned)
        /\ Cardinality(Live) \in Nat /\ Cardinality(Spawned) \in Nat
    BY <2>1, FS_Subset, FS_CardinalityType
  <2>3. count <= Size /\ Cardinality(Spawned) <= count
    BY <2>2 DEF CountIsExact, TypeOK
  <2> QED BY <2>2, <2>3, PoolAssumption DEF TypeOK
<1> QED BY <1>1, <1>2, <1>3, PTL DEF Spec

(***************************************************************************)
(* The fan.                                                                *)
(***************************************************************************)

(* A step of Fan is a step of its pool, or leaves the pool alone. *)
LEMMA FanStepIsPoolStep == [FanNext]_fanVars => [Next]_vars
<1> SUFFICES ASSUME [FanNext]_fanVars PROVE [Next]_vars
  OBVIOUS
<1>1. CASE UNCHANGED fanVars
  BY <1>1 DEF fanVars
<1>2. CASE FanRest
  BY <1>2 DEF FanRest, fanVars
<1>3. CASE MakeResults \/ MakeErrors
  BY <1>3 DEF MakeResults, MakeErrors
<1>4. ASSUME NEW t \in Tasks, RunNext(t) PROVE [Next]_vars
  BY <1>4 DEF RunNext, Next
<1>5. ASSUME NEW w \in Tasks, WriteResult(w) PROVE [Next]_vars
  BY <1>5 DEF WriteResult
<1>6. ASSUME NEW w \in Tasks, WriteError(w) PROVE [Next]_vars
  <2>1. CASE cur[w][2] \in DOMAIN errors
    BY <1>6, <2>1 DEF WriteError, Next, WorkerStep
  <2>2. CASE cur[w][2] \notin DOMAIN errors
    BY <1>6, <2>2 DEF WriteError
  <2> QED BY <2>1, <2>2
<1>7. CASE In
  BY <1>7 DEF In, Next
<1>8. CASE PoolStep
  BY <1>8 DEF PoolStep, Next, WorkerStep
<1> QED
  BY <1>1, <1>2, <1>3, <1>4, <1>5, <1>6, <1>7, <1>8 DEF FanNext, FanStep

(* Fan uses its pool as Pool allows: the tasks come from one caller, Out,   *)
(* and UntilFinished is called when it has returned (fan.go:57-65, 70).     *)
THEOREM FanUsesPool == FanSpec => Spec
<1>1. FanInit => Init
  BY DEF FanInit
<1> QED BY <1>1, FanStepIsPoolStep, PTL DEF FanSpec, Spec

(* A fan never has more goroutines than its concurrency: there is one       *)
(* caller, so that the count is exact (fan.go:57-65, pool.go:72-75).        *)
THEOREM FanWithinLimit == FanSpec => []GoroutinesWithinLimit
BY FanUsesPool, LimitForOneCaller, FanAssumption, PTL

-------------------------------------------------------------------------------
(* The caller of Out is inside it while only one slice is replaced; the     *)
(* calls are counted.                                                       *)
InsideOut ==
  /\ madeErrors \in Nat
  /\ madeResults \in Nat
  /\ madeErrors # madeResults => waiter = "idle"

LEMMA StepInsideOut == InsideOut /\ [FanNext]_fanVars => InsideOut'
<1> SUFFICES ASSUME InsideOut, [FanNext]_fanVars PROVE InsideOut'
  OBVIOUS
<1> USE DEF InsideOut
<1>1. CASE UNCHANGED <<waiter, madeErrors, madeResults>>
  BY <1>1
<1>2. CASE UNCHANGED fanVars \/ FanRest
  BY <1>1, <1>2 DEF FanRest, fanVars, vars, slices
<1>3. CASE MakeResults
  BY <1>3 DEF MakeResults, vars
<1>4. CASE MakeErrors
  BY <1>4 DEF MakeErrors
<1>5. ASSUME NEW t \in Tasks, RunNext(t) PROVE InsideOut'
  BY <1>1, <1>5 DEF RunNext, CheckCount, slices
<1>6. ASSUME NEW w \in Tasks, WriteResult(w) \/ WriteError(w) PROVE InsideOut'
  <2>1. UNCHANGED <<waiter, madeErrors, madeResults>>
    <3>1. CASE WriteResult(w)
      BY <3>1 DEF WriteResult, vars
    <3>2. CASE WriteError(w)
      <4>1. CASE EndTask(w)
        BY <3>2, <4>1 DEF WriteError, EndTask
      <4>2. CASE UNCHANGED vars
        BY <3>2, <4>2 DEF WriteError, vars
      <4> QED BY <3>2, <4>1, <4>2 DEF WriteError
    <3> QED BY <1>6, <3>1, <3>2
  <2> QED BY <1>1, <2>1
<1>7. CASE In
  BY <1>7 DEF In, OutReturned, slices
<1>8. CASE PoolStep
  <2>1. UNCHANGED <<madeErrors, madeResults>>
    BY <1>8 DEF PoolStep, slices
  <2>2. waiter = "idle" => waiter' = "idle"
    BY <1>8 DEF PoolStep, RunStep, LoadCount, StoreCount, StartWorker, HandOver,
                ExitWorker, StopWaiting, WaiterStep, ReturnNil, ReturnError, Cancel
  <2> QED BY <2>1, <2>2
<1> QED
  BY <1>2, <1>3, <1>4, <1>5, <1>6, <1>7, <1>8 DEF FanNext, FanStep

(* Once UntilFinished returned nil the wait group is empty, so that no task *)
(* is left to write, and Out, which would replace the slices, is over.      *)
LEMMA NothingWritesAfterNil ==
  ASSUME TypeOK, NoRunAnyMore, InsideOut, [FanNext]_fanVars, waiter = "nil"
  PROVE  UNCHANGED <<results, errors>>
<1>1. \A w \in Tasks : worker[w] # "busy"
  BY DEF NoRunAnyMore, TypeOK
<1>2. ~MakeResults /\ ~MakeErrors
  <2>1. ~MakeResults
    BY DEF MakeResults
  <2>2. ~(madeErrors < madeResults)
    BY DEF InsideOut
  <2> QED BY <2>1, <2>2 DEF MakeErrors
<1>3. \A w \in Tasks : ~WriteResult(w) /\ ~WriteError(w)
  BY <1>1 DEF WriteResult, WriteError
<1>4. ASSUME NEW t \in Tasks, RunNext(t) PROVE UNCHANGED <<results, errors>>
  BY <1>4 DEF RunNext, slices
<1>5. CASE In \/ PoolStep
  BY <1>5 DEF In, PoolStep, slices
<1>6. CASE UNCHANGED fanVars \/ FanRest
  BY <1>6 DEF FanRest, fanVars, slices
<1> QED BY <1>2, <1>3, <1>4, <1>5, <1>6 DEF FanNext, FanStep

(* What In returned with nil does not change any more (fan.go:61-64, 70).   *)
THEOREM FinalResults == FanSpec => ResultsAreFinal
<1> DEFINE FinalInv == TypeOK /\ NoRunAnyMore /\ InsideOut
<1>1. FanInit => FinalInv
  BY InitTypeOK DEF FanInit, Init, NoRunAnyMore, InsideOut
<1>2. FinalInv /\ [FanNext]_fanVars => FinalInv'
  BY FanStepIsPoolStep, StepTypeOK, StepNoRunAnyMore, StepInsideOut
<1>3. FinalInv /\ [FanNext]_fanVars
        => [waiter = "nil" => UNCHANGED <<results, errors>>]_fanVars
  BY NothingWritesAfterNil
<1> QED BY <1>1, <1>2, <1>3, PTL DEF FanSpec, ResultsAreFinal

-------------------------------------------------------------------------------
(* The slices: how long they are, and what the calls of Out, the tasks and  *)
(* In have done to them.                                                    *)

(* The room that call c of Out makes, none before the first call. *)
Room(c) == IF c = 0 THEN 0 ELSE Lengths[c]

Slices ==
  /\ results \in [1 .. Room(madeResults) -> Tasks \cup {NoTask}]
  /\ errors \in [1 .. Room(madeErrors) -> Tasks \cup {NoTask}]

FanTypes ==
  /\ TypeOK
  /\ madeErrors \in 0 .. Len(Lengths)
  /\ madeResults \in madeErrors .. madeErrors + 1 /\ madeResults <= Len(Lengths)
  /\ written \subseteq Tasks
  /\ crashed \in BOOLEAN
  /\ \A t \in Tasks : run[t] # "idle" => t[1] <= madeErrors
  /\ Slices

(* A call of Out, or In, begins when the calls before it have returned. *)
CallsReturned ==
  /\ madeErrors # madeResults =>
       /\ waiter = "idle"
       /\ \A t \in Tasks : t[1] <= madeErrors => run[t] = "returned"
  /\ waiter # "idle" => \A t \in Tasks : t[1] <= madeErrors => run[t] = "returned"

(* A task executes and writes once its Run has returned, its output first. *)
TasksBegun ==
  /\ \A w \in Tasks : worker[w] = "busy" => run[cur[w]] = "returned"
  /\ \A t \in written : run[t] = "returned"
  /\ ended \subseteq written

(* What stands in a slice was written there by a task of that index ... *)
InPlace(slice) ==
  \A i \in DOMAIN slice :
    slice[i] # NoTask => slice[i][2] = i /\ slice[i][1] <= madeErrors

(* ... and no task of the call that made the slice left its place empty. *)
Filled ==
  /\ \A t \in written : t[1] = madeResults => results[t[2]] # NoTask
  /\ \A t \in ended : t[1] = madeErrors => errors[t[2]] # NoTask

SliceInv ==
  /\ FanTypes
  /\ CallsReturned
  /\ TasksBegun
  /\ InPlace(results)
  /\ InPlace(errors)
  /\ Filled
  /\ CrashesOnlyIfOutShrinks

(* A task is a call and an index within the slice of that call. *)
LEMMA TaskShape ==
  /\ \A t \in Tasks : /\ t[1] \in 1 .. Len(Lengths)
                      /\ t[2] \in 1 .. Lengths[t[1]]
                      /\ t = <<t[1], t[2]>>
  /\ \A c \in 1 .. Len(Lengths) : \A i \in 1 .. Lengths[c] : <<c, i>> \in Tasks
  /\ Len(Lengths) \in Nat
  /\ \A c \in 1 .. Len(Lengths) : Lengths[c] \in Nat
BY FanAssumption, LenProperties, ElementOfSeq DEF Calls, ItemsOf

LEMMA RoomType == \A c \in 0 .. Len(Lengths) : Room(c) \in Nat
BY TaskShape DEF Room

(* What the pool does to the calls of Run and to the tasks in execution. *)
LEMMA PoolMoves ==
  ASSUME TypeOK, [Next]_vars
  PROVE  /\ \A t \in Tasks : run[t] = "returned" => run'[t] = "returned"
         /\ (\A w \in Tasks : worker[w] = "busy" => run[cur[w]] = "returned")
              => \A w \in Tasks : worker'[w] = "busy" => run'[cur'[w]] = "returned"
<1> USE DEF TypeOK, InRun
<1>1. ASSUME UNCHANGED <<worker, cur>>,
             \A t \in Tasks : run[t] = "returned" => run'[t] = "returned"
      PROVE  (\A w \in Tasks : worker[w] = "busy" => run[cur[w]] = "returned")
               => \A w \in Tasks : worker'[w] = "busy" => run'[cur'[w]] = "returned"
  BY <1>1
<1>2. ASSUME NEW t \in Tasks, CheckCount(t) \/ LoadCount(t) \/ StoreCount(t)
      PROVE  /\ UNCHANGED <<worker, cur>>
             /\ \A u \in Tasks : run[u] = "returned" => run'[u] = "returned"
  BY <1>2 DEF CheckCount, LoadCount, StoreCount
<1>3. ASSUME NEW t \in Tasks, StartWorker(t)
      PROVE  /\ \A u \in Tasks : run[u] = "returned" => run'[u] = "returned"
             /\ \A w \in Tasks : worker'[w] = "busy" => worker[w] = "busy" /\ cur'[w] = cur[w]
  BY <1>3 DEF StartWorker
<1>4. ASSUME NEW t \in Tasks, NEW w \in Tasks, HandOver(t, w)
      PROVE  /\ \A u \in Tasks : run[u] = "returned" => run'[u] = "returned"
             /\ run'[t] = "returned"
             /\ \A v \in Tasks : worker'[v] = "busy" =>
                  cur'[v] = t \/ (worker[v] = "busy" /\ cur'[v] = cur[v])
  BY <1>4 DEF HandOver
<1>5. ASSUME NEW w \in Tasks, WorkerStep(w)
      PROVE  /\ run' = run /\ cur' = cur
             /\ \A v \in Tasks : worker'[v] = "busy" => worker[v] = "busy"
  BY <1>5 DEF WorkerStep, EndTask, ExitWorker
<1>6. CASE UNCHANGED <<run, worker, cur>>
  BY <1>6
<1> QED
  BY <1>1, <1>2, <1>3, <1>4, <1>5, <1>6
     DEF Next, RunStep, WaiterStep, Rest, UntilFinished, StopWaiting, ReturnNil,
         ReturnError, Cancel, vars

(* The steps that do not touch the slices end no task; only RunNext begins  *)
(* a Run.                                                                   *)
LEMMA PoolOnly ==
  ASSUME TypeOK, (\E t \in Tasks : RunNext(t)) \/ In \/ PoolStep
  PROVE  /\ ended' = ended
         /\ UNCHANGED <<slices, written, crashed>>
         /\ \A u \in Tasks : run'[u] # "idle" => run[u] # "idle" \/ u[1] = madeErrors
         /\ waiter = "idle" /\ waiter' # "idle" => In
<1> USE DEF TypeOK, InRun
<1>1. ASSUME NEW t \in Tasks, RunNext(t)
      PROVE  /\ ended' = ended
             /\ UNCHANGED <<slices, written, crashed, waiter>>
             /\ \A u \in Tasks : run'[u] # "idle" => run[u] # "idle" \/ u[1] = madeErrors
  BY <1>1 DEF RunNext, CheckCount
<1>2. ASSUME NEW t \in Tasks, RunStep(t)
      PROVE  /\ UNCHANGED <<ended, waiter>>
             /\ \A u \in Tasks : run'[u] # "idle" => run[u] # "idle"
  BY <1>2 DEF RunStep, LoadCount, StoreCount, StartWorker, HandOver
<1>3. ASSUME NEW t \in Tasks, ExitWorker(t) PROVE UNCHANGED <<ended, waiter, run>>
  BY <1>3 DEF ExitWorker
<1>4. CASE In
  BY <1>4 DEF In, UntilFinished
<1>5. ASSUME StopWaiting \/ Cancel PROVE UNCHANGED <<ended, waiter, run>>
  BY <1>5 DEF StopWaiting, Cancel
<1>6. ASSUME WaiterStep PROVE waiter # "idle" /\ UNCHANGED <<ended, run>>
  BY <1>6 DEF WaiterStep, ReturnNil, ReturnError
<1> QED BY <1>1, <1>2, <1>3, <1>4, <1>5, <1>6 DEF PoolStep, In

LEMMA InitSliceInv == FanInit => SliceInv
<1> SUFFICES ASSUME FanInit PROVE SliceInv
  OBVIOUS
<1>1. TypeOK
  BY InitTypeOK DEF FanInit
<1>2. Slices /\ InPlace(results) /\ InPlace(errors)
  <2>1. results = <<>> /\ errors = <<>> /\ madeResults = 0 /\ madeErrors = 0
    BY DEF FanInit
  <2>2. DOMAIN <<>> = 1 .. 0 /\ <<>> \in [1 .. 0 -> Tasks \cup {NoTask}]
    OBVIOUS
  <2> QED BY <2>1, <2>2 DEF Slices, Room, InPlace
<1>3. FanTypes
  <2>1. \A t \in Tasks : run[t] = "idle"
    BY DEF FanInit, Init
  <2>2. Len(Lengths) \in Nat
    BY TaskShape
  <2>3. madeErrors = 0 /\ madeResults = 0 /\ written = {}
    BY DEF FanInit
  <2>4. crashed \in BOOLEAN
    BY DEF FanInit
  <2> QED BY <1>1, <1>2, <2>1, <2>2, <2>3, <2>4 DEF FanTypes
<1>4. CallsReturned /\ TasksBegun /\ Filled /\ CrashesOnlyIfOutShrinks
  BY DEF FanInit, Init, CallsReturned, TasksBegun, Filled, CrashesOnlyIfOutShrinks
<1> QED BY <1>2, <1>3, <1>4 DEF SliceInv

(* A step of Out, of In or of the pool that touches no slice. *)
LEMMA StepPoolOnly ==
  ASSUME SliceInv, (\E t \in Tasks : RunNext(t)) \/ In \/ PoolStep
  PROVE  SliceInv'
<1>1. [FanNext]_fanVars => [Next]_vars
  BY FanStepIsPoolStep
<1>2. TypeOK /\ [Next]_vars
  <2>1. CASE \E t \in Tasks : RunNext(t)
    BY <2>1 DEF RunNext, Next, SliceInv, FanTypes
  <2>2. CASE In
    BY <2>2 DEF In, Next, SliceInv, FanTypes
  <2>3. CASE PoolStep
    BY <2>3 DEF PoolStep, Next, WorkerStep, SliceInv, FanTypes
  <2> QED BY <2>1, <2>2, <2>3
<1>3. TypeOK'
  BY <1>2, StepTypeOK
<1>4. /\ ended' = ended
      /\ UNCHANGED <<slices, written, crashed>>
      /\ \A u \in Tasks : run'[u] # "idle" => run[u] # "idle" \/ u[1] = madeErrors
      /\ waiter = "idle" /\ waiter' # "idle" => In
  BY <1>2, PoolOnly
<1>5. UNCHANGED <<results, errors, madeResults, madeErrors>>
  BY <1>4 DEF slices
<1>6. FanTypes'
  BY <1>3, <1>4, <1>5, TaskShape DEF SliceInv, FanTypes, Slices
<1>7. CallsReturned'
  <2>1. \A t \in Tasks : run[t] = "returned" => run'[t] = "returned"
    BY <1>2, PoolMoves
  <2>2. CASE In
    BY <1>5, <2>1, <2>2 DEF In, OutReturned, SliceInv, CallsReturned
  <2>3. CASE ~In
    BY <1>4, <1>5, <2>1, <2>3 DEF SliceInv, CallsReturned
  <2> QED BY <2>2, <2>3
<1>8. TasksBegun'
  BY <1>2, <1>4, PoolMoves DEF SliceInv, FanTypes, TasksBegun
<1>9. InPlace(results)' /\ InPlace(errors)' /\ Filled'
  BY <1>4, <1>5 DEF SliceInv, InPlace, Filled
<1>10. CrashesOnlyIfOutShrinks'
  BY <1>4, <1>5 DEF SliceInv, CrashesOnlyIfOutShrinks
<1> QED BY <1>6, <1>7, <1>8, <1>9, <1>10 DEF SliceInv

(* A new slice is empty; its call has no task yet that could have written. *)
LEMMA StepMakeResults == SliceInv /\ MakeResults => SliceInv'
<1> SUFFICES ASSUME SliceInv, MakeResults PROVE SliceInv'
  OBVIOUS
<1> USE DEF SliceInv
<1>1. /\ UNCHANGED vars
      /\ UNCHANGED <<errors, madeErrors, written, crashed>>
      /\ OutReturned
      /\ madeResults = madeErrors /\ madeResults' = madeResults + 1
      /\ madeResults \in 0 .. Len(Lengths) - 1
      /\ madeResults' \in 1 .. Len(Lengths)
      /\ results' = [i \in 1 .. Lengths[madeResults'] |-> NoTask]
  BY TaskShape DEF MakeResults, OutReturned, FanTypes
<1>2. results' = [i \in 1 .. Room(madeResults') |-> NoTask]
  BY <1>1 DEF Room
<1>3. FanTypes'
  <2>1. TypeOK'
    BY <1>1, StepTypeOK DEF FanTypes
  <2>2. results' \in [1 .. Room(madeResults') -> Tasks \cup {NoTask}]
    BY <1>2
  <2>3. errors' \in [1 .. Room(madeErrors') -> Tasks \cup {NoTask}]
    BY <1>1 DEF FanTypes, Slices
  <2> QED BY <1>1, <2>1, <2>2, <2>3, TaskShape DEF FanTypes, Slices, vars
<1>4. CallsReturned'
  BY <1>1 DEF CallsReturned, OutReturned, vars, MakeResults
<1>5. TasksBegun'
  BY <1>1 DEF TasksBegun, vars
<1>6. InPlace(results)' /\ InPlace(errors)'
  BY <1>1, <1>2 DEF InPlace
<1>7. Filled'
  <2>1. \A t \in written : t[1] # madeResults'
    <3> SUFFICES ASSUME NEW t \in written, t[1] = madeResults' PROVE FALSE
      OBVIOUS
    <3>1. t \in Tasks /\ run[t] # "idle"
      BY DEF FanTypes, TasksBegun
    <3> QED BY <1>1, <3>1 DEF FanTypes
  <2> QED BY <1>1, <2>1 DEF Filled, vars
<1>8. CrashesOnlyIfOutShrinks'
  BY <1>1 DEF CrashesOnlyIfOutShrinks
<1> QED BY <1>3, <1>4, <1>5, <1>6, <1>7, <1>8

LEMMA StepMakeErrors == SliceInv /\ MakeErrors => SliceInv'
<1> SUFFICES ASSUME SliceInv, MakeErrors PROVE SliceInv'
  OBVIOUS
<1> USE DEF SliceInv
<1>1. /\ UNCHANGED vars
      /\ UNCHANGED <<results, madeResults, written, crashed>>
      /\ madeErrors # madeResults /\ madeErrors + 1 = madeResults
      /\ madeErrors \in Nat
      /\ madeErrors' = madeResults
      /\ madeResults \in 1 .. Len(Lengths)
      /\ errors' = [i \in 1 .. Lengths[madeResults] |-> NoTask]
  BY TaskShape DEF MakeErrors, FanTypes
<1>2. errors' = [i \in 1 .. Room(madeErrors') |-> NoTask]
  BY <1>1 DEF Room
<1>3. FanTypes'
  <2>1. TypeOK'
    BY <1>1, StepTypeOK DEF FanTypes
  <2>2. errors' \in [1 .. Room(madeErrors') -> Tasks \cup {NoTask}]
    BY <1>2
  <2>3. results' \in [1 .. Room(madeResults') -> Tasks \cup {NoTask}]
    BY <1>1 DEF FanTypes, Slices
  <2> QED BY <1>1, <2>1, <2>2, <2>3, TaskShape DEF FanTypes, Slices, vars
<1>4. CallsReturned'
  BY <1>1 DEF CallsReturned, vars
<1>5. TasksBegun'
  BY <1>1 DEF TasksBegun, vars
<1>6. InPlace(errors)'
  BY <1>1, <1>2 DEF InPlace
<1>7. InPlace(results)'
  <2> SUFFICES ASSUME NEW i \in DOMAIN results, results[i] # NoTask
               PROVE  results[i][2] = i /\ results[i][1] <= madeResults
    BY <1>1 DEF InPlace
  <2>1. results[i] \in Tasks
    BY DEF FanTypes, Slices
  <2> QED BY <1>1, <2>1, TaskShape DEF InPlace
<1>8. Filled'
  <2>1. \A t \in ended : t[1] # madeErrors'
    <3> SUFFICES ASSUME NEW t \in ended, t[1] = madeErrors' PROVE FALSE
      OBVIOUS
    <3>1. t \in Tasks /\ run[t] # "idle"
      BY DEF FanTypes, TasksBegun
    <3> QED BY <1>1, <3>1 DEF FanTypes
  <2> QED BY <1>1, <2>1 DEF Filled, vars
<1>9. CrashesOnlyIfOutShrinks'
  BY <1>1 DEF CrashesOnlyIfOutShrinks
<1> QED BY <1>3, <1>4, <1>5, <1>6, <1>7, <1>8, <1>9

(* The task that writes: its Run has returned, and its index lies within    *)
(* the slices of its call; out of range are only shorter ones.              *)
LEMMA Writer ==
  ASSUME SliceInv, NEW w \in Tasks, worker[w] = "busy"
  PROVE  /\ cur[w] \in Tasks
         /\ run[cur[w]] = "returned"
         /\ cur[w][1] <= madeErrors
         /\ \A d \in madeErrors .. madeResults :
              cur[w][2] \notin 1 .. Room(d) =>
                \E c, e \in 1 .. madeResults : c < e /\ Lengths[e] < Lengths[c]
<1>1. /\ cur[w] \in Tasks /\ run[cur[w]] = "returned" /\ cur[w][1] <= madeErrors
      /\ madeErrors \in 0 .. Len(Lengths) /\ madeResults \in madeErrors .. madeErrors + 1
      /\ madeResults <= Len(Lengths)
  BY DEF SliceInv, FanTypes, TypeOK, TasksBegun
<1>2. PICK c \in 1 .. Len(Lengths), i \in Nat : i \in 1 .. Lengths[c] /\ cur[w] = <<c, i>>
  BY <1>1, TaskShape
<1>3. ASSUME NEW d \in madeErrors .. madeResults, i \notin 1 .. Room(d)
      PROVE  c < d /\ Lengths[d] < Lengths[c] /\ c \in 1 .. madeResults /\ d \in 1 .. madeResults
  <2>1. c <= d /\ d \in 1 .. Len(Lengths) /\ c \in 1 .. madeResults /\ d \in 1 .. madeResults
    BY <1>1, <1>2, TaskShape
  <2>2. Room(d) = Lengths[d] /\ Lengths[d] \in Nat /\ Lengths[c] \in Nat
    BY <2>1, TaskShape DEF Room
  <2>3. Lengths[d] < i
    BY <1>2, <1>3, <2>2
  <2> QED BY <1>2, <2>1, <2>2, <2>3
<1> QED BY <1>1, <1>2, <1>3

LEMMA StepWriteResult ==
  ASSUME SliceInv, NEW w \in Tasks, WriteResult(w) PROVE SliceInv'
<1> USE DEF SliceInv
<1> DEFINE t == cur[w]
<1>1. /\ t \in Tasks /\ run[t] = "returned" /\ t[1] <= madeErrors
      /\ UNCHANGED vars /\ UNCHANGED <<errors, madeResults, madeErrors>>
  BY Writer DEF WriteResult
<1>2. madeErrors \in Nat /\ madeResults \in madeErrors .. madeResults
  BY TaskShape DEF FanTypes
<1>3. TypeOK' /\ CallsReturned'
  BY <1>1, StepTypeOK DEF FanTypes, CallsReturned, vars
<1>4. results \in [1 .. Room(madeResults) -> Tasks \cup {NoTask}]
  BY DEF FanTypes, Slices
<1>5. CASE t[2] \in DOMAIN results
  <2>1. /\ results' = [results EXCEPT ![t[2]] = t]
        /\ written' = written \cup {t}
        /\ crashed' = crashed
    BY <1>5 DEF WriteResult
  <2>2. /\ results'[t[2]] = t
        /\ \A i \in DOMAIN results : i # t[2] => results'[i] = results[i]
        /\ DOMAIN results' = DOMAIN results
    BY <1>4, <1>5, <2>1
  <2>3. results' \in [1 .. Room(madeResults) -> Tasks \cup {NoTask}]
    BY <1>1, <1>4, <1>5, <2>1
  <2>4. FanTypes'
    BY <1>1, <1>3, <2>1, <2>3 DEF FanTypes, Slices, vars
  <2>5. TasksBegun'
    BY <1>1, <2>1 DEF TasksBegun, vars
  <2>6. InPlace(results)' /\ InPlace(errors)'
    BY <1>1, <2>2 DEF InPlace
  <2>7. Filled'
    <3>1. t # NoTask
      BY <1>1, FanAssumption
    <3>2. ASSUME NEW u \in written', u[1] = madeResults PROVE results'[u[2]] # NoTask
      <4>1. u \in Tasks
        BY <1>1, <2>1, <3>2 DEF FanTypes
      <4>2. u[2] \in DOMAIN results
        BY <1>4, <3>2, <4>1, TaskShape DEF Room
      <4> QED BY <2>1, <2>2, <3>1, <3>2, <4>2 DEF Filled
    <3> QED BY <1>1, <3>2 DEF Filled, vars
  <2>8. CrashesOnlyIfOutShrinks'
    BY <1>1, <2>1 DEF CrashesOnlyIfOutShrinks
  <2> QED BY <1>3, <2>4, <2>5, <2>6, <2>7, <2>8
<1>6. CASE t[2] \notin DOMAIN results
  <2>1. UNCHANGED <<results, written>> /\ crashed' = TRUE
    BY <1>6 DEF WriteResult
  <2>2. \E c, d \in 1 .. madeResults : c < d /\ Lengths[d] < Lengths[c]
    BY <1>2, <1>4, <1>6, Writer DEF WriteResult
  <2>3. CrashesOnlyIfOutShrinks'
    BY <1>1, <2>2 DEF CrashesOnlyIfOutShrinks
  <2>4. FanTypes' /\ TasksBegun'
    BY <1>1, <1>3, <2>1 DEF FanTypes, Slices, TasksBegun, vars
  <2>5. InPlace(results)' /\ InPlace(errors)' /\ Filled'
    BY <1>1, <2>1 DEF InPlace, Filled, vars
  <2> QED BY <1>3, <2>3, <2>4, <2>5
<1> QED BY <1>5, <1>6

LEMMA StepWriteError ==
  ASSUME SliceInv, NEW w \in Tasks, WriteError(w) PROVE SliceInv'
<1> USE DEF SliceInv
<1> DEFINE t == cur[w]
<1>1. /\ t \in Tasks /\ run[t] = "returned" /\ t[1] <= madeErrors /\ t \in written
      /\ UNCHANGED <<results, madeResults, madeErrors, written>>
  BY Writer DEF WriteError
<1>2. madeErrors \in Nat /\ madeErrors \in madeErrors .. madeResults
  BY TaskShape DEF FanTypes
<1>3. errors \in [1 .. Room(madeErrors) -> Tasks \cup {NoTask}]
  BY DEF FanTypes, Slices
<1>4. CASE t[2] \in DOMAIN errors
  <2>1. /\ errors' = [errors EXCEPT ![t[2]] = t]
        /\ EndTask(w)
        /\ crashed' = crashed
    BY <1>4 DEF WriteError
  <2>2. /\ errors'[t[2]] = t
        /\ \A i \in DOMAIN errors : i # t[2] => errors'[i] = errors[i]
        /\ DOMAIN errors' = DOMAIN errors
    BY <1>3, <1>4, <2>1
  <2>3. errors' \in [1 .. Room(madeErrors) -> Tasks \cup {NoTask}]
    BY <1>1, <1>3, <1>4, <2>1
  <2>4. TypeOK'
    BY <2>1, StepTypeOK DEF FanTypes, Next, WorkerStep
  <2>5. /\ ended' = ended \cup {t} /\ UNCHANGED <<run, cur, waiter>>
        /\ \A v \in Tasks : worker'[v] = "busy" => worker[v] = "busy"
    BY <2>1 DEF EndTask, FanTypes, TypeOK
  <2>6. FanTypes'
    BY <1>1, <2>1, <2>3, <2>4, <2>5 DEF FanTypes, Slices
  <2>7. CallsReturned' /\ TasksBegun'
    BY <1>1, <2>5 DEF CallsReturned, TasksBegun
  <2>8. InPlace(results)' /\ InPlace(errors)'
    BY <1>1, <2>2 DEF InPlace
  <2>9. Filled'
    <3>1. t # NoTask
      BY <1>1, FanAssumption
    <3>2. ASSUME NEW u \in ended', u[1] = madeErrors PROVE errors'[u[2]] # NoTask
      <4>1. u \in Tasks
        BY <1>1, <2>5, <3>2 DEF FanTypes, TypeOK
      <4>2. u[2] \in DOMAIN errors
        BY <1>3, <3>2, <4>1, TaskShape DEF Room
      <4> QED BY <2>2, <2>5, <3>1, <3>2, <4>2 DEF Filled
    <3> QED BY <1>1, <3>2 DEF Filled
  <2>10. CrashesOnlyIfOutShrinks'
    BY <1>1, <2>1 DEF CrashesOnlyIfOutShrinks
  <2> QED BY <2>6, <2>7, <2>8, <2>9, <2>10
<1>5. CASE t[2] \notin DOMAIN errors
  <2>1. UNCHANGED vars /\ UNCHANGED errors /\ crashed' = TRUE
    BY <1>5 DEF WriteError
  <2>2. \E c, d \in 1 .. madeResults : c < d /\ Lengths[d] < Lengths[c]
    BY <1>2, <1>3, <1>5, Writer DEF WriteError
  <2>3. CrashesOnlyIfOutShrinks'
    BY <1>1, <2>2 DEF CrashesOnlyIfOutShrinks
  <2>4. TypeOK'
    BY <2>1, StepTypeOK DEF FanTypes
  <2>5. FanTypes' /\ CallsReturned' /\ TasksBegun'
    BY <1>1, <2>1, <2>4 DEF FanTypes, Slices, CallsReturned, TasksBegun, vars
  <2>6. InPlace(results)' /\ InPlace(errors)' /\ Filled'
    BY <1>1, <2>1 DEF InPlace, Filled, vars
  <2> QED BY <2>3, <2>5, <2>6
<1> QED BY <1>4, <1>5

LEMMA StepSliceInv == SliceInv /\ [FanNext]_fanVars => SliceInv'
<1> SUFFICES ASSUME SliceInv, [FanNext]_fanVars PROVE SliceInv'
  OBVIOUS
<1>1. CASE UNCHANGED fanVars
  <2>1. UNCHANGED vars /\ UNCHANGED <<results, errors, madeResults, madeErrors, written, crashed>>
    BY <1>1 DEF fanVars, slices
  <2>2. TypeOK'
    BY <2>1, StepTypeOK DEF SliceInv, FanTypes
  <2> QED
    BY <2>1, <2>2 DEF SliceInv, FanTypes, Slices, CallsReturned, TasksBegun, InPlace,
                      Filled, CrashesOnlyIfOutShrinks, vars
<1>2. CASE FanRest
  BY <1>1, <1>2 DEF FanRest
<1>3. CASE FanStep
  BY <1>3, StepPoolOnly, StepMakeResults, StepMakeErrors, StepWriteResult, StepWriteError
     DEF FanStep
<1> QED BY <1>1, <1>2, <1>3 DEF FanNext

(* Type correctness: f.results and f.errors are slices of outputs and       *)
(* errors of the tasks, or of zero values (fan.go:18-23, 55-56).            *)
THEOREM FanTypeCorrect == FanSpec => []FanTypeOK
<1>1. SliceInv => FanTypeOK
  <2> SUFFICES ASSUME SliceInv PROVE FanTypeOK
    OBVIOUS
  <2>1. Room(madeResults) \in Nat /\ Room(madeErrors) \in Nat
    BY RoomType, TaskShape DEF SliceInv, FanTypes
  <2>2. results \in Seq(Tasks \cup {NoTask}) /\ errors \in Seq(Tasks \cup {NoTask})
    BY <2>1 DEF SliceInv, FanTypes, Slices
  <2> QED BY <2>2 DEF SliceInv, FanTypes, FanTypeOK
<1> QED BY <1>1, InitSliceInv, StepSliceInv, PTL DEF FanSpec

(* A write out of range, which ends the process, takes a call of Out with   *)
(* fewer items than an earlier one: a task of the earlier call may then     *)
(* have an index that the new slices have no place for (fan.go:55-56,       *)
(* 62-63).                                                                  *)
THEOREM CrashNeedsShorterSlice == FanSpec => []CrashesOnlyIfOutShrinks
<1>1. SliceInv => CrashesOnlyIfOutShrinks
  BY DEF SliceInv
<1> QED BY <1>1, InitSliceInv, StepSliceInv, PTL DEF FanSpec

(* When In returns nil all tasks have ended, each has written at its place, *)
(* and only a task of the same index can have written there after it        *)
(* (fan.go:55-63, 69-71).                                                   *)
THEOREM PlacesAreFilled == FanSpec => []ResultsAreInPlace
<1> DEFINE WaitInv == TypeOK /\ NotYetStarted /\ HandedOver /\ NoRunAnyMore
<1>1. FanInit => WaitInv
  BY InitTypeOK DEF FanInit, Init, NotYetStarted, HandedOver, NoRunAnyMore
<1>2. WaitInv /\ [FanNext]_fanVars => WaitInv'
  BY FanStepIsPoolStep, StepTypeOK, StepNotYetStarted, StepHandedOver, StepNoRunAnyMore
<1>3. WaitInv /\ SliceInv => ResultsAreInPlace
  <2> SUFFICES ASSUME WaitInv, SliceInv, waiter = "nil",
                      NEW i \in 1 .. (IF madeErrors = 0 THEN 0 ELSE Lengths[madeErrors])
               PROVE  /\ i \in DOMAIN results \cap DOMAIN errors
                      /\ results[i] \in {t \in Tasks : t[2] = i /\ t[1] <= madeErrors}
                      /\ errors[i] \in {t \in Tasks : t[2] = i /\ t[1] <= madeErrors}
    BY DEF ResultsAreInPlace
  <2>1. /\ madeErrors \in 1 .. Len(Lengths) /\ madeResults = madeErrors
        /\ i \in 1 .. Lengths[madeErrors]
    BY TaskShape DEF SliceInv, FanTypes, CallsReturned
  <2>2. /\ results \in [1 .. Lengths[madeErrors] -> Tasks \cup {NoTask}]
        /\ errors \in [1 .. Lengths[madeErrors] -> Tasks \cup {NoTask}]
    BY <2>1 DEF SliceInv, FanTypes, Slices, Room
  <2> DEFINE t == <<madeErrors, i>>
  <2>3. t \in Tasks /\ t[1] = madeErrors /\ t[2] = i
    BY <2>1, TaskShape
  <2>4. run[t] = "returned"
    BY <2>1, <2>3 DEF SliceInv, CallsReturned
  <2>5. t \in ended
    BY <2>3, <2>4, FanAssumption DEF TypeOK, HandedOver, NoRunAnyMore
  <2>6. results[i] # NoTask /\ errors[i] # NoTask
    BY <2>1, <2>3, <2>5 DEF SliceInv, Filled, TasksBegun
  <2> QED BY <2>1, <2>2, <2>6 DEF SliceInv, InPlace
<1> QED BY <1>1, <1>2, <1>3, InitSliceInv, StepSliceInv, PTL DEF FanSpec
===============================================================================
