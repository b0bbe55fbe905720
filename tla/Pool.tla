--------------------------------- MODULE Pool ---------------------------------
(***************************************************************************)
(* pool.Pool: goroutines that take tasks from one unbuffered channel.  Run *)
(* starts a goroutine while the count is below the size and then sends its *)
(* task; UntilFinished closes the channel and waits for the goroutines.    *)
(* Nothing guards the count: the steps of Run are those of its accesses.   *)
(*                                                                         *)
(* Each task is passed to Run once, by its caller, a goroutine that makes  *)
(* its calls one after another.  A goroutine of the pool is named after    *)
(* the task whose Run started it.  UntilFinished is called when no Run is  *)
(* in progress and none follows: a send on the closed channel panics.      *)
(***************************************************************************)
EXTENDS Naturals, FiniteSets

CONSTANTS
  Tasks,           \* what is passed to Run
  Callers,         \* the goroutines that call Run
  CallerOf,        \* per task: its caller
  NilTasks,        \* the tasks that are nil
  Size,            \* WithSize, 0 for no limit
  MayCancel        \* whether the pool's context may be cancelled

ASSUME PoolAssumption ==
  /\ CallerOf \in [Tasks -> Callers]
  /\ NilTasks \subseteq Tasks
  /\ Size \in Nat
  /\ MayCancel \in BOOLEAN

VARIABLES
  count,           \* p.count
  run,             \* per task: where its Run is
  loaded,          \* per task: what p.count++ read
  worker,          \* per goroutine of the pool: where it is
  cur,             \* per goroutine: the task it executes
  wg,              \* the goroutines the wait group counts
  closed,          \* p.tasks is closed
  ctxDone,         \* the pool's context is cancelled
  waiter,          \* where the call of UntilFinished is
  signaller,       \* where the goroutine is that UntilFinished starts
  ended            \* history: the tasks that were executed to their end

vars == <<count, run, loaded, worker, cur, wg, closed, ctxDone, waiter,
          signaller, ended>>

InRun == {"spawn", "store", "go", "sending"}

(* Every variable has its type, a caller is in one Run at a time, and the   *)
(* wait group counts the goroutines that have not exited.                   *)
TypeOK ==
  /\ count \in Nat
  /\ run \in [Tasks -> {"idle", "returned"} \cup InRun]
  /\ loaded \in [Tasks -> Nat]
  /\ worker \in [Tasks -> {"none", "select", "busy", "exited"}]
  /\ cur \in [Tasks -> Tasks]
  /\ wg = {w \in Tasks : worker[w] \in {"select", "busy"}}
  /\ closed \in BOOLEAN
  /\ ctxDone \in BOOLEAN
  /\ waiter \in {"idle", "waiting", "nil", "error"}
  /\ signaller \in {"none", "waiting", "sending", "exited"}
  /\ ended \subseteq Tasks
  /\ \A t, u \in Tasks :
       run[t] \in InRun /\ run[u] \in InRun /\ CallerOf[t] = CallerOf[u] => t = u

-------------------------------------------------------------------------------
Init ==
  /\ count = 0
  /\ run = [t \in Tasks |-> "idle"]
  /\ loaded = [t \in Tasks |-> 0]
  /\ worker = [t \in Tasks |-> "none"]
  /\ cur = [t \in Tasks |-> t]
  /\ wg = {}
  /\ closed = FALSE
  /\ ctxDone = FALSE
  /\ waiter = "idle"
  /\ signaller = "none"
  /\ ended = {}

-------------------------------------------------------------------------------
(* Run *)

BelowLimit == count < Size \/ Size = 0

(* The first read of p.count decides whether a goroutine is started. *)
CheckCount(t) ==
  /\ run[t] = "idle"
  /\ waiter = "idle"
  /\ \A u \in Tasks : CallerOf[u] = CallerOf[t] => run[u] \notin InRun
  /\ run' = [run EXCEPT ![t] = IF BelowLimit THEN "spawn" ELSE "sending"]
  /\ UNCHANGED <<count, loaded, worker, cur, wg, closed, ctxDone, waiter,
                 signaller, ended>>

(* p.count++ reads the count again ... *)
LoadCount(t) ==
  /\ run[t] = "spawn"
  /\ run' = [run EXCEPT ![t] = "store"]
  /\ loaded' = [loaded EXCEPT ![t] = count]
  /\ UNCHANGED <<count, worker, cur, wg, closed, ctxDone, waiter, signaller, ended>>

(* ... and writes it. *)
StoreCount(t) ==
  /\ run[t] = "store"
  /\ run' = [run EXCEPT ![t] = "go"]
  /\ count' = loaded[t] + 1
  /\ UNCHANGED <<loaded, worker, cur, wg, closed, ctxDone, waiter, signaller, ended>>

(* The goroutine is counted and started. *)
StartWorker(t) ==
  /\ run[t] = "go"
  /\ run' = [run EXCEPT ![t] = "sending"]
  /\ worker' = [worker EXCEPT ![t] = "select"]
  /\ wg' = wg \cup {t}
  /\ UNCHANGED <<count, loaded, cur, closed, ctxDone, waiter, signaller, ended>>

(* p.tasks <- task meets a receive: a goroutine executes the task, or exits *)
(* when the task is nil.                                                    *)
HandOver(t, w) ==
  /\ run[t] = "sending"
  /\ worker[w] = "select"
  /\ run' = [run EXCEPT ![t] = "returned"]
  /\ IF t \in NilTasks
       THEN /\ worker' = [worker EXCEPT ![w] = "exited"]
            /\ wg' = wg \ {w}
            /\ UNCHANGED cur
       ELSE /\ worker' = [worker EXCEPT ![w] = "busy"]
            /\ cur' = [cur EXCEPT ![w] = t]
            /\ UNCHANGED wg
  /\ UNCHANGED <<count, loaded, closed, ctxDone, waiter, signaller, ended>>

-------------------------------------------------------------------------------
(* The pool's goroutines *)

EndTask_Exits(w) ==                      \* mutant: no loop around the select
  /\ worker[w] = "busy"
  /\ worker' = [worker EXCEPT ![w] = "exited"]
  /\ wg' = wg \ {w}
  /\ ended' = ended \cup {cur[w]}
  /\ UNCHANGED <<count, run, loaded, cur, closed, ctxDone, waiter, signaller>>

EndTask(w) ==
  /\ worker[w] = "busy"
  /\ worker' = [worker EXCEPT ![w] = "select"]
  /\ ended' = ended \cup {cur[w]}
  /\ UNCHANGED <<count, run, loaded, cur, wg, closed, ctxDone, waiter, signaller>>

(* The closed channel gives nil; the context may end the goroutine too. *)
ExitWorker_OnCancelOnly(w) ==            \* mutant: the zero task is not noticed
  /\ worker[w] = "select"
  /\ ctxDone
  /\ worker' = [worker EXCEPT ![w] = "exited"]
  /\ wg' = wg \ {w}
  /\ UNCHANGED <<count, run, loaded, cur, closed, ctxDone, waiter, signaller, ended>>

ExitWorker(w) ==
  /\ worker[w] = "select"
  /\ closed \/ ctxDone
  /\ worker' = [worker EXCEPT ![w] = "exited"]
  /\ wg' = wg \ {w}
  /\ UNCHANGED <<count, run, loaded, cur, closed, ctxDone, waiter, signaller, ended>>

-------------------------------------------------------------------------------
(* UntilFinished *)

UntilFinished ==
  /\ waiter = "idle"
  /\ \A t \in Tasks : run[t] \notin InRun
  /\ closed' = TRUE
  /\ waiter' = "waiting"
  /\ signaller' = "waiting"
  /\ UNCHANGED <<count, run, loaded, worker, cur, wg, ctxDone, ended>>

(* p.wg.Wait() returns in the goroutine it starts. *)
WaitGroupIsZero_Skipped == TRUE            \* mutant: p.wg.Wait() is left out
WaitGroupIsZero == wg = {}

StopWaiting ==
  /\ signaller = "waiting"
  /\ WaitGroupIsZero
  /\ signaller' = "sending"
  /\ UNCHANGED <<count, run, loaded, worker, cur, wg, closed, ctxDone, waiter, ended>>

(* finished <- struct{}{} meets the select of UntilFinished, *)
ReturnNil ==
  /\ waiter = "waiting"
  /\ signaller = "sending"
  /\ waiter' = "nil"
  /\ signaller' = "exited"
  /\ UNCHANGED <<count, run, loaded, worker, cur, wg, closed, ctxDone, ended>>

(* whose other case leaves that goroutine behind. *)
ReturnError ==
  /\ waiter = "waiting"
  /\ ctxDone
  /\ waiter' = "error"
  /\ UNCHANGED <<count, run, loaded, worker, cur, wg, closed, ctxDone, signaller,
                 ended>>

Cancel ==
  /\ MayCancel
  /\ ~ctxDone
  /\ ctxDone' = TRUE
  /\ UNCHANGED <<count, run, loaded, worker, cur, wg, closed, waiter, signaller,
                 ended>>

-------------------------------------------------------------------------------
RunStep(t) ==
  \/ LoadCount(t) \/ StoreCount(t) \/ StartWorker(t)
  \/ \E w \in Tasks : HandOver(t, w)

WorkerStep(w) == EndTask(w) \/ ExitWorker(w)

WaiterStep == ReturnNil \/ ReturnError

(* The pool stands still while its goroutines wait for a task; a Run may    *)
(* then be waiting for a goroutine that is gone.                            *)
Rest ==
  /\ \A t \in Tasks : run[t] \in {"idle", "sending", "returned"}
  /\ \A w \in Tasks : worker[w] # "busy"
  /\ UNCHANGED vars

Next ==
  \/ \E t \in Tasks : CheckCount(t) \/ RunStep(t) \/ WorkerStep(t)
  \/ UntilFinished
  \/ StopWaiting
  \/ WaiterStep
  \/ Cancel
  \/ Rest

Spec == Init /\ [][Next]_vars

(* Fairness: a goroutine that can run is scheduled, a send that can meet a  *)
(* receive does, and a task comes to an end.  Nothing makes anyone call Run *)
(* or UntilFinished, or cancel.                                             *)
FairSpec ==
  /\ Spec
  /\ \A t \in Tasks :
       /\ WF_vars(LoadCount(t) \/ StoreCount(t) \/ StartWorker(t))
       /\ WF_vars(\E w \in Tasks : HandOver(t, w))
       /\ WF_vars(WorkerStep(t))
  /\ WF_vars(StopWaiting)
  /\ WF_vars(WaiterStep)

-------------------------------------------------------------------------------
Live == {w \in Tasks : worker[w] \in {"select", "busy"}}

(* "The Pool ensures that the total number of goroutines does not exceed a  *)
(* given limit" (pool.go:4, 72-75).                                         *)
GoroutinesWithinLimit == Size # 0 => Cardinality(Live) <= Size

(* UntilFinished returns nil only when every task whose Run returned has    *)
(* been executed to its end, whatever happened to the count, to goroutines  *)
(* that met a nil task, or to the context (pool.go:71-107).                 *)
NilMeansAllTasksEnded ==
  waiter = "nil" =>
    \A t \in Tasks : run[t] = "returned" /\ t \notin NilTasks => t \in ended

(* A nil task takes a goroutine away that the count keeps, where it should  *)
(* be ignored ("If the task is nil, it will be ignored", pool.go:69): with  *)
(* as many of them as the size a Run may be left without a receiver.        *)
NilTasksAreFew ==
  Size = 0 \/ (IsFiniteSet(NilTasks) /\ Cardinality(NilTasks) < Size)

(* A Run that has begun returns, whatever the race on the count and the nil *)
(* tasks do, unless the pool is cancelled; nothing is said of a pool that   *)
(* is passed as many nil tasks as its size (pool.go:71-90).                 *)
EveryRunReturns ==
  NilTasksAreFew =>
    \A t \in Tasks : run[t] \in InRun ~> run[t] = "returned" \/ ctxDone

(* UntilFinished returns, with goroutines that are idle, busy, or gone      *)
(* (pool.go:95-107).                                                        *)
UntilFinishedReturns == waiter = "waiting" ~> waiter \in {"nil", "error"}
===============================================================================
