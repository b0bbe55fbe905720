---------------------------------- MODULE Fan ----------------------------------
(***************************************************************************)
(* fan.Fan: Out passes one task for each item of a slice to a pool.Pool,   *)
(* and each task writes the output and the error of its item at the item's *)
(* place of two shared slices; In waits for the pool and returns both.     *)
(*                                                                         *)
(* One goroutine calls Out, any number of times, and then In, once: after  *)
(* it the pool's channel is closed.  A task is <<call, index>>, an output  *)
(* or an error is known by the task whose it is.  What the pool does is    *)
(* Pool's: every step of it is one of Pool's or leaves it alone.           *)
(***************************************************************************)
EXTENDS Pool, Sequences

CONSTANTS
  Lengths,         \* the lengths of the slices Out may be called with, in order
  NoTask           \* whose the zero value in a new slice is

Calls == 1 .. Len(Lengths)
ItemsOf(c) == {<<c, i>> : i \in 1 .. Lengths[c]}

ASSUME FanAssumption ==
  /\ Lengths \in Seq(Nat \ {0})
  /\ Tasks = UNION {ItemsOf(c) : c \in Calls}
  /\ \A t, u \in Tasks : CallerOf[t] = CallerOf[u]
  /\ NilTasks = {}
  /\ NoTask \notin Tasks

VARIABLES
  results,         \* f.results
  errors,          \* f.errors
  madeResults,     \* the number of calls of Out that replaced f.results
  madeErrors,      \* the number of calls of Out that replaced f.errors
  written,         \* the tasks that have written their output
  crashed          \* a task wrote out of range, which ends the process

slices == <<results, errors, madeResults, madeErrors>>
fanVars == <<vars, slices, written, crashed>>

(* Every variable has its type, and the pool's keep theirs. *)
FanTypeOK ==
  /\ TypeOK
  /\ madeErrors \in 0 .. Len(Lengths)
  /\ madeResults \in madeErrors .. madeErrors + 1
  /\ results \in Seq(Tasks \cup {NoTask})
  /\ errors \in Seq(Tasks \cup {NoTask})
  /\ written \subseteq Tasks
  /\ crashed \in BOOLEAN
  /\ \A t \in Tasks : run[t] # "idle" => t[1] <= madeErrors

FanInit ==
  /\ Init
  /\ results = <<>>
  /\ errors = <<>>
  /\ madeResults = 0
  /\ madeErrors = 0
  /\ written = {}
  /\ crashed = FALSE

-------------------------------------------------------------------------------
(* Out *)

(* No call of Out is in progress. *)
OutReturned ==
  /\ madeResults = madeErrors
  /\ \A t \in Tasks : t[1] <= madeErrors => run[t] = "returned"

MakeResults_TooShort ==                        \* mutant: room for one item less
  /\ waiter = "idle"
  /\ OutReturned
  /\ madeResults < Len(Lengths)
  /\ madeResults' = madeResults + 1
  /\ results' = [i \in 1 .. Lengths[madeResults'] - 1 |-> NoTask]
  /\ UNCHANGED <<vars, errors, madeErrors, written, crashed>>

(* The slices of the last call are replaced one after the other, ... *)
MakeResults ==
  /\ waiter = "idle"
  /\ OutReturned
  /\ madeResults < Len(Lengths)
  /\ madeResults' = madeResults + 1
  /\ results' = [i \in 1 .. Lengths[madeResults'] |-> NoTask]
  /\ UNCHANGED <<vars, errors, madeErrors, written, crashed>>

MakeErrors ==
  /\ madeErrors < madeResults
  /\ madeErrors' = madeResults
  /\ errors' = [i \in 1 .. Lengths[madeResults] |-> NoTask]
  /\ UNCHANGED <<vars, results, madeResults, written, crashed>>

(* ... and Run is called for one item after the other. *)
RunNext(t) ==
  /\ t[1] = madeErrors
  /\ \A u \in ItemsOf(t[1]) : u[2] < t[2] => run[u] = "returned"
  /\ CheckCount(t)
  /\ UNCHANGED <<slices, written, crashed>>

-------------------------------------------------------------------------------
(* The tasks.  The slices are those of the last call of Out, whichever call *)
(* the task is of.                                                          *)

WriteResult_Appends(w) ==     \* mutant: in the order the tasks come to an end
  /\ worker[w] = "busy"
  /\ cur[w] \notin written
  /\ LET n == Cardinality({i \in DOMAIN results : results[i] # NoTask}) + 1 IN
       IF n \in DOMAIN results
         THEN /\ results' = [results EXCEPT ![n] = cur[w]]
              /\ written' = written \cup {cur[w]}
              /\ UNCHANGED crashed
         ELSE crashed' = TRUE /\ UNCHANGED <<results, written>>
  /\ UNCHANGED <<vars, errors, madeResults, madeErrors>>

WriteResult(w) ==
  /\ worker[w] = "busy"
  /\ cur[w] \notin written
  /\ IF cur[w][2] \in DOMAIN results
       THEN /\ results' = [results EXCEPT ![cur[w][2]] = cur[w]]
            /\ written' = written \cup {cur[w]}
            /\ UNCHANGED crashed
       ELSE crashed' = TRUE /\ UNCHANGED <<results, written>>
  /\ UNCHANGED <<vars, errors, madeResults, madeErrors>>

(* The error is written last: the task ends. *)
WriteError(w) ==
  /\ worker[w] = "busy"
  /\ cur[w] \in written
  /\ IF cur[w][2] \in DOMAIN errors
       THEN /\ errors' = [errors EXCEPT ![cur[w][2]] = cur[w]]
            /\ EndTask(w)
            /\ UNCHANGED crashed
       ELSE crashed' = TRUE /\ UNCHANGED <<vars, errors>>
  /\ UNCHANGED <<results, madeResults, madeErrors, written>>

-------------------------------------------------------------------------------
(* In *)
In ==
  /\ OutReturned
  /\ UntilFinished
  /\ UNCHANGED <<slices, written, crashed>>

(* The steps of the pool that do not touch the slices *)
PoolStep ==
  /\ \/ \E t \in Tasks : RunStep(t) \/ ExitWorker(t)
     \/ StopWaiting
     \/ WaiterStep
     \/ Cancel
  /\ UNCHANGED <<slices, written, crashed>>

FanStep ==
  \/ MakeResults
  \/ MakeErrors
  \/ \E t \in Tasks : RunNext(t) \/ WriteResult(t) \/ WriteError(t)
  \/ In
  \/ PoolStep

(* Everything may stand still after a crash, and where the pool may while   *)
(* no step of Out is left but one that waits for the pool.                  *)
FanRest ==
  /\ \/ crashed
     \/ /\ Rest
        /\ madeErrors = madeResults
  /\ UNCHANGED fanVars

FanNext == (~crashed /\ FanStep) \/ FanRest

FanSpec == FanInit /\ [][FanNext]_fanVars

(* Fairness: goroutines that can run are scheduled, the items' function     *)
(* returns.  No one need call Out or In, or cancel.                         *)
FanFairSpec ==
  /\ FanSpec
  /\ WF_fanVars(~crashed /\ MakeErrors)
  /\ \A t \in Tasks :
       /\ WF_fanVars(~crashed /\ RunNext(t))
       /\ WF_fanVars(~crashed /\ PoolStep /\ RunStep(t))
       /\ WF_fanVars(~crashed /\ (WriteResult(t) \/ WriteError(t)))
       /\ WF_fanVars(~crashed /\ PoolStep /\ ExitWorker(t))
  /\ WF_fanVars(~crashed /\ PoolStep /\ StopWaiting)
  /\ WF_fanVars(~crashed /\ PoolStep /\ WaiterStep)

-------------------------------------------------------------------------------
(* When In returns nil every place holds an output and an error, both of    *)
(* items with the place's index: of the item itself when Out was called     *)
(* once, else perhaps of an earlier call's, whose task was the last to      *)
(* write (fan.go:55-63, 69-71).                                             *)
ResultsAreInPlace ==
  waiter = "nil" =>
    \A i \in 1 .. (IF madeErrors = 0 THEN 0 ELSE Lengths[madeErrors]) :
      /\ i \in DOMAIN results \cap DOMAIN errors
      /\ results[i] \in {t \in Tasks : t[2] = i /\ t[1] <= madeErrors}
      /\ errors[i] \in {t \in Tasks : t[2] = i /\ t[1] <= madeErrors}

(* What In returned with nil is final: no task is left that could write to  *)
(* it (fan.go:61-64, 70).                                                   *)
ResultsAreFinal ==
  [][waiter = "nil" => UNCHANGED <<results, errors>>]_fanVars

(* A task writes out of range only when Out was called again with fewer     *)
(* items (fan.go:55-56, 62-63).                                             *)
CrashesOnlyIfOutShrinks ==
  crashed =>
    \E c, d \in 1 .. madeResults : c < d /\ Lengths[d] < Lengths[c]

(* Out and In return, however their tasks, the goroutines' exits and the    *)
(* wait interleave; a cancellation may leave Out blocked in Run             *)
(* (fan.go:57-65, 70).                                                      *)
EveryCallReturns ==
  /\ \A c \in Calls :
       madeResults = c ~> \/ ctxDone
                          \/ crashed
                          \/ \A t \in ItemsOf(c) : run[t] = "returned"
  /\ waiter = "waiting" ~> crashed \/ waiter \in {"nil", "error"}
===============================================================================
