----------------------------- MODULE BalancedPool -----------------------------
(***************************************************************************)
(* pool/balanced: a pool of workers, each with an unlimited channel of its *)
(* own, kept in a left-leaning red-black tree ordered by the estimated     *)
(* time (ETA) of the work queued on each.  RunAsync gives a task to the    *)
(* leftmost worker; a worker runs its tasks one by one until the context   *)
(* is cancelled, and then reports the rest as unprocessed.                 *)
(*                                                                         *)
(* Every task is submitted once, by a client goroutine of its own, through *)
(* Run or RunAsync.  A worker's unlimited channel is used through what     *)
(* FifoMailbox says of it, which UnlimitedChannel is shown to implement.   *)
(* A task's estimate is the same whenever it is asked for.                 *)
(***************************************************************************)
EXTENDS Integers, Sequences, FiniteSets, FiniteSetsExt

CONSTANTS
  Tasks,           \* the tasks clients submit
  WorkerCount,     \* the argument of New
  Microsecond,     \* time.Microsecond, in the unit of all durations
  ETA,             \* per task: what its ETA() returns
  MaxDelay,        \* per task: its WithMaxDelay option, 0 without one
  Sync,            \* the tasks submitted through Run; the others go through RunAsync
  Faulty,          \* the tasks whose Do() panics
  MayCancel,       \* whether the pool's context may be cancelled
  NoTask           \* no task

ASSUME PoolAssumption ==
  /\ WorkerCount \in Nat
  /\ Microsecond \in Nat
  /\ ETA \in [Tasks -> Nat]
  /\ MaxDelay \in [Tasks -> Nat]
  /\ Sync \subseteq Tasks
  /\ Faulty \subseteq Tasks
  /\ MayCancel \in BOOLEAN
  /\ NoTask \notin Tasks

Workers == 1 .. WorkerCount

VARIABLES
  lock,            \* the pool's mutex: the task whose RunAsync holds it, or NoTask
  tree,            \* the workers in the tree's in-order sequence
  gap,             \* where InsertNoReplace may still put the worker it holds, and
                   \* the worker's key once a comparison has read it
  client,          \* per task: where its client is
  home,            \* per task: the worker RunAsync chose, 0 before
  answer,          \* per task: what the call, or its finished channel, gave the client
  closed,          \* the tasks whose finished channel is closed
  eta,             \* per worker: w.eta
  pc,              \* per worker: where its goroutine is
  cur,             \* per worker: the task it handles
  accepted,        \* per worker: what its unlimited channel took in, in order
  delivered,       \* per worker: what its unlimited channel gave out, in order
  open,            \* per worker: its unlimited channel is not finalized
  unprocessed,     \* per worker: what is left of the slice Finalize returned
  ctxDone,         \* the pool's context is cancelled
  runs,            \* history, per task: how often its Do() ended
  swallowed,       \* history: the tasks sent to a finalized channel
  lateStarts       \* history, per worker: tasks started after the cancellation

clientVars == <<client, home, answer>>
mailVars == <<accepted, delivered, open>>
workerVars == <<pc, cur, unprocessed, lateStarts, runs>>
vars == <<lock, tree, gap, client, home, answer, closed, eta, pc, cur, accepted,
          delivered, open, unprocessed, ctxDone, runs, swallowed, lateStarts>>

InCall == {"admitted", "sending", "sent", "inserting"}

PoolTypes ==
  /\ lock \in Tasks \cup {NoTask}
  /\ tree \in Seq(Workers)
  /\ gap \in [lo : Nat, hi : Nat, key : Seq(Int)]
  /\ ctxDone \in BOOLEAN
  /\ swallowed \subseteq Tasks

ClientTypes ==
  /\ client \in [Tasks -> {"idle", "returned", "receiving", "answered"} \cup InCall]
  /\ home \in [Tasks -> 0 .. WorkerCount]
  /\ answer \in [Tasks -> {"none", "nil", "ErrUnprocessed", "ErrWillTakeLonger",
                           "ErrWorkerNotFound"}]
  /\ closed \subseteq Tasks

MailTypes ==
  /\ accepted \in [Workers -> Seq(Tasks)]
  /\ delivered \in [Workers -> Seq(Tasks)]
  /\ open \in [Workers -> BOOLEAN]

WorkerTypes ==
  /\ eta \in [Workers -> Int]
  /\ pc \in [Workers -> {"check", "select", "taken", "doing", "did", "settled",
                         "stop", "report", "exited"}]
  /\ cur \in [Workers -> Tasks \cup {NoTask}]
  /\ unprocessed \in [Workers -> Seq(Tasks)]
  /\ runs \in [Tasks -> Nat]
  /\ lateStarts \in [Workers -> Nat]

(* Every variable has its type, and the lock belongs to the one client that *)
(* is inside RunAsync.                                                      *)
LockHasItsOwner == \A t \in Tasks : client[t] \in InCall <=> lock = t

TypeOK == PoolTypes /\ ClientTypes /\ MailTypes /\ WorkerTypes /\ LockHasItsOwner

-------------------------------------------------------------------------------
(* New: the workers' estimates are a microsecond apart. *)
FirstEta(w) == (w - 1) * Microsecond

Init ==
  /\ lock = NoTask
  /\ tree = [n \in Workers |-> n]
  /\ gap = [lo |-> 0, hi |-> 0, key |-> <<>>]
  /\ client = [t \in Tasks |-> "idle"]
  /\ home = [t \in Tasks |-> 0]
  /\ answer = [t \in Tasks |-> "none"]
  /\ closed = {}
  /\ eta = [w \in Workers |-> FirstEta(w)]
  /\ pc = [w \in Workers |-> "check"]
  /\ cur = [w \in Workers |-> NoTask]
  /\ accepted = [w \in Workers |-> <<>>]
  /\ delivered = [w \in Workers |-> <<>>]
  /\ open = [w \in Workers |-> TRUE]
  /\ unprocessed = [w \in Workers |-> <<>>]
  /\ ctxDone = FALSE
  /\ runs = [t \in Tasks |-> 0]
  /\ swallowed = {}
  /\ lateStarts = [w \in Workers |-> 0]

-------------------------------------------------------------------------------
(* RunAsync.  It holds the pool's lock from the choice of a worker to that  *)
(* worker's return into the tree.                                           *)

LockIsFree_RLock == TRUE                      \* mutant: p.RLock() for p.Lock()
LockIsFree == lock = NoTask

(* etaWithOnGoing: the estimate, less what has elapsed of the task that is  *)
(* running; any part of its estimate may have.                              *)
EtaWithOnGoing(w) ==
  {eta[w] - elapsed :
     elapsed \in 0 .. (IF pc[w] \in {"doing", "did"} THEN ETA[cur[w]] ELSE 0)}

(* The call ends with an error before a worker is given the task. *)
Refuse(t, err) ==
  /\ client' = [client EXCEPT ![t] = "answered"]
  /\ answer' = [answer EXCEPT ![t] = err]
  /\ UNCHANGED <<lock, home>>

(* The leftmost worker of the tree is chosen. *)
Admit(t) ==
  /\ client' = [client EXCEPT ![t] = "admitted"]
  /\ home' = [home EXCEPT ![t] = tree[1]]
  /\ lock' = t
  /\ UNCHANGED answer

Submit(t) ==
  /\ client[t] = "idle"
  /\ LockIsFree
  /\ IF tree = <<>>
       THEN Refuse(t, "ErrWorkerNotFound")
       ELSE \/ MaxDelay[t] = 0 /\ Admit(t)
            \/ /\ MaxDelay[t] # 0
               /\ \E e \in EtaWithOnGoing(tree[1]) :
                    IF e > MaxDelay[t] THEN Refuse(t, "ErrWillTakeLonger")
                                       ELSE Admit(t)
  /\ UNCHANGED <<tree, gap, closed, eta, ctxDone, swallowed, mailVars, workerVars>>

(* addTask, first half: the worker's estimate grows under the worker's lock. *)
AddEta(t) ==
  /\ client[t] = "admitted"
  /\ client' = [client EXCEPT ![t] = "sending"]
  /\ eta' = [eta EXCEPT ![home[t]] = @ + ETA[t]]
  /\ UNCHANGED <<lock, tree, gap, home, answer, closed, ctxDone, swallowed, mailVars,
                 workerVars>>

(* Mutant of Send: nobody receives from a finalized channel. *)
Send_BlocksWhenFinalized(t) ==
  /\ client[t] = "sending"
  /\ IF open[home[t]]
       THEN /\ client' = [client EXCEPT ![t] = "sent"]
            /\ accepted' = [accepted EXCEPT ![home[t]] = Append(@, t)]
       ELSE UNCHANGED <<client, accepted>>
  /\ UNCHANGED <<swallowed, lock, tree, gap, home, answer, closed, eta, delivered,
                 open, ctxDone, workerVars>>

(* addTask, second half: the wrapped task is sent to the worker's channel,  *)
(* which swallows it once it is finalized.                                  *)
Send(t) ==
  /\ client[t] = "sending"
  /\ client' = [client EXCEPT ![t] = "sent"]
  /\ IF open[home[t]]
       THEN /\ accepted' = [accepted EXCEPT ![home[t]] = Append(@, t)]
            /\ UNCHANGED swallowed
       ELSE /\ swallowed' = swallowed \cup {t}
            /\ UNCHANGED accepted
  /\ UNCHANGED <<lock, tree, gap, home, answer, closed, eta, delivered, open, ctxDone,
                 workerVars>>

(* DeleteMin takes the leftmost worker out of the tree. *)
DeleteMin(t) ==
  /\ client[t] = "sent"
  /\ tree' = Tail(tree)
  /\ gap' = [lo |-> 0, hi |-> Len(tree), key |-> <<>>]
  /\ client' = [client EXCEPT ![t] = "inserting"]
  /\ UNCHANGED <<lock, home, answer, closed, eta, ctxDone, swallowed, mailVars,
                 workerVars>>

(* InsertNoReplace descends from the root: each comparison halves the gap   *)
(* the worker may go into, at the node the shape of the tree puts there.    *)
(* It reads the worker's own key and then the node's, each under its        *)
(* worker's lock only, for which the other may change.                      *)
ReadKey(t) ==
  /\ client[t] = "inserting"
  /\ gap.key = <<>>
  /\ gap.hi > gap.lo + 1
  /\ gap' = [gap EXCEPT !.key = <<eta[home[t]]>>]
  /\ UNCHANGED <<lock, tree, client, home, answer, closed, eta, ctxDone,
                 swallowed, mailVars, workerVars>>

Less_Greater(key, v) == key > eta[v]       \* mutant: the comparison is reversed
Less(key, v) == key < eta[v]

Descend(t) ==
  /\ client[t] = "inserting"
  /\ gap.key # <<>>
  /\ \E n \in (gap.lo + 1) .. (gap.hi - 1) :
       gap' = IF Less(gap.key[1], tree[n])
                THEN [gap EXCEPT !.hi = n, !.key = <<>>]
                ELSE [gap EXCEPT !.lo = n, !.key = <<>>]
  /\ UNCHANGED <<lock, tree, client, home, answer, closed, eta, ctxDone,
                 swallowed, mailVars, workerVars>>

(* The worker goes into the gap that is left, and the lock is released. *)
Insert(t) ==
  /\ client[t] = "inserting"
  /\ gap.hi = gap.lo + 1
  /\ tree' = SubSeq(tree, 1, gap.lo) \o <<home[t]>>
               \o SubSeq(tree, gap.hi, Len(tree))
  /\ gap' = [lo |-> 0, hi |-> 0, key |-> <<>>]
  /\ client' = [client EXCEPT ![t] = "returned"]
  /\ lock' = NoTask
  /\ UNCHANGED <<home, answer, closed, eta, ctxDone, swallowed, mailVars,
                 workerVars>>

(* The client receives from the finished channel: Run does so at once, the  *)
(* caller of RunAsync when it likes, if ever.                               *)
Receive(t) ==
  /\ client[t] = "returned"
  /\ client' = [client EXCEPT ![t] = "receiving"]
  /\ UNCHANGED <<lock, tree, gap, home, answer, closed, eta, ctxDone, swallowed,
                 mailVars, workerVars>>

(* A receive from the closed channel gives nil. *)
ReceiveNil(t) ==
  /\ client[t] = "receiving"
  /\ t \in closed
  /\ client' = [client EXCEPT ![t] = "answered"]
  /\ answer' = [answer EXCEPT ![t] = "nil"]
  /\ UNCHANGED <<lock, tree, gap, home, closed, eta, ctxDone, swallowed, mailVars,
                 workerVars>>

Cancel ==
  /\ MayCancel
  /\ ~ctxDone
  /\ ctxDone' = TRUE
  /\ UNCHANGED <<lock, tree, gap, clientVars, closed, eta, swallowed, mailVars,
                 workerVars>>

-------------------------------------------------------------------------------
(* The worker's goroutine *)

poolVars == <<lock, tree, gap, home, swallowed, ctxDone>>

(* The outer select looks at the context alone: without that look, the      *)
(* inner one could go on choosing the tasks of a cancelled pool.            *)
LookAtContext(w) ==
  /\ pc[w] = "check"
  /\ pc' = [pc EXCEPT ![w] = IF ctxDone THEN "stop" ELSE "select"]
  /\ UNCHANGED <<poolVars, client, answer, closed, eta, cur, unprocessed,
                 lateStarts, runs, mailVars>>

NoticeCancel_Never(w) ==                 \* mutant: no context in the inner select
  /\ pc[w] = "select"
  /\ ctxDone
  /\ UNCHANGED vars

(* The inner select: the context, *)
NoticeCancel(w) ==
  /\ pc[w] = "select"
  /\ ctxDone
  /\ pc' = [pc EXCEPT ![w] = "stop"]
  /\ UNCHANGED <<poolVars, client, answer, closed, eta, cur, unprocessed,
                 lateStarts, runs, mailVars>>

(* ... or a task from the worker's channel. *)
Take_Newest(w) ==                          \* mutant: last in, first out
  /\ pc[w] = "select"
  /\ Len(delivered[w]) < Len(accepted[w])
  /\ LET t == accepted[w][Len(accepted[w])] IN
       /\ cur' = [cur EXCEPT ![w] = t]
       /\ delivered' = [delivered EXCEPT ![w] = Append(@, t)]
  /\ pc' = [pc EXCEPT ![w] = "taken"]
  /\ UNCHANGED <<poolVars, client, answer, closed, eta, unprocessed, lateStarts,
                 runs, accepted, open>>

Take(w) ==
  /\ pc[w] = "select"
  /\ Len(delivered[w]) < Len(accepted[w])
  /\ LET t == accepted[w][Len(delivered[w]) + 1] IN
       /\ cur' = [cur EXCEPT ![w] = t]
       /\ delivered' = [delivered EXCEPT ![w] = Append(@, t)]
  /\ pc' = [pc EXCEPT ![w] = "taken"]
  /\ UNCHANGED <<poolVars, client, answer, closed, eta, unprocessed, lateStarts,
                 runs, accepted, open>>

(* handleTw: the ongoing task is noted under the worker's lock, ... *)
Start(w) ==
  /\ pc[w] = "taken"
  /\ pc' = [pc EXCEPT ![w] = "doing"]
  /\ lateStarts' = [lateStarts EXCEPT ![w] = @ + (IF ctxDone THEN 1 ELSE 0)]
  /\ UNCHANGED <<poolVars, client, answer, closed, eta, cur, unprocessed, runs,
                 mailVars>>

(* ... Do() returns, or panics and is recovered: the worker cannot tell, *)
EndDo(w) ==
  /\ pc[w] = "doing"
  /\ pc' = [pc EXCEPT ![w] = "did"]
  /\ runs' = [runs EXCEPT ![cur[w]] = @ + 1]
  /\ UNCHANGED <<poolVars, client, answer, closed, eta, cur, unprocessed,
                 lateStarts, mailVars>>

(* ... the estimate comes off the worker's, *)
Settle_UnlessFaulty(w) ==                  \* mutant: a panic skips the update
  /\ pc[w] = "did"
  /\ pc' = [pc EXCEPT ![w] = "settled"]
  /\ eta' = IF cur[w] \in Faulty THEN eta ELSE [eta EXCEPT ![w] = @ - ETA[cur[w]]]
  /\ UNCHANGED <<poolVars, client, answer, closed, cur, unprocessed, lateStarts,
                 runs, mailVars>>

Settle(w) ==
  /\ pc[w] = "did"
  /\ pc' = [pc EXCEPT ![w] = "settled"]
  /\ eta' = [eta EXCEPT ![w] = @ - ETA[cur[w]]]
  /\ UNCHANGED <<poolVars, client, answer, closed, cur, unprocessed, lateStarts,
                 runs, mailVars>>

CloseFinished_UnlessFaulty(w) ==         \* mutant: a panic skips the close
  /\ pc[w] = "settled"
  /\ closed' = closed \cup ({cur[w]} \ Faulty)
  /\ cur' = [cur EXCEPT ![w] = NoTask]
  /\ pc' = [pc EXCEPT ![w] = "check"]
  /\ UNCHANGED <<poolVars, client, answer, eta, unprocessed, lateStarts, runs,
                 mailVars>>

(* ... and the finished channel is closed, for whoever waits on it. *)
CloseFinished(w) ==
  /\ pc[w] = "settled"
  /\ closed' = closed \cup {cur[w]}
  /\ cur' = [cur EXCEPT ![w] = NoTask]
  /\ pc' = [pc EXCEPT ![w] = "check"]
  /\ UNCHANGED <<poolVars, client, answer, eta, unprocessed, lateStarts, runs,
                 mailVars>>

(* After the loop, Finalize shuts the channel and returns what is left. *)
Finalize(w) ==
  /\ pc[w] = "stop"
  /\ open' = [open EXCEPT ![w] = FALSE]
  /\ unprocessed' = [unprocessed EXCEPT ![w] =
                       SubSeq(accepted[w], Len(delivered[w]) + 1, Len(accepted[w]))]
  /\ pc' = [pc EXCEPT ![w] = "report"]
  /\ UNCHANGED <<poolVars, client, answer, closed, eta, cur, lateStarts, runs,
                 accepted, delivered>>

(* finished <- ErrUnprocessed needs the client to be receiving; the channel *)
(* is closed after it.                                                      *)
Report_OnlyCloses(w) ==                    \* mutant: the error is not sent
  /\ pc[w] = "report"
  /\ unprocessed[w] # <<>>
  /\ closed' = closed \cup {Head(unprocessed[w])}
  /\ unprocessed' = [unprocessed EXCEPT ![w] = Tail(@)]
  /\ UNCHANGED <<poolVars, client, answer, eta, pc, cur, lateStarts, runs, mailVars>>

Report(w) ==
  /\ pc[w] = "report"
  /\ unprocessed[w] # <<>>
  /\ LET t == Head(unprocessed[w]) IN
       /\ client[t] = "receiving"
       /\ client' = [client EXCEPT ![t] = "answered"]
       /\ answer' = [answer EXCEPT ![t] = "ErrUnprocessed"]
       /\ closed' = closed \cup {t}
  /\ unprocessed' = [unprocessed EXCEPT ![w] = Tail(@)]
  /\ UNCHANGED <<poolVars, eta, pc, cur, lateStarts, runs, mailVars>>

Exit(w) ==
  /\ pc[w] = "report"
  /\ unprocessed[w] = <<>>
  /\ pc' = [pc EXCEPT ![w] = "exited"]
  /\ UNCHANGED <<poolVars, client, answer, closed, eta, cur, unprocessed,
                 lateStarts, runs, mailVars>>

-------------------------------------------------------------------------------
InCallStep(t) ==
  \/ AddEta(t) \/ Send(t) \/ DeleteMin(t)
  \/ ReadKey(t) \/ Descend(t) \/ Insert(t)

ClientStep(t) == Submit(t) \/ InCallStep(t) \/ Receive(t) \/ ReceiveNil(t)

WorkerStep(w) ==
  \/ LookAtContext(w) \/ NoticeCancel(w) \/ Take(w)
  \/ Start(w) \/ EndDo(w) \/ Settle(w) \/ CloseFinished(w)
  \/ Finalize(w) \/ Report(w) \/ Exit(w)

(* The pool may stand still while its workers have nothing to do, have      *)
(* exited, or wait to report to a client that does not receive.             *)
Rest ==
  /\ lock = NoTask
  /\ \A w \in Workers :
       \/ pc[w] = "select" /\ ~ctxDone /\ Len(delivered[w]) = Len(accepted[w])
       \/ pc[w] = "report" /\ unprocessed[w] # <<>>
       \/ pc[w] = "exited"
  /\ UNCHANGED vars

Next ==
  \/ \E t \in Tasks : ClientStep(t)
  \/ \E w \in Workers : WorkerStep(w)
  \/ Cancel
  \/ Rest

Spec == Init /\ [][Next]_vars

(* Fairness: a goroutine that can run is scheduled, and a task's Do() comes *)
(* to an end.  Run receives from the finished channel at once; nothing      *)
(* makes the caller of RunAsync do so, nor anyone submit or cancel.         *)
FairSpec ==
  /\ Spec
  /\ \A t \in Tasks : WF_vars(InCallStep(t)) /\ WF_vars(ReceiveNil(t))
  /\ \A t \in Sync : WF_vars(Receive(t))
  /\ \A w \in Workers : WF_vars(WorkerStep(w))

-------------------------------------------------------------------------------
(* The tasks that w's estimate counts: AddEta is done, Settle is not *)
Counted(w) ==
  {t \in Tasks :
     /\ home[t] = w
     /\ client[t] # "admitted"
     /\ runs[t] = 0 \/ (cur[w] = t /\ pc[w] = "did")}

(* A worker's estimate is its initial offset and the estimates of exactly   *)
(* the tasks it was given and has not done, in every interleaving of the    *)
(* clients' additions with its own subtractions and whether or not Do()     *)
(* panics: no update is lost (pool.go:126-130, 168-179).                    *)
EtaIsTheBacklog ==
  \A w \in Workers :
    eta[w] = FirstEta(w) + MapThenSumSet(LAMBDA t : ETA[t], Counted(w))

(* Every worker is in the tree exactly once, except the one that the holder *)
(* of the lock is putting back (pool.go:269-270, 286-287).                  *)
EveryWorkerIsInOnePlace ==
  \A w \in Workers :
    Cardinality({n \in DOMAIN tree : tree[n] = w}) +
    Cardinality({t \in Tasks : client[t] = "inserting" /\ home[t] = w}) = 1

(* While no worker has finished anything, the tree is ordered by the        *)
(* estimates, so that the leftmost worker is the one with least work: only  *)
(* a subtraction, which does not touch the tree, can put it out of order    *)
(* (pool.go:176, 275, 286-287).                                             *)
TreeIsSortedUntilATaskEnds ==
  (lock = NoTask /\ \A t \in Tasks : runs[t] = 0) =>
    \A m, n \in DOMAIN tree : m < n => eta[tree[m]] <= eta[tree[n]]

(* A worker starts at most one more task once the context is cancelled,     *)
(* whatever its inner select chooses (pool.go:182-195).                     *)
AtMostOneLateStart == \A w \in Workers : lateStarts[w] <= 1

(* The answer on the finished channel tells the task's fate, once and for   *)
(* all: nil means that Do() was executed, once; an error that it was never  *)
(* started, and never will be (pool.go:166, 180, 197-201).  Nothing is said *)
(* of the answer for a task whose Do() panics, which should be an error     *)
(* ("It returns an error if the task execution fails", pool.go:292).        *)
AnswerTellsTheFate ==
  \A t \in Tasks :
    /\ runs[t] <= 1
    /\ answer[t] = "nil" /\ t \notin Faulty => runs[t] = 1
    /\ answer[t] # "none" /\ answer[t] # "nil" =>
         /\ runs[t] = 0
         /\ \A w \in Workers : cur[w] # t

(* Each worker's queue is used as FifoMailbox allows: what the workers take *)
(* is what the clients sent, in order, and Finalize gets the rest.          *)
Mailbox(w) == INSTANCE FifoMailbox WITH
  Items     <- Tasks,
  accepted  <- accepted[w],
  delivered <- delivered[w],
  open      <- open[w]

MailboxesAreFifo ==
  /\ \A w \in Workers : Mailbox(w)!MailboxInit
  /\ [][\A w \in Workers :
          Mailbox(w)!MailboxNext \/ UNCHANGED Mailbox(w)!mailboxVars]_vars

(* RunAsync returns, although it sends on a channel under the pool's lock:  *)
(* a finalized worker does not hold up the pool (pool.go:131, 268-289).     *)
EverySubmitReturns ==
  \A t \in Tasks : client[t] \in InCall ~> client[t] = "returned"

(* Who waits on the finished channel of a task that its worker's channel    *)
(* took in gets an answer.  It holds where every client waits: the report   *)
(* loop blocks on the first that does not (pool.go:180, 197-201).           *)
EveryQueuedTaskIsAnswered ==
  \A t \in Tasks :
    (client[t] = "receiving" /\ t \notin swallowed) ~> client[t] = "answered"

(* A cancelled pool's workers all come to an end (pool.go:145-201). *)
WorkersExitAfterCancel ==
  ctxDone ~> \A w \in Workers : pc[w] = "exited"

-------------------------------------------------------------------------------
(* What the documentation says and the code does not do *)

(* "ErrUnprocessed is an error indicating that a task was not processed"    *)
(* (pool.go:44) and "The `finished` channel returned can be used to wait    *)
(* for the task to complete" (pool.go:267): a client of Run is answered.    *)
EveryRunReturns ==
  \A t \in Sync : client[t] = "receiving" ~> client[t] = "answered"
===============================================================================
