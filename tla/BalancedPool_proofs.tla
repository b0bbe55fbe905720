-------------------------- MODULE BalancedPool_proofs --------------------------
(***************************************************************************)
(* Proofs about BalancedPool, for any tasks, estimates and number of       *)
(* workers: all of its safety properties.                                  *)
(*                                                                         *)
(* TypeInv is inductive.  It adds to TypeOK what the types rest on: the    *)
(* client inside RunAsync has the leftmost worker in hand, its gap lies    *)
(* within the tree, and a worker that handles a task has one.  On it rest  *)
(* LateInv, how far a cancelled worker can be; FateInv, where each task    *)
(* is on its way through a worker's queue; OnePlace and SortedInv, the     *)
(* workers in the tree; and EtaInv, the estimates as sums.                 *)
(***************************************************************************)
EXTENDS BalancedPool, SequenceTheorems, FiniteSetTheorems, TLAPS

LeftmostInHand ==
  \A t \in Tasks :
    client[t] \in {"admitted", "sending", "sent"} => tree # <<>> /\ home[t] = tree[1]

GapInTree ==
  \A t \in Tasks :
    client[t] = "inserting" =>
      /\ home[t] \in Workers
      /\ gap.lo \in 0 .. Len(tree)
      /\ gap.hi \in 1 .. (Len(tree) + 1)

HandlesATask ==
  \A w \in Workers :
    pc[w] \in {"taken", "doing", "did", "settled"} => cur[w] \in Tasks

TypeInv == TypeOK /\ LeftmostInHand /\ GapInTree /\ HandlesATask

-------------------------------------------------------------------------------
LEMMA FirstEtaInt == \A w \in Workers : FirstEta(w) \in Int
BY PoolAssumption DEF FirstEta, Workers

LEMMA FirstEtaOrder == \A v, w \in Workers : v < w => FirstEta(v) <= FirstEta(w)
<1> SUFFICES ASSUME NEW v \in Workers, NEW w \in Workers, v < w
             PROVE  (v - 1) * Microsecond <= (w - 1) * Microsecond
  BY DEF FirstEta
<1>1. PICK d \in Nat : w = v + d
  <2>1. w - v \in Nat /\ w = v + (w - v)
    BY DEF Workers
  <2> QED BY <2>1
<1>2. \A a, b, m \in Nat : a * m <= (a + b) * m
  OBVIOUS
<1>3. v - 1 \in Nat /\ w - 1 = (v - 1) + d
  BY <1>1 DEF Workers
<1> QED BY <1>2, <1>3, PoolAssumption

LEMMA InitTypeInv == Init => TypeInv
<1> SUFFICES ASSUME Init PROVE TypeInv
  OBVIOUS
<1> USE PoolAssumption DEF Init
<1>1. PoolTypes
  <2>1. [n \in 1 .. WorkerCount |-> n] \in Seq(1 .. WorkerCount)
    BY SeqDef
  <2>2. gap \in [lo : Nat, hi : Nat, key : Seq(Int)]
    <3>1. <<>> \in Seq(Int)
      OBVIOUS
    <3> QED BY <3>1
  <2> QED BY <2>1, <2>2 DEF PoolTypes, Workers
<1>2. ClientTypes
  BY DEF ClientTypes
<1>3. MailTypes
  BY EmptySeq DEF MailTypes
<1>4. WorkerTypes
  <2>1. eta \in [Workers -> Int]
    BY FirstEtaInt
  <2> QED BY <2>1, EmptySeq DEF WorkerTypes, Workers
<1>5. LockHasItsOwner
  BY DEF LockHasItsOwner, InCall
<1> QED
  BY <1>1, <1>2, <1>3, <1>4, <1>5
     DEF TypeInv, TypeOK, LeftmostInHand, GapInTree, HandlesATask

(* At most one client is inside RunAsync. *)
LEMMA OneInCall ==
  ASSUME LockHasItsOwner, NEW t \in Tasks, NEW u \in Tasks,
         client[t] \in InCall, client[u] \in InCall
  PROVE  t = u
BY DEF LockHasItsOwner

LEMMA HomeIsAWorker ==
  ASSUME TypeInv, NEW t \in Tasks, client[t] \in InCall
  PROVE  home[t] \in Workers
<1>1. CASE client[t] = "inserting"
  BY <1>1 DEF TypeInv, GapInTree
<1>2. CASE client[t] # "inserting"
  <2>1. tree \in Seq(Workers) /\ tree # <<>> /\ home[t] = tree[1]
    BY <1>2 DEF TypeInv, TypeOK, PoolTypes, LeftmostInHand, InCall
  <2> QED BY <2>1, LenProperties, ElementOfSeq, EmptySeq
<1> QED BY <1>1, <1>2

-------------------------------------------------------------------------------
(* The steps of a client *)

LEMMA SubmitTypeInv == ASSUME TypeInv, NEW t \in Tasks, Submit(t) PROVE TypeInv'
<1> USE DEF TypeInv, TypeOK
<1>1. UNCHANGED <<tree, gap, closed, eta, ctxDone, swallowed, accepted, delivered,
                  open, pc, cur, unprocessed, lateStarts, runs>>
  BY DEF Submit, mailVars, workerVars
<1>2. MailTypes' /\ WorkerTypes' /\ HandlesATask'
  BY <1>1 DEF MailTypes, WorkerTypes, HandlesATask
<1>3. client[t] = "idle"
  BY DEF Submit
<1>4. ASSUME NEW err \in {"ErrWorkerNotFound", "ErrWillTakeLonger"}, Refuse(t, err)
      PROVE  TypeInv'
  <2>1. PoolTypes'
    BY <1>1, <1>4 DEF PoolTypes, Refuse
  <2>2. ClientTypes'
    BY <1>1, <1>4 DEF ClientTypes, Refuse
  <2>3. LockHasItsOwner'
    BY <1>3, <1>4 DEF LockHasItsOwner, ClientTypes, Refuse, InCall
  <2>4. LeftmostInHand' /\ GapInTree'
    BY <1>1, <1>3, <1>4 DEF LeftmostInHand, GapInTree, ClientTypes, Refuse
  <2> QED BY <1>2, <2>1, <2>2, <2>3, <2>4
<1>5. ASSUME tree # <<>>, Admit(t) PROVE TypeInv'
  <2>1. tree[1] \in Workers
    BY <1>5, LenProperties, ElementOfSeq, EmptySeq DEF PoolTypes
  <2>2. PoolTypes'
    BY <1>1, <1>5 DEF PoolTypes, Admit
  <2>3. ClientTypes'
    BY <1>1, <1>5, <2>1, PoolAssumption DEF ClientTypes, Admit, InCall, Workers
  <2>4. lock = NoTask
    BY DEF Submit, LockIsFree
  <2>5. \A u \in Tasks : client[u] \notin InCall
    BY <2>4, PoolAssumption DEF LockHasItsOwner
  <2>6. LockHasItsOwner'
    BY <1>5, <2>5 DEF LockHasItsOwner, ClientTypes, Admit, InCall
  <2>7. LeftmostInHand' /\ GapInTree'
    BY <1>1, <1>5, <2>5 DEF LeftmostInHand, GapInTree, ClientTypes, Admit, InCall
  <2> QED BY <1>2, <2>2, <2>3, <2>6, <2>7
<1>6. \/ Refuse(t, "ErrWorkerNotFound")
      \/ Refuse(t, "ErrWillTakeLonger")
      \/ tree # <<>> /\ Admit(t)
  <2>1. CASE tree = <<>>
    BY <2>1 DEF Submit
  <2>2. CASE tree # <<>>
    BY <2>2 DEF Submit
  <2> QED BY <2>1, <2>2
<1> QED BY <1>4, <1>5, <1>6

LEMMA AddEtaTypeInv == ASSUME TypeInv, NEW t \in Tasks, AddEta(t) PROVE TypeInv'
<1> USE DEF TypeInv, TypeOK, AddEta
<1>1. PoolTypes' /\ MailTypes'
  BY DEF PoolTypes, MailTypes, mailVars
<1>2. ClientTypes' /\ LockHasItsOwner'
  BY DEF ClientTypes, LockHasItsOwner, InCall
<1>3. WorkerTypes' /\ HandlesATask'
  <2>1. eta[home[t]] + ETA[t] \in Int
    BY HomeIsAWorker, PoolAssumption DEF WorkerTypes, InCall
  <2>2. eta' \in [Workers -> Int]
    BY <2>1 DEF WorkerTypes
  <2> QED BY <2>2 DEF WorkerTypes, HandlesATask, workerVars
<1>4. LeftmostInHand' /\ GapInTree'
  BY DEF LeftmostInHand, GapInTree, ClientTypes
<1> QED BY <1>1, <1>2, <1>3, <1>4

LEMMA SendTypeInv == ASSUME TypeInv, NEW t \in Tasks, Send(t) PROVE TypeInv'
<1> USE DEF TypeInv, TypeOK, Send
<1>1. PoolTypes'
  BY DEF PoolTypes
<1>2. MailTypes'
  <2>1. accepted[home[t]] \in Seq(Tasks)
    BY HomeIsAWorker DEF MailTypes, InCall
  <2>2. Append(accepted[home[t]], t) \in Seq(Tasks)
    BY <2>1, AppendProperties
  <2>3. accepted' \in [Workers -> Seq(Tasks)]
    BY <2>2 DEF MailTypes
  <2> QED BY <2>3 DEF MailTypes
<1>3. ClientTypes' /\ LockHasItsOwner'
  BY DEF ClientTypes, LockHasItsOwner, InCall
<1>4. WorkerTypes' /\ HandlesATask'
  BY DEF WorkerTypes, HandlesATask, workerVars
<1>5. LeftmostInHand' /\ GapInTree'
  BY DEF LeftmostInHand, GapInTree, ClientTypes
<1> QED BY <1>1, <1>2, <1>3, <1>4, <1>5

LEMMA DeleteMinTypeInv == ASSUME TypeInv, NEW t \in Tasks, DeleteMin(t) PROVE TypeInv'
<1> USE DEF TypeInv, TypeOK, DeleteMin
<1>1. tree # <<>> /\ home[t] = tree[1] /\ tree \in Seq(Workers)
  BY DEF LeftmostInHand, PoolTypes
<1>2. Len(tree) \in Nat /\ Len(tree) >= 1 /\ home[t] \in Workers
  BY <1>1, LenProperties, ElementOfSeq, EmptySeq
<1>3. Tail(tree) \in Seq(Workers) /\ Len(Tail(tree)) = Len(tree) - 1
  BY <1>1, HeadTailProperties
<1>4. PoolTypes'
  BY <1>2, <1>3 DEF PoolTypes
<1>5. ClientTypes' /\ LockHasItsOwner'
  BY DEF ClientTypes, LockHasItsOwner, InCall
<1>6. MailTypes' /\ WorkerTypes' /\ HandlesATask'
  BY DEF MailTypes, WorkerTypes, HandlesATask, mailVars, workerVars
<1>7. \A u \in Tasks : client'[u] \in InCall => u = t
  BY OneInCall DEF ClientTypes, InCall
<1>8. LeftmostInHand'
  BY <1>7 DEF LeftmostInHand, ClientTypes, InCall
<1>9. GapInTree'
  BY <1>2, <1>3, <1>7 DEF GapInTree, InCall
<1> QED BY <1>4, <1>5, <1>6, <1>8, <1>9

LEMMA DescendTypeInv ==
  ASSUME TypeInv, NEW t \in Tasks, ReadKey(t) \/ Descend(t) PROVE TypeInv'
<1> USE DEF TypeInv, TypeOK
<1>1. Len(tree) \in Nat
  BY LenProperties DEF PoolTypes
<1>2. gap \in [lo : Nat, hi : Nat, key : Seq(Int)] /\ client[t] = "inserting"
  BY DEF PoolTypes, ReadKey, Descend
<1>3. gap.lo \in 0 .. Len(tree) /\ gap.hi \in 1 .. (Len(tree) + 1) /\ home[t] \in Workers
  BY <1>2 DEF GapInTree
<1>4. /\ gap' \in [lo : Nat, hi : Nat, key : Seq(Int)]
      /\ gap'.lo \in 0 .. Len(tree) /\ gap'.hi \in 1 .. (Len(tree) + 1)
  <2>1. CASE ReadKey(t)
    <3>1. <<eta[home[t]]>> \in Seq(Int)
      BY <1>3 DEF WorkerTypes
    <3> QED BY <1>2, <1>3, <2>1, <3>1 DEF ReadKey
  <2>2. CASE Descend(t)
    <3>1. PICK n \in (gap.lo + 1) .. (gap.hi - 1) :
            \/ gap' = [gap EXCEPT !.hi = n, !.key = <<>>]
            \/ gap' = [gap EXCEPT !.lo = n, !.key = <<>>]
      BY <2>2 DEF Descend
    <3>2. n \in Nat /\ n \in 0 .. Len(tree) /\ n \in 1 .. (Len(tree) + 1)
      BY <1>1, <1>3
    <3>3. <<>> \in Seq(Int)
      OBVIOUS
    <3> QED BY <1>2, <1>3, <3>1, <3>2, <3>3
  <2> QED BY <2>1, <2>2
<1>5. UNCHANGED <<lock, tree, client, home, answer, closed, eta, ctxDone, swallowed,
                  mailVars, workerVars>>
  BY DEF ReadKey, Descend
<1>6. PoolTypes' /\ GapInTree'
  BY <1>4, <1>5 DEF PoolTypes, GapInTree
<1>7. ClientTypes' /\ LockHasItsOwner' /\ LeftmostInHand'
  BY <1>5 DEF ClientTypes, LockHasItsOwner, LeftmostInHand
<1>8. MailTypes' /\ WorkerTypes' /\ HandlesATask'
  BY <1>5 DEF MailTypes, WorkerTypes, HandlesATask, mailVars, workerVars
<1> QED BY <1>6, <1>7, <1>8

LEMMA InsertTypeInv == ASSUME TypeInv, NEW t \in Tasks, Insert(t) PROVE TypeInv'
<1> USE DEF TypeInv, TypeOK, Insert
<1>1. Len(tree) \in Nat /\ gap.lo \in 0 .. Len(tree) /\ gap.hi \in 1 .. (Len(tree) + 1)
        /\ home[t] \in Workers /\ tree \in Seq(Workers)
  BY LenProperties DEF PoolTypes, GapInTree
<1>2. tree' \in Seq(Workers)
  <2>1. \A n \in 1 .. Len(tree) : tree[n] \in Workers
    BY <1>1, ElementOfSeq
  <2>2. SubSeq(tree, 1, gap.lo) \in Seq(Workers)
    BY <1>1, <2>1, SubSeqProperties
  <2>3. SubSeq(tree, gap.hi, Len(tree)) \in Seq(Workers)
    BY <1>1, <2>1, SubSeqProperties
  <2>4. <<home[t]>> \in Seq(Workers)
    BY <1>1
  <2> QED BY <2>2, <2>3, <2>4, ConcatProperties
<1>3. PoolTypes'
  BY <1>2 DEF PoolTypes
<1>4. \A u \in Tasks : client'[u] \notin InCall
  BY OneInCall DEF ClientTypes, InCall
<1>5. ClientTypes' /\ LockHasItsOwner'
  BY <1>4, PoolAssumption DEF ClientTypes, LockHasItsOwner
<1>6. MailTypes' /\ WorkerTypes' /\ HandlesATask'
  BY DEF MailTypes, WorkerTypes, HandlesATask, mailVars, workerVars
<1>7. LeftmostInHand' /\ GapInTree'
  BY <1>4 DEF LeftmostInHand, GapInTree, InCall
<1> QED BY <1>3, <1>5, <1>6, <1>7

LEMMA AwaitTypeInv ==
  ASSUME TypeInv, NEW t \in Tasks, Receive(t) \/ ReceiveNil(t)
  PROVE  TypeInv'
<1> USE DEF TypeInv, TypeOK, Receive, ReceiveNil
<1>1. PoolTypes' /\ MailTypes' /\ WorkerTypes' /\ HandlesATask'
  BY DEF PoolTypes, MailTypes, WorkerTypes, HandlesATask, mailVars, workerVars
<1>2. ClientTypes' /\ LockHasItsOwner'
  BY DEF ClientTypes, LockHasItsOwner, InCall
<1>3. LeftmostInHand' /\ GapInTree'
  BY DEF LeftmostInHand, GapInTree, ClientTypes
<1> QED BY <1>1, <1>2, <1>3

LEMMA ClientTypeInv == ASSUME TypeInv, NEW t \in Tasks, ClientStep(t) PROVE TypeInv'
BY SubmitTypeInv, AddEtaTypeInv, SendTypeInv, DeleteMinTypeInv, DescendTypeInv,
   InsertTypeInv, AwaitTypeInv DEF ClientStep, InCallStep

-------------------------------------------------------------------------------
(* The steps of a worker: only Report touches what belongs to a client *)

LEMMA WorkerTypeInv == ASSUME TypeInv, NEW w \in Workers, WorkerStep(w) PROVE TypeInv'
<1> USE DEF TypeInv, TypeOK
<1>1. UNCHANGED <<lock, tree, gap, home, swallowed, ctxDone>>
  BY DEF WorkerStep, LookAtContext, NoticeCancel, Take, Start, EndDo, Settle,
         CloseFinished, Finalize, Report, Exit, poolVars
<1>2. PoolTypes'
  BY <1>1 DEF PoolTypes
<1>3. ASSUME UNCHANGED <<client, answer>>, closed' \subseteq Tasks, MailTypes', WorkerTypes',
             HandlesATask'
      PROVE  TypeInv'
  BY <1>1, <1>2, <1>3 DEF ClientTypes, LockHasItsOwner, LeftmostInHand, GapInTree
<1>4. CASE LookAtContext(w) \/ NoticeCancel(w) \/ Exit(w)
  <2>1. MailTypes' /\ WorkerTypes' /\ HandlesATask'
    BY <1>4 DEF LookAtContext, NoticeCancel, Exit, MailTypes, WorkerTypes, HandlesATask,
                mailVars
  <2> QED BY <1>3, <1>4, <2>1 DEF LookAtContext, NoticeCancel, Exit, ClientTypes
<1>5. CASE Take(w)
  <2> DEFINE t == accepted[w][Len(delivered[w]) + 1]
  <2>1. t \in Tasks
    BY <1>5, LenProperties, ElementOfSeq DEF Take, MailTypes
  <2>2. Append(delivered[w], t) \in Seq(Tasks)
    BY <2>1, AppendProperties DEF MailTypes
  <2>3. MailTypes'
    BY <1>5, <2>2 DEF Take, MailTypes
  <2>4. WorkerTypes' /\ HandlesATask'
    BY <1>5, <2>1 DEF Take, WorkerTypes, HandlesATask
  <2> QED BY <1>3, <1>5, <2>3, <2>4 DEF Take, ClientTypes
<1>6. CASE Start(w) \/ EndDo(w) \/ Settle(w)
  <2>1. MailTypes' /\ HandlesATask'
    BY <1>6 DEF Start, EndDo, Settle, MailTypes, WorkerTypes, HandlesATask, mailVars
  <2>2. cur[w] \in Tasks
    BY <1>6 DEF Start, EndDo, Settle, HandlesATask
  <2>3. CASE Start(w)
    <3>1. lateStarts[w] + (IF ctxDone THEN 1 ELSE 0) \in Nat
      BY DEF WorkerTypes
    <3> QED BY <1>3, <2>1, <2>3, <3>1 DEF Start, WorkerTypes, ClientTypes
  <2>4. CASE EndDo(w)
    <3>1. runs[cur[w]] + 1 \in Nat
      BY <2>2 DEF WorkerTypes
    <3> QED BY <1>3, <2>1, <2>4, <3>1 DEF EndDo, WorkerTypes, ClientTypes
  <2>5. CASE Settle(w)
    <3>1. eta[w] - ETA[cur[w]] \in Int
      BY <2>2, PoolAssumption DEF WorkerTypes
    <3> QED BY <1>3, <2>1, <2>5, <3>1 DEF Settle, WorkerTypes, ClientTypes
  <2> QED BY <1>6, <2>3, <2>4, <2>5
<1>7. CASE CloseFinished(w)
  <2>1. MailTypes' /\ WorkerTypes' /\ HandlesATask'
    BY <1>7 DEF CloseFinished, MailTypes, WorkerTypes, HandlesATask, mailVars
  <2>2. cur[w] \in Tasks
    BY <1>7 DEF CloseFinished, HandlesATask
  <2> QED BY <1>3, <1>7, <2>1, <2>2 DEF CloseFinished, ClientTypes
<1>8. CASE Finalize(w)
  <2>1. SubSeq(accepted[w], Len(delivered[w]) + 1, Len(accepted[w])) \in Seq(Tasks)
    <3>1. accepted[w] \in Seq(Tasks) /\ delivered[w] \in Seq(Tasks)
      BY DEF MailTypes
    <3>2. /\ Len(delivered[w]) \in Nat /\ Len(accepted[w]) \in Nat
          /\ \A n \in (Len(delivered[w]) + 1) .. Len(accepted[w]) : accepted[w][n] \in Tasks
      BY <3>1, LenProperties, ElementOfSeq
    <3> QED BY <3>2, SubSeqProperties
  <2>2. MailTypes' /\ WorkerTypes' /\ HandlesATask'
    BY <1>8, <2>1 DEF Finalize, MailTypes, WorkerTypes, HandlesATask
  <2> QED BY <1>3, <1>8, <2>2 DEF Finalize, ClientTypes
<1>9. CASE Report(w)
  <2> DEFINE t == Head(unprocessed[w])
  <2>1. t \in Tasks /\ Tail(unprocessed[w]) \in Seq(Tasks)
    BY <1>9, HeadTailProperties DEF Report, WorkerTypes
  <2>2. MailTypes' /\ WorkerTypes' /\ HandlesATask'
    BY <1>9, <2>1 DEF Report, MailTypes, WorkerTypes, HandlesATask, mailVars
  <2>3. ClientTypes'
    BY <1>1, <1>9, <2>1 DEF Report, ClientTypes
  <2>4. LockHasItsOwner' /\ LeftmostInHand' /\ GapInTree'
    BY <1>1, <1>9, <2>1 DEF Report, ClientTypes, LockHasItsOwner, LeftmostInHand,
                            GapInTree, InCall
  <2> QED BY <1>2, <2>2, <2>3, <2>4
<1> QED BY <1>4, <1>5, <1>6, <1>7, <1>8, <1>9 DEF WorkerStep

-------------------------------------------------------------------------------
LEMMA StepTypeInv == TypeInv /\ [Next]_vars => TypeInv'
<1> SUFFICES ASSUME TypeInv, [Next]_vars PROVE TypeInv'
  OBVIOUS
<1>1. CASE UNCHANGED vars
  BY <1>1 DEF vars, TypeInv, TypeOK, PoolTypes, ClientTypes, MailTypes, WorkerTypes,
              LockHasItsOwner, LeftmostInHand, GapInTree, HandlesATask
<1>2. CASE Cancel
  BY <1>2 DEF Cancel, TypeInv, TypeOK, PoolTypes, ClientTypes, MailTypes, WorkerTypes,
              LockHasItsOwner, LeftmostInHand, GapInTree, HandlesATask, clientVars,
              mailVars, workerVars
<1> QED BY <1>1, <1>2, ClientTypeInv, WorkerTypeInv DEF Next, Rest

LEMMA TypeInvariance == Spec => []TypeInv
BY InitTypeInv, StepTypeInv, PTL DEF Spec

(* Type correctness: in particular the client inside RunAsync is alone      *)
(* there, and it is the one that holds the lock (pool.go:269-270).          *)
THEOREM TypeCorrect == Spec => []TypeOK
<1>1. TypeInv => TypeOK
  BY DEF TypeInv
<1> QED BY <1>1, TypeInvariance, PTL

-------------------------------------------------------------------------------
(* The worker that has started its late task is past its selects: the next  *)
(* look at the context, in the outer one, ends its loop.                    *)
LateInv ==
  \A w \in Workers :
    /\ lateStarts[w] \in {0, 1}
    /\ lateStarts[w] = 1 => ctxDone /\ pc[w] \notin {"select", "taken"}

LEMMA StepLateInv == TypeOK /\ LateInv /\ [Next]_vars => LateInv'
<1> SUFFICES ASSUME TypeOK, LateInv, [Next]_vars PROVE LateInv'
  OBVIOUS
<1> USE DEF LateInv, TypeOK, WorkerTypes
<1>1. ASSUME NEW w \in Workers, Start(w) PROVE LateInv'
  BY <1>1 DEF Start, poolVars
<1>2. ASSUME NEW w \in Workers, Take(w) PROVE LateInv'
  BY <1>2 DEF Take, poolVars
<1>3. ASSUME NEW w \in Workers, LookAtContext(w) PROVE LateInv'
  BY <1>3 DEF LookAtContext, poolVars
<1>4. CASE UNCHANGED lateStarts /\ (ctxDone => ctxDone')
             /\ \A w \in Workers : pc'[w] \in {"select", "taken"} => pc'[w] = pc[w]
  BY <1>4
<1>5. ASSUME NEW w \in Workers,
             \/ NoticeCancel(w) \/ EndDo(w) \/ Settle(w) \/ CloseFinished(w)
             \/ Finalize(w) \/ Report(w) \/ Exit(w)
      PROVE  LateInv'
  <2>1. UNCHANGED <<lateStarts, ctxDone>>
    BY <1>5 DEF NoticeCancel, EndDo, Settle, CloseFinished, Finalize, Report, Exit,
                poolVars
  <2>2. \A v \in Workers : pc'[v] \in {"select", "taken"} => pc'[v] = pc[v]
    BY <1>5 DEF NoticeCancel, EndDo, Settle, CloseFinished, Finalize, Report, Exit
  <2> QED BY <1>4, <2>1, <2>2
<1>6. ASSUME NEW t \in Tasks, ClientStep(t) PROVE LateInv'
  BY <1>4, <1>6 DEF ClientStep, InCallStep, Submit, AddEta, Send, DeleteMin, ReadKey,
                    Descend, Insert, Receive, ReceiveNil, workerVars
<1>7. CASE Cancel
  BY <1>4, <1>7 DEF Cancel, workerVars
<1>8. CASE UNCHANGED vars
  BY <1>4, <1>8 DEF vars
<1> QED BY <1>1, <1>2, <1>3, <1>5, <1>6, <1>7, <1>8 DEF Next, Rest, WorkerStep

(* A worker starts at most one more task once the context is cancelled,     *)
(* whatever its inner select chooses (pool.go:182-195).                     *)
THEOREM OneLateStart == Spec => []AtMostOneLateStart
<1>1. Init => LateInv
  BY DEF Init, LateInv
<1>2. LateInv => AtMostOneLateStart
  BY DEF LateInv, AtMostOneLateStart
<1>3. TypeInv => TypeOK
  BY DEF TypeInv
<1> QED BY <1>1, <1>2, <1>3, StepLateInv, TypeInvariance, PTL DEF Spec

-------------------------------------------------------------------------------
(* The fate of a task: where it is on its way through a worker's queue.     *)

(* The states of a worker that handles a task, and of a client whose task   *)
(* is in no queue yet.                                                      *)
Busy == {"taken", "doing", "did", "settled"}
NotSent == {"idle", "admitted", "sending"}

(* What a worker's channel took in was sent to that worker, once. *)
InMail ==
  \A w \in Workers : \A m \in 1 .. Len(accepted[w]) :
    /\ home[accepted[w][m]] = w
    /\ client[accepted[w][m]] \notin NotSent
    /\ \A n \in 1 .. Len(accepted[w]) : accepted[w][m] = accepted[w][n] => m = n

(* What it gave out is the beginning of what it took in. *)
Delivery ==
  \A w \in Workers :
    /\ Len(delivered[w]) <= Len(accepted[w])
    /\ \A n \in 1 .. Len(delivered[w]) : delivered[w][n] = accepted[w][n]

(* A worker handles the task that its channel gave out last. *)
InHand ==
  \A w \in Workers :
    IF pc[w] \in Busy
      THEN Len(delivered[w]) # 0 /\ cur[w] = accepted[w][Len(delivered[w])]
      ELSE cur[w] = NoTask

(* What the channel gave out has been done, once, but for the task that the *)
(* worker has yet to do; nothing else has.                                  *)
RunsOnce ==
  /\ \A w \in Workers : \A n \in 1 .. Len(delivered[w]) :
       runs[accepted[w][n]] =
         IF n = Len(delivered[w]) /\ pc[w] \in {"taken", "doing"} THEN 0 ELSE 1
  /\ \A t \in Tasks : runs[t] # 0 =>
       \E w \in Workers : \E n \in 1 .. Len(delivered[w]) : accepted[w][n] = t

(* How much of what the channel took in was run or handed to the clients as *)
(* unprocessed: Finalize's slice is the rest of it, in order.               *)
Back(w) == Len(accepted[w]) - Len(unprocessed[w])

Leftover ==
  \A w \in Workers :
    /\ open[w] <=> pc[w] \notin {"report", "exited"}
    /\ ~open[w] =>
         /\ Len(delivered[w]) <= Back(w)
         /\ \A n \in 1 .. Len(unprocessed[w]) : unprocessed[w][n] = accepted[w][Back(w) + n]

(* t's client was told that t is unprocessed. *)
GivenBack(t) ==
  \E w \in Workers :
    /\ ~open[w]
    /\ \E n \in (Len(delivered[w]) + 1) .. Back(w) : accepted[w][n] = t

(* The finished channel is closed behind a task that was done or given      *)
(* back; a client is told once, and what it is told is so.                  *)
Answers ==
  \A t \in Tasks :
    /\ client[t] = "idle" => home[t] = 0
    /\ answer[t] # "none" => client[t] = "answered"
    /\ t \in closed => answer[t] = "ErrUnprocessed" \/ runs[t] = 1
    /\ answer[t] = "nil" => runs[t] = 1
    /\ answer[t] \in {"ErrWillTakeLonger", "ErrWorkerNotFound"} => home[t] = 0
    /\ answer[t] = "ErrUnprocessed" => GivenBack(t)

FateInv == InMail /\ Delivery /\ InHand /\ RunsOnce /\ Leftover /\ Answers

queueVars == <<accepted, delivered, open, pc, cur, unprocessed, runs, closed>>

LEMMA QueueTypes ==
  ASSUME TypeInv, NEW w \in Workers
  PROVE  /\ Len(accepted[w]) \in Nat /\ Len(delivered[w]) \in Nat
         /\ Len(unprocessed[w]) \in Nat
         /\ \A n \in 1 .. Len(accepted[w]) : accepted[w][n] \in Tasks
BY LenProperties, ElementOfSeq DEF TypeInv, TypeOK, MailTypes, WorkerTypes

LEMMA SamePlace ==
  ASSUME InMail, NEW v \in Workers, NEW w \in Workers,
         NEW m \in 1 .. Len(accepted[v]), NEW n \in 1 .. Len(accepted[w]),
         accepted[v][m] = accepted[w][n]
  PROVE  v = w /\ m = n
BY DEF InMail

LEMMA InitFateInv == Init => FateInv
<1> SUFFICES ASSUME Init PROVE FateInv
  OBVIOUS
<1>1. \A w \in Workers : accepted[w] = <<>> /\ delivered[w] = <<>> /\ unprocessed[w] = <<>>
  BY DEF Init
<1>2. Len(<<>>) = 0
  OBVIOUS
<1> QED BY <1>1, <1>2 DEF Init, FateInv, InMail, Delivery, InHand, RunsOnce, Leftover,
                          Answers, GivenBack, Busy, Back

LEMMA QueueFrame ==
  ASSUME Delivery, InHand, RunsOnce, Leftover,
         UNCHANGED <<accepted, delivered, open, pc, cur, unprocessed, runs>>
  PROVE  Delivery' /\ InHand' /\ RunsOnce' /\ Leftover'
<1>1. Delivery'
  BY DEF Delivery
<1>2. InHand'
  BY DEF InHand
<1>3. RunsOnce'
  BY DEF RunsOnce
<1>4. Leftover'
  BY Zenon DEF Leftover, Back
<1> QED BY <1>1, <1>2, <1>3, <1>4

(* A client moves on, and its task does not. *)
LEMMA MoveFateInv ==
  ASSUME TypeInv, FateInv, NEW t \in Tasks,
         AddEta(t) \/ DeleteMin(t) \/ ReadKey(t) \/ Descend(t) \/ Insert(t) \/ Receive(t)
  PROVE  FateInv'
<1> USE DEF FateInv
<1>1. UNCHANGED queueVars /\ UNCHANGED <<home, answer>>
  BY DEF AddEta, DeleteMin, ReadKey, Descend, Insert, Receive, mailVars, workerVars, queueVars
<1>2. /\ \A u \in Tasks : client'[u] \in NotSent => client[u] \in NotSent
      /\ \A u \in Tasks : client'[u] = "idle" => client[u] = "idle"
      /\ \A u \in Tasks : client[u] = "answered" => client'[u] = "answered"
  BY DEF AddEta, DeleteMin, ReadKey, Descend, Insert, Receive, NotSent, TypeInv, TypeOK,
         ClientTypes
<1>3. InMail'
  BY <1>1, <1>2, QueueTypes DEF InMail, queueVars
<1>4. Delivery' /\ InHand' /\ RunsOnce' /\ Leftover'
  BY <1>1, QueueFrame DEF queueVars
<1>5. Answers'
  BY <1>1, <1>2 DEF Answers, GivenBack, Back, queueVars
<1> QED BY <1>3, <1>4, <1>5

LEMMA SubmitCases ==
  ASSUME NEW t \in Tasks, Submit(t)
  PROVE  Admit(t) \/ \E err \in {"ErrWorkerNotFound", "ErrWillTakeLonger"} : Refuse(t, err)
<1>1. CASE tree = <<>>
  BY <1>1 DEF Submit
<1>2. CASE tree # <<>>
  BY <1>2 DEF Submit
<1> QED BY <1>1, <1>2

LEMMA SubmitFateInv == ASSUME TypeInv, FateInv, NEW t \in Tasks, Submit(t) PROVE FateInv'
<1> USE DEF FateInv
<1>1. UNCHANGED queueVars /\ client[t] = "idle"
  BY DEF Submit, mailVars, workerVars, queueVars
<1>2. Admit(t) \/ \E err \in {"ErrWorkerNotFound", "ErrWillTakeLonger"} : Refuse(t, err)
  BY SubmitCases
<1>3. \A w \in Workers : \A n \in 1 .. Len(accepted[w]) : accepted[w][n] # t
  BY <1>1 DEF InMail, NotSent
<1>4. \A u \in Tasks : u # t => client'[u] = client[u] /\ home'[u] = home[u] /\ answer'[u] = answer[u]
  BY <1>2 DEF Refuse, Admit, TypeInv, TypeOK, ClientTypes
<1>5. InMail'
  BY <1>1, <1>3, <1>4, QueueTypes DEF InMail, queueVars
<1>6. Delivery' /\ InHand' /\ RunsOnce' /\ Leftover'
  BY <1>1, QueueFrame DEF queueVars
<1>7. \A u \in Tasks : GivenBack(u)' <=> GivenBack(u)
  BY <1>1 DEF GivenBack, Back, queueVars
<1>8. answer[t] = "none" /\ home[t] = 0
  BY <1>1 DEF Answers, TypeInv, TypeOK, ClientTypes
<1>9. Answers'
  <2>1. ASSUME NEW err \in {"ErrWorkerNotFound", "ErrWillTakeLonger"}, Refuse(t, err)
        PROVE  Answers'
    BY <1>1, <1>4, <1>7, <1>8, <2>1 DEF Answers, Refuse, TypeInv, TypeOK, ClientTypes, queueVars
  <2>2. CASE Admit(t)
    BY <1>1, <1>4, <1>7, <1>8, <2>2 DEF Answers, Admit, TypeInv, TypeOK, ClientTypes, queueVars
  <2> QED BY <1>2, <2>1, <2>2
<1> QED BY <1>5, <1>6, <1>9

LEMMA SendFateInv == ASSUME TypeInv, FateInv, NEW t \in Tasks, Send(t) PROVE FateInv'
<1> USE DEF FateInv
<1> DEFINE h == home[t]
<1>1. h \in Workers /\ client[t] = "sending"
  BY HomeIsAWorker DEF Send, InCall
<1>2. UNCHANGED <<home, answer, closed, delivered, open, pc, cur, unprocessed, runs>>
  BY DEF Send, workerVars
<1>3. \A w \in Workers : \A n \in 1 .. Len(accepted[w]) : accepted[w][n] # t
  BY <1>1 DEF InMail, NotSent
<1>4. /\ client' = [client EXCEPT ![t] = "sent"]
      /\ client \in [Tasks -> {"idle", "returned", "receiving", "answered"} \cup InCall]
  BY DEF Send, TypeInv, TypeOK, ClientTypes
<1>5. CASE ~open[h]
  <2>1. UNCHANGED accepted
    BY <1>5 DEF Send
  <2>2. InMail'
    BY <1>2, <1>4, <2>1, QueueTypes DEF InMail, NotSent
  <2>3. Delivery' /\ InHand' /\ RunsOnce' /\ Leftover'
    BY <1>2, <2>1, QueueFrame
  <2>4. Answers'
    BY <1>1, <1>2, <1>4, <2>1 DEF Answers, GivenBack, Back
  <2> QED BY <2>2, <2>3, <2>4
<1>6. CASE open[h]
  <2>1. accepted' = [accepted EXCEPT ![h] = Append(@, t)] /\ accepted \in [Workers -> Seq(Tasks)]
    BY <1>6 DEF Send, TypeInv, TypeOK, MailTypes
  <2>2. \A w \in Workers : w # h => accepted'[w] = accepted[w]
    BY <2>1
  <2>3. /\ Len(accepted'[h]) = Len(accepted[h]) + 1
        /\ accepted'[h][Len(accepted[h]) + 1] = t
        /\ \A n \in 1 .. Len(accepted[h]) : accepted'[h][n] = accepted[h][n]
    BY <1>1, <2>1, AppendProperties
  <2> DEFINE L(w) == Len(accepted[w])
  <2>4. \A w \in Workers : L(w) \in Nat /\ Len(delivered[w]) \in Nat /\ Len(delivered[w]) <= L(w)
    BY QueueTypes DEF Delivery
  <2>5. \A w \in Workers : \A n \in 1 .. L(w) : accepted'[w][n] = accepted[w][n]
    BY <2>2, <2>3
  <2>6. InMail'
    <3> SUFFICES ASSUME NEW w \in Workers, NEW m \in 1 .. Len(accepted'[w])
                 PROVE  /\ home[accepted'[w][m]] = w
                        /\ client'[accepted'[w][m]] \notin NotSent
                        /\ \A n \in 1 .. Len(accepted'[w]) :
                             accepted'[w][m] = accepted'[w][n] => m = n
      BY <1>2 DEF InMail
    <3>1. CASE w # h
      BY <1>4, <2>2, <3>1, QueueTypes DEF InMail, NotSent
    <3>2. CASE w = h /\ m = L(h) + 1
      <4>1. accepted'[w][m] = t /\ home[t] = w /\ client'[t] \notin NotSent
        BY <1>4, <2>3, <3>2 DEF NotSent
      <4>2. \A n \in 1 .. Len(accepted'[w]) : n # m => accepted'[w][n] # t
        <5>1. \A n \in 1 .. Len(accepted'[w]) : n # m => n \in 1 .. L(h)
          BY <1>1, <2>3, <2>4, <3>2
        <5> QED BY <1>1, <1>3, <2>3, <3>2, <5>1
      <4> QED BY <4>1, <4>2
    <3>3. CASE w = h /\ m # L(h) + 1
      <4>1. m \in 1 .. L(h)
        BY <2>3, <2>4, <3>3
      <4>2. accepted'[h][m] = accepted[h][m] /\ accepted[h][m] \in Tasks
        BY <2>3, <4>1, <3>3, QueueTypes
      <4>3. home[accepted[h][m]] = h /\ client[accepted[h][m]] \notin NotSent
              /\ accepted[h][m] # t
        BY <1>1, <1>3, <4>1 DEF InMail
      <4>4. client'[accepted[h][m]] \notin NotSent
        BY <1>4, <4>2, <4>3
      <4>5. ASSUME NEW n \in 1 .. Len(accepted'[h]), accepted'[h][m] = accepted'[h][n]
            PROVE  m = n
        <5>1. n # L(h) + 1
          BY <2>3, <4>2, <4>3, <4>5
        <5>2. n \in 1 .. L(h)
          BY <1>1, <2>3, <2>4, <5>1
        <5>3. accepted[h][m] = accepted[h][n]
          BY <2>3, <4>2, <4>5, <5>2
        <5> QED BY <1>1, <4>1, <5>2, <5>3 DEF InMail
      <4> QED BY <3>3, <4>2, <4>3, <4>4, <4>5
    <3> QED BY <3>1, <3>2, <3>3
  <2>7. \A w \in Workers : \A n \in 1 .. Len(delivered[w]) : accepted'[w][n] = accepted[w][n]
    BY <2>4, <2>5
  <2>8. \A w \in Workers : Len(accepted'[w]) \in Nat /\ Len(accepted'[w]) >= L(w)
    BY <2>2, <2>3, <2>4
  <2>9. Delivery'
    BY <1>2, <2>4, <2>7, <2>8 DEF Delivery
  <2>10. InHand'
    BY <1>2, <2>4, <2>7 DEF InHand
  <2>11. RunsOnce'
    BY <1>2, <2>4, <2>7 DEF RunsOnce
  <2>12. \A w \in Workers : ~open[w] => accepted'[w] = accepted[w]
    BY <1>6, <2>2
  <2>13. Leftover'
    BY <1>2, <2>12 DEF Leftover, Back
  <2>14. \A u \in Tasks : GivenBack(u) => GivenBack(u)'
    BY <1>2, <2>12 DEF GivenBack, Back
  <2>15. Answers'
    BY <1>1, <1>2, <1>4, <2>14 DEF Answers
  <2> QED BY <2>6, <2>9, <2>10, <2>11, <2>13, <2>15
<1> QED BY <1>5, <1>6

LEMMA ReceiveNilFateInv == ASSUME TypeInv, FateInv, NEW t \in Tasks, ReceiveNil(t) PROVE FateInv'
<1> USE DEF FateInv
<1>1. UNCHANGED queueVars /\ UNCHANGED home
  BY DEF ReceiveNil, mailVars, workerVars, queueVars
<1>2. /\ client' = [client EXCEPT ![t] = "answered"] /\ answer' = [answer EXCEPT ![t] = "nil"]
      /\ t \in closed /\ client[t] = "receiving"
  BY DEF ReceiveNil
<1>3. InMail'
  BY <1>1, <1>2, QueueTypes DEF InMail, NotSent, queueVars, TypeInv, TypeOK, ClientTypes
<1>4. Delivery' /\ InHand' /\ RunsOnce' /\ Leftover'
  BY <1>1, QueueFrame DEF queueVars
<1>5. \A u \in Tasks : GivenBack(u)' <=> GivenBack(u)
  BY <1>1 DEF GivenBack, Back, queueVars
<1>6. runs[t] = 1
  BY <1>2 DEF Answers
<1>7. Answers'
  BY <1>1, <1>2, <1>5, <1>6 DEF Answers, queueVars, TypeInv, TypeOK, ClientTypes
<1> QED BY <1>3, <1>4, <1>7

(* The worker's goroutine moves on, and no task does. *)
LEMMA StepOnFateInv ==
  ASSUME TypeInv, FateInv, NEW w \in Workers,
         LookAtContext(w) \/ NoticeCancel(w) \/ Exit(w) \/ Start(w) \/ Settle(w)
  PROVE  FateInv'
<1> USE DEF FateInv
<1>1. UNCHANGED <<home, client, answer, closed, accepted, delivered, open, cur,
                  unprocessed, runs>>
  BY DEF LookAtContext, NoticeCancel, Exit, Start, Settle, mailVars, poolVars
<1>2. /\ \A v \in Workers : v # w => pc'[v] = pc[v]
      /\ pc'[w] \in Busy <=> pc[w] \in Busy
      /\ pc'[w] \in {"taken", "doing"} <=> pc[w] \in {"taken", "doing"}
      /\ pc'[w] \in {"report", "exited"} <=> pc[w] \in {"report", "exited"}
  BY DEF LookAtContext, NoticeCancel, Exit, Start, Settle, Busy, TypeInv, TypeOK, WorkerTypes
<1>3. InMail' /\ Delivery' /\ Answers'
  BY <1>1 DEF InMail, Delivery, Answers, GivenBack, Back
<1>4. \A v \in Workers :
        /\ pc'[v] \in Busy <=> pc[v] \in Busy
        /\ pc'[v] \in {"taken", "doing"} <=> pc[v] \in {"taken", "doing"}
        /\ pc'[v] \in {"report", "exited"} <=> pc[v] \in {"report", "exited"}
  BY <1>2
<1>5. InHand'
  BY <1>1, <1>4 DEF InHand
<1>6. RunsOnce'
  BY <1>1, <1>4 DEF RunsOnce
<1>7. Leftover'
  BY <1>1, <1>4, Zenon DEF Leftover, Back
<1> QED BY <1>3, <1>5, <1>6, <1>7

LEMMA TakeFateInv == ASSUME TypeInv, FateInv, NEW w \in Workers, Take(w) PROVE FateInv'
<1> USE DEF FateInv
<1> DEFINE d == Len(delivered[w])
           t == accepted[w][d + 1]
<1>1. UNCHANGED <<home, client, answer, closed, accepted, open, unprocessed, runs>>
  BY DEF Take, poolVars
<1>2. /\ pc[w] = "select" /\ pc' = [pc EXCEPT ![w] = "taken"]
      /\ cur' = [cur EXCEPT ![w] = t]
      /\ delivered' = [delivered EXCEPT ![w] = Append(@, t)]
      /\ d < Len(accepted[w])
  BY DEF Take
<1>3. d \in Nat /\ Len(accepted[w]) \in Nat /\ d + 1 \in 1 .. Len(accepted[w]) /\ t \in Tasks
  BY <1>2, QueueTypes
<1>4. /\ \A v \in Workers : v # w => /\ delivered'[v] = delivered[v]
                                     /\ pc'[v] = pc[v] /\ cur'[v] = cur[v]
      /\ pc'[w] = "taken" /\ cur'[w] = t
      /\ Len(delivered'[w]) = d + 1
      /\ delivered'[w][d + 1] = t
      /\ \A n \in 1 .. d : delivered'[w][n] = delivered[w][n]
  <2>1. delivered[w] \in Seq(Tasks) /\ delivered \in [Workers -> Seq(Tasks)]
    BY DEF TypeInv, TypeOK, MailTypes
  <2>2. /\ Len(Append(delivered[w], t)) = d + 1 /\ Append(delivered[w], t)[d + 1] = t
        /\ \A n \in 1 .. d : Append(delivered[w], t)[n] = delivered[w][n]
    BY <1>3, <2>1, AppendProperties
  <2> QED BY <1>2, <2>1, <2>2 DEF TypeInv, TypeOK, WorkerTypes
<1> HIDE DEF t
<1>5. InMail'
  BY <1>1 DEF InMail
<1>6. Delivery'
  BY <1>1, <1>3, <1>4 DEF Delivery, t
<1>7. InHand'
  BY <1>1, <1>3, <1>4 DEF InHand, t, Busy
<1>8. runs[t] = 0
  <2>1. ASSUME NEW v \in Workers, NEW n \in 1 .. Len(delivered[v]), accepted[v][n] = t
        PROVE  FALSE
    <3>1. n \in 1 .. Len(accepted[v])
      BY QueueTypes DEF Delivery
    <3>2. v = w /\ n = d + 1
      BY <1>3, <2>1, <3>1, SamePlace DEF t
    <3> QED BY <1>3, <3>2
  <2> QED BY <1>3, <2>1 DEF RunsOnce, TypeInv, TypeOK, WorkerTypes
<1>9. RunsOnce'
  <2>1. ASSUME NEW v \in Workers, NEW n \in 1 .. Len(delivered'[v])
        PROVE  runs[accepted[v][n]] =
                 IF n = Len(delivered'[v]) /\ pc'[v] \in {"taken", "doing"} THEN 0 ELSE 1
    <3>1. CASE v # w
      BY <1>4, <2>1, <3>1 DEF RunsOnce
    <3>2. CASE v = w /\ n = d + 1
      BY <1>4, <1>8, <3>2 DEF t
    <3>3. CASE v = w /\ n # d + 1
      <4>1. n \in 1 .. d /\ pc[w] \notin {"taken", "doing"}
        BY <1>2, <1>3, <1>4, <3>3
      <4> QED BY <1>3, <1>4, <3>3, <4>1 DEF RunsOnce
    <3> QED BY <3>1, <3>2, <3>3
  <2>2. ASSUME NEW u \in Tasks, runs[u] # 0
        PROVE  \E v \in Workers : \E n \in 1 .. Len(delivered'[v]) : accepted[v][n] = u
    <3>1. PICK v \in Workers : \E n \in 1 .. Len(delivered[v]) : accepted[v][n] = u
      BY <2>2 DEF RunsOnce
    <3>2. Len(delivered[v]) <= Len(delivered'[v]) /\ Len(delivered[v]) \in Nat
            /\ Len(delivered'[v]) \in Nat
      BY <1>3, <1>4, QueueTypes
    <3> QED BY <3>1, <3>2
  <2> QED BY <1>1, <2>1, <2>2 DEF RunsOnce
<1>10. open[w] = TRUE
  BY <1>2 DEF Leftover, TypeInv, TypeOK, MailTypes
<1>11. Leftover'
  <2>1. ASSUME NEW v \in Workers
        PROVE  pc'[v] \in {"report", "exited"} <=> pc[v] \in {"report", "exited"}
    BY <1>2, <1>4
  <2>2. \A v \in Workers : ~open[v] => delivered'[v] = delivered[v]
    BY <1>4, <1>10
  <2> QED BY <1>1, <2>1, <2>2, Zenon DEF Leftover, Back
<1>12. \A u \in Tasks : GivenBack(u) => GivenBack(u)'
  BY <1>1, <1>4, <1>10 DEF GivenBack, Back
<1>13. Answers'
  BY <1>1, <1>12 DEF Answers
<1> QED BY <1>5, <1>6, <1>7, <1>9, <1>11, <1>13

LEMMA EndDoFateInv == ASSUME TypeInv, FateInv, NEW w \in Workers, EndDo(w) PROVE FateInv'
<1> USE DEF FateInv
<1> DEFINE d == Len(delivered[w])
           t == accepted[w][d]
<1>1. UNCHANGED <<home, client, answer, closed, accepted, delivered, open, cur,
                  unprocessed>>
  BY DEF EndDo, poolVars, mailVars
<1>2. /\ pc[w] = "doing" /\ pc' = [pc EXCEPT ![w] = "did"]
      /\ runs' = [runs EXCEPT ![cur[w]] = @ + 1]
  BY DEF EndDo
<1>3. d \in 1 .. Len(accepted[w]) /\ d \in 1 .. d /\ t \in Tasks /\ cur[w] = t
  BY <1>2, QueueTypes DEF InHand, Busy, Delivery
<1>4. runs[t] = 0
  BY <1>2, <1>3 DEF RunsOnce
<1>5. /\ runs'[t] = 1 /\ \A u \in Tasks : u # t => runs'[u] = runs[u]
      /\ pc'[w] = "did" /\ \A v \in Workers : v # w => pc'[v] = pc[v]
  BY <1>2, <1>3, <1>4 DEF TypeInv, TypeOK, WorkerTypes
<1> HIDE DEF t
<1>6. InMail' /\ Delivery'
  BY <1>1 DEF InMail, Delivery
<1>7. InHand'
  BY <1>1, <1>2, <1>5 DEF InHand, Busy
<1>8. RunsOnce'
  <2>1. ASSUME NEW v \in Workers, NEW n \in 1 .. Len(delivered[v])
        PROVE  runs'[accepted[v][n]] =
                 IF n = Len(delivered[v]) /\ pc'[v] \in {"taken", "doing"} THEN 0 ELSE 1
    <3>1. n \in 1 .. Len(accepted[v]) /\ accepted[v][n] \in Tasks
      BY QueueTypes DEF Delivery
    <3>2. CASE v = w /\ n = d
      BY <1>5, <3>2 DEF t
    <3>3. CASE v = w /\ n # d
      <4>1. accepted[v][n] # t
        BY <1>3, <3>1, <3>3, SamePlace DEF t
      <4> QED BY <1>5, <3>1, <3>3, <4>1 DEF RunsOnce
    <3>4. CASE v # w
      <4>1. accepted[v][n] # t
        BY <1>3, <3>1, <3>4, SamePlace DEF t
      <4> QED BY <1>5, <3>1, <3>4, <4>1 DEF RunsOnce
    <3> QED BY <3>2, <3>3, <3>4
  <2>2. ASSUME NEW u \in Tasks, runs'[u] # 0
        PROVE  \E v \in Workers : \E n \in 1 .. Len(delivered[v]) : accepted[v][n] = u
    <3>1. CASE u = t
      BY <1>3, <3>1 DEF t
    <3>2. CASE u # t
      BY <1>5, <2>2, <3>2 DEF RunsOnce
    <3> QED BY <3>1, <3>2
  <2> QED BY <1>1, <2>1, <2>2 DEF RunsOnce
<1>9. Leftover'
  <2>1. \A v \in Workers : pc'[v] \in {"report", "exited"} <=> pc[v] \in {"report", "exited"}
    BY <1>2, <1>5
  <2> QED BY <1>1, <2>1, Zenon DEF Leftover, Back
<1>10. Answers'
  <2>1. \A u \in Tasks : runs[u] = 1 => runs'[u] = 1
    BY <1>4, <1>5
  <2> QED BY <1>1, <2>1 DEF Answers, GivenBack, Back
<1> QED BY <1>6, <1>7, <1>8, <1>9, <1>10

LEMMA CloseFateInv ==
  ASSUME TypeInv, FateInv, NEW w \in Workers, CloseFinished(w) PROVE FateInv'
<1> USE DEF FateInv
<1>1. UNCHANGED <<home, client, answer, accepted, delivered, open, unprocessed, runs>>
  BY DEF CloseFinished, poolVars, mailVars
<1>2. /\ pc[w] = "settled" /\ pc' = [pc EXCEPT ![w] = "check"]
      /\ cur' = [cur EXCEPT ![w] = NoTask] /\ closed' = closed \cup {cur[w]}
  BY DEF CloseFinished
<1>3. /\ pc'[w] = "check" /\ cur'[w] = NoTask
      /\ \A v \in Workers : v # w => pc'[v] = pc[v] /\ cur'[v] = cur[v]
  BY <1>2 DEF TypeInv, TypeOK, WorkerTypes
<1>4. InMail' /\ Delivery'
  BY <1>1 DEF InMail, Delivery
<1>5. InHand'
  BY <1>1, <1>3 DEF InHand, Busy
<1>6. \A v \in Workers :
        /\ pc'[v] \in {"taken", "doing"} <=> pc[v] \in {"taken", "doing"}
        /\ pc'[v] \in {"report", "exited"} <=> pc[v] \in {"report", "exited"}
  BY <1>2, <1>3
<1>7. RunsOnce'
  BY <1>1, <1>6 DEF RunsOnce
<1>8. Leftover'
  BY <1>1, <1>6, Zenon DEF Leftover, Back
<1>9. runs[cur[w]] = 1
  <2>1. Len(delivered[w]) \in 1 .. Len(delivered[w]) /\ cur[w] = accepted[w][Len(delivered[w])]
    BY <1>2, QueueTypes DEF InHand, Busy
  <2> QED BY <1>2, <2>1 DEF RunsOnce
<1>10. Answers'
  BY <1>1, <1>2, <1>9 DEF Answers, GivenBack, Back
<1> QED BY <1>4, <1>5, <1>7, <1>8, <1>10

LEMMA FinalizeFateInv ==
  ASSUME TypeInv, FateInv, NEW w \in Workers, Finalize(w) PROVE FateInv'
<1> USE DEF FateInv
<1> DEFINE d == Len(delivered[w])
           a == Len(accepted[w])
           rest == SubSeq(accepted[w], d + 1, a)
<1>1. UNCHANGED <<home, client, answer, closed, accepted, delivered, cur, runs>>
  BY DEF Finalize, poolVars
<1>2. /\ pc[w] = "stop" /\ pc' = [pc EXCEPT ![w] = "report"]
      /\ open' = [open EXCEPT ![w] = FALSE]
      /\ unprocessed' = [unprocessed EXCEPT ![w] = rest]
  BY DEF Finalize
<1>3. /\ pc'[w] = "report" /\ open'[w] = FALSE /\ unprocessed'[w] = rest
      /\ \A v \in Workers : v # w => /\ pc'[v] = pc[v] /\ open'[v] = open[v]
                                     /\ unprocessed'[v] = unprocessed[v]
  BY <1>2 DEF TypeInv, TypeOK, MailTypes, WorkerTypes
<1>4. d \in Nat /\ a \in Nat /\ d <= a
  BY QueueTypes DEF Delivery
<1>5. Len(rest) = a - d /\ \A n \in 1 .. a - d : rest[n] = accepted[w][d + n]
  <2> HIDE DEF d, a, rest
  <2>1. accepted[w] \in Seq(Tasks)
    BY DEF TypeInv, TypeOK, MailTypes
  <2>2. \A n \in d + 1 .. a : accepted[w][n] \in Tasks
    BY <1>4, QueueTypes DEF a
  <2>3. rest = SubSeq(accepted[w], d + 1, a) /\ d + 1 \in Int /\ a \in Int
    BY <1>4 DEF rest
  <2>4. /\ Len(rest) = IF d + 1 <= a THEN a - (d + 1) + 1 ELSE 0
        /\ \A n \in 1 .. a - (d + 1) + 1 : rest[n] = accepted[w][d + 1 + n - 1]
    BY <2>1, <2>2, <2>3, SubSeqProperties
  <2>5. a - (d + 1) + 1 = a - d /\ \A n \in Nat : d + 1 + n - 1 = d + n
    BY <1>4
  <2>6. Len(rest) = a - d
    BY <1>4, <2>4, <2>5
  <2>7. \A n \in 1 .. a - d : n \in Nat /\ rest[n] = accepted[w][d + n]
    BY <2>4, <2>5
  <2> QED BY <2>6, <2>7
<1> HIDE DEF rest
<1>6. InMail' /\ Delivery'
  BY <1>1 DEF InMail, Delivery
<1>7. InHand'
  BY <1>1, <1>2, <1>3 DEF InHand, Busy
<1>8. RunsOnce'
  <2>1. \A v \in Workers : pc'[v] \in {"taken", "doing"} <=> pc[v] \in {"taken", "doing"}
    BY <1>2, <1>3
  <2> QED BY <1>1, <2>1 DEF RunsOnce
<1>9. Leftover'
  <2>1. ASSUME NEW v \in Workers
        PROVE  open'[v] <=> pc'[v] \notin {"report", "exited"}
    <3>1. CASE v = w
      BY <1>3, <3>1
    <3>2. CASE v # w
      BY <1>3, <3>2 DEF Leftover
    <3> QED BY <3>1, <3>2
  <2>2. ASSUME NEW v \in Workers, ~open'[v]
        PROVE  /\ Len(delivered[v]) <= Back(v)'
               /\ \A n \in 1 .. Len(unprocessed'[v]) :
                    unprocessed'[v][n] = accepted[v][Back(v)' + n]
    <3>1. CASE v = w
      <4>1. Back(w)' = d
        <5> HIDE DEF d, a
        <5>1. Back(w)' = a - (a - d)
          BY <1>1, <1>3, <1>5 DEF Back, a
        <5> QED BY <1>4, <5>1
      <4> QED BY <1>3, <1>4, <1>5, <3>1, <4>1
    <3>2. CASE v # w
      <4>1. Back(v)' = Back(v) /\ ~open[v]
        BY <1>1, <1>3, <2>2, <3>2 DEF Back
      <4> QED BY <1>1, <1>3, <3>2, <4>1 DEF Leftover
    <3> QED BY <3>1, <3>2
  <2> QED BY <1>1, <2>1, <2>2 DEF Leftover
<1>10. open[w] = TRUE
  BY <1>2 DEF Leftover, TypeInv, TypeOK, MailTypes
<1>11. \A u \in Tasks : GivenBack(u) => GivenBack(u)'
  BY <1>1, <1>3, <1>10 DEF GivenBack, Back
<1>12. Answers'
  BY <1>1, <1>11 DEF Answers
<1> QED BY <1>6, <1>7, <1>8, <1>9, <1>12

LEMMA ReportFateInv ==
  ASSUME TypeInv, FateInv, NEW w \in Workers, Report(w) PROVE FateInv'
<1> USE DEF FateInv
<1> DEFINE d == Len(delivered[w])
           a == Len(accepted[w])
           r == Len(unprocessed[w])
           b == Back(w)
<1>1. UNCHANGED <<home, accepted, delivered, open, pc, cur, runs>>
  BY DEF Report, poolVars, mailVars
<1>2. unprocessed[w] \in Seq(Tasks) /\ unprocessed \in [Workers -> Seq(Tasks)]
        /\ unprocessed[w] # <<>> /\ pc[w] = "report"
  BY DEF Report, TypeInv, TypeOK, WorkerTypes
<1>3. PICK t \in Tasks : t = Head(unprocessed[w])
  BY <1>2, HeadTailProperties
<1>4. /\ client[t] = "receiving"
      /\ client' = [client EXCEPT ![t] = "answered"]
      /\ answer' = [answer EXCEPT ![t] = "ErrUnprocessed"]
      /\ closed' = closed \cup {t}
      /\ unprocessed' = [unprocessed EXCEPT ![w] = Tail(@)]
  BY <1>3 DEF Report
<1>5. /\ t = unprocessed[w][1] /\ r >= 1
      /\ Len(Tail(unprocessed[w])) = r - 1
      /\ \A n \in 1 .. r - 1 : Tail(unprocessed[w])[n] = unprocessed[w][n + 1]
  BY <1>2, <1>3, HeadTailProperties, LenProperties, EmptySeq
<1>6. ~open[w]
  BY <1>2 DEF Leftover
<1>7. t = accepted[w][b + 1] /\ d <= b
  <2>1. 1 \in 1 .. r
    BY <1>5, QueueTypes
  <2> QED BY <1>5, <1>6, <2>1 DEF Leftover
<1>8. d \in Nat /\ b \in Int /\ r \in Nat
  BY QueueTypes DEF Back
<1>9. /\ client'[t] = "answered" /\ answer'[t] = "ErrUnprocessed"
      /\ \A u \in Tasks : u # t => client'[u] = client[u] /\ answer'[u] = answer[u]
      /\ Len(unprocessed'[w]) = r - 1
      /\ \A n \in 1 .. r - 1 : unprocessed'[w][n] = unprocessed[w][n + 1]
      /\ \A v \in Workers : v # w => unprocessed'[v] = unprocessed[v]
  BY <1>2, <1>4, <1>5 DEF TypeInv, TypeOK, ClientTypes
<1>10. Back(w)' = b + 1
  <2>1. Back(w)' = a - (r - 1) /\ b = a - r /\ a \in Nat
    BY <1>1, <1>9, QueueTypes DEF Back
  <2> HIDE DEF a, b, r
  <2> QED BY <1>8, <2>1
<1>11. \A v \in Workers : v # w => Back(v)' = Back(v)
  BY <1>1, <1>9 DEF Back
<1>12. b + 1 \in d + 1 .. b + 1 /\ d <= b + 1
  <2> HIDE DEF b, d
  <2> QED BY <1>7, <1>8
<1>13. InMail'
  BY <1>1, <1>9, QueueTypes DEF InMail, NotSent
<1>14. Delivery' /\ InHand'
  BY <1>1 DEF Delivery, InHand
<1>15. RunsOnce'
  BY <1>1 DEF RunsOnce
<1>16. Leftover'
  <2>1. \A v \in Workers : open'[v] <=> pc'[v] \notin {"report", "exited"}
    BY <1>1, Zenon DEF Leftover
  <2>2. ASSUME NEW v \in Workers, ~open[v]
        PROVE  /\ Len(delivered[v]) <= Back(v)'
               /\ \A n \in 1 .. Len(unprocessed'[v]) :
                    unprocessed'[v][n] = accepted[v][Back(v)' + n]
    <3>1. CASE v = w
      <4>1. ASSUME NEW n \in 1 .. r - 1
            PROVE  unprocessed'[w][n] = accepted[w][b + 1 + n]
        <5>1. n + 1 \in 1 .. r /\ b + 1 + n = b + (n + 1)
          <6> HIDE DEF b, r
          <6> QED BY <1>8
        <5> QED BY <1>6, <1>9, <5>1 DEF Leftover
      <4> QED BY <1>9, <1>10, <1>12, <3>1, <4>1
    <3>2. CASE v # w
      BY <1>9, <1>11, <2>2, <3>2 DEF Leftover
    <3> QED BY <3>1, <3>2
  <2>3. \A v \in Workers : ~open'[v] => ~open[v]
    BY <1>1
  <2> QED BY <1>1, <2>1, <2>2, <2>3 DEF Leftover
<1>17. \A u \in Tasks : GivenBack(u) => GivenBack(u)'
  <2> SUFFICES ASSUME NEW u \in Tasks, GivenBack(u) PROVE GivenBack(u)'
    OBVIOUS
  <2>1. PICK v \in Workers :
          ~open[v] /\ \E n \in (Len(delivered[v]) + 1) .. Back(v) : accepted[v][n] = u
    BY DEF GivenBack
  <2>2. PICK n \in (Len(delivered[v]) + 1) .. Back(v) : accepted[v][n] = u
    BY <2>1
  <2>3. n \in (Len(delivered[v]) + 1) .. Back(v)'
    <3>1. CASE v # w
      BY <1>11, <3>1
    <3>2. CASE v = w
      <4>1. n \in d + 1 .. b + 1
        <5>1. n \in d + 1 .. b
          BY <3>2
        <5> HIDE DEF b, d
        <5> QED BY <1>8, <5>1
      <4> QED BY <1>10, <3>2, <4>1
    <3> QED BY <3>1, <3>2
  <2> QED BY <1>1, <2>1, <2>2, <2>3 DEF GivenBack
<1>18. GivenBack(t)'
  <2>1. PICK n : n = b + 1
    OBVIOUS
  <2>2. n \in (Len(delivered[w]) + 1) .. Back(w)' /\ accepted[w][n] = t
    BY <1>7, <1>10, <1>12, <2>1
  <2> QED BY <1>1, <1>6, <2>2 DEF GivenBack
<1>19. Answers'
  <2>1. ASSUME NEW u \in Tasks, u # t
        PROVE  /\ client'[u] = client[u] /\ answer'[u] = answer[u]
               /\ u \in closed' => u \in closed
    BY <1>4, <1>9, <2>1
  <2>2. GivenBack(t)' /\ client'[t] = "answered" /\ answer'[t] = "ErrUnprocessed"
    BY <1>9, <1>18
  <2> QED BY <1>1, <1>17, <2>1, <2>2 DEF Answers
<1> QED BY <1>13, <1>14, <1>15, <1>16, <1>19

LEMMA StepFateInv == TypeInv /\ FateInv /\ [Next]_vars => FateInv'
<1> SUFFICES ASSUME TypeInv, FateInv, [Next]_vars PROVE FateInv'
  OBVIOUS
<1>1. CASE Cancel \/ UNCHANGED vars
  <2>1. UNCHANGED queueVars /\ UNCHANGED <<home, client, answer>>
    BY <1>1 DEF Cancel, vars, queueVars, clientVars, mailVars, workerVars
  <2>2. InMail' /\ Answers'
    BY <2>1 DEF FateInv, InMail, Answers, GivenBack, Back, queueVars
  <2> QED BY <2>1, <2>2, QueueFrame DEF FateInv, queueVars
<1>2. ASSUME NEW t \in Tasks, ClientStep(t) PROVE FateInv'
  BY <1>2, MoveFateInv, SubmitFateInv, SendFateInv, ReceiveNilFateInv
     DEF ClientStep, InCallStep
<1>3. ASSUME NEW w \in Workers, WorkerStep(w) PROVE FateInv'
  BY <1>3, StepOnFateInv, TakeFateInv, EndDoFateInv, CloseFateInv, FinalizeFateInv,
     ReportFateInv DEF WorkerStep
<1> QED BY <1>1, <1>2, <1>3 DEF Next, Rest

LEMMA FateInvariance == Spec => []FateInv
BY InitFateInv, TypeInvariance, StepFateInv, PTL DEF Spec

-------------------------------------------------------------------------------
LEMMA FateDecided == TypeInv /\ FateInv => AnswerTellsTheFate
<1> SUFFICES ASSUME TypeInv, FateInv, NEW t \in Tasks
             PROVE  /\ runs[t] <= 1
                    /\ answer[t] = "nil" /\ t \notin Faulty => runs[t] = 1
                    /\ answer[t] # "none" /\ answer[t] # "nil" =>
                         /\ runs[t] = 0
                         /\ \A w \in Workers : cur[w] # t
  BY DEF AnswerTellsTheFate
<1> USE DEF FateInv
<1> DEFINE d(w) == Len(delivered[w])
<1>1. \A w \in Workers : d(w) \in Nat /\ Len(accepted[w]) \in Nat /\ d(w) <= Len(accepted[w])
  BY QueueTypes DEF Delivery
<1>2. runs[t] \in {0, 1}
  BY DEF RunsOnce
<1>3. answer[t] = "nil" => runs[t] = 1
  BY DEF Answers
<1>4. ASSUME \A w \in Workers : \A n \in 1 .. d(w) : accepted[w][n] # t
      PROVE  runs[t] = 0 /\ \A w \in Workers : cur[w] # t
  <2>1. runs[t] = 0
    BY <1>4 DEF RunsOnce
  <2>2. ASSUME NEW w \in Workers PROVE cur[w] # t
    <3>1. CASE pc[w] \in Busy
      <4>1. d(w) \in 1 .. d(w) /\ cur[w] = accepted[w][d(w)]
        BY <1>1, <3>1 DEF InHand
      <4> QED BY <1>4, <4>1
    <3>2. CASE pc[w] \notin Busy
      BY <3>2, PoolAssumption DEF InHand
    <3> QED BY <3>1, <3>2
  <2> QED BY <2>1, <2>2
<1>5. ASSUME answer[t] # "none", answer[t] # "nil"
      PROVE  \A w \in Workers : \A n \in 1 .. d(w) : accepted[w][n] # t
  <2> SUFFICES ASSUME NEW w \in Workers, NEW n \in 1 .. d(w), accepted[w][n] = t PROVE FALSE
    OBVIOUS
  <2>1. n \in 1 .. Len(accepted[w])
    BY <1>1
  <2>2. CASE answer[t] = "ErrUnprocessed"
    <3>1. PICK v \in Workers :
            ~open[v] /\ \E m \in (Len(delivered[v]) + 1) .. Back(v) : accepted[v][m] = t
      BY <2>2 DEF Answers, GivenBack
    <3>2. PICK m \in (Len(delivered[v]) + 1) .. Back(v) : accepted[v][m] = t
      BY <3>1
    <3>3. Back(v) <= Len(accepted[v]) /\ Back(v) \in Int
      <4> DEFINE a == Len(accepted[v])
                 u == Len(unprocessed[v])
      <4>1. a \in Nat /\ u \in Nat /\ Back(v) = a - u
        BY QueueTypes DEF Back
      <4> HIDE DEF a, u
      <4>2. Back(v) <= a /\ Back(v) \in Int
        BY <4>1
      <4> QED BY <4>2 DEF a
    <3>4. m \in 1 .. Len(accepted[v]) /\ m > d(v)
      BY <1>1, <3>3
    <3>5. v = w /\ m = n
      BY <2>1, <3>2, <3>4, SamePlace
    <3> QED BY <1>1, <3>4, <3>5
  <2>3. CASE answer[t] # "ErrUnprocessed"
    <3>1. home[t] = 0
      BY <1>5, <2>3 DEF Answers, TypeInv, TypeOK, ClientTypes
    <3> QED BY <2>1, <3>1 DEF InMail, Workers
  <2> QED BY <2>2, <2>3
<1> QED BY <1>2, <1>3, <1>4, <1>5

(* The answer on the finished channel tells the task's fate, once and for   *)
(* all: nil that Do() was executed, once, an error that it was never        *)
(* started, and never will be (pool.go:166, 180, 197-201).  Nothing is said *)
(* of the answer for a task whose Do() panics (pool.go:292).                *)
THEOREM AnswersAreTrue == Spec => []AnswerTellsTheFate
BY TypeInvariance, FateInvariance, FateDecided, PTL

-------------------------------------------------------------------------------
MailboxStep(w) == Mailbox(w)!MailboxNext \/ UNCHANGED Mailbox(w)!mailboxVars

LEMMA StepMailbox ==
  ASSUME TypeInv, FateInv, [Next]_vars, NEW w \in Workers
  PROVE  MailboxStep(w)
<1> USE DEF MailboxStep, Mailbox!mailboxVars
<1>1. CASE UNCHANGED vars \/ Cancel
  BY <1>1 DEF vars, Cancel, mailVars
<1>2. ASSUME NEW t \in Tasks, ClientStep(t) PROVE MailboxStep(w)
  <2>1. CASE Send(t) /\ home[t] = w /\ open[w]
    <3>1. accepted'[w] = Append(accepted[w], t) /\ UNCHANGED <<delivered, open>>
      BY <2>1 DEF Send, TypeInv, TypeOK, MailTypes
    <3>2. Mailbox(w)!Accept(t)
      BY <2>1, <3>1 DEF Mailbox!Accept
    <3> QED BY <3>2 DEF Mailbox!MailboxNext
  <2>2. CASE Send(t) /\ ~(home[t] = w /\ open[w])
    <3>1. accepted'[w] = accepted[w] /\ UNCHANGED <<delivered, open>>
      BY <2>2 DEF Send, TypeInv, TypeOK, MailTypes
    <3> QED BY <3>1
  <2>3. CASE ~Send(t)
    BY <1>2, <2>3 DEF ClientStep, InCallStep, Submit, AddEta, DeleteMin, ReadKey, Descend,
                      Insert, Receive, ReceiveNil, mailVars
  <2> QED BY <2>1, <2>2, <2>3
<1>3. ASSUME NEW v \in Workers, WorkerStep(v) PROVE MailboxStep(w)
  <2>1. CASE v = w /\ Take(w)
    <3>1. delivered'[w] = Append(delivered[w], accepted[w][Len(delivered[w]) + 1])
            /\ UNCHANGED <<accepted, open>>
      BY <2>1 DEF Take, TypeInv, TypeOK, MailTypes
    <3>2. open[w] = TRUE /\ Len(delivered[w]) < Len(accepted[w])
      BY <2>1 DEF Take, FateInv, Leftover, TypeInv, TypeOK, MailTypes
    <3>3. Mailbox(w)!Deliver
      BY <3>1, <3>2 DEF Mailbox!Deliver
    <3> QED BY <3>3 DEF Mailbox!MailboxNext
  <2>2. CASE v = w /\ Finalize(w)
    <3>1. open'[w] = FALSE /\ open[w] = TRUE /\ UNCHANGED <<accepted, delivered>>
      BY <2>2 DEF Finalize, FateInv, Leftover, TypeInv, TypeOK, MailTypes
    <3>2. Mailbox(w)!Shut
      BY <3>1 DEF Mailbox!Shut
    <3> QED BY <3>2 DEF Mailbox!MailboxNext
  <2>3. CASE v # w
    BY <1>3, <2>3 DEF WorkerStep, LookAtContext, NoticeCancel, Take, Start, EndDo, Settle,
         CloseFinished, Finalize, Report, Exit, mailVars, TypeInv, TypeOK, MailTypes
  <2>4. CASE ~Take(v) /\ ~Finalize(v)
    BY <1>3, <2>4 DEF WorkerStep, LookAtContext, NoticeCancel, Start, EndDo, Settle,
         CloseFinished, Report, Exit, mailVars
  <2> QED BY <2>1, <2>2, <2>3, <2>4
<1> QED BY <1>1, <1>2, <1>3 DEF Next, Rest

(* Each worker's queue is used as FifoMailbox allows.                       *)
THEOREM MailboxesImplementFifo == Spec => MailboxesAreFifo
<1>1. Init => \A w \in Workers : Mailbox(w)!MailboxInit
  BY DEF Init, Mailbox!MailboxInit
<1>2. TypeInv /\ FateInv /\ [Next]_vars =>
        [\A w \in Workers : Mailbox(w)!MailboxNext \/ UNCHANGED Mailbox(w)!mailboxVars]_vars
  BY StepMailbox DEF MailboxStep
<1> QED BY <1>1, <1>2, TypeInvariance, FateInvariance, PTL DEF Spec, MailboxesAreFifo

-------------------------------------------------------------------------------
(* The workers in the tree: none is there twice, and missing is the one     *)
(* that a client puts back.                                                 *)
In(w, s) == \E n \in 1 .. Len(s) : s[n] = w

OnePlace ==
  /\ \A m, n \in 1 .. Len(tree) : tree[m] = tree[n] => m = n
  /\ \A w \in Workers :
       In(w, tree) <=> \A t \in Tasks : client[t] = "inserting" => home[t] # w

(* A sequence with one more element in it *)
With(s, k, x) == SubSeq(s, 1, k) \o <<x>> \o SubSeq(s, k + 1, Len(s))

LEMMA WithProperties ==
  ASSUME NEW S, NEW s \in Seq(S), NEW x \in S, NEW k \in 0 .. Len(s)
  PROVE  /\ Len(With(s, k, x)) = Len(s) + 1
         /\ With(s, k, x)[k + 1] = x
         /\ \A n \in 1 .. k : With(s, k, x)[n] = s[n]
         /\ \A n \in k + 2 .. Len(s) + 1 : With(s, k, x)[n] = s[n - 1]
<1> DEFINE l == Len(s)
           f == SubSeq(s, 1, k)
           b == SubSeq(s, k + 1, l)
           g == f \o <<x>>
           r == With(s, k, x)
<1>1. l \in Nat /\ k \in Nat /\ k <= l
  BY LenProperties
<1>2. \A n \in 1 .. l : s[n] \in S
  BY ElementOfSeq
<1>3. f \in Seq(S) /\ Len(f) = k /\ \A n \in 1 .. k : f[n] = s[n]
  <2> HIDE DEF l
  <2>1. \A n \in 1 .. k : s[n] \in S
    BY <1>1, <1>2
  <2>2. /\ f \in Seq(S) /\ Len(f) = IF 1 <= k THEN k - 1 + 1 ELSE 0
        /\ \A n \in 1 .. k - 1 + 1 : f[n] = s[1 + n - 1]
    BY <1>1, <2>1, SubSeqProperties
  <2>3. k - 1 + 1 = k /\ \A n \in 1 .. k : 1 + n - 1 = n
    BY <1>1
  <2> QED BY <1>1, <2>2, <2>3
<1>4. b \in Seq(S) /\ Len(b) = l - k /\ \A n \in 1 .. l - k : b[n] = s[k + n]
  <2> HIDE DEF l
  <2>1. \A n \in k + 1 .. l : s[n] \in S
    BY <1>1, <1>2
  <2>2. /\ b \in Seq(S) /\ Len(b) = IF k + 1 <= l THEN l - (k + 1) + 1 ELSE 0
        /\ \A n \in 1 .. l - (k + 1) + 1 : b[n] = s[k + 1 + n - 1]
    BY <1>1, <2>1, SubSeqProperties
  <2>3. l - (k + 1) + 1 = l - k /\ \A n \in Nat : k + 1 + n - 1 = k + n
    BY <1>1
  <2>4. Len(b) = l - k
    BY <1>1, <2>2, <2>3
  <2>5. \A n \in 1 .. l - k : n \in Nat /\ b[n] = s[k + n]
    BY <2>2, <2>3
  <2> QED BY <2>2, <2>4, <2>5
<1> HIDE DEF l, f, b
<1>5. /\ g \in Seq(S) /\ Len(g) = k + 1 /\ g[k + 1] = x
      /\ \A n \in 1 .. k : g[n] = s[n]
  <2>1. <<x>> \in Seq(S) /\ Len(<<x>>) = 1 /\ <<x>>[1] = x
    OBVIOUS
  <2>2. /\ g \in Seq(S) /\ Len(g) = Len(f) + Len(<<x>>)
        /\ \A n \in 1 .. Len(f) + Len(<<x>>) :
             g[n] = IF n <= Len(f) THEN f[n] ELSE <<x>>[n - Len(f)]
    BY <1>3, <2>1, ConcatProperties
  <2> HIDE DEF g
  <2>3. k + 1 \in 1 .. k + 1 /\ (k + 1) - k = 1 /\ ~(k + 1 <= k)
          /\ \A n \in 1 .. k : n \in 1 .. k + 1 /\ n <= k
    BY <1>1
  <2> QED BY <1>3, <2>1, <2>2, <2>3
<1> HIDE DEF g
<1>6. /\ Len(r) = k + 1 + (l - k)
      /\ \A n \in 1 .. k + 1 + (l - k) :
           r[n] = IF n <= k + 1 THEN g[n] ELSE b[n - (k + 1)]
  <2>1. /\ Len(g \o b) = Len(g) + Len(b)
        /\ \A n \in 1 .. Len(g) + Len(b) :
             (g \o b)[n] = IF n <= Len(g) THEN g[n] ELSE b[n - Len(g)]
    BY <1>4, <1>5, ConcatProperties
  <2>2. r = g \o b
    BY DEF g, f, b, l, With
  <2> HIDE DEF r
  <2> QED BY <1>4, <1>5, <2>1, <2>2
<1> HIDE DEF r
<1>7. k + 1 + (l - k) = l + 1
  BY <1>1
<1>8. /\ Len(r) = l + 1
      /\ \A n \in 1 .. l + 1 : r[n] = IF n <= k + 1 THEN g[n] ELSE b[n - (k + 1)]
  BY <1>6, <1>7
<1>9. k + 1 \in 1 .. l + 1 /\ k + 1 <= k + 1
        /\ \A n \in 1 .. k : n \in 1 .. l + 1 /\ n <= k + 1
  BY <1>1
<1>10. \A n \in k + 2 .. l + 1 :
          /\ n \in 1 .. l + 1 /\ ~(n <= k + 1)
          /\ n - (k + 1) \in 1 .. l - k /\ k + (n - (k + 1)) = n - 1
  BY <1>1
<1>11. r[k + 1] = x
  BY <1>5, <1>8, <1>9
<1>12. \A n \in 1 .. k : r[n] = s[n]
  BY <1>5, <1>8, <1>9
<1>13. \A n \in k + 2 .. l + 1 : r[n] = s[n - 1]
  BY <1>4, <1>8, <1>10
<1> QED BY <1>8, <1>11, <1>12, <1>13 DEF l, r

LEMMA InitOnePlace == Init => OnePlace
<1> SUFFICES ASSUME Init PROVE OnePlace
  OBVIOUS
<1>1. tree = [n \in 1 .. WorkerCount |-> n] /\ Len(tree) = WorkerCount
  <2>1. tree \in Seq(Workers)
    BY InitTypeInv DEF TypeInv, TypeOK, PoolTypes
  <2> QED BY <2>1, PoolAssumption, LenProperties DEF Init, Workers
<1> QED BY <1>1 DEF Init, OnePlace, In, Workers

LEMMA InsertedTree ==
  ASSUME TypeInv, NEW t \in Tasks, Insert(t)
  PROVE  /\ gap.lo \in 0 .. Len(tree) /\ Len(tree) \in Nat /\ home[t] \in Workers
         /\ Len(tree') = Len(tree) + 1
         /\ tree'[gap.lo + 1] = home[t]
         /\ \A n \in 1 .. gap.lo : tree'[n] = tree[n]
         /\ \A n \in gap.lo + 2 .. Len(tree) + 1 : tree'[n] = tree[n - 1]
<1>1. /\ tree \in Seq(Workers) /\ home[t] \in Workers /\ Len(tree) \in Nat
      /\ gap.lo \in 0 .. Len(tree) /\ gap.hi = gap.lo + 1
  BY LenProperties DEF Insert, TypeInv, TypeOK, PoolTypes, GapInTree
<1>2. PICK s \in Seq(Workers), k \in Nat, h \in Workers :
          k \in 0 .. Len(s) /\ s = tree /\ k = gap.lo /\ h = home[t]
  BY <1>1
<1>3. tree' = With(s, k, h)
  BY <1>1, <1>2 DEF Insert, With
<1>4. /\ Len(With(s, k, h)) = Len(s) + 1
      /\ With(s, k, h)[k + 1] = h
      /\ \A n \in 1 .. k : With(s, k, h)[n] = s[n]
      /\ \A n \in k + 2 .. Len(s) + 1 : With(s, k, h)[n] = s[n - 1]
  BY <1>2, WithProperties
<1>5. /\ Len(tree') = Len(s) + 1
      /\ tree'[k + 1] = h
      /\ \A n \in 1 .. k : tree'[n] = s[n]
      /\ \A n \in k + 2 .. Len(s) + 1 : tree'[n] = s[n - 1]
  BY <1>3, <1>4, Zenon
<1> QED BY <1>1, <1>2, <1>5

LEMMA StepOnePlace == TypeInv /\ OnePlace /\ [Next]_vars => OnePlace'
<1> SUFFICES ASSUME TypeInv, OnePlace, [Next]_vars PROVE OnePlace'
  OBVIOUS
<1>1. ASSUME NEW t \in Tasks, DeleteMin(t) PROVE OnePlace'
  <2>1. /\ tree \in Seq(Workers) /\ tree # <<>> /\ home[t] = tree[1] /\ client[t] = "sent"
        /\ tree' = Tail(tree) /\ client' = [client EXCEPT ![t] = "inserting"]
        /\ UNCHANGED home
        /\ client \in [Tasks -> {"idle", "returned", "receiving", "answered"} \cup InCall]
    BY <1>1 DEF DeleteMin, TypeInv, TypeOK, PoolTypes, ClientTypes, LeftmostInHand
  <2>2. /\ Len(tree) \in Nat /\ Len(tree) >= 1 /\ Len(tree') = Len(tree) - 1
        /\ \A n \in 1 .. Len(tree') : tree'[n] = tree[n + 1]
    BY <2>1, HeadTailProperties, LenProperties, EmptySeq
  <2> DEFINE l == Len(tree')
  <2>3. l \in Nat /\ Len(tree) = l + 1
    BY <2>2
  <2> HIDE DEF l
  <2>4. \A n \in 1 .. l : n + 1 \in 1 .. Len(tree) /\ n + 1 # 1
    BY <2>3
  <2>5. \A n \in 1 .. Len(tree) : n # 1 => \E m \in 1 .. l : n = m + 1
    <3> SUFFICES ASSUME NEW n \in 1 .. Len(tree), n # 1 PROVE n - 1 \in 1 .. l /\ n = (n - 1) + 1
      OBVIOUS
    <3> QED BY <2>3
  <2>6. \A m, n \in 1 .. l : tree'[m] = tree'[n] => m = n
    <3> SUFFICES ASSUME NEW m \in 1 .. l, NEW n \in 1 .. l, tree'[m] = tree'[n] PROVE m = n
      OBVIOUS
    <3>1. tree[m + 1] = tree[n + 1]
      BY <2>2 DEF l
    <3>2. m + 1 = n + 1
      BY <2>4, <3>1 DEF OnePlace
    <3> QED BY <3>2
  <2>7. \A u \in Tasks : client[u] # "inserting"
    BY <2>1, OneInCall DEF TypeInv, TypeOK, InCall
  <2>8. \A w \in Workers : In(w, tree)
    BY <2>7 DEF OnePlace
  <2>9. \A u \in Tasks : client'[u] = "inserting" <=> u = t
    BY <2>1, <2>7
  <2>10. ASSUME NEW w \in Workers PROVE In(w, tree') <=> home[t] # w
    <3>1. PICK n \in 1 .. Len(tree) : tree[n] = w
      BY <2>8 DEF In
    <3>2. CASE n = 1
      <4>1. \A m \in 1 .. l : tree'[m] # w
        <5> SUFFICES ASSUME NEW m \in 1 .. l, tree'[m] = w PROVE FALSE
          OBVIOUS
        <5>1. tree[m + 1] = tree[1] /\ 1 \in 1 .. Len(tree)
          BY <2>2, <3>1, <3>2 DEF l
        <5> QED BY <2>4, <5>1 DEF OnePlace
      <4> QED BY <2>1, <3>1, <3>2, <4>1 DEF In, l
    <3>3. CASE n # 1
      <4>1. PICK m \in 1 .. l : n = m + 1
        BY <2>5, <3>3
      <4>2. tree'[m] = w
        BY <2>2, <3>1, <4>1 DEF l
      <4>3. tree[1] # w
        BY <2>2, <3>1, <3>3 DEF OnePlace
      <4> QED BY <2>1, <4>1, <4>2, <4>3 DEF In, l
    <3> QED BY <3>2, <3>3
  <2>11. \A w \in Workers :
           In(w, tree') <=> \A u \in Tasks : client'[u] = "inserting" => home'[u] # w
    BY <2>1, <2>9, <2>10
  <2> QED BY <2>6, <2>11 DEF OnePlace, l
<1>2. ASSUME NEW t \in Tasks, Insert(t) PROVE OnePlace'
  <2> DEFINE h == home[t]
             lo == gap.lo
             l == Len(tree)
  <2>1. client[t] = "inserting" /\ h \in Workers /\ lo \in 0 .. l /\ l \in Nat
    BY <1>2, InsertedTree DEF Insert
  <2>2. client' = [client EXCEPT ![t] = "returned"] /\ UNCHANGED home
    BY <1>2 DEF Insert
  <2>3. /\ Len(tree') = l + 1 /\ tree'[lo + 1] = h
        /\ \A n \in 1 .. lo : tree'[n] = tree[n]
        /\ \A n \in lo + 2 .. l + 1 : tree'[n] = tree[n - 1]
    BY <1>2, InsertedTree
  <2> HIDE DEF h, lo, l
  <2>4. \A n \in 1 .. l : tree[n] # h
    BY <2>1 DEF OnePlace, In, h, l
  <2>5. \A m, n \in 1 .. l : tree[m] = tree[n] => m = n
    BY DEF OnePlace, l
  <2>6. \A n \in 1 .. l + 1 : \/ n = lo + 1
                              \/ n \in 1 .. lo /\ n \in 1 .. l
                              \/ n \in lo + 2 .. l + 1 /\ n - 1 \in 1 .. l /\ n - 1 > lo
    BY <2>1
  <2>7. ASSUME NEW m \in 1 .. l + 1, NEW n \in 1 .. l + 1, tree'[m] = tree'[n] PROVE m = n
    <3>1. CASE m = lo + 1
      BY <2>3, <2>4, <2>6, <2>7, <3>1
    <3>2. CASE m \in 1 .. lo /\ m \in 1 .. l
      <4>1. CASE n = lo + 1
        BY <2>3, <2>4, <2>7, <3>2, <4>1
      <4>2. CASE n \in 1 .. lo /\ n \in 1 .. l
        BY <2>3, <2>5, <2>7, <3>2, <4>2
      <4>3. CASE n \in lo + 2 .. l + 1 /\ n - 1 \in 1 .. l /\ n - 1 > lo
        <5>1. m = n - 1
          BY <2>3, <2>5, <2>7, <3>2, <4>3
        <5> QED BY <2>1, <3>2, <4>3, <5>1
      <4> QED BY <2>6, <4>1, <4>2, <4>3
    <3>3. CASE m \in lo + 2 .. l + 1 /\ m - 1 \in 1 .. l /\ m - 1 > lo
      <4>1. CASE n = lo + 1
        BY <2>3, <2>4, <2>7, <3>3, <4>1
      <4>2. CASE n \in 1 .. lo /\ n \in 1 .. l
        <5>1. m - 1 = n
          BY <2>3, <2>5, <2>7, <3>3, <4>2
        <5> QED BY <2>1, <3>3, <4>2, <5>1
      <4>3. CASE n \in lo + 2 .. l + 1 /\ n - 1 \in 1 .. l /\ n - 1 > lo
        <5>1. m - 1 = n - 1
          BY <2>3, <2>5, <2>7, <3>3, <4>3
        <5> QED BY <5>1
      <4> QED BY <2>6, <4>1, <4>2, <4>3
    <3> QED BY <2>6, <3>1, <3>2, <3>3
  <2>8. \A u \in Tasks : client'[u] # "inserting"
    <3>1. \A u \in Tasks : client[u] = "inserting" => u = t
      BY <2>1, OneInCall DEF TypeInv, TypeOK, InCall
    <3> QED BY <2>2, <3>1 DEF TypeInv, TypeOK, ClientTypes
  <2>9. ASSUME NEW w \in Workers PROVE \E n \in 1 .. l + 1 : tree'[n] = w
    <3>1. CASE w = h
      <4>1. lo + 1 \in 1 .. l + 1
        BY <2>1
      <4> QED BY <2>3, <3>1, <4>1
    <3>2. CASE w # h
      <4>1. \A u \in Tasks : client[u] = "inserting" => home[u] # w
        BY <2>1, <3>2, OneInCall DEF TypeInv, TypeOK, InCall, h
      <4>2. PICK n \in 1 .. l : tree[n] = w
        BY <4>1 DEF OnePlace, In, l
      <4>3. CASE n <= lo
        <5>1. n \in 1 .. lo /\ n \in 1 .. l + 1
          BY <2>1, <4>3
        <5> QED BY <2>3, <4>2, <5>1
      <4>4. CASE n > lo
        <5>1. n + 1 \in lo + 2 .. l + 1 /\ n + 1 \in 1 .. l + 1 /\ (n + 1) - 1 = n
          BY <2>1, <4>4
        <5> QED BY <2>3, <4>2, <5>1
      <4>5. n \in Int /\ lo \in Int
        BY <2>1
      <4> QED BY <4>3, <4>4, <4>5
    <3> QED BY <3>1, <3>2
  <2> QED BY <2>3, <2>7, <2>8, <2>9 DEF OnePlace, In
<1>3. ASSUME UNCHANGED tree,
             \A t \in Tasks : client'[t] = "inserting" <=> client[t] = "inserting",
             \A t \in Tasks : client[t] = "inserting" => home'[t] = home[t]
      PROVE  OnePlace'
  BY <1>3 DEF OnePlace, In
<1>4. ASSUME NEW t \in Tasks,
             \/ Submit(t) \/ AddEta(t) \/ Send(t) \/ ReadKey(t) \/ Descend(t)
             \/ Receive(t) \/ ReceiveNil(t)
      PROVE  OnePlace'
  <2>1. UNCHANGED tree
    BY <1>4 DEF Submit, AddEta, Send, ReadKey, Descend, Receive, ReceiveNil
  <2>2. CASE Submit(t)
    <3>1. /\ client[t] = "idle"
          /\ \A u \in Tasks : u # t => client'[u] = client[u] /\ home'[u] = home[u]
          /\ client'[t] # "inserting"
      <4>1. Admit(t) \/ \E err \in {"ErrWorkerNotFound", "ErrWillTakeLonger"} : Refuse(t, err)
        BY <2>2, SubmitCases
      <4> QED BY <2>2, <4>1 DEF Submit, Admit, Refuse, TypeInv, TypeOK, ClientTypes
    <3> QED BY <1>3, <2>1, <3>1
  <2>3. CASE AddEta(t) \/ Send(t) \/ ReadKey(t) \/ Descend(t) \/ Receive(t) \/ ReceiveNil(t)
    <3>1. /\ UNCHANGED home
          /\ \A u \in Tasks : client'[u] = "inserting" <=> client[u] = "inserting"
      BY <2>3 DEF AddEta, Send, ReadKey, Descend, Receive, ReceiveNil, TypeInv, TypeOK, ClientTypes
    <3> QED BY <1>3, <2>1, <3>1
  <2> QED BY <1>4, <2>2, <2>3
<1>5. ASSUME NEW w \in Workers, WorkerStep(w) PROVE OnePlace'
  <2>1. UNCHANGED <<tree, home>>
    BY <1>5 DEF WorkerStep, LookAtContext, NoticeCancel, Take, Start, EndDo, Settle,
                CloseFinished, Finalize, Report, Exit, poolVars
  <2>2. \A t \in Tasks : client'[t] = "inserting" <=> client[t] = "inserting"
    <3>1. CASE Report(w)
      BY <3>1 DEF Report, TypeInv, TypeOK, ClientTypes
    <3>2. CASE ~Report(w)
      BY <1>5, <3>2 DEF WorkerStep, LookAtContext, NoticeCancel, Take, Start, EndDo, Settle,
                        CloseFinished, Finalize, Exit
    <3> QED BY <3>1, <3>2
  <2> QED BY <1>3, <2>1, <2>2
<1>6. CASE Cancel \/ UNCHANGED vars
  BY <1>3, <1>6 DEF Cancel, vars, clientVars
<1> QED BY <1>1, <1>2, <1>4, <1>5, <1>6 DEF Next, Rest, ClientStep, InCallStep

LEMMA OnePlaceInvariance == Spec => []OnePlace
BY InitOnePlace, TypeInvariance, StepOnePlace, PTL DEF Spec

LEMMA OneOrNone ==
  ASSUME NEW S, \A x, y \in S : x = y
  PROVE  Cardinality(S) = IF S = {} THEN 0 ELSE 1
<1>1. CASE S = {}
  BY <1>1, FS_EmptySet
<1>2. CASE S # {}
  <2>1. PICK x : x \in S
    BY <1>2
  <2>2. S = {x}
    BY <2>1
  <2>3. Cardinality({x}) = 1
    BY FS_Singleton
  <2> QED BY <1>2, <2>2, <2>3
<1> QED BY <1>1, <1>2

LEMMA OnePlaceCounts == TypeInv /\ OnePlace => EveryWorkerIsInOnePlace
<1> SUFFICES ASSUME TypeInv, OnePlace, NEW w \in Workers
             PROVE  Cardinality({n \in DOMAIN tree : tree[n] = w}) +
                    Cardinality({t \in Tasks : client[t] = "inserting" /\ home[t] = w}) = 1
  BY DEF EveryWorkerIsInOnePlace
<1> DEFINE N == {n \in DOMAIN tree : tree[n] = w}
           T == {t \in Tasks : client[t] = "inserting" /\ home[t] = w}
<1>1. DOMAIN tree = 1 .. Len(tree)
  BY LenProperties DEF TypeInv, TypeOK, PoolTypes
<1>2. \A m, n \in N : m = n
  BY <1>1 DEF OnePlace
<1>3. \A t, u \in T : t = u
  BY OneInCall DEF TypeInv, TypeOK, InCall
<1>4. N = {} <=> T # {}
  BY <1>1 DEF OnePlace, In
<1> HIDE DEF N, T
<1>5. Cardinality(N) = IF N = {} THEN 0 ELSE 1
  BY <1>2, OneOrNone
<1>6. Cardinality(T) = IF T = {} THEN 0 ELSE 1
  BY <1>3, OneOrNone
<1>7. Cardinality(N) + Cardinality(T) = 1
  BY <1>4, <1>5, <1>6
<1> QED BY <1>7 DEF N, T

(* Every worker is in the tree exactly once, except the one that the holder *)
(* of the lock is putting back (pool.go:269-270, 286-287).                  *)
THEOREM WorkersKeepTheirPlace == Spec => []EveryWorkerIsInOnePlace
BY TypeInvariance, OnePlaceInvariance, OnePlaceCounts, PTL

-------------------------------------------------------------------------------
(* The order of the tree, as long as no task has ended: the first worker    *)
(* may be out of order after AddEta, and the gap keeps a place for it.      *)
SortedFrom(k) ==
  \A m, n \in k .. Len(tree) : m < n => eta[tree[m]] <= eta[tree[n]]

SortedInv ==
  (\A t \in Tasks : runs[t] = 0) =>
    /\ SortedFrom(2)
    /\ (\A t \in Tasks : client[t] \notin {"sending", "sent"}) => SortedFrom(1)
    /\ \A t \in Tasks : client[t] = "inserting" =>
         /\ SortedFrom(1)
         /\ gap.lo < gap.hi
         /\ gap.key # <<>> => gap.key = <<eta[home[t]]>>
         /\ \A n \in 1 .. Len(tree) :
              /\ n <= gap.lo => eta[tree[n]] <= eta[home[t]]
              /\ n >= gap.hi => eta[home[t]] <= eta[tree[n]]

LEMMA InitSorted == Init => SortedInv
<1> SUFFICES ASSUME Init PROVE SortedInv
  OBVIOUS
<1>1. tree = [n \in 1 .. WorkerCount |-> n] /\ Len(tree) = WorkerCount
  <2>1. tree \in Seq(Workers)
    BY InitTypeInv DEF TypeInv, TypeOK, PoolTypes
  <2> QED BY <2>1, PoolAssumption, LenProperties DEF Init, Workers
<1>2. \A m, n \in 1 .. Len(tree) : m < n => eta[tree[m]] <= eta[tree[n]]
  <2>1. \A n \in 1 .. Len(tree) : eta[tree[n]] = FirstEta(n) /\ n \in Workers
    BY <1>1 DEF Init, Workers
  <2> QED BY <2>1, FirstEtaOrder
<1>3. SortedFrom(1) /\ SortedFrom(2)
  <2>1. \A n \in 2 .. Len(tree) : n \in 1 .. Len(tree)
    BY <1>1, PoolAssumption
  <2> QED BY <1>2, <2>1 DEF SortedFrom
<1> QED BY <1>3 DEF Init, SortedInv

(* What the order rests on does not change. *)
LEMMA SortedFrame ==
  ASSUME SortedInv, UNCHANGED <<tree, eta, gap>>,
         \A t \in Tasks : runs'[t] = 0 => runs[t] = 0,
         (\A t \in Tasks : client'[t] \notin {"sending", "sent"}) =>
           \A t \in Tasks : client[t] \notin {"sending", "sent"},
         \A t \in Tasks :
           client'[t] = "inserting" => client[t] = "inserting" /\ home'[t] = home[t]
  PROVE  SortedInv'
BY DEF SortedInv, SortedFrom

LEMMA AddEtaSorted ==
  ASSUME TypeInv, OnePlace, SortedInv, NEW t \in Tasks, AddEta(t) PROVE SortedInv'
<1>1. /\ client[t] = "admitted" /\ home[t] = tree[1] /\ tree # <<>> /\ tree \in Seq(Workers)
      /\ client' = [client EXCEPT ![t] = "sending"]
      /\ eta' = [eta EXCEPT ![home[t]] = @ + ETA[t]] /\ eta \in [Workers -> Int]
      /\ UNCHANGED <<tree, gap, home, runs>>
      /\ client \in [Tasks -> {"idle", "returned", "receiving", "answered"} \cup InCall]
  BY DEF AddEta, TypeInv, TypeOK, PoolTypes, ClientTypes, WorkerTypes, LeftmostInHand,
         workerVars
<1>2. Len(tree) \in Nat /\ Len(tree) >= 1 /\ \A n \in 1 .. Len(tree) : tree[n] \in Workers
  BY <1>1, LenProperties, EmptySeq, ElementOfSeq
<1>3. \A n \in 2 .. Len(tree) : eta'[tree[n]] = eta[tree[n]]
  <2> SUFFICES ASSUME NEW n \in 2 .. Len(tree) PROVE eta'[tree[n]] = eta[tree[n]]
    OBVIOUS
  <2>1. n \in 1 .. Len(tree) /\ 1 \in 1 .. Len(tree) /\ n # 1
    BY <1>2
  <2>2. tree[n] # tree[1]
    BY <2>1 DEF OnePlace
  <2> QED BY <1>1, <1>2, <2>1, <2>2
<1>4. SortedFrom(2) => SortedFrom(2)'
  BY <1>1, <1>3 DEF SortedFrom
<1>5. client'[t] = "sending"
  BY <1>1
<1>6. \A u \in Tasks : client'[u] # "inserting"
  BY <1>1, OneInCall DEF TypeInv, TypeOK, InCall
<1> QED BY <1>1, <1>4, <1>5, <1>6 DEF SortedInv

LEMMA DeleteMinSorted ==
  ASSUME TypeInv, OnePlace, SortedInv, NEW t \in Tasks, DeleteMin(t) PROVE SortedInv'
<1>1. /\ client[t] = "sent" /\ home[t] = tree[1] /\ tree # <<>> /\ tree \in Seq(Workers)
      /\ client' = [client EXCEPT ![t] = "inserting"]
      /\ tree' = Tail(tree) /\ gap' = [lo |-> 0, hi |-> Len(tree), key |-> <<>>]
      /\ UNCHANGED <<eta, home, runs>>
      /\ client \in [Tasks -> {"idle", "returned", "receiving", "answered"} \cup InCall]
  BY DEF DeleteMin, TypeInv, TypeOK, PoolTypes, ClientTypes, LeftmostInHand, workerVars
<1>2. /\ Len(tree) \in Nat /\ Len(tree) >= 1 /\ Len(tree') = Len(tree) - 1
      /\ \A n \in 1 .. Len(tree') : tree'[n] = tree[n + 1]
  BY <1>1, HeadTailProperties, LenProperties, EmptySeq
<1> SUFFICES ASSUME \A u \in Tasks : runs[u] = 0
             PROVE  /\ SortedFrom(1)' /\ SortedFrom(2)'
                    /\ \A u \in Tasks : client'[u] = "inserting" =>
                         /\ gap'.lo < gap'.hi
                         /\ gap'.key = <<>>
                         /\ \A n \in 1 .. Len(tree') : ~(n <= gap'.lo) /\ ~(n >= gap'.hi)
  BY <1>1 DEF SortedInv
<1>3. SortedFrom(2)
  BY DEF SortedInv
<1>4. \A m, n \in 1 .. Len(tree') : m < n => eta'[tree'[m]] <= eta'[tree'[n]]
  <2> SUFFICES ASSUME NEW m \in 1 .. Len(tree'), NEW n \in 1 .. Len(tree'), m < n
               PROVE  eta[tree[m + 1]] <= eta[tree[n + 1]]
    BY <1>1, <1>2
  <2>1. m + 1 \in 2 .. Len(tree) /\ n + 1 \in 2 .. Len(tree) /\ m + 1 < n + 1
    BY <1>2
  <2> QED BY <1>3, <2>1 DEF SortedFrom
<1>5. \A n \in 2 .. Len(tree') : n \in 1 .. Len(tree')
  BY <1>2
<1>6. SortedFrom(1)' /\ SortedFrom(2)'
  BY <1>4, <1>5 DEF SortedFrom
<1>7. gap'.lo = 0 /\ gap'.hi = Len(tree) /\ gap'.key = <<>>
  BY <1>1
<1>8. \A n \in 1 .. Len(tree') : ~(n <= gap'.lo) /\ ~(n >= gap'.hi)
  BY <1>2, <1>7
<1> QED BY <1>2, <1>6, <1>7, <1>8

LEMMA ReadKeySorted ==
  ASSUME TypeInv, OnePlace, SortedInv, NEW t \in Tasks, ReadKey(t) PROVE SortedInv'
<1>1. /\ client[t] = "inserting" /\ UNCHANGED <<tree, client, eta, home, runs>>
      /\ gap' = [gap EXCEPT !.key = <<eta[home[t]]>>]
      /\ gap \in [lo : Nat, hi : Nat, key : Seq(Int)]
  BY DEF ReadKey, TypeInv, TypeOK, PoolTypes, workerVars
<1>2. gap'.lo = gap.lo /\ gap'.hi = gap.hi /\ gap'.key = <<eta[home[t]]>>
  BY <1>1
<1>3. \A u \in Tasks : client[u] = "inserting" => u = t
  BY <1>1, OneInCall DEF TypeInv, TypeOK, InCall
<1> QED BY <1>1, <1>2, <1>3 DEF SortedInv, SortedFrom

LEMMA DescendSorted ==
  ASSUME TypeInv, OnePlace, SortedInv, NEW t \in Tasks, Descend(t) PROVE SortedInv'
<1>1. /\ client[t] = "inserting" /\ UNCHANGED <<tree, client, eta, home, runs>>
      /\ gap \in [lo : Nat, hi : Nat, key : Seq(Int)] /\ gap.key # <<>>
  BY DEF Descend, TypeInv, TypeOK, PoolTypes, workerVars
<1>2. PICK k \in (gap.lo + 1) .. (gap.hi - 1) :
        gap' = IF Less(gap.key[1], tree[k])
                 THEN [gap EXCEPT !.hi = k, !.key = <<>>]
                 ELSE [gap EXCEPT !.lo = k, !.key = <<>>]
  BY DEF Descend
<1>3. \A u \in Tasks : client[u] = "inserting" => u = t
  BY <1>1, OneInCall DEF TypeInv, TypeOK, InCall
<1>4. /\ gap.lo \in Nat /\ gap.hi \in Nat /\ k \in Nat /\ gap.lo < k /\ k < gap.hi
      /\ k \in 1 .. Len(tree) /\ Len(tree) \in Nat /\ home[t] \in Workers
      /\ \A n \in 1 .. Len(tree) : tree[n] \in Workers
  <2>1. /\ Len(tree) \in Nat /\ gap.hi \in 1 .. (Len(tree) + 1) /\ home[t] \in Workers
        /\ \A n \in 1 .. Len(tree) : tree[n] \in Workers
    BY <1>1, LenProperties, ElementOfSeq DEF TypeInv, TypeOK, PoolTypes, GapInTree
  <2> QED BY <1>1, <2>1
<1> SUFFICES ASSUME \A u \in Tasks : runs[u] = 0
             PROVE  /\ gap'.lo < gap'.hi
                    /\ gap'.key = <<>>
                    /\ \A n \in 1 .. Len(tree) :
                         /\ n <= gap'.lo => eta[tree[n]] <= eta[home[t]]
                         /\ n >= gap'.hi => eta[home[t]] <= eta[tree[n]]
  BY <1>1, <1>3 DEF SortedInv, SortedFrom
<1> DEFINE E(n) == eta[tree[n]]
           e == eta[home[t]]
<1>5. /\ \A n \in 1 .. Len(tree) : E(n) \in Int
      /\ e \in Int
  BY <1>4 DEF TypeInv, TypeOK, WorkerTypes
<1>6. /\ \A m, n \in 1 .. Len(tree) : m < n => E(m) <= E(n)
      /\ \A n \in 1 .. Len(tree) :
           /\ n <= gap.lo => E(n) <= e
           /\ n >= gap.hi => e <= E(n)
  BY <1>1 DEF SortedInv, SortedFrom
<1>7. Less(gap.key[1], tree[k]) <=> e < E(k)
  <2>1. gap.key = <<e>>
    BY <1>1 DEF SortedInv
  <2> QED BY <2>1 DEF Less
<1> HIDE DEF E, e
<1>8. CASE e < E(k)
  <2>1. gap'.hi = k /\ gap'.lo = gap.lo /\ gap'.key = <<>>
    BY <1>1, <1>2, <1>7, <1>8
  <2>2. \A n \in 1 .. Len(tree) : n >= k => e <= E(n)
    BY <1>4, <1>5, <1>6, <1>8
  <2> QED BY <1>4, <1>6, <2>1, <2>2 DEF E, e
<1>9. CASE ~(e < E(k))
  <2>1. gap'.lo = k /\ gap'.hi = gap.hi /\ gap'.key = <<>>
    BY <1>1, <1>2, <1>7, <1>9
  <2>2. \A n \in 1 .. Len(tree) : n <= k => E(n) <= e
    BY <1>4, <1>5, <1>6, <1>9
  <2> QED BY <1>4, <1>6, <2>1, <2>2 DEF E, e
<1> QED BY <1>8, <1>9

LEMMA InsertSorted ==
  ASSUME TypeInv, OnePlace, SortedInv, NEW t \in Tasks, Insert(t) PROVE SortedInv'
<1> DEFINE h == home[t]
           lo == gap.lo
           l == Len(tree)
           E(n) == eta[tree[n]]
           F(n) == eta[tree'[n]]
           e == eta[h]
<1>1. /\ tree \in Seq(Workers) /\ client[t] = "inserting" /\ h \in Workers
      /\ lo \in 0 .. l /\ gap.hi = lo + 1 /\ l \in Nat
  BY InsertedTree DEF Insert, TypeInv, TypeOK, PoolTypes
<1>2. client' = [client EXCEPT ![t] = "returned"] /\ UNCHANGED <<home, eta, runs>>
  BY DEF Insert, workerVars
<1>3. /\ Len(tree') = l + 1 /\ tree'[lo + 1] = h
      /\ \A n \in 1 .. lo : tree'[n] = tree[n]
      /\ \A n \in lo + 2 .. l + 1 : tree'[n] = tree[n - 1]
  BY InsertedTree
<1>4. \A u \in Tasks : client'[u] # "inserting"
  <2>1. \A u \in Tasks : client[u] = "inserting" => u = t
    BY <1>1, OneInCall DEF TypeInv, TypeOK, InCall
  <2> QED BY <1>2, <2>1 DEF TypeInv, TypeOK, ClientTypes
<1> SUFFICES ASSUME \A u \in Tasks : runs[u] = 0
             PROVE  \A m, n \in 1 .. l + 1 : m < n => F(m) <= F(n)
  <2>1. \A n \in 2 .. l + 1 : n \in 1 .. l + 1
    BY <1>1
  <2> QED BY <1>2, <1>3, <1>4, <2>1 DEF SortedInv, SortedFrom
<1>5. /\ \A n \in 1 .. l : E(n) \in Int
      /\ e \in Int
  BY <1>1, ElementOfSeq DEF TypeInv, TypeOK, WorkerTypes
<1>6. /\ \A m, n \in 1 .. l : m < n => E(m) <= E(n)
      /\ \A n \in 1 .. l :
           /\ n <= lo => E(n) <= e
           /\ n >= lo + 1 => e <= E(n)
  BY <1>1 DEF SortedInv, SortedFrom
<1>7. /\ F(lo + 1) = e
      /\ \A n \in 1 .. lo : F(n) = E(n)
      /\ \A n \in lo + 2 .. l + 1 : F(n) = E(n - 1)
  BY <1>3
<1> HIDE DEF E, F, e, h, lo, l
<1>8. \A n \in 1 .. l + 1 : \/ n = lo + 1
                            \/ n \in 1 .. lo /\ n \in 1 .. l
                            \/ n \in lo + 2 .. l + 1 /\ n - 1 \in 1 .. l /\ n - 1 > lo
  BY <1>1
<1>9. ASSUME NEW m \in 1 .. l + 1, NEW n \in 1 .. l + 1, m < n PROVE F(m) <= F(n)
  <2>1. CASE m = lo + 1
    <3>1. n \in lo + 2 .. l + 1 /\ n - 1 \in 1 .. l /\ n - 1 >= lo + 1
      BY <1>1, <1>9, <2>1
    <3> QED BY <1>6, <1>7, <2>1, <3>1
  <2>2. CASE m \in 1 .. lo /\ m \in 1 .. l
    <3>1. CASE n = lo + 1
      BY <1>6, <1>7, <2>2, <3>1
    <3>2. CASE n \in 1 .. lo /\ n \in 1 .. l
      BY <1>6, <1>7, <1>9, <2>2, <3>2
    <3>3. CASE n \in lo + 2 .. l + 1 /\ n - 1 \in 1 .. l /\ n - 1 > lo
      <4>1. m < n - 1
        BY <1>1, <2>2, <3>3
      <4> QED BY <1>6, <1>7, <2>2, <3>3, <4>1
    <3> QED BY <1>8, <3>1, <3>2, <3>3
  <2>3. CASE m \in lo + 2 .. l + 1 /\ m - 1 \in 1 .. l /\ m - 1 > lo
    <3>1. n \in lo + 2 .. l + 1 /\ n - 1 \in 1 .. l /\ m - 1 < n - 1
      BY <1>1, <1>9, <2>3
    <3> QED BY <1>6, <1>7, <2>3, <3>1
  <2> QED BY <1>8, <2>1, <2>2, <2>3
<1> QED BY <1>9

LEMMA StepSorted == TypeInv /\ FateInv /\ OnePlace /\ SortedInv /\ [Next]_vars => SortedInv'
<1> SUFFICES ASSUME TypeInv, FateInv, OnePlace, SortedInv, [Next]_vars PROVE SortedInv'
  OBVIOUS
<1>1. ASSUME NEW t \in Tasks,
             Submit(t) \/ Send(t) \/ Receive(t) \/ ReceiveNil(t)
      PROVE  SortedInv'
  <2>1. UNCHANGED <<tree, eta, gap, runs>>
    BY <1>1 DEF Submit, Send, Receive, ReceiveNil, workerVars
  <2>2. /\ client[t] \in {"sending", "sent"} <=> client'[t] \in {"sending", "sent"}
        /\ client'[t] # "inserting"
        /\ \A u \in Tasks : u # t => client'[u] = client[u] /\ home'[u] = home[u]
    <3>1. CASE Submit(t)
      <4>1. Admit(t) \/ \E err \in {"ErrWorkerNotFound", "ErrWillTakeLonger"} : Refuse(t, err)
        BY <3>1, SubmitCases
      <4> QED BY <3>1, <4>1 DEF Submit, Admit, Refuse, TypeInv, TypeOK, ClientTypes
    <3>2. CASE Send(t) \/ Receive(t) \/ ReceiveNil(t)
      BY <3>2 DEF Send, Receive, ReceiveNil, TypeInv, TypeOK, ClientTypes
    <3> QED BY <1>1, <3>1, <3>2
  <2>3. \A u \in Tasks : client[u] \in {"sending", "sent"} <=> client'[u] \in {"sending", "sent"}
    BY <2>2
  <2> QED BY <2>1, <2>2, <2>3, SortedFrame
<1>2. ASSUME NEW w \in Workers, WorkerStep(w), ~Settle(w) PROVE SortedInv'
  <2>1. UNCHANGED <<tree, eta, gap, home>>
    BY <1>2 DEF WorkerStep, LookAtContext, NoticeCancel, Take, Start, EndDo,
                CloseFinished, Finalize, Report, Exit, poolVars
  <2>2. \A t \in Tasks : runs'[t] = 0 => runs[t] = 0
    <3>1. CASE EndDo(w)
      <4>1. cur[w] \in Tasks /\ runs'[cur[w]] = runs[cur[w]] + 1 /\ runs[cur[w]] \in Nat
        BY <3>1 DEF EndDo, TypeInv, TypeOK, WorkerTypes, HandlesATask
      <4> QED BY <3>1, <4>1 DEF EndDo, TypeInv, TypeOK, WorkerTypes
    <3>2. CASE ~EndDo(w)
      BY <1>2, <3>2 DEF WorkerStep, LookAtContext, NoticeCancel, Take, Start,
                  CloseFinished, Finalize, Report, Exit
    <3> QED BY <3>1, <3>2
  <2>3. \A t \in Tasks : \/ client'[t] = client[t]
                         \/ client[t] = "receiving" /\ client'[t] = "answered"
    <3>1. CASE Report(w)
      BY <3>1 DEF Report, TypeInv, TypeOK, ClientTypes
    <3>2. CASE ~Report(w)
      BY <1>2, <3>2 DEF WorkerStep, LookAtContext, NoticeCancel, Take, Start, EndDo,
                        CloseFinished, Finalize, Exit
    <3> QED BY <3>1, <3>2
  <2> QED BY <2>1, <2>2, <2>3, SortedFrame
<1>3. ASSUME NEW w \in Workers, Settle(w) PROVE SortedInv'
  <2>1. pc[w] = "did" /\ UNCHANGED runs
    BY <1>3 DEF Settle
  <2>2. Len(delivered[w]) \in 1 .. Len(delivered[w]) /\ cur[w] = accepted[w][Len(delivered[w])]
    BY <2>1, QueueTypes DEF FateInv, InHand, Busy
  <2>3. runs[cur[w]] = 1 /\ cur[w] \in Tasks
    BY <2>1, <2>2 DEF FateInv, RunsOnce, TypeInv, HandlesATask
  <2> QED BY <2>1, <2>3 DEF SortedInv
<1>4. CASE Cancel \/ UNCHANGED vars
  BY <1>4, SortedFrame DEF Cancel, vars, clientVars, workerVars
<1> QED BY <1>1, <1>2, <1>3, <1>4, AddEtaSorted, DeleteMinSorted, ReadKeySorted, DescendSorted,
       InsertSorted
        DEF Next, Rest, ClientStep, InCallStep, WorkerStep

LEMMA NoneEndedSorted == TypeInv /\ SortedInv => TreeIsSortedUntilATaskEnds
<1> SUFFICES ASSUME TypeInv, SortedInv, lock = NoTask, \A t \in Tasks : runs[t] = 0
             PROVE  \A m, n \in DOMAIN tree : m < n => eta[tree[m]] <= eta[tree[n]]
  BY DEF TreeIsSortedUntilATaskEnds
<1>1. \A t \in Tasks : client[t] \notin InCall
  BY PoolAssumption DEF TypeInv, TypeOK, LockHasItsOwner
<1>2. SortedFrom(1)
  BY <1>1 DEF SortedInv, InCall
<1>3. DOMAIN tree = 1 .. Len(tree)
  BY LenProperties DEF TypeInv, TypeOK, PoolTypes
<1> QED BY <1>2, <1>3 DEF SortedFrom

(* While no worker has finished anything, the tree is ordered by the        *)
(* estimates (pool.go:176, 275, 286-287).                                   *)
THEOREM TreeIsSorted == Spec => []TreeIsSortedUntilATaskEnds
BY TypeInvariance, FateInvariance, OnePlaceInvariance, InitSorted, StepSorted,
   NoneEndedSorted, PTL DEF Spec

-------------------------------------------------------------------------------
(* The estimates.  The community module's sum over a set is a recursive     *)
(* function that takes the elements in an order of its own.  It is the      *)
(* number of the microseconds that the tasks of the set bring with them,    *)
(* each counted as a pair of a task and a number: that satisfies the        *)
(* recursion, and by well-founded induction nothing else does.              *)
Backlog(S) == MapThenSumSet(LAMBDA t : ETA[t], S)
Pick(s) == CHOOSE x \in s : TRUE
Adds(g, S) ==
  g = [s \in SUBSET S |-> IF s = {} THEN 0 ELSE ETA[Pick(s)] + g[s \ {Pick(s)}]]

(* The sum is the value of a recursive function at the set, ... *)
LEMMA BacklogIsFold == ASSUME NEW S PROVE Backlog(S) = (CHOOSE g : Adds(g, S))[S]
BY DEF Backlog, MapThenSumSet, MapThenFoldSet, Adds, Pick

(* ... the recursion determines it, as a least set on which two functions   *)
(* that satisfy it differ cannot exist, ...                                 *)
LEMMA AddsOnce ==
  ASSUME NEW S, IsFiniteSet(S), NEW g, NEW h, Adds(g, S), Adds(h, S)
  PROVE  g[S] = h[S]
<1> DEFINE Apart == {s \in SUBSET S : g[s] # h[s]}
<1>1. SUFFICES ASSUME Apart # {} PROVE FALSE
  BY <1>1
<1>2. IsWellFoundedOn(StrictSubsetOrdering(S), SUBSET S)
  BY FS_StrictSubsetOrderingWellFounded, FS_FiniteSubsetsOfFinite
<1>3. PICK T \in Apart : \A U \in Apart : <<U, T>> \notin StrictSubsetOrdering(S)
  <2> HIDE DEF Apart
  <2>1. Apart \subseteq SUBSET S
    BY DEF Apart
  <2> QED BY <1>1, <1>2, <2>1, WFMin
<1>4. T # {}
  BY <1>3 DEF Adds
<1>5. Pick(T) \in T
  BY <1>4 DEF Pick
<1> DEFINE U == T \ {Pick(T)}
<1>6. U \in SUBSET S /\ <<U, T>> \in StrictSubsetOrdering(S)
  BY <1>5 DEF StrictSubsetOrdering
<1>7. g[U] = h[U]
  BY <1>3, <1>6
<1> QED BY <1>3, <1>4, <1>7 DEF Adds

Units(S) == {u \in S \X Nat : u[2] \in 1 .. ETA[u[1]]}

LEMMA UnitsOfOne ==
  ASSUME NEW x \in Tasks
  PROVE  IsFiniteSet(Units({x})) /\ Cardinality(Units({x})) = ETA[x]
<1> DEFINE f == [n \in 1 .. ETA[x] |-> <<x, n>>]
<1>1. ETA[x] \in Nat
  BY PoolAssumption
<1>2. f \in Bijection(1 .. ETA[x], Units({x}))
  <2>1. f \in [1 .. ETA[x] -> Units({x})]
    BY <1>1 DEF Units
  <2>2. \A m, n \in 1 .. ETA[x] : f[m] = f[n] => m = n
    OBVIOUS
  <2>3. \A u \in Units({x}) : u[2] \in 1 .. ETA[x] /\ f[u[2]] = u
    BY DEF Units
  <2> HIDE DEF f
  <2> QED BY <2>1, <2>2, <2>3 DEF Bijection, Injection, IsInjective, Surjection
<1>3. ExistsBijection(1 .. ETA[x], Units({x}))
  BY <1>2 DEF ExistsBijection
<1>4. IsFiniteSet(1 .. ETA[x]) /\ Cardinality(1 .. ETA[x]) = ETA[x]
  BY <1>1, FS_Interval
<1> QED BY <1>3, <1>4, FS_Bijection

LEMMA UnitsAdd ==
  ASSUME NEW S \in SUBSET Tasks, IsFiniteSet(Units(S)), NEW x \in Tasks, x \notin S
  PROVE  /\ IsFiniteSet(Units(S \cup {x}))
         /\ Cardinality(Units(S \cup {x})) = Cardinality(Units(S)) + ETA[x]
<1>1. Units(S \cup {x}) = Units(S) \cup Units({x})
  BY DEF Units
<1>2. Units(S) \cap Units({x}) = {}
  BY DEF Units
<1>3. Cardinality(Units(S)) \in Nat /\ ETA[x] \in Nat
  BY FS_CardinalityType, PoolAssumption
<1>4. IsFiniteSet(Units({x})) /\ Cardinality(Units({x})) = ETA[x]
  BY UnitsOfOne
<1> DEFINE A == Units(S)
           B == Units({x})
<1>5. /\ IsFiniteSet(A \cup B)
      /\ Cardinality(A \cup B) = Cardinality(A) + Cardinality(B) - Cardinality(A \cap B)
  <2> HIDE DEF A, B
  <2>1. IsFiniteSet(A) /\ IsFiniteSet(B)
    BY <1>4 DEF A, B
  <2> QED BY <2>1, FS_Union
<1>6. Cardinality(A \cap B) = 0
  BY <1>2, FS_EmptySet
<1>7. IsFiniteSet(Units(S \cup {x}))
  BY <1>1, <1>5
<1>8. Cardinality(Units(S \cup {x})) = Cardinality(Units(S)) + ETA[x]
  <2>1. Cardinality(Units(S \cup {x})) = Cardinality(A \cup B)
    BY <1>1
  <2> QED BY <1>3, <1>4, <1>5, <1>6, <2>1
<1> QED BY <1>7, <1>8

LEMMA UnitsFinite ==
  ASSUME NEW S \in SUBSET Tasks, IsFiniteSet(S)
  PROVE  IsFiniteSet(Units(S))
<1> DEFINE Infinite == {s \in SUBSET S : ~IsFiniteSet(Units(s))}
<1>1. SUFFICES ASSUME Infinite # {} PROVE FALSE
  BY <1>1
<1>2. IsWellFoundedOn(StrictSubsetOrdering(S), SUBSET S)
  BY FS_StrictSubsetOrderingWellFounded, FS_FiniteSubsetsOfFinite
<1>3. PICK T \in Infinite : \A U \in Infinite : <<U, T>> \notin StrictSubsetOrdering(S)
  <2> HIDE DEF Infinite
  <2>1. Infinite \subseteq SUBSET S
    BY DEF Infinite
  <2> QED BY <1>1, <1>2, <2>1, WFMin
<1>4. Units({}) = {}
  BY DEF Units
<1>5. PICK x : x \in T
  BY <1>3, <1>4, FS_EmptySet
<1>6. T \ {x} \in SUBSET S /\ <<T \ {x}, T>> \in StrictSubsetOrdering(S)
  BY <1>5 DEF StrictSubsetOrdering
<1>7. IsFiniteSet(Units(T \ {x}))
  BY <1>3, <1>6
<1>8. T = (T \ {x}) \cup {x} /\ x \in Tasks /\ T \ {x} \in SUBSET Tasks
  BY <1>5
<1> QED BY <1>3, <1>7, <1>8, UnitsAdd

(* ... and the number of units satisfies it. *)
LEMMA BacklogIsUnits ==
  ASSUME NEW S \in SUBSET Tasks, IsFiniteSet(S)
  PROVE  Backlog(S) = Cardinality(Units(S))
<1> DEFINE g == [s \in SUBSET S |-> Cardinality(Units(s))]
<1>1. ASSUME NEW s \in SUBSET S
      PROVE  g[s] = IF s = {} THEN 0 ELSE ETA[Pick(s)] + g[s \ {Pick(s)}]
  <2>1. CASE s = {}
    <3>1. Units(s) = {}
      BY <2>1 DEF Units
    <3> QED BY <2>1, <3>1, FS_EmptySet
  <2>2. CASE s # {}
    <3>1. Pick(s) \in s
      BY <2>2 DEF Pick
    <3> DEFINE r == s \ {Pick(s)}
    <3>2. r \in SUBSET S /\ r \in SUBSET Tasks /\ Pick(s) \in Tasks /\ Pick(s) \notin r
            /\ s = r \cup {Pick(s)}
      BY <3>1
    <3>3. IsFiniteSet(Units(r))
      BY <3>2, FS_Subset, UnitsFinite
    <3> HIDE DEF r
    <3>4. Cardinality(Units(s)) = Cardinality(Units(r)) + ETA[Pick(s)]
      BY <3>2, <3>3, UnitsAdd
    <3>5. Cardinality(Units(r)) \in Nat /\ ETA[Pick(s)] \in Nat
      BY <3>2, <3>3, FS_CardinalityType, PoolAssumption
    <3>6. g[s] = ETA[Pick(s)] + g[r]
      BY <3>2, <3>4, <3>5
    <3> QED BY <2>2, <3>6 DEF r
  <2> QED BY <2>1, <2>2
<1>2. Adds(g, S)
  BY <1>1 DEF Adds
<1>3. Adds(CHOOSE h : Adds(h, S), S)
  <2> HIDE DEF g
  <2> QED BY <1>2
<1>4. g[S] = (CHOOSE h : Adds(h, S))[S]
  <2> HIDE DEF g
  <2> QED BY <1>2, <1>3, AddsOnce
<1>5. g[S] = Cardinality(Units(S))
  OBVIOUS
<1> QED BY <1>4, <1>5, BacklogIsFold

LEMMA BacklogOfNone == Backlog({}) = 0
<1>1. Units({}) = {}
  BY DEF Units
<1> QED BY <1>1, BacklogIsUnits, FS_EmptySet

LEMMA BacklogAdd ==
  ASSUME NEW S \in SUBSET Tasks, IsFiniteSet(S), NEW x \in Tasks, x \notin S
  PROVE  /\ IsFiniteSet(S \cup {x})
         /\ Backlog(S \cup {x}) = Backlog(S) + ETA[x]
         /\ Backlog(S) \in Nat
<1>1. IsFiniteSet(S \cup {x}) /\ S \cup {x} \in SUBSET Tasks
  BY FS_AddElement
<1>2. IsFiniteSet(Units(S))
  BY UnitsFinite
<1> QED BY <1>1, <1>2, UnitsAdd, BacklogIsUnits, FS_CardinalityType

(* EtaInv adds that the sums are finite. *)
EtaInv ==
  \A w \in Workers :
    /\ IsFiniteSet(Counted(w))
    /\ eta[w] = FirstEta(w) + Backlog(Counted(w))

LEMMA EtaFrame ==
  ASSUME EtaInv, UNCHANGED eta, \A w \in Workers : Counted(w)' = Counted(w)
  PROVE  EtaInv'
BY DEF EtaInv

LEMMA InitEta == Init => EtaInv
<1> SUFFICES ASSUME Init, NEW w \in Workers
             PROVE  IsFiniteSet(Counted(w)) /\ eta[w] = FirstEta(w) + Backlog(Counted(w))
  BY DEF EtaInv
<1>1. Counted(w) = {}
  BY DEF Counted, Init, Workers
<1>2. eta[w] = FirstEta(w)
  BY DEF Init
<1>3. eta[w] = FirstEta(w) + 0
  BY <1>2, FirstEtaInt
<1>4. Backlog(Counted(w)) = 0
  BY <1>1, BacklogOfNone
<1> QED BY <1>1, <1>3, <1>4, FS_EmptySet

LEMMA AddEtaEta ==
  ASSUME TypeInv, FateInv, EtaInv, NEW t \in Tasks, AddEta(t) PROVE EtaInv'
<1>1. /\ client[t] = "admitted" /\ client'[t] = "sending" /\ home[t] \in Workers
      /\ \A u \in Tasks : u # t => client'[u] = client[u]
      /\ eta'[home[t]] = eta[home[t]] + ETA[t]
      /\ \A w \in Workers : w # home[t] => eta'[w] = eta[w]
      /\ \A w \in Workers : eta[w] \in Int
      /\ UNCHANGED <<home, runs, cur, pc>>
  <2>1. home[t] \in Workers
    BY HomeIsAWorker DEF AddEta, InCall
  <2> QED BY <2>1 DEF AddEta, TypeInv, TypeOK, ClientTypes, WorkerTypes, workerVars
<1>2. runs[t] = 0
  <2>1. \A w \in Workers : \A n \in 1 .. Len(delivered[w]) : accepted[w][n] # t
    <3>1. \A w \in Workers : \A n \in 1 .. Len(accepted[w]) : accepted[w][n] # t
      BY <1>1 DEF FateInv, InMail, NotSent
    <3> QED BY <3>1, QueueTypes DEF FateInv, Delivery
  <2> QED BY <2>1 DEF FateInv, RunsOnce
<1>3. t \notin Counted(home[t]) /\ Counted(home[t])' = Counted(home[t]) \cup {t}
  BY <1>1, <1>2 DEF Counted
<1>4. \A w \in Workers : w # home[t] => Counted(w)' = Counted(w)
  BY <1>1 DEF Counted
<1>5. IsFiniteSet(Counted(home[t])) /\ Counted(home[t]) \in SUBSET Tasks
  BY <1>1 DEF EtaInv, Counted
<1>6. /\ IsFiniteSet(Counted(home[t])')
      /\ Backlog(Counted(home[t])') = Backlog(Counted(home[t])) + ETA[t]
      /\ Backlog(Counted(home[t])) \in Nat
  BY <1>3, <1>5, BacklogAdd
<1>7. eta'[home[t]] = FirstEta(home[t]) + Backlog(Counted(home[t])')
  <2>1. eta[home[t]] = FirstEta(home[t]) + Backlog(Counted(home[t]))
    BY <1>1 DEF EtaInv
  <2>2. ETA[t] \in Nat /\ FirstEta(home[t]) \in Int
    BY <1>1, PoolAssumption, FirstEtaInt
  <2> QED BY <1>1, <1>6, <2>1, <2>2
<1>8. ASSUME NEW w \in Workers
      PROVE  IsFiniteSet(Counted(w)') /\ eta'[w] = FirstEta(w) + Backlog(Counted(w)')
  <2>1. CASE w = home[t]
    BY <1>1, <1>6, <1>7, <2>1
  <2>2. CASE w # home[t]
    BY <1>1, <1>4, <2>2 DEF EtaInv
  <2> QED BY <2>1, <2>2
<1> QED BY <1>8 DEF EtaInv

(* The task a worker handles is one of its own, and its client is past AddEta. *)
LEMMA InHandIsOwn ==
  ASSUME TypeInv, FateInv, NEW w \in Workers, pc[w] \in Busy
  PROVE  /\ cur[w] \in Tasks
         /\ home[cur[w]] = w
         /\ client[cur[w]] # "admitted"
         /\ pc[w] \in {"taken", "doing"} => runs[cur[w]] = 0
         /\ pc[w] \in {"did", "settled"} => runs[cur[w]] = 1
<1> DEFINE d == Len(delivered[w])
<1>1. d \in 1 .. Len(accepted[w]) /\ d \in 1 .. d /\ cur[w] = accepted[w][d]
  BY QueueTypes DEF FateInv, InHand, Delivery
<1>2. cur[w] \in Tasks
  BY DEF TypeInv, HandlesATask, Busy
<1>3. home[cur[w]] = w /\ client[cur[w]] # "admitted"
  BY <1>1 DEF FateInv, InMail, NotSent
<1>4. runs[cur[w]] = IF pc[w] \in {"taken", "doing"} THEN 0 ELSE 1
  BY <1>1 DEF FateInv, RunsOnce
<1> QED BY <1>2, <1>3, <1>4

LEMMA SettleEta ==
  ASSUME TypeInv, FateInv, EtaInv, NEW v \in Workers, Settle(v) PROVE EtaInv'
<1>1. PICK t \in Tasks : t = cur[v]
  BY InHandIsOwn DEF Settle, Busy
<1>2. /\ pc[v] = "did" /\ pc'[v] = "settled"
      /\ \A w \in Workers : w # v => pc'[w] = pc[w] /\ eta'[w] = eta[w]
      /\ eta'[v] = eta[v] - ETA[t]
      /\ UNCHANGED <<home, client, runs, cur>>
  BY <1>1 DEF Settle, TypeInv, TypeOK, WorkerTypes, poolVars
<1>3. home[t] = v /\ client[t] # "admitted" /\ runs[t] = 1
  BY <1>1, <1>2, InHandIsOwn DEF Busy
<1>4. Counted(v) = Counted(v)' \cup {t} /\ t \notin Counted(v)'
  BY <1>1, <1>2, <1>3 DEF Counted
<1>5. \A w \in Workers : w # v => Counted(w)' = Counted(w)
  BY <1>2 DEF Counted
<1>6. PICK S \in SUBSET Tasks : S = Counted(v)'
  BY DEF Counted
<1>7. Counted(v) = S \cup {t} /\ t \notin S
  BY <1>4, <1>6
<1>8. IsFiniteSet(S)
  <2>1. IsFiniteSet(Counted(v)) /\ S \in SUBSET Counted(v)
    BY <1>7 DEF EtaInv
  <2> QED BY <2>1, FS_Subset
<1>9. Backlog(Counted(v)) = Backlog(S) + ETA[t] /\ Backlog(S) \in Nat
  BY <1>7, <1>8, BacklogAdd
<1>10. eta'[v] = FirstEta(v) + Backlog(S)
  <2>1. eta[v] = FirstEta(v) + Backlog(Counted(v))
    BY DEF EtaInv
  <2>2. ETA[t] \in Nat /\ FirstEta(v) \in Int
    BY PoolAssumption, FirstEtaInt
  <2> QED BY <1>2, <1>9, <2>1, <2>2
<1>11. ASSUME NEW w \in Workers
       PROVE  IsFiniteSet(Counted(w)') /\ eta'[w] = FirstEta(w) + Backlog(Counted(w)')
  <2>1. CASE w = v
    BY <1>6, <1>8, <1>10, <2>1
  <2>2. CASE w # v
    BY <1>2, <1>5, <2>2 DEF EtaInv
  <2> QED BY <2>1, <2>2
<1> QED BY <1>11 DEF EtaInv

LEMMA EndDoEta ==
  ASSUME TypeInv, FateInv, EtaInv, NEW v \in Workers, EndDo(v) PROVE EtaInv'
<1>1. /\ pc[v] = "doing" /\ pc'[v] = "did"
      /\ \A w \in Workers : w # v => pc'[w] = pc[w]
      /\ \A u \in Tasks : u # cur[v] => runs'[u] = runs[u]
      /\ UNCHANGED <<home, client, cur, eta>>
  BY DEF EndDo, TypeInv, TypeOK, WorkerTypes, poolVars
<1>2. home[cur[v]] = v /\ client[cur[v]] # "admitted" /\ runs[cur[v]] = 0
  BY <1>1, InHandIsOwn DEF Busy
<1>3. ASSUME NEW w \in Workers PROVE Counted(w)' = Counted(w)
  <2>1. CASE w = v
    BY <1>1, <1>2, <2>1 DEF Counted
  <2>2. CASE w # v
    BY <1>1, <1>2, <2>2 DEF Counted
  <2> QED BY <2>1, <2>2
<1> QED BY <1>1, <1>3, EtaFrame

LEMMA StepEta == TypeInv /\ FateInv /\ EtaInv /\ [Next]_vars => EtaInv'
<1> SUFFICES ASSUME TypeInv, FateInv, EtaInv, [Next]_vars PROVE EtaInv'
  OBVIOUS
<1>1. ASSUME NEW t \in Tasks, Submit(t) PROVE EtaInv'
  <2>1. /\ UNCHANGED <<eta, cur, pc, runs>>
        /\ \A u \in Tasks : u # t => client'[u] = client[u] /\ home'[u] = home[u]
        /\ client[t] = "idle"
        /\ client'[t] = "admitted" \/ home'[t] = home[t]
    <3>1. Admit(t) \/ \E err \in {"ErrWorkerNotFound", "ErrWillTakeLonger"} : Refuse(t, err)
      BY <1>1, SubmitCases
    <3> QED BY <1>1, <3>1 DEF Submit, Admit, Refuse, TypeInv, TypeOK, ClientTypes, workerVars
  <2>2. home[t] = 0
    BY <2>1 DEF FateInv, Answers
  <2>3. ASSUME NEW w \in Workers PROVE Counted(w)' = Counted(w)
    <3>1. w # 0
      BY DEF Workers
    <3> QED BY <2>1, <2>2, <3>1 DEF Counted
  <2> QED BY <2>1, <2>3, EtaFrame
<1>2. ASSUME NEW t \in Tasks,
             \/ Send(t) \/ DeleteMin(t) \/ ReadKey(t) \/ Descend(t) \/ Insert(t)
             \/ Receive(t) \/ ReceiveNil(t)
      PROVE  EtaInv'
  <2>1. /\ UNCHANGED <<eta, cur, pc, runs, home>>
        /\ \A u \in Tasks : client'[u] = "admitted" <=> client[u] = "admitted"
    BY <1>2 DEF Send, DeleteMin, ReadKey, Descend, Insert, Receive, ReceiveNil, workerVars, TypeInv,
                TypeOK, ClientTypes
  <2> QED BY <2>1, EtaFrame DEF Counted
<1>3. ASSUME NEW w \in Workers, WorkerStep(w), ~EndDo(w), ~Settle(w) PROVE EtaInv'
  <2>1. UNCHANGED <<eta, home, runs>>
    BY <1>3 DEF WorkerStep, LookAtContext, NoticeCancel, Take, Start, CloseFinished,
                Finalize, Report, Exit, poolVars
  <2>2. /\ \A v \in Workers : pc'[v] = "did" <=> pc[v] = "did"
        /\ \A v \in Workers : pc'[v] = "did" => cur'[v] = cur[v]
    BY <1>3 DEF WorkerStep, LookAtContext, NoticeCancel, Take, Start, CloseFinished,
                Finalize, Report, Exit, TypeInv, TypeOK, WorkerTypes
  <2>3. \A u \in Tasks : client'[u] = "admitted" <=> client[u] = "admitted"
    <3>1. CASE Report(w)
      BY <3>1 DEF Report, TypeInv, TypeOK, ClientTypes
    <3>2. CASE ~Report(w)
      BY <1>3, <3>2 DEF WorkerStep, LookAtContext, NoticeCancel, Take, Start,
                        CloseFinished, Finalize, Exit
    <3> QED BY <3>1, <3>2
  <2> QED BY <2>1, <2>2, <2>3, EtaFrame DEF Counted
<1>4. CASE Cancel \/ UNCHANGED vars
  BY <1>4, EtaFrame DEF Cancel, vars, clientVars, workerVars, Counted
<1> QED BY <1>1, <1>2, <1>3, <1>4, AddEtaEta, SettleEta, EndDoEta
        DEF Next, Rest, ClientStep, InCallStep, WorkerStep

(* A worker's estimate is its initial offset and the estimates of exactly   *)
(* the tasks it was given and has not done (pool.go:126-130, 168-179).      *)
THEOREM EstimatesAreTheBacklog == Spec => []EtaIsTheBacklog
<1>1. EtaInv => EtaIsTheBacklog
  BY DEF EtaInv, EtaIsTheBacklog, Backlog
<1> QED BY <1>1, TypeInvariance, FateInvariance, InitEta, StepEta, PTL DEF Spec
===============================================================================
