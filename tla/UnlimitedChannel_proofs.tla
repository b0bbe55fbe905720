------------------------ MODULE UnlimitedChannel_proofs ------------------------
(***************************************************************************)
(* Proofs about UnlimitedChannel, for any sets of items and finalizers:    *)
(* its safety invariants, and that it implements FifoMailbox.              *)
(*                                                                         *)
(* IInv is inductive.  It adds to the invariants what they rest on: after  *)
(* a return of Finalize the manager is in its drain loop, where storage no *)
(* longer changes, and the manager can be in its selects with c.out closed *)
(* only after a client closed the in channel.                              *)
(***************************************************************************)
EXTENDS UnlimitedChannel, SequenceTheorems, TLAPS

ReturnedWhileDraining ==
  \A f \in Finalizers :
    finalize[f] = "returned" => mgr = "drain" /\ result[f] = storage

OutClosedOnlyAfterIn ==
  mgr = "panicked" \/ (mgr = "select" /\ outClosed) => inClosed

IInv ==
  /\ TypeOK
  /\ NothingLostOrReordered
  /\ ReturnedWhileDraining
  /\ OutClosedOnlyAfterIn

(* The first item of a queue s, behind what already left it (r): moving it  *)
(* from one to the other changes nothing as a whole (channel.go:54-55).     *)
LEMMA MoveHead ==
  ASSUME NEW S, NEW r \in Seq(S), NEW s \in Seq(S), s # <<>>
  PROVE  /\ Append(r, Head(s)) \in Seq(S)
         /\ Tail(s) \in Seq(S)
         /\ r \o s = Append(r, Head(s)) \o Tail(s)
         /\ Len(r) < Len(r \o s)
         /\ (r \o s)[Len(r) + 1] = Head(s)
<1>1. Head(s) \in S /\ Tail(s) \in Seq(S)
  BY HeadTailProperties
<1>2. Append(r, Head(s)) \in Seq(S) /\ Append(r, Head(s)) = r \o <<Head(s)>>
  BY <1>1, AppendProperties, AppendIsConcat
<1>3. s = <<Head(s)>> \o Tail(s)
  <2>1. Len(s) \in Nat /\ Len(s) >= 1
    BY LenProperties, EmptySeq
  <2>2. s = SubSeq(s, 1, Len(s)) /\ SubSeq(s, 1, Len(s)) = <<s[1]>> \o SubSeq(s, 2, Len(s))
    BY <2>1, SubSeqFull, SubSeqRecursiveFirst
  <2>3. Tail(s) = SubSeq(s, 2, Len(s)) /\ Head(s) = s[1]
    BY TailIsSubSeq
  <2> QED BY <2>2, <2>3
<1>4. <<Head(s)>> \in Seq(S)
  BY <1>1
<1>5. (r \o <<Head(s)>>) \o Tail(s) = r \o (<<Head(s)>> \o Tail(s))
  BY <1>1, <1>4, ConcatAssociative
<1>6. Len(r) < Len(r \o s) /\ (r \o s)[Len(r) + 1] = s[1]
  <2>1. Len(s) \in Nat /\ Len(s) >= 1 /\ Len(r) \in Nat
    BY LenProperties, EmptySeq
  <2> QED BY <2>1, ConcatProperties
<1> QED BY <1>1, <1>2, <1>3, <1>5, <1>6

-------------------------------------------------------------------------------
LEMMA InitInv == Init => IInv
<1> SUFFICES ASSUME Init PROVE IInv
  OBVIOUS
<1>1. TypeOK
  BY EmptySeq DEF Init, TypeOK
<1>2. NothingLostOrReordered
  BY ConcatEmptySeq, EmptySeq DEF Init, NothingLostOrReordered
<1> QED BY <1>1, <1>2 DEF Init, IInv, ReturnedWhileDraining, OutClosedOnlyAfterIn

LEMMA StepTypeOK == TypeOK /\ [Next]_vars => TypeOK'
<1> SUFFICES ASSUME TypeOK, [Next]_vars PROVE TypeOK'
  OBVIOUS
<1> USE DEF TypeOK
<1>1. CASE UNCHANGED vars
  BY <1>1 DEF vars
<1>2. ASSUME NEW i \in Items, BeginSend(i) PROVE TypeOK'
  BY <1>2 DEF BeginSend
<1>3. ASSUME NEW i \in Items, TakeIn(i) PROVE TypeOK'
  BY <1>3, AppendProperties DEF TakeIn
<1>4. ASSUME NEW i \in Items, Drain(i) PROVE TypeOK'
  BY <1>4 DEF Drain
<1>5. ASSUME NEW f \in Finalizers, CallFinalize(f) PROVE TypeOK'
  BY <1>5 DEF CallFinalize
<1>6. ASSUME NEW f \in Finalizers, ReturnFinalize(f) PROVE TypeOK'
  BY <1>6 DEF ReturnFinalize
<1>7. CASE CloseIn
  BY <1>7 DEF CloseIn
<1>8. CASE TakeInClosed
  BY <1>8 DEF TakeInClosed
<1>9. CASE HandOut
  <2>1. Append(received, Head(storage)) \in Seq(Items) /\ Tail(storage) \in Seq(Items)
    BY <1>9, MoveHead DEF HandOut
  <2> QED BY <1>9, <2>1 DEF HandOut
<1>10. CASE HandOutOnClosed
  BY <1>10 DEF HandOutOnClosed
<1>11. CASE NoticeCancel
  BY <1>11 DEF NoticeCancel
<1>12. CASE CloseFinalized
  BY <1>12 DEF CloseFinalized
<1> QED
  BY <1>1, <1>2, <1>3, <1>4, <1>5, <1>6, <1>7, <1>8, <1>9, <1>10, <1>11, <1>12
     DEF Next, Step, Rest

(* Only TakeIn and HandOut touch the three sequences, and each keeps the    *)
(* equation between them.                                                   *)
LEMMA StepNothingLost == IInv /\ [Next]_vars => NothingLostOrReordered'
<1> SUFFICES ASSUME IInv, [Next]_vars PROVE NothingLostOrReordered'
  OBVIOUS
<1> USE DEF NothingLostOrReordered
<1>1. accepted = received \o storage /\ received \in Seq(Items) /\ storage \in Seq(Items)
  BY DEF IInv, TypeOK
<1>2. ASSUME NEW i \in Items, TakeIn(i) PROVE NothingLostOrReordered'
  <2>1. received \o storage \in Seq(Items) /\ <<i>> \in Seq(Items)
    BY <1>1, ConcatProperties
  <2>2. Append(accepted, i) = (received \o storage) \o <<i>>
    BY <1>1, <2>1, AppendIsConcat
  <2>3. received \o Append(storage, i) = received \o (storage \o <<i>>)
    BY <1>1, AppendIsConcat
  <2>4. (received \o storage) \o <<i>> = received \o (storage \o <<i>>)
    BY <1>1, <2>1, ConcatAssociative
  <2> QED BY <1>2, <2>2, <2>3, <2>4 DEF TakeIn
<1>3. CASE HandOut
  BY <1>1, <1>3, MoveHead DEF HandOut
<1>4. CASE UNCHANGED <<accepted, received, storage>>
  BY <1>1, <1>4
<1> QED
  BY <1>2, <1>3, <1>4
     DEF Next, Step, Rest, vars, BeginSend, Drain, CallFinalize, ReturnFinalize,
         CloseIn, TakeInClosed, HandOutOnClosed, NoticeCancel, CloseFinalized

(* Once the manager drains it drains for ever, and storage stays. *)
LEMMA StepReturned == IInv /\ [Next]_vars => ReturnedWhileDraining'
<1> SUFFICES ASSUME IInv, [Next]_vars PROVE ReturnedWhileDraining'
  OBVIOUS
<1> USE DEF ReturnedWhileDraining, IInv
<1>1. ASSUME NEW f \in Finalizers, CallFinalize(f) PROVE ReturnedWhileDraining'
  BY <1>1 DEF CallFinalize, TypeOK
<1>2. ASSUME NEW f \in Finalizers, ReturnFinalize(f) PROVE ReturnedWhileDraining'
  BY <1>2 DEF ReturnFinalize, TypeOK
<1>3. CASE UNCHANGED <<finalize, result>> /\ (mgr # "drain" \/ UNCHANGED <<mgr, storage>>)
  BY <1>3
<1> QED
  BY <1>1, <1>2, <1>3
     DEF Next, Step, Rest, vars, BeginSend, TakeIn, Drain, CloseIn, TakeInClosed,
         HandOut, HandOutOnClosed, NoticeCancel, CloseFinalized

LEMMA StepOutClosed == IInv /\ [Next]_vars => OutClosedOnlyAfterIn'
BY DEF IInv, OutClosedOnlyAfterIn, TypeOK, Next, Step, Rest, vars, BeginSend,
       TakeIn, Drain, CallFinalize, ReturnFinalize, CloseIn, TakeInClosed, HandOut,
       HandOutOnClosed, NoticeCancel, CloseFinalized

(* The inductive invariant holds in every reachable state. *)
THEOREM Invariance == Spec => []IInv
<1>1. IInv /\ [Next]_vars => IInv'
  BY StepTypeOK, StepNothingLost, StepReturned, StepOutClosed DEF IInv
<1> QED BY InitInv, <1>1, PTL DEF Spec

-------------------------------------------------------------------------------
(* Type correctness (channel.go:7-13). *)
THEOREM TypeCorrect == Spec => []TypeOK
<1>1. IInv => TypeOK
  BY DEF IInv
<1> QED BY <1>1, Invariance, PTL

(* No item is lost, duplicated or overtaken, whatever the order in which    *)
(* senders, receivers and finalizers meet the manager (channel.go:32-60).   *)
THEOREM Fifo == Spec => []NothingLostOrReordered
<1>1. IInv => NothingLostOrReordered
  BY DEF IInv
<1> QED BY <1>1, Invariance, PTL

(* Every call of Finalize returns exactly what was accepted and not         *)
(* received, and that stays so (channel.go:61-65, 81-85).                   *)
THEOREM FinalizeIsExact == Spec => []FinalizeReturnsTheRest
<1>1. IInv => FinalizeReturnsTheRest
  BY DEF IInv, FinalizeReturnsTheRest, ReturnedWhileDraining, NothingLostOrReordered,
         TypeOK
<1> QED BY <1>1, Invariance, PTL

(* The manager panics only after a client closed the channel that In()      *)
(* returns (channel.go:32-59).                                              *)
THEOREM NoPanic == Spec => []PanicsOnlyIfInWasClosed
<1>1. IInv => PanicsOnlyIfInWasClosed
  BY DEF IInv, OutClosedOnlyAfterIn, PanicsOnlyIfInWasClosed
<1> QED BY <1>1, Invariance, PTL

-------------------------------------------------------------------------------
LEMMA MailboxStep == IInv /\ [Next]_vars => [Mailbox!MailboxNext]_Mailbox!mailboxVars
<1> SUFFICES ASSUME IInv, [Next]_vars
             PROVE  [Mailbox!MailboxNext]_Mailbox!mailboxVars
  OBVIOUS
<1> USE DEF Mailbox!MailboxNext, Mailbox!mailboxVars
<1>1. ASSUME NEW i \in Items, TakeIn(i) PROVE Mailbox!MailboxNext
  BY <1>1 DEF TakeIn, Mailbox!Accept
<1>2. CASE HandOut
  <2>1. /\ Len(received) < Len(accepted)
        /\ accepted[Len(received) + 1] = Head(storage)
    BY <1>2, MoveHead DEF HandOut, IInv, TypeOK, NothingLostOrReordered
  <2> QED BY <1>2, <2>1 DEF HandOut, Mailbox!Deliver
<1>3. CASE TakeInClosed \/ HandOutOnClosed \/ NoticeCancel
  <2>1. mgr = "select" /\ UNCHANGED <<accepted, received>>
    BY <1>3 DEF TakeInClosed, HandOutOnClosed, NoticeCancel
  <2>2. CASE mgr' = "select"
    BY <2>1, <2>2
  <2>3. CASE mgr' # "select"
    BY <2>1, <2>3 DEF Mailbox!Shut
  <2> QED BY <2>2, <2>3
<1>4. CASE UNCHANGED <<accepted, received, mgr>>
  BY <1>4
<1>5. CASE CloseFinalized
  BY <1>5 DEF CloseFinalized
<1> QED
  BY <1>1, <1>2, <1>3, <1>4, <1>5
     DEF Next, Step, Rest, vars, BeginSend, Drain, CallFinalize, ReturnFinalize,
         CloseIn

(* The channel implements the abstract mailbox: its goroutine, its selects  *)
(* and its slice are invisible from outside (channel.go:31-66).             *)
THEOREM Refinement == Spec => ImplementsMailbox
<1>1. Init => Mailbox!MailboxInit
  BY DEF Init, Mailbox!MailboxInit
<1> QED
  BY <1>1, MailboxStep, Invariance, PTL DEF Spec, ImplementsMailbox, Mailbox!MailboxSpec
===============================================================================
