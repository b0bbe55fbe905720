--------------------------- MODULE UnlimitedChannel ---------------------------
(***************************************************************************)
(* safe.UnlimitedChannel: an unbounded FIFO between two unbuffered Go      *)
(* channels, served by one manager goroutine.  A send on the in channel    *)
(* and a receive on the out channel are rendezvous with the manager, whose *)
(* select statements take any case that is ready.                          *)
(*                                                                         *)
(* Every item is sent once, by a goroutine of its own: which goroutine     *)
(* sends is not told apart, the order in which the manager accepts is.     *)
(* A receiver is always willing, so HandOut needs no state of its own; it  *)
(* is fair only where a property says that receivers keep coming.          *)
(***************************************************************************)
EXTENDS Naturals, Sequences, FiniteSets

CONSTANTS
  Items,          \* what is sent on In()
  Finalizers,     \* the goroutines that call Finalize()
  InMayClose      \* whether a client closes the channel In() returns

ASSUME InMayCloseIsBoolean == InMayClose \in BOOLEAN

VARIABLES
  send,           \* per item: its sender has not started, is blocked, or is through
  inClosed,       \* the in channel is closed
  outClosed,      \* the out channel is closed
  storage,        \* the slice c.storage
  mgr,            \* where the manager goroutine is
  ctxDone,        \* cancel() was called
  finalize,       \* per finalizer: idle, blocked on <-c.finalized, or returned
  result,         \* per finalizer: the slice Finalize returned
  accepted,       \* history: the items the manager stored, in order
  received        \* history: the items that left through the out channel

vars == <<send, inClosed, outClosed, storage, mgr, ctxDone, finalize, result,
          accepted, received>>

(* Every variable has its type, and the manager leaves its selects only     *)
(* with c.out closed, unless it panics.                                     *)
TypeOK ==
  /\ send \in [Items -> {"idle", "blocked", "through"}]
  /\ inClosed \in BOOLEAN
  /\ outClosed \in BOOLEAN
  /\ storage \in Seq(Items)
  /\ mgr \in {"select", "closing", "drain", "panicked"}
  /\ ctxDone \in BOOLEAN
  /\ finalize \in [Finalizers -> {"idle", "blocked", "returned"}]
  /\ result \in [Finalizers -> Seq(Items)]
  /\ accepted \in Seq(Items)
  /\ received \in Seq(Items)
  /\ mgr \in {"closing", "drain"} => outClosed

-------------------------------------------------------------------------------
(* NewUnlimitedChannel *)
Init ==
  /\ send = [i \in Items |-> "idle"]
  /\ inClosed = FALSE
  /\ outClosed = FALSE
  /\ storage = <<>>
  /\ mgr = "select"
  /\ ctxDone = FALSE
  /\ finalize = [f \in Finalizers |-> "idle"]
  /\ result = [f \in Finalizers |-> <<>>]
  /\ accepted = <<>>
  /\ received = <<>>

-------------------------------------------------------------------------------
(* The clients *)

(* c.In() <- i, which blocks until the manager takes the item. *)
BeginSend(i) ==
  /\ send[i] = "idle"
  /\ ~inClosed
  /\ send' = [send EXCEPT ![i] = "blocked"]
  /\ UNCHANGED <<inClosed, outClosed, storage, mgr, ctxDone, finalize, result,
                 accepted, received>>

(* In() returns the channel itself, so a client can close it. *)
CloseIn ==
  /\ InMayClose
  /\ ~inClosed
  /\ \A i \in Items : send[i] # "blocked"
  /\ inClosed' = TRUE
  /\ UNCHANGED <<send, outClosed, storage, mgr, ctxDone, finalize, result,
                 accepted, received>>

(* Finalize: cancel, then wait for the manager ... *)
CallFinalize(f) ==
  /\ finalize[f] = "idle"
  /\ finalize' = [finalize EXCEPT ![f] = "blocked"]
  /\ ctxDone' = TRUE
  /\ UNCHANGED <<send, inClosed, outClosed, storage, mgr, result, accepted,
                 received>>

(* ... and return what is stored once it closed c.finalized. *)
ReturnFinalize(f) ==
  /\ finalize[f] = "blocked"
  /\ mgr = "drain"
  /\ finalize' = [finalize EXCEPT ![f] = "returned"]
  /\ result' = [result EXCEPT ![f] = storage]
  /\ UNCHANGED <<send, inClosed, outClosed, storage, mgr, ctxDone, accepted,
                 received>>

-------------------------------------------------------------------------------
(* The manager *)

(* A receive from c.in that delivers an item: the send is through. *)
TakeIn(i) ==
  /\ mgr = "select"
  /\ send[i] = "blocked"
  /\ send' = [send EXCEPT ![i] = "through"]
  /\ storage' = Append(storage, i)
  /\ accepted' = Append(accepted, i)
  /\ UNCHANGED <<inClosed, outClosed, mgr, ctxDone, finalize, result, received>>

(* A receive from the closed c.in closes c.out and stays in the loop.  It   *)
(* panics at once when c.out is closed already, and right after it when the *)
(* storage is empty, where the second select evaluates c.storage[0].        *)
TakeInClosed ==
  /\ mgr = "select"
  /\ inClosed
  /\ outClosed' = TRUE
  /\ mgr' = IF outClosed \/ storage = <<>> THEN "panicked" ELSE "select"
  /\ UNCHANGED <<send, inClosed, storage, ctxDone, finalize, result, accepted,
                 received>>

(* Mutants of HandOut: the slice is not advanced; the last stored item is   *)
(* kept back; the safety loop goes on serving receivers.                    *)
HandOut_KeepsHead ==
  /\ mgr = "select"
  /\ storage # <<>>
  /\ ~outClosed
  /\ received' = Append(received, Head(storage))
  /\ UNCHANGED <<send, inClosed, outClosed, storage, mgr, ctxDone, finalize,
                 result, accepted>>

HandOut_KeepsLast ==
  /\ mgr = "select"
  /\ Len(storage) > 1
  /\ ~outClosed
  /\ received' = Append(received, Head(storage))
  /\ storage' = Tail(storage)
  /\ UNCHANGED <<send, inClosed, outClosed, mgr, ctxDone, finalize, result,
                 accepted>>

HandOut_WhileDraining ==
  /\ mgr \in {"select", "drain"}
  /\ storage # <<>>
  /\ received' = Append(received, Head(storage))
  /\ storage' = Tail(storage)
  /\ UNCHANGED <<send, inClosed, outClosed, mgr, ctxDone, finalize, result,
                 accepted>>

(* c.out <- c.storage[0] meets a receiver. *)
HandOut ==
  /\ mgr = "select"
  /\ storage # <<>>
  /\ ~outClosed
  /\ received' = Append(received, Head(storage))
  /\ storage' = Tail(storage)
  /\ UNCHANGED <<send, inClosed, outClosed, mgr, ctxDone, finalize, result,
                 accepted>>

(* The same case when c.out is closed: a send on a closed channel panics. *)
HandOutOnClosed ==
  /\ mgr = "select"
  /\ storage # <<>>
  /\ outClosed
  /\ mgr' = "panicked"
  /\ UNCHANGED <<send, inClosed, outClosed, storage, ctxDone, finalize, result,
                 accepted, received>>

(* <-ctx.Done(): close(c.out), which panics when it is closed already. *)
NoticeCancel ==
  /\ mgr = "select"
  /\ ctxDone
  /\ outClosed' = TRUE
  /\ mgr' = IF outClosed THEN "panicked" ELSE "closing"
  /\ UNCHANGED <<send, inClosed, storage, ctxDone, finalize, result, accepted,
                 received>>

(* Mutant of CloseFinalized: close(finalized) sits behind the safety loop.  *)
CloseFinalized_Unreachable ==
  /\ mgr = "closing"
  /\ UNCHANGED vars

(* close(finalized) *)
CloseFinalized ==
  /\ mgr = "closing"
  /\ mgr' = "drain"
  /\ UNCHANGED <<send, inClosed, outClosed, storage, ctxDone, finalize, result,
                 accepted, received>>

(* Mutants of Drain: the loop stores what it takes; there is no loop.       *)
Drain_Stores(i) ==
  /\ mgr = "drain"
  /\ send[i] = "blocked"
  /\ send' = [send EXCEPT ![i] = "through"]
  /\ storage' = Append(storage, i)
  /\ accepted' = Append(accepted, i)
  /\ UNCHANGED <<inClosed, outClosed, mgr, ctxDone, finalize, result, received>>

Drain_Missing(i) ==
  /\ mgr = "drain"
  /\ send[i] = "blocked"
  /\ UNCHANGED vars

(* The safety loop swallows what is still being sent. *)
Drain(i) ==
  /\ mgr = "drain"
  /\ send[i] = "blocked"
  /\ send' = [send EXCEPT ![i] = "through"]
  /\ UNCHANGED <<inClosed, outClosed, storage, mgr, ctxDone, finalize, result,
                 accepted, received>>

(* The system may stop where no call of a client is pending, and after a    *)
(* panic, which ends the whole process.                                     *)
Rest ==
  /\ \/ mgr = "panicked"
     \/ /\ mgr # "closing"
        /\ \A i \in Items : send[i] # "blocked"
        /\ \A f \in Finalizers : finalize[f] # "blocked"
  /\ UNCHANGED vars

Step ==
  \/ \E i \in Items : BeginSend(i) \/ TakeIn(i) \/ Drain(i)
  \/ \E f \in Finalizers : CallFinalize(f) \/ ReturnFinalize(f)
  \/ CloseIn
  \/ TakeInClosed
  \/ HandOut
  \/ HandOutOnClosed
  \/ NoticeCancel
  \/ CloseFinalized

Next == (mgr # "panicked" /\ Step) \/ Rest

Spec == Init /\ [][Next]_vars

-------------------------------------------------------------------------------
(* Fairness.  The runtime schedules every goroutine that can run, and a     *)
(* select picks uniformly among the ready cases, so that a case that stays  *)
(* ready is taken eventually.                                               *)
ManagerFairness ==
  /\ WF_vars(NoticeCancel)
  /\ WF_vars(CloseFinalized)
  /\ WF_vars(TakeInClosed \/ HandOutOnClosed)
  /\ \A i \in Items : WF_vars(TakeIn(i) \/ Drain(i))
  /\ \A f \in Finalizers : WF_vars(ReturnFinalize(f))

(* Receivers keep coming, as the workers of a balanced pool do. *)
ServedSpec == Spec /\ ManagerFairness /\ WF_vars(HandOut)

-------------------------------------------------------------------------------
(* The items that occur in a sequence *)
Elements(seq) == {seq[n] : n \in DOMAIN seq}

(* No item is lost, duplicated or overtaken between the two channels: what *)
(* was accepted is what was received followed by what is stored             *)
(* (channel.go:32-60).                                                      *)
NothingLostOrReordered == accepted = received \o storage

(* When Finalize returns, the out channel is closed and the slice it        *)
(* returns is exactly the rest, now and for ever: a send that the manager   *)
(* drains later does not reach it (channel.go:61-65, 81-85).                *)
FinalizeReturnsTheRest ==
  \A f \in Finalizers :
    finalize[f] = "returned" =>
      /\ outClosed
      /\ accepted = received \o result[f]

(* The manager closes c.out and indexes c.storage in several places; only a *)
(* client that closes In() can bring it to do so twice or on an empty slice *)
(* (channel.go:32-59).                                                      *)
PanicsOnlyIfInWasClosed == mgr = "panicked" => inClosed

(* The channel implements the abstract mailbox: it is open while the        *)
(* manager is in its selects and has not closed c.out.                      *)
Mailbox == INSTANCE FifoMailbox WITH
  delivered <- received,
  open      <- mgr = "select"

ImplementsMailbox == Mailbox!MailboxSpec

(* "Write to In() won't block even after finalize" (channel.go:80): every   *)
(* send gets through, whichever way it races with Finalize, unless a panic  *)
(* ends the process.                                                        *)
EverySendGetsThrough ==
  \A i \in Items : send[i] = "blocked" ~> send[i] = "through" \/ mgr = "panicked"

(* Finalize returns although senders and receivers keep the selects busy    *)
(* (channel.go:81-86).                                                      *)
EveryFinalizeReturns ==
  \A f \in Finalizers :
    finalize[f] = "blocked" ~> finalize[f] = "returned" \/ mgr = "panicked"

(* An accepted item surfaces: a receiver gets it, or a call of Finalize     *)
(* returns it (channel.go:51-59, 85).                                       *)
EveryAcceptedItemSurfaces ==
  \A i \in Items :
    (i \in Elements(accepted)) ~>
      \/ mgr = "panicked"
      \/ i \in Elements(received)
      \/ \E f \in Finalizers :
           finalize[f] = "returned" /\ i \in Elements(result[f])
===============================================================================
