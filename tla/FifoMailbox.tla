----------------------------- MODULE FifoMailbox -----------------------------
(***************************************************************************)
(* What safe.UnlimitedChannel promises, without its goroutine, its select  *)
(* statements and its slice: items come out in the order they were         *)
(* accepted, each at most once, until the mailbox is shut; from then on    *)
(* nothing goes in and nothing comes out.  What was accepted and has not   *)
(* come out by then is the rest that Finalize hands back.                  *)
(*                                                                         *)
(* UnlimitedChannel implements this specification, and BalancedPool is     *)
(* built on it: each of its workers' queues is shown to follow it.         *)
(***************************************************************************)
EXTENDS Naturals, Sequences

CONSTANT Items     \* what may be put into the mailbox

VARIABLES
  accepted,        \* every item that went in, in order
  delivered,       \* every item that came out, in order
  open             \* FALSE once the mailbox is shut

mailboxVars == <<accepted, delivered, open>>

MailboxInit ==
  /\ accepted = <<>>
  /\ delivered = <<>>
  /\ open = TRUE

(* An item goes in while the mailbox is open. *)
Accept(i) ==
  /\ open
  /\ accepted' = Append(accepted, i)
  /\ UNCHANGED <<delivered, open>>

(* The oldest item that is still inside comes out. *)
Deliver ==
  /\ open
  /\ Len(delivered) < Len(accepted)
  /\ delivered' = Append(delivered, accepted[Len(delivered) + 1])
  /\ UNCHANGED <<accepted, open>>

Shut ==
  /\ open
  /\ open' = FALSE
  /\ UNCHANGED <<accepted, delivered>>

MailboxNext ==
  \/ \E i \in Items : Accept(i)
  \/ Deliver
  \/ Shut

MailboxSpec == MailboxInit /\ [][MailboxNext]_mailboxVars
==============================================================================
