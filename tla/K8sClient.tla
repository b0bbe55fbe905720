------------------------------ MODULE K8sClient --------------------------------
(***************************************************************************)
(* Package k8s: concurrent calls of Remove, Rollout and Get, the goroutines *)
(* that poll for those that wait, and the once-only Init, against an API    *)
(* server.  A request is one step.  The server answers it, or refuses it    *)
(* for a reason of its own, or carries it out and the answer is lost.       *)
(*                                                                          *)
(* Of an object the model keeps its incarnation (uid, the call that made    *)
(* it), the generation of its specification, and its status: the generation *)
(* it is about and whether all replica counts are what the specification    *)
(* wants.  The policy for the children of a removed object is left out:     *)
(* they are the garbage collector's.                                        *)
(***************************************************************************)
EXTENDS Resources, FiniteSets

CONSTANTS
  Requests,        \* calls that may be made: records [op, kind, namespace, name, wait]
  Initially,       \* addresses where there is an object at first
  Templates,       \* volume claim templates of every StatefulSet
  Absent,          \* no object
  MaxCalls         \* bound: calls

Calls == 1 .. MaxCalls
AddressOf(r) == Address(r.kind, r.namespace, r.name)
Places == { AddressOf(r) : r \in Requests } \cup Initially

ASSUME K8sAssumption ==
  /\ \A r \in Requests : r.op \in {"Remove", "Rollout", "Get"} /\ r.wait \in BOOLEAN
  /\ MaxCalls \in Nat

Object == [uid : Nat, gen : Nat, obs : Nat, full : BOOLEAN, going : BOOLEAN]

ASSUME AbsentAssumption == Absent \notin Object

VARIABLES
  once,            \* what Init came to: new, ok, failed, or partly (only the
                   \*   client of the API extensions is missing)
  obj,             \* the API server's objects
  calls,           \* number of calls so far
  call,            \* the calls
  pollers          \* goroutines of waitForRemove and waitForRollout that live

vars == <<once, obj, calls, call, pollers>>

Pcs == {"init", "initFailed", "getSts", "listPvcs", "delete", "create", "update", "look", "await",
        "answered", "panicked"}
Errors == {"none", "nil", "ErrInit", "ErrUnsupported", "ErrParse", "NotFound", "ErrApi",
           "DeadlineExceeded"}

Call == [pc : Pcs, req : Requests, at : Places, pvcs : SUBSET Places, hit : SUBSET Nat,
         wrote : Object \cup {Absent}, seen : Object \cup {Absent}, err : Errors]
Poller == [n : Calls, at : Places, pc : {"get", "closed", "send"}, seen : Object \cup {Absent}]

(* Every variable has its type, and a call that waits has exactly one       *)
(* goroutine to hear from.                                                  *)
TypeOK ==
  /\ once \in {"new", "ok", "failed", "partly"}
  /\ obj \in [Places -> Object \cup {Absent}]
  /\ calls \in 0 .. MaxCalls
  /\ call \in [1 .. calls -> Call]
  /\ pollers \subseteq Poller
  /\ \A p, q \in pollers : p.n = q.n /\ p.at = q.at => p = q
  /\ \A n \in 1 .. calls :
       call[n].pc = "await" => \E p \in pollers : p.n = n /\ p.at = call[n].at

Init ==
  /\ once = "new"
  /\ obj = [a \in Places |->
             IF a \in Initially
               THEN [uid |-> 0, gen |-> 1, obs |-> 1, full |-> a.kind \in RolledOut,
                     going |-> FALSE]
               ELSE Absent]
  /\ calls = 0
  /\ call = <<>>
  /\ pollers = {}

-------------------------------------------------------------------------------
Present(a) == obj[a] # Absent
At(n, pc) == n \in 1 .. calls /\ call[n].pc = pc
Target(n) == AddressOf(call[n].req)

(* Rollout keeps the duration to wait for three kinds, Remove for all. *)
Waits(r) ==
  r.wait /\ (r.op = "Remove" \/ r.kind \in RolledOut \cup {"HorizontalPodAutoscaler"})

Goto(n, pc) == call' = [call EXCEPT ![n].pc = pc]
Answer(n, err) == call' = [call EXCEPT ![n].pc = "answered", ![n].err = err]

BeginCall(r) ==
  /\ calls < MaxCalls
  /\ calls' = calls + 1
  /\ call' = Append(call, [pc |-> "init", req |-> r, at |-> AddressOf(r), pvcs |-> {},
                           hit |-> {}, wrote |-> Absent, seen |-> Absent, err |-> "none"])
  /\ UNCHANGED <<once, obj, pollers>>

-------------------------------------------------------------------------------
(* Init: once.Do holds back the calls that come while it runs.  Its error   *)
(* is known to the call that ran it alone, and is returned by that call     *)
(* when the others may already be past it.                                  *)
RunInit(n) ==
  /\ At(n, "init") /\ once = "new"
  /\ \/ once' = "ok" /\ UNCHANGED call
     \/ once' \in {"failed", "partly"} /\ Goto(n, "initFailed")
  /\ UNCHANGED <<obj, calls, pollers>>

InitError(n) ==
  /\ At(n, "initFailed")
  /\ Answer(n, "ErrInit")
  /\ UNCHANGED <<once, obj, calls, pollers>>

(* Clients that Init did not make are nil, and are used all the same. *)
Usable(kind) == once = "ok" \/ (once = "partly" /\ kind # "CustomResourceDefinition")

FirstStep(r) ==
  CASE r.op = "Remove" /\ r.kind = "StatefulSet" -> "getSts"
    [] r.op = "Remove" /\ r.kind # "StatefulSet" -> "delete"
    [] r.op = "Rollout" -> "create"
    [] r.op = "Get" -> "look"

(* Init returned nil: the switch on the kind. *)
Dispatch(n) ==
  /\ At(n, "init") /\ once # "new"
  /\ LET r == call[n].req IN
       \/ r.kind \notin Kinds /\ Answer(n, "ErrUnsupported")
       \/ r.kind \in Kinds /\ ~Usable(r.kind) /\ Goto(n, "panicked")
       \/ r.kind \in Kinds /\ Usable(r.kind) /\ Goto(n, FirstStep(r))
       \/ r.kind \in Kinds /\ Usable(r.kind) /\ r.op = "Rollout" /\ Answer(n, "ErrParse")
  /\ UNCHANGED <<once, obj, calls, pollers>>

InitStep(n) == RunInit(n) \/ InitError(n) \/ Dispatch(n)

-------------------------------------------------------------------------------
Look(n) ==
  /\ At(n, "look")
  /\ \/ /\ Present(Target(n))
        /\ call' = [call EXCEPT ![n].pc = "answered", ![n].err = "nil",
                                ![n].seen = obj[Target(n)]]
     \/ ~Present(Target(n)) /\ Answer(n, "NotFound")
     \/ Answer(n, "ErrApi")
  /\ UNCHANGED <<once, obj, calls, pollers>>

-------------------------------------------------------------------------------
(* Rollout *)
Spawn(n, a) == pollers' = pollers \cup {[n |-> n, at |-> a, pc |-> "get", seen |-> Absent]}

Written(n, o) ==
  /\ obj' = [obj EXCEPT ![Target(n)] = o]
  /\ \/ /\ Waits(call[n].req)
        /\ call' = [call EXCEPT ![n].pc = "await", ![n].wrote = o]
        /\ Spawn(n, Target(n))
     \/ /\ ~Waits(call[n].req)
        /\ call' = [call EXCEPT ![n].pc = "answered", ![n].err = "nil", ![n].wrote = o]
        /\ UNCHANGED pollers
     \/ Answer(n, "ErrApi") /\ UNCHANGED pollers

Refused(n, err) == Answer(n, err) /\ UNCHANGED <<obj, pollers>>

(* All counts are 0 at first, which may be what is wanted. *)
Created(n) ==
  { [uid |-> n, gen |-> 1, obs |-> 0, full |-> b, going |-> FALSE] :
      b \in IF Target(n).kind \in RolledOut THEN BOOLEAN ELSE {FALSE} }

(* A change of the specification may want as many replicas as there are. *)
Updated(o, kind) ==
  {o} \cup { [o EXCEPT !.gen = @ + 1, !.full = b] :
               b \in IF kind \in RolledOut THEN BOOLEAN ELSE {} }

Create(n) ==
  /\ At(n, "create")
  /\ \/ ~Present(Target(n)) /\ \E o \in Created(n) : Written(n, o)
     \/ Present(Target(n)) /\ Goto(n, "update") /\ UNCHANGED <<obj, pollers>>
     \/ Refused(n, "ErrApi")
  /\ UNCHANGED <<once, calls>>

Update(n) ==
  /\ At(n, "update")
  /\ \/ Present(Target(n)) /\ \E o \in Updated(obj[Target(n)], Target(n).kind) : Written(n, o)
     \/ ~Present(Target(n)) /\ Refused(n, "NotFound")
     \/ Refused(n, "ErrApi")
  /\ UNCHANGED <<once, calls>>

-------------------------------------------------------------------------------
(* Remove *)
GetSts(n) ==
  /\ At(n, "getSts")
  /\ \/ Present(Target(n)) /\ Goto(n, "listPvcs")
     \/ ~Present(Target(n)) /\ Answer(n, "NotFound")
     \/ Answer(n, "ErrApi")
  /\ UNCHANGED <<once, obj, calls, pollers>>

ListPvcs(n) ==
  /\ At(n, "listPvcs")
  /\ \/ call' = [call EXCEPT ![n].pc = "delete",
                   ![n].pvcs = ClaimsOf({ a \in Places : Present(a) }, Target(n), Templates)]
     \/ Answer(n, "ErrApi")
  /\ UNCHANGED <<once, obj, calls, pollers>>

(* The object is gone, as far as it was waited for: its claims are next. *)
NextClaim(r, n) ==
  IF r.pvcs = {}
    THEN call' = [call EXCEPT ![n] = [r EXCEPT !.pc = "answered", !.err = "nil"]]
    ELSE \E p \in r.pvcs :
           call' = [call EXCEPT ![n] = [r EXCEPT !.pc = "delete", !.at = p, !.pvcs = @ \ {p}]]

RemoveFails_Ignored(n, err) == NextClaim(call[n], n)  \* mutant: any error is ignored

(* An error of the removal of a claim is ignored. *)
RemoveFails(n, err) ==
  IF call[n].at = Target(n) THEN Answer(n, err) ELSE NextClaim(call[n], n)

Deleted(n) ==
  LET r == IF call[n].at = Target(n) THEN [call[n] EXCEPT !.hit = {obj[Target(n)].uid}]
                                     ELSE call[n] IN
    IF Waits(r.req)
      THEN call' = [call EXCEPT ![n] = [r EXCEPT !.pc = "await"]] /\ Spawn(n, r.at)
      ELSE NextClaim(r, n) /\ UNCHANGED pollers

(* What has finalizers stays for a while. *)
Delete(n) ==
  /\ At(n, "delete")
  /\ LET a == call[n].at IN
       \/ /\ Present(a)
          /\ \/ obj' = [obj EXCEPT ![a].going = TRUE]
             \/ obj' = [obj EXCEPT ![a] = Absent]
          /\ \/ Deleted(n)
             \/ RemoveFails(n, "ErrApi") /\ UNCHANGED pollers
       \/ ~Present(a) /\ RemoveFails(n, "NotFound") /\ UNCHANGED <<obj, pollers>>
       \/ RemoveFails(n, "ErrApi") /\ UNCHANGED <<obj, pollers>>
  /\ UNCHANGED <<once, calls>>

-------------------------------------------------------------------------------
(* The select of a call that waits, and the goroutine it waits for. *)
IsAwaited(p) == call[p.n].pc = "await" /\ call[p.n].at = p.at
PollerOf(n) == { p \in pollers : p.n = n /\ p.at = call[n].at }

AwaitDone(n) ==
  /\ At(n, "await")
  /\ \E p \in PollerOf(n) :
       /\ p.pc = "closed"
       /\ pollers' = pollers \ {p}
       /\ IF call[n].req.op = "Remove"
            THEN NextClaim(call[n], n)
            ELSE call' = [call EXCEPT ![n].pc = "answered", ![n].err = "nil",
                                      ![n].seen = p.seen]
  /\ UNCHANGED <<once, obj, calls>>

(* The goroutine goes on after it sent an error: to its next poll, or to    *)
(* its end if there is no status to look at.                                *)
AwaitError(n) ==
  /\ At(n, "await")
  /\ \E p \in PollerOf(n) :
       /\ p.pc = "send"
       /\ pollers' = (pollers \ {p}) \cup
                     IF p.at.kind \in RolledOut THEN {[p EXCEPT !.pc = "get"]} ELSE {}
  /\ Answer(n, "ErrApi")
  /\ UNCHANGED <<once, obj, calls>>

TimeOut_Missing(n) == FALSE /\ UNCHANGED vars  \* mutant: the select has no such case

(* Time is up, or the context was cancelled, at any time. *)
TimeOut(n) ==
  /\ At(n, "await")
  /\ IF call[n].req.op = "Remove" THEN RemoveFails(n, "DeadlineExceeded")
                                  ELSE Answer(n, "DeadlineExceeded")
  /\ pollers' = { p \in pollers : ~(p \in PollerOf(n) /\ p.pc = "closed") }
  /\ UNCHANGED <<once, obj, calls>>

(* The goroutine closes its channel and ends; the close matters to a call   *)
(* that still waits.                                                        *)
Close(p, seen) ==
  pollers' = (pollers \ {p}) \cup
             IF IsAwaited(p) THEN {[p EXCEPT !.pc = "closed", !.seen = seen]} ELSE {}

(* Only this answer ends the loop; after any other it sleeps and asks again. *)
IsGone_AnyError(p) == TRUE                  \* mutant: any error of Get is taken for it
IsGone(p) == ~Present(p.at)

PollRemove_Sends(p) ==                      \* mutant: the result is sent, to no one perhaps
  /\ call[p.n].req.op = "Remove" /\ p.pc = "get"
  /\ IsGone(p)
  /\ pollers' = (pollers \ {p}) \cup {[p EXCEPT !.pc = "closed"]}
  /\ UNCHANGED <<once, obj, calls, call>>

PollRemove(p) ==
  /\ call[p.n].req.op = "Remove" /\ p.pc = "get"
  /\ IsGone(p)
  /\ Close(p, Absent)
  /\ UNCHANGED <<once, obj, calls, call>>

IsRolledOut_Counts(o) == o.full             \* mutant: ObservedGeneration is not looked at
IsRolledOut(o) == o.obs >= o.gen /\ o.full

PollRollout(p) ==
  /\ call[p.n].req.op = "Rollout" /\ p.pc = "get"
  /\ \/ /\ Present(p.at)
        /\ p.at.kind \in RolledOut => IsRolledOut(obj[p.at])
        /\ Close(p, obj[p.at])
     \/ pollers' = (pollers \ {p}) \cup {[p EXCEPT !.pc = "send"]}  \* an error, NotFound or other
  /\ UNCHANGED <<once, obj, calls, call>>

-------------------------------------------------------------------------------
(* The API server and its controllers. *)
ReportStatus(a) ==
  /\ a.kind \in RolledOut /\ Present(a)
  /\ \E b \in BOOLEAN : obj' = [obj EXCEPT ![a].obs = obj[a].gen, ![a].full = b]
  /\ UNCHANGED <<once, calls, call, pollers>>

Finalize(a) ==
  /\ Present(a) /\ obj[a].going
  /\ obj' = [obj EXCEPT ![a] = Absent]
  /\ UNCHANGED <<once, calls, call, pollers>>

CallStep(n) ==
  \/ InitStep(n) \/ Look(n) \/ Create(n) \/ Update(n) \/ GetSts(n) \/ ListPvcs(n) \/ Delete(n)
  \/ AwaitDone(n) \/ AwaitError(n) \/ TimeOut(n)

PollStep(n, a) == \E p \in pollers : p.n = n /\ p.at = a /\ (PollRemove(p) \/ PollRollout(p))

Next ==
  \/ \E r \in Requests : BeginCall(r)
  \/ \E n \in Calls : CallStep(n) \/ (\E a \in Places : PollStep(n, a))
  \/ \E a \in Places : ReportStatus(a) \/ Finalize(a)

Spec == Init /\ [][Next]_vars

(* Fairness: the server answers, time passes, goroutines are scheduled.  No *)
(* object need ever go away or be rolled out.                               *)
FairSpec ==
  /\ Spec
  /\ \A n \in Calls : WF_vars(CallStep(n)) /\ \A a \in Places : WF_vars(PollStep(n, a))

-------------------------------------------------------------------------------
Answered(n, op, err) ==
  n \in 1 .. calls /\ call[n].pc = "answered" /\ call[n].req.op = op /\ call[n].err = err

(* A Remove that waited and returned nil saw its object go: what is there   *)
(* now is another incarnation (k8s.go:313-331).  The answers of a server in *)
(* trouble are not taken for its absence.                                   *)
RemovedMeansGone ==
  \A n \in Calls :
    Answered(n, "Remove", "nil") /\ call[n].req.wait =>
      ~(Present(Target(n)) /\ obj[Target(n)].uid \in call[n].hit)

(* The status that satisfied a Rollout is not one from before its own       *)
(* update, which may look complete: it is about the generation written, or  *)
(* a later one, or another incarnation (k8s.go:360-375).                    *)
RolloutSeesItsOwn ==
  \A n \in Calls :
    Answered(n, "Rollout", "nil") /\ Waits(call[n].req) /\ call[n].req.kind \in RolledOut =>
      LET seen == call[n].seen  wrote == call[n].wrote IN
        seen.full /\ (seen.uid = wrote.uid => seen.obs >= wrote.gen)

(* No claim is removed while its StatefulSet may stay: its removal was      *)
(* accepted, and when the call waits it has gone (k8s.go:512-524).          *)
DataGoesLast ==
  \A n \in 1 .. calls :
    call[n].req.op = "Remove" /\ call[n].at # Target(n) =>
      /\ call[n].hit # {}
      /\ Present(Target(n)) /\ obj[Target(n)].uid \in call[n].hit =>
           ~call[n].req.wait /\ obj[Target(n)].going

(* Every call returns, whatever the objects and the goroutines do           *)
(* (k8s.go:332-339, 389-396).                                               *)
EveryCallReturns ==
  \A n \in Calls : n \in 1 .. calls ~> n \in 1 .. calls /\ call[n].pc \in {"answered", "panicked"}

(* A goroutine that waits for an object to go ends once it stays away, even *)
(* when the call it polls for has long timed out (k8s.go:317-331).          *)
GoneEndsPollers ==
  \A a \in Places :
    <>[]~Present(a) =>
      <>[]~\E p \in pollers : p.at = a /\ call[p.n].req.op = "Remove"

(* Remove takes the claims that "belong to statefulset" (k8s.go:521) and no *)
(* others.                                                                  *)
OnlyItsOwnClaims ==
  \A n \in 1 .. calls :
    \A p \in call[n].pvcs \cup ({call[n].at} \ {Target(n)}) : BelongsTo(p, Target(n), Templates)
===============================================================================
