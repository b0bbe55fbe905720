---------------------------- MODULE K8sClient_proofs ----------------------------
(***************************************************************************)
(* Theorems about K8sClient, for any calls, objects and templates: the     *)
(* types of its variables, what nil from Remove and from Rollout means, and *)
(* that claims go last.                                                    *)
(***************************************************************************)
EXTENDS K8sClient, SequenceTheorems, TLAPS

(* The part of the type invariant that says nothing of goroutines. *)
Types ==
  /\ once \in {"new", "ok", "failed", "partly"}
  /\ obj \in [Places -> Object \cup {Absent}]
  /\ calls \in 0 .. MaxCalls
  /\ call \in [1 .. calls -> Call]
  /\ pollers \subseteq Poller

LEMMA TargetPlace == ASSUME Types, NEW n \in 1 .. calls PROVE Target(n) \in Places
  BY DEF Types, Call, Target, Places

LEMMA NumbersAreCalls == Types => 1 .. calls \subseteq Calls /\ calls \in Nat
  BY K8sAssumption DEF Types, Calls

-------------------------------------------------------------------------------
(* How the calls change *)

(* The record of a call that begins. *)
Begun(r) == [pc |-> "init", req |-> r, at |-> AddressOf(r), pvcs |-> {}, hit |-> {},
             wrote |-> Absent, seen |-> Absent, err |-> "none"]

LEMMA BeginTypes ==
  ASSUME Types, NEW r \in Requests, BeginCall(r)
  PROVE  /\ calls' = calls + 1 /\ calls' \in 1 .. MaxCalls
         /\ call' \in [1 .. calls' -> Call]
         /\ \A n \in 1 .. calls : call'[n] = call[n]
         /\ call'[calls'] = Begun(r)
<1>1. Begun(r) \in Call
  BY DEF Call, Places, Begun, Pcs, Errors
<1>2. calls \in Nat /\ calls' = calls + 1 /\ calls' \in 1 .. MaxCalls
  BY K8sAssumption DEF Types, BeginCall
<1>3. call \in Seq(Call) /\ Len(call) = calls
  BY <1>2 DEF Types
<1>4. /\ Append(call, Begun(r)) \in Seq(Call)
      /\ Len(Append(call, Begun(r))) = calls + 1
      /\ \A n \in 1 .. calls : Append(call, Begun(r))[n] = call[n]
      /\ Append(call, Begun(r))[calls + 1] = Begun(r)
  BY <1>1, <1>2, <1>3, AppendProperties
<1>5. call' = Append(call, Begun(r))
  BY DEF BeginCall, Begun
<1>6. call' \in [1 .. calls' -> Call]
  BY <1>2, <1>4, <1>5, LenProperties
<1> QED
  BY <1>2, <1>4, <1>5, <1>6

(* One call's record changes. *)
LEMMA OneCall ==
  ASSUME Types, NEW n \in 1 .. calls, NEW c \in Call, call' = [call EXCEPT ![n] = c],
         UNCHANGED calls
  PROVE  /\ call' \in [1 .. calls' -> Call]
         /\ call'[n] = c
         /\ \A m \in 1 .. calls : m # n => call'[m] = call[m]
  BY DEF Types

(* What a call may become: an error, or what comes after r has what it      *)
(* waited for.                                                              *)
Failed(c) == { [c EXCEPT !.pc = "answered", !.err = err] : err \in Errors \ {"nil"} }

After(r) ==
  { c \in {[r EXCEPT !.pc = "answered", !.err = "nil"]} : r.pvcs = {} }
  \cup { [r EXCEPT !.pc = "delete", !.at = p, !.pvcs = @ \ {p}] : p \in r.pvcs }

LEMMA FailedTypes == ASSUME NEW c \in Call PROVE Failed(c) \subseteq Call
  BY DEF Failed, Call, Pcs

LEMMA AfterTypes == ASSUME NEW r \in Call PROVE After(r) \subseteq Call
<1>1. [r EXCEPT !.pc = "answered", !.err = "nil"] \in Call
  BY DEF Call, Pcs, Errors
<1>2. ASSUME NEW p \in r.pvcs
      PROVE  [r EXCEPT !.pc = "delete", !.at = p, !.pvcs = @ \ {p}] \in Call
  BY DEF Call, Pcs
<1> QED
  BY <1>1, <1>2 DEF After

LEMMA AnswerFails ==
  ASSUME NEW n, NEW err \in Errors \ {"nil"}, Answer(n, err), Types, n \in 1 .. calls
  PROVE  \E c \in Failed(call[n]) : call' = [call EXCEPT ![n] = c]
<1>1. [call[n] EXCEPT !.pc = "answered", !.err = err] \in Failed(call[n])
  BY DEF Failed
<1>2. call' = [call EXCEPT ![n] = [call[n] EXCEPT !.pc = "answered", !.err = err]]
  BY DEF Answer, Types
<1> QED
  BY <1>1, <1>2

LEMMA NextClaimIsAfter ==
  ASSUME NEW n, NEW r, NextClaim(r, n)
  PROVE  \E c \in After(r) : call' = [call EXCEPT ![n] = c]
<1>1. CASE r.pvcs = {}
  BY <1>1 DEF NextClaim, After
<1>2. CASE r.pvcs # {}
  <2>1. PICK p \in r.pvcs :
          call' = [call EXCEPT ![n] = [r EXCEPT !.pc = "delete", !.at = p, !.pvcs = @ \ {p}]]
    BY <1>2 DEF NextClaim
  <2>2. [r EXCEPT !.pc = "delete", !.at = p, !.pvcs = @ \ {p}] \in After(r)
    BY DEF After
  <2> QED BY <2>1, <2>2
<1> QED
  BY <1>1, <1>2

(* A removal that fails ends the call if it is the object's own. *)
LEMMA RemoveFailsCases ==
  ASSUME NEW n, NEW err \in Errors \ {"nil"}, RemoveFails(n, err), Types, n \in 1 .. calls
  PROVE  \E c \in IF call[n].at = Target(n) THEN Failed(call[n]) ELSE After(call[n]) :
           call' = [call EXCEPT ![n] = c]
<1>1. CASE call[n].at = Target(n)
  BY <1>1, AnswerFails DEF RemoveFails
<1>2. CASE call[n].at # Target(n)
  BY <1>2, NextClaimIsAfter DEF RemoveFails
<1> QED
  BY <1>1, <1>2

(* The record of a call whose Delete was accepted. *)
Accepted(n) ==
  IF call[n].at = Target(n) THEN [call[n] EXCEPT !.hit = {obj[Target(n)].uid}] ELSE call[n]

LEMMA AcceptedTypes ==
  ASSUME Types, NEW n \in 1 .. calls, Present(call[n].at) PROVE Accepted(n) \in Call
<1>1. call[n] \in Call
  BY DEF Types
<1>2. CASE call[n].at = Target(n)
  <2>1. obj[Target(n)].uid \in Nat
    BY <1>2, TargetPlace DEF Types, Present, Object
  <2> QED BY <1>1, <1>2, <2>1 DEF Accepted, Call
<1> QED
  BY <1>1, <1>2 DEF Accepted

LEMMA DeletedCases ==
  ASSUME Types, NEW n \in 1 .. calls, Deleted(n)
  PROVE  \/ /\ Waits(call[n].req)
            /\ call' = [call EXCEPT ![n] = [Accepted(n) EXCEPT !.pc = "await"]]
            /\ Spawn(n, call[n].at)
         \/ /\ ~Waits(call[n].req)
            /\ \E c \in After(Accepted(n)) : call' = [call EXCEPT ![n] = c]
            /\ UNCHANGED pollers
<1>1. Accepted(n).req = call[n].req /\ Accepted(n).at = call[n].at
  BY DEF Accepted, Types, Call
<1>2. CASE Waits(call[n].req)
  BY <1>1, <1>2 DEF Deleted, Accepted
<1>3. CASE ~Waits(call[n].req)
  BY <1>1, <1>3, NextClaimIsAfter DEF Deleted, Accepted
<1> QED
  BY <1>2, <1>3

-------------------------------------------------------------------------------
(* The types *)

(* What a step of a call may do to its own record: every other call and the *)
(* request stay.                                                            *)
Becomes(n, c) ==
  /\ n \in 1 .. calls /\ c \in Call /\ c.req = call[n].req
  /\ call' = [call EXCEPT ![n] = c]
  /\ UNCHANGED calls

LEMMA FailedKeeps ==
  ASSUME NEW c \in Call, NEW d \in Failed(c)
  PROVE  /\ d \in Call /\ d.pc = "answered" /\ d.err # "nil"
         /\ d.req = c.req /\ d.at = c.at /\ d.pvcs = c.pvcs /\ d.hit = c.hit
         /\ d.wrote = c.wrote /\ d.seen = c.seen
  BY FailedTypes DEF Failed, Call

LEMMA AfterKeeps ==
  ASSUME NEW c \in Call, NEW d \in After(c)
  PROVE  /\ d \in Call
         /\ d.req = c.req /\ d.hit = c.hit /\ d.wrote = c.wrote /\ d.seen = c.seen
         /\ \/ d.pc = "answered" /\ d.err = "nil" /\ d.at = c.at /\ d.pvcs = {} /\ c.pvcs = {}
            \/ d.pc = "delete" /\ d.at \in c.pvcs /\ d.pvcs = c.pvcs \ {d.at} /\ d.err = c.err
<1>1. d \in Call
  BY AfterTypes
<1>2. CASE c.pvcs = {} /\ d = [c EXCEPT !.pc = "answered", !.err = "nil"]
  BY <1>1, <1>2 DEF Call
<1>3. CASE \E p \in c.pvcs : d = [c EXCEPT !.pc = "delete", !.at = p, !.pvcs = @ \ {p}]
  <2>1. PICK p \in c.pvcs : d = [c EXCEPT !.pc = "delete", !.at = p, !.pvcs = @ \ {p}]
    BY <1>3
  <2>2. d.pc = "delete" /\ d.at = p /\ d.pvcs = c.pvcs \ {p}
    BY <2>1 DEF Call
  <2> QED BY <1>1, <2>1, <2>2 DEF Call
<1> QED
  BY <1>2, <1>3 DEF After

LEMMA AcceptedKeeps ==
  ASSUME Types, NEW n \in 1 .. calls, Present(call[n].at)
  PROVE  LET c == call[n]  d == Accepted(n) IN
           /\ d \in Call /\ d.pc = c.pc /\ d.err = c.err
           /\ d.req = c.req /\ d.at = c.at /\ d.pvcs = c.pvcs
           /\ d.wrote = c.wrote /\ d.seen = c.seen
           /\ d.hit = IF c.at = Target(n) THEN {obj[Target(n)].uid} ELSE c.hit
  BY AcceptedTypes DEF Accepted, Types, Call

(* All but where the call is and its error. *)
Same(c, d) ==
  c.at = d.at /\ c.pvcs = d.pvcs /\ c.hit = d.hit /\ c.wrote = d.wrote /\ c.seen = d.seen

(* What Init and the switch after it make of a call. *)
Started(n) ==
  { c \in Call :
      /\ Same(c, call[n]) /\ c.req = call[n].req
      /\ c.pc \in {"init", "initFailed", "answered", "panicked", "getSts", "delete", "create",
                   "look"}
      /\ c.pc = "answered" => c.err # "nil"
      /\ call[n].pc = "initFailed" => c.pc = "answered"
      /\ c.pc = "getSts" => c.req.op = "Remove" /\ c.req.kind = "StatefulSet"
      /\ c.pc = "delete" => c.req.op = "Remove"
      /\ c.pc = "create" => c.req.op = "Rollout"
      /\ c.pc = "look" => c.req.op = "Get" }

LEMMA StepsAreKnown ==
  ASSUME NEW r \in Requests
  PROVE  /\ FirstStep(r) \in {"getSts", "delete", "create", "look"}
         /\ FirstStep(r) = "getSts" => r.op = "Remove" /\ r.kind = "StatefulSet"
         /\ FirstStep(r) = "delete" => r.op = "Remove"
         /\ FirstStep(r) = "create" => r.op = "Rollout"
         /\ FirstStep(r) = "look" => r.op = "Get"
<1>1. r.op \in {"Remove", "Rollout", "Get"}
  BY K8sAssumption
<1>2. /\ r.op = "Remove" /\ r.kind = "StatefulSet" => FirstStep(r) = "getSts"
      /\ r.op = "Remove" /\ r.kind # "StatefulSet" => FirstStep(r) = "delete"
      /\ r.op = "Rollout" => FirstStep(r) = "create"
      /\ r.op = "Get" => FirstStep(r) = "look"
  BY DEF FirstStep
<1> QED
  BY <1>1, <1>2

LEMMA InitStepBecomes ==
  ASSUME Types, NEW n, InitStep(n)
  PROVE  /\ n \in 1 .. calls /\ call[n].pc \in {"init", "initFailed"}
         /\ UNCHANGED <<obj, calls, pollers>>
         /\ once' \in {"new", "ok", "failed", "partly"}
         /\ \E c \in Started(n) : Becomes(n, c)
<1>1. /\ n \in 1 .. calls /\ call[n].pc \in {"init", "initFailed"} /\ call[n] \in Call
      /\ UNCHANGED <<obj, calls, pollers>>
  BY DEF InitStep, RunInit, InitError, Dispatch, At, Types
<1>2. once' \in {"new", "ok", "failed", "partly"}
  BY DEF InitStep, RunInit, InitError, Dispatch, Types
<1> SUFFICES \E c \in Started(n) : Becomes(n, c)
  BY <1>1, <1>2
<1>3. ASSUME NEW pc \in {"initFailed", "panicked", "getSts", "delete", "create", "look"},
             Goto(n, pc),
             pc = "getSts" => call[n].req.op = "Remove" /\ call[n].req.kind = "StatefulSet",
             pc = "delete" => call[n].req.op = "Remove",
             pc = "create" => call[n].req.op = "Rollout",
             pc = "look" => call[n].req.op = "Get",
             call[n].pc = "init"
      PROVE  \E c \in Started(n) : Becomes(n, c)
  <2> DEFINE c == [call[n] EXCEPT !.pc = pc]
  <2>1. pc \in Pcs
    BY DEF Pcs
  <2>2. c \in Call /\ c.pc = pc /\ c.req = call[n].req /\ Same(c, call[n])
    BY <1>1, <2>1 DEF Call, Same
  <2>3. call' = [call EXCEPT ![n] = c]
    BY <1>3 DEF Goto, Types
  <2> HIDE DEF c
  <2>4. c \in Started(n)
    BY <1>3, <2>2 DEF Started
  <2> QED BY <1>1, <2>2, <2>3, <2>4 DEF Becomes
<1>4. ASSUME NEW err \in Errors \ {"nil"}, Answer(n, err)
      PROVE  \E c \in Started(n) : Becomes(n, c)
  <2>1. PICK c \in Failed(call[n]) : call' = [call EXCEPT ![n] = c]
    BY <1>1, <1>4, AnswerFails
  <2>2. /\ c \in Call /\ c.pc = "answered" /\ c.err # "nil" /\ c.req = call[n].req
        /\ Same(c, call[n])
    BY <1>1, FailedKeeps DEF Same
  <2>3. c \in Started(n)
    BY <2>2 DEF Started
  <2> QED BY <1>1, <2>1, <2>2, <2>3 DEF Becomes
<1>5. CASE RunInit(n)
  <2>1. CASE UNCHANGED call
    <3>1. call' = [call EXCEPT ![n] = call[n]]
      BY <1>1, <2>1 DEF Types
    <3>2. call[n] \in Started(n)
      BY <1>1, <1>5 DEF Started, Same, RunInit, At
    <3> QED BY <1>1, <3>1, <3>2 DEF Becomes
  <2>2. CASE Goto(n, "initFailed")
    BY <1>3, <1>5, <2>2 DEF RunInit, At
  <2> QED BY <1>5, <2>1, <2>2 DEF RunInit
<1>6. CASE InitError(n)
  <2>1. "ErrInit" \in Errors \ {"nil"}
    BY DEF Errors
  <2> QED BY <1>4, <1>6, <2>1 DEF InitError
<1>7. CASE Dispatch(n)
  <2>1. {"ErrUnsupported", "ErrParse"} \subseteq Errors \ {"nil"}
    BY DEF Errors
  <2>2. call[n].req \in Requests
    BY <1>1 DEF Call
  <2>3. CASE Goto(n, FirstStep(call[n].req))
    BY <1>3, <1>7, <2>2, <2>3, StepsAreKnown DEF Dispatch, At
  <2>4. CASE Goto(n, "panicked")
    BY <1>3, <1>7, <2>4 DEF Dispatch, At
  <2>5. CASE Answer(n, "ErrUnsupported") \/ Answer(n, "ErrParse")
    BY <1>4, <2>1, <2>5
  <2> QED BY <1>7, <2>3, <2>4, <2>5 DEF Dispatch
<1> QED
  BY <1>5, <1>6, <1>7 DEF InitStep

LEMMA LookBecomes ==
  ASSUME Types, NEW n, Look(n)
  PROVE  /\ At(n, "look") /\ UNCHANGED <<obj, pollers>>
         /\ \E c \in Call :
              /\ Becomes(n, c)
              /\ c.pc = "answered" /\ c.at = call[n].at /\ c.pvcs = call[n].pvcs
              /\ c.hit = call[n].hit /\ c.wrote = call[n].wrote
<1> DEFINE Found == [call[n] EXCEPT !.pc = "answered", !.err = "nil", !.seen = obj[Target(n)]]
<1>1. n \in 1 .. calls /\ call[n] \in Call /\ Target(n) \in Places
  BY TargetPlace DEF Look, At, Types
<1>2. CASE Present(Target(n)) /\ call' = [call EXCEPT ![n] = Found]
  <2>1. obj[Target(n)] \in Object \cup {Absent}
    BY <1>1 DEF Types
  <2>2. Found \in Call /\ Found.req = call[n].req
    BY <1>1, <2>1 DEF Call, Pcs, Errors
  <2>3. Becomes(n, Found)
    BY <1>1, <1>2, <2>2 DEF Becomes, Look
  <2> QED BY <1>1, <2>2, <2>3 DEF Look, Call
<1>3. CASE \E err \in {"NotFound", "ErrApi"} : Answer(n, err)
  <2>1. PICK c \in Failed(call[n]) : call' = [call EXCEPT ![n] = c]
    BY <1>1, <1>3, AnswerFails DEF Errors
  <2>2. Becomes(n, c)
    BY <1>1, <2>1, FailedKeeps DEF Becomes, Look
  <2> QED BY <1>1, <2>1, <2>2, FailedKeeps DEF Look
<1> QED
  BY <1>1, <1>2, <1>3 DEF Look, Types

LEMMA FailedBecomes ==
  ASSUME Types, NEW n \in 1 .. calls, NEW err \in Errors \ {"nil"}, Answer(n, err),
         UNCHANGED <<once, calls>>
  PROVE  \E c \in Call : Becomes(n, c) /\ c.pc = "answered" /\ c.err # "nil" /\ Same(c, call[n])
<1>1. call[n] \in Call
  BY DEF Types
<1>2. PICK c \in Failed(call[n]) : call' = [call EXCEPT ![n] = c]
  BY AnswerFails
<1> QED
  BY <1>1, <1>2, FailedKeeps DEF Becomes, Same

LEMMA GotoBecomes ==
  ASSUME Types, NEW n \in 1 .. calls, NEW pc \in Pcs, Goto(n, pc), UNCHANGED <<once, calls>>
  PROVE  \E c \in Call :
           Becomes(n, c) /\ c.pc = pc /\ c.err = call[n].err /\ Same(c, call[n])
<1> DEFINE c == [call[n] EXCEPT !.pc = pc]
<1>1. c \in Call /\ c.pc = pc /\ c.err = call[n].err /\ c.req = call[n].req /\ Same(c, call[n])
  BY DEF Types, Call, Same
<1>2. call' = [call EXCEPT ![n] = c]
  BY DEF Goto, Types
<1> QED
  BY <1>1, <1>2 DEF Becomes

WroteIt(n, o, c) ==
  /\ Becomes(n, c)
  /\ c.at = call[n].at /\ c.pvcs = call[n].pvcs /\ c.hit = call[n].hit /\ c.seen = call[n].seen
  /\ \/ c.pc = "await" /\ Waits(call[n].req) /\ c.wrote = o /\ Spawn(n, Target(n))
     \/ c.pc = "answered" /\ ~Waits(call[n].req) /\ c.wrote = o /\ UNCHANGED pollers
     \/ c.pc = "answered" /\ c.err # "nil" /\ c.wrote = call[n].wrote /\ UNCHANGED pollers

LEMMA WrittenBecomes ==
  ASSUME Types, NEW n \in 1 .. calls, NEW o \in Object, Written(n, o), UNCHANGED <<once, calls>>
  PROVE  obj' = [obj EXCEPT ![Target(n)] = o] /\ \E c \in Call : WroteIt(n, o, c)
<1> DEFINE Awaits == [call[n] EXCEPT !.pc = "await", !.wrote = o]
           Returns == [call[n] EXCEPT !.pc = "answered", !.err = "nil", !.wrote = o]
<1>1. call[n] \in Call
  BY DEF Types
<1>2. CASE Waits(call[n].req) /\ call' = [call EXCEPT ![n] = Awaits] /\ Spawn(n, Target(n))
  <2>1. /\ Awaits \in Call /\ Awaits.req = call[n].req /\ Awaits.pc = "await" /\ Awaits.wrote = o
        /\ Awaits.at = call[n].at /\ Awaits.pvcs = call[n].pvcs /\ Awaits.hit = call[n].hit
        /\ Awaits.seen = call[n].seen
    BY <1>1 DEF Call, Pcs
  <2>2. WroteIt(n, o, Awaits)
    BY <1>2, <2>1 DEF WroteIt, Becomes
  <2> QED BY <2>1, <2>2 DEF Written
<1>3. CASE ~Waits(call[n].req) /\ call' = [call EXCEPT ![n] = Returns] /\ UNCHANGED pollers
  <2>1. /\ Returns \in Call /\ Returns.req = call[n].req /\ Returns.pc = "answered"
        /\ Returns.wrote = o /\ Returns.at = call[n].at /\ Returns.pvcs = call[n].pvcs
        /\ Returns.hit = call[n].hit /\ Returns.seen = call[n].seen
    BY <1>1 DEF Call, Pcs, Errors
  <2>2. WroteIt(n, o, Returns)
    BY <1>3, <2>1 DEF WroteIt, Becomes
  <2> QED BY <2>1, <2>2 DEF Written
<1>4. CASE Answer(n, "ErrApi") /\ UNCHANGED pollers
  <2>1. "ErrApi" \in Errors \ {"nil"}
    BY DEF Errors
  <2>2. PICK c \in Call : Becomes(n, c) /\ c.pc = "answered" /\ c.err # "nil" /\ Same(c, call[n])
    BY <1>4, <2>1, FailedBecomes
  <2> QED BY <1>4, <2>2 DEF Written, WroteIt, Same
<1> QED
  BY <1>2, <1>3, <1>4 DEF Written

LEMMA CreatedTypes ==
  ASSUME NEW n \in Nat
  PROVE  Created(n) \subseteq Object /\ \A o \in Created(n) : o.uid = n /\ o.gen = 1
<1>1. ASSUME NEW b \in BOOLEAN
      PROVE  [uid |-> n, gen |-> 1, obs |-> 0, full |-> b, going |-> FALSE] \in Object
  BY DEF Object
<1>2. \A o \in Created(n) : \E b \in BOOLEAN :
        o = [uid |-> n, gen |-> 1, obs |-> 0, full |-> b, going |-> FALSE]
  BY DEF Created
<1> QED
  BY <1>1, <1>2

LEMMA UpdatedTypes ==
  ASSUME NEW o \in Object, NEW kind
  PROVE  /\ Updated(o, kind) \subseteq Object
         /\ \A x \in Updated(o, kind) : x.uid = o.uid /\ x.gen >= o.gen /\ x.going = o.going
<1>1. ASSUME NEW b \in BOOLEAN, NEW x, x = [o EXCEPT !.gen = @ + 1, !.full = b]
      PROVE  x \in Object /\ x.uid = o.uid /\ x.gen >= o.gen /\ x.going = o.going
  <2>1. o.gen \in Nat /\ x.gen = o.gen + 1 /\ x.uid = o.uid
    BY <1>1 DEF Object
  <2>2. x.going = o.going
    BY <1>1 DEF Object
  <2>3. [o EXCEPT !.gen = o.gen + 1] \in Object
    BY <2>1 DEF Object
  <2>4. \A y \in Object : [y EXCEPT !.full = b] \in Object
    BY DEF Object
  <2>5. x = [[o EXCEPT !.gen = o.gen + 1] EXCEPT !.full = b]
    BY <1>1 DEF Object
  <2>6. x \in Object
    BY <2>3, <2>4, <2>5
  <2>7. x.gen >= o.gen
    BY <2>1
  <2> QED BY <2>1, <2>2, <2>6, <2>7
<1>2. o.gen >= o.gen
  BY DEF Object
<1>3. SUFFICES ASSUME NEW x \in Updated(o, kind)
               PROVE  x \in Object /\ x.uid = o.uid /\ x.gen >= o.gen /\ x.going = o.going
  OBVIOUS
<1>4. x = o \/ \E b \in BOOLEAN : x = [o EXCEPT !.gen = @ + 1, !.full = b]
  BY DEF Updated
<1>5. CASE x = o
  BY <1>2, <1>5
<1>6. CASE \E b \in BOOLEAN : x = [o EXCEPT !.gen = @ + 1, !.full = b]
  BY <1>1, <1>6
<1> QED
  BY <1>4, <1>5, <1>6

FailsAlone(n) ==
  /\ UNCHANGED <<obj, pollers>>
  /\ \E c \in Call : Becomes(n, c) /\ c.pc = "answered" /\ c.err # "nil" /\ Same(c, call[n])

GoesOn(n, pc) ==
  /\ UNCHANGED <<obj, pollers>>
  /\ \E c \in Call : Becomes(n, c) /\ c.pc = pc /\ c.err = call[n].err /\ Same(c, call[n])

Writes(n, objects) ==
  \E o \in objects \cap Object :
    obj' = [obj EXCEPT ![Target(n)] = o] /\ \E c \in Call : WroteIt(n, o, c)

LEMMA CreateBecomes ==
  ASSUME Types, NEW n, Create(n)
  PROVE  /\ At(n, "create")
         /\ \/ ~Present(Target(n)) /\ Writes(n, Created(n))
            \/ GoesOn(n, "update")
            \/ FailsAlone(n)
<1>1. n \in 1 .. calls /\ n \in Nat /\ At(n, "create") /\ UNCHANGED <<once, calls>>
  BY NumbersAreCalls DEF Create, At
<1>2. "ErrApi" \in Errors \ {"nil"} /\ "update" \in Pcs
  BY DEF Errors, Pcs
<1>3. CASE ~Present(Target(n)) /\ \E o \in Created(n) : Written(n, o)
  BY <1>1, <1>3, CreatedTypes, WrittenBecomes DEF Writes
<1>4. CASE Goto(n, "update") /\ UNCHANGED <<obj, pollers>>
  BY <1>1, <1>2, <1>4, GotoBecomes DEF GoesOn
<1>5. CASE Refused(n, "ErrApi")
  BY <1>1, <1>2, <1>5, FailedBecomes DEF Refused, FailsAlone
<1> QED
  BY <1>1, <1>3, <1>4, <1>5 DEF Create

LEMMA UpdateBecomes ==
  ASSUME Types, NEW n, Update(n)
  PROVE  /\ At(n, "update")
         /\ \/ /\ Present(Target(n))
               /\ Writes(n, Updated(obj[Target(n)], Target(n).kind))
            \/ FailsAlone(n)
<1>1. n \in 1 .. calls /\ At(n, "update") /\ UNCHANGED <<once, calls>>
  BY DEF Update, At
<1>2. {"ErrApi", "NotFound"} \subseteq Errors \ {"nil"}
  BY DEF Errors
<1>3. CASE Present(Target(n)) /\ \E o \in Updated(obj[Target(n)], Target(n).kind) : Written(n, o)
  <2>1. obj[Target(n)] \in Object
    BY <1>1, <1>3, TargetPlace DEF Types, Present
  <2> QED BY <1>1, <1>3, <2>1, UpdatedTypes, WrittenBecomes DEF Writes
<1>4. CASE Refused(n, "ErrApi") \/ Refused(n, "NotFound")
  BY <1>1, <1>2, <1>4, FailedBecomes DEF Refused, FailsAlone
<1> QED
  BY <1>1, <1>3, <1>4 DEF Update

LEMMA GetStsBecomes ==
  ASSUME Types, NEW n, GetSts(n)
  PROVE  At(n, "getSts") /\ (GoesOn(n, "listPvcs") \/ FailsAlone(n))
<1>1. n \in 1 .. calls /\ At(n, "getSts") /\ UNCHANGED <<once, obj, calls, pollers>>
  BY DEF GetSts, At
<1>2. {"ErrApi", "NotFound"} \subseteq Errors \ {"nil"} /\ "listPvcs" \in Pcs
  BY DEF Errors, Pcs
<1>3. CASE Goto(n, "listPvcs")
  BY <1>1, <1>2, <1>3, GotoBecomes DEF GoesOn
<1>4. CASE Answer(n, "NotFound") \/ Answer(n, "ErrApi")
  BY <1>1, <1>2, <1>4, FailedBecomes DEF FailsAlone
<1> QED
  BY <1>1, <1>3, <1>4 DEF GetSts

(* Claims are claims, and places. *)
LEMMA ClaimsAreClaims ==
  ASSUME NEW objects, NEW sts, NEW templates
  PROVE  \A p \in ClaimsOf(objects, sts, templates) :
           p \in objects /\ p.kind = "PersistentVolumeClaim"
  BY DEF ClaimsOf, Listed

LEMMA ListPvcsBecomes ==
  ASSUME Types, NEW n, ListPvcs(n)
  PROVE  /\ At(n, "listPvcs") /\ UNCHANGED <<obj, pollers>>
         /\ \E c \in Call :
              /\ Becomes(n, c)
              /\ c.at = call[n].at /\ c.hit = call[n].hit /\ c.wrote = call[n].wrote
              /\ \/ c.pc = "delete" /\ \A p \in c.pvcs : p.kind = "PersistentVolumeClaim"
                 \/ c.pc = "answered" /\ c.err # "nil" /\ c.pvcs = call[n].pvcs
<1> DEFINE there == { a \in Places : Present(a) }
           claims == ClaimsOf(there, Target(n), Templates)
           c == [call[n] EXCEPT !.pc = "delete", !.pvcs = claims]
<1>1. /\ n \in 1 .. calls /\ call[n] \in Call /\ At(n, "listPvcs")
      /\ UNCHANGED <<once, obj, calls, pollers>>
  BY DEF ListPvcs, At, Types
<1>2. CASE call' = [call EXCEPT ![n] = c]
  <2>1. claims \subseteq Places /\ \A p \in claims : p.kind = "PersistentVolumeClaim"
    BY ClaimsAreClaims
  <2> HIDE DEF claims
  <2>2. /\ c \in Call /\ c.req = call[n].req /\ c.pc = "delete" /\ c.pvcs = claims
        /\ c.at = call[n].at /\ c.hit = call[n].hit /\ c.wrote = call[n].wrote
    BY <1>1, <2>1 DEF Call, Pcs
  <2>3. Becomes(n, c)
    BY <1>1, <1>2, <2>2 DEF Becomes
  <2> QED BY <1>1, <2>1, <2>2, <2>3
<1>3. CASE Answer(n, "ErrApi")
  <2>1. "ErrApi" \in Errors \ {"nil"}
    BY DEF Errors
  <2>2. PICK d \in Call : Becomes(n, d) /\ d.pc = "answered" /\ d.err # "nil" /\ Same(d, call[n])
    BY <1>1, <1>3, <2>1, FailedBecomes
  <2> QED BY <1>1, <2>2 DEF Same
<1> QED
  BY <1>2, <1>3 DEF ListPvcs

FailsToRemove(n) ==
  \E c \in IF call[n].at = Target(n) THEN Failed(call[n]) ELSE After(call[n]) : Becomes(n, c)

LEMMA RemoveFailsBecomes ==
  ASSUME Types, NEW n \in 1 .. calls, NEW err \in Errors \ {"nil"}, RemoveFails(n, err),
         UNCHANGED <<once, calls>>
  PROVE  FailsToRemove(n)
<1>1. call[n] \in Call
  BY DEF Types
<1>2. PICK c \in IF call[n].at = Target(n) THEN Failed(call[n]) ELSE After(call[n]) :
             call' = [call EXCEPT ![n] = c]
  BY RemoveFailsCases
<1>3. c \in Call /\ c.req = call[n].req
  BY <1>1, <1>2, FailedKeeps, AfterKeeps
<1> QED
  BY <1>2, <1>3 DEF FailsToRemove, Becomes

GoesAway(a) ==
  /\ Present(a)
  /\ \/ obj' = [obj EXCEPT ![a].going = TRUE]
     \/ obj' = [obj EXCEPT ![a] = Absent]

(* Its Delete was accepted, and it heard so. *)
IsAccepted(n) ==
  \/ /\ Waits(call[n].req) /\ Spawn(n, call[n].at)
     /\ \E c \in Call : Becomes(n, c) /\ c.pc = "await" /\ Same(c, Accepted(n))
  \/ /\ ~Waits(call[n].req) /\ UNCHANGED pollers
     /\ \E c \in After(Accepted(n)) : Becomes(n, c)

LEMMA DeleteBecomes ==
  ASSUME Types, NEW n, Delete(n)
  PROVE  /\ At(n, "delete")
         /\ GoesAway(call[n].at) \/ UNCHANGED obj
         /\ \/ GoesAway(call[n].at) /\ IsAccepted(n)
            \/ FailsToRemove(n) /\ UNCHANGED pollers
<1>1. /\ n \in 1 .. calls /\ call[n] \in Call /\ At(n, "delete")
      /\ UNCHANGED <<once, calls>>
  BY DEF Delete, At, Types
<1>2. {"ErrApi", "NotFound"} \subseteq Errors \ {"nil"} /\ "await" \in Pcs
  BY DEF Errors, Pcs
<1>3. CASE /\ Present(call[n].at)
           /\ \/ obj' = [obj EXCEPT ![call[n].at].going = TRUE]
              \/ obj' = [obj EXCEPT ![call[n].at] = Absent]
           /\ Deleted(n)
  <2>1. GoesAway(call[n].at)
    BY <1>3 DEF GoesAway
  <2>2. Accepted(n) \in Call /\ Accepted(n).req = call[n].req
    BY <1>1, <1>3, AcceptedKeeps
  <2>3. CASE /\ Waits(call[n].req) /\ Spawn(n, call[n].at)
             /\ call' = [call EXCEPT ![n] = [Accepted(n) EXCEPT !.pc = "await"]]
    <3> DEFINE c == [Accepted(n) EXCEPT !.pc = "await"]
    <3>1. c \in Call /\ c.req = call[n].req /\ c.pc = "await" /\ Same(c, Accepted(n))
      BY <1>2, <2>2 DEF Call, Same
    <3>2. Becomes(n, c)
      BY <1>1, <2>3, <3>1 DEF Becomes
    <3> HIDE DEF c
    <3>3. IsAccepted(n)
      BY <2>3, <3>1, <3>2 DEF IsAccepted
    <3> QED BY <1>1, <2>1, <3>3
  <2>4. CASE /\ ~Waits(call[n].req) /\ UNCHANGED pollers
             /\ \E c \in After(Accepted(n)) : call' = [call EXCEPT ![n] = c]
    <3>1. PICK c \in After(Accepted(n)) : call' = [call EXCEPT ![n] = c]
      BY <2>4
    <3>2. c \in Call /\ c.req = call[n].req
      BY <2>2, AfterKeeps
    <3>3. IsAccepted(n)
      BY <1>1, <2>4, <3>1, <3>2 DEF IsAccepted, Becomes
    <3> QED BY <1>1, <2>1, <3>3
  <2> QED BY <1>1, <1>3, <2>3, <2>4, DeletedCases
<1>4. CASE /\ \/ GoesAway(call[n].at)
              \/ UNCHANGED obj
           /\ RemoveFails(n, "ErrApi") \/ RemoveFails(n, "NotFound")
           /\ UNCHANGED pollers
  BY <1>1, <1>2, <1>4, RemoveFailsBecomes
<1> QED
  BY <1>1, <1>3, <1>4 DEF Delete, GoesAway

LEMMA AwaitDoneBecomes ==
  ASSUME Types, NEW n, AwaitDone(n)
  PROVE  /\ At(n, "await") /\ UNCHANGED obj
         /\ \E p \in PollerOf(n) :
              /\ p.pc = "closed" /\ pollers' = pollers \ {p}
              /\ IF call[n].req.op = "Remove"
                   THEN \E c \in After(call[n]) : Becomes(n, c)
                   ELSE \E c \in Call :
                          /\ Becomes(n, c)
                          /\ c.pc = "answered" /\ c.seen = p.seen /\ c.at = call[n].at
                          /\ c.pvcs = call[n].pvcs /\ c.hit = call[n].hit
                          /\ c.wrote = call[n].wrote
<1>1. /\ n \in 1 .. calls /\ call[n] \in Call /\ At(n, "await")
      /\ UNCHANGED <<once, obj, calls>>
  BY DEF AwaitDone, At, Types
<1>2. PICK p \in PollerOf(n) :
        /\ p.pc = "closed" /\ pollers' = pollers \ {p}
        /\ IF call[n].req.op = "Remove"
             THEN NextClaim(call[n], n)
             ELSE call' = [call EXCEPT ![n].pc = "answered", ![n].err = "nil", ![n].seen = p.seen]
  BY DEF AwaitDone
<1>3. CASE call[n].req.op = "Remove"
  <2>1. PICK c \in After(call[n]) : call' = [call EXCEPT ![n] = c]
    BY <1>2, <1>3, NextClaimIsAfter
  <2>2. c \in Call /\ c.req = call[n].req
    BY <1>1, AfterKeeps
  <2>3. Becomes(n, c)
    BY <1>1, <2>1, <2>2 DEF Becomes
  <2> QED BY <1>1, <1>2, <1>3, <2>3
<1>4. CASE call[n].req.op # "Remove"
  <2> DEFINE c == [call[n] EXCEPT !.pc = "answered", !.err = "nil", !.seen = p.seen]
  <2>1. p.seen \in Object \cup {Absent}
    BY DEF PollerOf, Types, Poller
  <2>2. /\ c \in Call /\ c.req = call[n].req /\ c.pc = "answered" /\ c.seen = p.seen
        /\ c.at = call[n].at /\ c.pvcs = call[n].pvcs /\ c.hit = call[n].hit
        /\ c.wrote = call[n].wrote
    BY <1>1, <2>1 DEF Call, Pcs, Errors
  <2>3. call' = [call EXCEPT ![n] = c]
    BY <1>1, <1>2, <1>4 DEF Types
  <2>4. Becomes(n, c)
    BY <1>1, <2>2, <2>3 DEF Becomes
  <2> QED BY <1>1, <1>2, <1>4, <2>2, <2>4
<1> QED
  BY <1>3, <1>4

LEMMA AwaitErrorBecomes ==
  ASSUME Types, NEW n, AwaitError(n)
  PROVE  /\ At(n, "await") /\ UNCHANGED obj
         /\ \E p \in PollerOf(n) :
              pollers' = (pollers \ {p}) \cup
                         IF p.at.kind \in RolledOut THEN {[p EXCEPT !.pc = "get"]} ELSE {}
         /\ \E c \in Call :
              Becomes(n, c) /\ c.pc = "answered" /\ c.err # "nil" /\ Same(c, call[n])
<1>1. n \in 1 .. calls /\ At(n, "await") /\ UNCHANGED <<once, obj, calls>>
  BY DEF AwaitError, At
<1>2. "ErrApi" \in Errors \ {"nil"} /\ Answer(n, "ErrApi")
  BY DEF Errors, AwaitError
<1> QED
  BY <1>1, <1>2, FailedBecomes DEF AwaitError

LEMMA TimeOutBecomes ==
  ASSUME Types, NEW n, TimeOut(n)
  PROVE  /\ At(n, "await") /\ UNCHANGED obj
         /\ pollers' = { p \in pollers : ~(p \in PollerOf(n) /\ p.pc = "closed") }
         /\ IF call[n].req.op = "Remove"
              THEN FailsToRemove(n)
              ELSE \E c \in Call :
                     Becomes(n, c) /\ c.pc = "answered" /\ c.err # "nil" /\ Same(c, call[n])
<1>1. n \in 1 .. calls /\ At(n, "await") /\ UNCHANGED <<once, obj, calls>>
  BY DEF TimeOut, At
<1>2. "DeadlineExceeded" \in Errors \ {"nil"}
  BY DEF Errors
<1> QED
  BY <1>1, <1>2, FailedBecomes, RemoveFailsBecomes DEF TimeOut

-------------------------------------------------------------------------------
(* The objects *)

(* Before its Create a call has made no incarnation. *)
Early == {"init", "create"}

(* An object goes, or stays the same incarnation, or a call that creates    *)
(* makes one where there is none.                                           *)
Evolves(a) ==
  \/ obj'[a] = Absent
  \/ /\ Present(a) /\ obj'[a] \in Object
     /\ obj'[a].uid = obj[a].uid
     /\ obj'[a].gen >= obj[a].gen
     /\ obj[a].going => obj'[a].going
  \/ /\ ~Present(a) /\ obj'[a] \in Object
     /\ \E n \in 1 .. calls : obj'[a].uid = n /\ call[n].pc = "create" /\ call'[n].pc \notin Early

ObjTypes == obj \in [Places -> Object \cup {Absent}]

LEMMA Stays ==
  ASSUME Types, NEW a \in Places, obj'[a] = obj[a]
  PROVE  Evolves(a)
<1>1. CASE Present(a)
  <2>1. obj[a] \in Object
    BY <1>1 DEF Types, Present
  <2>2. obj[a].gen >= obj[a].gen
    BY <2>1 DEF Object
  <2>3. obj[a].going => obj'[a].going
    OBVIOUS
  <2> QED BY <1>1, <2>1, <2>2, <2>3 DEF Evolves
<1> QED
  BY <1>1 DEF Evolves, Present

LEMMA UnchangedEvolves ==
  ASSUME Types, UNCHANGED obj
  PROVE  ObjTypes' /\ \A a \in Places : Evolves(a)
  BY Stays DEF Types, ObjTypes

LEMMA GoesAwayEvolves ==
  ASSUME Types, NEW b \in Places, GoesAway(b)
  PROVE  ObjTypes' /\ \A a \in Places : Evolves(a)
<1>1. Present(b) /\ obj[b] \in Object /\ obj \in [Places -> Object \cup {Absent}]
  BY DEF GoesAway, Types, Present
<1>2. CASE obj' = [obj EXCEPT ![b] = Absent]
  <2>1. ObjTypes' /\ obj'[b] = Absent /\ \A a \in Places : a # b => obj'[a] = obj[a]
    BY <1>1, <1>2 DEF ObjTypes
  <2> QED BY <2>1, Stays DEF Evolves
<1>3. CASE obj' = [obj EXCEPT ![b].going = TRUE]
  <2> DEFINE o == [obj[b] EXCEPT !.going = TRUE]
  <2>1. o \in Object
    BY <1>1 DEF Object
  <2>2. o.uid = obj[b].uid /\ o.gen >= obj[b].gen
    BY <1>1 DEF Object
  <2>3. o.going
    BY <1>1 DEF Object
  <2>4. obj' = [obj EXCEPT ![b] = o]
    BY <1>1, <1>3
  <2> HIDE DEF o
  <2>5. ObjTypes' /\ obj'[b] = o /\ \A a \in Places : a # b => obj'[a] = obj[a]
    BY <1>1, <2>1, <2>4 DEF ObjTypes
  <2>6. Evolves(b)
    BY <1>1, <2>1, <2>2, <2>3, <2>5 DEF Evolves
  <2> QED BY <2>5, <2>6, Stays
<1> QED
  BY <1>2, <1>3 DEF GoesAway

LEMMA WritesTypes ==
  ASSUME Types, NEW n \in 1 .. calls, NEW S, Writes(n, S)
  PROVE  \E o \in S \cap Object :
           /\ ObjTypes' /\ obj'[Target(n)] = o
           /\ \A a \in Places : a # Target(n) => obj'[a] = obj[a]
           /\ \E c \in Call : WroteIt(n, o, c)
  BY TargetPlace DEF Writes, Types, ObjTypes

LEMMA CreateEvolves ==
  ASSUME Types, NEW n, Create(n)
  PROVE  ObjTypes' /\ \A a \in Places : Evolves(a)
<1>1. n \in 1 .. calls /\ n \in Nat /\ call[n].pc = "create" /\ Target(n) \in Places
  BY TargetPlace, NumbersAreCalls DEF Create, At
<1>2. CASE ~Present(Target(n)) /\ Writes(n, Created(n))
  <2>1. PICK o \in Created(n) \cap Object :
          /\ ObjTypes' /\ obj'[Target(n)] = o
          /\ \A a \in Places : a # Target(n) => obj'[a] = obj[a]
          /\ \E c \in Call : WroteIt(n, o, c)
    BY <1>1, <1>2, WritesTypes
  <2>2. o.uid = n
    BY <1>1, CreatedTypes
  <2>3. call'[n].pc \notin Early
    <3>1. PICK c \in Call : WroteIt(n, o, c)
      BY <2>1
    <3>2. call'[n] = c /\ c.pc \in {"await", "answered"}
      BY <1>1, <3>1 DEF WroteIt, Becomes, Types
    <3> QED BY <3>2 DEF Early
  <2>4. Evolves(Target(n))
    BY <1>1, <1>2, <2>1, <2>2, <2>3 DEF Evolves
  <2> QED BY <2>1, <2>4, Stays
<1>3. CASE UNCHANGED obj
  BY <1>3, UnchangedEvolves
<1> QED
  BY <1>2, <1>3, CreateBecomes DEF GoesOn, FailsAlone

LEMMA UpdateEvolves ==
  ASSUME Types, NEW n, Update(n)
  PROVE  ObjTypes' /\ \A a \in Places : Evolves(a)
<1>1. n \in 1 .. calls /\ Target(n) \in Places
  BY TargetPlace DEF Update, At
<1>2. CASE Present(Target(n)) /\ Writes(n, Updated(obj[Target(n)], Target(n).kind))
  <2>1. PICK o \in Updated(obj[Target(n)], Target(n).kind) \cap Object :
          /\ ObjTypes' /\ obj'[Target(n)] = o
          /\ \A a \in Places : a # Target(n) => obj'[a] = obj[a]
    BY <1>1, <1>2, WritesTypes
  <2>2. obj[Target(n)] \in Object
    BY <1>1, <1>2 DEF Types, Present
  <2>3. o.uid = obj[Target(n)].uid /\ o.gen >= obj[Target(n)].gen
    BY <2>2, UpdatedTypes
  <2>4. o.going = obj[Target(n)].going
    BY <2>2, UpdatedTypes
  <2>5. obj[Target(n)].going => obj'[Target(n)].going
    BY <2>1, <2>4
  <2>6. Evolves(Target(n))
    BY <1>2, <2>1, <2>3, <2>5 DEF Evolves
  <2> QED BY <2>1, <2>6, Stays
<1>3. CASE UNCHANGED obj
  BY <1>3, UnchangedEvolves
<1> QED
  BY <1>2, <1>3, UpdateBecomes DEF FailsAlone

LEMMA ReportStatusEvolves ==
  ASSUME Types, NEW b \in Places, ReportStatus(b)
  PROVE  ObjTypes' /\ \A a \in Places : Evolves(a)
<1>1. PICK full \in BOOLEAN : obj' = [obj EXCEPT ![b].obs = obj[b].gen, ![b].full = full]
  BY DEF ReportStatus
<1>2. Present(b) /\ obj[b] \in Object /\ obj \in [Places -> Object \cup {Absent}]
  BY DEF ReportStatus, Types, Present
<1> DEFINE o == [obj[b] EXCEPT !.obs = obj[b].gen, !.full = full]
<1>3. o \in Object
  <2>1. obj[b].gen \in Nat
    BY <1>2 DEF Object
  <2>2. [obj[b] EXCEPT !.obs = obj[b].gen] \in Object
    BY <1>2, <2>1 DEF Object
  <2>3. \A y \in Object : [y EXCEPT !.full = full] \in Object
    BY DEF Object
  <2>4. o = [[obj[b] EXCEPT !.obs = obj[b].gen] EXCEPT !.full = full]
    BY <1>2 DEF Object
  <2> QED BY <2>2, <2>3, <2>4
<1>4. o.uid = obj[b].uid /\ o.gen >= obj[b].gen
  BY <1>2 DEF Object
<1>5. o.going = obj[b].going
  BY <1>2 DEF Object
<1>6. obj' = [obj EXCEPT ![b] = o]
  BY <1>1, <1>2
<1> HIDE DEF o
<1>7. ObjTypes' /\ obj'[b] = o /\ \A a \in Places : a # b => obj'[a] = obj[a]
  BY <1>2, <1>3, <1>6 DEF ObjTypes
<1>8. obj[b].going => obj'[b].going
  BY <1>5, <1>7
<1>9. Evolves(b)
  BY <1>2, <1>3, <1>4, <1>7, <1>8 DEF Evolves
<1> QED
  BY <1>7, <1>9, Stays

LEMMA ObjectsEvolve ==
  ASSUME Types, [Next]_vars
  PROVE  ObjTypes' /\ \A a \in Places : Evolves(a)
<1>1. CASE UNCHANGED obj
  BY <1>1, UnchangedEvolves
<1>2. ASSUME NEW n, Create(n) PROVE ObjTypes' /\ \A a \in Places : Evolves(a)
  BY <1>2, CreateEvolves
<1>3. ASSUME NEW n, Update(n) PROVE ObjTypes' /\ \A a \in Places : Evolves(a)
  BY <1>3, UpdateEvolves
<1>4. ASSUME NEW n, Delete(n) PROVE ObjTypes' /\ \A a \in Places : Evolves(a)
  <2>1. n \in 1 .. calls /\ call[n].at \in Places
    BY <1>4 DEF Delete, At, Types, Call
  <2> QED BY <1>1, <1>4, <2>1, DeleteBecomes, GoesAwayEvolves
<1>5. ASSUME NEW a \in Places, ReportStatus(a) PROVE ObjTypes' /\ \A b \in Places : Evolves(b)
  BY <1>5, ReportStatusEvolves
<1>6. ASSUME NEW a \in Places, Finalize(a) PROVE ObjTypes' /\ \A b \in Places : Evolves(b)
  BY <1>6, GoesAwayEvolves DEF Finalize, GoesAway
<1>7. ASSUME NEW n, \/ InitStep(n) \/ Look(n) \/ GetSts(n) \/ ListPvcs(n) \/ AwaitDone(n)
                    \/ AwaitError(n) \/ TimeOut(n)
      PROVE  UNCHANGED obj
  BY <1>7, InitStepBecomes DEF Look, GetSts, ListPvcs, AwaitDone, AwaitError, TimeOut
<1>8. ASSUME NEW p, PollRemove(p) \/ PollRollout(p) PROVE UNCHANGED obj
  BY <1>8 DEF PollRemove, PollRollout
<1>9. ASSUME NEW r, BeginCall(r) PROVE UNCHANGED obj
  BY <1>9 DEF BeginCall
<1>10. CASE UNCHANGED vars
  BY <1>1, <1>10 DEF vars
<1> QED
  BY <1>1, <1>2, <1>3, <1>4, <1>5, <1>6, <1>7, <1>8, <1>9, <1>10 DEF Next, CallStep, PollStep

-------------------------------------------------------------------------------
(* The calls and the goroutines *)

LEMMA WritesBecomes ==
  ASSUME Types, NEW n \in 1 .. calls, NEW S, Writes(n, S)
  PROVE  \E c \in Call : Becomes(n, c) /\ c.pc \in {"answered", "await"}
  BY DEF Writes, WroteIt

LEMMA FailsToRemoveBecomes ==
  ASSUME Types, NEW n \in 1 .. calls, FailsToRemove(n)
  PROVE  \E c \in Call : Becomes(n, c) /\ c.pc \in {"answered", "delete"}
<1>1. call[n] \in Call
  BY DEF Types
<1> QED
  BY <1>1, FailedKeeps, AfterKeeps DEF FailsToRemove

LEMMA CallStepBecomes ==
  ASSUME Types, NEW n, CallStep(n)
  PROVE  /\ n \in 1 .. calls /\ call[n].pc \notin {"answered", "panicked"}
         /\ once' \in {"new", "ok", "failed", "partly"}
         /\ \E c \in Call : Becomes(n, c) /\ (c.pc \in Early => call[n].pc \in Early)
<1> DEFINE Later == {"answered", "update", "listPvcs", "delete", "await"}
           Done ==
             /\ n \in 1 .. calls /\ call[n].pc \notin {"answered", "panicked"}
             /\ \E c \in Call : Becomes(n, c) /\ c.pc \in Later
<1>0. SUFFICES ASSUME ~InitStep(n) PROVE Done
  <2>1. CASE InitStep(n)
    <3>1. PICK c \in Started(n) : Becomes(n, c)
      BY <2>1, InitStepBecomes
    <3>2. c \in Call /\ call[n].pc \in Early \cup {"initFailed"}
      BY <2>1, InitStepBecomes DEF Started, Early
    <3>3. call[n].pc = "initFailed" => c.pc \notin Early
      BY DEF Started, Early
    <3> QED BY <2>1, <3>1, <3>2, <3>3, InitStepBecomes
  <2>2. CASE ~InitStep(n) /\ Done
    <3>1. once' \in {"new", "ok", "failed", "partly"}
      BY <2>2 DEF CallStep, Look, Create, Update, GetSts, ListPvcs, Delete, AwaitDone,
                  AwaitError, TimeOut, Types
    <3>2. \A c \in Call : c.pc \in Later => c.pc \notin Early
      BY DEF Early
    <3> QED BY <2>2, <3>1, <3>2
  <2> QED BY <2>1, <2>2
<1>1. CASE Look(n)
  BY <1>1, LookBecomes DEF At
<1>2. CASE Create(n)
  <2>1. n \in 1 .. calls /\ call[n].pc = "create"
    BY <1>2 DEF Create, At
  <2> QED BY <1>2, <2>1, CreateBecomes, WritesBecomes DEF GoesOn, FailsAlone
<1>3. CASE Update(n)
  <2>1. n \in 1 .. calls /\ call[n].pc = "update"
    BY <1>3 DEF Update, At
  <2> QED BY <1>3, <2>1, UpdateBecomes, WritesBecomes DEF FailsAlone
<1>4. CASE GetSts(n)
  BY <1>4, GetStsBecomes DEF At, GoesOn, FailsAlone
<1>5. CASE ListPvcs(n)
  BY <1>5, ListPvcsBecomes DEF At
<1>6. CASE Delete(n)
  <2>1. n \in 1 .. calls /\ call[n].pc = "delete"
    BY <1>6 DEF Delete, At
  <2>2. CASE GoesAway(call[n].at) /\ IsAccepted(n)
    <3>1. Accepted(n) \in Call
      BY <2>1, <2>2, AcceptedTypes DEF GoesAway
    <3> QED BY <2>1, <2>2, <3>1, AfterKeeps DEF IsAccepted
  <2>3. CASE FailsToRemove(n)
    BY <2>1, <2>3, FailsToRemoveBecomes
  <2> QED BY <1>6, <2>2, <2>3, DeleteBecomes
<1>7. CASE AwaitDone(n)
  <2>1. n \in 1 .. calls /\ call[n].pc = "await" /\ call[n] \in Call
    BY <1>7 DEF AwaitDone, At, Types
  <2> QED BY <1>7, <2>1, AwaitDoneBecomes, AfterKeeps
<1>8. CASE AwaitError(n)
  BY <1>8, AwaitErrorBecomes DEF At
<1>9. CASE TimeOut(n)
  <2>1. n \in 1 .. calls /\ call[n].pc = "await"
    BY <1>9 DEF TimeOut, At
  <2> QED BY <1>9, <2>1, TimeOutBecomes, FailsToRemoveBecomes
<1> QED
  BY <1>0, <1>1, <1>2, <1>3, <1>4, <1>5, <1>6, <1>7, <1>8, <1>9 DEF CallStep

(* Calls are numbered as they begin; what has ended stays as it is. *)
CallsEvolve ==
  /\ once' \in {"new", "ok", "failed", "partly"}
  /\ calls' \in 0 .. MaxCalls /\ calls' >= calls
  /\ call' \in [1 .. calls' -> Call]
  /\ \A n \in 1 .. calls :
       /\ call'[n].req = call[n].req
       /\ call[n].pc \in {"answered", "panicked"} => call'[n] = call[n]
       /\ call'[n].pc \in Early => call[n].pc \in Early

LEMMA CallsEvolveLemma == ASSUME Types, [Next]_vars PROVE CallsEvolve
<1>1. CASE UNCHANGED <<once, calls, call>>
  BY <1>1, NumbersAreCalls DEF Types, CallsEvolve
<1>2. ASSUME NEW n, CallStep(n) PROVE CallsEvolve
  <2>1. n \in 1 .. calls /\ call[n].pc \notin {"answered", "panicked"}
    BY <1>2, CallStepBecomes
  <2>2. PICK c \in Call : Becomes(n, c) /\ (c.pc \in Early => call[n].pc \in Early)
    BY <1>2, CallStepBecomes
  <2>3. /\ call' \in [1 .. calls' -> Call] /\ call'[n] = c
        /\ \A m \in 1 .. calls : m # n => call'[m] = call[m]
    BY <2>1, <2>2, OneCall DEF Becomes
  <2>4. /\ calls' = calls /\ calls' >= calls /\ c.req = call[n].req
        /\ once' \in {"new", "ok", "failed", "partly"}
    BY <1>2, <2>2, NumbersAreCalls, CallStepBecomes DEF Becomes
  <2> QED BY <2>1, <2>2, <2>3, <2>4 DEF CallsEvolve, Types
<1>3. ASSUME NEW r \in Requests, BeginCall(r) PROVE CallsEvolve
  <2>1. /\ calls' = calls + 1 /\ calls' \in 1 .. MaxCalls
        /\ call' \in [1 .. calls' -> Call]
        /\ \A n \in 1 .. calls : call'[n] = call[n]
    BY <1>3, BeginTypes
  <2>2. once' \in {"new", "ok", "failed", "partly"}
    BY <1>3 DEF BeginCall, Types
  <2> QED BY <2>1, <2>2, NumbersAreCalls DEF CallsEvolve
<1>4. ASSUME NEW p, PollRemove(p) \/ PollRollout(p) PROVE UNCHANGED <<once, calls, call>>
  BY <1>4 DEF PollRemove, PollRollout
<1>5. ASSUME NEW a, ReportStatus(a) \/ Finalize(a) PROVE UNCHANGED <<once, calls, call>>
  BY <1>5 DEF ReportStatus, Finalize
<1>6. CASE UNCHANGED vars
  BY <1>1, <1>6 DEF vars
<1> QED
  BY <1>1, <1>2, <1>3, <1>4, <1>5, <1>6 DEF Next, PollStep

(* A call in its place, and a goroutine that polls for it: goroutines stay   *)
(* behind when a call goes on, but no closed channel does, and no object is *)
(* polled for that the call will yet remove.                                *)
CallShape(c) ==
  /\ c.pc \in {"getSts", "listPvcs"} => c.req.op = "Remove" /\ c.req.kind = "StatefulSet"
  /\ c.pc = "delete" => c.req.op = "Remove"
  /\ c.pc \in {"create", "update"} => c.req.op = "Rollout"
  /\ c.pc = "look" => c.req.op = "Get"
  /\ c.pc = "await" => c.req.op \in {"Remove", "Rollout"} /\ Waits(c.req)
  /\ c.at # AddressOf(c.req) \/ c.pvcs # {} =>
       c.req.op = "Remove" /\ c.pc \in {"delete", "await", "answered"}
  /\ c.at \notin c.pvcs /\ AddressOf(c.req) \notin c.pvcs

PollerShape(p, c) ==
  /\ c.req.op \in {"Remove", "Rollout"}
  /\ c.req.op = "Rollout" => p.at = AddressOf(c.req)
  /\ c.pc \in {"delete", "await", "answered"}
  /\ c.pc = "delete" => p.at # c.at
  /\ p.at \notin c.pvcs
  /\ p.pc = "closed" => c.pc = "await" /\ p.at = c.at

Shape ==
  /\ \A n \in 1 .. calls : CallShape(call[n])
  /\ \A p \in pollers : p.n \in 1 .. calls /\ PollerShape(p, call[p.n])
  /\ \A p, q \in pollers : p.n = q.n /\ p.at = q.at => p = q
  /\ \A n \in 1 .. calls :
       call[n].pc = "await" => \E p \in pollers : p.n = n /\ p.at = call[n].at

(* A step of one call that touches no other call's goroutines. *)
LEMMA ShapeStep ==
  ASSUME Types, Shape, NEW n, NEW c, Becomes(n, c), CallShape(c),
         \A p : p.n # n => (p \in pollers <=> p \in pollers'),
         \A p \in pollers' : p.n = n => PollerShape(p, c),
         \A p, q \in pollers' : p.n = n /\ q.n = n /\ p.at = q.at => p = q,
         c.pc = "await" => \E p \in pollers' : p.n = n /\ p.at = c.at
  PROVE  Shape'
<1>1. /\ n \in 1 .. calls /\ calls' = calls /\ call'[n] = c
      /\ \A m \in 1 .. calls : m # n => call'[m] = call[m]
  BY OneCall DEF Becomes
<1>2. \A m \in 1 .. calls' : CallShape(call'[m])
  BY <1>1 DEF Shape
<1>3. \A p \in pollers' : p.n \in 1 .. calls' /\ PollerShape(p, call'[p.n])
  BY <1>1 DEF Shape
<1>4. \A p, q \in pollers' : p.n = q.n /\ p.at = q.at => p = q
  BY DEF Shape
<1>5. ASSUME NEW m \in 1 .. calls', call'[m].pc = "await"
      PROVE  \E p \in pollers' : p.n = m /\ p.at = call'[m].at
  BY <1>1, <1>5 DEF Shape
<1> QED
  BY <1>2, <1>3, <1>4, <1>5 DEF Shape

(* The call ends, and with it what it waited for. *)
LEMMA EndShape ==
  ASSUME Types, Shape, NEW n, NEW c, Becomes(n, c), c.pc = "answered",
         c.at = call[n].at, c.pvcs = call[n].pvcs,
         pollers' \subseteq pollers,
         \A p \in pollers : p.n # n => p \in pollers',
         \A p \in pollers' : p.n = n => p.pc # "closed"
  PROVE  Shape'
<1>1. n \in 1 .. calls /\ c.req = call[n].req /\ CallShape(call[n])
  BY DEF Becomes, Shape
<1>2. CallShape(c)
  BY <1>1 DEF CallShape
<1>3. \A p \in pollers' : p.n = n => PollerShape(p, c)
  BY <1>1 DEF Shape, PollerShape
<1>4. \A p, q \in pollers' : p.n = n /\ q.n = n /\ p.at = q.at => p = q
  BY DEF Shape
<1> QED
  BY <1>2, <1>3, <1>4, ShapeStep

(* No goroutine of a call that does not wait has its channel closed. *)
LEMMA NoneClosed ==
  ASSUME Shape, NEW n \in 1 .. calls, call[n].pc # "await"
  PROVE  \A p \in pollers : p.n = n => p.pc # "closed"
  BY DEF Shape, PollerShape

(* No other goroutine than the one that polls for what is awaited has. *)
LEMMA OneClosed ==
  ASSUME Shape, NEW n \in 1 .. calls, NEW p \in pollers, p.n = n, p.pc = "closed"
  PROVE  p \in PollerOf(n) /\ \A q \in pollers : q.n = n /\ q.pc = "closed" => q = p
  BY DEF Shape, PollerShape, PollerOf

LEMMA FailsAloneShape ==
  ASSUME Types, Shape, NEW n \in 1 .. calls, FailsAlone(n), call[n].pc # "await"
  PROVE  Shape'
<1>1. PICK c \in Call : Becomes(n, c) /\ c.pc = "answered" /\ c.err # "nil" /\ Same(c, call[n])
  BY DEF FailsAlone
<1> QED
  BY <1>1, NoneClosed, EndShape DEF FailsAlone, Same

LEMMA NoPollers ==
  ASSUME Shape, NEW n \in 1 .. calls, call[n].pc \notin {"delete", "await", "answered"}
  PROVE  /\ \A p \in pollers : p.n # n
         /\ call[n].at = Target(n) /\ call[n].pvcs = {}
  BY DEF Shape, PollerShape, CallShape, Target

LEMMA GoesOnShape ==
  ASSUME Types, Shape, NEW n \in 1 .. calls, NEW pc, GoesOn(n, pc),
         \/ call[n].pc = "create" /\ pc = "update"
         \/ call[n].pc = "getSts" /\ pc = "listPvcs"
  PROVE  Shape'
<1>1. PICK c \in Call : Becomes(n, c) /\ c.pc = pc /\ Same(c, call[n])
  BY DEF GoesOn
<1>2. CallShape(call[n]) /\ c.req = call[n].req
  BY <1>1 DEF Shape, Becomes
<1>3. CallShape(c)
  BY <1>1, <1>2 DEF CallShape, Same
<1>4. pollers' = pollers /\ \A p \in pollers : p.n # n
  BY NoPollers DEF GoesOn
<1> QED
  BY <1>1, <1>3, <1>4, ShapeStep

LEMMA SpawnAdds ==
  ASSUME NEW n, NEW a, Spawn(n, a)
  PROVE  \E p : /\ p.n = n /\ p.at = a /\ p.pc = "get" /\ p.seen = Absent
                /\ pollers' = pollers \cup {p}
  BY DEF Spawn

LEMMA StartedShape ==
  ASSUME Types, Shape, NEW n, InitStep(n)
  PROVE  Shape'
<1>1. /\ n \in 1 .. calls /\ pollers' = pollers
      /\ call[n].pc \in {"init", "initFailed"} /\ CallShape(call[n])
  BY InitStepBecomes DEF Shape
<1>2. PICK c \in Started(n) : Becomes(n, c)
  BY InitStepBecomes
<1>3. call[n].at = Target(n) /\ call[n].pvcs = {} /\ \A p \in pollers : p.n # n
  BY <1>1, NoPollers
<1>4. CallShape(c) /\ c.pc # "await"
  BY <1>1, <1>2, <1>3 DEF CallShape, Started, Same, Target
<1> QED
  BY <1>1, <1>2, <1>3, <1>4, ShapeStep

LEMMA WritesShape ==
  ASSUME Types, Shape, NEW n \in 1 .. calls, NEW S, Writes(n, S),
         call[n].pc \in {"create", "update"}
  PROVE  Shape'
<1>1. PICK o \in S \cap Object, c \in Call : WroteIt(n, o, c)
  BY DEF Writes
<1>2. /\ CallShape(call[n]) /\ c.req = call[n].req /\ Becomes(n, c)
      /\ c.at = call[n].at /\ c.pvcs = call[n].pvcs
  BY <1>1 DEF Shape, Becomes, WroteIt
<1>3. call[n].at = Target(n) /\ call[n].pvcs = {} /\ \A p \in pollers : p.n # n
  BY NoPollers
<1>4. CASE c.pc = "await" /\ Waits(call[n].req) /\ Spawn(n, Target(n))
  <2>1. CallShape(c)
    BY <1>2, <1>4 DEF CallShape
  <2>2. PICK p : /\ p.n = n /\ p.at = Target(n) /\ p.pc = "get"
                 /\ pollers' = pollers \cup {p}
    BY <1>4, SpawnAdds
  <2>3. PollerShape(p, c)
    BY <1>2, <1>3, <1>4, <2>2 DEF PollerShape, CallShape, Target
  <2> QED BY <1>2, <1>3, <2>1, <2>2, <2>3, ShapeStep
<1>5. CASE c.pc = "answered" /\ UNCHANGED pollers
  BY <1>2, <1>3, <1>5, EndShape
<1> QED
  BY <1>1, <1>4, <1>5 DEF WroteIt

(* The next claim is none that is polled for. *)
LEMMA AfterShape ==
  ASSUME Types, Shape, NEW n, NEW c, Becomes(n, c), NEW r \in Call, c \in After(r),
         r.at = call[n].at, r.pvcs = call[n].pvcs, call[n].req.op = "Remove",
         call[n].pc \in {"delete", "await"},
         pollers' \subseteq pollers,
         \A p \in pollers : p.n # n => p \in pollers',
         \A p \in pollers' : p.n = n => p.pc # "closed"
  PROVE  Shape'
<1>1. n \in 1 .. calls /\ c.req = call[n].req /\ CallShape(call[n])
  BY DEF Becomes, Shape
<1>2. \/ c.pc = "answered" /\ c.at = r.at /\ c.pvcs = {}
      \/ c.pc = "delete" /\ c.at \in r.pvcs /\ c.pvcs = r.pvcs \ {c.at}
  BY AfterKeeps
<1>3. CallShape(c)
  BY <1>1, <1>2 DEF CallShape
<1>4. \A p \in pollers : p.n = n => PollerShape(p, call[n])
  BY DEF Shape
<1>5. \A p \in pollers' : p.n = n => PollerShape(p, c)
  BY <1>1, <1>2, <1>4 DEF PollerShape
<1>6. \A p, q \in pollers' : p.n = n /\ q.n = n /\ p.at = q.at => p = q
  BY DEF Shape
<1> QED
  BY <1>2, <1>3, <1>5, <1>6, ShapeStep

LEMMA FailsToRemoveShape ==
  ASSUME Types, Shape, NEW n \in 1 .. calls, FailsToRemove(n), call[n].req.op = "Remove",
         call[n].pc \in {"delete", "await"},
         pollers' \subseteq pollers,
         \A p \in pollers : p.n # n => p \in pollers',
         \A p \in pollers' : p.n = n => p.pc # "closed"
  PROVE  Shape'
<1>1. call[n] \in Call
  BY DEF Types
<1>2. CASE call[n].at = Target(n)
  <2>1. PICK c \in Failed(call[n]) : Becomes(n, c)
    BY <1>2 DEF FailsToRemove
  <2>2. c.pc = "answered" /\ c.at = call[n].at /\ c.pvcs = call[n].pvcs
    BY <1>1, <2>1, FailedKeeps
  <2> QED BY <2>1, <2>2, EndShape
<1>3. CASE call[n].at # Target(n)
  <2>1. PICK c \in After(call[n]) : Becomes(n, c)
    BY <1>3 DEF FailsToRemove
  <2> QED BY <1>1, <2>1, AfterShape
<1> QED
  BY <1>2, <1>3

LEMMA AcceptedShape ==
  ASSUME Types, Shape, NEW n \in 1 .. calls, IsAccepted(n), call[n].pc = "delete",
         Present(call[n].at)
  PROVE  Shape'
<1>1. call[n] \in Call /\ CallShape(call[n]) /\ call[n].req.op = "Remove"
  BY DEF Types, Shape, CallShape
<1>2. /\ Accepted(n) \in Call /\ Accepted(n).at = call[n].at
      /\ Accepted(n).pvcs = call[n].pvcs
  BY AcceptedKeeps
<1>3. CASE Waits(call[n].req) /\ Spawn(n, call[n].at)
           /\ \E c \in Call : Becomes(n, c) /\ c.pc = "await" /\ Same(c, Accepted(n))
  <2>1. PICK c \in Call : Becomes(n, c) /\ c.pc = "await" /\ Same(c, Accepted(n))
    BY <1>3
  <2>2. c.req = call[n].req /\ c.at = call[n].at /\ c.pvcs = call[n].pvcs
    BY <1>2, <2>1 DEF Becomes, Same
  <2>3. PICK p : /\ p.n = n /\ p.at = call[n].at /\ p.pc = "get"
                 /\ pollers' = pollers \cup {p}
    BY <1>3, SpawnAdds
  <2>4. CallShape(c)
    BY <1>1, <1>3, <2>1, <2>2 DEF CallShape
  <2>5. PollerShape(p, c)
    BY <1>1, <2>1, <2>2, <2>3, <2>4 DEF PollerShape, CallShape
  <2>6. \A q \in pollers : q.n = n =>
          PollerShape(q, call[n]) /\ q.at # call[n].at /\ q.pc # "closed"
    BY DEF Shape, PollerShape
  <2>7. \A q \in pollers : q.n = n => PollerShape(q, c)
    BY <2>1, <2>2, <2>6 DEF PollerShape
  <2>8. \A q, s \in pollers' : q.n = n /\ s.n = n /\ q.at = s.at => q = s
    BY <2>3, <2>6 DEF Shape
  <2>9. /\ \A q : q.n # n => (q \in pollers <=> q \in pollers')
        /\ \A q \in pollers' : q.n = n => PollerShape(q, c)
        /\ \E q \in pollers' : q.n = n /\ q.at = c.at
    BY <2>2, <2>3, <2>5, <2>7
  <2> QED BY <2>1, <2>4, <2>8, <2>9, ShapeStep
<1>4. CASE UNCHANGED pollers /\ \E c \in After(Accepted(n)) : Becomes(n, c)
  <2>1. PICK c \in After(Accepted(n)) : Becomes(n, c)
    BY <1>4
  <2> QED BY <1>1, <1>2, <1>4, <2>1, NoneClosed, AfterShape
<1> QED
  BY <1>3, <1>4 DEF IsAccepted

LEMMA ListPvcsShape == ASSUME Types, Shape, NEW n, ListPvcs(n) PROVE Shape'
<1>1. /\ n \in 1 .. calls /\ call[n].pc = "listPvcs" /\ pollers' = pollers
      /\ CallShape(call[n])
  BY ListPvcsBecomes DEF At, Shape
<1>2. /\ call[n].at = Target(n) /\ call[n].pvcs = {} /\ \A p \in pollers : p.n # n
      /\ call[n].req.op = "Remove" /\ Target(n).kind = "StatefulSet"
  BY <1>1, NoPollers DEF CallShape, Target, AddressOf, Address
<1>3. PICK c \in Call :
        /\ Becomes(n, c)
        /\ c.at = call[n].at
        /\ \/ c.pc = "delete" /\ \A p \in c.pvcs : p.kind = "PersistentVolumeClaim"
           \/ c.pc = "answered" /\ c.err # "nil" /\ c.pvcs = call[n].pvcs
  BY ListPvcsBecomes
<1>4. CASE c.pc = "delete" /\ \A p \in c.pvcs : p.kind = "PersistentVolumeClaim"
  <2>1. c.req = call[n].req /\ AddressOf(c.req) = Target(n)
    BY <1>3 DEF Becomes, Target
  <2>2. CallShape(c)
    BY <1>1, <1>2, <1>3, <1>4, <2>1 DEF CallShape
  <2> QED BY <1>1, <1>2, <1>3, <1>4, <2>2, ShapeStep
<1>5. CASE c.pc = "answered" /\ c.pvcs = call[n].pvcs
  BY <1>1, <1>2, <1>3, <1>5, EndShape
<1> QED
  BY <1>3, <1>4, <1>5

LEMMA DeleteShape == ASSUME Types, Shape, NEW n, Delete(n) PROVE Shape'
<1>1. n \in 1 .. calls /\ call[n].pc = "delete" /\ call[n].req.op = "Remove"
  BY DEF Delete, At, Shape, CallShape
<1>2. CASE GoesAway(call[n].at) /\ IsAccepted(n)
  BY <1>1, <1>2, AcceptedShape DEF GoesAway
<1>3. CASE FailsToRemove(n) /\ UNCHANGED pollers
  BY <1>1, <1>3, NoneClosed, FailsToRemoveShape
<1> QED
  BY <1>2, <1>3, DeleteBecomes

LEMMA AwaitDoneShape == ASSUME Types, Shape, NEW n, AwaitDone(n) PROVE Shape'
<1>1. n \in 1 .. calls /\ call[n].pc = "await" /\ call[n] \in Call
  BY AwaitDoneBecomes DEF At, Types
<1>2. PICK p \in PollerOf(n) :
        /\ p.pc = "closed" /\ pollers' = pollers \ {p}
        /\ IF call[n].req.op = "Remove"
             THEN \E c \in After(call[n]) : Becomes(n, c)
             ELSE \E c \in Call :
                    /\ Becomes(n, c)
                    /\ c.pc = "answered" /\ c.seen = p.seen /\ c.at = call[n].at
                    /\ c.pvcs = call[n].pvcs /\ c.hit = call[n].hit
                    /\ c.wrote = call[n].wrote
  BY AwaitDoneBecomes
<1>3. p \in pollers /\ p.n = n /\ p.at = call[n].at
  BY <1>2 DEF PollerOf
<1>4. \A q \in pollers' : q.n = n => q.pc # "closed"
  BY <1>1, <1>2, <1>3, OneClosed
<1>5. CASE call[n].req.op = "Remove"
  BY <1>1, <1>2, <1>3, <1>4, <1>5, AfterShape
<1>6. CASE call[n].req.op # "Remove"
  BY <1>1, <1>2, <1>3, <1>4, <1>6, EndShape
<1> QED
  BY <1>5, <1>6

LEMMA TimeOutShape == ASSUME Types, Shape, NEW n, TimeOut(n) PROVE Shape'
<1>1. n \in 1 .. calls /\ call[n].pc = "await"
  BY TimeOutBecomes DEF At
<1>2. pollers' = { p \in pollers : ~(p \in PollerOf(n) /\ p.pc = "closed") }
  BY TimeOutBecomes
<1>3. /\ pollers' \subseteq pollers
      /\ \A p \in pollers : p.n # n => p \in pollers'
  BY <1>2 DEF PollerOf
<1>4. \A p \in pollers' : p.n = n => p.pc # "closed"
  BY <1>1, <1>2, OneClosed
<1>5. CASE call[n].req.op = "Remove"
  BY <1>1, <1>3, <1>4, <1>5, TimeOutBecomes, FailsToRemoveShape
<1>6. CASE call[n].req.op # "Remove"
  BY <1>1, <1>3, <1>4, <1>6, TimeOutBecomes, EndShape DEF Same
<1> QED
  BY <1>5, <1>6

LEMMA AwaitErrorShape == ASSUME Types, Shape, NEW n, AwaitError(n) PROVE Shape'
<1>1. n \in 1 .. calls /\ call[n].pc = "await" /\ CallShape(call[n])
  BY AwaitErrorBecomes DEF At, Shape
<1>2. PICK p \in PollerOf(n) :
        /\ p.pc = "send"
        /\ pollers' = (pollers \ {p}) \cup
                      IF p.at.kind \in RolledOut THEN {[p EXCEPT !.pc = "get"]} ELSE {}
  BY DEF AwaitError
<1>3. PICK c \in Call :
        Becomes(n, c) /\ c.pc = "answered" /\ c.err # "nil" /\ Same(c, call[n])
  BY AwaitErrorBecomes
<1>4. /\ p \in pollers /\ p.n = n /\ p.at = call[n].at /\ p \in Poller
      /\ PollerShape(p, call[n]) /\ c.req = call[n].req
  BY <1>2, <1>3 DEF PollerOf, Types, Shape, Becomes
<1>5. /\ c.at = call[n].at /\ c.pvcs = call[n].pvcs
      /\ \A q \in pollers : q.n = n /\ q # p => PollerShape(q, call[n]) /\ q.pc # "closed"
  BY <1>1, <1>2, <1>3, <1>4, OneClosed DEF Shape, PollerShape, Same
<1>6. CallShape(c)
  BY <1>1, <1>3, <1>4, <1>5 DEF CallShape
<1> DEFINE g == [p EXCEPT !.pc = "get"]
<1>7. g.n = n /\ g.at = p.at /\ g.pc = "get"
  BY <1>4 DEF Poller
<1>8. pollers' \subseteq (pollers \ {p}) \cup {g} /\ pollers \ {p} \subseteq pollers'
  BY <1>2
<1> HIDE DEF g
<1>9. PollerShape(g, c) /\ \A q \in pollers : q.n = n /\ q # p => PollerShape(q, c)
  BY <1>3, <1>4, <1>5, <1>7 DEF PollerShape
<1>10. \A q \in pollers' : q.n = n => PollerShape(q, c)
  BY <1>8, <1>9
<1>11. \A q \in pollers : q.n = n /\ q.at = p.at => q = p
  BY <1>4 DEF Shape
<1>12. \A q, s \in pollers' : q.n = n /\ s.n = n /\ q.at = s.at => q = s
  BY <1>7, <1>8, <1>11 DEF Shape
<1>13. \A q : q.n # n => (q \in pollers <=> q \in pollers')
  BY <1>4, <1>7, <1>8
<1> QED
  BY <1>3, <1>6, <1>10, <1>12, <1>13, ShapeStep

(* What a goroutine does is its own: it stays itself, or ends. *)
Polled(p) ==
  /\ UNCHANGED <<once, obj, calls, call>>
  /\ \/ pollers' = pollers \ {p} /\ ~IsAwaited(p)
     \/ \E q \in Poller :
          /\ q.n = p.n /\ q.at = p.at /\ pollers' = (pollers \ {p}) \cup {q}
          /\ \/ q.pc = "send" /\ call[p.n].req.op = "Rollout"
             \/ /\ q.pc = "closed" /\ IsAwaited(p)
                /\ call[p.n].req.op = "Remove" => ~Present(p.at)
                /\ call[p.n].req.op = "Rollout" =>
                     /\ q.seen = obj[p.at] /\ Present(p.at)
                     /\ p.at.kind \in RolledOut => IsRolledOut(obj[p.at])

LEMMA CloseIsPolled ==
  ASSUME Types, NEW p \in pollers, NEW seen \in Object \cup {Absent}, Close(p, seen)
  PROVE  \/ pollers' = pollers \ {p} /\ ~IsAwaited(p)
         \/ \E q \in Poller :
              /\ q.n = p.n /\ q.at = p.at /\ pollers' = (pollers \ {p}) \cup {q}
              /\ q.pc = "closed" /\ q.seen = seen /\ IsAwaited(p)
<1> DEFINE q == [p EXCEPT !.pc = "closed", !.seen = seen]
<1>1. q \in Poller /\ q.n = p.n /\ q.at = p.at /\ q.pc = "closed" /\ q.seen = seen
  BY DEF Types, Poller
<1> QED
  BY <1>1 DEF Close

LEMMA PollRemoveIsPolled ==
  ASSUME Types, NEW p \in pollers, PollRemove(p)
  PROVE  Polled(p)
<1>1. /\ Close(p, Absent) /\ ~Present(p.at) /\ call[p.n].req.op = "Remove"
      /\ UNCHANGED <<once, obj, calls, call>>
  BY DEF PollRemove, IsGone
<1> QED
  BY <1>1, CloseIsPolled DEF Polled

LEMMA PollRolloutIsPolled ==
  ASSUME Types, NEW p \in pollers, PollRollout(p)
  PROVE  Polled(p)
<1>1. UNCHANGED <<once, obj, calls, call>> /\ call[p.n].req.op = "Rollout"
  BY DEF PollRollout
<1>2. CASE /\ Present(p.at) /\ Close(p, obj[p.at])
           /\ p.at.kind \in RolledOut => IsRolledOut(obj[p.at])
  <2>1. obj[p.at] \in Object \cup {Absent}
    BY DEF Types, Poller
  <2>2. \/ pollers' = pollers \ {p} /\ ~IsAwaited(p)
        \/ \E q \in Poller :
             /\ q.n = p.n /\ q.at = p.at /\ pollers' = (pollers \ {p}) \cup {q}
             /\ q.pc = "closed" /\ q.seen = obj[p.at] /\ IsAwaited(p)
    BY <1>2, <2>1, CloseIsPolled
  <2> QED BY <1>1, <1>2, <2>2 DEF Polled
<1>3. CASE pollers' = (pollers \ {p}) \cup {[p EXCEPT !.pc = "send"]}
  <2> DEFINE q == [p EXCEPT !.pc = "send"]
  <2>1. q \in Poller /\ q.n = p.n /\ q.at = p.at /\ q.pc = "send"
    BY DEF Types, Poller
  <2> QED BY <1>1, <1>3, <2>1 DEF Polled
<1> QED
  BY <1>2, <1>3 DEF PollRollout

LEMMA PolledShape == ASSUME Types, Shape, NEW p \in pollers, Polled(p) PROVE Shape'
<1>1. /\ p.n \in 1 .. calls /\ PollerShape(p, call[p.n])
      /\ \A q \in pollers : q.n = p.n /\ q.at = p.at => q = p
      /\ calls' = calls /\ call' = call
  BY DEF Shape, Polled
<1>2. CASE pollers' = pollers \ {p} /\ ~(call[p.n].pc = "await" /\ call[p.n].at = p.at)
  <2>1. ASSUME NEW n \in 1 .. calls, call[n].pc = "await"
        PROVE  \E q \in pollers' : q.n = n /\ q.at = call[n].at
    <3>1. PICK q \in pollers : q.n = n /\ q.at = call[n].at
      BY <2>1 DEF Shape
    <3>2. q # p
      BY <1>2, <2>1, <3>1
    <3> QED BY <1>2, <3>1, <3>2
  <2>2. /\ \A q \in pollers' : q.n \in 1 .. calls /\ PollerShape(q, call[q.n])
        /\ \A q, s \in pollers' : q.n = s.n /\ q.at = s.at => q = s
    BY <1>2 DEF Shape
  <2> QED BY <1>1, <2>1, <2>2 DEF Shape
<1>3. ASSUME NEW q \in Poller, q.n = p.n, q.at = p.at, pollers' = (pollers \ {p}) \cup {q},
             q.pc = "send" \/ (q.pc = "closed" /\ IsAwaited(p))
      PROVE  Shape'
  <2>1. PollerShape(q, call[q.n])
    BY <1>1, <1>3 DEF PollerShape, IsAwaited
  <2>2. \A s \in pollers' : s.n \in 1 .. calls /\ PollerShape(s, call[s.n])
    BY <1>1, <1>3, <2>1 DEF Shape
  <2>3. \A s, t \in pollers' : s.n = t.n /\ s.at = t.at => s = t
    BY <1>1, <1>3 DEF Shape
  <2>4. ASSUME NEW n \in 1 .. calls, call[n].pc = "await"
        PROVE  \E s \in pollers' : s.n = n /\ s.at = call[n].at
    <3>1. PICK s \in pollers : s.n = n /\ s.at = call[n].at
      BY <2>4 DEF Shape
    <3> QED BY <1>3, <3>1
  <2> QED BY <1>1, <2>2, <2>3, <2>4 DEF Shape
<1>4. ~IsAwaited(p) => ~(call[p.n].pc = "await" /\ call[p.n].at = p.at)
  BY DEF IsAwaited
<1> QED
  BY <1>2, <1>3, <1>4 DEF Polled

LEMMA BeginShape ==
  ASSUME Types, Shape, NEW r \in Requests, BeginCall(r)
  PROVE  Shape'
<1>2. pollers' = pollers
  BY DEF BeginCall
<1>3. /\ calls' = calls + 1 /\ calls' \in 1 .. MaxCalls
      /\ \A n \in 1 .. calls : call'[n] = call[n]
      /\ call'[calls'] = Begun(r)
  BY BeginTypes
<1>4. CallShape(Begun(r)) /\ Begun(r).pc # "await"
  BY DEF CallShape, Begun
<1>5. calls \in Nat /\ \A n \in 1 .. calls' : n \in 1 .. calls \/ n = calls'
  BY <1>3, NumbersAreCalls
<1>6. \A n \in 1 .. calls' : CallShape(call'[n])
  BY <1>3, <1>4, <1>5 DEF Shape
<1>7. \A p \in pollers' : p.n \in 1 .. calls' /\ PollerShape(p, call'[p.n])
  <2>1. \A n \in 1 .. calls : n \in 1 .. calls'
    BY <1>3, <1>5
  <2> QED BY <1>2, <1>3, <2>1 DEF Shape
<1>8. \A n \in 1 .. calls' :
        call'[n].pc = "await" => \E p \in pollers' : p.n = n /\ p.at = call'[n].at
  BY <1>2, <1>3, <1>4, <1>5 DEF Shape
<1> QED
  BY <1>2, <1>6, <1>7, <1>8 DEF Shape

(* One lemma for each action says that it keeps the shape. *)
LEMMA ShapeKept == ASSUME Types, Shape, [Next]_vars PROVE Shape'
<1>1. ASSUME NEW n, CallStep(n) PROVE Shape'
  <2>5. CASE InitStep(n)
    BY <2>5, StartedShape
  <2>1. CASE Look(n)
    BY <2>1, LookBecomes, NoneClosed, EndShape DEF At
  <2>2. CASE Create(n)
    <3>1. n \in 1 .. calls /\ call[n].pc = "create"
      BY <2>2 DEF Create, At
    <3> QED BY <2>2, <3>1, CreateBecomes, WritesShape, GoesOnShape, FailsAloneShape
  <2>3. CASE Update(n)
    <3>1. n \in 1 .. calls /\ call[n].pc = "update"
      BY <2>3 DEF Update, At
    <3> QED BY <2>3, <3>1, UpdateBecomes, WritesShape, FailsAloneShape
  <2>4. CASE GetSts(n)
    BY <2>4, GetStsBecomes, GoesOnShape, FailsAloneShape DEF At
  <2> QED
    BY <1>1, <2>1, <2>2, <2>3, <2>4, <2>5, ListPvcsShape, DeleteShape, AwaitDoneShape, AwaitErrorShape,
       TimeOutShape DEF CallStep
<1>2. ASSUME NEW p \in pollers, PollRemove(p) \/ PollRollout(p) PROVE Shape'
  BY <1>2, PollRemoveIsPolled, PollRolloutIsPolled, PolledShape
<1>3. CASE UNCHANGED <<calls, call, pollers>>
  BY <1>3 DEF Shape
<1>4. ASSUME NEW a, ReportStatus(a) \/ Finalize(a) PROVE UNCHANGED <<calls, call, pollers>>
  BY <1>4 DEF ReportStatus, Finalize
<1>5. CASE UNCHANGED vars
  BY <1>3, <1>5 DEF vars
<1> QED
  BY <1>1, <1>2, <1>3, <1>4, <1>5, BeginShape DEF Next, PollStep

(* Where goroutines come from. *)
LEMMA SpawnTypes ==
  ASSUME NEW n \in Calls, NEW a \in Places, Spawn(n, a), pollers \subseteq Poller
  PROVE  pollers' \subseteq Poller
  BY DEF Spawn, Poller

LEMMA PollerTypes == ASSUME Types, [Next]_vars PROVE pollers' \subseteq Poller
<1>1. pollers \subseteq Poller
  BY DEF Types
<1>2. CASE UNCHANGED pollers
  BY <1>1, <1>2
<1>3. ASSUME NEW n, CallStep(n) PROVE pollers' \subseteq Poller
  <2>1. n \in 1 .. calls /\ n \in Calls /\ Target(n) \in Places /\ call[n].at \in Places
    BY <1>3, CallStepBecomes, NumbersAreCalls, TargetPlace DEF Types, Call
  <2>2. CASE Create(n) \/ Update(n)
    BY <1>1, <2>1, <2>2, SpawnTypes DEF Create, Update, Written, Refused
  <2>3. CASE Delete(n)
    BY <1>1, <2>1, <2>3, DeleteBecomes, SpawnTypes DEF IsAccepted
  <2>4. CASE AwaitDone(n)
    BY <1>1, <2>4, AwaitDoneBecomes
  <2>5. CASE AwaitError(n)
    <3>1. PICK p \in PollerOf(n) :
            pollers' = (pollers \ {p}) \cup
                       IF p.at.kind \in RolledOut THEN {[p EXCEPT !.pc = "get"]} ELSE {}
      BY <2>5, AwaitErrorBecomes
    <3>2. p \in Poller
      BY <1>1, <3>1 DEF PollerOf
    <3>3. [p EXCEPT !.pc = "get"] \in Poller
      BY <3>2 DEF Poller
    <3> QED BY <1>1, <3>1, <3>3
  <2>6. CASE TimeOut(n)
    BY <1>1, <2>6, TimeOutBecomes
  <2>7. CASE InitStep(n) \/ Look(n) \/ GetSts(n) \/ ListPvcs(n)
    BY <1>1, <2>7, InitStepBecomes DEF Look, GetSts, ListPvcs
  <2> QED BY <1>3, <2>2, <2>3, <2>4, <2>5, <2>6, <2>7 DEF CallStep
<1>4. ASSUME NEW p \in pollers, PollRemove(p) \/ PollRollout(p) PROVE pollers' \subseteq Poller
  BY <1>1, <1>4, PollRemoveIsPolled, PollRolloutIsPolled DEF Polled
<1>5. ASSUME NEW r, BeginCall(r) PROVE UNCHANGED pollers
  BY <1>5 DEF BeginCall
<1>6. ASSUME NEW a, ReportStatus(a) \/ Finalize(a) PROVE UNCHANGED pollers
  BY <1>6 DEF ReportStatus, Finalize
<1>7. CASE UNCHANGED vars
  BY <1>2, <1>7 DEF vars
<1> QED
  BY <1>2, <1>3, <1>4, <1>5, <1>6, <1>7 DEF Next, PollStep

LEMMA TypesKept == ASSUME Types, [Next]_vars PROVE Types'
  BY ObjectsEvolve, CallsEvolveLemma, PollerTypes DEF Types, ObjTypes, CallsEvolve

LEMMA InitTypes == ASSUME Init PROVE Types /\ Shape
<1>1. once = "new" /\ calls = 0 /\ call = <<>> /\ pollers = {}
  BY DEF Init
<1>2. obj \in [Places -> Object \cup {Absent}]
  <2>1. ASSUME NEW a \in Places
        PROVE  [uid |-> 0, gen |-> 1, obs |-> 1, full |-> a.kind \in RolledOut, going |-> FALSE]
                 \in Object
    BY DEF Object
  <2> QED BY <2>1 DEF Init
<1>3. call \in [1 .. calls -> Call] /\ 1 .. calls = {} /\ calls \in 0 .. MaxCalls
  BY <1>1, K8sAssumption
<1> QED
  BY <1>1, <1>2, <1>3 DEF Types, Shape

LEMMA ShapeIsType == Types /\ Shape => TypeOK
  BY DEF Types, Shape, TypeOK

(* Every variable has its type in every reachable state, and a call that    *)
(* waits has exactly one goroutine to hear from, whatever goroutines of     *)
(* calls that gave up still poll.                                           *)
THEOREM TypeCorrect == Spec => []TypeOK
<1>1. Init => Types /\ Shape
  BY InitTypes
<1>2. Types /\ Shape /\ [Next]_vars => (Types /\ Shape)'
  BY TypesKept, ShapeKept
<1> QED
  BY <1>1, <1>2, ShapeIsType, PTL DEF Spec

-------------------------------------------------------------------------------
(* Removal *)

(* What becomes of the incarnation that a call hit, as its record becomes   *)
(* c: a removal goes past its object when it need not wait, or when the     *)
(* goroutine said that the object has gone.                                 *)
HitStep(n, c) ==
  \/ /\ c.hit = call[n].hit
     /\ call[n].req.op = "Remove" =>
          /\ c.at # Target(n) \/ c.pc = "await" => call[n].at # Target(n) \/ call[n].pc = "await"
          /\ c.at # Target(n) \/ (c.pc = "answered" /\ c.err = "nil") =>
               \/ call[n].at # Target(n)
               \/ call[n].pc = "answered" /\ call[n].err = "nil"
               \/ \E p \in pollers : p.n = n /\ p.at = Target(n) /\ p.pc = "closed"
  \/ /\ call[n].pc = "delete" /\ GoesAway(Target(n)) /\ c.hit = {obj[Target(n)].uid}
     /\ call[n].req.wait => c.pc = "await" /\ c.at = Target(n)

LEMMA FailsAloneHit ==
  ASSUME Types, Shape, NEW n \in 1 .. calls, NEW c \in Call,
         c.pc = "answered", c.err # "nil", Same(c, call[n])
  PROVE  HitStep(n, c)
  BY DEF HitStep, Same

LEMMA FailsToRemoveHit ==
  ASSUME Types, Shape, NEW n \in 1 .. calls, FailsToRemove(n)
  PROVE  \E c \in Call : Becomes(n, c) /\ HitStep(n, c)
<1>1. call[n] \in Call
  BY DEF Types
<1>2. CASE call[n].at = Target(n)
  <2>1. PICK c \in Failed(call[n]) : Becomes(n, c)
    BY <1>2 DEF FailsToRemove
  <2>2. c \in Call /\ c.pc = "answered" /\ c.err # "nil" /\ Same(c, call[n])
    BY <1>1, <2>1, FailedKeeps DEF Same
  <2> QED BY <2>1, <2>2, FailsAloneHit
<1>3. CASE call[n].at # Target(n)
  <2>1. PICK c \in After(call[n]) : Becomes(n, c)
    BY <1>3 DEF FailsToRemove
  <2>2. c \in Call /\ c.hit = call[n].hit
    BY <1>1, <2>1, AfterKeeps
  <2> QED BY <1>3, <2>1, <2>2 DEF HitStep
<1> QED
  BY <1>2, <1>3

LEMMA WaitsToRemove == ASSUME NEW r, r.op = "Remove" PROVE Waits(r) <=> r.wait
  BY DEF Waits

LEMMA AcceptedHit ==
  ASSUME Types, Shape, NEW n \in 1 .. calls, IsAccepted(n), call[n].pc = "delete",
         GoesAway(call[n].at)
  PROVE  \E c \in Call : Becomes(n, c) /\ HitStep(n, c)
<1>1. /\ call[n] \in Call /\ call[n].req.op = "Remove"
      /\ Waits(call[n].req) <=> call[n].req.wait
  BY WaitsToRemove DEF Types, Shape, CallShape
<1>2. /\ Accepted(n) \in Call /\ Accepted(n).at = call[n].at
      /\ Accepted(n).hit = IF call[n].at = Target(n) THEN {obj[Target(n)].uid} ELSE call[n].hit
  BY AcceptedKeeps DEF GoesAway
<1>3. CASE \E c \in Call : Becomes(n, c) /\ c.pc = "await" /\ Same(c, Accepted(n))
  <2>1. PICK c \in Call : Becomes(n, c) /\ c.pc = "await" /\ Same(c, Accepted(n))
    BY <1>3
  <2>2. c.at = call[n].at /\ c.hit = Accepted(n).hit
    BY <1>2, <2>1 DEF Same
  <2> QED BY <1>2, <2>1, <2>2 DEF HitStep
<1>4. CASE ~call[n].req.wait /\ \E c \in After(Accepted(n)) : Becomes(n, c)
  <2>1. PICK c \in After(Accepted(n)) : Becomes(n, c)
    BY <1>4
  <2>2. c \in Call /\ c.hit = Accepted(n).hit
    BY <1>2, <2>1, AfterKeeps
  <2> QED BY <1>2, <1>4, <2>1, <2>2 DEF HitStep
<1> QED
  BY <1>1, <1>3, <1>4 DEF IsAccepted

LEMMA CallStepHit ==
  ASSUME Types, Shape, NEW n, CallStep(n)
  PROVE  \E c \in Call : Becomes(n, c) /\ HitStep(n, c)
<1>1. n \in 1 .. calls /\ call[n] \in Call /\ CallShape(call[n])
  BY CallStepBecomes DEF Types, Shape
<1>2. CASE FailsAlone(n) \/ GoesOn(n, "update") \/ GoesOn(n, "listPvcs")
  <2>1. PICK c \in Call : /\ Becomes(n, c) /\ Same(c, call[n])
                          /\ \/ c.pc = "answered" /\ c.err # "nil"
                             \/ c.pc \in {"update", "listPvcs"}
    BY <1>2 DEF FailsAlone, GoesOn
  <2> QED BY <1>1, <2>1 DEF HitStep, Same
<1>3. CASE call[n].req.op # "Remove" /\ \E c \in Call : Becomes(n, c) /\ c.hit = call[n].hit
  BY <1>3 DEF HitStep
<1>4. CASE Look(n)
  BY <1>1, <1>3, <1>4, LookBecomes DEF CallShape, At
<1>5. ASSUME NEW S, Writes(n, S), call[n].pc \in {"create", "update"}
      PROVE  \E c \in Call : Becomes(n, c) /\ HitStep(n, c)
  BY <1>1, <1>3, <1>5 DEF CallShape, Writes, WroteIt
<1>6. CASE Create(n) \/ Update(n)
  <2>1. call[n].pc \in {"create", "update"}
    BY <1>6 DEF Create, Update, At
  <2> QED BY <1>2, <1>5, <1>6, <2>1, CreateBecomes, UpdateBecomes
<1>7. CASE GetSts(n)
  BY <1>2, <1>7, GetStsBecomes
<1>8. CASE ListPvcs(n)
  <2>1. call[n].pc = "listPvcs"
    BY <1>8, ListPvcsBecomes DEF At
  <2>2. PICK c \in Call :
          /\ Becomes(n, c) /\ c.at = call[n].at /\ c.hit = call[n].hit
          /\ c.pc = "delete" \/ (c.pc = "answered" /\ c.err # "nil")
    BY <1>8, ListPvcsBecomes
  <2>3. c.at = Target(n)
    BY <1>1, <2>1, <2>2, NoPollers
  <2> QED BY <2>2, <2>3 DEF HitStep
<1>9. CASE Delete(n)
  <2>1. call[n].pc = "delete"
    BY <1>9 DEF Delete, At
  <2> QED BY <1>1, <1>9, <2>1, DeleteBecomes, AcceptedHit, FailsToRemoveHit
<1>10. CASE AwaitDone(n)
  <2>1. call[n].pc = "await"
    BY <1>10, AwaitDoneBecomes DEF At
  <2>2. PICK p \in PollerOf(n) :
          /\ p.pc = "closed"
          /\ IF call[n].req.op = "Remove"
               THEN \E c \in After(call[n]) : Becomes(n, c)
               ELSE \E c \in Call : Becomes(n, c) /\ c.hit = call[n].hit
    BY <1>10, AwaitDoneBecomes
  <2>3. p \in pollers /\ p.n = n /\ p.at = call[n].at
    BY <2>2 DEF PollerOf
  <2>4. CASE call[n].req.op = "Remove"
    <3>1. PICK c \in After(call[n]) : Becomes(n, c)
      BY <2>2, <2>4
    <3>2. c \in Call /\ c.hit = call[n].hit
      BY <1>1, <3>1, AfterKeeps
    <3> QED BY <2>1, <2>2, <2>3, <3>1, <3>2 DEF HitStep
  <2>5. CASE call[n].req.op # "Remove"
    BY <1>3, <2>2, <2>5
  <2> QED BY <2>4, <2>5
<1>11. CASE AwaitError(n)
  BY <1>1, <1>11, AwaitErrorBecomes, FailsAloneHit
<1>12. CASE TimeOut(n)
  BY <1>1, <1>12, TimeOutBecomes, FailsToRemoveHit, FailsAloneHit
<1>13. CASE InitStep(n)
  BY <1>13, InitStepBecomes DEF Started, HitStep, Same
<1> QED
  BY <1>4, <1>6, <1>7, <1>8, <1>9, <1>10, <1>11, <1>12, <1>13 DEF CallStep

-------------------------------------------------------------------------------
(* Rollout *)

(* What becomes of what a call wrote: the call waits after the write, and   *)
(* returns nil with what the goroutine has seen.                            *)
WroteStep(n, c) ==
  \/ /\ c.wrote = call[n].wrote
     /\ call[n].req.op = "Rollout" =>
          /\ c.pc = "await" => call[n].pc = "await"
          /\ c.pc = "answered" /\ c.err = "nil" =>
               \/ c = call[n]
               \/ \E p \in pollers : p.n = n /\ p.pc = "closed" /\ c.seen = p.seen
  \/ /\ call[n].pc \in {"create", "update"} /\ c.wrote # Absent /\ obj'[Target(n)] = c.wrote
     /\ c.pc = "await" \/ ~Waits(call[n].req)

LEMMA AfterWrote ==
  ASSUME Types, NEW n \in 1 .. calls, call[n].req.op = "Remove", NEW r \in Call,
         r.wrote = call[n].wrote, NEW c \in After(r)
  PROVE  WroteStep(n, c)
  BY AfterKeeps DEF WroteStep

LEMMA FailsToRemoveWrote ==
  ASSUME Types, NEW n \in 1 .. calls, FailsToRemove(n), call[n].req.op = "Remove"
  PROVE  \E c \in Call : Becomes(n, c) /\ WroteStep(n, c)
<1>1. call[n] \in Call
  BY DEF Types
<1>2. PICK c \in Failed(call[n]) \cup After(call[n]) : Becomes(n, c)
  BY DEF FailsToRemove
<1>3. c \in Call /\ c.wrote = call[n].wrote
  BY <1>1, <1>2, FailedKeeps, AfterKeeps
<1> QED
  BY <1>2, <1>3 DEF WroteStep

LEMMA CallStepWrote ==
  ASSUME Types, Shape, NEW n, CallStep(n)
  PROVE  \E c \in Call : Becomes(n, c) /\ WroteStep(n, c)
<1>1. n \in 1 .. calls /\ call[n] \in Call /\ CallShape(call[n])
  BY CallStepBecomes DEF Types, Shape
<1>2. CASE FailsAlone(n) \/ GoesOn(n, "update") \/ GoesOn(n, "listPvcs")
  <2>1. PICK c \in Call : /\ Becomes(n, c) /\ Same(c, call[n])
                          /\ \/ c.pc = "answered" /\ c.err # "nil"
                             \/ c.pc \in {"update", "listPvcs"}
    BY <1>2 DEF FailsAlone, GoesOn
  <2> QED BY <1>1, <2>1 DEF WroteStep, Same
<1>3. CASE call[n].req.op # "Rollout" /\ \E c \in Call : Becomes(n, c) /\ c.wrote = call[n].wrote
  BY <1>3 DEF WroteStep
<1>4. CASE Look(n)
  BY <1>1, <1>3, <1>4, LookBecomes DEF CallShape, At
<1>5. ASSUME NEW S, Writes(n, S), call[n].pc \in {"create", "update"}
      PROVE  \E c \in Call : Becomes(n, c) /\ WroteStep(n, c)
  <2>1. PICK o \in S \cap Object :
          obj'[Target(n)] = o /\ \E c \in Call : WroteIt(n, o, c)
    BY <1>1, <1>5, WritesTypes
  <2>2. PICK c \in Call : WroteIt(n, o, c)
    BY <2>1
  <2>3. o # Absent
    BY AbsentAssumption
  <2>4. CASE c.wrote = o /\ (c.pc = "await" \/ ~Waits(call[n].req))
    BY <1>5, <2>1, <2>2, <2>3, <2>4 DEF WroteStep, WroteIt
  <2>5. CASE c.pc = "answered" /\ c.err # "nil" /\ c.wrote = call[n].wrote
    BY <2>2, <2>5 DEF WroteStep, WroteIt
  <2> QED BY <2>2, <2>4, <2>5 DEF WroteIt
<1>6. CASE Create(n) \/ Update(n)
  <2>1. call[n].pc \in {"create", "update"}
    BY <1>6 DEF Create, Update, At
  <2> QED BY <1>2, <1>5, <1>6, <2>1, CreateBecomes, UpdateBecomes
<1>7. CASE GetSts(n)
  BY <1>2, <1>7, GetStsBecomes
<1>8. CASE ListPvcs(n)
  BY <1>1, <1>3, <1>8, ListPvcsBecomes DEF CallShape, At
<1>9. CASE Delete(n)
  <2>1. call[n].pc = "delete" /\ call[n].req.op = "Remove"
    BY <1>1, <1>9 DEF Delete, At, CallShape
  <2>2. CASE GoesAway(call[n].at) /\ IsAccepted(n)
    <3>1. Accepted(n) \in Call /\ Accepted(n).wrote = call[n].wrote
      BY <1>1, <2>2, AcceptedKeeps DEF GoesAway
    <3>2. PICK c \in Call : /\ Becomes(n, c)
                            /\ (c.pc = "await" /\ Same(c, Accepted(n))) \/ c \in After(Accepted(n))
      BY <2>2, <3>1, AfterTypes DEF IsAccepted
    <3> QED BY <1>1, <1>3, <2>1, <3>1, <3>2, AfterWrote DEF Same
  <2> QED BY <1>1, <1>9, <2>1, <2>2, DeleteBecomes, FailsToRemoveWrote
<1>10. CASE AwaitDone(n)
  <2>1. PICK p \in PollerOf(n) :
          /\ p.pc = "closed"
          /\ IF call[n].req.op = "Remove"
               THEN \E c \in After(call[n]) : Becomes(n, c)
               ELSE \E c \in Call : /\ Becomes(n, c) /\ c.pc = "answered"
                                    /\ c.seen = p.seen /\ c.wrote = call[n].wrote
    BY <1>10, AwaitDoneBecomes
  <2>2. p \in pollers /\ p.n = n
    BY <2>1 DEF PollerOf
  <2>3. CASE call[n].req.op = "Remove"
    BY <1>1, <2>1, <2>3, AfterWrote, AfterTypes
  <2>4. CASE call[n].req.op # "Remove"
    BY <2>1, <2>2, <2>4 DEF WroteStep
  <2> QED BY <2>3, <2>4
<1>11. CASE \E c \in Call : /\ Becomes(n, c) /\ c.pc = "answered" /\ c.err # "nil"
                            /\ Same(c, call[n])
  BY <1>11 DEF WroteStep, Same
<1>12. CASE AwaitError(n)
  BY <1>11, <1>12, AwaitErrorBecomes
<1>13. CASE TimeOut(n)
  BY <1>1, <1>11, <1>13, TimeOutBecomes, FailsToRemoveWrote
<1>14. CASE InitStep(n)
  BY <1>14, InitStepBecomes DEF Started, WroteStep, Same
<1> QED
  BY <1>4, <1>6, <1>7, <1>8, <1>9, <1>10, <1>12, <1>13, <1>14 DEF CallStep

(* A call that began. *)
Fresh(c) ==
  /\ c.pc = "init"
  /\ c.at = AddressOf(c.req) /\ c.hit = {} /\ c.wrote = Absent /\ c.err # "nil"

LEMMA CallsStep ==
  ASSUME Types, Shape, [Next]_vars
  PROVE  /\ \A n \in 1 .. calls : HitStep(n, call'[n]) /\ WroteStep(n, call'[n])
         /\ \A n \in 1 .. calls' : n \in 1 .. calls \/ Fresh(call'[n])
<1> DEFINE Done == /\ \A n \in 1 .. calls : HitStep(n, call'[n]) /\ WroteStep(n, call'[n])
                   /\ \A n \in 1 .. calls' : n \in 1 .. calls \/ Fresh(call'[n])
<1>1. \A n \in 1 .. calls : HitStep(n, call[n]) /\ WroteStep(n, call[n])
  BY DEF HitStep, WroteStep
<1>2. CASE UNCHANGED <<calls, call>>
  BY <1>1, <1>2
<1>3. ASSUME NEW n, CallStep(n) PROVE Done
  <2>1. PICK c \in Call : Becomes(n, c) /\ HitStep(n, c)
    BY <1>3, CallStepHit
  <2>2. PICK d \in Call : Becomes(n, d) /\ WroteStep(n, d)
    BY <1>3, CallStepWrote
  <2>3. /\ n \in 1 .. calls /\ calls' = calls /\ call'[n] = c /\ call'[n] = d
        /\ \A m \in 1 .. calls : m # n => call'[m] = call[m]
    BY <2>1, <2>2, OneCall DEF Becomes
  <2> QED BY <1>1, <2>1, <2>2, <2>3
<1>4. ASSUME NEW r \in Requests, BeginCall(r) PROVE Done
  <2>3. /\ calls' = calls + 1 /\ calls' \in 1 .. MaxCalls
        /\ \A n \in 1 .. calls : call'[n] = call[n]
        /\ call'[calls'] = Begun(r)
    BY <1>4, BeginTypes
  <2>4. Fresh(call'[calls'])
    BY <2>3 DEF Fresh, Begun
  <2>5. calls \in Nat /\ \A n \in 1 .. calls' : n \in 1 .. calls \/ n = calls'
    BY <2>3, NumbersAreCalls
  <2> QED BY <1>1, <2>3, <2>4, <2>5
<1>5. ASSUME NEW p, PollRemove(p) \/ PollRollout(p) PROVE UNCHANGED <<calls, call>>
  BY <1>5 DEF PollRemove, PollRollout
<1>6. ASSUME NEW a, ReportStatus(a) \/ Finalize(a) PROVE UNCHANGED <<calls, call>>
  BY <1>6 DEF ReportStatus, Finalize
<1> QED
  BY <1>2, <1>3, <1>4, <1>5, <1>6 DEF Next, PollStep, vars

-------------------------------------------------------------------------------
(* Incarnations *)

(* A call that has yet to create has made no incarnation: none is made      *)
(* twice.                                                                   *)
Used(u) == u = 0 \/ (u \in 1 .. calls /\ call[u].pc \notin Early)

UidInv ==
  /\ \A a \in Places : Present(a) => Used(obj[a].uid)
  /\ \A n \in 1 .. calls : \A u \in call[n].hit : Used(u)
  /\ \A n \in 1 .. calls : call[n].wrote # Absent => Used(call[n].wrote.uid)

StillUsed(u) == u = 0 \/ (u \in 1 .. calls' /\ call'[u].pc \notin Early)

LEMMA UsedStays == ASSUME Types, [Next]_vars, NEW u, Used(u) PROVE StillUsed(u)
<1>1. CASE u \in 1 .. calls /\ call[u].pc \notin Early
  <2>1. u \in 1 .. calls' /\ call'[u].pc \notin Early
    BY <1>1, CallsEvolveLemma, NumbersAreCalls DEF CallsEvolve
  <2> QED BY <2>1 DEF StillUsed
<1> QED
  BY <1>1 DEF Used, StillUsed

(* An incarnation that is there and was made before was there before. *)
LEMMA NoneReturns ==
  ASSUME Types, [Next]_vars, NEW a \in Places, obj'[a] # Absent, Used(obj'[a].uid)
  PROVE  /\ Present(a) /\ obj[a].uid = obj'[a].uid /\ obj'[a].gen >= obj[a].gen
         /\ obj[a].going => obj'[a].going
<1>1. Evolves(a)
  BY ObjectsEvolve
<1>2. ASSUME NEW n \in 1 .. calls, obj'[a].uid = n, call[n].pc = "create" PROVE FALSE
  BY <1>2, NumbersAreCalls DEF Used, Early
<1> QED
  BY <1>1, <1>2 DEF Evolves

LEMMA UidKept == ASSUME Types, Shape, UidInv, [Next]_vars PROVE UidInv'
<1>1. ASSUME NEW a \in Places, obj'[a] # Absent PROVE StillUsed(obj'[a].uid)
  <2>1. Evolves(a)
    BY ObjectsEvolve
  <2>2. ASSUME NEW n \in 1 .. calls, call'[n].pc \notin Early PROVE StillUsed(n)
    <3>1. n \in 1 .. calls'
      BY CallsEvolveLemma, NumbersAreCalls DEF CallsEvolve
    <3> QED BY <2>2, <3>1 DEF StillUsed
  <2>3. CASE Present(a) /\ obj'[a].uid = obj[a].uid
    <3>1. Used(obj[a].uid)
      BY <2>3 DEF UidInv
    <3> QED BY <2>3, <3>1, UsedStays
  <2>4. ASSUME NEW n \in 1 .. calls, obj'[a].uid = n, call'[n].pc \notin Early
        PROVE  StillUsed(obj'[a].uid)
    BY <2>2, <2>4
  <2> QED BY <1>1, <2>1, <2>3, <2>4 DEF Evolves
<1>2. ASSUME NEW n \in 1 .. calls', NEW u \in call'[n].hit PROVE StillUsed(u)
  <2>1. CASE n \in 1 .. calls
    <3>1. HitStep(n, call'[n])
      BY <2>1, CallsStep
    <3>2. Target(n) \in Places
      BY <2>1, TargetPlace
    <3>3. Used(u)
      BY <1>2, <2>1, <3>1, <3>2 DEF HitStep, UidInv, GoesAway
    <3> QED BY <3>3, UsedStays
  <2>2. CASE n \notin 1 .. calls
    BY <1>2, <2>2, CallsStep DEF Fresh
  <2> QED BY <2>1, <2>2
<1>3. ASSUME NEW n \in 1 .. calls', call'[n].wrote # Absent PROVE StillUsed(call'[n].wrote.uid)
  <2>1. CASE n \in 1 .. calls
    <3>1. WroteStep(n, call'[n]) /\ Target(n) \in Places
      BY <2>1, CallsStep, TargetPlace
    <3>2. CASE call'[n].wrote = call[n].wrote
      <4>1. Used(call[n].wrote.uid)
        BY <1>3, <2>1, <3>2 DEF UidInv
      <4> QED BY <3>2, <4>1, UsedStays
    <3>3. CASE obj'[Target(n)] = call'[n].wrote
      BY <1>1, <1>3, <3>1, <3>3
    <3> QED BY <3>1, <3>2, <3>3 DEF WroteStep
  <2>2. CASE n \notin 1 .. calls
    BY <1>3, <2>2, CallsStep DEF Fresh
  <2> QED BY <2>1, <2>2
<1> QED
  BY <1>1, <1>2, <1>3 DEF UidInv, Present, Used, StillUsed

-------------------------------------------------------------------------------
(* What nil from Remove means *)

Hit(n) == Present(Target(n)) /\ obj[Target(n)].uid \in call[n].hit

(* Past its object a removal that waits has seen it go; one that does not   *)
(* wait has had it accepted; both have hit one.  A goroutine that closed    *)
(* its channel has seen it go.                                              *)
RemoveShape(n) ==
  call[n].req.op = "Remove" =>
    /\ call[n].req.wait /\ (call[n].at # Target(n) \/ (call[n].pc = "answered" /\ call[n].err = "nil"))
         => ~Hit(n)
    /\ ~call[n].req.wait /\ Hit(n) => obj[Target(n)].going
    /\ call[n].at # Target(n) \/ call[n].pc = "await" => call[n].hit # {}

RemoveInv ==
  /\ \A n \in 1 .. calls : RemoveShape(n)
  /\ \A p \in pollers :
       p.pc = "closed" /\ call[p.n].req.op = "Remove" /\ p.at = Target(p.n) => ~Hit(p.n)

(* An incarnation that has gone does not come back. *)
LEMMA GoneForGood ==
  ASSUME Types, UidInv, [Next]_vars, NEW n \in 1 .. calls, call'[n].hit = call[n].hit,
         Hit(n)'
  PROVE  /\ Hit(n) /\ Target(n)' = Target(n)
         /\ obj[Target(n)].going => obj'[Target(n)].going
<1>1. Target(n)' = Target(n) /\ Target(n) \in Places
  BY CallsEvolveLemma, TargetPlace DEF CallsEvolve, Target
<1>2. obj'[Target(n)] # Absent /\ obj'[Target(n)].uid \in call[n].hit
  BY <1>1 DEF Hit, Present
<1>3. Used(obj'[Target(n)].uid)
  BY <1>2 DEF UidInv
<1> QED
  BY <1>1, <1>2, <1>3, NoneReturns DEF Hit

(* Where closed channels come from. *)
LEMMA ClosedBefore ==
  ASSUME Types, Shape, [Next]_vars, NEW q \in pollers', q.pc = "closed"
  PROVE  \/ q \in pollers
         \/ \E p \in pollers : Polled(p) /\ q.n = p.n /\ q.at = p.at /\ q \notin pollers
                               /\ pollers' = (pollers \ {p}) \cup {q}
<1>1. CASE UNCHANGED pollers
  BY <1>1
<1>2. ASSUME NEW n, CallStep(n) PROVE q \in pollers
  <2>1. ASSUME NEW a, Spawn(n, a) PROVE q \in pollers
    BY <2>1, SpawnAdds
  <2>2. CASE Create(n) \/ Update(n)
    BY <2>1, <2>2 DEF Create, Update, Written, Refused
  <2>3. CASE Delete(n)
    BY <2>1, <2>3, DeleteBecomes DEF IsAccepted
  <2>4. CASE AwaitDone(n)
    BY <2>4, AwaitDoneBecomes
  <2>5. CASE AwaitError(n)
    <3>1. PICK p \in PollerOf(n) :
            pollers' = (pollers \ {p}) \cup
                       IF p.at.kind \in RolledOut THEN {[p EXCEPT !.pc = "get"]} ELSE {}
      BY <2>5, AwaitErrorBecomes
    <3>2. [p EXCEPT !.pc = "get"].pc = "get"
      BY <3>1 DEF PollerOf, Types, Poller
    <3> QED BY <3>1, <3>2
  <2>6. CASE TimeOut(n)
    BY <2>6, TimeOutBecomes
  <2>7. CASE InitStep(n) \/ Look(n) \/ GetSts(n) \/ ListPvcs(n)
    BY <2>7, InitStepBecomes DEF Look, GetSts, ListPvcs
  <2> QED BY <1>2, <2>2, <2>3, <2>4, <2>5, <2>6, <2>7 DEF CallStep
<1>3. ASSUME NEW p \in pollers, PollRemove(p) \/ PollRollout(p), q \notin pollers
      PROVE  Polled(p) /\ q.n = p.n /\ q.at = p.at /\ pollers' = (pollers \ {p}) \cup {q}
  <2>1. Polled(p)
    BY <1>3, PollRemoveIsPolled, PollRolloutIsPolled
  <2> QED BY <1>3, <2>1 DEF Polled
<1>4. ASSUME NEW r, BeginCall(r) PROVE UNCHANGED pollers
  BY <1>4 DEF BeginCall
<1>5. ASSUME NEW a, ReportStatus(a) \/ Finalize(a) PROVE UNCHANGED pollers
  BY <1>5 DEF ReportStatus, Finalize
<1>6. CASE UNCHANGED vars
  BY <1>1, <1>6 DEF vars
<1> QED
  BY <1>1, <1>2, <1>3, <1>4, <1>5, <1>6 DEF Next, PollStep

(* A goroutine closes its channel when it sees what it was to see. *)
LEMMA ClosesWhenSeen ==
  ASSUME Types, NEW p \in pollers, Polled(p), NEW q, q \notin pollers, q.pc = "closed",
         pollers' = (pollers \ {p}) \cup {q}
  PROVE  /\ UNCHANGED <<obj, call, calls>> /\ IsAwaited(p)
         /\ call[p.n].req.op = "Remove" => ~Present(p.at)
         /\ call[p.n].req.op = "Rollout" =>
              /\ q.seen = obj[p.at] /\ Present(p.at)
              /\ p.at.kind \in RolledOut => IsRolledOut(obj[p.at])
  BY DEF Polled

LEMMA RemoveKept == ASSUME Types, Shape, UidInv, RemoveInv, [Next]_vars PROVE RemoveInv'
<1>1. ASSUME NEW n \in 1 .. calls PROVE RemoveShape(n)'
  <2> SUFFICES ASSUME call'[n].req.op = "Remove" PROVE RemoveShape(n)'
    BY DEF RemoveShape
  <2>1. /\ HitStep(n, call'[n]) /\ call'[n].req = call[n].req /\ Target(n)' = Target(n)
        /\ Target(n) \in Places /\ RemoveShape(n)
    BY CallsStep, CallsEvolveLemma, TargetPlace DEF CallsEvolve, Target, RemoveInv
  <2>2. CASE /\ call'[n].hit = call[n].hit
             /\ call'[n].at # Target(n) \/ call'[n].pc = "await" =>
                  call[n].at # Target(n) \/ call[n].pc = "await"
             /\ call'[n].at # Target(n) \/ (call'[n].pc = "answered" /\ call'[n].err = "nil") =>
                  \/ call[n].at # Target(n)
                  \/ call[n].pc = "answered" /\ call[n].err = "nil"
                  \/ \E p \in pollers : p.n = n /\ p.at = Target(n) /\ p.pc = "closed"
    <3>1. ASSUME Hit(n)' PROVE Hit(n) /\ (obj[Target(n)].going => obj'[Target(n)].going)
      BY <2>2, <3>1, GoneForGood
    <3>2. (\E p \in pollers : p.n = n /\ p.at = Target(n) /\ p.pc = "closed") => ~Hit(n)
      BY <2>1 DEF RemoveInv
    <3>3. call'[n].req.wait /\
            (call'[n].at # Target(n)' \/ (call'[n].pc = "answered" /\ call'[n].err = "nil"))
            => ~Hit(n)'
      BY <2>1, <2>2, <3>1, <3>2 DEF RemoveShape
    <3>4. ~call'[n].req.wait /\ Hit(n)' => obj'[Target(n)'].going
      BY <2>1, <3>1 DEF RemoveShape
    <3>5. call'[n].at # Target(n)' \/ call'[n].pc = "await" => call'[n].hit # {}
      BY <2>1, <2>2 DEF RemoveShape
    <3> QED BY <3>3, <3>4, <3>5 DEF RemoveShape
  <2>3. CASE /\ call[n].pc = "delete" /\ GoesAway(Target(n))
             /\ call'[n].hit = {obj[Target(n)].uid}
             /\ call[n].req.wait => call'[n].pc = "await" /\ call'[n].at = Target(n)
    <3>1. call'[n].req.wait => call'[n].at = Target(n)' /\ call'[n].pc # "answered"
      BY <2>1, <2>3
    <3>2. obj'[Target(n)] # Absent => obj'[Target(n)].going
      BY <2>1, <2>3 DEF GoesAway, Types, Present, Object
    <3> QED BY <2>1, <2>3, <3>1, <3>2 DEF RemoveShape, Hit, Present
  <2> QED BY <2>1, <2>2, <2>3 DEF HitStep
<1>2. ASSUME NEW n \in 1 .. calls', n \notin 1 .. calls PROVE RemoveShape(n)'
  <2>1. Fresh(call'[n])
    BY <1>2, CallsStep
  <2>2. /\ call'[n].at = Target(n)' /\ call'[n].err # "nil" /\ call'[n].pc # "await"
        /\ ~Hit(n)'
    BY <2>1 DEF Fresh, Target, Hit
  <2> QED BY <2>2 DEF RemoveShape
<1>3. ASSUME NEW q \in pollers', q.pc = "closed", call'[q.n].req.op = "Remove",
             q.at = Target(q.n)'
      PROVE  ~Hit(q.n)'
  <2>1. CASE q \in pollers
    <3>1. q.n \in 1 .. calls /\ call[q.n].pc = "await"
      BY <1>3, <2>1 DEF Shape, PollerShape
    <3>2. /\ call'[q.n].req = call[q.n].req /\ Target(q.n)' = Target(q.n)
          /\ call'[q.n].hit = call[q.n].hit
      BY <3>1, CallsEvolveLemma, CallsStep DEF CallsEvolve, Target, HitStep
    <3>3. ~Hit(q.n)
      BY <1>3, <2>1, <3>2 DEF RemoveInv
    <3> QED BY <3>1, <3>2, <3>3, GoneForGood
  <2>2. ASSUME NEW p \in pollers, Polled(p), q.n = p.n, q.at = p.at, q \notin pollers,
               pollers' = (pollers \ {p}) \cup {q}
        PROVE  ~Hit(q.n)'
    BY <1>3, <2>2, ClosesWhenSeen DEF Hit, Present, Target
  <2> QED BY <1>3, <2>1, <2>2, ClosedBefore
<1> QED
  BY <1>1, <1>2, <1>3 DEF RemoveInv

LEMMA InitUid == ASSUME Init PROVE UidInv /\ RemoveInv
<1>1. 1 .. calls = {} /\ pollers = {}
  BY DEF Init
<1>2. ASSUME NEW a \in Places, Present(a) PROVE Used(obj[a].uid)
  BY <1>2 DEF Init, Present, Used
<1> QED
  BY <1>1, <1>2 DEF UidInv, RemoveInv

LEMMA RemoveImplies == ASSUME Types, Shape, RemoveInv PROVE RemovedMeansGone /\ DataGoesLast
<1>1. ASSUME NEW n \in Calls, Answered(n, "Remove", "nil"), call[n].req.wait
      PROVE  ~(Present(Target(n)) /\ obj[Target(n)].uid \in call[n].hit)
  BY <1>1 DEF Answered, RemoveInv, RemoveShape, Hit
<1>2. ASSUME NEW n \in 1 .. calls, call[n].req.op = "Remove", call[n].at # Target(n)
      PROVE  /\ call[n].hit # {}
             /\ Present(Target(n)) /\ obj[Target(n)].uid \in call[n].hit =>
                  ~call[n].req.wait /\ obj[Target(n)].going
  BY <1>2 DEF RemoveInv, RemoveShape, Hit
<1> QED
  BY <1>1, <1>2 DEF RemovedMeansGone, DataGoesLast

(* Whatever the server refuses, loses or brings back, and whatever other    *)
(* calls create under the same name, a Remove that waited and returned nil  *)
(* saw the incarnation it removed go.                                       *)
THEOREM RemovedMeansGoneHolds == Spec => []RemovedMeansGone
<1>1. Init => Types /\ Shape /\ UidInv /\ RemoveInv
  BY InitTypes, InitUid
<1>2. Types /\ Shape /\ UidInv /\ RemoveInv /\ [Next]_vars
        => (Types /\ Shape /\ UidInv /\ RemoveInv)'
  BY TypesKept, ShapeKept, UidKept, RemoveKept
<1> QED
  BY <1>1, <1>2, RemoveImplies, PTL DEF Spec

(* No claim is removed before its StatefulSet's removal was accepted, nor,  *)
(* when the call waits, before it has gone.                                 *)
THEOREM DataGoesLastHolds == Spec => []DataGoesLast
<1>1. Init => Types /\ Shape /\ UidInv /\ RemoveInv
  BY InitTypes, InitUid
<1>2. Types /\ Shape /\ UidInv /\ RemoveInv /\ [Next]_vars
        => (Types /\ Shape /\ UidInv /\ RemoveInv)'
  BY TypesKept, ShapeKept, UidKept, RemoveKept
<1> QED
  BY <1>1, <1>2, RemoveImplies, PTL DEF Spec

-------------------------------------------------------------------------------
(* What nil from Rollout means *)

(* A status that may end a wait for what was written. *)
Good(seen, wrote) ==
  /\ seen # Absent
  /\ seen.full
  /\ seen.uid = wrote.uid => seen.obs >= wrote.gen

RolloutShape(n) ==
  /\ call[n].wrote # Absent /\ Present(Target(n)) /\ obj[Target(n)].uid = call[n].wrote.uid =>
       obj[Target(n)].gen >= call[n].wrote.gen
  /\ call[n].req.op = "Rollout" /\ Waits(call[n].req) =>
       /\ call[n].pc = "await" => call[n].wrote # Absent
       /\ call[n].pc = "answered" /\ call[n].err = "nil" /\ call[n].req.kind \in RolledOut =>
            Good(call[n].seen, call[n].wrote)

RolloutInv ==
  /\ \A n \in 1 .. calls : RolloutShape(n)
  /\ \A p \in pollers :
       p.pc = "closed" /\ call[p.n].req.op = "Rollout" /\ p.at.kind \in RolledOut =>
         Good(p.seen, call[p.n].wrote)

(* The generation of an incarnation does not fall below what was written. *)
LEMMA GenerationGrows ==
  ASSUME Types, Shape, UidInv, RolloutInv, [Next]_vars, NEW n \in 1 .. calls,
         call'[n].wrote = call[n].wrote, call[n].wrote # Absent,
         obj'[Target(n)] # Absent, obj'[Target(n)].uid = call[n].wrote.uid
  PROVE  obj'[Target(n)].gen >= call[n].wrote.gen
<1>1. Target(n) \in Places /\ Used(obj'[Target(n)].uid)
  BY TargetPlace DEF UidInv
<1>2. /\ Present(Target(n)) /\ obj[Target(n)].uid = call[n].wrote.uid
      /\ obj'[Target(n)].gen >= obj[Target(n)].gen
  BY <1>1, NoneReturns
<1>3. obj[Target(n)].gen >= call[n].wrote.gen
  BY <1>2 DEF RolloutInv, RolloutShape
<1>4. /\ obj[Target(n)].gen \in Nat /\ call[n].wrote.gen \in Nat
      /\ obj'[Target(n)].gen \in Nat
  BY <1>1, <1>2, ObjectsEvolve DEF Types, Call, Object, Present, ObjTypes
<1> QED
  BY <1>2, <1>3, <1>4

(* What a goroutine sees when it closes its channel is good. *)
LEMMA SeenIsGood ==
  ASSUME Types, Shape, RolloutInv, NEW p \in pollers, IsAwaited(p),
         call[p.n].req.op = "Rollout", Present(p.at), p.at.kind \in RolledOut,
         IsRolledOut(obj[p.at])
  PROVE  Good(obj[p.at], call[p.n].wrote)
<1>1. /\ p.n \in 1 .. calls /\ call[p.n].pc = "await" /\ p.at = Target(p.n)
      /\ Waits(call[p.n].req)
  BY DEF Shape, PollerShape, CallShape, IsAwaited, Target
<1>2. call[p.n].wrote # Absent
  BY <1>1 DEF RolloutInv, RolloutShape
<1>3. obj[p.at].obs >= obj[p.at].gen
  BY DEF IsRolledOut
<1>4. obj[p.at].full
  BY DEF IsRolledOut
<1>5. obj[p.at].uid = call[p.n].wrote.uid => obj[p.at].gen >= call[p.n].wrote.gen
  BY <1>1, <1>2 DEF RolloutInv, RolloutShape
<1>6. obj[p.at].obs \in Nat /\ obj[p.at].gen \in Nat /\ call[p.n].wrote.gen \in Nat
  BY <1>1, <1>2, TargetPlace DEF Types, Call, Object, Present
<1>7. obj[p.at].uid = call[p.n].wrote.uid => obj[p.at].obs >= call[p.n].wrote.gen
  BY <1>3, <1>5, <1>6
<1>8. obj[p.at] # Absent
  BY DEF Present
<1> QED
  BY <1>4, <1>7, <1>8 DEF Good

LEMMA RolloutKept == ASSUME Types, Shape, UidInv, RolloutInv, [Next]_vars PROVE RolloutInv'
<1>1. ASSUME NEW n \in 1 .. calls PROVE RolloutShape(n)'
  <2>1. /\ WroteStep(n, call'[n]) /\ call'[n].req = call[n].req /\ Target(n)' = Target(n)
        /\ RolloutShape(n) /\ CallShape(call[n])
    BY CallsStep, CallsEvolveLemma DEF CallsEvolve, Target, RolloutInv, Shape
  <2>2. CASE /\ call'[n].wrote = call[n].wrote
             /\ call[n].req.op = "Rollout" =>
                  /\ call'[n].pc = "await" => call[n].pc = "await"
                  /\ call'[n].pc = "answered" /\ call'[n].err = "nil" =>
                       \/ call'[n] = call[n]
                       \/ \E p \in pollers : p.n = n /\ p.pc = "closed" /\ call'[n].seen = p.seen
    <3>1. call'[n].wrote # Absent /\ Present(Target(n))' /\ obj'[Target(n)'].uid = call'[n].wrote.uid
            => obj'[Target(n)'].gen >= call'[n].wrote.gen
      BY <2>1, <2>2, GenerationGrows DEF Present
    <3>2. ASSUME call[n].req.op = "Rollout", call[n].req.kind \in RolledOut,
                 NEW p \in pollers, p.n = n, p.pc = "closed"
          PROVE  Good(p.seen, call[n].wrote)
      <4>1. p.at = AddressOf(call[n].req)
        BY <3>2 DEF Shape, PollerShape
      <4>2. AddressOf(call[n].req).kind = call[n].req.kind
        BY DEF AddressOf, Address
      <4> QED BY <3>2, <4>1, <4>2 DEF RolloutInv
    <3>3. call'[n].req.op = "Rollout" /\ Waits(call'[n].req) =>
            (call'[n].pc = "await" => call'[n].wrote # Absent)
      BY <2>1, <2>2 DEF RolloutShape
    <3>4. call'[n].req.op = "Rollout" /\ Waits(call'[n].req) =>
            (call'[n].pc = "answered" /\ call'[n].err = "nil" /\ call'[n].req.kind \in RolledOut =>
              Good(call'[n].seen, call'[n].wrote))
      BY <2>1, <2>2, <3>2 DEF RolloutShape
    <3> QED BY <3>1, <3>3, <3>4 DEF RolloutShape
  <2>3. CASE /\ call[n].pc \in {"create", "update"} /\ call'[n].wrote # Absent
             /\ obj'[Target(n)] = call'[n].wrote
             /\ call'[n].pc = "await" \/ ~Waits(call[n].req)
    <3>1. call'[n].wrote.gen \in Nat
      BY <2>3, ObjectsEvolve, TargetPlace DEF ObjTypes, Object
    <3>2. obj'[Target(n)'].gen >= call'[n].wrote.gen
      BY <2>1, <2>3, <3>1
    <3> QED BY <2>1, <2>3, <3>2 DEF RolloutShape
  <2> QED BY <2>1, <2>2, <2>3 DEF WroteStep
<1>2. ASSUME NEW n \in 1 .. calls', n \notin 1 .. calls PROVE RolloutShape(n)'
  <2>1. Fresh(call'[n])
    BY <1>2, CallsStep
  <2> QED BY <2>1 DEF Fresh, RolloutShape
<1>3. ASSUME NEW q \in pollers', q.pc = "closed", call'[q.n].req.op = "Rollout",
             q.at.kind \in RolledOut
      PROVE  Good(q.seen, call'[q.n].wrote)
  <2>1. CASE q \in pollers
    <3>1. q.n \in 1 .. calls /\ call[q.n].pc = "await"
      BY <1>3, <2>1 DEF Shape, PollerShape
    <3>2. call'[q.n].req = call[q.n].req /\ call'[q.n].wrote = call[q.n].wrote
      BY <3>1, CallsEvolveLemma, CallsStep DEF CallsEvolve, WroteStep
    <3> QED BY <1>3, <2>1, <3>2 DEF RolloutInv
  <2>2. ASSUME NEW p \in pollers, Polled(p), q.n = p.n, q.at = p.at, q \notin pollers,
               pollers' = (pollers \ {p}) \cup {q}
        PROVE  Good(q.seen, call'[q.n].wrote)
    <3>1. /\ call' = call /\ IsAwaited(p) /\ q.seen = obj[p.at] /\ Present(p.at)
          /\ IsRolledOut(obj[p.at]) /\ call[p.n].req.op = "Rollout"
      BY <1>3, <2>2, ClosesWhenSeen
    <3> QED BY <1>3, <2>2, <3>1, SeenIsGood
  <2> QED BY <1>3, <2>1, <2>2, ClosedBefore
<1> QED
  BY <1>1, <1>2, <1>3 DEF RolloutInv

LEMMA RolloutImplies == ASSUME Types, RolloutInv PROVE RolloutSeesItsOwn
<1> SUFFICES ASSUME NEW n \in Calls, Answered(n, "Rollout", "nil"), Waits(call[n].req),
                    call[n].req.kind \in RolledOut
             PROVE  /\ call[n].seen.full
                    /\ call[n].seen.uid = call[n].wrote.uid =>
                         call[n].seen.obs >= call[n].wrote.gen
  BY DEF RolloutSeesItsOwn
<1>1. Good(call[n].seen, call[n].wrote)
  BY DEF Answered, RolloutInv, RolloutShape
<1> QED
  BY <1>1 DEF Good

(* A Rollout that waited does not return nil for the status of an earlier   *)
(* generation, however updates of other calls and the reports of the        *)
(* controllers interleave with its polls.                                   *)
THEOREM RolloutSeesItsOwnHolds == Spec => []RolloutSeesItsOwn
<1>1. Init => Types /\ Shape /\ UidInv /\ RolloutInv
  <2>1. Init => 1 .. calls = {} /\ pollers = {}
    BY DEF Init
  <2> QED BY <2>1, InitTypes, InitUid DEF RolloutInv
<1>2. Types /\ Shape /\ UidInv /\ RolloutInv /\ [Next]_vars
        => (Types /\ Shape /\ UidInv /\ RolloutInv)'
  BY TypesKept, ShapeKept, UidKept, RolloutKept
<1> QED
  BY <1>1, <1>2, RolloutImplies, PTL DEF Spec
================================================================================
