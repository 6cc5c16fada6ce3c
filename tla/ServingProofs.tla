---------------------------- MODULE ServingProofs ----------------------------
(***************************************************************************)
(* Proofs about Serving, for any goroutines, runtimes, clients,            *)
(* configurations, rates and sizes: no runtime in the pool is about to be  *)
(* interrupted (PoolStaysClean), every request is counted once             *)
(* (RequestsAccounted), the rate limits (RatesHold), the slots             *)
(* (SlotsAreHeld) and the types (ServingTypeCorrect).                      *)
(*                                                                         *)
(* The workers come first: WorkerInv says who has a runtime and what may   *)
(* still be sent to it.  The policies' lemmas are about the model's        *)
(* operators: what the limiter does to its table, to a bucket and to the   *)
(* ledger, and what each step leaves of a request's way along its chain.   *)
(* Their invariant has four parts, each of which relies on the ones        *)
(* before:                                                                 *)
(*   PolicyInv  policies are made once, and found under their names;       *)
(*   WalkInv    a request asks for each slot once, not for one that it     *)
(*              holds, and with a reading that is not ahead of the clock;  *)
(*   SlotInv    a policy's slots are the requests that hold one;           *)
(*   RateInv    what a client was granted and the tokens in its bucket     *)
(*              together are covered by its allowance when the bucket was  *)
(*              last changed.                                              *)
(* RateHolds is not inductive: it says nothing of the tokens that a client *)
(* can still take.                                                         *)
(***************************************************************************)
EXTENDS Serving, FiniteSetTheorems, SequenceTheorems, WellFoundedInduction, TLAPS

-----------------------------------------------------------------------------
(* The worker pool.                                                        *)

Holder(r) == job[r].vm # NoVm

\* What the script's own steps rely on: a runtime is with one request at most,
\* and while the hook can still be stopped, or is not armed yet, nothing has
\* been sent to the runtime.
WorkerInv ==
    /\ WorkerTypeOK
    /\ \A r \in Callers : Holder(r) <=> job[r].at \in {"taken", "running", "returned"}
    /\ \A r \in Callers : job[r].armed => job[r].at \in {"running", "returned"}
    /\ \A r, q \in Callers : r # q /\ Holder(r) => job[r].vm # job[q].vm
    /\ \A r \in Callers : job[r].armed \/ job[r].at = "taken" =>
                              job[r].vm \notin started \cup tainted
    /\ PoolClean

LEMMA AnyOfIsMember ==
    ASSUME NEW S, S # {}
    PROVE  AnyOf(S) \in S
  BY DEF AnyOf

LEMMA InitWorkerInv == WorkerInit => WorkerInv
  BY AnyOfIsMember, WorkerAssumption
     DEF WorkerInit, WorkerInv, WorkerTypeOK, Holder, PoolClean, InUse, Idle

\* Steps of a request that take no runtime and give none back.
LEMMA AsideKeepsWorkerInv ==
    ASSUME WorkerInv, NEW r \in Callers, Begin(r) \/ GiveUp(r) \/ Respond(r) \/ CallReturns(r)
    PROVE  WorkerInv'
  <1>1. /\ job' \in [Callers -> [at : {"idle", "body", "taken", "running", "returned", "respond"},
                                 vm : Vms \cup {NoVm}, armed : BOOLEAN]]
        /\ job'[r].vm = job[r].vm
        /\ job'[r].at # "taken"
        /\ Holder(r) <=> job'[r].at \in {"taken", "running", "returned"}
        /\ job'[r].armed => job[r].armed /\ job'[r].at = "returned"
        /\ \A q \in Callers \ {r} : job'[q] = job[q]
    <2> USE DEF WorkerInv, WorkerTypeOK, Holder, Idle, Answering
    <2>1. CASE Begin(r)
      BY <2>1 DEF Begin
    <2>2. CASE GiveUp(r)
      <3>1. job[r].vm = NoVm
        BY <2>2 DEF GiveUp
      <3>2. job'[r] = Answering
        BY <2>2 DEF GiveUp
      <3>. QED
        BY <2>2, <3>1, <3>2, WorkerAssumption DEF GiveUp
    <2>3. CASE Respond(r)
      BY <2>3 DEF Respond
    <2>4. CASE CallReturns(r)
      BY <2>4 DEF CallReturns
    <2>. QED
      BY <2>1, <2>2, <2>3, <2>4
  <1>2. UNCHANGED <<pool, started, tainted>> /\ ended' \subseteq ended
    BY DEF Begin, GiveUp, Respond, CallReturns
  <1>3. InUse' = InUse
    BY <1>1 DEF InUse
  <1>4. PoolClean'
    BY <1>2, <1>3 DEF WorkerInv, PoolClean
  <1>. QED
    BY <1>1, <1>2, <1>4 DEF WorkerInv, WorkerTypeOK, Holder

LEMMA TakeKeepsWorkerInv ==
    ASSUME WorkerInv, NEW r \in Callers, NEW v \in Vms, Take(r, v)
    PROVE  WorkerInv'
  <1> USE WorkerAssumption DEF WorkerInv, Holder, Take
  <1>1. v \in pool \/ v \in Unmade
    BY AnyOfIsMember
  <1>2. v \notin started \cup InUse
    BY <1>1 DEF Unmade, PoolClean
  <1>3. v \notin tainted' /\ tainted' \subseteq tainted
    BY DEF PoolClean
  <1>4. \A q \in Callers : job[q].vm # v
    BY <1>2 DEF InUse
  <1>5. job'[r].vm = v /\ job'[r].at = "taken" /\ ~job'[r].armed
        /\ \A q \in Callers \ {r} : job'[q] = job[q]
    BY DEF WorkerTypeOK
  <1>6. WorkerTypeOK'
    BY <1>3 DEF WorkerTypeOK
  <1>7. \A q, p \in Callers : q # p /\ job'[q].vm # NoVm => job'[q].vm # job'[p].vm
    BY <1>4, <1>5 DEF WorkerTypeOK
  <1>8. \A q \in Callers : job'[q].armed \/ job'[q].at = "taken" =>
                               job'[q].vm \notin started' \cup tainted'
    BY <1>2, <1>3, <1>5 DEF WorkerTypeOK
  <1>9. PoolClean'
    <2>1. InUse' \subseteq InUse \cup {v}
      <3> HIDE DEF Take, WorkerInv
      <3>. QED
        BY <1>5 DEF InUse
    <2>. QED
      BY <1>2, <1>3, <2>1 DEF PoolClean
  <1>10. \A q \in Callers : /\ Holder(q)' <=> job'[q].at \in {"taken", "running", "returned"}
                            /\ job'[q].armed => job'[q].at \in {"running", "returned"}
    BY <1>5 DEF WorkerTypeOK
  <1>. QED
    BY <1>6, <1>7, <1>8, <1>9, <1>10

LEMMA ArmKeepsWorkerInv ==
    ASSUME WorkerInv, NEW r \in Callers, Arm(r)
    PROVE  WorkerInv'
  <1> USE DEF WorkerInv, Holder, Arm
  <1>1. /\ job'[r].vm = job[r].vm /\ job'[r].at = "running" /\ job'[r].armed = (r \notin ended)
        /\ \A q \in Callers \ {r} : job'[q] = job[q]
    BY DEF WorkerTypeOK
  <1>2. job[r].vm \in InUse /\ InUse' = InUse
    <2>1. job[r].vm # NoVm
      OBVIOUS
    <2> HIDE DEF Arm, WorkerInv
    <2>2. \A q \in Callers : job'[q].vm = job[q].vm
      BY <1>1
    <2>. QED
      BY <2>1, <2>2 DEF InUse
  <1>3. WorkerTypeOK'
    <2>1. job[r].vm \in Vms
      <3>1. job \in [Callers -> [at : {"idle", "body", "taken", "running", "returned", "respond"},
                                vm : Vms \cup {NoVm}, armed : BOOLEAN]]
        BY DEF WorkerTypeOK
      <3>2. job[r].vm \in Vms \cup {NoVm}
        BY <3>1
      <3>. QED
        BY <1>2, <3>2 DEF InUse
    <2> HIDE DEF WorkerInv
    <2>2. WorkerTypeOK
      BY DEF WorkerInv
    <2>3. job' \in [Callers -> [at : {"idle", "body", "taken", "running", "returned", "respond"},
                               vm : Vms \cup {NoVm}, armed : BOOLEAN]]
      <3>1. PICK b \in BOOLEAN : b = (r \notin ended)
        OBVIOUS
      <3>2. job' = [job EXCEPT ![r].at = "running", ![r].armed = b]
        BY <3>1
      <3> HIDE DEF Arm
      <3>. QED
        BY <2>2, <3>2 DEF WorkerTypeOK
    <2>4. /\ pool' = pool /\ ended' = ended /\ tainted' = tainted
          /\ started' = started \cup (IF r \in ended THEN {job[r].vm} ELSE {})
      OBVIOUS
    <2> HIDE DEF Arm
    <2>. QED
      BY <2>1, <2>2, <2>3, <2>4 DEF WorkerTypeOK
  <1>4. PoolClean'
    BY <1>2 DEF PoolClean
  <1>5. \A q \in Callers : job'[q].armed \/ job'[q].at = "taken" =>
                               job'[q].vm \notin started' \cup tainted'
    BY <1>1 DEF WorkerTypeOK
  <1>6. \A q \in Callers : /\ Holder(q)' <=> job'[q].at \in {"taken", "running", "returned"}
                           /\ job'[q].armed => job'[q].at \in {"running", "returned"}
    BY <1>1 DEF WorkerTypeOK
  <1>7. \A q, p \in Callers : q # p /\ job'[q].vm # NoVm => job'[q].vm # job'[p].vm
    BY <1>1 DEF WorkerTypeOK
  <1>. QED
    BY <1>3, <1>4, <1>5, <1>6, <1>7

LEMMA ContextEndsKeepsWorkerInv ==
    ASSUME WorkerInv, NEW r \in Callers, ContextEnds(r)
    PROVE  WorkerInv'
  <1> USE DEF WorkerInv, Holder, ContextEnds
  <1>1. /\ job'[r].vm = job[r].vm /\ job'[r].at = job[r].at /\ ~job'[r].armed
        /\ \A q \in Callers \ {r} : job'[q] = job[q]
    BY DEF WorkerTypeOK
  <1>2. job[r].armed => job[r].vm # NoVm
    OBVIOUS
  <1>3. InUse' = InUse /\ (job[r].armed => job[r].vm \in InUse)
    BY <1>1, <1>2 DEF InUse
  <1>4. WorkerTypeOK'
    BY <1>2 DEF WorkerTypeOK
  <1>5. PoolClean'
    BY <1>3 DEF PoolClean
  <1>6. \A q \in Callers : job'[q].armed \/ job'[q].at = "taken" =>
                               job'[q].vm \notin started' \cup tainted'
    <2> TAKE q \in Callers
    <2>1. CASE q = r
      BY <1>1, <2>1 DEF WorkerTypeOK
    <2>2. CASE q # r
      BY <1>1, <1>2, <2>2
    <2>. QED
      BY <2>1, <2>2
  <1>7. \A q \in Callers : /\ Holder(q)' <=> job'[q].at \in {"taken", "running", "returned"}
                           /\ job'[q].armed => job'[q].at \in {"running", "returned"}
    BY <1>1
  <1>8. \A q, p \in Callers : q # p /\ job'[q].vm # NoVm => job'[q].vm # job'[p].vm
    BY <1>1
  <1>. QED
    BY <1>4, <1>5, <1>6, <1>7, <1>8

LEMMA InterruptKeepsWorkerInv ==
    ASSUME WorkerInv, NEW v \in Vms, Interrupt(v)
    PROVE  WorkerInv'
  BY DEF WorkerInv, WorkerTypeOK, Holder, Interrupt, PoolClean, InUse

LEMMA StopHookKeepsWorkerInv ==
    ASSUME WorkerInv, NEW r \in Callers, StopHook(r)
    PROVE  WorkerInv'
  <1> USE WorkerAssumption DEF WorkerInv, WorkerTypeOK, Holder, StopHook, Answering, Idle
  <1>1. job'[r].vm = NoVm /\ job'[r].at = "respond" /\ ~job'[r].armed
        /\ \A q \in Callers \ {r} : job'[q] = job[q]
    OBVIOUS
  <1>2. InUse' = InUse \ {job[r].vm}
    BY <1>1 DEF InUse
  <1>3. PoolClean'
    BY <1>2 DEF PoolClean
  <1>4. WorkerTypeOK'
    <2>1. job' \in [Callers -> [at : {"idle", "body", "taken", "running", "returned", "respond"},
                               vm : Vms \cup {NoVm}, armed : BOOLEAN]]
      OBVIOUS
    <2>2. job[r].armed => job[r].vm \in Vms
      OBVIOUS
    <2>. QED
      BY <2>1, <2>2
  <1>5. \A q \in Callers : /\ Holder(q)' <=> job'[q].at \in {"taken", "running", "returned"}
                           /\ job'[q].armed => job'[q].at \in {"running", "returned"}
    BY <1>1
  <1>6. \A q, p \in Callers : q # p /\ job'[q].vm # NoVm => job'[q].vm # job'[p].vm
    BY <1>1
  <1>7. \A q \in Callers : job'[q].armed \/ job'[q].at = "taken" =>
                               job'[q].vm \notin started' \cup tainted'
    BY <1>1
  <1>. QED
    BY <1>3, <1>4, <1>5, <1>6, <1>7

LEMMA StutterKeepsWorkerInv == WorkerInv /\ UNCHANGED workerVars => WorkerInv'
  BY DEF WorkerInv, WorkerTypeOK, Holder, PoolClean, InUse, workerVars

LEMMA NextKeepsWorkerInv == WorkerInv /\ [Next]_vars => WorkerInv'
  <1> SUFFICES ASSUME WorkerInv, [Next]_vars PROVE WorkerInv'
    OBVIOUS
  <1> USE SameGoroutines
  <1>1. CASE UNCHANGED workerVars
    BY <1>1, StutterKeepsWorkerInv
  <1>2. ASSUME NEW r \in Requests, RunScript(r) PROVE WorkerInv'
    BY <1>2, AsideKeepsWorkerInv DEF RunScript
  <1>3. ASSUME NEW r \in Requests, ScriptAnswers(r) PROVE WorkerInv'
    BY <1>3, AsideKeepsWorkerInv DEF ScriptAnswers
  <1>4. ASSUME NEW r \in Requests, GiveUp(r) PROVE WorkerInv'
    BY <1>4, AsideKeepsWorkerInv
  <1>5. ASSUME NEW r \in Requests, Deadline(r) \/ ClientGoes(r) PROVE WorkerInv'
    BY <1>5, ContextEndsKeepsWorkerInv DEF Deadline, ClientGoes
  <1>6. ASSUME NEW r \in Requests, ScriptStep(r) PROVE WorkerInv'
    BY <1>6, ArmKeepsWorkerInv, AsideKeepsWorkerInv, StopHookKeepsWorkerInv DEF ScriptStep
  <1>7. ASSUME NEW r \in Requests, NEW v \in Vms, Take(r, v) PROVE WorkerInv'
    BY <1>7, TakeKeepsWorkerInv
  <1>8. ASSUME NEW v \in Vms, Interrupt(v) PROVE WorkerInv'
    BY <1>8, InterruptKeepsWorkerInv
  <1>. QED
    BY <1>1, <1>2, <1>3, <1>4, <1>5, <1>6, <1>7, <1>8
       DEF Next, vars, RunOther, OtherReturns, OtherPanics

\* No request is given a runtime that the end of another request interrupts
\* (runtime.go:128-132).
THEOREM PoolStaysClean == Spec => []PoolClean
  <1>1. Init => WorkerInv
    BY InitWorkerInv DEF Init
  <1>2. WorkerInv => PoolClean
    BY DEF WorkerInv
  <1>. QED
    BY <1>1, <1>2, NextKeepsWorkerInv, PTL DEF Spec

-----------------------------------------------------------------------------
(* The counters.                                                           *)

Fields == {"at", "client", "todo", "applied", "held", "clock", "timed"}
Flying == {"chain", "handler", "unwind"}

IsRequest(q) == DOMAIN q = Fields /\ q.at \in Flying \cup {"idle", "record"}

Present == {r \in Requests : req[r].at # "idle"}

CountInv ==
    /\ DOMAIN req = Requests
    /\ \A r \in Requests : IsRequest(req[r])
    /\ arrivals \in Nat
    /\ active = Cardinality(InFlight)
    /\ total = arrivals - Cardinality(Present)

LEMMA CountsAreFinite ==
    /\ IsFiniteSet(InFlight) /\ Cardinality(InFlight) \in Nat
    /\ IsFiniteSet(Present) /\ Cardinality(Present) \in Nat
  <1>1. InFlight \subseteq Requests /\ Present \subseteq Requests
    BY DEF InFlight, Present
  <1>. QED
    BY <1>1, RequestsAssumption, FS_Subset, FS_CardinalityType

LEMMA InitCountInv == ServingInit => CountInv
  <1> SUFFICES ASSUME ServingInit PROVE CountInv
    OBVIOUS
  <1>1. /\ DOMAIN req = Requests
        /\ \A r \in Requests : IsRequest(req[r]) /\ req[r].at = "idle"
    BY DEF ServingInit, NoRequest, IsRequest, Fields
  <1>2. InFlight = {} /\ Present = {}
    BY <1>1 DEF InFlight, Present
  <1>. QED
    BY <1>1, <1>2, FS_EmptySet DEF ServingInit, CountInv

\* A step of a request that stays in flight leaves the counters right.
LEMMA MoveKeepsCountInv ==
    ASSUME CountInv, NEW r \in Requests, NEW q, Move(r, q),
           req[r].at \in Flying, DOMAIN q = Fields, q.at \in Flying
    PROVE  CountInv'
  <1>1. /\ DOMAIN req' = Requests
        /\ req'[r] = q
        /\ \A s \in Requests \ {r} : req'[s] = req[s]
    BY DEF Move, CountInv
  <1>2. InFlight' = InFlight /\ Present' = Present
    BY <1>1 DEF InFlight, Present, Flying
  <1>. QED
    BY <1>1, <1>2 DEF CountInv, Move, IsRequest

LEMMA PastIsRequest ==
    ASSUME NEW q, DOMAIN q = Fields
    PROVE  DOMAIN Past(q) = Fields /\ Past(q).at = q.at
  BY DEF Past, Fields

LEMMA AnsweredIsRequest ==
    ASSUME NEW q
    PROVE  DOMAIN Answered(q) = Fields /\ Answered(q).at = "unwind"
  BY DEF Answered, NoRequest, Fields

LEMMA ChainKeepsCountInv ==
    ASSUME CountInv, NEW r \in Requests,
           \/ AnswerChallenge(r) \/ HandlerReturns(r) \/ HandlerPanics(r)
           \/ \E h \in {"script", "other"} : Handle(r, h)
           \/ \E id \in DOMAIN made :
                 \/ Enter(r, id) \/ LimitBody(r, id) \/ Allow(r, id) \/ TakeSlot(r, id)
                 \/ \E k \in Clients : ReadClock(r, id, k)
    PROVE  CountInv'
  <1> DEFINE q == req[r]
  <1>1. DOMAIN q = Fields
    BY DEF CountInv, IsRequest
  <1>2. /\ DOMAIN Past(q) = Fields /\ Past(q).at = q.at
        /\ DOMAIN Answered(q) = Fields /\ Answered(q).at = "unwind"
    BY <1>1, PastIsRequest, AnsweredIsRequest
  <1>3. CASE AnswerChallenge(r) \/ HandlerReturns(r) \/ HandlerPanics(r)
    BY <1>2, <1>3, MoveKeepsCountInv
       DEF AnswerChallenge, HandlerReturns, HandlerPanics, Flying
  <1>4. ASSUME NEW h \in {"script", "other"}, Handle(r, h) PROVE CountInv'
    <2> DEFINE p == [NoRequest EXCEPT !.at = "handler", !.held = q.held, !.timed = q.timed]
    <2>1. DOMAIN p = Fields /\ p.at = "handler"
      BY DEF NoRequest, Fields
    <2>. QED
      BY <1>4, <2>1, MoveKeepsCountInv DEF Handle, Faces, Flying
  <1>5. ASSUME NEW id \in DOMAIN made, Enter(r, id) PROVE CountInv'
    <2> DEFINE rest == Past(q)
               applied == rest.applied \cup {id[1]}
               timed == rest.timed \/ made[id].definition.timeout
               todo == Middleware(id) \o rest.todo
               p == [rest EXCEPT !.applied = applied, !.timed = timed, !.todo = todo]
    <2>1. DOMAIN p = Fields /\ p.at = q.at
      <3> HIDE DEF q, rest, applied, timed, todo
      <3>. QED
        BY <1>2 DEF Fields, rest
    <2>2. q.at = "chain" /\ (Move(r, rest) \/ Move(r, p))
      BY <1>5 DEF Enter, Faces
    <2>. QED
      BY <1>2, <2>1, <2>2, MoveKeepsCountInv DEF Flying
  <1>6. ASSUME NEW id \in DOMAIN made, LimitBody(r, id) PROVE CountInv'
    BY <1>2, <1>6, MoveKeepsCountInv DEF LimitBody, Faces, Flying
  <1>7. ASSUME NEW id \in DOMAIN made, Allow(r, id) PROVE CountInv'
    <2> DEFINE p == [Past(q) EXCEPT !.clock = 0]
    <2>1. DOMAIN p = Fields /\ p.at = q.at
      BY <1>2 DEF Fields
    <2>2. q.at = "chain" /\ (Move(r, p) \/ Move(r, Answered(q)))
      BY <1>7 DEF Allow, Faces
    <2>. QED
      BY <1>2, <2>1, <2>2, MoveKeepsCountInv DEF Flying
  <1>8. ASSUME NEW id \in DOMAIN made, TakeSlot(r, id) PROVE CountInv'
    <2> DEFINE p == [Past(q) EXCEPT !.held = Append(@, id)]
    <2>1. DOMAIN p = Fields /\ p.at = q.at
      BY <1>2 DEF Fields
    <2>2. q.at = "chain" /\ (Move(r, p) \/ Move(r, Answered(q)))
      BY <1>8 DEF TakeSlot, Faces
    <2>. QED
      BY <1>2, <2>1, <2>2, MoveKeepsCountInv DEF Flying
  <1>9. ASSUME NEW id \in DOMAIN made, NEW k \in Clients, ReadClock(r, id, k) PROVE CountInv'
    <2> DEFINE p == [q EXCEPT !.clock = now, !.client = k,
                              !.todo = <<<<"allow", id>>>> \o Tail(@)]
    <2>1. DOMAIN p = Fields /\ p.at = q.at
      <3> HIDE DEF q
      <3>. QED
        BY <1>1 DEF Fields
    <2>2. q.at = "chain" /\ Move(r, p)
      BY <1>9 DEF ReadClock, Faces
    <2>. QED
      BY <2>1, <2>2, MoveKeepsCountInv DEF Flying
  <1>. QED
    BY <1>3, <1>4, <1>5, <1>6, <1>7, <1>8, <1>9

LEMMA UnwindKeepsCountInv ==
    ASSUME CountInv, NEW r \in Requests, Unwind(r)
    PROVE  CountInv'
  <1> DEFINE q == req[r]
             p == [q EXCEPT !.held = Front(@)]
  <1>1. DOMAIN p = Fields /\ p.at = q.at
    BY DEF CountInv, IsRequest, Fields
  <1>2. q.at = "unwind" /\ Move(r, p)
    BY DEF Unwind
  <1>. QED
    BY <1>1, <1>2, MoveKeepsCountInv DEF Flying

LEMMA ArriveKeepsCountInv ==
    ASSUME CountInv, NEW r \in Requests, Arrive(r)
    PROVE  CountInv'
  <1>1. /\ DOMAIN req' = Requests
        /\ DOMAIN req'[r] = Fields /\ req'[r].at = "chain"
        /\ \A s \in Requests \ {r} : req'[s] = req[s]
    BY DEF Arrive, CountInv, IsRequest, Fields
  <1>2. req[r].at = "idle"
    BY DEF Arrive
  <1>3. InFlight' = InFlight \cup {r} /\ r \notin InFlight
    BY <1>1, <1>2 DEF InFlight
  <1>4. Present' = Present \cup {r} /\ r \notin Present
    BY <1>1, <1>2 DEF Present
  <1>5. /\ Cardinality(InFlight') = Cardinality(InFlight) + 1
        /\ Cardinality(Present') = Cardinality(Present) + 1
    BY <1>3, <1>4, CountsAreFinite, FS_AddElement
  <1>6. \A s \in Requests : IsRequest(req'[s])
    BY <1>1 DEF CountInv, IsRequest, Flying
  <1>7. /\ arrivals \in Nat /\ active = Cardinality(InFlight)
        /\ total = arrivals - Cardinality(Present)
        /\ arrivals' = arrivals + 1 /\ active' = active + 1 /\ total' = total
    BY DEF CountInv, Arrive
  <1>8. /\ arrivals' \in Nat /\ active' = Cardinality(InFlight')
        /\ total' = arrivals' - Cardinality(Present')
    BY <1>5, <1>7, CountsAreFinite
  <1>. QED
    BY <1>1, <1>6, <1>8 DEF CountInv

LEMMA LeaveKeepsCountInv ==
    ASSUME CountInv, NEW r \in Requests, Leave(r)
    PROVE  CountInv'
  <1>1. /\ DOMAIN req' = Requests
        /\ DOMAIN req'[r] = Fields /\ req'[r].at = "record"
        /\ \A s \in Requests \ {r} : req'[s] = req[s]
    BY DEF Leave, CountInv, NoRequest, Fields
  <1>2. req[r].at = "unwind"
    BY DEF Leave
  <1>3. InFlight' = InFlight \ {r} /\ r \in InFlight
    BY <1>1, <1>2 DEF InFlight
  <1>4. Present' = Present
    BY <1>1, <1>2 DEF Present
  <1>5. Cardinality(InFlight') = Cardinality(InFlight) - 1
    BY <1>3, CountsAreFinite, FS_RemoveElement
  <1>. QED
    BY <1>1, <1>4, <1>5 DEF CountInv, IsRequest, Leave

LEMMA RecordKeepsCountInv ==
    ASSUME CountInv, NEW r \in Requests, Record(r)
    PROVE  CountInv'
  <1>1. /\ DOMAIN req' = Requests
        /\ DOMAIN req'[r] = Fields /\ req'[r].at = "idle"
        /\ \A s \in Requests \ {r} : req'[s] = req[s]
    BY DEF Record, CountInv, NoRequest, Fields
  <1>2. req[r].at = "record"
    BY DEF Record
  <1>3. InFlight' = InFlight
    BY <1>1, <1>2 DEF InFlight
  <1>4. Present' = Present \ {r} /\ r \in Present
    BY <1>1, <1>2 DEF Present
  <1>5. Cardinality(Present') = Cardinality(Present) - 1
    BY <1>4, CountsAreFinite, FS_RemoveElement
  <1>. QED
    BY <1>1, <1>3, <1>5, CountsAreFinite DEF CountInv, IsRequest, Record

LEMMA StutterKeepsCountInv ==
    CountInv /\ UNCHANGED <<req, arrivals, active, total>> => CountInv'
  BY DEF CountInv, IsRequest, InFlight, Present

LEMMA NextKeepsCountInv == CountInv /\ [Next]_vars => CountInv'
  <1> SUFFICES ASSUME CountInv, [Next]_vars PROVE CountInv'
    OBVIOUS
  <1>1. CASE UNCHANGED <<req, arrivals, active, total>>
    BY <1>1, StutterKeepsCountInv
  <1>2. ASSUME NEW r \in Requests, Arrive(r) PROVE CountInv'
    BY <1>2, ArriveKeepsCountInv
  <1>3. ASSUME NEW r \in Requests, ServingStep(r) PROVE CountInv'
    BY <1>3, UnwindKeepsCountInv, LeaveKeepsCountInv, RecordKeepsCountInv,
       ChainKeepsCountInv DEF ServingStep
  <1>4. ASSUME NEW r \in Requests,
               \/ AnswerChallenge(r) \/ RunScript(r) \/ RunOther(r)
               \/ ScriptAnswers(r) \/ OtherReturns(r) \/ OtherPanics(r)
        PROVE  CountInv'
    BY <1>4, ChainKeepsCountInv DEF RunScript, RunOther, ScriptAnswers, OtherReturns, OtherPanics
  <1>5. CASE \/ Tick \/ \E c \in Configs : Apply(c)
             \/ UNCHANGED servingVars
    BY <1>5, StutterKeepsCountInv DEF Tick, Apply, servingVars
  <1>. QED
    BY <1>1, <1>2, <1>3, <1>4, <1>5
       DEF Next, vars, Deadline, ClientGoes, ScriptStep

\* Every request is counted once, however it ended (serve.go:36-54).
THEOREM RequestsAccounted == Spec => []Accounted
  <1>1. Init => CountInv
    BY InitCountInv DEF Init
  <1>2. CountInv => Accounted
    BY DEF CountInv, Accounted, Present
  <1>. QED
    BY <1>1, <1>2, NextKeepsCountInv, PTL DEF Spec

-----------------------------------------------------------------------------
(* The table of the rate limiter.                                          *)

Entries == [key : Clients, seen : Nat, bucket : [tokens : 0 .. Burst, last : Nat]]

\* A table holds no client twice, and no bucket is ahead of the clock.
IsTable(table, time) ==
    /\ table \in Seq(Entries)
    /\ Len(table) <= MaxKeys
    /\ \A i, j \in DOMAIN table : table[i].key = table[j].key => i = j
    /\ \A i \in DOMAIN table : table[i].bucket.last <= time

LEMMA Positive ==
    /\ Rate \in Nat /\ Burst \in Nat /\ MaxKeys \in Nat /\ IdleTimeout \in Nat
    /\ Burst >= 1 /\ MaxKeys >= 1
  BY LimiterAssumption

LEMMA MaxIsReached ==
    ASSUME NEW n \in Nat, NEW S, S \subseteq 0 .. n, S # {}
    PROVE  Max(S) \in S
  <1> DEFINE R == OpToRel(<, Nat)
             T == {n - i : i \in S}
  <1>1. T \subseteq Nat /\ T # {}
    <2>1. \A i \in S : n - i \in Nat
      OBVIOUS
    <2>2. PICK i \in S : TRUE
      OBVIOUS
    <2>. QED
      BY <2>1, <2>2
  <1>2. IsWellFoundedOn(R, Nat)
    BY NatLessThanWellFounded
  <1>3. \E x \in T : \A y \in T : <<y, x>> \notin R
    <2> HIDE DEF R, T
    <2>. QED
      BY <1>1, <1>2, WFMin
  <1>4. PICK i \in S : \A j \in S : ~(n - j < n - i)
    <2>1. PICK x \in T : \A y \in T : <<y, x>> \notin R
      BY <1>3
    <2>2. PICK i \in S : x = n - i
      OBVIOUS
    <2>3. \A j \in S : n - j \in T /\ n - j \in Nat
      OBVIOUS
    <2>4. \A y \in T : ~(y < x)
      BY <1>1, <2>1 DEF OpToRel
    <2>. QED
      BY <2>2, <2>3, <2>4
  <1>5. \A j \in S : i >= j
    BY <1>4
  <1>. QED
    BY <1>5 DEF Max

\* Expiry keeps a part of the table from the front.
LEMMA ExpireKeepsFront ==
    ASSUME NEW time, NEW table, IsTable(table, time), NEW clock \in Nat
    PROVE  \E n \in 0 .. Len(table) : Expire(table, clock) = SubSeq(table, 1, n)
  <1> DEFINE busy == {i \in DOMAIN table : clock < table[i].seen + IdleTimeout}
  <1>1. busy \cup {0} \subseteq 0 .. Len(table) /\ Len(table) \in Nat
    BY DEF IsTable
  <1>2. Max(busy \cup {0}) \in busy \cup {0}
    <2> HIDE DEF busy
    <2>. QED
      BY <1>1, MaxIsReached
  <1>. QED
    BY <1>1, <1>2 DEF Expire

LEMMA FrontIsTable ==
    ASSUME NEW time, NEW table, IsTable(table, time), NEW n \in 0 .. Len(table)
    PROVE  /\ IsTable(SubSeq(table, 1, n), time)
           /\ Len(SubSeq(table, 1, n)) = n
           /\ \A i \in 1 .. n : SubSeq(table, 1, n)[i] = table[i]
  <1>1. /\ SubSeq(table, 1, n) \in Seq(Entries)
        /\ Len(SubSeq(table, 1, n)) = n
        /\ \A i \in 1 .. n : SubSeq(table, 1, n)[i] = table[i]
    BY DEF IsTable
  <1>. QED
    BY <1>1, LimiterAssumption DEF IsTable

LEMMA PlaceOfKey ==
    ASSUME NEW time, NEW table, IsTable(table, time), NEW key \in Keys(table)
    PROVE  /\ Place(table, key) \in DOMAIN table
           /\ table[Place(table, key)].key = key
           /\ \A i \in DOMAIN table : table[i].key = key => i = Place(table, key)
  BY DEF IsTable, Keys, Place

LEMMA OneIsRemoved ==
    ASSUME NEW S, NEW s \in Seq(S), NEW p \in 1 .. Len(s)
    PROVE  /\ RemoveAt(s, p) \in Seq(S)
           /\ Len(RemoveAt(s, p)) = Len(s) - 1
           /\ \A i \in 1 .. Len(RemoveAt(s, p)) :
                  RemoveAt(s, p)[i] = IF i < p THEN s[i] ELSE s[i + 1]
  <1>1. Len(s) \in Nat /\ p \in Int /\ \A i \in 1 .. Len(s) : s[i] \in S
    OBVIOUS
  <1>2. PICK a : a = SubSeq(s, 1, p - 1)
    OBVIOUS
  <1>3. PICK b : b = SubSeq(s, p + 1, Len(s))
    OBVIOUS
  <1>4. a \in Seq(S) /\ Len(a) = p - 1 /\ \A i \in 1 .. p - 1 : a[i] = s[i]
    BY <1>1, <1>2, SubSeqProperties
  <1>5. /\ b \in Seq(S) /\ Len(b) = Len(s) - p
        /\ \A i \in 1 .. Len(s) - p : b[i] = s[p + i]
    <2>1. \A i \in p + 1 .. Len(s) : s[i] \in S
      BY <1>1
    <2>2. /\ SubSeq(s, p + 1, Len(s)) \in Seq(S)
          /\ Len(SubSeq(s, p + 1, Len(s))) = IF p + 1 <= Len(s) THEN Len(s) - (p + 1) + 1 ELSE 0
          /\ \A i \in 1 .. Len(s) - (p + 1) + 1 :
                 SubSeq(s, p + 1, Len(s))[i] = s[p + 1 + i - 1]
      BY <1>1, <2>1, SubSeqProperties
    <2>. QED
      BY <1>1, <1>3, <2>2
  <1>6. /\ RemoveAt(s, p) \in Seq(S)
        /\ Len(RemoveAt(s, p)) = Len(a) + Len(b)
        /\ \A i \in 1 .. Len(a) + Len(b) :
               RemoveAt(s, p)[i] = IF i <= Len(a) THEN a[i] ELSE b[i - Len(a)]
    <2>1. RemoveAt(s, p) = a \o b
      BY <1>2, <1>3 DEF RemoveAt
    <2>2. /\ a \o b \in Seq(S)
          /\ Len(a \o b) = Len(a) + Len(b)
          /\ \A i \in 1 .. Len(a) + Len(b) :
                 (a \o b)[i] = IF i <= Len(a) THEN a[i] ELSE b[i - Len(a)]
      BY <1>4, <1>5, ConcatProperties
    <2>. QED
      BY <2>1, <2>2
  <1>7. ASSUME NEW i \in 1 .. Len(s) - 1
        PROVE  RemoveAt(s, p)[i] = IF i < p THEN s[i] ELSE s[i + 1]
    <2>1. CASE i < p
      BY <1>1, <1>4, <1>5, <1>6, <2>1
    <2>2. CASE i >= p
      <3>1. i - (p - 1) \in 1 .. Len(s) - p /\ p + (i - (p - 1)) = i + 1
        BY <1>1, <2>2
      <3>2. b[i - (p - 1)] = s[i + 1]
        BY <1>5, <3>1
      <3>3. i \in 1 .. Len(a) + Len(b) /\ ~(i <= Len(a)) /\ Len(a) = p - 1
        BY <1>1, <1>4, <1>5, <2>2
      <3>4. RemoveAt(s, p)[i] = b[i - (p - 1)]
        BY <1>6, <3>3
      <3>. QED
        BY <2>2, <3>2, <3>4
    <2>. QED
      BY <2>1, <2>2
  <1>. QED
    BY <1>1, <1>4, <1>5, <1>6, <1>7

\* What an entry is moved or put in front of: entries of other clients that
\* were there, and fewer than the table may hold.
IsRest(rest, table, key) ==
    /\ rest \in Seq(Entries)
    /\ Len(rest) < MaxKeys
    /\ \A i \in DOMAIN rest : /\ rest[i].key # key
                              /\ \E j \in DOMAIN table : rest[i] = table[j]
    /\ \A i, j \in DOMAIN rest : rest[i].key = rest[j].key => i = j

LEMMA RoomIsMade ==
    ASSUME NEW time, NEW table, IsTable(table, time), NEW key, key \notin Keys(table)
    PROVE  IsRest(Room(table), table, key)
  <1>1. Lesser(Len(table), MaxKeys - 1) \in 0 .. Len(table)
        /\ Lesser(Len(table), MaxKeys - 1) < MaxKeys
    BY Positive DEF IsTable, Lesser
  <1>. QED
    BY <1>1, FrontIsTable DEF IsTable, IsRest, Room, Keys

LEMMA GapIsClosed ==
    ASSUME NEW time, NEW table, IsTable(table, time), NEW p \in 1 .. Len(table),
           NEW rest \in Seq(Entries), Len(rest) = Len(table) - 1,
           \A i \in 1 .. Len(rest) : rest[i] = IF i < p THEN table[i] ELSE table[i + 1]
    PROVE  IsRest(rest, table, table[p].key)
  <1>1. DOMAIN table = 1 .. Len(table) /\ DOMAIN rest = 1 .. Len(rest)
        /\ Len(table) \in Nat /\ Len(table) <= MaxKeys
    BY DEF IsTable
  <1>2. ASSUME NEW i \in DOMAIN rest
        PROVE  \E j \in DOMAIN table :
                   rest[i] = table[j] /\ j # p /\ j = IF i < p THEN i ELSE i + 1
    <2>1. CASE i < p
      BY <1>1, <2>1
    <2>2. CASE i >= p
      BY <1>1, <2>2
    <2>. QED
      BY <1>1, <2>1, <2>2
  <1>3. \A i \in DOMAIN rest : /\ rest[i].key # table[p].key
                               /\ \E j \in DOMAIN table : rest[i] = table[j]
    BY <1>1, <1>2 DEF IsTable
  <1>4. ASSUME NEW i \in DOMAIN rest, NEW j \in DOMAIN rest, rest[i].key = rest[j].key
        PROVE  i = j
    BY <1>1, <1>2, <1>4 DEF IsTable
  <1>5. Len(rest) < MaxKeys
    BY <1>1, Positive
  <1>. QED
    BY <1>3, <1>4, <1>5 DEF IsRest

LEMMA OneIsTakenOut ==
    ASSUME NEW time, NEW table, IsTable(table, time), NEW key \in Keys(table)
    PROVE  IsRest(Without(table, key), table, key)
  <1>1. Place(table, key) \in 1 .. Len(table) /\ table[Place(table, key)].key = key
    <2>1. DOMAIN table = 1 .. Len(table)
      BY DEF IsTable
    <2>. QED
      BY <2>1, PlaceOfKey
  <1>2. PICK p \in 1 .. Len(table) : p = Place(table, key)
    BY <1>1
  <1>3. table \in Seq(Entries) /\ table[p].key = key /\ Without(table, key) = RemoveAt(table, p)
    BY <1>1, <1>2 DEF IsTable, Without
  <1>. QED
    BY <1>3, OneIsRemoved, GapIsClosed

-----------------------------------------------------------------------------
(* A client's bucket.                                                      *)

IsBucket(bucket) == bucket \in [tokens : 0 .. Burst, last : Nat]

\* How far the bucket is ahead of a reading, and what it earned by it.
Ahead(bucket, clock) == bucket.last - Lesser(bucket.last, clock)
Earned(bucket, clock) == Rate * (clock - Lesser(bucket.last, clock))

LEMMA TokensAreBounded ==
    ASSUME NEW bucket, IsBucket(bucket), NEW clock \in Nat
    PROVE  /\ Ahead(bucket, clock) \in Nat
           /\ clock - Lesser(bucket.last, clock) \in Nat
           /\ Earned(bucket, clock) \in Nat
           /\ Tokens(bucket, clock) \in 0 .. Burst
           /\ Tokens(bucket, clock) <= bucket.tokens + Earned(bucket, clock)
  <1>1. Ahead(bucket, clock) \in Nat /\ clock - Lesser(bucket.last, clock) \in Nat
    BY DEF IsBucket, Ahead, Lesser
  <1>2. \A x \in Nat : Rate * x \in Nat
    BY LimiterAssumption
  <1>3. Earned(bucket, clock) \in Nat
    BY <1>1, <1>2 DEF Earned
  <1>. QED
    BY <1>1, <1>3, LimiterAssumption DEF IsBucket, Tokens, Earned, Lesser

LEMMA ChargeKeepsBucket ==
    ASSUME NEW time \in Nat, NEW bucket, IsBucket(bucket), bucket.last <= time,
           NEW clock \in Nat, clock <= time
    PROVE  /\ IsBucket(Charge(bucket, clock))
           /\ Charge(bucket, clock).last <= time
           /\ Granted(bucket, clock) \in BOOLEAN
  <1>1. Tokens(bucket, clock) \in 0 .. Burst
    BY TokensAreBounded
  <1>. QED
    BY <1>1, LimiterAssumption DEF IsBucket, Charge, Granted

LEMMA NewBucketGrants ==
    ASSUME NEW clock \in Nat
    PROVE  /\ IsBucket(FullBucket(clock)) /\ FullBucket(clock).last = clock
           /\ Granted(FullBucket(clock), clock)
           /\ Charge(FullBucket(clock), clock) = [tokens |-> Burst - 1, last |-> clock]
  <1>1. Tokens(FullBucket(clock), clock) = Burst
    <2>1. Rate * 0 = 0 /\ clock - clock = 0
      BY LimiterAssumption
    <2>. QED
      BY <2>1, LimiterAssumption DEF FullBucket, Tokens, Lesser
  <1>. QED
    BY <1>1, LimiterAssumption DEF IsBucket, FullBucket, Granted, Charge

-----------------------------------------------------------------------------
(* A client at the table.                                                  *)

\* The bucket that answers: the client's, unless it has just been dropped.
Asked(table, key, clock) ==
    IF key \in Keys(Expire(table, clock)) THEN EntryOf(table, key).bucket
                                          ELSE FullBucket(clock)

IsAnswer(answer, table, key, entry) ==
    /\ 1 \in DOMAIN answer /\ answer[1] = entry
    /\ \A i \in DOMAIN answer :
           i # 1 => /\ answer[i].key # key
                    /\ \E j \in DOMAIN table : answer[i] = table[j]

LEMMA EntryGoesFirst ==
    ASSUME NEW time, NEW table, IsTable(table, time), NEW key, NEW rest,
           IsRest(rest, table, key), NEW entry \in Entries, entry.key = key,
           entry.bucket.last <= time
    PROVE  IsTable(<<entry>> \o rest, time) /\ IsAnswer(<<entry>> \o rest, table, key, entry)
  <1>0. PICK answer : answer = <<entry>> \o rest
    OBVIOUS
  <1>1. /\ rest \in Seq(Entries) /\ Len(rest) \in Nat /\ DOMAIN rest = 1 .. Len(rest)
        /\ <<entry>> \in Seq(Entries) /\ Len(<<entry>>) = 1 /\ <<entry>>[1] = entry
    BY DEF IsRest
  <1>2. /\ answer \in Seq(Entries)
        /\ Len(answer) = 1 + Len(rest)
        /\ \A i \in 1 .. 1 + Len(rest) :
               answer[i] = IF i <= 1 THEN <<entry>>[i] ELSE rest[i - 1]
    BY <1>0, <1>1, ConcatProperties
  <1>3. DOMAIN answer = 1 .. Len(answer) /\ Len(answer) <= MaxKeys
    BY <1>1, <1>2, Positive DEF IsRest
  <1>4. answer[1] = entry /\ 1 \in DOMAIN answer
    BY <1>1, <1>2, <1>3
  <1>5. ASSUME NEW i \in DOMAIN answer, i # 1
        PROVE  i - 1 \in DOMAIN rest /\ answer[i] = rest[i - 1]
    BY <1>1, <1>2, <1>3, <1>5
  <1>6. ASSUME NEW i \in DOMAIN answer, i # 1
        PROVE  /\ answer[i].key # key
               /\ \E j \in DOMAIN table : answer[i] = table[j]
    BY <1>5, <1>6 DEF IsRest
  <1>7. \A i \in DOMAIN answer : answer[i].bucket.last <= time
    BY <1>4, <1>6 DEF IsTable
  <1>8. ASSUME NEW i \in DOMAIN answer, NEW j \in DOMAIN answer, answer[i].key = answer[j].key
        PROVE  i = j
    <2>1. CASE i # 1 /\ j # 1
      <3>1. i - 1 = j - 1
        BY <1>5, <1>8, <2>1 DEF IsRest
      <3>. QED
        BY <1>2, <1>3, <3>1
    <2>. QED
      BY <1>4, <1>6, <1>8, <2>1
  <1>. QED
    BY <1>0, <1>2, <1>3, <1>4, <1>6, <1>7, <1>8 DEF IsTable, IsAnswer

\* What the limiter does with a client at a reading of the clock.
Served(answer, table, key, clock) ==
    /\ IsBucket(Asked(table, key, clock))
    /\ Asked(table, key, clock).last <= now
    /\ IsTable(answer.table, now)
    /\ answer.ok = Granted(Asked(table, key, clock), clock)
    /\ 1 \in DOMAIN answer.table
    /\ answer.table[1].key = key
    /\ answer.table[1].bucket = Charge(Asked(table, key, clock), clock)
    /\ \A i \in DOMAIN answer.table :
           i # 1 => /\ answer.table[i].key # key
                    /\ \E j \in DOMAIN table : answer.table[i] = table[j]
    /\ Keys(Expire(table, clock)) \subseteq Keys(table)

LEMMA AdmitServes ==
    ASSUME now \in Nat, NEW table, IsTable(table, now), NEW key \in Clients,
           NEW clock \in Nat, clock <= now
    PROVE  Served(Admit(table, key, clock), table, key, clock)
  <1>0. PICK answer : answer = Admit(table, key, clock)
    OBVIOUS
  <1>1. PICK n \in 0 .. Len(table) : Expire(table, clock) = SubSeq(table, 1, n)
    BY ExpireKeepsFront
  <1>2. PICK kept : kept = Expire(table, clock)
    OBVIOUS
  <1>3. /\ IsTable(kept, now)
        /\ \A i \in DOMAIN kept : i \in DOMAIN table /\ kept[i] = table[i]
    <2>1. /\ IsTable(SubSeq(table, 1, n), now) /\ Len(SubSeq(table, 1, n)) = n
          /\ \A i \in 1 .. n : SubSeq(table, 1, n)[i] = table[i]
      BY FrontIsTable
    <2>2. kept = SubSeq(table, 1, n)
      BY <1>1, <1>2
    <2>3. IsTable(kept, now) /\ Len(kept) = n /\ \A i \in 1 .. n : kept[i] = table[i]
      BY <2>1, <2>2
    <2>4. DOMAIN kept = 1 .. n /\ 1 .. n \subseteq DOMAIN table
      BY <2>3 DEF IsTable
    <2>. QED
      BY <2>3, <2>4
  <1>4. Keys(kept) \subseteq Keys(table)
    BY <1>3 DEF Keys
  <1>5. ASSUME key \in Keys(kept)
        PROVE  EntryOf(kept, key) = EntryOf(table, key) /\ EntryOf(table, key) \in Entries
               /\ EntryOf(table, key).bucket.last <= now
    <2>1. Place(kept, key) \in DOMAIN kept /\ kept[Place(kept, key)].key = key
      BY <1>3, <1>5, PlaceOfKey
    <2>2. Place(kept, key) = Place(table, key)
      BY <1>3, <1>4, <1>5, <2>1, PlaceOfKey
    <2>. QED
      BY <1>3, <2>1, <2>2 DEF EntryOf, IsTable
  <1>6. PICK old : old = Asked(table, key, clock)
    OBVIOUS
  <1>7. IsBucket(old) /\ old.last <= now
    BY <1>2, <1>5, <1>6, NewBucketGrants DEF Asked, IsBucket, Entries
  <1>8. PICK rest : rest = IF key \in Keys(kept) THEN Without(kept, key) ELSE Room(kept)
    OBVIOUS
  <1>9. IsRest(rest, kept, key)
    BY <1>3, <1>8, OneIsTakenOut, RoomIsMade
  <1>10. PICK entry : entry = [key |-> key, seen |-> clock, bucket |-> Charge(old, clock)]
    OBVIOUS
  <1>11. /\ entry \in Entries /\ entry.key = key /\ entry.bucket = Charge(old, clock)
         /\ entry.bucket.last <= now
    BY <1>7, <1>10, ChargeKeepsBucket DEF Entries, IsBucket
  <1>12. answer.ok = Granted(old, clock) /\ answer.table = <<entry>> \o rest
    BY <1>0, <1>2, <1>5, <1>6, <1>8, <1>10 DEF Admit, Asked
  <1>13. /\ IsTable(answer.table, now)
         /\ 1 \in DOMAIN answer.table /\ answer.table[1] = entry
         /\ \A i \in DOMAIN answer.table :
                i # 1 => /\ answer.table[i].key # key
                         /\ \E j \in DOMAIN kept : answer.table[i] = kept[j]
    <2>1. IsTable(<<entry>> \o rest, now) /\ IsAnswer(<<entry>> \o rest, kept, key, entry)
      BY <1>3, <1>9, <1>11, EntryGoesFirst
    <2>2. IsTable(answer.table, now) /\ IsAnswer(answer.table, kept, key, entry)
      BY <1>12, <2>1
    <2>. QED
      BY <2>2 DEF IsAnswer
  <1>. QED
    BY <1>0, <1>2, <1>3, <1>4, <1>6, <1>7, <1>11, <1>12, <1>13 DEF Served

-----------------------------------------------------------------------------
(* The ledger.                                                             *)

Book == [granted : Nat, lost : Nat, skew : Nat]

\* What a client may have got by a reading of the clock.
Allowance(book, since, time) ==
    Burst * (1 + book.lost) + Rate * (time - since + book.skew)

\* A client in the table has its tokens still to come; any other, a full bucket
\* from now on.
Covered(book, table, key, since, time) ==
    /\ \A i \in DOMAIN table :
           table[i].key = key =>
               book.granted + table[i].bucket.tokens
                   <= Allowance(book, since, table[i].bucket.last)
    /\ key \notin Keys(table) => book.granted + Burst <= Allowance(book, since, time)

LEMMA AllowanceIsInt ==
    ASSUME NEW book \in Book, NEW since \in Int, NEW time \in Int
    PROVE  Allowance(book, since, time) \in Int
  BY Positive DEF Allowance, Book

LEMMA AllowanceEarns ==
    ASSUME NEW book \in Book, NEW since \in Int, NEW time \in Int,
           NEW later \in Int, time <= later
    PROVE  /\ Allowance(book, since, later) = Allowance(book, since, time) + Rate * (later - time)
           /\ Rate * (later - time) \in Nat
           /\ Allowance(book, since, time) <= Allowance(book, since, later)
  <1>1. later - time \in Nat
    OBVIOUS
  <1>2. \A x \in Int, y \in Nat : Rate * (x + y) = Rate * x + Rate * y
    BY Positive
  <1>3. \A y \in Nat : Rate * y \in Nat
    BY Positive
  <1>4. Allowance(book, since, later) = Allowance(book, since, time) + Rate * (later - time)
    <2>1. /\ time - since + book.skew \in Int
          /\ later - since + book.skew = (time - since + book.skew) + (later - time)
      BY DEF Book
    <2>2. Rate * (later - since + book.skew)
              = Rate * (time - since + book.skew) + Rate * (later - time)
      BY <1>1, <1>2, <2>1
    <2>3. Burst * (1 + book.lost) \in Int /\ Rate * (time - since + book.skew) \in Int
      BY <2>1, Positive DEF Book
    <2>4. Rate * (later - time) \in Int
      BY <1>1, <1>3
    <2>. QED
      BY <2>2, <2>3, <2>4 DEF Allowance
  <1>5. Rate * (later - time) \in Nat
    BY <1>1, <1>3
  <1>. QED
    BY <1>4, <1>5, AllowanceIsInt

LEMMA AllowanceOfNext ==
    ASSUME NEW book \in Book, NEW since \in Int, NEW time \in Int, NEW next \in Book,
           NEW lost \in {0, 1}, NEW skew \in Nat,
           next.lost = book.lost + lost, next.skew = book.skew + skew
    PROVE  Allowance(next, since, time) = Allowance(book, since, time + skew) + Burst * lost
  <1>1. time - since + next.skew = time + skew - since + book.skew
    BY DEF Book
  <1>2. Burst * (1 + next.lost) = Burst * (1 + book.lost) + Burst * lost
    BY Positive DEF Book
  <1>. QED
    BY <1>1, <1>2, Positive DEF Allowance, Book

\* The table and the ledger move together: what a client gets is covered by
\* what its bucket had, and what it is given anew by what the ledger notes.
LEMMA NotedCovers ==
    ASSUME now \in Nat, NEW table, IsTable(table, now), NEW key \in Clients,
           NEW clock \in Nat, clock <= now, NEW since \in Nat,
           NEW book, book \in [Clients -> Book],
           NEW answer, Served(answer, table, key, clock),
           NEW k \in Clients, Covered(book[k], table, k, since, now)
    PROVE  /\ Noted(book, table, answer, key, clock)[k] \in Book
           /\ Covered(Noted(book, table, answer, key, clock)[k], answer.table, k, since, now)
  <1> DEFINE old == Asked(table, key, clock)
             lost == IF k \in GivenUp(table, answer.table, clock) THEN 1 ELSE 0
             skew == IF k = key /\ answer.ok THEN Skew(table, k, clock) ELSE 0
             got == IF k = key /\ answer.ok THEN 1 ELSE 0
  <1>1. PICK next : next = Noted(book, table, answer, key, clock)[k]
    OBVIOUS
  <1>2. /\ next = [granted |-> book[k].granted + got, lost |-> book[k].lost + lost,
                   skew |-> book[k].skew + skew]
    BY <1>1 DEF Noted
  <1>3. ASSUME NEW i \in DOMAIN table, table[i].key = k
        PROVE  /\ EntryOf(table, k) = table[i]
               /\ k \in Keys(table)
               /\ IsBucket(table[i].bucket) /\ table[i].bucket.last <= now
    <2>1. k \in Keys(table)
      BY <1>3 DEF Keys
    <2>2. i = Place(table, k)
      BY <1>3, <2>1, PlaceOfKey
    <2>3. table[i] \in Entries /\ table[i].bucket.last <= now
      BY DEF IsTable
    <2>4. EntryOf(table, k) = table[i]
      BY <2>2 DEF EntryOf
    <2>. QED
      BY <2>1, <2>3, <2>4 DEF IsBucket, Entries
  <1>4. k \in Keys(table) => \E i \in DOMAIN table : table[i].key = k
    BY DEF Keys
  <1>5. skew \in Nat /\ lost \in {0, 1} /\ got \in {0, 1} /\ book[k] \in Book
    <2>1. k \in Keys(table) => Skew(table, k, clock) = Ahead(EntryOf(table, k).bucket, clock)
      BY DEF Skew, Ahead
    <2>2. k \in Keys(table) => Ahead(EntryOf(table, k).bucket, clock) \in Nat
      BY <1>3, <1>4, TokensAreBounded
    <2>3. Skew(table, k, clock) \in Nat
      BY <2>1, <2>2 DEF Skew
    <2>. QED
      BY <2>3
  <1> HIDE DEF skew, lost, got
  <1>6. next \in Book
    BY <1>2, <1>5 DEF Book
  <1>7. \A time \in Int :
            Allowance(next, since, time)
                = Allowance(book[k], since, time + skew) + Burst * lost
    BY <1>2, <1>5, <1>6, AllowanceOfNext
  <1>8. \A time \in Int : Allowance(book[k], since, time) \in Int
    BY <1>5, AllowanceIsInt
  <1>9. Burst * lost \in Nat /\ (lost = 1 => Burst * lost = Burst)
    BY <1>5, Positive
  \* What a bucket is worth at the reading.
  <1>10. ASSUME NEW i \in DOMAIN table, table[i].key = k
         PROVE  /\ book[k].granted + Tokens(table[i].bucket, clock)
                       <= Allowance(book[k], since, clock + Ahead(table[i].bucket, clock))
                /\ book[k].granted
                       <= Allowance(book[k], since, clock + Ahead(table[i].bucket, clock))
                /\ clock + Ahead(table[i].bucket, clock) \in Int
                /\ clock + Ahead(table[i].bucket, clock) <= now
    <2> DEFINE bucket == table[i].bucket
               span == clock - Lesser(bucket.last, clock)
    <2>1. IsBucket(bucket) /\ bucket.last <= now
      BY <1>3, <1>10
    <2>2. book[k].granted + bucket.tokens <= Allowance(book[k], since, bucket.last)
      BY <1>10 DEF Covered
    <2> HIDE DEF bucket
    <2>3. /\ span \in Nat /\ Ahead(bucket, clock) \in Nat
          /\ Tokens(bucket, clock) \in Nat
          /\ Tokens(bucket, clock) <= bucket.tokens + Earned(bucket, clock)
          /\ Earned(bucket, clock) = Rate * span
      BY <2>1, TokensAreBounded, Positive DEF Earned
    <2>4. bucket.last + span = clock + Ahead(bucket, clock) /\ bucket.last \in Nat
          /\ bucket.tokens \in Nat /\ clock + Ahead(bucket, clock) <= now
      BY <2>1, Positive DEF IsBucket, Ahead, Lesser
    <2> HIDE DEF span
    <2>5. /\ Allowance(book[k], since, clock + Ahead(bucket, clock))
                 = Allowance(book[k], since, bucket.last) + Rate * span
          /\ Rate * span \in Nat
      <3>1. PICK later \in Int : later = clock + Ahead(bucket, clock)
        BY <2>3
      <3>2. bucket.last \in Int /\ bucket.last <= later /\ later - bucket.last = span
        BY <2>3, <2>4, <3>1
      <3>3. /\ Allowance(book[k], since, later)
                   = Allowance(book[k], since, bucket.last) + Rate * (later - bucket.last)
            /\ Rate * (later - bucket.last) \in Nat
        BY <1>5, <3>2, AllowanceEarns
      <3>. QED
        BY <3>1, <3>2, <3>3
    <2>6. book[k].granted \in Nat
      BY <1>5 DEF Book
    <2>7. Allowance(book[k], since, bucket.last) \in Int
      BY <1>8, <2>4
    <2>8. /\ book[k].granted + Tokens(bucket, clock)
                 <= Allowance(book[k], since, clock + Ahead(bucket, clock))
          /\ book[k].granted <= Allowance(book[k], since, clock + Ahead(bucket, clock))
      BY <2>2, <2>3, <2>4, <2>5, <2>6, <2>7
    <2>. QED
      BY <2>3, <2>4, <2>8 DEF bucket
  <1>11. ASSUME NEW x \in Int, x <= now
         PROVE  Allowance(book[k], since, x) <= Allowance(book[k], since, now)
    BY <1>5, <1>11, AllowanceEarns
  <1>12. book[k].granted \in Nat /\ next.granted = book[k].granted + got
    BY <1>2, <1>5 DEF Book
  <1>13. \A i \in DOMAIN table :
             table[i].key = k =>
                 \/ lost = 1
                 \/ k \in Keys(answer.table) /\ k \in Keys(Expire(table, clock))
                 \/ Tokens(table[i].bucket, clock) >= Burst
    <2> SUFFICES ASSUME NEW i \in DOMAIN table, table[i].key = k,
                        ~(k \in Keys(answer.table) /\ k \in Keys(Expire(table, clock))),
                        ~(Tokens(table[i].bucket, clock) >= Burst)
                 PROVE  lost = 1
      OBVIOUS
    <2>1. k \in Keys(table) /\ EntryOf(table, k) = table[i]
      BY <1>3
    <2>2. Tokens(table[i].bucket, clock) < Burst
      BY <1>3, TokensAreBounded, Positive
    <2>3. k \in (Keys(table) \ Keys(Expire(table, clock)))
                    \cup (Keys(Expire(table, clock)) \ Keys(answer.table))
      BY <2>1
    <2>. QED
      BY <2>1, <2>2, <2>3 DEF GivenUp, lost
  <1>14. ASSUME NEW i \in DOMAIN answer.table, answer.table[i].key = k
         PROVE  next.granted + answer.table[i].bucket.tokens
                    <= Allowance(next, since, answer.table[i].bucket.last)
    <2>1. CASE i # 1
      <3>1. PICK j \in DOMAIN table : answer.table[i] = table[j]
        BY <2>1 DEF Served
      <3>2. k # key
        BY <1>14, <2>1 DEF Served
      <3>3. got = 0 /\ skew = 0
        BY <3>2 DEF got, skew
      <3>4. table[j].key = k
        BY <1>14, <3>1
      <3>5. /\ book[k].granted + table[j].bucket.tokens
                   <= Allowance(book[k], since, table[j].bucket.last)
            /\ table[j].bucket.tokens \in Nat /\ table[j].bucket.last \in Nat
        BY <1>3, <3>4, Positive DEF Covered, IsBucket
      <3>6. Allowance(next, since, table[j].bucket.last)
                = Allowance(book[k], since, table[j].bucket.last) + Burst * lost
        <4>1. table[j].bucket.last + skew = table[j].bucket.last
          BY <3>3, <3>5
        <4>. QED
          BY <1>7, <3>5, <4>1
      <3>7. Allowance(book[k], since, table[j].bucket.last) \in Int
        BY <1>8, <3>5
      <3>. QED
        BY <1>9, <1>12, <3>1, <3>3, <3>5, <3>6, <3>7
    <2>2. CASE i = 1
      <3>0. k = key /\ answer.table[i].bucket = Charge(old, clock)
            /\ answer.ok = Granted(old, clock)
        BY <1>14, <2>2 DEF Served
      <3>1. CASE answer.ok /\ k \in Keys(Expire(table, clock))
        <4>1. PICK j \in DOMAIN table : table[j].key = k
          BY <1>4, <3>1 DEF Served
        <4>2. old = table[j].bucket
          BY <1>3, <3>0, <3>1, <4>1 DEF Asked
        <4>3. got = 1 /\ skew = Ahead(table[j].bucket, clock)
          BY <1>3, <3>0, <3>1, <4>1 DEF got, skew, Skew, Ahead
        <4>4. answer.table[i].bucket = [tokens |-> Tokens(table[j].bucket, clock) - 1, last |-> clock]
          BY <3>0, <3>1, <4>2 DEF Charge
        <4>5. /\ book[k].granted + Tokens(table[j].bucket, clock)
                     <= Allowance(book[k], since, clock + skew)
              /\ Tokens(table[j].bucket, clock) \in Nat
          BY <1>3, <1>10, <4>1, <4>3, TokensAreBounded, Positive
        <4>6. Allowance(next, since, clock) = Allowance(book[k], since, clock + skew) + Burst * lost
              /\ Allowance(book[k], since, clock + skew) \in Int
          BY <1>5, <1>7, <1>8
        <4>. QED
          BY <1>9, <1>12, <4>3, <4>4, <4>5, <4>6
      <3>2. CASE ~answer.ok /\ k \in Keys(Expire(table, clock))
        <4>1. PICK j \in DOMAIN table : table[j].key = k
          BY <1>4, <3>2 DEF Served
        <4>2. old = table[j].bucket
          BY <1>3, <3>0, <3>2, <4>1 DEF Asked
        <4>3. got = 0 /\ skew = 0
          BY <3>2 DEF got, skew
        <4>4. answer.table[i].bucket = table[j].bucket
          BY <3>0, <3>2, <4>2 DEF Charge
        <4>5. /\ book[k].granted + table[j].bucket.tokens
                     <= Allowance(book[k], since, table[j].bucket.last)
              /\ table[j].bucket.tokens \in Nat /\ table[j].bucket.last \in Nat
          BY <1>3, <4>1, Positive DEF Covered, IsBucket
        <4>6. table[j].bucket.last + skew = table[j].bucket.last
          BY <4>3, <4>5
        <4>7. /\ Allowance(next, since, table[j].bucket.last)
                     = Allowance(book[k], since, table[j].bucket.last) + Burst * lost
              /\ Allowance(book[k], since, table[j].bucket.last) \in Int
          BY <1>7, <1>8, <4>5, <4>6
        <4>. QED
          BY <1>9, <1>12, <4>3, <4>4, <4>5, <4>7
      <3>3. CASE k \notin Keys(Expire(table, clock))
        <4>1. old = FullBucket(clock)
          BY <3>0, <3>3 DEF Asked
        <4>2. /\ answer.ok /\ answer.table[i].bucket = [tokens |-> Burst - 1, last |-> clock]
          BY <3>0, <4>1, NewBucketGrants
        <4>3. got = 1 /\ skew = Skew(table, k, clock)
          BY <3>0, <4>2 DEF got, skew
        <4>4. book[k].granted + Burst <= Allowance(book[k], since, clock + skew) + Burst * lost
          <5>1. CASE k \in Keys(table)
            <6>1. PICK j \in DOMAIN table : table[j].key = k
              BY <1>4, <5>1
            <6>2. skew = Ahead(table[j].bucket, clock)
              BY <1>3, <4>3, <6>1 DEF Skew, Ahead
            <6>3. lost = 1 \/ Tokens(table[j].bucket, clock) >= Burst
              BY <1>13, <3>3, <6>1
            <6>4. /\ book[k].granted + Tokens(table[j].bucket, clock)
                         <= Allowance(book[k], since, clock + skew)
                  /\ book[k].granted <= Allowance(book[k], since, clock + skew)
                  /\ Tokens(table[j].bucket, clock) \in Nat
                  /\ Allowance(book[k], since, clock + skew) \in Int
              BY <1>3, <1>5, <1>8, <1>10, <6>1, <6>2, TokensAreBounded, Positive
            <6>. QED
              BY <1>9, <1>12, <6>3, <6>4, Positive
          <5>2. CASE k \notin Keys(table)
            <6>1. clock + skew = now
              BY <4>3, <5>2 DEF Skew
            <6>2. book[k].granted + Burst <= Allowance(book[k], since, clock + skew)
              BY <5>2, <6>1 DEF Covered
            <6>3. Allowance(book[k], since, clock + skew) \in Int
              BY <1>5, <1>8
            <6>. QED
              BY <1>9, <1>12, <6>2, <6>3, Positive
          <5>. QED
            BY <5>1, <5>2
        <4>5. Allowance(next, since, clock) = Allowance(book[k], since, clock + skew) + Burst * lost
              /\ Allowance(book[k], since, clock + skew) \in Int
          BY <1>5, <1>7, <1>8
        <4>. QED
          BY <1>9, <1>12, <4>2, <4>3, <4>4, <4>5, Positive
      <3>. QED
        BY <3>1, <3>2, <3>3
    <2>. QED
      BY <2>1, <2>2
  <1>15. ASSUME k \notin Keys(answer.table)
         PROVE  next.granted + Burst <= Allowance(next, since, now)
    <2>1. k # key
      BY <1>15 DEF Served, Keys
    <2>2. got = 0 /\ skew = 0
      BY <2>1 DEF got, skew
    <2>3. /\ Allowance(next, since, now) = Allowance(book[k], since, now) + Burst * lost
          /\ Allowance(book[k], since, now) \in Int
      <3>1. now + skew = now
        BY <2>2
      <3>. QED
        BY <1>7, <1>8, <3>1
    <2>4. CASE k \notin Keys(table)
      BY <1>9, <1>12, <2>2, <2>3, <2>4, Positive DEF Covered
    <2>5. CASE k \in Keys(table)
      <3>1. PICK j \in DOMAIN table : table[j].key = k
        BY <1>4, <2>5
      <3>2. PICK x \in Int : x = clock + Ahead(table[j].bucket, clock)
        BY <1>10, <3>1
      <3>3. /\ book[k].granted + Tokens(table[j].bucket, clock)
                   <= Allowance(book[k], since, now)
            /\ book[k].granted <= Allowance(book[k], since, now)
            /\ Tokens(table[j].bucket, clock) \in Nat
        <4>1. /\ book[k].granted + Tokens(table[j].bucket, clock) <= Allowance(book[k], since, x)
              /\ book[k].granted <= Allowance(book[k], since, x)
              /\ x <= now
              /\ Tokens(table[j].bucket, clock) \in Nat
          BY <1>3, <1>10, <3>1, <3>2, TokensAreBounded, Positive
        <4>. QED
          BY <1>8, <1>11, <1>12, <2>3, <4>1
      <3>4. lost = 1 \/ Tokens(table[j].bucket, clock) >= Burst
        BY <1>13, <1>15, <3>1
      <3>. QED
        BY <1>9, <1>12, <2>2, <2>3, <3>3, <3>4, Positive
    <2>. QED
      BY <2>4, <2>5
  <1>. QED
    BY <1>1, <1>6, <1>14, <1>15 DEF Covered

-----------------------------------------------------------------------------
(* The way of a request along its chain.                                   *)

Steps(ids) == ({"policy", "body", "rate", "allow", "slot"} \X ids)
                  \cup ({"run"} \X {"script", "other"})

Once(s) == \A i, j \in DOMAIN s : s[i] = s[j] => i = j

\* The handler comes last; a slot is asked for once, not by a request that holds
\* it, and only after its policy was noted as applied.
InOrder(todo, held, applied) ==
    /\ todo # <<>>
    /\ todo[Len(todo)][1] = "run"
    /\ \A i \in DOMAIN todo :
           todo[i][1] = "slot" =>
               /\ todo[i][2][1] \in applied
               /\ \A j \in DOMAIN held : held[j] # todo[i][2]
               /\ \A j \in DOMAIN todo : todo[j] = todo[i] => i = j

\* A reading of the clock, once taken, is used next.
OnChain(q, time) ==
    /\ InOrder(q.todo, q.held, q.applied)
    /\ \A i \in DOMAIN q.held : q.held[i][1] \in q.applied
    /\ \A i \in DOMAIN q.todo :
           q.todo[i][1] = "allow" => i = 1 /\ q.client \in Clients /\ q.clock <= time

Walks(q, ids, time) ==
    /\ IsRequest(q)
    /\ q.client \in Clients \cup {None}
    /\ q.applied \subseteq Names
    /\ q.clock \in Nat
    /\ q.held \in Seq(ids) /\ Once(q.held)
    /\ q.todo \in Seq(Steps(ids))
    /\ q.at \in {"idle", "record"} => q.held = <<>> /\ q.applied = {}
    /\ q.at = "chain" => OnChain(q, time)

LEMMA WalksOn ==
    ASSUME NEW q, NEW ids, NEW more, NEW time \in Nat, NEW later \in Nat,
           Walks(q, ids, time), ids \subseteq more, time <= later
    PROVE  Walks(q, more, later)
  <1>1. Steps(ids) \subseteq Steps(more)
    BY DEF Steps
  <1>2. q.held \in Seq(more) /\ q.todo \in Seq(Steps(more))
    BY <1>1, SeqMonotonic DEF Walks
  <1>3. OnChain(q, time) /\ q.clock \in Nat => OnChain(q, later)
    BY DEF OnChain
  <1>. QED
    BY <1>2, <1>3 DEF Walks

\* Off the chain only what is held counts.
LEMMA OffChainWalks ==
    ASSUME NEW q, NEW ids, NEW time,
           DOMAIN q = Fields, q.at \in {"handler", "unwind"},
           q.client = None, q.applied = {}, q.clock = 0, q.todo = <<>>,
           q.held \in Seq(ids), Once(q.held)
    PROVE  Walks(q, ids, time)
  BY EmptySeq DEF Walks, IsRequest, Flying

LEMMA AnsweredWalks ==
    ASSUME NEW q, NEW ids, NEW time, Walks(q, ids, time)
    PROVE  Walks(Answered(q), ids, time)
  <1>1. /\ Answered(q).at = "unwind" /\ Answered(q).held = q.held
        /\ Answered(q).client = None /\ Answered(q).applied = {}
        /\ Answered(q).clock = 0 /\ Answered(q).todo = <<>>
        /\ DOMAIN Answered(q) = Fields
    BY DEF Answered, NoRequest, Fields
  <1>. QED
    BY <1>1, OffChainWalks DEF Walks

\* What is left once the first of the chain is done.
IsLeft(tail, q, ids) ==
    /\ tail \in Seq(Steps(ids))
    /\ InOrder(tail, q.held, q.applied)
    /\ \A i \in DOMAIN tail : tail[i][1] # "allow"
    /\ Head(q.todo)[1] = "slot" => \A i \in DOMAIN tail : tail[i] # Head(q.todo)

LEMMA RestIsLeft ==
    ASSUME NEW q, NEW ids, NEW time, Walks(q, ids, time), q.at = "chain",
           Head(q.todo)[1] # "run"
    PROVE  IsLeft(Tail(q.todo), q, ids)
  <1>1. PICK todo : todo = q.todo
    OBVIOUS
  <1>2. /\ todo \in Seq(Steps(ids)) /\ todo # <<>> /\ todo[Len(todo)][1] = "run"
        /\ DOMAIN todo = 1 .. Len(todo) /\ Len(todo) \in Nat \ {0}
    BY <1>1, LenProperties, EmptySeq DEF Walks, OnChain, InOrder
  <1>3. Head(todo) = todo[1]
    BY <1>2
  <1>4. Len(todo) > 1
    BY <1>1, <1>2, <1>3
  <1>5. PICK tail : tail = Tail(todo)
    OBVIOUS
  <1>6. /\ tail \in Seq(Steps(ids)) /\ Len(tail) = Len(todo) - 1
        /\ \A i \in 1 .. Len(tail) : tail[i] = todo[i + 1]
        /\ DOMAIN tail = 1 .. Len(tail)
    BY <1>2, <1>5, HeadTailProperties, LenProperties
  <1>7. tail # <<>> /\ tail[Len(tail)] = todo[Len(todo)]
    BY <1>2, <1>4, <1>6, EmptySeq
  <1>8. \A i \in DOMAIN tail : i + 1 \in DOMAIN todo /\ tail[i] = todo[i + 1] /\ i + 1 # 1
    BY <1>2, <1>6
  <1>9. OnChain(q, time)
    BY DEF Walks
  <1>10. InOrder(tail, q.held, q.applied)
    <2>1. ASSUME NEW i \in DOMAIN tail, tail[i][1] = "slot"
          PROVE  /\ tail[i][2][1] \in q.applied
                 /\ \A j \in DOMAIN q.held : q.held[j] # tail[i][2]
                 /\ \A j \in DOMAIN tail : tail[j] = tail[i] => i = j
      <3>1. i \in Int /\ \A j \in DOMAIN tail : j \in Int
        BY <1>6
      <3>. QED
        BY <1>1, <1>8, <1>9, <2>1, <3>1 DEF OnChain, InOrder
    <2>. QED
      BY <1>2, <1>7, <2>1 DEF InOrder
  <1>11. \A i \in DOMAIN tail : tail[i][1] # "allow"
    BY <1>1, <1>8, <1>9 DEF OnChain
  <1>12. todo[1][1] = "slot" => \A i \in DOMAIN tail : tail[i] # todo[1]
    <2>1. 1 \in DOMAIN todo
      BY <1>2
    <2>. QED
      BY <1>1, <1>8, <1>9, <2>1 DEF OnChain, InOrder
  <1>. QED
    BY <1>1, <1>3, <1>5, <1>6, <1>10, <1>11, <1>12 DEF IsLeft

\* The first of the chain is done, and a slot may have been taken.
LEMMA PastWalks ==
    ASSUME NEW q, NEW ids, NEW time, Walks(q, ids, time), q.at = "chain",
           Head(q.todo)[1] # "run",
           NEW p, IsRequest(p), p.at = "chain", p.client = q.client,
           p.applied = q.applied, p.todo = Tail(q.todo), p.held = q.held, p.clock \in Nat
    PROVE  Walks(p, ids, time)
  <1>1. IsLeft(p.todo, q, ids)
    BY RestIsLeft
  <1>2. /\ p.todo \in Seq(Steps(ids)) /\ InOrder(p.todo, p.held, p.applied)
        /\ \A i \in DOMAIN p.todo : p.todo[i][1] # "allow"
    BY <1>1 DEF IsLeft
  <1>. QED
    BY <1>2 DEF Walks, OnChain

\* Something is put in front of what is left: its slots are of a policy that
\* was not applied before.
LEMMA PrependWalks ==
    ASSUME NEW q, NEW ids, NEW time, Walks(q, ids, time), q.at = "chain",
           Head(q.todo)[1] # "run",
           NEW front \in Seq(Steps(ids)),
           NEW p, IsRequest(p), p.at = "chain", p.client \in Clients \cup {None},
           p.applied \subseteq Names, q.applied \subseteq p.applied, p.clock \in Nat,
           p.held = q.held, p.todo = front \o Tail(q.todo),
           \A i \in DOMAIN front :
               front[i][1] = "slot" => /\ front[i][2][1] \in p.applied \ q.applied
                                       /\ \A j \in DOMAIN front : front[j] = front[i] => i = j,
           \A i \in DOMAIN front :
               front[i][1] = "allow" => i = 1 /\ p.client \in Clients /\ p.clock <= time
    PROVE  Walks(p, ids, time)
  <1>1. PICK tail : tail = Tail(q.todo)
    OBVIOUS
  <1>2. IsLeft(tail, q, ids)
    BY <1>1, RestIsLeft
  <1>3. PICK todo : todo = p.todo
    OBVIOUS
  <1>4. /\ tail \in Seq(Steps(ids)) /\ tail # <<>>
        /\ Len(front) \in Nat /\ DOMAIN front = 1 .. Len(front)
        /\ Len(tail) \in Nat \ {0} /\ DOMAIN tail = 1 .. Len(tail)
    BY <1>2, LenProperties, EmptySeq DEF IsLeft, InOrder
  <1>5. /\ todo \in Seq(Steps(ids)) /\ Len(todo) = Len(front) + Len(tail)
        /\ \A i \in 1 .. Len(front) + Len(tail) :
               todo[i] = IF i <= Len(front) THEN front[i] ELSE tail[i - Len(front)]
    BY <1>1, <1>3, <1>4, ConcatProperties
  <1>6. DOMAIN todo = 1 .. Len(todo) /\ todo # <<>>
    BY <1>4, <1>5, LenProperties, EmptySeq
  <1>7. ASSUME NEW i \in DOMAIN todo
        PROVE  \/ i \in DOMAIN front /\ todo[i] = front[i]
               \/ /\ i - Len(front) \in DOMAIN tail
                  /\ todo[i] = tail[i - Len(front)]
    BY <1>4, <1>5, <1>6
  <1>8. todo[Len(todo)] = tail[Len(tail)]
    BY <1>4, <1>5
  <1>9. OnChain(q, time)
    BY DEF Walks
  <1>10. ASSUME NEW i \in DOMAIN todo, todo[i][1] = "slot"
         PROVE  /\ todo[i][2][1] \in p.applied
                /\ \A j \in DOMAIN p.held : p.held[j] # todo[i][2]
                /\ \A j \in DOMAIN todo : todo[j] = todo[i] => i = j
    <2>1. CASE i \in DOMAIN front /\ todo[i] = front[i]
      <3>1. front[i][2][1] \in p.applied \ q.applied
        BY <1>10, <2>1
      <3>2. \A j \in DOMAIN tail : tail[j] # front[i]
        BY <1>2, <1>10, <2>1, <3>1 DEF IsLeft, InOrder
      <3>3. \A j \in DOMAIN p.held : p.held[j] # front[i][2]
        BY <1>9, <3>1 DEF OnChain
      <3>. QED
        BY <1>7, <1>10, <2>1, <3>1, <3>2, <3>3
    <2>2. CASE i - Len(front) \in DOMAIN tail /\ todo[i] = tail[i - Len(front)]
      <3>1. tail[i - Len(front)][2][1] \in q.applied
        BY <1>2, <1>10, <2>2 DEF IsLeft, InOrder
      <3>2. \A j \in DOMAIN front : front[j] # tail[i - Len(front)]
        BY <1>10, <2>2, <3>1
      <3>3. \A j \in DOMAIN q.held : q.held[j] # tail[i - Len(front)][2]
        BY <1>2, <1>10, <2>2 DEF IsLeft, InOrder
      <3>4. ASSUME NEW j \in DOMAIN todo, todo[j] = todo[i] PROVE i = j
        <4>1. j - Len(front) \in DOMAIN tail /\ todo[j] = tail[j - Len(front)]
          BY <1>7, <2>2, <3>2, <3>4
        <4>2. i - Len(front) = j - Len(front)
          BY <1>2, <1>10, <2>2, <3>4, <4>1 DEF IsLeft, InOrder
        <4>. QED
          BY <1>4, <1>6, <4>2
      <3>. QED
        BY <2>2, <3>1, <3>3, <3>4
    <2>. QED
      BY <1>7, <2>1, <2>2
  <1>11. ASSUME NEW i \in DOMAIN todo, todo[i][1] = "allow"
         PROVE  i = 1 /\ p.client \in Clients /\ p.clock <= time
    BY <1>2, <1>7, <1>11 DEF IsLeft
  <1>12. InOrder(todo, p.held, p.applied)
    BY <1>2, <1>6, <1>8, <1>10 DEF InOrder, IsLeft
  <1>13. \A i \in DOMAIN p.held : p.held[i][1] \in p.applied
    BY <1>9 DEF OnChain
  <1>. QED
    BY <1>3, <1>5, <1>11, <1>12, <1>13 DEF Walks, OnChain

\* The middleware of a policy, its slot once at most.
LEMMA MiddlewareOnce ==
    ASSUME NEW id, NEW front, front = Middleware(id)
    PROVE  /\ front \in Seq({"body", "rate", "slot"} \X {id})
           /\ \A i, j \in DOMAIN front :
                  front[i][1] = "slot" /\ front[j][1] = "slot" => i = j
  <1> DEFINE S == {"body", "rate", "slot"} \X {id}
             d == made[id].definition
  <1>1. PICK a : a = IF d.body THEN <<<<"body", id>>>> ELSE <<>>
    OBVIOUS
  <1>2. PICK b : b = IF d.rate THEN <<<<"rate", id>>>> ELSE <<>>
    OBVIOUS
  <1>3. PICK c : c = IF d.max > 0 THEN <<<<"slot", id>>>> ELSE <<>>
    OBVIOUS
  <1>4. front = (a \o b) \o c
    BY <1>1, <1>2, <1>3 DEF Middleware
  <1>5. /\ a \in Seq(S) /\ Len(a) \in {0, 1} /\ \A i \in 1 .. Len(a) : a[i] = <<"body", id>>
        /\ b \in Seq(S) /\ Len(b) \in {0, 1} /\ \A i \in 1 .. Len(b) : b[i] = <<"rate", id>>
        /\ c \in Seq(S) /\ Len(c) \in {0, 1} /\ \A i \in 1 .. Len(c) : c[i] = <<"slot", id>>
    BY <1>1, <1>2, <1>3
  <1> HIDE DEF S
  <1>6. PICK ab : ab = a \o b
    OBVIOUS
  <1>7. /\ ab \in Seq(S) /\ Len(ab) = Len(a) + Len(b)
        /\ \A i \in 1 .. Len(a) + Len(b) :
               ab[i] = IF i <= Len(a) THEN a[i] ELSE b[i - Len(a)]
    BY <1>5, <1>6, ConcatProperties
  <1>8. \A i \in 1 .. Len(ab) : ab[i][1] # "slot"
    BY <1>5, <1>7
  <1>9. /\ front \in Seq(S) /\ Len(front) = Len(ab) + Len(c)
        /\ \A i \in 1 .. Len(ab) + Len(c) :
               front[i] = IF i <= Len(ab) THEN ab[i] ELSE c[i - Len(ab)]
    BY <1>4, <1>5, <1>6, <1>7, ConcatProperties
  <1>10. DOMAIN front = 1 .. Len(front) /\ Len(ab) \in Nat
    BY <1>5, <1>7, <1>9, LenProperties
  <1>11. \A i \in DOMAIN front : front[i][1] = "slot" => i = Len(ab) + 1
    BY <1>5, <1>8, <1>9, <1>10
  <1>. QED
    BY <1>9, <1>11 DEF S

LEMMA EnterWalks ==
    ASSUME NEW q, NEW ids, NEW time, Walks(q, ids, time), q.at = "chain",
           Head(q.todo)[1] # "run", NEW id \in ids, id[1] \in Names, id[1] \notin q.applied,
           NEW p, IsRequest(p), p.at = "chain", p.client = q.client, p.clock = q.clock,
           p.held = q.held, p.applied = q.applied \cup {id[1]},
           p.todo = Middleware(id) \o Tail(q.todo)
    PROVE  Walks(p, ids, time)
  <1>1. PICK front : front = Middleware(id)
    OBVIOUS
  <1>2. front \in Seq({"body", "rate", "slot"} \X {id})
    BY <1>1, MiddlewareOnce
  <1>3. {"body", "rate", "slot"} \X {id} \subseteq Steps(ids)
    BY DEF Steps
  <1>4. front \in Seq(Steps(ids))
    BY <1>2, <1>3, SeqMonotonic
  <1>5. \A i \in DOMAIN front : front[i] \in {"body", "rate", "slot"} \X {id}
    BY <1>2, LenProperties, ElementOfSeq
  <1>6. ASSUME NEW i \in DOMAIN front, front[i][1] = "slot"
        PROVE  /\ front[i][2][1] \in p.applied \ q.applied
               /\ \A j \in DOMAIN front : front[j] = front[i] => i = j
    BY <1>1, <1>5, <1>6, MiddlewareOnce
  <1>7. \A i \in DOMAIN front : front[i][1] # "allow"
    BY <1>5
  <1>8. /\ p.todo = front \o Tail(q.todo) /\ p.client \in Clients \cup {None}
        /\ p.applied \subseteq Names /\ q.applied \subseteq p.applied /\ p.clock \in Nat
    BY <1>1 DEF Walks
  <1>. QED
    BY <1>4, <1>6, <1>7, <1>8, PrependWalks

LEMMA ReadingWalks ==
    ASSUME NEW q, NEW ids, NEW time \in Nat, Walks(q, ids, time), q.at = "chain",
           Head(q.todo)[1] # "run", NEW id \in ids,
           NEW p, IsRequest(p), p.at = "chain", p.client \in Clients, p.clock = time,
           p.held = q.held, p.applied = q.applied,
           p.todo = <<<<"allow", id>>>> \o Tail(q.todo)
    PROVE  Walks(p, ids, time)
  <1>1. PICK front : front = <<<<"allow", id>>>>
    OBVIOUS
  <1>2. front \in Seq(Steps(ids))
    BY <1>1 DEF Steps
  <1>3. \A i \in DOMAIN front : i = 1 /\ front[i][1] = "allow"
    BY <1>1
  <1>4. /\ p.todo = front \o Tail(q.todo) /\ p.client \in Clients \cup {None}
        /\ p.applied \subseteq Names /\ q.applied \subseteq p.applied /\ p.clock \in Nat
        /\ p.clock <= time
    BY <1>1 DEF Walks
  <1>. QED
    BY <1>2, <1>3, <1>4, PrependWalks

\* The slot of the policy is taken.
LEMMA SlotWalks ==
    ASSUME NEW q, NEW ids, NEW time, Walks(q, ids, time), q.at = "chain",
           NEW id \in ids, Head(q.todo) = <<"slot", id>>,
           NEW p, IsRequest(p), p.at = "chain", p.client = q.client,
           p.applied = q.applied, p.clock = q.clock, p.todo = Tail(q.todo),
           p.held = Append(q.held, id)
    PROVE  /\ Walks(p, ids, time)
           /\ \A i \in DOMAIN q.held : q.held[i] # id
           /\ \A x : (\E i \in DOMAIN p.held : p.held[i] = x)
                         <=> (x = id \/ \E i \in DOMAIN q.held : q.held[i] = x)
  <1>1. PICK todo : todo = q.todo
    OBVIOUS
  <1>2. PICK held : held = q.held
    OBVIOUS
  <1>3. PICK more : more = p.held
    OBVIOUS
  <1>4. IsLeft(p.todo, q, ids)
    BY RestIsLeft
  <1>5. /\ todo \in Seq(Steps(ids)) /\ todo # <<>> /\ 1 \in DOMAIN todo
        /\ todo[1] = <<"slot", id>>
    BY <1>1 DEF Walks, OnChain, InOrder
  <1>6. id[1] \in q.applied /\ \A i \in DOMAIN held : held[i] # id
    BY <1>1, <1>2, <1>5 DEF Walks, OnChain, InOrder
  <1>7. held \in Seq(ids) /\ Once(held) /\ DOMAIN held = 1 .. Len(held) /\ Len(held) \in Nat
    BY <1>2, LenProperties DEF Walks
  <1>8. /\ more \in Seq(ids) /\ Len(more) = Len(held) + 1
        /\ \A i \in 1 .. Len(held) : more[i] = held[i]
        /\ more[Len(held) + 1] = id
    BY <1>2, <1>3, <1>7, AppendProperties
  <1>9. DOMAIN more = 1 .. Len(held) + 1
    BY <1>8, LenProperties
  <1>10. \A i \in DOMAIN more : IF i = Len(held) + 1 THEN more[i] = id
                                ELSE i \in DOMAIN held /\ more[i] = held[i]
    BY <1>7, <1>8, <1>9
  <1>11. Once(more)
    BY <1>6, <1>7, <1>10 DEF Once
  <1>12. \A x : (\E i \in DOMAIN more : more[i] = x)
                    <=> (x = id \/ \E i \in DOMAIN held : held[i] = x)
    BY <1>7, <1>8, <1>9, <1>10
  <1>13. \A i \in DOMAIN p.todo : p.todo[i][1] = "slot" => p.todo[i][2] # id
    <2>1. \A i \in DOMAIN p.todo : p.todo[i] # <<"slot", id>>
      BY <1>4 DEF IsLeft
    <2>2. p.todo \in Seq(Steps(ids))
      BY <1>4 DEF IsLeft
    <2>3. \A i \in DOMAIN p.todo : p.todo[i] \in Steps(ids)
      BY <2>2, LenProperties, ElementOfSeq
    <2>. QED
      BY <2>1, <2>3 DEF Steps
  <1>14. InOrder(p.todo, more, p.applied)
    BY <1>2, <1>4, <1>10, <1>13 DEF IsLeft, InOrder
  <1>15. \A i \in DOMAIN more : more[i][1] \in p.applied
    BY <1>2, <1>6, <1>10 DEF Walks, OnChain
  <1>16. OnChain(p, time)
    BY <1>3, <1>4, <1>14, <1>15 DEF OnChain, IsLeft
  <1>. QED
    BY <1>2, <1>3, <1>4, <1>6, <1>8, <1>11, <1>12, <1>16 DEF Walks, IsLeft

Holds(q, x) == \E i \in DOMAIN q.held : q.held[i] = x

LEMMA UnwindWalks ==
    ASSUME NEW q, NEW ids, NEW time, Walks(q, ids, time), q.at = "unwind", q.held # <<>>,
           NEW p, IsRequest(p), p.at = "unwind", p.client = q.client,
           p.applied = q.applied, p.clock = q.clock, p.todo = q.todo,
           p.held = Front(q.held)
    PROVE  /\ Walks(p, ids, time)
           /\ Last(q.held) \in ids
           /\ ~Holds(p, Last(q.held))
           /\ \A x : Holds(q, x) <=> (x = Last(q.held) \/ Holds(p, x))
  <1>1. PICK held : held = q.held
    OBVIOUS
  <1>2. PICK less : less = p.held
    OBVIOUS
  <1>3. held \in Seq(ids) /\ Once(held) /\ DOMAIN held = 1 .. Len(held) /\ Len(held) \in Nat \ {0}
    BY <1>1, LenProperties, EmptySeq DEF Walks
  <1>4. less = SubSeq(held, 1, Len(held) - 1) /\ Last(q.held) = held[Len(held)]
    BY <1>1, <1>2 DEF Front, Last
  <1>5. /\ less \in Seq(ids) /\ Len(less) = Len(held) - 1
        /\ \A i \in 1 .. Len(less) : less[i] = held[i]
    <2>1. /\ SubSeq(held, 1, Len(held) - 1) \in Seq(ids)
          /\ Len(SubSeq(held, 1, Len(held) - 1)) = Len(held) - 1
          /\ \A i \in 1 .. Len(held) - 1 : SubSeq(held, 1, Len(held) - 1)[i] = held[i]
      BY <1>3
    <2>. QED
      BY <1>4, <2>1
  <1>6. DOMAIN less = 1 .. Len(held) - 1
    BY <1>5, LenProperties
  <1>7. held[Len(held)] \in ids
    BY <1>3, ElementOfSeq
  <1>8. Once(less)
    BY <1>3, <1>5, <1>6 DEF Once
  <1>9. \A i \in DOMAIN less : less[i] # held[Len(held)]
    BY <1>3, <1>5, <1>6 DEF Once
  <1>10. \A x : (\E i \in DOMAIN held : held[i] = x)
                    <=> (x = held[Len(held)] \/ \E i \in DOMAIN less : less[i] = x)
    <2> TAKE x
    <2>1. ASSUME NEW i \in DOMAIN held, held[i] = x
          PROVE  x = held[Len(held)] \/ \E j \in DOMAIN less : less[j] = x
      <3>1. CASE i = Len(held)
        BY <2>1, <3>1
      <3>2. CASE i # Len(held)
        <4>1. i \in DOMAIN less /\ i \in 1 .. Len(less)
          BY <1>3, <1>5, <1>6, <3>2
        <4>. QED
          BY <1>5, <2>1, <4>1
      <3>. QED
        BY <3>1, <3>2
    <2>2. Len(held) \in DOMAIN held
      BY <1>3
    <2>3. ASSUME NEW j \in DOMAIN less, less[j] = x
          PROVE  j \in DOMAIN held /\ held[j] = x
      BY <1>3, <1>5, <1>6, <2>3
    <2>. QED
      BY <2>1, <2>2, <2>3
  <1>. QED
    <2>1. Walks(p, ids, time)
      BY <1>2, <1>5, <1>8 DEF Walks
    <2>2. Last(q.held) \in ids /\ ~Holds(p, Last(q.held))
      BY <1>2, <1>4, <1>7, <1>9 DEF Holds
    <2>3. \A x : Holds(q, x) <=> (x = Last(q.held) \/ Holds(p, x))
      <3>1. \A x : Holds(q, x) <=> \E i \in DOMAIN held : held[i] = x
        BY <1>1 DEF Holds
      <3>2. \A x : Holds(p, x) <=> \E i \in DOMAIN less : less[i] = x
        BY <1>2 DEF Holds
      <3>. QED
        BY <1>4, <1>10, <3>1, <3>2
    <2>. QED
      BY <2>1, <2>2, <2>3

LEMMA ArriveWalks ==
    ASSUME NEW q, NEW ids, NEW time, Walks(q, ids, time), q.at = "idle",
           NEW front \in Seq({"policy"} \X ids), NEW handler \in {"script", "other"},
           NEW p, IsRequest(p), p.at = "chain", p.client = q.client,
           p.applied = q.applied, p.clock = q.clock, p.held = q.held,
           p.todo = front \o <<<<"run", handler>>>>
    PROVE  Walks(p, ids, time)
  <1>1. PICK last : last = <<<<"run", handler>>>>
    OBVIOUS
  <1>2. PICK todo : todo = p.todo
    OBVIOUS
  <1>3. {"policy"} \X ids \subseteq Steps(ids) /\ <<"run", handler>> \in Steps(ids)
    BY DEF Steps
  <1>4. front \in Seq(Steps(ids)) /\ Len(front) \in Nat
    BY <1>3, SeqMonotonic, LenProperties
  <1>5. last \in Seq(Steps(ids)) /\ Len(last) = 1 /\ last[1] = <<"run", handler>>
    BY <1>1, <1>3
  <1>6. /\ todo \in Seq(Steps(ids)) /\ Len(todo) = Len(front) + Len(last)
        /\ \A i \in 1 .. Len(front) + Len(last) :
               todo[i] = IF i <= Len(front) THEN front[i] ELSE last[i - Len(front)]
    BY <1>1, <1>2, <1>4, <1>5, ConcatProperties
  <1>7. DOMAIN todo = 1 .. Len(front) + 1 /\ todo # <<>>
    BY <1>4, <1>5, <1>6, LenProperties, EmptySeq
  <1>8. \A i \in 1 .. Len(front) : front[i][1] = "policy"
    <2>1. \A i \in 1 .. Len(front) : front[i] \in {"policy"} \X ids
      BY ElementOfSeq
    <2>. QED
      BY <2>1
  <1>9. \A i \in DOMAIN todo : todo[i][1] \in {"policy", "run"}
    BY <1>4, <1>5, <1>6, <1>7, <1>8
  <1>10. todo[Len(todo)][1] = "run"
    BY <1>4, <1>5, <1>6
  <1>11. q.held = <<>> /\ q.applied = {}
    BY DEF Walks
  <1>12. InOrder(todo, p.held, p.applied)
    BY <1>7, <1>9, <1>10 DEF InOrder
  <1>13. OnChain(p, time)
    BY <1>2, <1>9, <1>11, <1>12 DEF OnChain
  <1>. QED
    BY <1>2, <1>6, <1>13 DEF Walks

-----------------------------------------------------------------------------
(* The invariant.                                                          *)

PolicyRecord == [definition : Definitions, table : Seq(Entries), slots : Nat,
                 since : Nat, line : PolicyIds]

\* A policy is made once, under an id of its own, and is behind its name until
\* an Apply changes its definition; no two policies are of one line.
PolicyInv ==
    /\ now \in Nat
    /\ applies \in 0 .. MaxApplies
    /\ DOMAIN made \subseteq Names \X (0 .. applies)
    /\ \A id \in DOMAIN made :
           /\ made[id] \in PolicyRecord
           /\ IsTable(made[id].table, now)
           /\ made[id].line = id
    /\ current.config \in Configs
    /\ DOMAIN current.policies = DOMAIN current.config.definition
    /\ \A n \in DOMAIN current.policies :
           /\ current.policies[n] \in DOMAIN made
           /\ current.policies[n][1] = n
           /\ made[current.policies[n]].definition = current.config.definition[n]

WalkInv == /\ DOMAIN req = Requests
           /\ \A r \in Requests : Walks(req[r], DOMAIN made, now)

SlotInv ==
    \A id \in DOMAIN made :
        /\ made[id].slots = Cardinality(Holding(id))
        /\ made[id].slots <= made[id].definition.max

RateInv ==
    /\ ledger \in [DOMAIN made -> [Clients -> Book]]
    /\ \A id \in DOMAIN made : \A k \in Clients :
           Covered(ledger[id][k], made[id].table, k, made[id].since, now)

ServingInv == PolicyInv /\ WalkInv /\ SlotInv /\ RateInv

LEMMA InitServingInv == ServingInit => ServingInv
  <1> SUFFICES ASSUME ServingInit PROVE ServingInv
    OBVIOUS
  <1>1. PICK c \in Configs :
            /\ current = [config |-> c, policies |-> [n \in DOMAIN c.definition |-> <<n, 0>>]]
            /\ made = [id \in (DOMAIN c.definition) \X {0} |->
                           [definition |-> c.definition[id[1]], table |-> <<>>, slots |-> 0,
                            since |-> 0, line |-> id]]
    BY DEF ServingInit
  <1>2. /\ DOMAIN c.definition \subseteq Names
        /\ \A n \in DOMAIN c.definition : c.definition[n] \in Definitions
    BY ConfigsAssumption
  <1>3. 0 \in 0 .. MaxApplies
    BY BoundsAssumption
  <1>4. ASSUME NEW id \in DOMAIN made
        PROVE  /\ made[id] \in PolicyRecord
               /\ made[id].table = <<>> /\ made[id].slots = 0 /\ made[id].since = 0
               /\ made[id].line = id
               /\ made[id].definition \in Definitions
    <2>1. id \in Names \X {0} /\ id[1] \in DOMAIN c.definition /\ id \in PolicyIds
      BY <1>1, <1>2, <1>3 DEF PolicyIds
    <2>2. made[id] = [definition |-> c.definition[id[1]], table |-> <<>>, slots |-> 0,
                      since |-> 0, line |-> id]
      BY <1>1
    <2>3. <<>> \in Seq(Entries)
      OBVIOUS
    <2>. QED
      BY <1>2, <2>1, <2>2, <2>3 DEF PolicyRecord
  <1>5. \A table : table = <<>> => IsTable(table, 0) /\ Keys(table) = {}
    BY EmptySeq, Positive DEF IsTable, Keys
  <1>6. PolicyInv
    <2>1. now = 0 /\ applies = 0
      BY DEF ServingInit
    <2>2. DOMAIN made \subseteq Names \X (0 .. applies)
      BY <1>1, <1>2, <2>1
    <2>3. \A n \in DOMAIN c.definition : <<n, 0>> \in DOMAIN made
                                         /\ made[<<n, 0>>].definition = c.definition[n]
      BY <1>1
    <2>. QED
      BY <1>1, <1>3, <1>4, <1>5, <2>1, <2>2, <2>3 DEF PolicyInv
  <1>7. req = [r \in Requests |-> NoRequest]
    BY DEF ServingInit
  <1>8. WalkInv
    <2>1. DOMAIN NoRequest = Fields /\ NoRequest.at = "idle" /\ NoRequest.client = None
          /\ NoRequest.applied = {} /\ NoRequest.clock = 0 /\ NoRequest.held = <<>>
          /\ NoRequest.todo = <<>>
      BY DEF NoRequest, Fields
    <2>2. Walks(NoRequest, DOMAIN made, now)
      BY <2>1, EmptySeq DEF Walks, IsRequest, Once
    <2>. QED
      BY <1>7, <2>2 DEF WalkInv
  <1>9. SlotInv
    <2>1. \A id \in DOMAIN made : Holding(id) = {}
      BY <1>7 DEF Holding, NoRequest
    <2>. QED
      <3>1. \A id \in DOMAIN made : made[id].definition.max \in Nat
        BY <1>4 DEF Definitions
      <3>2. Cardinality({}) = 0
        BY FS_EmptySet
      <3>. QED
        <4>1. \A id \in DOMAIN made : Cardinality(Holding(id)) = 0
          BY <2>1, <3>2
        <4>2. \A id \in DOMAIN made : made[id].slots = 0
          BY <1>4
        <4>. QED
          BY <3>1, <4>1, <4>2 DEF SlotInv
  <1>10. RateInv
    <2>1. ledger = [id \in DOMAIN made |-> NewLedger]
      BY DEF ServingInit
    <2>2. Blank \in Book /\ Blank.granted = 0 /\ Blank.lost = 0 /\ Blank.skew = 0
      BY DEF Blank, Book
    <2>3. Burst <= Allowance(Blank, 0, 0)
      BY <2>2, Positive DEF Allowance
    <2>4. \A id \in DOMAIN made : \A k \in Clients :
              Covered(Blank, made[id].table, k, made[id].since, now)
      <3>1. now = 0
        BY DEF ServingInit
      <3>2. \A k : Covered(Blank, <<>>, k, 0, 0)
        BY <1>5, <2>2, <2>3, Positive DEF Covered
      <3>3. \A id \in DOMAIN made : made[id].table = <<>> /\ made[id].since = 0
        BY <1>4
      <3>. QED
        BY <3>1, <3>2, <3>3
    <2>. QED
      BY <2>1, <2>2, <2>4 DEF RateInv, NewLedger
  <1>. QED
    BY <1>6, <1>8, <1>9, <1>10 DEF ServingInv

\* A step of a request that leaves the policies alone, and what it holds.
LEMMA RequestMoves ==
    ASSUME ServingInv, NEW r \in Requests, NEW p,
           req' = [req EXCEPT ![r] = p],
           UNCHANGED <<now, applies, current, made, ledger>>,
           Walks(p, DOMAIN made, now),
           \A x : Holds(p, x) <=> Holds(req[r], x)
    PROVE  ServingInv'
  <1>1. /\ DOMAIN req' = Requests /\ req'[r] = p
        /\ \A q \in Requests \ {r} : req'[q] = req[q]
    BY DEF ServingInv, WalkInv
  <1>2. PolicyInv'
    BY DEF ServingInv, PolicyInv
  <1>3. WalkInv'
    BY <1>1 DEF ServingInv, WalkInv
  <1>4. ASSUME NEW id PROVE Holding(id)' = Holding(id)
    BY <1>1 DEF Holding, Holds
  <1>5. SlotInv'
    BY <1>4 DEF ServingInv, SlotInv
  <1>6. RateInv'
    BY DEF ServingInv, RateInv
  <1>. QED
    BY <1>2, <1>3, <1>5, <1>6 DEF ServingInv

\* The facts about the request's step that the others are applied to.
LEMMA HeadOfChain ==
    ASSUME ServingInv, NEW r \in Requests
    PROVE  /\ Walks(req[r], DOMAIN made, now)
           /\ IsRequest(req[r]) /\ DOMAIN req[r] = Fields
           /\ IsRequest(Past(req[r])) \/ req[r].at # "chain"
           /\ Past(req[r]).todo = Tail(req[r].todo)
           /\ Past(req[r]).at = req[r].at /\ Past(req[r]).held = req[r].held
           /\ Past(req[r]).client = req[r].client /\ Past(req[r]).clock = req[r].clock
           /\ Past(req[r]).applied = req[r].applied
           /\ DOMAIN Past(req[r]) = Fields
  <1> DEFINE q == req[r]
  <1>1. Walks(q, DOMAIN made, now)
    BY DEF ServingInv, WalkInv
  <1>2. IsRequest(q) /\ DOMAIN q = Fields
    BY <1>1 DEF Walks, IsRequest
  <1> HIDE DEF q
  <1>3. /\ Past(q).todo = Tail(q.todo)
        /\ Past(q).at = q.at /\ Past(q).held = q.held
        /\ Past(q).client = q.client /\ Past(q).clock = q.clock
        /\ Past(q).applied = q.applied
        /\ DOMAIN Past(q) = Fields
    BY <1>2 DEF Past, Fields
  <1>4. IsRequest(Past(q))
    BY <1>2, <1>3 DEF IsRequest
  <1>. QED
    BY <1>1, <1>2, <1>3, <1>4 DEF q

LEMMA AnswersKeepServingInv ==
    ASSUME ServingInv, NEW r \in Requests,
           req' = [req EXCEPT ![r] = Answered(req[r])],
           UNCHANGED <<now, applies, current, made, ledger>>
    PROVE  ServingInv'
  <1>1. Walks(Answered(req[r]), DOMAIN made, now)
    BY HeadOfChain, AnsweredWalks
  <1>2. Answered(req[r]).held = req[r].held
    BY DEF Answered, NoRequest
  <1>3. \A x : Holds(Answered(req[r]), x) <=> Holds(req[r], x)
    BY <1>2 DEF Holds
  <1>. QED
    BY <1>1, <1>3, RequestMoves

LEMMA HandlerKeepsServingInv ==
    ASSUME ServingInv, NEW r \in Requests,
           \/ AnswerChallenge(r) \/ HandlerReturns(r) \/ HandlerPanics(r)
           \/ \E h \in {"script", "other"} : Handle(r, h)
    PROVE  ServingInv'
  <1>1. CASE AnswerChallenge(r) \/ HandlerReturns(r) \/ HandlerPanics(r)
    BY <1>1, AnswersKeepServingInv DEF AnswerChallenge, HandlerReturns, HandlerPanics, Move
  <1>2. CASE \E h \in {"script", "other"} : Handle(r, h)
    <2> DEFINE q == req[r]
               p == [NoRequest EXCEPT !.at = "handler", !.held = q.held, !.timed = q.timed]
    <2>1. /\ DOMAIN p = Fields /\ p.at = "handler" /\ p.client = None /\ p.applied = {}
          /\ p.clock = 0 /\ p.todo = <<>> /\ p.held = q.held
      BY DEF NoRequest, Fields
    <2>2. q.held \in Seq(DOMAIN made) /\ Once(q.held)
      BY HeadOfChain DEF Walks
    <2>3. /\ req' = [req EXCEPT ![r] = p]
          /\ UNCHANGED <<now, applies, current, made, ledger>>
      BY <1>2 DEF Handle, Move
    <2> HIDE DEF p
    <2>4. Walks(p, DOMAIN made, now)
      BY <2>1, <2>2, OffChainWalks
    <2>5. \A x : Holds(p, x) <=> Holds(req[r], x)
      BY <2>1 DEF Holds
    <2>. QED
      BY <2>3, <2>4, <2>5, RequestMoves
  <1>. QED
    BY <1>1, <1>2

LEMMA ArriveKeepsServingInv ==
    ASSUME ServingInv, NEW r \in Requests, Arrive(r)
    PROVE  ServingInv'
  <1> DEFINE q == req[r]
             chain == current.config.chain
             front == [i \in DOMAIN chain |-> <<"policy", current.policies[chain[i]]>>]
             handler == current.config.handler
             todo == front \o <<<<"run", handler>>>>
             p == [q EXCEPT !.at = "chain", !.todo = todo]
  <1>1. Walks(q, DOMAIN made, now) /\ DOMAIN q = Fields /\ q.at = "idle"
    BY HeadOfChain DEF Arrive
  <1>2. handler \in {"script", "other"} /\ chain \in Seq(DOMAIN current.config.definition)
    BY ConfigsAssumption DEF ServingInv, PolicyInv
  <1>3. \A n \in DOMAIN current.config.definition : current.policies[n] \in DOMAIN made
    BY DEF ServingInv, PolicyInv
  <1>4. front \in Seq({"policy"} \X DOMAIN made)
    <2>1. Len(chain) \in Nat /\ DOMAIN chain = 1 .. Len(chain)
          /\ \A i \in 1 .. Len(chain) : chain[i] \in DOMAIN current.config.definition
      BY <1>2, LenProperties, ElementOfSeq
    <2>2. \A i \in 1 .. Len(chain) : <<"policy", current.policies[chain[i]]>>
                                         \in {"policy"} \X DOMAIN made
      BY <1>3, <2>1
    <2>3. front \in [1 .. Len(chain) -> {"policy"} \X DOMAIN made]
      BY <2>1, <2>2
    <2>. QED
      BY <2>1, <2>3, SeqDef
  <1> HIDE DEF front, handler, q
  <1>5. /\ DOMAIN p = Fields /\ p.at = "chain" /\ p.client = q.client /\ p.applied = q.applied
        /\ p.clock = q.clock /\ p.held = q.held /\ p.todo = todo
    BY <1>1 DEF Fields
  <1>6. IsRequest(p)
    BY <1>5 DEF IsRequest, Flying
  <1>7. req' = [req EXCEPT ![r] = p] /\ UNCHANGED <<now, applies, current, made, ledger>>
    BY DEF Arrive, q, front, handler
  <1> HIDE DEF p
  <1>8. Walks(p, DOMAIN made, now)
    BY <1>1, <1>2, <1>4, <1>5, <1>6, ArriveWalks DEF handler
  <1>9. \A x : Holds(p, x) <=> Holds(req[r], x)
    BY <1>5 DEF Holds, q
  <1>. QED
    BY <1>7, <1>8, <1>9, RequestMoves

LEMMA FacesFact ==
    ASSUME NEW r, NEW what, NEW id, Faces(r, what, id)
    PROVE  req[r].at = "chain" /\ Head(req[r].todo) = <<what, id>> /\ Head(req[r].todo)[1] = what
  BY DEF Faces

\* Going past the first of the chain.
LEMMA PastKeepsServingInv ==
    ASSUME ServingInv, NEW r \in Requests, req[r].at = "chain", Head(req[r].todo)[1] # "run",
           req' = [req EXCEPT ![r] = Past(req[r])],
           UNCHANGED <<now, applies, current, made, ledger>>
    PROVE  ServingInv'
  <1>1. IsRequest(Past(req[r])) /\ Past(req[r]).clock \in Nat
    BY HeadOfChain DEF Walks
  <1>2. Walks(Past(req[r]), DOMAIN made, now)
    BY <1>1, HeadOfChain, PastWalks
  <1>3. \A x : Holds(Past(req[r]), x) <=> Holds(req[r], x)
    BY HeadOfChain DEF Holds
  <1>. QED
    BY <1>2, <1>3, RequestMoves

LEMMA EnterKeepsServingInv ==
    ASSUME ServingInv, NEW r \in Requests, NEW id \in DOMAIN made, Enter(r, id)
    PROVE  ServingInv'
  <1> DEFINE q == req[r]
             rest == Past(q)
             applied == rest.applied \cup {id[1]}
             timed == rest.timed \/ made[id].definition.timeout
             todo == Middleware(id) \o rest.todo
             p == [rest EXCEPT !.applied = applied, !.timed = timed, !.todo = todo]
  <1>1. q.at = "chain" /\ Head(q.todo)[1] # "run"
    BY FacesFact DEF Enter
  <1>2. UNCHANGED <<now, applies, current, made, ledger>>
    BY DEF Enter, Move
  <1>3. CASE id[1] \in rest.applied
    BY <1>1, <1>2, <1>3, PastKeepsServingInv DEF Enter, Move
  <1>4. CASE id[1] \notin rest.applied
    <2>1. req' = [req EXCEPT ![r] = p]
      BY <1>4 DEF Enter, Move
    <2>2. /\ DOMAIN rest = Fields /\ rest.at = q.at /\ rest.client = q.client
          /\ rest.clock = q.clock /\ rest.held = q.held /\ rest.todo = Tail(q.todo)
          /\ rest.applied = q.applied /\ Walks(q, DOMAIN made, now)
      BY HeadOfChain
    <2>3. id[1] \in Names
      BY DEF ServingInv, PolicyInv
    <2> HIDE DEF rest, applied, timed, todo, q
    <2>4. /\ DOMAIN p = Fields /\ p.at = q.at /\ p.client = q.client /\ p.clock = q.clock
          /\ p.held = q.held /\ p.applied = applied /\ p.todo = todo
      BY <2>2 DEF Fields
    <2> HIDE DEF p
    <2>5. IsRequest(p) /\ p.at = "chain"
      BY <1>1, <2>4 DEF IsRequest, Flying
    <2>6. p.applied = q.applied \cup {id[1]} /\ p.todo = Middleware(id) \o Tail(q.todo)
          /\ id[1] \notin q.applied
      BY <1>4, <2>2, <2>4 DEF applied, todo
    <2>7. Walks(p, DOMAIN made, now)
      BY <1>1, <2>2, <2>3, <2>4, <2>5, <2>6, EnterWalks
    <2>8. \A x : Holds(p, x) <=> Holds(req[r], x)
      BY <2>4 DEF Holds, q
    <2>. QED
      BY <1>2, <2>1, <2>7, <2>8, RequestMoves
  <1>. QED
    BY <1>3, <1>4

LEMMA LimitBodyKeepsServingInv ==
    ASSUME ServingInv, NEW r \in Requests, NEW id, LimitBody(r, id)
    PROVE  ServingInv'
  <1>1. req[r].at = "chain" /\ Head(req[r].todo)[1] # "run"
    BY FacesFact DEF LimitBody
  <1>. QED
    BY <1>1, PastKeepsServingInv, AnswersKeepServingInv DEF LimitBody, Move

LEMMA ReadClockKeepsServingInv ==
    ASSUME ServingInv, NEW r \in Requests, NEW id \in DOMAIN made, NEW k \in Clients,
           ReadClock(r, id, k)
    PROVE  ServingInv'
  <1> DEFINE q == req[r]
             todo == <<<<"allow", id>>>> \o Tail(q.todo)
             p == [q EXCEPT !.clock = now, !.client = k, !.todo = todo]
  <1>1. q.at = "chain" /\ Head(q.todo)[1] # "run"
    BY FacesFact DEF ReadClock
  <1>2. req' = [req EXCEPT ![r] = p] /\ UNCHANGED <<now, applies, current, made, ledger>>
    BY DEF ReadClock, Move
  <1>3. Walks(q, DOMAIN made, now) /\ DOMAIN q = Fields /\ now \in Nat
    BY HeadOfChain DEF ServingInv, PolicyInv
  <1> HIDE DEF q, todo
  <1>4. /\ DOMAIN p = Fields /\ p.at = "chain" /\ p.client = k /\ p.clock = now
        /\ p.held = q.held /\ p.applied = q.applied /\ p.todo = todo
    BY <1>1, <1>3 DEF Fields
  <1> HIDE DEF p
  <1>5. IsRequest(p)
    BY <1>4 DEF IsRequest, Flying
  <1>6. Walks(p, DOMAIN made, now)
    BY <1>1, <1>3, <1>4, <1>5, ReadingWalks DEF todo
  <1>7. \A x : Holds(p, x) <=> Holds(req[r], x)
    BY <1>4 DEF Holds, q
  <1>. QED
    BY <1>2, <1>6, <1>7, RequestMoves

\* A policy's own state changes, and a request moves.
LEMMA PolicyChanges ==
    ASSUME ServingInv, NEW r \in Requests, NEW p, NEW id \in DOMAIN made, NEW policy,
           policy \in PolicyRecord, policy.line = id, policy.definition = made[id].definition,
           IsTable(policy.table, now),
           req' = [req EXCEPT ![r] = p], made' = [made EXCEPT ![id] = policy],
           UNCHANGED <<now, applies, current>>, Walks(p, DOMAIN made, now)
    PROVE  PolicyInv' /\ WalkInv'
  <1>1. DOMAIN made' = DOMAIN made /\ made'[id] = policy
        /\ \A j \in DOMAIN made \ {id} : made'[j] = made[j]
    OBVIOUS
  <1>2. /\ DOMAIN req' = Requests /\ req'[r] = p
        /\ \A q \in Requests \ {r} : req'[q] = req[q]
    BY DEF ServingInv, WalkInv
  <1>3. PolicyInv'
    <2>1. \A j \in DOMAIN made' : /\ made'[j] \in PolicyRecord
                                  /\ IsTable(made'[j].table, now)
                                  /\ made'[j].line = j
      BY <1>1 DEF ServingInv, PolicyInv
    <2>2. \A j \in DOMAIN made : made'[j].definition = made[j].definition
      BY <1>1
    <2>. QED
      BY <1>1, <2>1, <2>2 DEF ServingInv, PolicyInv
  <1>4. WalkInv'
    BY <1>1, <1>2 DEF ServingInv, WalkInv
  <1>. QED
    BY <1>3, <1>4

LEMMA AllowKeepsServingInv ==
    ASSUME ServingInv, NEW r \in Requests, NEW id \in DOMAIN made, Allow(r, id)
    PROVE  ServingInv'
  <1> DEFINE q == req[r]
             policy == made[id]
             past == [Past(q) EXCEPT !.clock = 0]
             key == q.client
             clock == q.clock
             answer == Admit(policy.table, key, clock)
  <1>1. q.at = "chain" /\ Head(q.todo) = <<"allow", id>> /\ Head(q.todo)[1] # "run"
    BY FacesFact DEF Allow
  <1>2. /\ Walks(q, DOMAIN made, now) /\ DOMAIN Past(q) = Fields
        /\ policy \in PolicyRecord /\ IsTable(policy.table, now) /\ policy.line = id
        /\ now \in Nat
    BY HeadOfChain DEF ServingInv, PolicyInv
  <1>3. key \in Clients /\ clock \in Nat /\ clock <= now
    <2>1. 1 \in DOMAIN q.todo /\ q.todo[1] = Head(q.todo)
      BY <1>1, <1>2 DEF Walks, OnChain, InOrder
    <2>. QED
      BY <1>1, <1>2, <2>1 DEF Walks, OnChain
  <1>4. /\ made' = [made EXCEPT ![id] = [policy EXCEPT !.table = answer.table]]
        /\ ledger' = [ledger EXCEPT ![id] = Noted(ledger[id], policy.table, answer, key, clock)]
        /\ \/ req' = [req EXCEPT ![r] = past]
           \/ req' = [req EXCEPT ![r] = Answered(q)]
        /\ UNCHANGED <<now, applies, current>>
    BY <1>2 DEF Allow, Move
  <1>5. Served(answer, policy.table, key, clock)
    BY <1>2, <1>3, AdmitServes
  <1>6. PICK p : /\ req' = [req EXCEPT ![r] = p]
                 /\ Walks(p, DOMAIN made, now)
                 /\ p.held = q.held
    <2>1. Walks(Answered(q), DOMAIN made, now) /\ Answered(q).held = q.held
      BY <1>2, AnsweredWalks DEF Answered, NoRequest
    <2>2. /\ Past(q).at = "chain" /\ Past(q).held = q.held /\ Past(q).client = q.client
          /\ Past(q).applied = q.applied /\ Past(q).todo = Tail(q.todo)
      BY <1>1, HeadOfChain
    <2>3. /\ DOMAIN past = Fields /\ past.at = "chain" /\ past.client = q.client
          /\ past.applied = q.applied /\ past.clock = 0 /\ past.held = q.held
          /\ past.todo = Tail(q.todo)
      BY <1>2, <2>2 DEF Fields
    <2> HIDE DEF past, q
    <2>4. IsRequest(past)
      BY <2>3 DEF IsRequest, Flying
    <2>5. Walks(past, DOMAIN made, now)
      BY <1>1, <1>2, <2>3, <2>4, PastWalks
    <2>. QED
      BY <1>4, <2>1, <2>3, <2>5
  <1> HIDE DEF answer, key, clock, past, q
  <1>7. PICK table : table = answer.table
    OBVIOUS
  <1>8. IsTable(table, now) /\ table \in Seq(Entries)
    BY <1>5, <1>7 DEF Served, IsTable
  <1>9. PICK next : next = [policy EXCEPT !.table = table]
    OBVIOUS
  <1>10. /\ next \in PolicyRecord /\ next.line = id /\ next.definition = made[id].definition
         /\ next.table = table /\ next.slots = made[id].slots /\ next.since = made[id].since
    BY <1>2, <1>8, <1>9 DEF PolicyRecord
  <1>11. made' = [made EXCEPT ![id] = next]
    BY <1>4, <1>7, <1>9
  <1>12. PolicyInv' /\ WalkInv'
    <2>1. /\ next \in PolicyRecord /\ next.line = id /\ next.definition = made[id].definition
          /\ IsTable(next.table, now)
      BY <1>8, <1>10
    <2>2. id \in DOMAIN made /\ UNCHANGED <<now, applies, current>>
      BY <1>2, <1>4
    <2>. QED
      BY <1>6, <1>11, <2>1, <2>2, PolicyChanges
  <1>13. /\ DOMAIN made' = DOMAIN made /\ made'[id] = next
         /\ \A j \in DOMAIN made \ {id} : made'[j] = made[j]
    BY <1>11
  <1>14. SlotInv'
    <2>1. ASSUME NEW j PROVE Holding(j)' = Holding(j)
      <3>1. \A s \in Requests : (req[s].held)' = req[s].held
        BY <1>6 DEF ServingInv, WalkInv, q
      <3>. QED
        BY <3>1 DEF Holding
    <2>. QED
      BY <1>10, <1>13, <2>1 DEF ServingInv, SlotInv
  <1>15. RateInv'
    <2> DEFINE book == ledger[id]
               noted == Noted(book, policy.table, answer, key, clock)
    <2>1. book \in [Clients -> Book] /\ made[id].since \in Nat
          /\ \A k \in Clients : Covered(book[k], policy.table, k, made[id].since, now)
      BY <1>2 DEF ServingInv, RateInv, PolicyRecord
    <2> HIDE DEF policy
    <2>2. \A k \in Clients : noted[k] \in Book /\ Covered(noted[k], answer.table, k, made[id].since, now)
      BY <1>2, <1>3, <1>5, <2>1, NotedCovers
    <2>3. noted \in [Clients -> Book]
      <3>1. DOMAIN noted = Clients /\ noted = [k \in Clients |-> noted[k]]
        BY DEF Noted
      <3>. QED
        BY <2>2, <3>1
    <2>4. ledger' = [ledger EXCEPT ![id] = noted]
      BY <1>4
    <2> HIDE DEF noted
    <2>5. DOMAIN ledger = DOMAIN made /\ ledger' \in [DOMAIN made' -> [Clients -> Book]]
          /\ ledger'[id] = noted /\ \A j \in DOMAIN made \ {id} : ledger'[j] = ledger[j]
      BY <1>13, <2>3, <2>4 DEF ServingInv, RateInv
    <2>6. \A k \in Clients : Covered(ledger'[id][k], made'[id].table, k, made'[id].since, now')
      BY <1>4, <1>7, <1>10, <1>13, <2>2, <2>5
    <2>7. \A j \in DOMAIN made \ {id} : \A k \in Clients :
              Covered(ledger'[j][k], made'[j].table, k, made'[j].since, now')
      BY <1>4, <1>13, <2>5 DEF ServingInv, RateInv
    <2>. QED
      BY <1>13, <2>5, <2>6, <2>7 DEF RateInv
  <1>. QED
    BY <1>12, <1>14, <1>15 DEF ServingInv

\* A change of slots leaves the rates alone.
LEMMA SlotsChange ==
    ASSUME ServingInv, NEW id \in DOMAIN made, NEW n,
           made' = [made EXCEPT ![id] = [made[id] EXCEPT !.slots = n]],
           UNCHANGED <<now, ledger>>
    PROVE  /\ RateInv'
           /\ DOMAIN made' = DOMAIN made /\ made'[id].slots = n
           /\ made'[id].definition = made[id].definition
           /\ \A j \in DOMAIN made \ {id} : made'[j] = made[j]
  <1>1. made[id] \in PolicyRecord
    BY DEF ServingInv, PolicyInv
  <1>2. /\ DOMAIN made' = DOMAIN made
        /\ made'[id] = [made[id] EXCEPT !.slots = n]
        /\ \A j \in DOMAIN made \ {id} : made'[j] = made[j]
    OBVIOUS
  <1>3. /\ made'[id].table = made[id].table /\ made'[id].since = made[id].since
        /\ made'[id].slots = n /\ made'[id].definition = made[id].definition
    BY <1>1, <1>2 DEF PolicyRecord
  <1>4. \A j \in DOMAIN made : made'[j].table = made[j].table /\ made'[j].since = made[j].since
    BY <1>2, <1>3
  <1>5. RateInv'
    BY <1>2, <1>4 DEF ServingInv, RateInv
  <1>. QED
    BY <1>2, <1>3, <1>5

LEMMA HoldingIsFinite ==
    ASSUME NEW id
    PROVE  IsFiniteSet(Holding(id)) /\ Cardinality(Holding(id)) \in Nat
  <1>1. Holding(id) \subseteq Requests
    BY DEF Holding
  <1>. QED
    BY <1>1, RequestsAssumption, FS_Subset, FS_CardinalityType

LEMMA TakeSlotKeepsServingInv ==
    ASSUME ServingInv, NEW r \in Requests, NEW id \in DOMAIN made, TakeSlot(r, id)
    PROVE  ServingInv'
  <1> DEFINE q == req[r]
             past == Past(q)
             p == [past EXCEPT !.held = Append(@, id)]
  <1>1. q.at = "chain" /\ Head(q.todo) = <<"slot", id>>
    BY FacesFact DEF TakeSlot
  <1>2. CASE ~(made[id].slots < made[id].definition.max)
    BY <1>2, AnswersKeepServingInv DEF TakeSlot, Move
  <1>3. CASE made[id].slots < made[id].definition.max
    <2>1. /\ req' = [req EXCEPT ![r] = p]
          /\ made' = [made EXCEPT ![id] = [made[id] EXCEPT !.slots = made[id].slots + 1]]
          /\ UNCHANGED <<now, applies, current, ledger>>
      BY <1>3 DEF TakeSlot, Move
    <2>2. /\ DOMAIN past = Fields /\ past.at = q.at /\ past.client = q.client
          /\ past.clock = q.clock /\ past.held = q.held /\ past.todo = Tail(q.todo)
          /\ past.applied = q.applied /\ Walks(q, DOMAIN made, now)
      BY HeadOfChain
    <2> HIDE DEF past, q
    <2>3. /\ DOMAIN p = Fields /\ p.at = q.at /\ p.client = q.client /\ p.clock = q.clock
          /\ p.held = Append(q.held, id) /\ p.applied = q.applied /\ p.todo = Tail(q.todo)
      BY <2>2 DEF Fields
    <2> HIDE DEF p
    <2>4. IsRequest(p)
      BY <1>1, <2>3 DEF IsRequest, Flying
    <2>5. /\ Walks(p, DOMAIN made, now)
          /\ \A i \in DOMAIN q.held : q.held[i] # id
          /\ \A x : Holds(p, x) <=> (x = id \/ Holds(q, x))
      BY <1>1, <2>2, <2>3, <2>4, SlotWalks DEF Holds
    <2>6. PICK next : next = [made[id] EXCEPT !.slots = made[id].slots + 1]
      OBVIOUS
    <2>7. /\ made[id] \in PolicyRecord /\ IsTable(made[id].table, now) /\ made[id].line = id
          /\ made[id].slots = Cardinality(Holding(id)) /\ made[id].slots \in Nat
          /\ made[id].definition.max \in Nat
      BY DEF ServingInv, PolicyInv, SlotInv, PolicyRecord, Definitions
    <2>8. /\ next \in PolicyRecord /\ next.line = id /\ next.definition = made[id].definition
          /\ IsTable(next.table, now)
      BY <2>6, <2>7 DEF PolicyRecord
    <2>9. PolicyInv' /\ WalkInv'
      BY <2>1, <2>5, <2>6, <2>8, PolicyChanges
    <2>10. /\ RateInv'
           /\ DOMAIN made' = DOMAIN made /\ made'[id].slots = made[id].slots + 1
           /\ made'[id].definition = made[id].definition
           /\ \A j \in DOMAIN made \ {id} : made'[j] = made[j]
      BY <2>1, SlotsChange
    <2>11. /\ req'[r] = p /\ \A s \in Requests \ {r} : req'[s] = req[s]
      BY <2>1 DEF ServingInv, WalkInv
    <2>12. Holding(id)' = Holding(id) \cup {r} /\ r \notin Holding(id)
      BY <2>5, <2>11 DEF Holding, Holds, q
    <2>13. ASSUME NEW j, j # id PROVE Holding(j)' = Holding(j)
      <3>1. \A s \in Requests : Holds(req'[s], j) <=> Holds(req[s], j)
        BY <2>5, <2>11, <2>13 DEF q
      <3>. QED
        BY <3>1 DEF Holding, Holds
    <2>14. Cardinality(Holding(id)') = Cardinality(Holding(id)) + 1
      BY <2>12, HoldingIsFinite, FS_AddElement
    <2>15. SlotInv'
      <3>1. made'[id].slots = Cardinality(Holding(id)') /\ made'[id].slots <= made'[id].definition.max
        BY <1>3, <2>7, <2>10, <2>14
      <3>2. \A j \in DOMAIN made \ {id} : /\ made'[j].slots = Cardinality(Holding(j)')
                                          /\ made'[j].slots <= made'[j].definition.max
        BY <2>10, <2>13 DEF ServingInv, SlotInv
      <3>. QED
        BY <2>10, <3>1, <3>2 DEF SlotInv
    <2>. QED
      BY <2>9, <2>10, <2>15 DEF ServingInv
  <1>. QED
    BY <1>2, <1>3

LEMMA UnwindKeepsServingInv ==
    ASSUME ServingInv, NEW r \in Requests, Unwind(r)
    PROVE  ServingInv'
  <1> DEFINE q == req[r]
             p == [q EXCEPT !.held = Front(q.held)]
  <1>1. q.at = "unwind" /\ q.held # <<>>
    BY DEF Unwind
  <1>2. Walks(q, DOMAIN made, now) /\ DOMAIN q = Fields
    BY HeadOfChain
  <1> PICK id : id = Last(q.held)
    OBVIOUS
  <1>3. /\ req' = [req EXCEPT ![r] = p]
        /\ made' = [made EXCEPT ![id] = [made[id] EXCEPT !.slots = made[id].slots - 1]]
        /\ UNCHANGED <<now, applies, current, ledger>>
    BY DEF Unwind, Move
  <1> HIDE DEF q
  <1>4. /\ DOMAIN p = Fields /\ p.at = "unwind" /\ p.client = q.client /\ p.clock = q.clock
        /\ p.held = Front(q.held) /\ p.applied = q.applied /\ p.todo = q.todo
    BY <1>1, <1>2 DEF Fields
  <1> HIDE DEF p
  <1>5. IsRequest(p)
    BY <1>4 DEF IsRequest, Flying
  <1>6. /\ Walks(p, DOMAIN made, now)
        /\ id \in DOMAIN made /\ ~Holds(p, id)
        /\ \A x : Holds(q, x) <=> (x = id \/ Holds(p, x))
    BY <1>1, <1>2, <1>4, <1>5, UnwindWalks
  <1>7. /\ req'[r] = p /\ \A s \in Requests \ {r} : req'[s] = req[s]
    BY <1>3 DEF ServingInv, WalkInv
  <1>8. Holding(id)' = Holding(id) \ {r} /\ r \in Holding(id)
    <2>1. ~Holds(req'[r], id)
      BY <1>6, <1>7
    <2>2. \A s \in Requests \ {r} : Holds(req'[s], id) <=> Holds(req[s], id)
      BY <1>7
    <2>3. Holds(req[r], id)
      BY <1>6 DEF q
    <2>4. Holding(id)' = {s \in Requests : Holds(req'[s], id)}
      BY DEF Holding, Holds
    <2>5. Holding(id) = {s \in Requests : Holds(req[s], id)}
      BY DEF Holding, Holds
    <2>. QED
      BY <2>1, <2>2, <2>3, <2>4, <2>5
  <1>9. ASSUME NEW j, j # id PROVE Holding(j)' = Holding(j)
    <2>1. \A s \in Requests : Holds(req'[s], j) <=> Holds(req[s], j)
      BY <1>6, <1>7, <1>9 DEF q
    <2>. QED
      BY <2>1 DEF Holding, Holds
  <1>10. Cardinality(Holding(id)') = Cardinality(Holding(id)) - 1
         /\ Cardinality(Holding(id)') \in Nat
    <2>1. IsFiniteSet(Holding(id)') /\ Cardinality(Holding(id)') \in Nat
      BY <1>8, HoldingIsFinite, FS_Subset, FS_CardinalityType
    <2>. QED
      BY <1>8, <2>1, HoldingIsFinite, FS_RemoveElement
  <1>11. PICK next : next = [made[id] EXCEPT !.slots = made[id].slots - 1]
    OBVIOUS
  <1>12. /\ made[id] \in PolicyRecord /\ IsTable(made[id].table, now) /\ made[id].line = id
         /\ made[id].slots = Cardinality(Holding(id)) /\ made[id].slots \in Nat
         /\ made[id].definition.max \in Nat /\ made[id].slots <= made[id].definition.max
    BY <1>6 DEF ServingInv, PolicyInv, SlotInv, PolicyRecord, Definitions
  <1>13. /\ next \in PolicyRecord /\ next.line = id /\ next.definition = made[id].definition
         /\ IsTable(next.table, now)
    <2>1. made[id].slots - 1 \in Nat
      BY <1>10, <1>12
    <2>. QED
      BY <1>11, <1>12, <2>1 DEF PolicyRecord
  <1>14. PolicyInv' /\ WalkInv'
    BY <1>3, <1>6, <1>11, <1>13, PolicyChanges
  <1>15. /\ RateInv'
         /\ DOMAIN made' = DOMAIN made /\ made'[id].slots = made[id].slots - 1
         /\ made'[id].definition = made[id].definition
         /\ \A j \in DOMAIN made \ {id} : made'[j] = made[j]
    BY <1>3, <1>6, SlotsChange
  <1>16. SlotInv'
    <2>1. made'[id].slots = Cardinality(Holding(id)') /\ made'[id].slots <= made'[id].definition.max
      BY <1>10, <1>12, <1>15
    <2>2. \A j \in DOMAIN made \ {id} : /\ made'[j].slots = Cardinality(Holding(j)')
                                        /\ made'[j].slots <= made'[j].definition.max
      BY <1>9, <1>15 DEF ServingInv, SlotInv
    <2>3. ASSUME NEW j \in DOMAIN made
          PROVE  made'[j].slots = Cardinality(Holding(j)') /\ made'[j].slots <= made'[j].definition.max
      BY <2>1, <2>2
    <2>. QED
      BY <1>15, <2>3 DEF SlotInv
  <1>. QED
    BY <1>14, <1>15, <1>16 DEF ServingInv

LEMMA LeaveKeepsServingInv ==
    ASSUME ServingInv, NEW r \in Requests, Leave(r) \/ Record(r)
    PROVE  ServingInv'
  <1> DEFINE left == [NoRequest EXCEPT !.at = "record"]
  <1>1. /\ DOMAIN left = Fields /\ left.at = "record" /\ left.client = None
        /\ left.applied = {} /\ left.clock = 0 /\ left.todo = <<>> /\ left.held = <<>>
        /\ DOMAIN NoRequest = Fields /\ NoRequest.at = "idle" /\ NoRequest.client = None
        /\ NoRequest.applied = {} /\ NoRequest.clock = 0 /\ NoRequest.todo = <<>>
        /\ NoRequest.held = <<>>
    BY DEF NoRequest, Fields
  <1>2. \/ Leave(r) /\ req' = [req EXCEPT ![r] = left] /\ req[r].held = <<>>
        \/ Record(r) /\ req' = [req EXCEPT ![r] = NoRequest] /\ req[r].at = "record"
    BY DEF Leave, Record
  <1> HIDE DEF left
  <1>3. UNCHANGED <<now, applies, current, made, ledger>>
    BY DEF Leave, Record
  <1>4. \A p : p.held = <<>> => p.held \in Seq(DOMAIN made) /\ Once(p.held) /\ \A x : ~Holds(p, x)
    BY EmptySeq DEF Once, Holds
  <1>5. Walks(left, DOMAIN made, now) /\ Walks(NoRequest, DOMAIN made, now)
    <2>1. NoRequest.todo \in Seq(Steps(DOMAIN made)) /\ left.todo \in Seq(Steps(DOMAIN made))
      BY <1>1, EmptySeq
    <2>. QED
      BY <1>1, <1>4, <2>1 DEF Walks, IsRequest
  <1>6. req[r].held = <<>>
    BY <1>2, HeadOfChain DEF Walks
  <1>7. \A x : ~Holds(left, x) /\ ~Holds(NoRequest, x) /\ ~Holds(req[r], x)
    BY <1>1, <1>4, <1>6
  <1>. QED
    BY <1>2, <1>3, <1>5, <1>7, RequestMoves

LEMMA TickKeepsServingInv ==
    ASSUME ServingInv, Tick
    PROVE  ServingInv'
  <1>1. /\ now \in Nat /\ now' = now + 1 /\ now' \in Nat /\ now <= now'
        /\ UNCHANGED <<applies, current, made, req, ledger>>
    BY DEF Tick, ServingInv, PolicyInv
  <1>2. PICK later \in Nat : later = now' /\ now <= later
    BY <1>1
  <1>3. PolicyInv'
    <2>1. ASSUME NEW table, IsTable(table, now) PROVE IsTable(table, later)
      <3>1. /\ DOMAIN table = 1 .. Len(table)
            /\ \A i \in 1 .. Len(table) : table[i] \in Entries
        BY <2>1, LenProperties, ElementOfSeq DEF IsTable
      <3>2. \A i \in DOMAIN table : table[i].bucket.last \in Nat
        BY <3>1 DEF Entries
      <3>3. \A i \in DOMAIN table : table[i].bucket.last <= later
        BY <1>1, <1>2, <2>1, <3>2 DEF IsTable
      <3>. QED
        BY <2>1, <3>3 DEF IsTable
    <2>. QED
      BY <1>1, <1>2, <2>1 DEF ServingInv, PolicyInv
  <1>4. WalkInv'
    <2>1. \A r \in Requests : Walks(req[r], DOMAIN made, later)
      BY <1>1, <1>2, WalksOn DEF ServingInv, WalkInv
    <2>. QED
      BY <1>1, <1>2, <2>1 DEF ServingInv, WalkInv
  <1>5. SlotInv'
    <2>1. \A id : Holding(id)' = Holding(id)
      BY <1>1 DEF Holding
    <2>. QED
      BY <1>1, <2>1 DEF ServingInv, SlotInv
  <1>6. RateInv'
    <2>1. ASSUME NEW id \in DOMAIN made, NEW k \in Clients
          PROVE  Covered(ledger[id][k], made[id].table, k, made[id].since, later)
      <3>1. PICK book : book = ledger[id][k]
        OBVIOUS
      <3>2. PICK since : since = made[id].since
        OBVIOUS
      <3>3. book \in Book /\ since \in Nat /\ Covered(book, made[id].table, k, since, now)
        BY <3>1, <3>2 DEF ServingInv, RateInv, PolicyInv, PolicyRecord
      <3>4. /\ Allowance(book, since, now) <= Allowance(book, since, later)
            /\ Allowance(book, since, now) \in Int /\ Allowance(book, since, later) \in Int
        BY <1>1, <1>2, <3>3, AllowanceEarns, AllowanceIsInt
      <3>5. book.granted + Burst \in Int
        BY <3>3, Positive DEF Book
      <3>6. Covered(book, made[id].table, k, since, later)
        BY <3>3, <3>4, <3>5 DEF Covered
      <3>. QED
        BY <3>1, <3>2, <3>6
    <2>. QED
      BY <1>1, <1>2, <2>1 DEF ServingInv, RateInv
  <1>. QED
    BY <1>3, <1>4, <1>5, <1>6 DEF ServingInv

\* Apply adds policies under ids of their own; those that stay are as they were.
LEMMA ApplyKeepsServingInv ==
    ASSUME ServingInv, NEW c \in Configs, Apply(c)
    PROVE  ServingInv'
  <1>1. PICK ids : ids = {n \in DOMAIN c.definition : ~Reused(c, n)} \X {applies + 1}
    OBVIOUS
  <1>2. /\ DOMAIN made' = DOMAIN made \cup ids
        /\ \A id \in ids : made'[id] = NewPolicy(c, id[1])
        /\ \A id \in DOMAIN made \ ids : made'[id] = made[id]
        /\ DOMAIN ledger' = DOMAIN made \cup ids
        /\ \A id \in ids : ledger'[id] = NewLedger
        /\ \A id \in DOMAIN made \ ids : ledger'[id] = ledger[id]
        /\ UNCHANGED <<now, req>>
    BY <1>1 DEF Apply
  <1>3. /\ applies \in Nat /\ applies + 1 \in 0 .. MaxApplies /\ applies' = applies + 1
        /\ now \in Nat
    BY BoundsAssumption DEF Apply, ServingInv, PolicyInv
  <1>4. /\ DOMAIN c.definition \subseteq Names
        /\ \A n \in DOMAIN c.definition : c.definition[n] \in Definitions
    BY ConfigsAssumption
  <1>5. ids \cap DOMAIN made = {} /\ ids \subseteq Names \X {applies + 1}
    <2>1. \A id \in DOMAIN made : id[2] \in 0 .. applies
      BY DEF ServingInv, PolicyInv
    <2>2. applies + 1 \notin 0 .. applies
      BY <1>3
    <2>3. \A id \in ids : id[2] = applies + 1
      BY <1>1
    <2>. QED
      BY <1>1, <1>4, <2>1, <2>2, <2>3
  <1>6. ASSUME NEW id \in ids
        PROVE  /\ made'[id] \in PolicyRecord
               /\ made'[id].table = <<>> /\ made'[id].slots = 0 /\ made'[id].since = now
               /\ made'[id].line = id /\ made'[id].definition = c.definition[id[1]]
    <2>1. /\ id = <<id[1], applies + 1>> /\ id[1] \in DOMAIN c.definition
          /\ ~Unchanged(c, id[1])
      BY <1>1 DEF Reused
    <2>2. made'[id] = [definition |-> c.definition[id[1]], table |-> <<>>, slots |-> 0,
                       since |-> now, line |-> id]
      BY <1>2, <2>1 DEF NewPolicy
    <2>3. id \in PolicyIds
      BY <1>3, <1>5 DEF PolicyIds
    <2>4. <<>> \in Seq(Entries) /\ c.definition[id[1]] \in Definitions
      BY <1>4, <2>1, EmptySeq
    <2>. QED
      BY <1>3, <2>2, <2>3, <2>4 DEF PolicyRecord
  <1>7. \A id \in DOMAIN made : made'[id] = made[id] /\ ledger'[id] = ledger[id]
    BY <1>2, <1>5
  <1>8. PolicyInv'
    <2>1. IsTable(<<>>, now)
      BY EmptySeq, Positive DEF IsTable
    <2>2. \A id \in DOMAIN made' : /\ made'[id] \in PolicyRecord
                                   /\ IsTable(made'[id].table, now)
                                   /\ made'[id].line = id
      BY <1>2, <1>6, <1>7, <2>1 DEF ServingInv, PolicyInv
    <2>3. DOMAIN made' \subseteq Names \X (0 .. applies')
      <3>1. DOMAIN made \subseteq Names \X (0 .. applies)
        BY DEF ServingInv, PolicyInv
      <3>2. 0 .. applies \subseteq 0 .. applies + 1 /\ applies + 1 \in 0 .. applies + 1
        BY <1>3
      <3>. QED
        BY <1>2, <1>3, <1>5, <3>1, <3>2
    <2>4. /\ current'.config = c
          /\ current'.policies = [n \in DOMAIN c.definition |-> Compiled(c, n)]
      BY DEF Apply
    <2>5. ASSUME NEW n \in DOMAIN c.definition
          PROVE  /\ Compiled(c, n) \in DOMAIN made'
                 /\ Compiled(c, n)[1] = n
                 /\ made'[Compiled(c, n)].definition = c.definition[n]
      <3>1. CASE Reused(c, n)
        BY <1>2, <1>7, <3>1 DEF Compiled, Reused, Unchanged, ServingInv, PolicyInv
      <3>2. CASE ~Reused(c, n)
        <4>1. Compiled(c, n) = <<n, applies + 1>> /\ <<n, applies + 1>> \in ids
          BY <1>1, <3>2 DEF Compiled
        <4>. QED
          BY <1>2, <1>6, <4>1
      <3>. QED
        BY <3>1, <3>2
    <2>. QED
      BY <1>2, <1>3, <2>2, <2>3, <2>4, <2>5 DEF PolicyInv
  <1>9. WalkInv'
    <2>1. \A r \in Requests : Walks(req[r], DOMAIN made', now)
      <3>1. PICK more : more = DOMAIN made'
        OBVIOUS
      <3>. QED
        BY <1>2, <1>3, <3>1, WalksOn DEF ServingInv, WalkInv
    <2>. QED
      BY <1>2, <2>1 DEF ServingInv, WalkInv
  <1>10. \A id : Holding(id)' = Holding(id)
    BY <1>2 DEF Holding
  <1>11. SlotInv'
    <2>1. ASSUME NEW id \in ids
          PROVE  made'[id].slots = Cardinality(Holding(id)) /\ made'[id].slots <= made'[id].definition.max
      <3>1. \A r \in Requests : \A i \in DOMAIN req[r].held : req[r].held[i] \in DOMAIN made
        BY LenProperties, ElementOfSeq DEF ServingInv, WalkInv, Walks
      <3>2. Holding(id) = {}
        BY <1>5, <3>1 DEF Holding
      <3>3. Cardinality(Holding(id)) = 0
        BY <3>2, FS_EmptySet
      <3>4. made'[id].definition.max \in Nat
        BY <1>6 DEF PolicyRecord, Definitions
      <3>. QED
        BY <1>6, <3>3, <3>4
    <2>2. \A id \in DOMAIN made : /\ made'[id].slots = Cardinality(Holding(id))
                                  /\ made'[id].slots <= made'[id].definition.max
      BY <1>7 DEF ServingInv, SlotInv
    <2>3. \A id \in DOMAIN made' : /\ made'[id].slots = Cardinality(Holding(id))
                                   /\ made'[id].slots <= made'[id].definition.max
      BY <1>2, <2>1, <2>2
    <2>. QED
      BY <1>10, <2>3 DEF SlotInv
  <1>12. RateInv'
    <2>1. /\ NewLedger \in [Clients -> Book]
          /\ \A k \in Clients : NewLedger[k] = Blank
      BY DEF NewLedger, Blank, Book
    <2>2. \A k \in Clients : Covered(Blank, <<>>, k, now, now)
      <3>1. Blank \in Book /\ Blank.granted = 0 /\ Blank.lost = 0 /\ Blank.skew = 0
        BY DEF Blank, Book
      <3>2. now - now + 0 = 0 /\ Rate * 0 = 0 /\ Burst * (1 + 0) = Burst
        BY <1>3, Positive
      <3>3. Allowance(Blank, now, now) = Burst
        BY <3>1, <3>2, Positive DEF Allowance
      <3>4. Blank.granted + Burst <= Allowance(Blank, now, now)
        BY <3>1, <3>3, Positive
      <3>. QED
        BY <3>4, EmptySeq DEF Covered
    <2>3. \A id \in ids : \A k \in Clients :
              Covered(ledger'[id][k], made'[id].table, k, made'[id].since, now)
      BY <1>2, <1>6, <2>1, <2>2
    <2>4. \A id \in DOMAIN made : \A k \in Clients :
              Covered(ledger'[id][k], made'[id].table, k, made'[id].since, now)
      BY <1>7 DEF ServingInv, RateInv
    <2>5. ledger' \in [DOMAIN made' -> [Clients -> Book]]
      <3>1. \A id \in DOMAIN made' : ledger'[id] \in [Clients -> Book]
        BY <1>2, <1>7, <2>1 DEF ServingInv, RateInv
      <3>2. ledger' = [id \in DOMAIN made' |-> ledger'[id]]
        BY <1>2 DEF Apply
      <3>. QED
        BY <3>1, <3>2
    <2>. QED
      BY <1>2, <2>3, <2>4, <2>5 DEF RateInv
  <1>. QED
    BY <1>8, <1>9, <1>11, <1>12 DEF ServingInv

LEMMA StutterKeepsServingInv == ServingInv /\ UNCHANGED servingVars => ServingInv'
  <1> SUFFICES ASSUME ServingInv, UNCHANGED servingVars PROVE ServingInv'
    OBVIOUS
  <1>1. UNCHANGED <<now, applies, current, made, req, ledger>>
    BY DEF servingVars
  <1>2. \A id : Holding(id)' = Holding(id)
    BY <1>1 DEF Holding
  <1>. QED
    BY <1>1, <1>2 DEF ServingInv, PolicyInv, WalkInv, SlotInv, RateInv

LEMMA NextKeepsServingInv == ServingInv /\ [Next]_vars => ServingInv'
  <1> SUFFICES ASSUME ServingInv, [Next]_vars PROVE ServingInv'
    OBVIOUS
  <1>1. ASSUME NEW r \in Requests, ServingStep(r) PROVE ServingInv'
    <2>1. CASE Unwind(r)
      BY <2>1, UnwindKeepsServingInv
    <2>2. CASE Leave(r) \/ Record(r)
      BY <2>2, LeaveKeepsServingInv
    <2>3. ASSUME NEW id \in DOMAIN made,
                 Enter(r, id) \/ LimitBody(r, id) \/ Allow(r, id) \/ TakeSlot(r, id)
          PROVE  ServingInv'
      BY <2>3, EnterKeepsServingInv, LimitBodyKeepsServingInv, AllowKeepsServingInv,
         TakeSlotKeepsServingInv
    <2>4. ASSUME NEW id \in DOMAIN made, NEW k \in Clients, ReadClock(r, id, k)
          PROVE  ServingInv'
      BY <2>4, ReadClockKeepsServingInv
    <2>. QED
      BY <1>1, <2>1, <2>2, <2>3, <2>4 DEF ServingStep
  <1>2. ASSUME NEW r \in Requests,
               \/ AnswerChallenge(r) \/ RunScript(r) \/ RunOther(r)
               \/ ScriptAnswers(r) \/ OtherReturns(r) \/ OtherPanics(r)
        PROVE  ServingInv'
    BY <1>2, HandlerKeepsServingInv
       DEF RunScript, RunOther, ScriptAnswers, OtherReturns, OtherPanics
  <1>3. ASSUME NEW r \in Requests, Arrive(r) PROVE ServingInv'
    BY <1>3, ArriveKeepsServingInv
  <1>4. CASE Tick
    BY <1>4, TickKeepsServingInv
  <1>5. ASSUME NEW c \in Configs, Apply(c) PROVE ServingInv'
    BY <1>5, ApplyKeepsServingInv
  <1>6. CASE UNCHANGED servingVars
    BY <1>6, StutterKeepsServingInv
  <1>. QED
    BY <1>1, <1>2, <1>3, <1>4, <1>5, <1>6
       DEF Next, vars, Deadline, ClientGoes, ScriptStep

LEMMA ServingInvHolds == Spec => []ServingInv
  <1>1. Init => ServingInv
    BY InitServingInv DEF Init
  <1>. QED
    BY <1>1, NextKeepsServingInv, PTL DEF Spec

-----------------------------------------------------------------------------
(* The theorems.                                                           *)

\* Neither Apply, nor idleness, nor concurrent requests give a client more than
\* its rate allows, beyond the full buckets it is handed when the table gave it
\* up too early (policy.go:29-31, 222-250).
THEOREM RatesHold == Spec => []RateHolds
  <1>1. ServingInv => RateHolds
    <2> SUFFICES ASSUME ServingInv, NEW id \in DOMAIN ledger, NEW k \in Clients
                 PROVE  ledger[id][k].granted
                            <= Allowance(ledger[id][k], made[id].since, now)
      BY DEF RateHolds, Allowance
    <2>1. PICK book : book = ledger[id][k]
      OBVIOUS
    <2>2. PICK policy : policy = made[id]
      OBVIOUS
    <2>3. /\ id \in DOMAIN made /\ book \in Book /\ policy \in PolicyRecord /\ now \in Nat
          /\ IsTable(policy.table, now) /\ Covered(book, policy.table, k, policy.since, now)
      BY <2>1, <2>2 DEF ServingInv, RateInv, PolicyInv
    <2>4. /\ policy.since \in Nat /\ book.granted \in Nat
          /\ Allowance(book, policy.since, now) \in Int
      BY <2>3, AllowanceIsInt DEF PolicyRecord, Book
    <2>5. CASE k \notin Keys(policy.table)
      <3>1. book.granted + Burst <= Allowance(book, policy.since, now)
        BY <2>3, <2>5 DEF Covered
      <3>2. book.granted <= Allowance(book, policy.since, now)
        BY <2>4, <3>1, Positive
      <3>. QED
        BY <2>1, <2>2, <3>2
    <2>6. CASE k \in Keys(policy.table)
      <3>1. PICK i \in DOMAIN policy.table : policy.table[i].key = k
        BY <2>6 DEF Keys
      <3>2. PICK bucket : bucket = policy.table[i].bucket
        OBVIOUS
      <3>3. bucket.tokens \in Nat /\ bucket.last \in Nat /\ bucket.last <= now
        <4>1. policy.table[i] \in Entries /\ policy.table[i].bucket.last <= now
          BY <2>3, <3>1, LenProperties, ElementOfSeq DEF IsTable
        <4>. QED
          BY <3>2, <4>1, Positive DEF Entries
      <3>4. book.granted + bucket.tokens <= Allowance(book, policy.since, bucket.last)
        BY <2>3, <3>1, <3>2 DEF Covered
      <3>5. /\ Allowance(book, policy.since, bucket.last) <= Allowance(book, policy.since, now)
            /\ Allowance(book, policy.since, bucket.last) \in Int
        <4>1. PICK since, last : since = policy.since /\ last = bucket.last
          OBVIOUS
        <4>2. book \in Book /\ since \in Int /\ last \in Int /\ now \in Int /\ last <= now
          BY <2>3, <2>4, <3>3, <4>1
        <4>3. /\ Allowance(book, since, last) <= Allowance(book, since, now)
              /\ Allowance(book, since, last) \in Int
          BY <4>2, AllowanceEarns, AllowanceIsInt
        <4>. QED
          BY <4>1, <4>3
      <3>. QED
        BY <2>1, <2>2, <2>4, <3>3, <3>4, <3>5
    <2>. QED
      BY <2>5, <2>6
  <1>. QED
    BY <1>1, ServingInvHolds, PTL

\* A policy's used slots are those of the requests that hold one, never more than
\* its max, over every Apply that left its definition alone (policy.go:29-31,
\* 142-156).
THEOREM SlotsAreHeld == Spec => []SlotsHold
  <1>1. ServingInv => SlotsHold
    <2> SUFFICES ASSUME ServingInv, NEW id \in DOMAIN made
                 PROVE  /\ made[id].slots = Cardinality(Holding(id))
                        /\ Cardinality(UNION {Holding(i) : i \in {j \in DOMAIN made :
                                                            made[j].line = made[id].line}})
                               <= made[id].definition.max
      BY DEF SlotsHold
    <2>1. {j \in DOMAIN made : made[j].line = made[id].line} = {id}
      BY DEF ServingInv, PolicyInv
    <2>2. UNION {Holding(i) : i \in {id}} = Holding(id)
      OBVIOUS
    <2>3. made[id].slots = Cardinality(Holding(id)) /\ made[id].slots <= made[id].definition.max
      BY DEF ServingInv, SlotInv
    <2>. QED
      BY <2>1, <2>2, <2>3
  <1>. QED
    BY <1>1, ServingInvHolds, PTL

BoundInv ==
    /\ now \in 0 .. MaxTime
    /\ arrivals \in 0 .. MaxArrivals
    /\ total \in Nat

LEMMA BoundInvHolds == Spec => []BoundInv
  <1>1. Init => BoundInv
    BY BoundsAssumption DEF Init, ServingInit, BoundInv
  <1>2. BoundInv /\ [Next]_vars => BoundInv'
    <2> SUFFICES ASSUME BoundInv, [Next]_vars PROVE BoundInv'
      OBVIOUS
    <2>1. CASE UNCHANGED <<now, arrivals, total>>
      BY <2>1 DEF BoundInv
    <2>2. CASE Tick
      BY <2>2, BoundsAssumption DEF Tick, BoundInv
    <2>3. ASSUME NEW r \in Requests, Arrive(r) PROVE BoundInv'
      <3>1. UNCHANGED <<now, total>> /\ arrivals' = arrivals + 1 /\ arrivals < MaxArrivals
        BY <2>3 DEF Arrive
      <3>. QED
        BY <3>1, BoundsAssumption DEF BoundInv
    <2>4. ASSUME NEW r \in Requests, ServingStep(r) PROVE BoundInv'
      <3>1. UNCHANGED <<now, arrivals>> /\ total' \in {total, total + 1}
        BY <2>4 DEF ServingStep, Unwind, Leave, Record, Enter, LimitBody, Allow, TakeSlot,
                    ReadClock, Move
      <3>. QED
        BY <3>1 DEF BoundInv
    <2>. QED
      BY <2>1, <2>2, <2>3, <2>4
         DEF Next, vars, servingVars, Deadline, ClientGoes, ScriptStep, Apply, RunScript,
             RunOther, ScriptAnswers, OtherReturns, OtherPanics, AnswerChallenge, Handle,
             HandlerReturns, HandlerPanics, Move
  <1>. QED
    BY <1>1, <1>2, PTL DEF Spec

\* The counters stay within the requests that came, the snapshot's policies are
\* compiled from its own definitions, and no table is over max_keys
\* (serve.go:36-54, compile.go:83, policy.go:242-244).
THEOREM ServingTypeCorrect == Spec => []TypeOK
  <1> DEFINE Inv == ServingInv /\ BoundInv /\ CountInv /\ WorkerInv
  <1>1. Spec => []Inv
    <2>1. Init => CountInv /\ WorkerInv
      BY InitCountInv, InitWorkerInv DEF Init
    <2>. QED
      BY <2>1, ServingInvHolds, BoundInvHolds, NextKeepsCountInv, NextKeepsWorkerInv, PTL DEF Spec
  <1>2. Inv => TypeOK
    <2> SUFFICES ASSUME Inv PROVE TypeOK
      OBVIOUS
    <2>1. WorkerTypeOK
      BY DEF WorkerInv
    <2>2. {arrivals, active, total} \subseteq 0 .. MaxArrivals
      <3>1. InFlight \subseteq Present
        BY DEF InFlight, Present
      <3>2. Cardinality(InFlight) <= Cardinality(Present)
        BY <3>1, CountsAreFinite, FS_Subset
      <3>. QED
        BY <3>2, CountsAreFinite, BoundsAssumption DEF BoundInv, CountInv
    <2>3. DOMAIN made \subseteq PolicyIds
      <3>1. 0 .. applies \subseteq 0 .. MaxApplies
        BY BoundsAssumption DEF ServingInv, PolicyInv
      <3>. QED
        BY <3>1 DEF ServingInv, PolicyInv, PolicyIds
    <2>4. \A id \in DOMAIN made : Len(made[id].table) <= MaxKeys
      BY DEF ServingInv, PolicyInv, IsTable
    <2>5. ASSUME NEW r \in Requests
          PROVE  /\ req[r].client \in Clients \cup {None}
                 /\ Range(req[r].held) \subseteq DOMAIN made
                 /\ req[r].applied \subseteq Names
      <3>1. Walks(req[r], DOMAIN made, now)
        BY DEF ServingInv, WalkInv
      <3>2. \A i \in DOMAIN req[r].held : req[r].held[i] \in DOMAIN made
        BY <3>1, LenProperties, ElementOfSeq DEF Walks
      <3>. QED
        BY <3>1, <3>2 DEF Walks, Range
    <2>6. /\ now \in 0 .. MaxTime /\ applies \in 0 .. MaxApplies
          /\ current.config \in Configs
          /\ DOMAIN current.policies = DOMAIN current.config.definition
          /\ \A n \in DOMAIN current.policies :
                 made[current.policies[n]].definition = current.config.definition[n]
      BY DEF BoundInv, ServingInv, PolicyInv
    <2>. QED
      BY <2>1, <2>2, <2>3, <2>4, <2>5, <2>6 DEF TypeOK, ServingTypeOK
  <1>. QED
    BY <1>1, <1>2, PTL

=============================================================================
