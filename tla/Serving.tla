------------------------------- MODULE Serving -------------------------------
(***************************************************************************)
(* Requests under their policies whose route may lead to a worker script:  *)
(* RequestServing and WorkerPool joined at the call of the handler and at  *)
(* its return.                                                             *)
(***************************************************************************)
EXTENDS RequestServing, WorkerPool

ASSUME SameGoroutines == Callers = Requests

vars == <<servingVars, workerVars>>

TypeOK == ServingTypeOK /\ WorkerTypeOK

Init == ServingInit /\ WorkerInit

RunScript(r) == Handle(r, "script") /\ Begin(r)
RunOther(r) == Handle(r, "other") /\ UNCHANGED workerVars

ScriptAnswers(r) == Respond(r) /\ HandlerReturns(r)
OtherReturns(r) == job[r].at = "idle" /\ HandlerReturns(r) /\ UNCHANGED workerVars
OtherPanics(r) == job[r].at = "idle" /\ HandlerPanics(r) /\ UNCHANGED workerVars

\* The context ends with the policy's timeout, or when the client goes.
Deadline(r) == req[r].timed /\ ContextEnds(r) /\ UNCHANGED servingVars
ClientGoes(r) == ContextEnds(r) /\ UNCHANGED servingVars

ScriptStep(r) ==
    /\ Arm(r) \/ CallReturns(r) \/ StopHook(r)
    /\ UNCHANGED servingVars

Next ==
    \/ Tick /\ UNCHANGED workerVars
    \/ \E c \in Configs : Apply(c) /\ UNCHANGED workerVars
    \/ \E r \in Requests :
           \/ Arrive(r) /\ UNCHANGED workerVars
           \/ AnswerChallenge(r) /\ UNCHANGED workerVars
           \/ ServingStep(r) /\ UNCHANGED workerVars
           \/ RunScript(r) \/ RunOther(r)
           \/ ScriptAnswers(r) \/ OtherReturns(r) \/ OtherPanics(r)
           \/ Deadline(r) \/ ClientGoes(r) \/ ScriptStep(r)
           \/ GiveUp(r) /\ UNCHANGED servingVars
           \/ \E v \in Vms : Take(r, v) /\ UNCHANGED servingVars
    \/ \E v \in Vms : Interrupt(v) /\ UNCHANGED servingVars

Spec == Init /\ [][Next]_vars

\* What happens by itself: a goroutine that waits for nobody goes on, a timer
\* fires, a handler other than a script returns.  A script need not return
\* unless it is interrupted, and a client need not send its body.
Progress ==
    \/ \E r \in Requests :
           \/ ServingStep(r) /\ UNCHANGED workerVars
           \/ ScriptStep(r) /\ (job[r].at = "running" => Interrupted(r))
           \/ RunScript(r) \/ RunOther(r)
           \/ ScriptAnswers(r) \/ OtherReturns(r) \/ Deadline(r)
    \/ \E v \in Vms : Interrupt(v) /\ UNCHANGED servingVars

\* The arrivals are bounded, so a behaviour has finitely many steps and need
\* not be fair to each goroutine by itself.
FairSpec == Spec /\ WF_vars(Progress)

\* A request may stay unanswered for good only while its script waits for the
\* body, or runs with neither a timeout nor the client gone.
MayStay(r) == \/ req[r].at = "idle"
              \/ job[r].at = "body"
              \/ job[r].at = "running" /\ ~req[r].timed /\ r \notin ended

\* Every other request is answered and recorded: a script is stopped once its
\* timeout is over or its client has gone, even if it would run for ever
\* (runtime.go:60-61); no policy holds a request back.
RequestsEnd == <>[](\A r \in Requests : MayStay(r))

=============================================================================
