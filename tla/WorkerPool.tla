------------------------------ MODULE WorkerPool ------------------------------
(***************************************************************************)
(* How a worker handler runs scripts (workers/runtime.go): each request    *)
(* takes a JavaScript runtime from a pool, arms a hook that interrupts it  *)
(* when the request's context ends, calls the script, and gives the        *)
(* runtime back only if the hook could still be stopped.  The hook runs on *)
(* a goroutine of its own, so that it may fire at any later moment.        *)
(***************************************************************************)
EXTENDS Naturals

CONSTANTS Callers,  \* the goroutines that serve requests
          Vms,      \* runtimes that exist at a time, pooled or not
          NoVm

ASSUME WorkerAssumption == Vms # {} /\ NoVm \notin Vms

VARIABLES pool,     \* the runtimes in the pool
          job,      \* for each request, how far its script is
          ended,    \* the requests whose context has ended
          started,  \* runtimes whose hook has started and not interrupted yet
          tainted   \* runtimes that carry an interrupt

workerVars == <<pool, job, ended, started, tainted>>

Idle == [at |-> "idle", vm |-> NoVm, armed |-> FALSE]
Answering == [Idle EXCEPT !.at = "respond"]

WorkerTypeOK ==
    /\ pool \subseteq Vms
    /\ started \subseteq Vms
    /\ tainted \subseteq Vms
    /\ ended \subseteq Callers
    /\ job \in [Callers -> [at : {"idle", "body", "taken", "running", "returned", "respond"},
                             vm : Vms \cup {NoVm}, armed : BOOLEAN]]

AnyOf(S) == CHOOSE v \in S : TRUE

\* New compiles the script and puts the first runtime into the pool.
WorkerInit ==
    /\ pool = {AnyOf(Vms)}
    /\ job = [r \in Callers |-> Idle]
    /\ ended = {}
    /\ started = {}
    /\ tainted = {}

InUse == {job[r].vm : r \in Callers} \ {NoVm}
Unmade == Vms \ (pool \cup InUse \cup started)

Begin(r) ==
    /\ job[r].at = "idle"
    /\ job' = [job EXCEPT ![r].at = "body"]
    /\ UNCHANGED <<pool, ended, started, tainted>>

\* The body cannot be read, is too large, or no runtime can be made.
GiveUp(r) ==
    /\ job[r].at = "body"
    /\ job' = [job EXCEPT ![r] = Answering]
    /\ ended' = ended \ {r}
    /\ UNCHANGED <<pool, started, tainted>>

\* Get returns a pooled runtime or, even when there is one, nothing: then a new
\* one is made.
Take(r, v) ==
    /\ job[r].at = "body"
    /\ v \in pool \/ (Unmade # {} /\ v = AnyOf(Unmade))
    /\ pool' = pool \ {v}
    /\ tainted' = IF v \in pool THEN tainted ELSE tainted \ {v}
    /\ job' = [job EXCEPT ![r].at = "taken", ![r].vm = v]
    /\ UNCHANGED <<ended, started>>

\* Mutant of Arm: a context that has already ended starts nothing.
ArmIfLive(r) ==
    /\ job[r].at = "taken"
    /\ job' = [job EXCEPT ![r].at = "running", ![r].armed = (r \notin ended)]
    /\ UNCHANGED <<pool, ended, started, tainted>>

\* AfterFunc: a context that has ended starts the hook at once.
Arm(r) ==
    /\ job[r].at = "taken"
    /\ job' = [job EXCEPT ![r].at = "running", ![r].armed = (r \notin ended)]
    /\ started' = started \cup (IF r \in ended THEN {job[r].vm} ELSE {})
    /\ UNCHANGED <<pool, ended, tainted>>

\* What is at stake once the script has its answer is over.
ContextEnds(r) ==
    /\ job[r].at \notin {"idle", "respond"}
    /\ r \notin ended
    /\ ended' = ended \cup {r}
    /\ job' = [job EXCEPT ![r].armed = FALSE]
    /\ started' = started \cup (IF job[r].armed THEN {job[r].vm} ELSE {})
    /\ UNCHANGED <<pool, tainted>>

\* The hook's goroutine gets to Interrupt.
Interrupt(v) ==
    /\ v \in started
    /\ started' = started \ {v}
    /\ tainted' = tainted \cup {v}
    /\ UNCHANGED <<pool, job, ended>>

\* inst.call: the script answers or fails, when it likes; one that would run
\* for ever returns only because it is interrupted, which always stops it.
CallReturns(r) ==
    /\ job[r].at = "running"
    /\ job' = [job EXCEPT ![r].at = "returned"]
    /\ UNCHANGED <<pool, ended, started, tainted>>

Interrupted(r) == job[r].vm \in tainted

\* Mutant of StopHook: the runtime goes back whatever stop() says.
PutAlways(r) ==
    /\ job[r].at = "returned"
    /\ pool' = pool \cup {job[r].vm}
    /\ job' = [job EXCEPT ![r] = Answering]
    /\ ended' = ended \ {r}
    /\ UNCHANGED <<started, tainted>>

\* stop() succeeds only while the hook has not started.
StopHook(r) ==
    /\ job[r].at = "returned"
    /\ pool' = pool \cup (IF job[r].armed THEN {job[r].vm} ELSE {})
    /\ job' = [job EXCEPT ![r] = Answering]
    /\ ended' = ended \ {r}
    /\ UNCHANGED <<started, tainted>>

Respond(r) ==
    /\ job[r].at = "respond"
    /\ job' = [job EXCEPT ![r] = Idle]
    /\ UNCHANGED <<pool, ended, started, tainted>>

-----------------------------------------------------------------------------
\* A runtime in the pool carries no interrupt, has no hook on its way to it
\* and runs no script: the next request to take it is not stopped by the end
\* of an earlier one (runtime.go:131-133).
PoolClean == pool \cap (tainted \cup started \cup InUse) = {}

=============================================================================
