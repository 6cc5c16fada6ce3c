------------------------------ MODULE Gateway ------------------------------
(***************************************************************************)
(* The lifecycle of a yabber Server (server.go): Start, Apply, Shutdown,   *)
(* the sockets they bind, the goroutines that accept on those sockets and  *)
(* the goroutines that drain the sockets a configuration change replaced.  *)
(*                                                                         *)
(* Apply and Start run entirely under Server.mu, Shutdown only its first   *)
(* step; `mu` names the phase of the call that holds the mutex.  Between   *)
(* two steps of that call everything else may move: Serve goroutines,      *)
(* requests, drains, Shutdown calls past their locked part, and other      *)
(* processes of the host, which bind and release the same addresses.       *)
(***************************************************************************)
EXTENDS Naturals, FiniteSets

CONSTANTS
    Names,      \* listener names of the configuration
    Addrs,      \* addresses a listener may bind
    Limits,     \* the rest of a listenerSpec: TLS mode, TLS minimum, limits
    Configs,    \* the configurations New, Apply and Update are called with
    Closers,    \* callers of Shutdown
    Socks,      \* bound: runningListeners alive at once, as a set of slots
    MaxFaults,  \* bound: sockets whose Accept fails by itself
    MaxForeign, \* bound: addresses other processes hold at once
    MaxBusy,    \* bound: listeners with a request in flight at once
    Nil

Specs == [addr : Addrs, limits : Limits]

ASSUME ConfigsAssumption ==
    Configs \subseteq [off : BOOLEAN, specs : [Names -> Specs \cup {Nil}]]
\* compile rejects two listeners with one address.
ASSUME AddressesAssumption ==
    \A c \in Configs : \A m, n \in Names :
        m # n /\ c.specs[m] # Nil /\ c.specs[n] # Nil
            => c.specs[m].addr # c.specs[n].addr
ASSUME BoundsAssumption ==
    MaxFaults \in Nat /\ MaxForeign \in Nat /\ MaxBusy \in Nat
ASSUME NilAssumption ==
    Nil \notin Socks /\ Nil \notin Specs /\ Nil \notin Closers /\ Nil \notin Configs

VARIABLES
    config,   \* the configuration of Server.current
    started,  \* Server.started
    running,  \* Server.running: the slot of each running listener, or Nil
    sock,     \* every runningListener with its http.Server and socket
    mu,       \* the phase of the call holding Server.mu, or "free"
    next,     \* that call's compiled configuration
    stale,    \* applyLocked's `stale`: names whose listener is replaced
    todo,     \* names the current loop of the call has still to visit
    fresh,    \* applyLocked's `started`, Start's `running`
    closer,   \* where each Shutdown call is: "idle", "closing", or
              \* "expired" once its context is done
    foreign,  \* addresses held by other processes
    faults    \* counts AcceptError, for MaxFaults

vars == <<config, started, running, sock, mu, next, stale, todo, fresh,
          closer, foreign, faults>>
call == <<next, stale, todo, fresh>>
world == <<foreign, faults>>

NoListeners == [n \in Names |-> Nil]

(***************************************************************************)
(* A slot holds a runningListener.  state: "live" while running or fresh,  *)
(* "leaving" once handed to a goroutine that will call http.Server's       *)
(* Shutdown, "draining" inside that call, "closed" after it.  by: the      *)
(* Shutdown call that goroutine belongs to, Nil for Server.draining.       *)
(* serve: the Serve goroutine before, in and after its accept loop.        *)
(***************************************************************************)
Blank == [state |-> "free", by |-> Nil, spec |-> Nil, serve |-> "exited",
          open |-> FALSE, closing |-> FALSE, failed |-> FALSE, busy |-> FALSE]

SockType == [state   : {"free", "live", "leaving", "draining", "closed"},
             by      : Closers \cup {Nil},
             spec    : Specs \cup {Nil},
             serve   : {"spawned", "accepting", "exited"},
             open    : BOOLEAN,
             closing : BOOLEAN,
             failed  : BOOLEAN,
             busy    : BOOLEAN]

\* The values of the variables; a call that has returned, Start or Apply, has
\* left no listener aside that nobody knows.
TypeOK ==
    /\ config \in Configs
    /\ started \in BOOLEAN
    /\ running \in [Names -> Socks \cup {Nil}]
    /\ sock \in [Socks -> SockType]
    /\ mu \in {"free", "stop", "bind", "undo", "rebind"}
    /\ next \in Configs \cup {Nil}
    /\ stale \subseteq Names
    /\ todo \subseteq Names
    /\ fresh \in [Names -> Socks \cup {Nil}]
    /\ mu = "free" => fresh = NoListeners
    /\ closer \in [Closers -> {"idle", "closing", "expired"}]
    /\ foreign \subseteq Addrs
    /\ faults \in Nat

\* Nothing refers to the slot any more and its goroutines are done.
Retire(s) == IF s.state = "closed" /\ s.serve = "exited" /\ ~s.busy
             THEN Blank ELSE s

\* snapshot.bound: the listeners to bind, none while the gateway is off.
Bound(c) == IF c.off THEN {} ELSE {n \in Names : c.specs[n] # Nil}

\* Mutant of Kept: the specs are compared by address only.
KeptByAddress(c, n) ==
    n \in Bound(c) /\ running[n] # Nil /\ sock[running[n]].spec.addr = c.specs[n].addr

\* Same name and same spec: applyLocked keeps the listener.
Kept(c, n) == n \in Bound(c) /\ running[n] # Nil /\ sock[running[n]].spec = c.specs[n]

\* Mutant of StaleNames: every running listener.
AllRunning(c) == {n \in Names : running[n] # Nil}
\* Mutant of Missing: a name with any listener needs none.
MissingByName(c) == {n \in Bound(c) : running[n] = Nil}

StaleNames(c) == {n \in Names : running[n] # Nil /\ ~Kept(c, n)}
Missing(c) == {n \in Bound(c) : ~Kept(c, n)}

AddrFree(a) ==
    a \notin foreign /\ \A i \in Socks : sock[i].open => sock[i].spec.addr # a

FreeSlot(i) == sock[i].state = "free"

\* listen: the socket is bound, the Serve goroutine spawned but not yet run.
Listening(spec) ==
    [Blank EXCEPT !.state = "live", !.spec = spec, !.serve = "spawned", !.open = TRUE]

\* drain: closing is set and the goroutine spawned.
Drained(s) == [s EXCEPT !.state = "leaving", !.closing = TRUE]

Init ==
    /\ config \in Configs
    /\ started = FALSE
    /\ running = NoListeners
    /\ sock = [i \in Socks |-> Blank]
    /\ mu = "free"
    /\ next = Nil
    /\ stale = {}
    /\ todo = {}
    /\ fresh = NoListeners
    /\ closer = [c \in Closers |-> "idle"]
    /\ foreign \in {S \in SUBSET Addrs : Cardinality(S) <= MaxForeign}
    /\ faults = 0

-----------------------------------------------------------------------------
(* Apply and Update, applyLocked.  A configuration that does not compile   *)
(* returns before anything changes.                                        *)

\* Not started: only the snapshot is switched.
ApplyStopped(c) ==
    /\ mu = "free" /\ ~started
    /\ config' = c
    /\ UNCHANGED <<started, running, sock, mu, call, closer, world>>

ApplyBegin(c) ==
    /\ mu = "free" /\ started
    /\ mu' = "stop"
    /\ next' = c
    /\ stale' = StaleNames(c)
    /\ todo' = StaleNames(c)
    /\ UNCHANGED <<config, started, running, sock, fresh, closer, world>>

\* stopAccepting, first statement.  Listeners are stopped one at a time.
StopMark(n) ==
    /\ mu = "stop" /\ n \in todo
    /\ \A m \in todo : ~sock[running[m]].closing
    /\ sock' = [sock EXCEPT ![running[n]].closing = TRUE]
    /\ UNCHANGED <<config, started, running, mu, call, closer, world>>

\* stopAccepting, second statement: the address can be bound again.
StopClose(n) ==
    /\ mu = "stop" /\ n \in todo
    /\ sock[running[n]].closing
    /\ sock' = [sock EXCEPT ![running[n]].open = FALSE]
    /\ todo' = todo \ {n}
    /\ UNCHANGED <<config, started, running, mu, next, stale, fresh, closer, world>>

StopDone ==
    /\ mu = "stop" /\ todo = {}
    /\ mu' = "bind"
    /\ todo' = Missing(next)
    /\ UNCHANGED <<config, started, running, sock, next, stale, fresh, closer, world>>

\* The loop over bound() that calls listen, shared with Start.
Bind(n) ==
    /\ mu = "bind" /\ n \in todo
    /\ AddrFree(next.specs[n].addr)
    /\ \E i \in Socks :
        /\ FreeSlot(i)
        /\ sock' = [sock EXCEPT ![i] = Listening(next.specs[n])]
        /\ fresh' = [fresh EXCEPT ![n] = i]
    /\ todo' = todo \ {n}
    /\ UNCHANGED <<config, started, running, mu, next, stale, closer, world>>

BindFails(n) ==
    /\ mu = "bind" /\ n \in todo
    /\ ~AddrFree(next.specs[n].addr)
    /\ mu' = "undo"
    /\ UNCHANGED <<config, started, running, sock, call, closer, world>>

\* Mutant of Undo: the listener is dropped, its socket stays open.
UndoForgets(n) ==
    /\ mu = "undo" /\ fresh[n] # Nil
    /\ fresh' = [fresh EXCEPT ![n] = Nil]
    /\ UNCHANGED <<config, started, running, sock, mu, next, stale, todo, closer, world>>

\* stopAccepting and http.Server.Close of a listener this call has started.
Undo(n) ==
    /\ mu = "undo" /\ fresh[n] # Nil
    /\ sock' = [sock EXCEPT ![fresh[n]] =
                   Retire([@ EXCEPT !.state = "closed", !.closing = TRUE,
                                    !.open = FALSE, !.busy = FALSE])]
    /\ fresh' = [fresh EXCEPT ![n] = Nil]
    /\ UNCHANGED <<config, started, running, mu, next, stale, todo, closer, world>>

\* Mutant of UndoDone: rebind first, close the new listeners afterwards.
UndoLater ==
    /\ mu = "undo"
    /\ mu' = IF started THEN "rebind" ELSE "free"
    /\ todo' = stale
    /\ next' = Nil
    /\ UNCHANGED <<config, started, running, sock, stale, fresh, closer, world>>

\* Start returns its error; applyLocked goes on to rebindLocked.
UndoDone ==
    /\ mu = "undo" /\ fresh = NoListeners
    /\ mu' = IF started THEN "rebind" ELSE "free"
    /\ todo' = stale
    /\ next' = Nil
    /\ UNCHANGED <<config, started, running, sock, stale, fresh, closer, world>>

\* rebindLocked: bind the old spec again, drain the stopped listener.
Rebind(n) ==
    /\ mu = "rebind" /\ n \in todo
    /\ AddrFree(sock[running[n]].spec.addr)
    /\ \E i \in Socks :
        /\ FreeSlot(i)
        /\ sock' = [sock EXCEPT ![i] = Listening(sock[running[n]].spec),
                                ![running[n]] = Drained(@)]
        /\ running' = [running EXCEPT ![n] = i]
    /\ todo' = todo \ {n}
    /\ UNCHANGED <<config, started, mu, next, stale, fresh, closer, world>>

RebindFails(n) ==
    /\ mu = "rebind" /\ n \in todo
    /\ ~AddrFree(sock[running[n]].spec.addr)
    /\ sock' = [sock EXCEPT ![running[n]] = Drained(@)]
    /\ running' = [running EXCEPT ![n] = Nil]
    /\ todo' = todo \ {n}
    /\ UNCHANGED <<config, started, mu, next, stale, fresh, closer, world>>

RebindDone ==
    /\ mu = "rebind" /\ todo = {}
    /\ mu' = "free"
    /\ stale' = {}
    /\ UNCHANGED <<config, started, running, sock, next, todo, fresh, closer, world>>

\* Everything is bound: commitLocked, then drain what was replaced.
Commit ==
    /\ mu = "bind" /\ todo = {} /\ started
    /\ config' = next
    /\ sock' = [i \in Socks |-> IF \E n \in stale : running[n] = i
                                THEN Drained(sock[i]) ELSE sock[i]]
    /\ running' = [n \in Names |-> IF fresh[n] # Nil THEN fresh[n]
                                   ELSE IF n \in stale THEN Nil ELSE running[n]]
    /\ mu' = "free" /\ next' = Nil /\ stale' = {} /\ fresh' = NoListeners
    /\ UNCHANGED <<started, todo, closer, world>>

-----------------------------------------------------------------------------
(* Start; on a started server it returns ErrAlreadyRunning.                *)

StartBegin ==
    /\ mu = "free" /\ ~started
    /\ mu' = "bind"
    /\ next' = config
    /\ todo' = Bound(config)
    /\ UNCHANGED <<config, started, running, sock, stale, fresh, closer, world>>

StartDone ==
    /\ mu = "bind" /\ todo = {} /\ ~started
    /\ running' = fresh
    /\ started' = TRUE
    /\ mu' = "free" /\ next' = Nil /\ fresh' = NoListeners
    /\ UNCHANGED <<config, sock, stale, todo, closer, world>>

-----------------------------------------------------------------------------
(* Shutdown and Close: only the hand-over of the listeners is locked.      *)

ShutdownTake(c) ==
    /\ mu = "free" /\ closer[c] = "idle"
    /\ sock' = [i \in Socks |-> IF \E n \in Names : running[n] = i
                                THEN [sock[i] EXCEPT !.state = "leaving", !.by = c]
                                ELSE sock[i]]
    /\ running' = NoListeners
    /\ started' = FALSE
    /\ closer' = [closer EXCEPT ![c] = "closing"]
    /\ UNCHANGED <<config, mu, call, world>>

CtxExpires(c) ==
    /\ closer[c] = "closing"
    /\ closer' = [closer EXCEPT ![c] = "expired"]
    /\ UNCHANGED <<config, started, running, sock, mu, call, world>>

Pending(i, owner) == sock[i].state \in {"leaving", "draining"} /\ sock[i].by = owner

\* wg.Wait, then the select on `drained` and the context.
ShutdownReturns(c) ==
    /\ closer[c] # "idle"
    /\ \A i \in Socks : ~Pending(i, c)
    /\ closer[c] = "expired" \/ \A i \in Socks : ~Pending(i, Nil)
    /\ closer' = [closer EXCEPT ![c] = "idle"]
    /\ UNCHANGED <<config, started, running, sock, mu, call, world>>

-----------------------------------------------------------------------------
(* net/http and the goroutines around it.                                  *)

\* http.Server.Shutdown closes the socket if Serve has registered it.
DrainBegins(i) ==
    /\ sock[i].state = "leaving"
    /\ sock' = [sock EXCEPT ![i] = [@ EXCEPT !.state = "draining", !.closing = TRUE,
                                             !.open = sock[i].open /\ sock[i].serve = "spawned"]]
    /\ UNCHANGED <<config, started, running, mu, call, closer, world>>

\* Serve has returned if it ever registered, and no request is in flight.
DrainEnds(i) ==
    /\ sock[i].state = "draining" /\ sock[i].serve # "accepting" /\ ~sock[i].busy
    /\ sock' = [sock EXCEPT ![i] = Retire([@ EXCEPT !.state = "closed"])]
    /\ UNCHANGED <<config, started, running, mu, call, closer, world>>

\* Mutants of DrainTimesOut: drain without a timeout; Shutdown without one.
DrainWithoutTimeout(i) ==
    /\ sock[i].state = "draining" /\ sock[i].serve # "accepting" /\ sock[i].busy
    /\ sock[i].by # Nil /\ closer[sock[i].by] = "expired"
    /\ sock' = [sock EXCEPT ![i] = Retire([@ EXCEPT !.state = "closed", !.busy = FALSE])]
    /\ UNCHANGED <<config, started, running, mu, call, closer, world>>
ShutdownIgnoresContext(i) ==
    /\ sock[i].state = "draining" /\ sock[i].serve # "accepting" /\ sock[i].busy
    /\ sock[i].by = Nil
    /\ sock' = [sock EXCEPT ![i] = Retire([@ EXCEPT !.state = "closed", !.busy = FALSE])]
    /\ UNCHANGED <<config, started, running, mu, call, closer, world>>

\* The context is done first: http.Server.Close cuts the connections.
DrainTimesOut(i) ==
    /\ sock[i].state = "draining" /\ sock[i].serve # "accepting" /\ sock[i].busy
    /\ sock[i].by # Nil => closer[sock[i].by] = "expired"
    /\ sock' = [sock EXCEPT ![i] = Retire([@ EXCEPT !.state = "closed", !.busy = FALSE])]
    /\ UNCHANGED <<config, started, running, mu, call, closer, world>>

\* Serve registers the socket, or finds the server shut down and closes it.
ServeBegins(i) ==
    /\ sock[i].serve = "spawned"
    /\ sock' = [sock EXCEPT ![i] =
                   IF @.state \in {"draining", "closed"}
                   THEN Retire([@ EXCEPT !.serve = "exited", !.open = FALSE])
                   ELSE [@ EXCEPT !.serve = "accepting"]]
    /\ UNCHANGED <<config, started, running, mu, call, closer, world>>

\* Mutant of ServeReturns: `closing` is not consulted.
ServeAlwaysFails(i) ==
    /\ sock[i].serve = "accepting" /\ ~sock[i].open
    /\ sock' = [sock EXCEPT ![i] = Retire([@ EXCEPT !.serve = "exited", !.failed = TRUE])]
    /\ UNCHANGED <<config, started, running, mu, call, closer, world>>

\* Accept failed on the closed socket; listen's goroutine records the
\* failure unless the server closed the listener itself.
ServeReturns(i) ==
    /\ sock[i].serve = "accepting" /\ ~sock[i].open
    /\ sock' = [sock EXCEPT ![i] =
                   Retire([@ EXCEPT !.serve = "exited", !.failed = ~sock[i].closing])]
    /\ UNCHANGED <<config, started, running, mu, call, closer, world>>

Request(i) ==
    /\ sock[i].serve = "accepting" /\ sock[i].open /\ ~sock[i].busy
    /\ Cardinality({j \in Socks : sock[j].busy}) < MaxBusy
    /\ sock' = [sock EXCEPT ![i].busy = TRUE]
    /\ UNCHANGED <<config, started, running, mu, call, closer, world>>

RequestEnds(i) ==
    /\ sock[i].busy
    /\ sock' = [sock EXCEPT ![i] = Retire([@ EXCEPT !.busy = FALSE])]
    /\ UNCHANGED <<config, started, running, mu, call, closer, world>>

AcceptError(i) ==
    /\ faults < MaxFaults
    /\ sock[i].serve = "accepting" /\ sock[i].open
    /\ sock' = [sock EXCEPT ![i].open = FALSE]
    /\ faults' = faults + 1
    /\ UNCHANGED <<config, started, running, mu, call, closer, foreign>>

ForeignBinds(a) ==
    /\ AddrFree(a)
    /\ Cardinality(foreign) < MaxForeign
    /\ foreign' = foreign \cup {a}
    /\ UNCHANGED <<config, started, running, sock, mu, call, closer, faults>>

ForeignCloses(a) ==
    /\ a \in foreign
    /\ foreign' = foreign \ {a}
    /\ UNCHANGED <<config, started, running, sock, mu, call, closer, faults>>

-----------------------------------------------------------------------------
\* What the holder of the mutex does next.
Locked ==
    \/ \E n \in Names : \/ StopMark(n) \/ StopClose(n)
                        \/ Bind(n) \/ BindFails(n) \/ Undo(n)
                        \/ Rebind(n) \/ RebindFails(n)
    \/ StopDone \/ UndoDone \/ RebindDone \/ Commit \/ StartDone

Calls ==
    \/ \E c \in Configs : ApplyStopped(c) \/ ApplyBegin(c)
    \/ StartBegin
    \/ \E c \in Closers : ShutdownTake(c)

\* The steps of slot i's goroutines that need nothing from outside.
Goroutines(i) ==
    DrainBegins(i) \/ DrainEnds(i) \/ DrainTimesOut(i) \/ ServeBegins(i) \/ ServeReturns(i)

Environment ==
    \/ \E i \in Socks : Request(i) \/ RequestEnds(i) \/ AcceptError(i)
    \/ \E a \in Addrs : ForeignBinds(a) \/ ForeignCloses(a)

Next ==
    \/ Locked
    \/ Calls
    \/ \E c \in Closers : CtxExpires(c) \/ ShutdownReturns(c)
    \/ \E i \in Socks : Goroutines(i)
    \/ Environment

Spec == Init /\ [][Next]_vars

(***************************************************************************)
(* Go schedules every runnable goroutine, drain's context always has a     *)
(* timeout (withDefaults makes shutdown_timeout positive) and Close's too. *)
(* Nothing is assumed of clients, callers or other processes.              *)
(***************************************************************************)
Fairness ==
    /\ WF_vars(Locked)
    /\ \A c \in Closers : WF_vars(CtxExpires(c)) /\ WF_vars(ShutdownReturns(c))
    /\ \A i \in Socks : WF_vars(Goroutines(i))

FairSpec == Spec /\ Fairness

-----------------------------------------------------------------------------
(* What Status and Healthy report.  Both take the mutex.                   *)

\* Mutant of ListenerServes: a recorded failure is not reported.
ListenerKnown(n) == running[n] # Nil

ListenerServes(n) == running[n] # Nil /\ ~sock[running[n]].failed

Healthy == started /\ (config.off \/ \A n \in Bound(config) : ListenerServes(n))

-----------------------------------------------------------------------------
(* Properties.                                                             *)

\* Whenever the mutex is free, Server.running holds nothing the active
\* configuration does not bind, each entry has exactly the spec configured
\* for its name, and none has been told to stop: no outcome of Start, Apply
\* (switch or roll-back) or Shutdown leaves a listener of another
\* configuration, or a stopped one, in charge of a name.
RunningMatchesConfig ==
    mu = "free" =>
        \A n \in Names : running[n] # Nil =>
            /\ started
            /\ n \in Bound(config)
            /\ sock[running[n]].spec = config.specs[n]
            /\ sock[running[n]].state = "live"
            /\ ~sock[running[n]].closing

\* No socket leaks: one that still accepts is in Server.running, or in the
\* map of the call that is binding, or a goroutine is about to close it (the
\* drain's, or its own Serve finding the server shut down).
NoOrphanedSocket ==
    \A i \in Socks : sock[i].open =>
        \/ \E n \in Names : running[n] = i \/ fresh[n] = i
        \/ sock[i].state = "leaving"
        \/ sock[i].state \in {"draining", "closed"} /\ sock[i].serve = "spawned"

\* A listener the server closes itself never reports a failure, however its
\* Serve goroutine and stopAccepting interleave: only Accept errors do.
OnlyFaultsAreFailures == Cardinality({i \in Socks : sock[i].failed}) <= faults

\* Healthy is never optimistic: when it reports true every listener of the
\* active configuration is bound, except that the goroutine of one whose
\* Accept just failed may still have to record it.
HealthyMeansBound ==
    mu = "free" /\ Healthy =>
        \A n \in Bound(config) :
            sock[running[n]].open \/ sock[running[n]].serve = "accepting"

\* Apply never touches a listener whose name and spec the new configuration
\* keeps: it stays in Server.running and goes on accepting.
KeptListenersUntouched ==
    [][\A n \in Names : started /\ next # Nil /\ Kept(next, n) =>
          running'[n] = running[n] /\ ~sock'[running[n]].closing]_vars

\* Seen through Server.running and the snapshot, every step of every call is
\* one of AtomicSwitch or changes nothing: requests never see a configuration
\* some of whose listeners are still to come or those of another, whatever
\* fails on the way.
Table == [n \in Names |-> IF running[n] = Nil THEN Nil ELSE sock[running[n]].spec]

Promise == INSTANCE AtomicSwitch WITH up <- started, table <- Table
SwitchIsAtomic == Promise!Spec

\* While the server stays started, a configured listener disappears from
\* Server.running only because another process took its address: rolling
\* back never trips over a socket of the server itself.
LostOnlyToOtherProcesses ==
    [][\A n \in Names :
          started' /\ running[n] # Nil /\ running'[n] = Nil /\ n \in Bound(config')
              => config'.specs[n].addr \in foreign]_vars

\* Every replaced listener is drained and closed in the end.
ReplacedListenersFinish ==
    \A i \in Socks : sock[i].state = "leaving" ~> sock[i].state = "free"

\* Whoever takes the mutex releases it, and every Shutdown returns.
CallsReturn ==
    /\ mu # "free" ~> mu = "free"
    /\ \A c \in Closers : closer[c] # "idle" ~> closer[c] = "idle"

-----------------------------------------------------------------------------
(* What the documentation says and the code does not do.                   *)

\* README.md:291 of Shutdown and Close: "remaining connections are closed
\* when the context expires"; server.go:386: "so the server is always fully
\* stopped on return".  No request is in flight when Shutdown returns and
\* nobody has started the server again.
ShutdownClosesConnections ==
    [][\A c \in Closers :
          closer[c] # "idle" /\ closer'[c] = "idle" /\ ~started /\ mu = "free"
              => \A i \in Socks : ~sock[i].busy]_vars

-----------------------------------------------------------------------------
(* The inductive invariant of GatewayProofs.                               *)

\* What the phase of the call holding the mutex says of its local variables.
PhaseInv ==
    /\ mu = "free" => next = Nil /\ stale = {} /\ todo = {} /\ fresh = NoListeners
    /\ ~started => mu \in {"free", "bind", "undo"} /\ running = NoListeners /\ stale = {}
    /\ mu \in {"stop", "bind", "undo"} => next \in Configs /\ stale = StaleNames(next)
    /\ mu \in {"stop", "rebind"} => todo \subseteq stale /\ fresh = NoListeners
    /\ mu = "bind" =>
          /\ todo \subseteq Missing(next)
          /\ \A n \in Names : fresh[n] # Nil <=> n \in Missing(next) \ todo
          /\ started \/ next = config
    /\ mu = "undo" => \A n \in stale : running[n] # Nil
    /\ mu = "rebind" => next = Nil /\ \A n \in todo : running[n] # Nil

\* A running listener has the configured spec and has not been handed to a
\* drain; only one the call is replacing may have been told to stop.
RunningInv ==
    \A n \in Names : running[n] # Nil =>
        /\ n \in Bound(config)
        /\ sock[running[n]].spec = config.specs[n]
        /\ sock[running[n]].state = "live"
        /\ sock[running[n]].closing =>
              mu # "free" /\ n \in stale /\ (mu = "rebind" => n \in todo)

\* A listener the call has just bound has the spec of the new configuration.
FreshInv ==
    \A n \in Names : fresh[n] # Nil =>
        /\ sock[fresh[n]].state = "live"
        /\ ~sock[fresh[n]].closing
        /\ mu = "bind" => sock[fresh[n]].spec = next.specs[n]

\* Every listener has a slot of its own.
SlotsDistinct ==
    \A m, n \in Names :
        /\ running[m] # Nil /\ running[m] = running[n] => m = n
        /\ fresh[m] # Nil /\ fresh[m] = fresh[n] => m = n
        /\ fresh[m] # Nil => fresh[m] # running[n]

\* A live listener belongs to somebody, and one that is not can accept only
\* until the goroutine that closes it has run.
SlotsOwned ==
    \A i \in Socks :
        /\ sock[i].state = "live" => \E n \in Names : running[n] = i \/ fresh[n] = i
        /\ sock[i].open => sock[i].state # "free"
        /\ sock[i].open /\ sock[i].state \in {"draining", "closed"} =>
              sock[i].serve = "spawned"

\* A listener that nobody stopped and that recorded no failure is open, or
\* its goroutine has yet to see that Accept failed.
ServeInv ==
    \A i \in Socks :
        sock[i].state = "live" /\ ~sock[i].closing /\ ~sock[i].failed =>
            sock[i].open \/ sock[i].serve = "accepting"

IInv == TypeOK /\ PhaseInv /\ RunningInv /\ FreshInv /\ SlotsDistinct /\ SlotsOwned
=============================================================================
