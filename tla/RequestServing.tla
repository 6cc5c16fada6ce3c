---------------------------- MODULE RequestServing ----------------------------
(***************************************************************************)
(* How a listener serves requests under its policies (serve.go, policy.go, *)
(* the policies of compile.go, the counters of observability.go).  A       *)
(* request takes the snapshot's chain of policies when it arrives and      *)
(* walks it from the listener's scope to the route's, then runs the        *)
(* handler, then unwinds; Apply may switch the snapshot at every step, and *)
(* keeps a policy whose definition is unchanged with its clients and its   *)
(* slots.                                                                  *)
(***************************************************************************)
EXTENDS RateLimiter, FiniteSets

CONSTANTS Requests,     \* the goroutines that serve requests, each one many
          Clients,      \* rate-limit keys
          Names,        \* policy names
          Configs,      \* see ConfigsAssumption
          None,
          MaxTime,      \* the clock stops here
          MaxArrivals,  \* requests in a behaviour
          MaxApplies    \* configurations applied after the first

\* A definition sets a timeout, a body limit, a rate limit, and a maximum of
\* concurrent requests, 0 for none.
Definitions == [timeout : BOOLEAN, body : BOOLEAN, rate : BOOLEAN, max : Nat]

\* chain: the policies of the listener, the site and the route, in this order,
\* where a name may come again; handler: of the route; definition: the policies
\* listed.
ASSUME ConfigsAssumption ==
    \A c \in Configs :
        /\ DOMAIN c.definition \subseteq Names
        /\ \A n \in DOMAIN c.definition : c.definition[n] \in Definitions
        /\ c.chain \in Seq(DOMAIN c.definition)
        /\ c.acme \in BOOLEAN
        /\ c.handler \in {"script", "other"}

ASSUME RequestsAssumption == IsFiniteSet(Requests)

ASSUME BoundsAssumption == {MaxTime, MaxArrivals, MaxApplies} \subseteq Nat

VARIABLES now,      \* the clock
          applies,  \* how often Apply was called
          current,  \* the snapshot: its config, and the policy behind each name
          made,     \* compiled policies: definition, table of clients, used slots
          req,      \* the requests
          arrivals, \* requests that came to a listener
          active,   \* metrics.active
          total,    \* the sum of the routes' request counters
          ledger    \* what the limiter granted (see RateHolds)

servingVars == <<now, applies, current, made, req, arrivals, active, total, ledger>>

PolicyIds == Names \X (0 .. MaxApplies)

NoRequest == [at |-> "idle", client |-> None, todo |-> <<>>, applied |-> {},
              held |-> <<>>, clock |-> 0, timed |-> FALSE]

Blank == [granted |-> 0, lost |-> 0, skew |-> 0]
NewLedger == [k \in Clients |-> Blank]

ServingTypeOK ==
    /\ now \in 0 .. MaxTime
    /\ applies \in 0 .. MaxApplies
    /\ {arrivals, active, total} \subseteq 0 .. MaxArrivals
    /\ current.config \in Configs
    /\ DOMAIN current.policies = DOMAIN current.config.definition
    /\ \A n \in DOMAIN current.policies :
           made[current.policies[n]].definition = current.config.definition[n]
    /\ DOMAIN made \subseteq PolicyIds
    /\ \A id \in DOMAIN made : Len(made[id].table) <= MaxKeys
    /\ \A r \in Requests : /\ req[r].client \in Clients \cup {None}
                           /\ Range(req[r].held) \subseteq DOMAIN made
                           /\ req[r].applied \subseteq Names

-----------------------------------------------------------------------------
(* compilePolicies.                                                        *)

Unchanged(c, n) == /\ n \in DOMAIN current.policies
                   /\ made[current.policies[n]].definition = c.definition[n]

\* Mutant of Reused: every policy is compiled afresh.
NeverReused(c, n) == FALSE

\* A policy whose definition is unchanged survives Apply.
Reused(c, n) == Unchanged(c, n)

Compiled(c, n) == IF Reused(c, n) THEN current.policies[n] ELSE <<n, applies + 1>>

\* line: the first policy of an unbroken row with the same definition.
NewPolicy(c, n) ==
    [definition |-> c.definition[n], table |-> <<>>, slots |-> 0, since |-> now,
     line |-> IF Unchanged(c, n) THEN made[current.policies[n]].line
                                 ELSE <<n, applies + 1>>]

ServingInit ==
    /\ now = 0
    /\ applies = 0
    /\ \E c \in Configs :
        /\ current = [config |-> c, policies |-> [n \in DOMAIN c.definition |-> <<n, 0>>]]
        /\ made = [id \in (DOMAIN c.definition) \X {0} |->
                       [definition |-> c.definition[id[1]], table |-> <<>>, slots |-> 0,
                        since |-> 0, line |-> id]]
    /\ req = [r \in Requests |-> NoRequest]
    /\ arrivals = 0
    /\ active = 0
    /\ total = 0
    /\ ledger = [id \in DOMAIN made |-> NewLedger]

Apply(c) ==
    LET new == {n \in DOMAIN c.definition : ~Reused(c, n)}
        ids == new \X {applies + 1}
    IN  /\ applies < MaxApplies
        /\ applies' = applies + 1
        /\ current' = [config |-> c,
                       policies |-> [n \in DOMAIN c.definition |-> Compiled(c, n)]]
        /\ made' = [id \in DOMAIN made \cup ids |->
                        IF id \in ids THEN NewPolicy(c, id[1]) ELSE made[id]]
        /\ ledger' = [id \in DOMAIN made \cup ids |->
                          IF id \in ids THEN NewLedger ELSE ledger[id]]
        /\ UNCHANGED <<now, req, arrivals, active, total>>

-----------------------------------------------------------------------------
(* A request.  todo is what is left of the chain: <<what, policy>>, and    *)
(* last the route's handler.                                               *)

\* ServeHTTP: the snapshot is loaded once for the chain.
Arrive(r) ==
    LET chain == current.config.chain
    IN  /\ req[r].at = "idle"
        /\ arrivals < MaxArrivals
        /\ req' = [req EXCEPT ![r].at = "chain",
                              ![r].todo = [i \in DOMAIN chain |->
                                  <<"policy", current.policies[chain[i]]>>]
                                      \o <<<<"run", current.config.handler>>>>]
        /\ arrivals' = arrivals + 1
        /\ active' = active + 1
        /\ UNCHANGED <<now, applies, current, made, total, ledger>>

Move(r, request) ==
    /\ req' = [req EXCEPT ![r] = request]
    /\ UNCHANGED <<now, applies, current, arrivals, active, total>>

\* The answer is given: what is deferred runs next.
Answered(request) == [NoRequest EXCEPT !.at = "unwind", !.held = request.held]

\* serveACMEChallenge answers ahead of the policies, from the snapshot of its
\* own load; it knows tokens only with tls.acme.
AnswerChallenge(r) ==
    /\ req[r].at = "chain"
    /\ req[r].applied = {}
    /\ current.config.acme
    /\ Move(r, Answered(req[r]))
    /\ UNCHANGED <<made, ledger>>

\* Next on the chain of r is what, of the policy id.
Faces(r, what, id) ==
    /\ req[r].at = "chain"
    /\ Head(req[r].todo) = <<what, id>>

Past(request) == [request EXCEPT !.todo = Tail(@)]

\* compilePolicy: its middleware, the outermost first; the timeout comes before
\* all of them.
Middleware(id) ==
    LET d == made[id].definition
        has(what, present) == IF present THEN <<<<what, id>>>> ELSE <<>>
    IN  has("body", d.body) \o has("rate", d.rate) \o has("slot", d.max > 0)

\* wrap: a policy that an outer scope applied is passed by.
Enter(r, id) ==
    LET rest == Past(req[r])
    IN  /\ Faces(r, "policy", id)
        /\ Move(r, IF id[1] \in rest.applied THEN rest
                   ELSE [rest EXCEPT !.applied = @ \cup {id[1]},
                                     !.timed = @ \/ made[id].definition.timeout,
                                     !.todo = Middleware(id) \o @])
        /\ UNCHANGED <<made, ledger>>

\* Whether the announced body is within the limit is the client's choice.
LimitBody(r, id) ==
    /\ Faces(r, "body", id)
    /\ \/ Move(r, Past(req[r]))
       \/ Move(r, Answered(req[r]))
    /\ UNCHANGED <<made, ledger>>

\* The limiter is called with a clock reading taken before its lock.  Which
\* client a request comes from is chosen when it first matters.
ReadClock(r, id, k) ==
    /\ Faces(r, "rate", id)
    /\ req[r].client \in {None, k}
    /\ Move(r, [req[r] EXCEPT !.clock = now, !.client = k,
                              !.todo = <<<<"allow", id>>>> \o Tail(@)])
    /\ UNCHANGED <<made, ledger>>

\* How far a grant turns the client's clock back: behind its bucket, or, if the
\* bucket is new, behind the clock.
Skew(table, key, clock) ==
    IF key \in Keys(table)
    THEN LET last == EntryOf(table, key).bucket.last IN last - Lesser(last, clock)
    ELSE now - clock

\* The clients whose entry is dropped before its bucket is full again.
GivenUp(before, after, clock) ==
    LET kept == Expire(before, clock)
    IN  {k \in (Keys(before) \ Keys(kept)) \cup (Keys(kept) \ Keys(after)) :
             Tokens(EntryOf(before, k).bucket, clock) < Burst}

\* The ledger notes what was granted, the clients given up, and the readings
\* that came out of order.
Noted(book, before, answer, key, clock) ==
    [k \in Clients |->
        [granted |-> book[k].granted + (IF k = key /\ answer.ok THEN 1 ELSE 0),
         lost    |-> book[k].lost + (IF k \in GivenUp(before, answer.table, clock) THEN 1
                                                                                  ELSE 0),
         skew    |-> book[k].skew + (IF k = key /\ answer.ok THEN Skew(before, k, clock)
                                                             ELSE 0)]]

Allow(r, id) ==
    LET key    == req[r].client
        clock  == req[r].clock
        answer == Admit(made[id].table, key, clock)
        line   == made[id].line
    IN  /\ Faces(r, "allow", id)
        /\ made' = [made EXCEPT ![id].table = answer.table]
        /\ Move(r, IF answer.ok THEN [Past(req[r]) EXCEPT !.clock = 0]
                                ELSE Answered(req[r]))
        /\ ledger' = [ledger EXCEPT ![line] =
                          Noted(@, made[id].table, answer, key, clock)]

TakeSlot(r, id) ==
    /\ Faces(r, "slot", id)
    /\ IF made[id].slots < made[id].definition.max
       THEN /\ made' = [made EXCEPT ![id].slots = @ + 1]
            /\ Move(r, [Past(req[r]) EXCEPT !.held = Append(@, id)])
       ELSE /\ Move(r, Answered(req[r]))
            /\ UNCHANGED made
    /\ UNCHANGED ledger

\* The chain is behind; the site and route are matched and the handler runs.
Handle(r, handler) ==
    /\ Faces(r, "run", handler)
    /\ Move(r, [NoRequest EXCEPT !.at = "handler", !.held = req[r].held,
                                 !.timed = req[r].timed])
    /\ UNCHANGED <<made, ledger>>

HandlerReturns(r) ==
    /\ req[r].at = "handler"
    /\ Move(r, Answered(req[r]))
    /\ UNCHANGED <<made, ledger>>

\* Mutant of HandlerPanics: the slots are given back by a statement after the
\* call, which a panic skips.
PanicSkipsSlots(r) ==
    /\ req[r].at = "handler"
    /\ Move(r, [Answered(req[r]) EXCEPT !.held = <<>>])
    /\ UNCHANGED <<made, ledger>>

\* A panic runs the deferred functions as a return does: the slots are
\* released, ServeHTTP recovers and records.
HandlerPanics(r) ==
    /\ req[r].at = "handler"
    /\ Move(r, Answered(req[r]))
    /\ UNCHANGED <<made, ledger>>

\* The slots are released one by one, the innermost first.
Unwind(r) ==
    /\ req[r].at = "unwind"
    /\ req[r].held # <<>>
    /\ made' = [made EXCEPT ![Last(req[r].held)].slots = @ - 1]
    /\ Move(r, [req[r] EXCEPT !.held = Front(@)])
    /\ UNCHANGED ledger

Leave(r) ==
    /\ req[r].at = "unwind"
    /\ req[r].held = <<>>
    /\ active' = active - 1
    /\ req' = [req EXCEPT ![r] = [NoRequest EXCEPT !.at = "record"]]
    /\ UNCHANGED <<now, applies, current, made, arrivals, total, ledger>>

Record(r) ==
    /\ req[r].at = "record"
    /\ total' = total + 1
    /\ req' = [req EXCEPT ![r] = NoRequest]
    /\ UNCHANGED <<now, applies, current, made, arrivals, active, ledger>>

Tick ==
    /\ now < MaxTime
    /\ now' = now + 1
    /\ UNCHANGED <<applies, current, made, req, arrivals, active, total, ledger>>

ServingStep(r) ==
    \/ Unwind(r) \/ Leave(r) \/ Record(r)
    \/ \E id \in DOMAIN made :
           \/ Enter(r, id) \/ LimitBody(r, id)
           \/ Allow(r, id) \/ TakeSlot(r, id)
           \/ \E k \in Clients : ReadClock(r, id, k)

-----------------------------------------------------------------------------

\* A client gets no more through a rate limit than a full bucket and the rate
\* since the policy was made, another full bucket for each time the table gave
\* the client up too early, and the rate for the spans that clock readings came
\* out of order: Apply, idleness and concurrent requests add nothing
\* (policy.go:29-31, 222-250).
RateHolds ==
    \A id \in DOMAIN ledger : \A k \in Clients :
        LET book == ledger[id][k]
        IN  book.granted <= Burst * (1 + book.lost)
                            + Rate * (now - made[id].since + book.skew)

Holding(id) == {r \in Requests : \E i \in DOMAIN req[r].held : req[r].held[i] = id}

\* A policy's used slots are those of the requests that hold one, and over all
\* Applies that left the definition alone they are never more than its max
\* (policy.go:29-31, 142-156).
SlotsHold ==
    \A id \in DOMAIN made :
        /\ made[id].slots = Cardinality(Holding(id))
        /\ made[id].definition.max > 0 =>
               Cardinality(UNION {Holding(i) : i \in {j \in DOMAIN made :
                                                          made[j].line = made[id].line}})
                   <= made[id].definition.max

InFlight == {r \in Requests : req[r].at \notin {"idle", "record"}}

\* Every request that came is in flight or recorded, once, however it ended:
\* answered, refused by a policy, or panicking (serve.go:36-54).
Accounted ==
    /\ active = Cardinality(InFlight)
    /\ total = arrivals - Cardinality({r \in Requests : req[r].at # "idle"})

=============================================================================
