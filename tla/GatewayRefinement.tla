-------------------------- MODULE GatewayRefinement --------------------------
(***************************************************************************)
(* Gateway implements AtomicSwitch, leaves kept listeners alone, never     *)
(* reports a health it does not have nor a failure that is none, and loses *)
(* listeners to other processes only, for any values of the constants.     *)
(* All of it rests on IInv, and on what is added where it is needed:       *)
(* ServeInv (what a listener without a failure is doing), FailureInv (what *)
(* a Serve goroutine that returns has been told) and AddressInv (whose an  *)
(* address is while a roll-back binds it again).                           *)
(***************************************************************************)
EXTENDS GatewayProofs, FiniteSetTheorems

-----------------------------------------------------------------------------
(* What a step does to Server.running and to the specs of the listeners in *)
(* it.                                                                     *)

SameTable == /\ UNCHANGED <<config, started>>
             /\ Table' = Table

\* Most steps replace no entry of Server.running.
LEMMA TableStays ==
    ASSUME running' = running,
           \A n \in Names : running[n] # Nil => sock'[running[n]].spec = sock[running[n]].spec
    PROVE  Table' = Table
  BY DEF Table

LEMMA OneSlotKeepsTable ==
    ASSUME IInv, NEW i \in Socks, OneSlot(i)
    PROVE  SameTable
  <1>1. \A n \in Names : running[n] # Nil => sock'[running[n]].spec = sock[running[n]].spec
    BY DEF IInv, TypeOK, RunningInv, OneSlot
  <1>. QED
    BY <1>1, TableStays DEF OneSlot, SameTable

LEMMA StopKeepsTable ==
    ASSUME IInv, NEW n \in Names, StopMark(n) \/ StopClose(n)
    PROVE  SameTable
  <1>1. running[n] \in Socks
    BY NilAssumption DEF IInv, StopMark, StopClose, PhaseInv, StaleNames, TypeOK
  <1>2. \A m \in Names : running[m] # Nil => sock'[running[m]].spec = sock[running[m]].spec
    <2>1. sock[running[n]] \in SockType
      BY <1>1 DEF IInv, TypeOK
    <2>2. CASE StopMark(n)
      BY <1>1, <2>1, <2>2 DEF StopMark, IInv, TypeOK, SockType
    <2>3. CASE StopClose(n)
      BY <1>1, <2>1, <2>3 DEF StopClose, IInv, TypeOK, SockType
    <2>. QED
      BY <2>2, <2>3
  <1>. QED
    BY <1>2, TableStays DEF StopMark, StopClose, SameTable

LEMMA BindKeepsTable ==
    ASSUME IInv, NEW n \in Names, Bind(n)
    PROVE  SameTable
  <1>1. PICK i \in Socks : FreeSlot(i) /\ sock' = [sock EXCEPT ![i] = Listening(next.specs[n])]
    BY DEF Bind
  <1>2. \A m \in Names : running[m] # Nil => running[m] # i
    BY <1>1 DEF FreeSlot, IInv, RunningInv
  <1>3. \A m \in Names : running[m] # Nil => sock'[running[m]] = sock[running[m]]
    BY <1>1, <1>2 DEF IInv, TypeOK
  <1>. QED
    BY <1>3, TableStays DEF Bind, SameTable

LEMMA UndoKeepsTable ==
    ASSUME IInv, NEW n \in Names, Undo(n)
    PROVE  SameTable
  <1>1. \A m \in Names : running[m] # fresh[n]
    BY DEF IInv, SlotsDistinct, Undo
  <1>2. \A m \in Names : running[m] # Nil => sock'[running[m]] = sock[running[m]]
    BY <1>1 DEF Undo, IInv, TypeOK
  <1>. QED
    BY <1>2, TableStays DEF Undo, SameTable

\* The roll-back puts a listener with the old spec in the place of the old.
LEMMA RebindKeepsTable ==
    ASSUME IInv, NEW n \in Names, Rebind(n)
    PROVE  SameTable
  <1> DEFINE o == running[n]
  <1> USE DEF IInv
  <1>1. PICK i \in Socks :
            /\ sock[i].state = "free"
            /\ sock' = [sock EXCEPT ![i] = Listening(sock[o].spec), ![o] = Drained(@)]
            /\ running' = [running EXCEPT ![n] = i]
    BY DEF Rebind, FreeSlot
  <1>2. /\ o # Nil /\ o \in Socks /\ i # Nil /\ i # o
        /\ \A m \in Names : running[m] # i /\ (m # n => running[m] # o)
    BY <1>1, NilAssumption DEF Rebind, PhaseInv, TypeOK, RunningInv, SlotsDistinct
  <1>3. sock'[i].spec = sock[o].spec
    BY <1>1, <1>2 DEF TypeOK, Listening, Blank
  <1>4. \A j \in Socks : j # i /\ j # o => sock'[j] = sock[j]
    BY <1>1, <1>2 DEF TypeOK
  <1>5. running'[n] = i /\ \A m \in Names : m # n => running'[m] = running[m]
    BY <1>1 DEF TypeOK
  <1>6. \A m \in Names : Table[m]' = Table[m]
    BY <1>2, <1>3, <1>4, <1>5 DEF Table, TypeOK
  <1>7. Table' = Table
    BY <1>6 DEF Table
  <1>. QED
    BY <1>7 DEF SameTable, Rebind

LEMMA RebindFailsLoses ==
    ASSUME IInv, NEW n \in Names, RebindFails(n)
    PROVE  Promise!Lose(n)
  <1> USE DEF IInv
  <1>1. /\ started /\ started' = started /\ config' = config
        /\ running[n] # Nil /\ running[n] \in Socks
        /\ sock' = [sock EXCEPT ![running[n]] = Drained(@)]
    BY DEF RebindFails, PhaseInv, TypeOK
  <1>2. running'[n] = Nil /\ \A m \in Names : m # n => running'[m] = running[m]
    BY DEF RebindFails, TypeOK
  <1>3. \A m \in Names : m # n => running[m] # running[n]
    BY <1>1 DEF SlotsDistinct
  <1>4. \A j \in Socks : j # running[n] => sock'[j] = sock[j]
    BY <1>1 DEF TypeOK
  <1>5. \A m \in Names : Table'[m] = IF m = n THEN Nil ELSE Table[m]
    BY <1>2, <1>3, <1>4 DEF Table, TypeOK
  <1>6. Table' = [Table EXCEPT ![n] = Nil]
    BY <1>5 DEF Table
  <1>. QED
    BY <1>1, <1>6 DEF Promise!Lose

\* The table an Apply or a Start leaves behind when every name it binds has a
\* listener with its spec.
LEMMA FullTable ==
    ASSUME NEW c \in Configs, NEW t,
           t = [n \in Names |-> IF n \in Bound(c) THEN c.specs[n] ELSE Nil]
    PROVE  t = Promise!Wanted(c)
  <1>1. c.specs \in [Names -> Specs \cup {Nil}]
    BY ConfigsAssumption
  <1>2. CASE c.off
    BY <1>2 DEF Bound, Promise!Wanted, Promise!Nothing
  <1>3. CASE ~c.off
    <2>1. \A n \in Names : n \in Bound(c) \/ c.specs[n] = Nil
      BY <1>3 DEF Bound
    <2>2. \A n \in Names : t[n] = c.specs[n]
      BY <2>1
    <2>3. t = c.specs
      BY <1>1, <2>2
    <2>. QED
      BY <1>3, <2>3 DEF Promise!Wanted
  <1>. QED
    BY <1>2, <1>3

LEMMA CommitSwitches ==
    ASSUME IInv, Commit
    PROVE  /\ next \in Configs
           /\ Promise!Switch(next)
  <1> USE DEF IInv
  <1>1. /\ mu = "bind" /\ started /\ started' = started /\ todo = {}
        /\ next \in Configs /\ stale = StaleNames(next) /\ config' = next
        /\ \A n \in Names : fresh[n] # Nil <=> n \in Missing(next)
    BY DEF Commit, PhaseInv
  <1>2. \A n \in Names : running'[n] = IF fresh[n] # Nil THEN fresh[n]
                                        ELSE IF n \in stale THEN Nil ELSE running[n]
    BY DEF Commit
  <1>3. \A i \in Socks : sock'[i].spec = sock[i].spec
    <2>1. \A i \in Socks : sock'[i] \in {sock[i], Drained(sock[i])}
      BY DEF Commit
    <2>2. \A i \in Socks : Drained(sock[i]).spec = sock[i].spec
      BY DEF Drained, TypeOK, SockType
    <2>. QED
      BY <2>1, <2>2
  <1>4. \A n \in Names : Table'[n] = IF n \in Bound(next) THEN next.specs[n] ELSE Nil
    <2> SUFFICES ASSUME NEW n \in Names
                 PROVE  Table'[n] = IF n \in Bound(next) THEN next.specs[n] ELSE Nil
      OBVIOUS
    <2>1. CASE n \in Missing(next)
      <3>1. running'[n] = fresh[n] /\ fresh[n] \in Socks /\ fresh[n] # Nil
        BY <1>1, <1>2, <2>1 DEF TypeOK
      <3>2. sock[fresh[n]].spec = next.specs[n] /\ n \in Bound(next)
        BY <1>1, <2>1, <3>1 DEF FreshInv, Missing
      <3>. QED
        BY <1>3, <3>1, <3>2 DEF Table
    <2>2. CASE n \notin Missing(next) /\ n \in Bound(next)
      <3>1. Kept(next, n) /\ n \notin stale /\ fresh[n] = Nil
        BY <1>1, <2>2 DEF Missing, StaleNames
      <3>2. running'[n] = running[n] /\ running[n] \in Socks /\ running[n] # Nil
        BY <1>2, <3>1 DEF Kept, TypeOK
      <3>. QED
        BY <1>3, <2>2, <3>1, <3>2 DEF Table, Kept
    <2>3. CASE n \notin Bound(next)
      <3>1. ~Kept(next, n) /\ fresh[n] = Nil
        BY <1>1, <2>3 DEF Kept, Missing
      <3>2. running'[n] = Nil
        BY <1>1, <1>2, <3>1 DEF StaleNames
      <3>. QED
        BY <2>3, <3>2 DEF Table
    <2>. QED
      BY <2>1, <2>2, <2>3
  <1>5. Table' = [n \in Names |-> IF n \in Bound(next) THEN next.specs[n] ELSE Nil]
    BY <1>4 DEF Table
  <1>6. Table' = Promise!Wanted(next)
    BY <1>1, <1>5, FullTable
  <1>. QED
    BY <1>1, <1>6 DEF Promise!Switch

LEMMA StartDoneStarts ==
    ASSUME IInv, StartDone
    PROVE  Promise!Start
  <1> USE DEF IInv
  <1>1. /\ ~started /\ started' /\ config' = config /\ config \in Configs /\ next = config
        /\ running' = fresh /\ sock' = sock /\ mu = "bind"
        /\ \A n \in Names : fresh[n] # Nil <=> n \in Missing(next)
    BY DEF StartDone, PhaseInv, TypeOK
  <1>2. Missing(next) = Bound(next)
    <2>1. \A n \in Names : running[n] = Nil
      BY <1>1 DEF PhaseInv, NoListeners
    <2>. QED
      BY <2>1 DEF Missing, Kept, Bound
  <1>3. \A n \in Names : Table'[n] = IF n \in Bound(config) THEN config.specs[n] ELSE Nil
    BY <1>1, <1>2 DEF Table, FreshInv
  <1>4. Table' = [n \in Names |-> IF n \in Bound(config) THEN config.specs[n] ELSE Nil]
    BY <1>3 DEF Table
  <1>5. Table' = Promise!Wanted(config)
    BY <1>1, <1>4, FullTable
  <1>. QED
    BY <1>1, <1>5 DEF Promise!Start, StartDone

-----------------------------------------------------------------------------
(* Kept listeners.                                                         *)

LEMMA KeptFacts ==
    ASSUME IInv, NEW n \in Names, started, next # Nil, Kept(next, n)
    PROVE  /\ mu \in {"stop", "bind", "undo"} /\ n \notin stale
           /\ running[n] \in Socks /\ running[n] # Nil
           /\ sock[running[n]].state = "live" /\ ~sock[running[n]].closing
           /\ \A m \in Names : m # n => running[m] # running[n]
           /\ \A m \in Names : fresh[m] # running[n]
  <1> USE DEF IInv
  <1>1. mu \in {"stop", "bind", "undo"} /\ stale = StaleNames(next)
    BY DEF PhaseInv, TypeOK
  <1>2. running[n] \in Socks /\ running[n] # Nil /\ n \notin stale
    BY <1>1 DEF Kept, StaleNames, TypeOK
  <1>3. \A m \in Names : m # n => running[m] # running[n]
    BY <1>2 DEF SlotsDistinct
  <1>4. sock[running[n]].state = "live" /\ ~sock[running[n]].closing
    BY <1>2 DEF RunningInv
  <1>5. \A m \in Names : fresh[m] # running[n]
    BY <1>2 DEF SlotsDistinct
  <1>. QED
    BY <1>1, <1>2, <1>3, <1>4, <1>5

Untouched(n) == running'[n] = running[n] /\ ~sock'[running[n]].closing

LEMMA CommitLeavesKept ==
    ASSUME IInv, NEW n \in Names, started, next # Nil, Kept(next, n), Commit
    PROVE  Untouched(n)
  <1>1. n \notin Missing(next)
    BY DEF Missing
  <1>2. fresh[n] = Nil /\ stale \subseteq Names
    BY <1>1 DEF IInv, TypeOK, PhaseInv, Commit
  <1>3. running'[n] = running[n]
    BY <1>2, KeptFacts DEF Commit
  <1>4. sock'[running[n]] = sock[running[n]]
    BY <1>2, KeptFacts DEF Commit
  <1>. QED
    BY <1>3, <1>4, KeptFacts DEF Untouched

LEMMA StepLeavesKept ==
    ASSUME IInv, NEW n \in Names, started, next # Nil, Kept(next, n), Next
    PROVE  Untouched(n)
  <1>1. CASE running' = running /\ sock' = sock
    BY <1>1, KeptFacts DEF Untouched
  <1>2. ASSUME NEW m \in Names, StopMark(m) \/ StopClose(m)
        PROVE  Untouched(n)
    <2>1. m \in stale /\ running[m] # running[n]
      BY <1>2, KeptFacts DEF StopMark, StopClose, IInv, PhaseInv
    <2>. QED
      BY <1>2, <2>1, KeptFacts DEF StopMark, StopClose, Untouched, IInv, TypeOK
  <1>3. ASSUME NEW m \in Names, Bind(m)
        PROVE  Untouched(n)
    BY <1>3, KeptFacts DEF Bind, FreeSlot, Untouched, IInv, TypeOK
  <1>4. ASSUME NEW m \in Names, Undo(m)
        PROVE  Untouched(n)
    BY <1>4, KeptFacts DEF Undo, Untouched, IInv, TypeOK
  <1>5. ASSUME NEW m \in Names, Rebind(m) \/ RebindFails(m)
        PROVE  Untouched(n)
    BY <1>5, KeptFacts DEF Rebind, RebindFails
  <1>6. CASE Locked
    BY <1>1, <1>2, <1>3, <1>4, <1>5, <1>6, CommitLeavesKept
       DEF Locked, BindFails, StopDone, UndoDone, RebindDone, StartDone
  <1>7. CASE Calls
    BY <1>7, KeptFacts DEF Calls, ApplyStopped, ApplyBegin, StartBegin, ShutdownTake
  <1>8. ASSUME NEW i \in Socks,
               Goroutines(i) \/ Request(i) \/ RequestEnds(i) \/ AcceptError(i)
        PROVE  Untouched(n)
    <2>1. OneSlot(i)
      BY <1>8, GoroutinesMoveOneSlot
    <2>. QED
      BY <2>1, KeptFacts DEF OneSlot, Untouched
  <1>9. CASE Environment
    BY <1>1, <1>8, <1>9 DEF Environment, ForeignBinds, ForeignCloses
  <1>. QED
    BY <1>1, <1>6, <1>7, <1>8, <1>9 DEF Next, CtxExpires, ShutdownReturns

-----------------------------------------------------------------------------
(* What Healthy may conclude from a listener without a recorded failure.   *)

LEMMA GoroutinesKeepServeInv ==
    ASSUME IInv, ServeInv, NEW i \in Socks,
           Goroutines(i) \/ Request(i) \/ RequestEnds(i) \/ AcceptError(i)
    PROVE  ServeInv'
  <1>1. OneSlot(i)
    BY GoroutinesMoveOneSlot
  <1>2. sock[i] \in SockType
    BY DEF IInv, TypeOK
  <1>3. ASSUME sock'[i].state = "live", ~sock'[i].closing, ~sock'[i].failed
        PROVE  sock'[i].open \/ sock'[i].serve = "accepting"
    <2>1. sock[i].state = "live" /\ ~sock[i].closing /\ sock \in [Socks -> SockType]
      BY <1>1, <1>3 DEF OneSlot, IInv, TypeOK
    <2>2. CASE DrainBegins(i) \/ DrainEnds(i) \/ DrainTimesOut(i)
      BY <2>1, <2>2 DEF DrainBegins, DrainEnds, DrainTimesOut
    <2>3. CASE ServeBegins(i)
      BY <1>2, <2>1, <2>3 DEF ServeBegins, SockType
    <2>4. CASE ServeReturns(i)
      BY <1>2, <1>3, <2>1, <2>4 DEF ServeReturns, SockType, Retire
    <2>5. CASE Request(i) \/ AcceptError(i)
      BY <1>2, <2>1, <2>5 DEF Request, AcceptError, SockType
    <2>6. CASE RequestEnds(i)
      <3>1. sock'[i] = [sock[i] EXCEPT !.busy = FALSE]
        BY <1>2, <2>1, <2>6 DEF RequestEnds, Retire, SockType
      <3>. QED
        BY <1>2, <1>3, <2>1, <3>1 DEF ServeInv, SockType
    <2>. QED
      BY <2>2, <2>3, <2>4, <2>5, <2>6 DEF Goroutines
  <1>. QED
    BY <1>1, <1>3 DEF ServeInv, OneSlot

LEMMA StepKeepsServeInv ==
    ASSUME IInv, ServeInv, [Next]_vars
    PROVE  ServeInv'
  <1> USE DEF IInv
  <1>1. CASE sock' = sock
    BY <1>1 DEF ServeInv
  <1>2. ASSUME NEW n \in Names, StopMark(n) \/ StopClose(n)
        PROVE  ServeInv'
    <2>1. \A j \in Socks : sock'[j] = sock[j] \/ sock'[j].closing
      BY <1>2 DEF StopMark, StopClose, TypeOK, SockType
    <2>. QED
      BY <2>1 DEF ServeInv
  <1>3. ASSUME NEW n \in Names, Bind(n) \/ Rebind(n)
        PROVE  ServeInv'
    <2>1. \A s : Listening(s).open
      BY DEF Listening, Blank
    <2>2. \A s \in SockType : Drained(s).closing
      BY DEF Drained, SockType
    <2>3. \A j \in Socks : sock[j] \in SockType
      BY DEF TypeOK
    <2>4. \A j \in Socks : sock'[j] = sock[j] \/ sock'[j].closing \/ sock'[j].open
      <3>1. CASE Bind(n)
        BY <2>1, <3>1 DEF Bind, TypeOK
      <3>2. CASE Rebind(n)
        <4>1. PICK i \in Socks :
                  sock' = [sock EXCEPT ![i] = Listening(sock[running[n]].spec),
                                       ![running[n]] = Drained(@)]
          BY <3>2 DEF Rebind
        <4>2. running[n] \in Socks /\ running[n] # Nil
          BY <3>2 DEF Rebind, PhaseInv, TypeOK
        <4>. QED
          BY <2>1, <2>2, <2>3, <4>1, <4>2 DEF TypeOK
      <3>. QED
        BY <1>3, <3>1, <3>2
    <2>. QED
      BY <2>4 DEF ServeInv
  <1>4. ASSUME NEW n \in Names, Undo(n) \/ RebindFails(n)
        PROVE  ServeInv'
    <2>1. \A s \in SockType : [s EXCEPT !.state = "closed", !.closing = TRUE,
                                        !.open = FALSE, !.busy = FALSE].state # "live"
      BY DEF SockType
    <2>2. \A j \in Socks : sock'[j] = sock[j] \/ sock'[j].state # "live"
      <3>1. CASE Undo(n)
        BY <2>1, <3>1 DEF Undo, TypeOK, Retire, Blank
      <3>2. CASE RebindFails(n)
        BY <3>2, DrainedType DEF RebindFails, TypeOK
      <3>. QED
        BY <1>4, <3>1, <3>2
    <2>. QED
      BY <2>2 DEF ServeInv
  <1>5. CASE Commit
    <2>1. \A j \in Socks : sock'[j] = sock[j] \/ sock'[j].closing
      <3>1. \A j \in Socks : sock'[j] \in {sock[j], Drained(sock[j])}
        BY <1>5 DEF Commit
      <3>2. \A j \in Socks : Drained(sock[j]).closing
        BY DEF Drained, TypeOK, SockType
      <3>. QED
        BY <3>1, <3>2
    <2>. QED
      BY <2>1 DEF ServeInv
  <1>6. ASSUME NEW c \in Closers, ShutdownTake(c)
        PROVE  ServeInv'
    <2>0. \A j \in Socks : sock[j] \in SockType
      BY DEF TypeOK
    <2>1. \A j \in Socks : sock'[j] = sock[j] \/ sock'[j].state = "leaving"
      BY <1>6, <2>0, LeavingType DEF ShutdownTake
    <2>. QED
      BY <2>1 DEF ServeInv
  <1>7. CASE Locked
    BY <1>1, <1>2, <1>3, <1>4, <1>5, <1>7
       DEF Locked, BindFails, StopDone, UndoDone, RebindDone, StartDone
  <1>8. CASE Calls
    BY <1>1, <1>6, <1>8 DEF Calls, ApplyStopped, ApplyBegin, StartBegin
  <1>9. CASE Environment
    BY <1>1, <1>9, GoroutinesKeepServeInv DEF Environment, ForeignBinds, ForeignCloses
  <1>. QED
    BY <1>1, <1>7, <1>8, <1>9, GoroutinesKeepServeInv
       DEF Next, vars, CtxExpires, ShutdownReturns

-----------------------------------------------------------------------------
(* Failures: only an Accept error dooms a listener.                        *)

\* A listener that has a failure, or will have one when its goroutine runs.
Doomed(s) == s.failed \/ (~s.open /\ s.serve = "accepting" /\ ~s.closing)

\* As many listeners as Accept errors may be doomed, and a goroutine that has
\* yet to run finds an open socket unless the server stopped the listener.
FailureInv ==
    /\ IsFiniteSet({i \in Socks : Doomed(sock[i])})
    /\ Cardinality({i \in Socks : Doomed(sock[i])}) <= faults
    /\ \A i \in Socks :
          sock[i].serve = "spawned" /\ ~sock[i].closing => sock[i].open

\* What every step but AcceptError does to a slot: s before, t after.
Registers(s) == s.serve = "spawned" /\ ~s.closing => s.open
Harmless(s, t) == (Doomed(t) => Doomed(s)) /\ (Registers(s) => Registers(t))

LEMMA HarmlessKeepsFailureInv ==
    ASSUME FailureInv, faults' = faults, faults \in Nat,
           \A i \in Socks : Harmless(sock[i], sock'[i])
    PROVE  FailureInv'
  <1> DEFINE Before == {i \in Socks : Doomed(sock[i])}
             After == {i \in Socks : Doomed(sock'[i])}
  <1>1. After \subseteq Before
    BY DEF Harmless
  <1>2. IsFiniteSet(Before) /\ Cardinality(Before) <= faults
    BY DEF FailureInv
  <1>3. /\ IsFiniteSet(After) /\ Cardinality(After) <= Cardinality(Before)
        /\ Cardinality(After) \in Nat /\ Cardinality(Before) \in Nat
    BY <1>1, <1>2, FS_Subset, FS_CardinalityType
  <1>4. \A i \in Socks : Registers(sock'[i])
    BY DEF FailureInv, Harmless, Registers
  <1>5. Cardinality(After) <= faults'
    BY <1>2, <1>3
  <1>. QED
    BY <1>3, <1>4, <1>5 DEF FailureInv, Registers

LEMMA HarmlessFacts ==
    ASSUME NEW s \in SockType
    PROVE  /\ Harmless(s, s)
           /\ Harmless(s, Drained(s))
           /\ \A spec : Harmless(s, Listening(spec))
           /\ \A c : Harmless(s, [s EXCEPT !.state = "leaving", !.by = c])
  BY DEF SockType, Harmless, Doomed, Registers, Drained, Listening, Blank

LEMMA RetireHarmless ==
    ASSUME NEW s, NEW t, Harmless(s, t)
    PROVE  Harmless(s, Retire(t))
  BY DEF Retire, Blank, Harmless, Doomed, Registers

LEMMA AcceptErrorKeepsFailureInv ==
    ASSUME IInv, FailureInv, NEW i \in Socks, AcceptError(i)
    PROVE  FailureInv'
  <1> DEFINE Before == {j \in Socks : Doomed(sock[j])}
             After == {j \in Socks : Doomed(sock'[j])}
  <1>0. faults \in Nat /\ faults' = faults + 1
    BY DEF IInv, TypeOK, AcceptError
  <1>1. \A j \in Socks : j # i => sock'[j] = sock[j]
    BY DEF AcceptError, IInv, TypeOK
  <1>2. After \subseteq Before \cup {i}
    BY <1>1
  <1>3. IsFiniteSet(Before) /\ Cardinality(Before) <= faults
    BY DEF FailureInv
  <1>4. /\ IsFiniteSet(Before \cup {i}) /\ Cardinality(Before) \in Nat
        /\ Cardinality(Before \cup {i}) <= Cardinality(Before) + 1
    BY <1>3, FS_AddElement, FS_CardinalityType
  <1>5. /\ IsFiniteSet(After) /\ Cardinality(After) \in Nat
        /\ Cardinality(After) <= Cardinality(Before \cup {i})
    BY <1>2, <1>4, FS_Subset, FS_CardinalityType
  <1>6. Cardinality(Before \cup {i}) \in Nat
    BY <1>4, FS_CardinalityType
  <1>7. Cardinality(After) <= faults'
    BY <1>0, <1>3, <1>4, <1>5, <1>6
  <1>8. sock'[i].serve = "accepting"
    BY DEF AcceptError, IInv, TypeOK, SockType
  <1>. QED
    BY <1>1, <1>5, <1>7, <1>8 DEF FailureInv

LEMMA GoroutinesHarmless ==
    ASSUME IInv, FailureInv, NEW i \in Socks, Goroutines(i) \/ Request(i) \/ RequestEnds(i)
    PROVE  \A j \in Socks : Harmless(sock[j], sock'[j])
  <1> DEFINE s == sock[i]
  <1>0. sock \in [Socks -> SockType] /\ s \in SockType /\ Registers(s)
    BY DEF IInv, TypeOK, FailureInv, Registers
  <1>1. ASSUME NEW t, Harmless(s, t),
               sock' = [sock EXCEPT ![i] = t] \/ sock' = [sock EXCEPT ![i] = Retire(t)]
        PROVE  \A j \in Socks : Harmless(sock[j], sock'[j])
    <2>1. Harmless(s, Retire(t))
      BY <1>1, RetireHarmless
    <2>2. \A j \in Socks : j # i => sock'[j] = sock[j]
      BY <1>0, <1>1
    <2>3. sock'[i] = t \/ sock'[i] = Retire(t)
      BY <1>0, <1>1
    <2>. QED
      BY <1>1, <2>1, <2>2, <2>3 DEF Harmless
  <1> USE DEF SockType, Harmless, Doomed, Registers
  <1>2. CASE DrainBegins(i)
    <2>1. sock'[i].closing /\ sock'[i].failed = s.failed
      BY <1>0, <1>2 DEF DrainBegins
    <2>2. \A j \in Socks : j # i => sock'[j] = sock[j]
      BY <1>0, <1>2 DEF DrainBegins
    <2>. QED
      BY <2>1, <2>2
  <1>3. CASE DrainEnds(i)
    <2> DEFINE t == [s EXCEPT !.state = "closed"]
    <2>1. sock' = [sock EXCEPT ![i] = Retire(t)]
      BY <1>3 DEF DrainEnds
    <2>2. Harmless(s, t)
      BY <1>0
    <2>. QED
      BY <1>1, <2>1, <2>2
  <1>4. CASE DrainTimesOut(i)
    <2> DEFINE t == [s EXCEPT !.state = "closed", !.busy = FALSE]
    <2>1. sock' = [sock EXCEPT ![i] = Retire(t)]
      BY <1>4 DEF DrainTimesOut
    <2>2. Harmless(s, t)
      BY <1>0
    <2>. QED
      BY <1>1, <2>1, <2>2
  <1>5. CASE ServeBegins(i)
    <2> DEFINE gone == [s EXCEPT !.serve = "exited", !.open = FALSE]
               t == [s EXCEPT !.serve = "accepting"]
    <2>1. \/ sock' = [sock EXCEPT ![i] = Retire(gone)]
          \/ sock' = [sock EXCEPT ![i] = t]
      BY <1>5 DEF ServeBegins
    <2>2. Harmless(s, gone)
      BY <1>0
    <2>3. Harmless(s, t)
      BY <1>0, <1>5 DEF ServeBegins
    <2>. QED
      BY <1>1, <2>1, <2>2, <2>3
  <1>6. CASE ServeReturns(i)
    <2> DEFINE t == [s EXCEPT !.serve = "exited", !.failed = ~s.closing]
    <2>1. sock' = [sock EXCEPT ![i] = Retire(t)]
      BY <1>6 DEF ServeReturns
    <2>2. Harmless(s, t)
      BY <1>0, <1>6 DEF ServeReturns
    <2>. QED
      BY <1>1, <2>1, <2>2
  <1>7. CASE Request(i)
    <2> DEFINE t == [s EXCEPT !.busy = TRUE]
    <2>1. sock' = [sock EXCEPT ![i] = t]
      BY <1>7 DEF Request
    <2>2. Harmless(s, t)
      BY <1>0
    <2>. QED
      BY <1>1, <2>1, <2>2
  <1>8. CASE RequestEnds(i)
    <2> DEFINE t == [s EXCEPT !.busy = FALSE]
    <2>1. sock' = [sock EXCEPT ![i] = Retire(t)]
      BY <1>8 DEF RequestEnds
    <2>2. Harmless(s, t)
      BY <1>0
    <2>. QED
      BY <1>1, <2>1, <2>2
  <1>. QED
    BY <1>2, <1>3, <1>4, <1>5, <1>6, <1>7, <1>8 DEF Goroutines

\* stopAccepting marks a listener before it closes its socket.
LEMMA LockedHarmless ==
    ASSUME IInv, FailureInv, Locked \/ Calls
    PROVE  \A j \in Socks : Harmless(sock[j], sock'[j])
  <1>0. sock \in [Socks -> SockType] /\ \A j \in Socks : Registers(sock[j])
    BY DEF IInv, TypeOK, FailureInv, Registers
  <1>1. CASE sock' = sock
    BY <1>1 DEF Harmless
  <1>2. ASSUME NEW n \in Names, StopMark(n) \/ StopClose(n)
        PROVE  \A j \in Socks : Harmless(sock[j], sock'[j])
    <2>1. \A s \in SockType : /\ Harmless(s, [s EXCEPT !.closing = TRUE])
                              /\ s.closing => Harmless(s, [s EXCEPT !.open = FALSE])
      BY DEF SockType, Harmless, Doomed, Registers
    <2>. QED
      BY <1>0, <1>2, <2>1, HarmlessFacts DEF StopMark, StopClose
  <1>3. ASSUME NEW n \in Names, Bind(n)
        PROVE  \A j \in Socks : Harmless(sock[j], sock'[j])
    <2>1. PICK i \in Socks : sock' = [sock EXCEPT ![i] = Listening(next.specs[n])]
      BY <1>3 DEF Bind
    <2>2. \A j \in Socks : sock'[j] = sock[j] \/ sock'[j] = Listening(next.specs[n])
      BY <1>0, <2>1
    <2>. QED
      BY <1>0, <2>2, HarmlessFacts
  <1>4. ASSUME NEW n \in Names, Undo(n)
        PROVE  \A j \in Socks : Harmless(sock[j], sock'[j])
    <2>1. \A s \in SockType :
              Harmless(s, Retire([s EXCEPT !.state = "closed", !.closing = TRUE,
                                           !.open = FALSE, !.busy = FALSE]))
      <3>1. \A s \in SockType :
                Harmless(s, [s EXCEPT !.state = "closed", !.closing = TRUE,
                                      !.open = FALSE, !.busy = FALSE])
        BY DEF SockType, Harmless, Doomed, Registers
      <3>. QED
        BY <3>1, RetireHarmless
    <2>. QED
      BY <1>0, <1>4, <2>1, HarmlessFacts DEF Undo
  <1>5. ASSUME NEW n \in Names, Rebind(n) \/ RebindFails(n)
        PROVE  \A j \in Socks : Harmless(sock[j], sock'[j])
    <2>1. running[n] \in Socks /\ running[n] # Nil
      BY <1>5 DEF Rebind, RebindFails, IInv, PhaseInv, TypeOK
    <2>2. CASE RebindFails(n)
      BY <1>0, <2>1, <2>2, HarmlessFacts DEF RebindFails
    <2>3. CASE Rebind(n)
      <3>1. PICK i \in Socks :
                sock' = [sock EXCEPT ![i] = Listening(sock[running[n]].spec),
                                     ![running[n]] = Drained(@)]
             /\ FreeSlot(i)
        BY <2>3 DEF Rebind
      <3>2. i # running[n]
        BY <2>1, <3>1 DEF FreeSlot, IInv, RunningInv
      <3>3. \A j \in Socks : \/ sock'[j] = sock[j]
                             \/ sock'[j] = Listening(sock[running[n]].spec)
                             \/ sock'[j] = Drained(sock[j])
        BY <1>0, <2>1, <3>1, <3>2
      <3>. QED
        BY <1>0, <3>3, HarmlessFacts
    <2>. QED
      BY <1>5, <2>2, <2>3
  <1>6. CASE Commit
    <2>1. \A j \in Socks : sock'[j] = sock[j] \/ sock'[j] = Drained(sock[j])
      BY <1>6 DEF Commit
    <2>. QED
      BY <1>0, <2>1, HarmlessFacts
  <1>7. ASSUME NEW c \in Closers, ShutdownTake(c)
        PROVE  \A j \in Socks : Harmless(sock[j], sock'[j])
    <2>1. \A j \in Socks : \/ sock'[j] = sock[j]
                           \/ sock'[j] = [sock[j] EXCEPT !.state = "leaving", !.by = c]
      BY <1>7 DEF ShutdownTake
    <2>2. \A s \in SockType : Harmless(s, [s EXCEPT !.state = "leaving", !.by = c])
      BY HarmlessFacts
    <2>. QED
      BY <1>0, <2>1, <2>2, HarmlessFacts
  <1>8. CASE Locked
    BY <1>1, <1>2, <1>3, <1>4, <1>5, <1>6, <1>8
       DEF Locked, BindFails, StopDone, UndoDone, RebindDone, StartDone
  <1>9. CASE Calls
    BY <1>1, <1>7, <1>9 DEF Calls, ApplyStopped, ApplyBegin, StartBegin
  <1>. QED
    BY <1>8, <1>9

LEMMA StepKeepsFailureInv ==
    ASSUME IInv, FailureInv, [Next]_vars
    PROVE  FailureInv'
  <1>1. CASE UNCHANGED <<sock, faults>>
    BY <1>1 DEF FailureInv
  <1>2. CASE Locked \/ Calls
    <2>1. faults' = faults
      BY <1>2 DEF Locked, Calls, StopMark, StopClose, Bind, BindFails, Undo, Rebind,
         RebindFails, StopDone, UndoDone, RebindDone, Commit, StartDone, ApplyStopped,
         ApplyBegin, StartBegin, ShutdownTake, world
    <2>. QED
      BY <1>2, <2>1, LockedHarmless, HarmlessKeepsFailureInv DEF IInv, TypeOK
  <1>3. ASSUME NEW i \in Socks, Goroutines(i) \/ Request(i) \/ RequestEnds(i)
        PROVE  FailureInv'
    <2>1. faults' = faults
      BY <1>3 DEF Goroutines, DrainBegins, DrainEnds, DrainTimesOut, ServeBegins,
         ServeReturns, Request, RequestEnds, world
    <2>. QED
      BY <1>3, <2>1, GoroutinesHarmless, HarmlessKeepsFailureInv DEF IInv, TypeOK
  <1>4. CASE \/ \E c \in Closers : CtxExpires(c) \/ ShutdownReturns(c)
             \/ \E a \in Addrs : ForeignBinds(a) \/ ForeignCloses(a)
    BY <1>1, <1>4 DEF CtxExpires, ShutdownReturns, ForeignBinds, ForeignCloses, world
  <1>. QED
    BY <1>1, <1>2, <1>3, <1>4, AcceptErrorKeepsFailureInv DEF Next, Environment, vars

-----------------------------------------------------------------------------
(* Addresses: the roll-back never finds a socket of the server in its way. *)

InFresh(i) == \E m \in Names : fresh[m] = i

\* Who may hold the address of a listener in Server.running, of one the call
\* has just bound, and that a stopped listener no longer holds its own.
AddressInv ==
    /\ \A n \in Names, i \in Socks :
          running[n] # Nil /\ sock[i].open /\ sock[i].spec.addr = config.specs[n].addr
              => i = running[n] \/ InFresh(i)
    /\ mu = "bind" => \A n \in Names, i \in Socks :
          fresh[n] # Nil /\ sock[i].open /\ sock[i].spec.addr = next.specs[n].addr
              => i = fresh[n]
    /\ \A n \in stale :
          /\ mu = "stop" /\ n \notin todo => ~sock[running[n]].open
          /\ mu \in {"bind", "undo"} => ~sock[running[n]].open
          /\ mu = "rebind" /\ n \in todo => ~sock[running[n]].open

LEMMA InitAddressInv == Init => FailureInv /\ AddressInv
  <1> SUFFICES ASSUME Init PROVE FailureInv /\ AddressInv
    OBVIOUS
  <1>1. {i \in Socks : Doomed(sock[i])} = {}
    BY DEF Init, Doomed, Blank
  <1>2. FailureInv
    <2>1. Cardinality({}) = 0 /\ IsFiniteSet({}) /\ faults = 0
      BY FS_EmptySet DEF Init
    <2>2. \A i \in Socks : sock[i].serve = "exited"
      BY DEF Init, Blank
    <2>. QED
      BY <1>1, <2>1, <2>2 DEF FailureInv
  <1>3. AddressInv
    BY DEF Init, AddressInv, NoListeners
  <1>. QED
    BY <1>2, <1>3

\* A step that opens no socket and moves no listener.
LEMMA QuietKeepsAddressInv ==
    ASSUME AddressInv, UNCHANGED <<config, running, mu, next, stale, todo, fresh>>,
           \A i \in Socks : sock'[i].open => sock[i].open /\ sock'[i].spec = sock[i].spec,
           IInv
    PROVE  AddressInv'
  <1>1. \A n \in stale : mu \in {"stop", "bind", "undo"} => running[n] \in Socks
    BY DEF IInv, TypeOK, PhaseInv, StaleNames
  <1>2. \A n \in stale : mu = "rebind" /\ n \in todo => running[n] \in Socks
    BY DEF IInv, TypeOK, PhaseInv
  <1>3. \A i : InFresh(i)' <=> InFresh(i)
    BY DEF InFresh
  <1>. QED
    BY <1>1, <1>2, <1>3 DEF AddressInv

LEMMA GoroutinesOpenNothing ==
    ASSUME IInv, NEW i \in Socks,
           Goroutines(i) \/ Request(i) \/ RequestEnds(i) \/ AcceptError(i)
    PROVE  /\ \A j \in Socks : sock'[j].open => sock[j].open /\ sock'[j].spec = sock[j].spec
           /\ UNCHANGED <<config, running, mu, next, stale, todo, fresh>>
  <1>1. OneSlot(i)
    BY GoroutinesMoveOneSlot
  <1>2. sock \in [Socks -> SockType] /\ sock[i] \in SockType
    BY DEF IInv, TypeOK
  <1>3. ASSUME NEW s \in SockType, NEW t \in SockType, t.open => s.open, t.spec = s.spec
        PROVE  Retire(t).open => s.open /\ Retire(t).spec = s.spec
    BY <1>3 DEF Retire, Blank
  <1>4. sock'[i].open => sock[i].open /\ sock'[i].spec = sock[i].spec
    <2> DEFINE s == sock[i]
    <2> USE DEF SockType
    <2>1. CASE DrainBegins(i)
      <3>1. sock'[i].open => s.open
        BY <1>2, <2>1 DEF DrainBegins
      <3>2. sock'[i].spec = s.spec
        BY <1>2, <2>1 DEF DrainBegins
      <3>. QED
        BY <3>1, <3>2
    <2>2. CASE Request(i) \/ AcceptError(i)
      BY <1>2, <2>2 DEF Request, AcceptError
    <2>3. CASE DrainEnds(i) \/ DrainTimesOut(i)
      <3> DEFINE t == [s EXCEPT !.state = "closed"]
                 u == [s EXCEPT !.state = "closed", !.busy = FALSE]
      <3>1. sock'[i] = Retire(t) \/ sock'[i] = Retire(u)
        BY <1>2, <2>3 DEF DrainEnds, DrainTimesOut
      <3>2. /\ t \in SockType /\ t.open = s.open /\ t.spec = s.spec
            /\ u \in SockType /\ u.open = s.open /\ u.spec = s.spec
        BY <1>2
      <3> HIDE DEF t, u
      <3>. QED
        BY <1>2, <1>3, <3>1, <3>2
    <2>4. CASE ServeBegins(i)
      <3> DEFINE t == [s EXCEPT !.serve = "exited", !.open = FALSE]
      <3>1. sock'[i] = Retire(t) \/ sock'[i] = [s EXCEPT !.serve = "accepting"]
        BY <1>2, <2>4 DEF ServeBegins
      <3>2. t \in SockType /\ ~t.open /\ t.spec = s.spec
        BY <1>2
      <3> HIDE DEF t
      <3>. QED
        BY <1>2, <1>3, <3>1, <3>2
    <2>5. CASE ServeReturns(i)
      <3> DEFINE t == [s EXCEPT !.serve = "exited", !.failed = ~s.closing]
      <3>1. sock'[i] = Retire(t)
        BY <1>2, <2>5 DEF ServeReturns
      <3>2. t \in SockType /\ t.open = s.open /\ t.spec = s.spec
        BY <1>2
      <3> HIDE DEF t
      <3>. QED
        BY <1>2, <1>3, <3>1, <3>2
    <2>6. CASE RequestEnds(i)
      <3> DEFINE t == [s EXCEPT !.busy = FALSE]
      <3>1. sock'[i] = Retire(t)
        BY <1>2, <2>6 DEF RequestEnds
      <3>2. t \in SockType /\ t.open = s.open /\ t.spec = s.spec
        BY <1>2
      <3> HIDE DEF t
      <3>. QED
        BY <1>2, <1>3, <3>1, <3>2
    <2>. QED
      BY <2>1, <2>2, <2>3, <2>4, <2>5, <2>6 DEF Goroutines
  <1>. QED
    BY <1>1, <1>4 DEF OneSlot, call

\* Two listeners of a configuration have two addresses.
LEMMA AddressesDiffer ==
    ASSUME NEW c \in Configs, NEW m \in Bound(c), NEW n \in Bound(c), m # n
    PROVE  c.specs[m].addr # c.specs[n].addr
  BY AddressesAssumption DEF Bound

LEMMA StoppingKeepsAddressInv ==
    ASSUME IInv, AddressInv,
           StopDone \/ \E n \in Names : StopMark(n) \/ StopClose(n)
    PROVE  AddressInv'
  <1> USE DEF IInv
  <1>0. sock \in [Socks -> SockType] /\ \A s \in SockType : DOMAIN s = DOMAIN Blank
    BY DEF TypeOK, SockType, Blank
  <1>1. ASSUME NEW n \in Names, StopMark(n) \/ StopClose(n)
        PROVE  AddressInv'
    <2>1. running[n] \in Socks /\ n \in stale /\ mu = "stop" /\ mu' = mu
      BY <1>1 DEF StopMark, StopClose, PhaseInv, StaleNames, TypeOK, call
    <2>2. sock[running[n]] \in SockType
      BY <2>1 DEF TypeOK
    <2>3. \A i \in Socks : sock'[i].open => sock[i].open /\ sock'[i].spec = sock[i].spec
      BY <1>0, <1>1, <2>1, <2>2 DEF StopMark, StopClose, SockType
    <2>4. CASE StopMark(n)
      BY <2>3, <2>4, QuietKeepsAddressInv DEF StopMark, call
    <2>5. CASE StopClose(n)
      <3>1. ~sock'[running[n]].open /\ todo' = todo \ {n}
        BY <1>0, <2>1, <2>2, <2>5 DEF StopClose, SockType
      <3>2. \A m \in stale : running[m] \in Socks
        BY <2>1 DEF PhaseInv, StaleNames, TypeOK
      <3>3. UNCHANGED <<config, running, next, stale, fresh>>
        BY <2>5 DEF StopClose
      <3>. QED
        BY <2>1, <2>3, <3>1, <3>2, <3>3 DEF AddressInv, InFresh
    <2>. QED
      BY <1>1, <2>4, <2>5
  <1>2. CASE StopDone
    BY <1>2 DEF StopDone, PhaseInv, NoListeners, AddressInv, InFresh
  <1>. QED
    BY <1>1, <1>2

LEMMA BindKeepsAddressInv ==
    ASSUME IInv, AddressInv, NEW n \in Names, Bind(n)
    PROVE  AddressInv'
  <1> USE DEF IInv
  <1> DEFINE addr == next.specs[n].addr
  <1>1. PICK i \in Socks : /\ sock[i].state = "free"
                           /\ sock' = [sock EXCEPT ![i] = Listening(next.specs[n])]
                           /\ fresh' = [fresh EXCEPT ![n] = i]
    BY DEF Bind, FreeSlot
  <1>2. /\ mu = "bind" /\ mu' = mu /\ n \in todo /\ AddrFree(addr)
        /\ UNCHANGED <<config, running, next, stale>>
    BY DEF Bind
  <1>3. /\ next \in Configs /\ n \in Missing(next) /\ fresh[n] = Nil
        /\ \A m \in Names : fresh[m] # Nil => m \in Bound(next)
        /\ n \in Bound(next)
    BY <1>2 DEF PhaseInv, Missing
  <1>4. /\ sock'[i].spec.addr = addr
        /\ \A j \in Socks : j # i => sock'[j] = sock[j]
        /\ fresh'[n] = i /\ \A m \in Names : m # n => fresh'[m] = fresh[m]
        /\ i # Nil /\ Nil \notin Socks
    BY <1>1, NilAssumption DEF TypeOK, Listening, Blank
  <1>5. \A j \in Socks : j # i /\ sock[j].open => sock[j].spec.addr # addr
    BY <1>2 DEF AddrFree
  <1>6. \A j \in Socks : (InFresh(j) => InFresh(j)') /\ InFresh(i)'
    BY <1>3, <1>4 DEF InFresh
  <1>7. ASSUME NEW m \in Names, NEW j \in Socks, fresh'[m] # Nil, sock'[j].open,
               sock'[j].spec.addr = next.specs[m].addr
        PROVE  j = fresh'[m]
    <2>1. CASE m = n
      BY <1>4, <1>5, <1>7, <2>1
    <2>2. CASE m # n /\ j = i
      BY <1>3, <1>4, <1>7, <2>2, AddressesDiffer
    <2>3. CASE m # n /\ j # i
      BY <1>2, <1>4, <1>7, <2>3 DEF AddressInv
    <2>. QED
      BY <2>1, <2>2, <2>3
  <1>8. \A m \in stale : running[m] \in Socks /\ running[m] # i
    BY <1>1, <1>2 DEF PhaseInv, StaleNames, RunningInv, TypeOK
  <1>9. \A m \in stale : ~sock'[running[m]].open
    BY <1>2, <1>4, <1>8 DEF AddressInv
  <1>10. ASSUME NEW m \in Names, NEW j \in Socks, running[m] # Nil, sock'[j].open,
                sock'[j].spec.addr = config.specs[m].addr
         PROVE  j = running[m] \/ InFresh(j)'
    BY <1>4, <1>6, <1>10 DEF AddressInv
  <1>. QED
    BY <1>2, <1>7, <1>9, <1>10 DEF AddressInv

LEMMA UndoKeepsAddressInv ==
    ASSUME IInv, AddressInv,
           \/ UndoDone \/ RebindDone \/ \E n \in Names : BindFails(n) \/ Undo(n)
    PROVE  AddressInv'
  <1> USE DEF IInv
  <1>1. ASSUME NEW n \in Names, BindFails(n) PROVE AddressInv'
    BY <1>1 DEF BindFails, AddressInv, InFresh, call
  <1>2. ASSUME NEW n \in Names, Undo(n) PROVE AddressInv'
    <2> DEFINE k == fresh[n]
    <2>1. /\ mu = "undo" /\ mu' = mu /\ k \in Socks /\ k # Nil
          /\ fresh' = [fresh EXCEPT ![n] = Nil]
          /\ UNCHANGED <<config, running, next, stale, todo>>
      BY <1>2 DEF Undo, TypeOK
    <2>2. \A t : ~t.open => ~Retire(t).open
      BY DEF Retire, Blank
    <2>3. ~[sock[k] EXCEPT !.state = "closed", !.closing = TRUE,
                           !.open = FALSE, !.busy = FALSE].open
      BY <2>1 DEF TypeOK, SockType
    <2>4. ~sock'[k].open /\ \A j \in Socks : j # k => sock'[j] = sock[j]
      BY <1>2, <2>1, <2>2, <2>3 DEF Undo, TypeOK
    <2>5. \A j \in Socks : j # k /\ InFresh(j) => InFresh(j)'
      BY <2>1 DEF InFresh, TypeOK
    <2>6. \A m \in stale : running[m] \in Socks
      BY <2>1 DEF PhaseInv, StaleNames, TypeOK
    <2>. QED
      BY <2>1, <2>4, <2>5, <2>6 DEF AddressInv
  <1>3. CASE UndoDone
    BY <1>3 DEF UndoDone, PhaseInv, NoListeners, AddressInv, InFresh
  <1>4. CASE RebindDone
    BY <1>4 DEF RebindDone, AddressInv, InFresh
  <1>. QED
    BY <1>1, <1>2, <1>3, <1>4

LEMMA RebindKeepsAddressInv ==
    ASSUME IInv, AddressInv, NEW n \in Names, Rebind(n) \/ RebindFails(n)
    PROVE  AddressInv'
  <1> USE DEF IInv
  <1> DEFINE o == running[n]
             addr == config.specs[n].addr
  <1>1. /\ mu = "rebind" /\ mu' = mu /\ n \in todo /\ n \in stale /\ todo' = todo \ {n}
        /\ UNCHANGED <<config, next, stale, fresh>>
        /\ o \in Socks /\ o # Nil /\ sock[o] \in SockType
        /\ sock[o].spec = config.specs[n] /\ n \in Bound(config) /\ config \in Configs
    BY DEF Rebind, RebindFails, PhaseInv, RunningInv, TypeOK
  <1>2. \A s \in SockType : Drained(s).open = s.open /\ Drained(s).spec = s.spec
    BY DEF Drained, SockType
  <1>3. ~sock[o].open
    BY <1>1 DEF AddressInv
  <1>4. \A m \in Names : m # n /\ running[m] # Nil =>
            running[m] \in Socks /\ running[m] # o /\ m \in Bound(config)
    BY <1>1 DEF SlotsDistinct, RunningInv, TypeOK
  <1>5. CASE RebindFails(n)
    <2>1. /\ running'[n] = Nil /\ \A m \in Names : m # n => running'[m] = running[m]
          /\ \A j \in Socks : sock'[j].open => sock[j].open /\ sock'[j].spec = sock[j].spec
      BY <1>1, <1>2, <1>5 DEF RebindFails, TypeOK
    <2>2. \A m \in todo' : m # n /\ running[m] \in Socks
      BY <1>1, <1>4 DEF PhaseInv, TypeOK
    <2>. QED
      BY <1>1, <2>1, <2>2 DEF AddressInv, InFresh, TypeOK
  <1>6. CASE Rebind(n)
    <2>1. PICK i \in Socks :
              /\ sock[i].state = "free"
              /\ sock' = [sock EXCEPT ![i] = Listening(sock[o].spec), ![o] = Drained(@)]
              /\ running' = [running EXCEPT ![n] = i]
      BY <1>6 DEF Rebind, FreeSlot
    <2>2. i # o /\ \A m \in Names : running[m] # i
      BY <1>1, <2>1, NilAssumption DEF RunningInv
    <2>3. /\ sock'[i].spec.addr = addr
          /\ ~sock'[o].open
          /\ \A j \in Socks : j # i /\ j # o => sock'[j] = sock[j]
          /\ running'[n] = i /\ \A m \in Names : m # n => running'[m] = running[m]
      BY <1>1, <1>2, <1>3, <2>1, <2>2 DEF TypeOK, Listening, Blank
    <2>4. \A j \in Socks : sock[j].open => sock[j].spec.addr # addr
      BY <1>1, <1>6 DEF Rebind, AddrFree
    <2>5. ASSUME NEW m \in Names, NEW j \in Socks, running'[m] # Nil, sock'[j].open,
                 sock'[j].spec.addr = config.specs[m].addr
          PROVE  j = running'[m] \/ InFresh(j)
      <3>1. CASE m = n
        BY <2>3, <2>4, <2>5, <3>1
      <3>2. CASE m # n /\ j = i
        BY <1>1, <1>4, <2>3, <2>5, <3>2, AddressesDiffer
      <3>3. CASE m # n /\ j # i
        BY <2>3, <2>5, <3>3 DEF AddressInv
      <3>. QED
        BY <3>1, <3>2, <3>3
    <2>6. ASSUME NEW m \in todo' PROVE ~sock'[running'[m]].open
      <3>1. m \in todo /\ m \in Names /\ m # n /\ running[m] # Nil
        BY <1>1 DEF PhaseInv, TypeOK
      <3>2. running'[m] = running[m] /\ running[m] \in Socks /\ running[m] # o
            /\ running[m] # i
        BY <1>4, <2>2, <2>3, <3>1
      <3>3. ~sock[running[m]].open
        BY <1>1, <3>1 DEF AddressInv, PhaseInv
      <3>. QED
        BY <2>3, <3>2, <3>3
    <2>. QED
      BY <1>1, <2>5, <2>6 DEF AddressInv, InFresh
  <1>. QED
    BY <1>5, <1>6

LEMMA CommitKeepsAddressInv ==
    ASSUME IInv, AddressInv, Commit
    PROVE  AddressInv'
  <1> USE DEF IInv
  <1>1. /\ mu = "bind" /\ todo = {} /\ mu' = "free" /\ stale' = {} /\ config' = next
        /\ next \in Configs /\ stale = StaleNames(next)
        /\ \A n \in Names : fresh[n] # Nil <=> n \in Missing(next)
    BY DEF Commit, PhaseInv
  <1>2. \A i \in Socks : sock'[i].open = sock[i].open /\ sock'[i].spec = sock[i].spec
    <2>1. \A i \in Socks : sock'[i] \in {sock[i], Drained(sock[i])}
      BY DEF Commit
    <2>2. \A i \in Socks : /\ Drained(sock[i]).open = sock[i].open
                           /\ Drained(sock[i]).spec = sock[i].spec
      BY DEF Drained, TypeOK, SockType
    <2>. QED
      BY <2>1, <2>2
  <1>3. \A n \in Names : running'[n] = IF fresh[n] # Nil THEN fresh[n]
                                        ELSE IF n \in stale THEN Nil ELSE running[n]
    BY DEF Commit
  <1>4. ASSUME NEW n \in Names, NEW i \in Socks, running'[n] # Nil, sock[i].open,
               sock[i].spec.addr = next.specs[n].addr
        PROVE  i = running'[n]
    <2>1. CASE fresh[n] # Nil
      BY <1>1, <1>3, <1>4, <2>1 DEF AddressInv
    <2>2. CASE fresh[n] = Nil
      <3>1. running'[n] = running[n] /\ running[n] # Nil /\ Kept(next, n)
        BY <1>1, <1>3, <1>4, <2>2 DEF StaleNames
      <3>2. config.specs[n] = next.specs[n] /\ n \in Bound(next)
        BY <3>1 DEF Kept, RunningInv
      <3>3. i = running[n] \/ InFresh(i)
        BY <1>4, <3>1, <3>2 DEF AddressInv
      <3>4. ~InFresh(i)
        <4> SUFFICES ASSUME NEW m \in Names, fresh[m] = i PROVE FALSE
          BY DEF InFresh
        <4>1. fresh[m] # Nil /\ m # n /\ sock[i].spec = next.specs[m] /\ m \in Bound(next)
          BY <1>1, <2>2, NilAssumption DEF FreshInv, Missing
        <4>. QED
          BY <1>1, <1>4, <3>2, <4>1, AddressesDiffer
      <3>. QED
        BY <3>1, <3>3, <3>4
    <2>. QED
      BY <2>1, <2>2
  <1>. QED
    BY <1>1, <1>2, <1>4 DEF AddressInv

LEMMA CallsKeepAddressInv ==
    ASSUME IInv, AddressInv, Calls \/ StartDone
    PROVE  AddressInv'
  <1> USE DEF IInv
  <1>1. ASSUME NEW c \in Configs, ApplyStopped(c) PROVE AddressInv'
    BY <1>1 DEF ApplyStopped, AddressInv, PhaseInv, NoListeners
  <1>2. ASSUME NEW c \in Configs, ApplyBegin(c) PROVE AddressInv'
    BY <1>2 DEF ApplyBegin, AddressInv, InFresh
  <1>3. CASE StartBegin
    BY <1>3 DEF StartBegin, AddressInv, PhaseInv, NoListeners
  <1>4. ASSUME NEW c \in Closers, ShutdownTake(c) PROVE AddressInv'
    BY <1>4 DEF ShutdownTake, AddressInv, PhaseInv, NoListeners, call
  <1>5. CASE StartDone
    <2>1. mu = "bind" /\ ~started /\ next = config /\ stale = {}
      BY <1>5 DEF StartDone, PhaseInv
    <2>. QED
      BY <1>5, <2>1 DEF StartDone, AddressInv
  <1>. QED
    BY <1>1, <1>2, <1>3, <1>4, <1>5 DEF Calls

LEMMA StepKeepsAddressInv ==
    ASSUME IInv, AddressInv, [Next]_vars
    PROVE  AddressInv'
  <1>1. CASE UNCHANGED <<config, running, mu, next, stale, todo, fresh, sock>>
    BY <1>1, QuietKeepsAddressInv
  <1>2. ASSUME NEW i \in Socks,
               Goroutines(i) \/ Request(i) \/ RequestEnds(i) \/ AcceptError(i)
        PROVE  AddressInv'
    BY <1>2, GoroutinesOpenNothing, QuietKeepsAddressInv
  <1>3. CASE Locked
    BY <1>3, StoppingKeepsAddressInv, BindKeepsAddressInv, UndoKeepsAddressInv,
       RebindKeepsAddressInv, CommitKeepsAddressInv, CallsKeepAddressInv DEF Locked
  <1>4. CASE \/ \E c \in Closers : CtxExpires(c) \/ ShutdownReturns(c)
             \/ \E a \in Addrs : ForeignBinds(a) \/ ForeignCloses(a)
    BY <1>1, <1>4 DEF CtxExpires, ShutdownReturns, ForeignBinds, ForeignCloses, call
  <1>. QED
    BY <1>1, <1>2, <1>3, <1>4, CallsKeepAddressInv DEF Next, Environment, vars

\* A listener lost by a step of a started server.
LEMMA LostToOthers ==
    ASSUME IInv, AddressInv, [Next]_vars, NEW n \in Names,
           started', running[n] # Nil, running'[n] = Nil, n \in Bound(config')
    PROVE  config'.specs[n].addr \in foreign
  <1> USE DEF IInv
  <1>1. ASSUME NEW m \in Names, RebindFails(m) PROVE config'.specs[n].addr \in foreign
    <2>1. /\ m = n /\ config' = config /\ mu = "rebind" /\ n \in todo /\ n \in stale
          /\ ~AddrFree(sock[running[n]].spec.addr)
      BY <1>1 DEF RebindFails, TypeOK, PhaseInv
    <2>2. sock[running[n]].spec = config.specs[n] /\ running[n] \in Socks
      BY DEF RunningInv, TypeOK
    <2>3. fresh = NoListeners /\ ~sock[running[n]].open
      BY <2>1 DEF PhaseInv, AddressInv
    <2>4. \A i \in Socks : sock[i].open => sock[i].spec.addr # config.specs[n].addr
      BY <2>2, <2>3, NilAssumption DEF AddressInv, InFresh, NoListeners
    <2>. QED
      BY <2>1, <2>2, <2>4 DEF AddrFree
  <1>2. CASE Commit
    <2>1. config' = next /\ fresh[n] = Nil /\ n \in stale
      BY <1>2 DEF Commit
    <2>2. n \notin Missing(next) /\ stale = StaleNames(next)
      BY <1>2, <2>1 DEF Commit, PhaseInv
    <2>. QED
      BY <2>1, <2>2 DEF Missing, StaleNames
  <1>3. ASSUME NEW m \in Names, Rebind(m) PROVE FALSE
    BY <1>3, NilAssumption DEF Rebind, TypeOK
  <1>4. CASE StartDone
    BY <1>4 DEF StartDone, PhaseInv, NoListeners
  <1>5. ASSUME NEW c \in Closers, ShutdownTake(c) PROVE FALSE
    BY <1>5 DEF ShutdownTake
  <1>6. CASE running' = running
    BY <1>6
  <1>7. CASE Locked
    BY <1>1, <1>2, <1>3, <1>4, <1>6, <1>7
       DEF Locked, StopMark, StopClose, Bind, BindFails, Undo, StopDone, UndoDone, RebindDone
  <1>8. CASE Calls
    BY <1>5, <1>6, <1>8 DEF Calls, ApplyStopped, ApplyBegin, StartBegin
  <1>9. ASSUME NEW i \in Socks,
               Goroutines(i) \/ Request(i) \/ RequestEnds(i) \/ AcceptError(i)
        PROVE  running' = running
    BY <1>9, GoroutinesOpenNothing
  <1>. QED
    BY <1>6, <1>7, <1>8, <1>9
       DEF Next, Environment, CtxExpires, ShutdownReturns, ForeignBinds, ForeignCloses, vars

-----------------------------------------------------------------------------
(* Theorems.                                                               *)

LEMMA InitIsPromised == Init => Promise!Init
  BY DEF Init, NoListeners, Table, Promise!Init, Promise!Nothing

LEMMA StepIsPromised ==
    ASSUME IInv, [Next]_vars
    PROVE  [Promise!Next]_(Promise!vars)
  <1>0. SameTable => UNCHANGED Promise!vars
    BY DEF SameTable, Promise!vars
  <1>1. ASSUME NEW n \in Names, StopMark(n) \/ StopClose(n) \/ Bind(n) \/ Undo(n) \/ Rebind(n)
        PROVE  SameTable
    BY <1>1, StopKeepsTable, BindKeepsTable, UndoKeepsTable, RebindKeepsTable
  <1>2. ASSUME NEW n \in Names, BindFails(n)
        PROVE  SameTable
    BY <1>2 DEF BindFails, SameTable, Table
  <1>3. CASE StopDone \/ UndoDone \/ RebindDone \/ StartBegin
             \/ \E c \in Configs : ApplyBegin(c)
    <2>1. SameTable
      BY <1>3 DEF StopDone, UndoDone, RebindDone, StartBegin, ApplyBegin, SameTable, Table
    <2>. QED
      BY <1>0, <2>1
  <1>4. ASSUME NEW n \in Names, RebindFails(n)
        PROVE  Promise!Next
    BY <1>4, RebindFailsLoses DEF Promise!Next
  <1>5. CASE Commit
    BY <1>5, CommitSwitches DEF Promise!Next
  <1>6. CASE StartDone
    BY <1>6, StartDoneStarts DEF Promise!Next
  <1>7. ASSUME NEW c \in Configs, ApplyStopped(c)
        PROVE  Promise!Next
    <2>1. Table' = Table /\ config' = c /\ ~started /\ started' = started
      BY <1>7 DEF ApplyStopped, Table
    <2>. QED
      BY <2>1 DEF Promise!Next, Promise!Switch
  <1>8. ASSUME NEW c \in Closers, ShutdownTake(c)
        PROVE  Promise!Next
    <2>1. Table' = Promise!Nothing
      BY <1>8 DEF ShutdownTake, NoListeners, Table, Promise!Nothing
    <2>. QED
      BY <1>8, <2>1 DEF ShutdownTake, Promise!Next, Promise!Stop
  <1>9. ASSUME NEW c \in Closers, CtxExpires(c) \/ ShutdownReturns(c)
        PROVE  SameTable
    BY <1>9 DEF CtxExpires, ShutdownReturns, SameTable, Table
  <1>10. ASSUME NEW i \in Socks,
                Goroutines(i) \/ Request(i) \/ RequestEnds(i) \/ AcceptError(i)
         PROVE  SameTable
    BY <1>10, GoroutinesMoveOneSlot, OneSlotKeepsTable
  <1>11. ASSUME NEW a \in Addrs, ForeignBinds(a) \/ ForeignCloses(a)
         PROVE  SameTable
    BY <1>11 DEF ForeignBinds, ForeignCloses, SameTable, Table
  <1>12. CASE UNCHANGED vars
    BY <1>0, <1>12 DEF vars, SameTable, Table
  <1>13. CASE Locked
    BY <1>0, <1>1, <1>2, <1>3, <1>4, <1>5, <1>6, <1>13 DEF Locked
  <1>14. CASE Calls
    BY <1>3, <1>7, <1>8, <1>14 DEF Calls
  <1>15. CASE Environment
    BY <1>0, <1>10, <1>11, <1>15 DEF Environment
  <1>. QED
    BY <1>0, <1>9, <1>10, <1>12, <1>13, <1>14, <1>15 DEF Next

\* Apply, Start and Shutdown switch configuration and listeners as one step
\* does, whatever fails and whoever interferes (server.go:189-192).
THEOREM Refines == Spec => SwitchIsAtomic
  BY InitIsPromised, StepIsPromised, Invariance, PTL DEF Spec, SwitchIsAtomic, Promise!Spec

\* A listener that the new configuration keeps goes on accepting through every
\* step of the change (server.go:224-229, 239-241).
THEOREM KeptStay == Spec => KeptListenersUntouched
  <1>1. ASSUME IInv, [Next]_vars
        PROVE  \A n \in Names : started /\ next # Nil /\ Kept(next, n) =>
                   running'[n] = running[n] /\ ~sock'[running[n]].closing
    <2>1. CASE Next
      BY <1>1, <2>1, StepLeavesKept DEF Untouched
    <2>2. CASE UNCHANGED vars
      BY <1>1, <2>2, KeptFacts DEF vars
    <2>. QED
      BY <1>1, <2>1, <2>2
  <1>. QED
    BY <1>1, Invariance, PTL DEF Spec, KeptListenersUntouched

\* When Healthy says so, every configured listener is bound (server.go:485-499).
THEOREM HealthIsReal == Spec => []HealthyMeansBound
  <1>1. Init => ServeInv
    BY DEF Init, ServeInv, Blank
  <1>2. IInv /\ ServeInv => HealthyMeansBound
    <2> SUFFICES ASSUME IInv, ServeInv, mu = "free", Healthy, NEW n \in Bound(config)
                 PROVE  sock[running[n]].open \/ sock[running[n]].serve = "accepting"
      BY DEF HealthyMeansBound
    <2>1. ~config.off /\ n \in Names
      BY DEF Bound
    <2>2. running[n] # Nil /\ ~sock[running[n]].failed
      BY <2>1 DEF Healthy, ListenerServes
    <2>3. running[n] \in Socks
      BY <2>1, <2>2 DEF IInv, TypeOK
    <2>4. sock[running[n]].state = "live" /\ ~sock[running[n]].closing
      BY <2>1, <2>2 DEF IInv, RunningInv
    <2>. QED
      BY <2>2, <2>3, <2>4 DEF ServeInv
  <1>. QED
    BY <1>1, <1>2, Invariance, StepKeepsServeInv, PTL DEF Spec

\* However stopAccepting and the Serve goroutines interleave, only Accept
\* errors make a listener report a failure (server.go:541-547, 552-561).
THEOREM FailuresAreFaults == Spec => []OnlyFaultsAreFailures
  <1>1. IInv /\ FailureInv => OnlyFaultsAreFailures
    <2> SUFFICES ASSUME IInv, FailureInv PROVE OnlyFaultsAreFailures
      OBVIOUS
    <2> DEFINE All == {i \in Socks : Doomed(sock[i])}
               Failed == {i \in Socks : sock[i].failed}
    <2>1. Failed \subseteq All
      BY DEF Doomed
    <2>2. IsFiniteSet(All) /\ Cardinality(All) <= faults /\ faults \in Nat
      BY DEF FailureInv, IInv, TypeOK
    <2>3. /\ Cardinality(Failed) <= Cardinality(All)
          /\ Cardinality(Failed) \in Nat /\ Cardinality(All) \in Nat
      BY <2>1, <2>2, FS_Subset, FS_CardinalityType
    <2>. QED
      BY <2>2, <2>3 DEF OnlyFaultsAreFailures
  <1>. QED
    BY <1>1, InitAddressInv, Invariance, StepKeepsFailureInv, PTL DEF Spec

\* A roll-back loses a listener only when another process has taken its
\* address (server.go:241-246, 332-347).
THEOREM LostToOtherProcesses == Spec => LostOnlyToOtherProcesses
  <1>1. ASSUME IInv, AddressInv, [Next]_vars
        PROVE  \A n \in Names :
                   started' /\ running[n] # Nil /\ running'[n] = Nil /\ n \in Bound(config')
                       => config'.specs[n].addr \in foreign
    BY <1>1, LostToOthers
  <1>. QED
    BY <1>1, InitAddressInv, Invariance, StepKeepsAddressInv, PTL
       DEF Spec, LostOnlyToOtherProcesses
=============================================================================
