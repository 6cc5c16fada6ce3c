---------------------------- MODULE GatewayProofs ----------------------------
(***************************************************************************)
(* Proofs about Gateway for any names, addresses, configurations, Shutdown *)
(* callers and number of slots.  IInv, defined in Gateway, is inductive;   *)
(* type correctness, RunningMatchesConfig and NoOrphanedSocket follow.     *)
(***************************************************************************)
EXTENDS Gateway, TLAPS

LEMMA BoundSpecs ==
    ASSUME NEW c \in Configs, NEW n \in Bound(c)
    PROVE  n \in Names /\ c.specs[n] \in Specs
  BY ConfigsAssumption DEF Bound

LEMMA BlankType == Blank \in SockType
  BY DEF Blank, SockType

LEMMA RetireType ==
    ASSUME NEW s \in SockType
    PROVE  /\ Retire(s) \in SockType
           /\ s.state # "closed" => Retire(s) = s
           /\ s.state = "closed" => Retire(s).state \in {"free", "closed"}

  BY DEF Retire, Blank, SockType

LEMMA ListeningType ==
    ASSUME NEW s \in Specs
    PROVE  /\ Listening(s) \in SockType
           /\ Listening(s).state = "live" /\ ~Listening(s).closing
           /\ Listening(s).spec = s
  BY DEF Listening, Blank, SockType

LEMMA DrainedType ==
    ASSUME NEW s \in SockType
    PROVE  Drained(s) \in SockType /\ Drained(s).state = "leaving"
  BY DEF Drained, SockType

LEMMA LeavingType ==
    ASSUME NEW s \in SockType, NEW c \in Closers
    PROVE  /\ [s EXCEPT !.state = "leaving", !.by = c] \in SockType
           /\ [s EXCEPT !.state = "leaving", !.by = c].state = "leaving"
  BY DEF SockType

-----------------------------------------------------------------------------
(* Steps of the goroutines and of clients: they change one slot, and leave *)
(* a live one live, with its spec and its closing flag.                    *)

OneSlot(i) ==
    /\ sock' \in [Socks -> SockType]
    /\ \A j \in Socks : j # i => sock'[j] = sock[j]
    /\ sock[i].state = "live" =>
          /\ sock'[i].state = "live"
          /\ sock'[i].spec = sock[i].spec
          /\ sock'[i].closing = sock[i].closing
    /\ sock'[i].state = "live" => sock[i].state = "live"
    /\ sock'[i].open => sock'[i].state # "free"
    /\ sock'[i].open /\ sock'[i].state \in {"draining", "closed"} =>
          sock'[i].serve = "spawned"
    /\ UNCHANGED <<config, started, running, mu, call>>
    /\ closer' = closer /\ foreign' = foreign /\ faults' \in Nat

LEMMA OneSlotKeepsIInv ==
    ASSUME IInv, NEW i \in Socks, OneSlot(i)
    PROVE  IInv'
  <1> USE DEF IInv, OneSlot, call
  <1>1. TypeOK'
    BY DEF TypeOK
  <1>2. \A n \in Names : running[n] # Nil =>
            /\ sock'[running[n]].state = "live"
            /\ sock'[running[n]].spec = sock[running[n]].spec
            /\ sock'[running[n]].closing = sock[running[n]].closing
    BY DEF TypeOK, RunningInv
  <1>3. \A n \in Names : fresh[n] # Nil =>
            /\ sock'[fresh[n]].state = "live"
            /\ sock'[fresh[n]].spec = sock[fresh[n]].spec
            /\ sock'[fresh[n]].closing = sock[fresh[n]].closing
    BY DEF TypeOK, FreshInv
  <1>4. \A c, n : n \in Names => (Kept(c, n)' <=> Kept(c, n))
    BY <1>2 DEF Kept
  <1>5. PhaseInv'
    BY <1>4 DEF PhaseInv, StaleNames, Missing, Bound
  <1>6. RunningInv' /\ FreshInv' /\ SlotsDistinct'
    BY <1>2, <1>3 DEF RunningInv, FreshInv, SlotsDistinct
  <1>7. SlotsOwned'
    BY DEF SlotsOwned
  <1>. QED
    BY <1>1, <1>5, <1>6, <1>7

LEMMA GoroutinesMoveOneSlot ==
    ASSUME IInv, NEW i \in Socks,
           Goroutines(i) \/ Request(i) \/ RequestEnds(i) \/ AcceptError(i)
    PROVE  OneSlot(i)
  <1> DEFINE Facts == /\ sock' \in [Socks -> SockType]
                      /\ \A j \in Socks : j # i => sock'[j] = sock[j]
                      /\ sock[i].state = "live" =>
                            /\ sock'[i].state = "live"
                            /\ sock'[i].spec = sock[i].spec
                            /\ sock'[i].closing = sock[i].closing
                      /\ sock'[i].state = "live" => sock[i].state = "live"
                      /\ sock'[i].open => sock'[i].state # "free"
                      /\ sock'[i].open /\ sock'[i].state \in {"draining", "closed"}
                            => sock'[i].serve = "spawned"
  <1>0. sock \in [Socks -> SockType] /\ sock[i] \in SockType /\ faults \in Nat
    BY DEF IInv, TypeOK
  <1>1. CASE DrainBegins(i)
    <2>1. /\ sock' \in [Socks -> SockType]
          /\ \A j \in Socks : j # i => sock'[j] = sock[j]
      BY <1>0, <1>1 DEF DrainBegins, SockType
    <2>2. Facts
      BY <1>0, <1>1, <2>1 DEF IInv, SlotsOwned, DrainBegins, SockType
    <2>. QED
      BY <1>0, <1>1, <2>2 DEF DrainBegins, OneSlot, call, world
  <1>2. CASE DrainEnds(i)
    <2>1. /\ sock' \in [Socks -> SockType]
          /\ \A j \in Socks : j # i => sock'[j] = sock[j]
      BY <1>0, <1>2 DEF DrainEnds, SockType, Retire, Blank
    <2>2. Facts
      BY <1>0, <1>2, <2>1 DEF IInv, SlotsOwned, DrainEnds, SockType, Retire, Blank
    <2>. QED
      BY <1>0, <1>2, <2>2 DEF DrainEnds, OneSlot, call, world
  <1>3. CASE DrainTimesOut(i)
    <2>1. /\ sock' \in [Socks -> SockType]
          /\ \A j \in Socks : j # i => sock'[j] = sock[j]
      BY <1>0, <1>3 DEF DrainTimesOut, SockType, Retire, Blank
    <2>2. Facts
      BY <1>0, <1>3, <2>1 DEF IInv, SlotsOwned, DrainTimesOut, SockType, Retire, Blank
    <2>. QED
      BY <1>0, <1>3, <2>2 DEF DrainTimesOut, OneSlot, call, world
  <1>4. CASE ServeBegins(i)
    <2>1. /\ sock' \in [Socks -> SockType]
          /\ \A j \in Socks : j # i => sock'[j] = sock[j]
      BY <1>0, <1>4 DEF ServeBegins, SockType, Retire, Blank
    <2>2. Facts
      BY <1>0, <1>4, <2>1 DEF IInv, SlotsOwned, ServeBegins, SockType, Retire, Blank
    <2>. QED
      BY <1>0, <1>4, <2>2 DEF ServeBegins, OneSlot, call, world
  <1>5. CASE ServeReturns(i)
    <2>1. /\ sock' \in [Socks -> SockType]
          /\ \A j \in Socks : j # i => sock'[j] = sock[j]
      BY <1>0, <1>5 DEF ServeReturns, SockType, Retire, Blank
    <2>2. Facts
      BY <1>0, <1>5, <2>1 DEF IInv, SlotsOwned, ServeReturns, SockType, Retire, Blank
    <2>. QED
      BY <1>0, <1>5, <2>2 DEF ServeReturns, OneSlot, call, world
  <1>6. CASE Request(i)
    <2>1. /\ sock' \in [Socks -> SockType]
          /\ \A j \in Socks : j # i => sock'[j] = sock[j]
      BY <1>0, <1>6 DEF Request, SockType
    <2>2. Facts
      BY <1>0, <1>6, <2>1 DEF IInv, SlotsOwned, Request, SockType
    <2>. QED
      BY <1>0, <1>6, <2>2 DEF Request, OneSlot, call, world
  <1>7. CASE RequestEnds(i)
    <2>1. /\ sock' \in [Socks -> SockType]
          /\ \A j \in Socks : j # i => sock'[j] = sock[j]
      BY <1>0, <1>7 DEF RequestEnds, SockType, Retire, Blank
    <2>2. Facts
      BY <1>0, <1>7, <2>1 DEF IInv, SlotsOwned, RequestEnds, SockType, Retire, Blank
    <2>. QED
      BY <1>0, <1>7, <2>2 DEF RequestEnds, OneSlot, call, world
  <1>8. CASE AcceptError(i)
    <2>1. /\ sock' \in [Socks -> SockType]
          /\ \A j \in Socks : j # i => sock'[j] = sock[j]
      BY <1>0, <1>8 DEF AcceptError, SockType
    <2>2. Facts
      BY <1>0, <1>8, <2>1 DEF IInv, SlotsOwned, AcceptError, SockType
    <2>. QED
      BY <1>0, <1>8, <2>2 DEF AcceptError, OneSlot, call, world
  <1>. QED
    BY <1>1, <1>2, <1>3, <1>4, <1>5, <1>6, <1>7, <1>8 DEF Goroutines

-----------------------------------------------------------------------------
(* Steps of the call that holds the mutex.                                 *)

LEMMA InitIInv == Init => IInv
  <1> SUFFICES ASSUME Init PROVE IInv
    OBVIOUS
  <1> USE DEF Init, NoListeners
  <1>1. foreign \subseteq Addrs
    OBVIOUS
  <1>2. sock \in [Socks -> SockType] /\ \A i \in Socks : sock[i] = Blank
    BY BlankType
  <1>3. running \in [Names -> Socks \cup {Nil}] /\ fresh \in [Names -> Socks \cup {Nil}]
        /\ \A n \in Names : running[n] = Nil /\ fresh[n] = Nil
    OBVIOUS
  <1>4. closer \in [Closers -> {"idle", "closing", "expired"}]
    OBVIOUS
  <1>5. TypeOK
    BY <1>1, <1>2, <1>3, <1>4 DEF TypeOK
  <1>6. PhaseInv
    BY DEF PhaseInv
  <1>7. RunningInv /\ FreshInv /\ SlotsDistinct
    BY <1>3 DEF RunningInv, FreshInv, SlotsDistinct
  <1>8. SlotsOwned
    BY <1>2 DEF SlotsOwned, Blank
  <1>. QED
    BY <1>5, <1>6, <1>7, <1>8 DEF IInv

LEMMA ApplyBeginKeepsIInv ==
    ASSUME IInv, NEW c \in Configs, ApplyStopped(c) \/ ApplyBegin(c)
    PROVE  IInv'
  <1> USE DEF IInv, call, world
  <1>1. CASE ApplyStopped(c)
    <2> USE <1>1 DEF ApplyStopped
    <2>1. TypeOK'
      BY DEF TypeOK
    <2>2. PhaseInv'
      BY DEF PhaseInv
    <2>3. RunningInv' /\ FreshInv' /\ SlotsDistinct' /\ SlotsOwned'
      BY DEF PhaseInv, NoListeners, RunningInv, FreshInv, SlotsDistinct, SlotsOwned
    <2>. QED
      BY <2>1, <2>2, <2>3
  <1>2. CASE ApplyBegin(c)
    <2> USE <1>2 DEF ApplyBegin
    <2>1. TypeOK'
      BY DEF TypeOK, StaleNames
    <2>2. StaleNames(c)' = StaleNames(c)
      BY DEF StaleNames, Kept, Bound
    <2>3. PhaseInv'
      BY <2>2 DEF PhaseInv, StaleNames, Kept, Bound
    <2>4. RunningInv' /\ FreshInv' /\ SlotsDistinct' /\ SlotsOwned'
      BY DEF PhaseInv, NoListeners, RunningInv, FreshInv, SlotsDistinct, SlotsOwned
    <2>. QED
      BY <2>1, <2>3, <2>4
  <1>. QED
    BY <1>1, <1>2

\* What the stopped listeners' slots keep, whichever half of stopAccepting.
LEMMA StopKeepsIInv ==
    ASSUME IInv, NEW n \in Names, StopMark(n) \/ StopClose(n)
    PROVE  IInv'
  <1> USE DEF IInv, call, world
  <1>1. /\ running[n] \in Socks /\ running[n] # Nil /\ started /\ mu = "stop"
        /\ mu' = "stop" /\ n \in stale /\ fresh = NoListeners
    BY NilAssumption DEF StopMark, StopClose, PhaseInv, StaleNames, TypeOK
  <1>2. sock[running[n]] \in SockType
    BY <1>1 DEF TypeOK
  <1>3. /\ sock' \in [Socks -> SockType]
        /\ \A j \in Socks : j # running[n] => sock'[j] = sock[j]
    <2>1. CASE StopMark(n)
      BY <1>2, <2>1 DEF StopMark, TypeOK, SockType
    <2>2. CASE StopClose(n)
      BY <1>2, <2>2 DEF StopClose, TypeOK, SockType
    <2>. QED
      BY <2>1, <2>2
  <1>4. /\ sock'[running[n]].state = sock[running[n]].state
        /\ sock'[running[n]].spec = sock[running[n]].spec
        /\ sock'[running[n]].serve = sock[running[n]].serve
        /\ sock'[running[n]].open => sock[running[n]].open
    <2>1. CASE StopMark(n)
      BY <1>1, <1>2, <2>1 DEF StopMark, TypeOK, SockType
    <2>2. CASE StopClose(n)
      BY <1>1, <1>2, <2>2 DEF StopClose, TypeOK, SockType
    <2>. QED
      BY <2>1, <2>2
  <1>5. UNCHANGED <<config, started, running, mu, next, stale, fresh, closer, foreign, faults>>
        /\ todo' \subseteq todo
    BY DEF StopMark, StopClose
  <1>6. TypeOK'
    BY <1>3, <1>5 DEF TypeOK
  <1>7. \A c, m : m \in Names => (Kept(c, m)' <=> Kept(c, m))
    BY <1>3, <1>4, <1>5 DEF Kept, TypeOK
  <1>8. PhaseInv'
    BY <1>1, <1>5, <1>7 DEF PhaseInv, StaleNames, Bound
  <1>9. RunningInv' /\ FreshInv' /\ SlotsDistinct'
    BY <1>1, <1>3, <1>4, <1>5
       DEF TypeOK, RunningInv, FreshInv, SlotsDistinct, NoListeners
  <1>10. SlotsOwned'
    BY <1>3, <1>4, <1>5 DEF SlotsOwned
  <1>. QED
    BY <1>6, <1>8, <1>9, <1>10

LEMMA StopDoneKeepsIInv ==
    ASSUME IInv, StopDone
    PROVE  IInv'
  <1> USE DEF IInv, StopDone, world
  <1>1. TypeOK'
    BY ConfigsAssumption DEF TypeOK, PhaseInv, Missing, Bound
  <1>2. \A c, m : m \in Names => (Kept(c, m)' <=> Kept(c, m))
    BY DEF Kept
  <1>3. PhaseInv'
    BY <1>2 DEF PhaseInv, NoListeners, StaleNames, Missing, Bound
  <1>4. RunningInv' /\ FreshInv' /\ SlotsDistinct' /\ SlotsOwned'
    BY DEF PhaseInv, NoListeners, RunningInv, FreshInv, SlotsDistinct, SlotsOwned
  <1>. QED
    BY <1>1, <1>3, <1>4

LEMMA BindKeepsIInv ==
    ASSUME IInv, NEW n \in Names, Bind(n)
    PROVE  IInv'
  <1> USE DEF IInv
  <1>1. PICK i \in Socks :
            /\ sock[i].state = "free"
            /\ sock' = [sock EXCEPT ![i] = Listening(next.specs[n])]
            /\ fresh' = [fresh EXCEPT ![n] = i]
    BY DEF Bind, FreeSlot
  <1>2. /\ mu = "bind" /\ mu' = "bind" /\ n \in todo /\ todo' = todo \ {n}
        /\ next \in Configs /\ n \in Bound(next) /\ next.specs[n] \in Specs
        /\ todo \subseteq Missing(next) /\ i # Nil
        /\ UNCHANGED <<config, started, running, next, stale, closer, foreign, faults>>
    BY BoundSpecs, NilAssumption DEF Bind, world, PhaseInv, Missing
  <1>3. /\ sock'[i] = Listening(next.specs[n])
        /\ \A j \in Socks : j # i => sock'[j] = sock[j]
        /\ sock' \in [Socks -> SockType]
    BY <1>1, <1>2, ListeningType DEF TypeOK
  <1>4. /\ sock'[i].state = "live" /\ ~sock'[i].closing
        /\ sock'[i].spec = next.specs[n]
    BY <1>2, <1>3, ListeningType
  <1>5. fresh'[n] = i /\ \A m \in Names : m # n => fresh'[m] = fresh[m]
    BY <1>1 DEF TypeOK
  <1>6. \A m \in Names : running[m] # i /\ fresh[m] # i
    BY <1>1, <1>2 DEF RunningInv, FreshInv
  <1>7. TypeOK'
    BY <1>1, <1>2, <1>3 DEF TypeOK
  <1>8. \A c, m : m \in Names => (Kept(c, m)' <=> Kept(c, m))
    BY <1>2, <1>3, <1>6 DEF Kept, TypeOK
  <1>9. PhaseInv'
    <2>1. StaleNames(next)' = StaleNames(next) /\ Missing(next)' = Missing(next)
      BY <1>2, <1>8 DEF StaleNames, Missing, Bound
    <2>2. \A m \in Names : fresh'[m] # Nil <=> m \in Missing(next) \ todo'
      BY <1>2, <1>5 DEF PhaseInv
    <2>. QED
      BY <1>2, <2>1, <2>2 DEF PhaseInv
  <1>10. RunningInv'
    BY <1>2, <1>3, <1>6 DEF RunningInv, TypeOK
  <1>11. FreshInv'
    BY <1>2, <1>3, <1>4, <1>5, <1>6 DEF FreshInv, TypeOK
  <1>12. SlotsDistinct'
    BY <1>2, <1>5, <1>6 DEF SlotsDistinct
  <1>13. SlotsOwned'
    <2>1. \A m \in Names : fresh[m] = i \/ m # n \/ fresh[m] = Nil
      BY <1>2 DEF PhaseInv
    <2>. QED
      BY <1>2, <1>3, <1>4, <1>5, <2>1, NilAssumption DEF SlotsOwned
  <1>. QED
    BY <1>7, <1>9, <1>10, <1>11, <1>12, <1>13

LEMMA BindFailsKeepsIInv ==
    ASSUME IInv, NEW n \in Names, BindFails(n)
    PROVE  IInv'
  <1> USE DEF IInv, BindFails, call, world
  <1>1. TypeOK'
    BY DEF TypeOK
  <1>2. PhaseInv'
    BY DEF PhaseInv, StaleNames, Kept, Bound
  <1>3. RunningInv' /\ FreshInv' /\ SlotsDistinct' /\ SlotsOwned'
    BY DEF RunningInv, FreshInv, SlotsDistinct, SlotsOwned
  <1>. QED
    BY <1>1, <1>2, <1>3

LEMMA UndoKeepsIInv ==
    ASSUME IInv, NEW n \in Names, Undo(n)
    PROVE  IInv'
  <1> USE DEF IInv
  <1> DEFINE i == fresh[n]
  <1>1. /\ mu = "undo" /\ mu' = "undo" /\ i \in Socks /\ i # Nil
        /\ UNCHANGED <<config, started, running, next, stale, todo, closer, foreign, faults>>
        /\ fresh' = [fresh EXCEPT ![n] = Nil]
    BY DEF Undo, TypeOK, world
  <1>2. sock[i] \in SockType
    BY <1>1 DEF TypeOK
  <1>3. /\ sock' \in [Socks -> SockType]
        /\ \A j \in Socks : j # i => sock'[j] = sock[j]
    BY <1>1, <1>2 DEF Undo, TypeOK, SockType, Retire, Blank
  <1>4. sock'[i].state \in {"closed", "free"} /\ ~sock'[i].open
    BY <1>1, <1>2, <1>3 DEF Undo, TypeOK, SockType, Retire, Blank
  <1>5. fresh'[n] = Nil /\ \A m \in Names : m # n => fresh'[m] = fresh[m]
    BY <1>1 DEF TypeOK
  <1>6. \A m \in Names : (running[m] # i) /\ (m # n => fresh[m] # i)
    BY <1>1 DEF SlotsDistinct
  <1>7. TypeOK'
    BY <1>1, <1>3, <1>5 DEF TypeOK
  <1>8. PhaseInv'
    <2>1. \A c, m : m \in Names => (Kept(c, m)' <=> Kept(c, m))
      BY <1>1, <1>3, <1>6 DEF Kept, TypeOK
    <2>2. StaleNames(next)' = StaleNames(next)
      BY <1>1, <2>1 DEF StaleNames
    <2>. QED
      BY <1>1, <2>2 DEF PhaseInv
  <1>9. RunningInv' /\ FreshInv' /\ SlotsDistinct'
    BY <1>1, <1>3, <1>5, <1>6 DEF RunningInv, FreshInv, SlotsDistinct, TypeOK
  <1>10. SlotsOwned'
    BY <1>1, <1>3, <1>4, <1>5, <1>6 DEF SlotsOwned
  <1>. QED
    BY <1>7, <1>8, <1>9, <1>10

LEMMA UndoDoneKeepsIInv ==
    ASSUME IInv, UndoDone
    PROVE  IInv'
  <1> USE DEF IInv, UndoDone, world
  <1>1. TypeOK'
    BY DEF TypeOK
  <1>2. PhaseInv'
    BY DEF PhaseInv, NoListeners
  <1>3. RunningInv'
    BY DEF RunningInv, PhaseInv, NoListeners
  <1>4. FreshInv' /\ SlotsDistinct' /\ SlotsOwned'
    BY DEF FreshInv, SlotsDistinct, SlotsOwned, NoListeners
  <1>. QED
    BY <1>1, <1>2, <1>3, <1>4

LEMMA RebindKeepsIInv ==
    ASSUME IInv, NEW n \in Names, Rebind(n)
    PROVE  IInv'
  <1> USE DEF IInv
  <1> DEFINE o == running[n]
  <1>1. PICK i \in Socks :
            /\ sock[i].state = "free"
            /\ sock' = [sock EXCEPT ![i] = Listening(sock[o].spec), ![o] = Drained(@)]
            /\ running' = [running EXCEPT ![n] = i]
    BY DEF Rebind, FreeSlot
  <1>2. /\ mu = "rebind" /\ mu' = "rebind" /\ n \in todo /\ todo' = todo \ {n}
        /\ n \in stale /\ started
        /\ fresh = NoListeners /\ \A m \in Names : fresh[m] = Nil
        /\ o # Nil /\ o \in Socks /\ i # Nil /\ i # o
        /\ UNCHANGED <<config, started, next, stale, fresh, closer, foreign, faults>>
    BY <1>1, NilAssumption
       DEF Rebind, world, PhaseInv, NoListeners, TypeOK, RunningInv
  <1>3. n \in Bound(config) /\ sock[o].spec = config.specs[n] /\ sock[o].spec \in Specs
    BY <1>2, BoundSpecs DEF RunningInv, TypeOK
  <1>4. /\ sock'[i] = Listening(sock[o].spec)
        /\ sock'[o] = Drained(sock[o])
        /\ \A j \in Socks : j # i /\ j # o => sock'[j] = sock[j]
        /\ sock' \in [Socks -> SockType]
    BY <1>1, <1>2, <1>3, ListeningType, DrainedType DEF TypeOK
  <1>5. /\ sock'[i].state = "live" /\ ~sock'[i].closing
        /\ sock'[i].spec = config.specs[n]
        /\ sock'[o].state = "leaving"
    BY <1>2, <1>3, <1>4, ListeningType, DrainedType DEF TypeOK
  <1>6. running'[n] = i /\ \A m \in Names : m # n => running'[m] = running[m]
    BY <1>1 DEF TypeOK
  <1>7. \A m \in Names : running[m] # i /\ (m # n => running[m] # o)
    BY <1>1, <1>2 DEF RunningInv, SlotsDistinct
  <1>8. TypeOK'
    BY <1>1, <1>2, <1>4, <1>6 DEF TypeOK
  <1>9. PhaseInv'
    BY <1>2, <1>6 DEF PhaseInv, TypeOK
  <1>10. RunningInv'
    BY <1>2, <1>3, <1>4, <1>5, <1>6, <1>7 DEF RunningInv, TypeOK
  <1>11. FreshInv' /\ SlotsDistinct'
    BY <1>2, <1>6, <1>7 DEF FreshInv, SlotsDistinct, TypeOK
  <1>12. SlotsOwned'
    BY <1>2, <1>4, <1>5, <1>6, <1>7 DEF SlotsOwned
  <1>. QED
    BY <1>8, <1>9, <1>10, <1>11, <1>12

LEMMA RebindFailsKeepsIInv ==
    ASSUME IInv, NEW n \in Names, RebindFails(n)
    PROVE  IInv'
  <1> USE DEF IInv
  <1> DEFINE o == running[n]
  <1>1. /\ mu = "rebind" /\ mu' = "rebind" /\ n \in todo /\ todo' = todo \ {n}
        /\ started /\ \A m \in Names : fresh[m] = Nil
        /\ o # Nil /\ o \in Socks
        /\ sock' = [sock EXCEPT ![o] = Drained(@)]
        /\ UNCHANGED <<config, started, next, stale, fresh, closer, foreign, faults>>
    BY DEF RebindFails, world, PhaseInv, NoListeners, TypeOK
  <1>2. /\ sock'[o].state = "leaving"
        /\ \A j \in Socks : j # o => sock'[j] = sock[j]
        /\ sock' \in [Socks -> SockType]
    BY <1>1, DrainedType DEF TypeOK
  <1>3. /\ running'[n] = Nil /\ \A m \in Names : m # n => running'[m] = running[m]
        /\ running' \in [Names -> Socks \cup {Nil}]
    BY DEF RebindFails, TypeOK
  <1>4. \A m \in Names : m # n => running[m] # o
    BY <1>1 DEF SlotsDistinct
  <1>5. TypeOK'
    BY <1>1, <1>2, <1>3 DEF TypeOK
  <1>6. PhaseInv'
    BY <1>1, <1>3 DEF PhaseInv, TypeOK
  <1>7. RunningInv'
    BY <1>1, <1>2, <1>3, <1>4 DEF RunningInv, TypeOK
  <1>8. FreshInv' /\ SlotsDistinct'
    BY <1>1, <1>3 DEF FreshInv, SlotsDistinct, TypeOK
  <1>9. SlotsOwned'
    BY <1>1, <1>2, <1>3, <1>4 DEF SlotsOwned
  <1>. QED
    BY <1>5, <1>6, <1>7, <1>8, <1>9

LEMMA RebindDoneKeepsIInv ==
    ASSUME IInv, RebindDone
    PROVE  IInv'
  <1> USE DEF IInv, RebindDone, world
  <1>0. next = Nil /\ fresh = NoListeners
    BY DEF PhaseInv
  <1>1. TypeOK'
    BY <1>0 DEF TypeOK
  <1>2. PhaseInv'
    BY <1>0 DEF PhaseInv
  <1>3. RunningInv'
    BY DEF RunningInv
  <1>4. FreshInv' /\ SlotsDistinct' /\ SlotsOwned'
    BY DEF FreshInv, SlotsDistinct, SlotsOwned
  <1>. QED
    BY <1>1, <1>2, <1>3, <1>4

LEMMA CommitKeepsIInv ==
    ASSUME IInv, Commit
    PROVE  IInv'
  <1> USE DEF IInv
  <1>1. /\ mu = "bind" /\ mu' = "free" /\ todo = {} /\ todo' = {} /\ started
        /\ next \in Configs /\ stale = StaleNames(next) /\ config' = next
        /\ next' = Nil /\ stale' = {} /\ fresh' = NoListeners
        /\ UNCHANGED <<started, closer, foreign, faults>>
        /\ \A n \in Names : fresh[n] # Nil <=> n \in Missing(next)
    BY DEF Commit, PhaseInv, world
  <1>2. /\ sock' \in [Socks -> SockType]
        /\ \A i \in Socks : (\A n \in stale : running[n] # i) => sock'[i] = sock[i]
        /\ \A i \in Socks : (\E n \in stale : running[n] = i) => sock'[i].state = "leaving"
    BY DrainedType DEF Commit, TypeOK
  <1>3. \A n \in Names : running'[n] = IF fresh[n] # Nil THEN fresh[n]
                                        ELSE IF n \in stale THEN Nil ELSE running[n]
    BY DEF Commit
  <1>4. \A n \in Names : running'[n] # Nil =>
            /\ running'[n] \in Socks
            /\ sock'[running'[n]] = sock[running'[n]]
            /\ n \in Bound(next)
            /\ sock[running'[n]].spec = next.specs[n]
            /\ sock[running'[n]].state = "live"
            /\ ~sock[running'[n]].closing
    <2> SUFFICES ASSUME NEW n \in Names, running'[n] # Nil
                 PROVE  /\ running'[n] \in Socks
                        /\ sock'[running'[n]] = sock[running'[n]]
                        /\ n \in Bound(next)
                        /\ sock[running'[n]].spec = next.specs[n]
                        /\ sock[running'[n]].state = "live"
                        /\ ~sock[running'[n]].closing
      OBVIOUS
    <2>1. CASE fresh[n] # Nil
      <3>1. running'[n] = fresh[n] /\ n \in Bound(next)
        BY <1>1, <1>3, <2>1 DEF Missing
      <3>2. \A m \in stale : running[m] # fresh[n]
        BY <2>1 DEF SlotsDistinct, TypeOK
      <3>. QED
        BY <1>1, <1>2, <2>1, <3>1, <3>2 DEF FreshInv, TypeOK
    <2>2. CASE fresh[n] = Nil
      <3>1. running'[n] = running[n] /\ running[n] # Nil /\ n \notin stale
        BY <1>3, <2>2
      <3>2. Kept(next, n)
        BY <1>1, <3>1 DEF StaleNames
      <3>3. \A m \in stale : running[m] # running[n]
        BY <3>1 DEF SlotsDistinct, TypeOK
      <3>4. ~sock[running[n]].closing /\ sock[running[n]].state = "live"
        BY <3>1 DEF RunningInv
      <3>. QED
        BY <1>2, <3>1, <3>2, <3>3, <3>4 DEF Kept, TypeOK
    <2>. QED
      BY <2>1, <2>2
  <1>5. \A n \in Names : fresh'[n] = Nil
    BY <1>1 DEF NoListeners
  <1>6. TypeOK'
    <2>1. running' \in [Names -> Socks \cup {Nil}]
      BY DEF Commit, TypeOK
    <2>2. fresh' \in [Names -> Socks \cup {Nil}]
      BY <1>1 DEF NoListeners
    <2>. QED
      BY <1>1, <1>2, <2>1, <2>2 DEF TypeOK
  <1>7. PhaseInv'
    BY <1>1 DEF PhaseInv
  <1>8. RunningInv'
    BY <1>1, <1>4 DEF RunningInv
  <1>9. FreshInv'
    BY <1>5 DEF FreshInv
  <1>10. SlotsDistinct'
    BY <1>3, <1>5 DEF SlotsDistinct
  <1>11. SlotsOwned'
    <2> SUFFICES ASSUME NEW i \in Socks
                 PROVE  /\ sock'[i].state = "live" => \E n \in Names : running'[n] = i \/ fresh'[n] = i
                        /\ sock'[i].open => sock'[i].state # "free"
                        /\ sock'[i].open /\ sock'[i].state \in {"draining", "closed"} =>
                              sock'[i].serve = "spawned"
      BY DEF SlotsOwned
    <2>1. CASE \E n \in stale : running[n] = i
      BY <1>2, <2>1
    <2>2. CASE \A n \in stale : running[n] # i
      <3>1. sock'[i] = sock[i]
        BY <1>2, <2>2
      <3>2. sock[i].state = "live" => \E n \in Names : running'[n] = i
        BY <1>1, <1>3, <2>2, NilAssumption DEF SlotsOwned, StaleNames, Missing, Kept
      <3>. QED
        BY <3>1, <3>2 DEF SlotsOwned
    <2>. QED
      BY <2>1, <2>2
  <1>. QED
    BY <1>6, <1>7, <1>8, <1>9, <1>10, <1>11

LEMMA StartKeepsIInv ==
    ASSUME IInv, StartBegin \/ StartDone
    PROVE  IInv'
  <1> USE DEF IInv, world
  <1>1. CASE StartBegin
    <2> USE <1>1 DEF StartBegin
    <2>1. \A n \in Names : running[n] = Nil /\ fresh[n] = Nil
      BY DEF PhaseInv, NoListeners
    <2>2. TypeOK'
      BY DEF TypeOK, Bound
    <2>3. PhaseInv'
      BY <2>1 DEF PhaseInv, StaleNames, Missing, Kept, Bound, TypeOK
    <2>4. RunningInv' /\ FreshInv' /\ SlotsDistinct' /\ SlotsOwned'
      BY <2>1 DEF RunningInv, FreshInv, SlotsDistinct, SlotsOwned
    <2>. QED
      BY <2>2, <2>3, <2>4
  <1>2. CASE StartDone
    <2> USE <1>2 DEF StartDone
    <2>1. \A n \in Names : running[n] = Nil /\ fresh'[n] = Nil
      BY DEF PhaseInv, NoListeners
    <2>2. TypeOK'
      BY DEF TypeOK, NoListeners
    <2>3. PhaseInv'
      BY DEF PhaseInv
    <2>4. RunningInv'
      BY DEF PhaseInv, FreshInv, RunningInv, Missing
    <2>5. FreshInv' /\ SlotsDistinct'
      BY <2>1 DEF FreshInv, SlotsDistinct
    <2>6. SlotsOwned'
      BY <2>1, NilAssumption DEF SlotsOwned
    <2>. QED
      BY <2>2, <2>3, <2>4, <2>5, <2>6
  <1>. QED
    BY <1>1, <1>2

LEMMA ShutdownKeepsIInv ==
    ASSUME IInv, NEW c \in Closers,
           ShutdownTake(c) \/ CtxExpires(c) \/ ShutdownReturns(c)
    PROVE  IInv'
  <1> USE DEF IInv, call, world
  <1>1. CASE ShutdownTake(c)
    <2>1. /\ mu = "free" /\ mu' = "free" /\ started' = FALSE /\ running' = NoListeners
          /\ UNCHANGED <<config, next, stale, todo, fresh, foreign, faults>>
          /\ closer' = [closer EXCEPT ![c] = "closing"]
          /\ \A n \in Names : running'[n] = Nil /\ fresh[n] = Nil
      BY <1>1 DEF ShutdownTake, PhaseInv, NoListeners
    <2>2. /\ sock' \in [Socks -> SockType]
          /\ \A i \in Socks : (\A n \in Names : running[n] # i) => sock'[i] = sock[i]
          /\ \A i \in Socks : (\E n \in Names : running[n] = i) => sock'[i].state = "leaving"
      <3>0. \A i \in Socks : sock[i] \in SockType
        BY DEF TypeOK
      <3>1. \A i \in Socks : [sock[i] EXCEPT !.state = "leaving", !.by = c] \in SockType
        BY <3>0, LeavingType
      <3>2. \A i \in Socks : [sock[i] EXCEPT !.state = "leaving", !.by = c].state = "leaving"
        BY <3>0, LeavingType
      <3>3. sock' = [i \in Socks |-> IF \E n \in Names : running[n] = i
                                     THEN [sock[i] EXCEPT !.state = "leaving", !.by = c]
                                     ELSE sock[i]]
        BY <1>1 DEF ShutdownTake
      <3>. QED
        BY <3>1, <3>2, <3>3 DEF TypeOK
    <2>3. TypeOK'
      BY <2>1, <2>2 DEF TypeOK, NoListeners
    <2>4. PhaseInv'
      BY <2>1 DEF PhaseInv
    <2>5. RunningInv' /\ FreshInv' /\ SlotsDistinct'
      BY <2>1 DEF RunningInv, FreshInv, SlotsDistinct
    <2>6. SlotsOwned'
      BY <2>1, <2>2, NilAssumption DEF SlotsOwned
    <2>. QED
      BY <2>3, <2>4, <2>5, <2>6
  <1>2. CASE CtxExpires(c) \/ ShutdownReturns(c)
    <2> USE <1>2 DEF CtxExpires, ShutdownReturns
    <2>1. TypeOK'
      BY DEF TypeOK
    <2>2. PhaseInv'
      BY DEF PhaseInv, StaleNames, Missing, Kept
    <2>3. RunningInv' /\ FreshInv' /\ SlotsDistinct' /\ SlotsOwned'
      BY DEF RunningInv, FreshInv, SlotsDistinct, SlotsOwned
    <2>. QED
      BY <2>1, <2>2, <2>3
  <1>. QED
    BY <1>1, <1>2

LEMMA ForeignKeepsIInv ==
    ASSUME IInv, NEW a \in Addrs, ForeignBinds(a) \/ ForeignCloses(a)
    PROVE  IInv'
  <1> USE DEF IInv, call, ForeignBinds, ForeignCloses
  <1>1. TypeOK'
    BY DEF TypeOK
  <1>2. PhaseInv'
    BY DEF PhaseInv, StaleNames, Missing, Kept
  <1>3. RunningInv' /\ FreshInv' /\ SlotsDistinct' /\ SlotsOwned'
    BY DEF RunningInv, FreshInv, SlotsDistinct, SlotsOwned
  <1>. QED
    BY <1>1, <1>2, <1>3

-----------------------------------------------------------------------------
(* Theorems.                                                               *)

LEMMA StepKeepsIInv ==
    ASSUME IInv, [Next]_vars
    PROVE  IInv'
  <1>1. CASE Locked
    BY <1>1, StopKeepsIInv, StopDoneKeepsIInv, BindKeepsIInv, BindFailsKeepsIInv,
       UndoKeepsIInv, UndoDoneKeepsIInv, RebindKeepsIInv, RebindFailsKeepsIInv,
       RebindDoneKeepsIInv, CommitKeepsIInv, StartKeepsIInv
    DEF Locked
  <1>2. CASE Calls
    BY <1>2, ApplyBeginKeepsIInv, StartKeepsIInv, ShutdownKeepsIInv DEF Calls
  <1>3. CASE \E c \in Closers : CtxExpires(c) \/ ShutdownReturns(c)
    BY <1>3, ShutdownKeepsIInv
  <1>4. CASE \E i \in Socks : Goroutines(i)
    BY <1>4, GoroutinesMoveOneSlot, OneSlotKeepsIInv
  <1>5. CASE Environment
    BY <1>5, GoroutinesMoveOneSlot, OneSlotKeepsIInv, ForeignKeepsIInv DEF Environment
  <1>6. CASE UNCHANGED vars
    <2> USE <1>6 DEF IInv, vars
    <2>1. TypeOK'
      BY DEF TypeOK
    <2>2. PhaseInv'
      BY DEF PhaseInv, StaleNames, Missing, Kept
    <2>3. RunningInv' /\ FreshInv' /\ SlotsDistinct' /\ SlotsOwned'
      BY DEF RunningInv, FreshInv, SlotsDistinct, SlotsOwned
    <2>. QED
      BY <2>1, <2>2, <2>3
  <1>. QED
    BY <1>1, <1>2, <1>3, <1>4, <1>5, <1>6 DEF Next

LEMMA Invariance == Spec => []IInv
  BY InitIInv, StepKeepsIInv, PTL DEF Spec

\* Type correctness: every variable of the lifecycle keeps its shape.
THEOREM TypeCorrect == Spec => []TypeOK
  BY Invariance, PTL DEF IInv

\* Between two calls Server.running agrees with the active configuration,
\* whatever Start, Apply, roll-back, Shutdown and the network did before.
THEOREM RunningMatches == Spec => []RunningMatchesConfig
  <1>1. IInv => RunningMatchesConfig
    BY DEF IInv, PhaseInv, RunningInv, RunningMatchesConfig, NoListeners
  <1>. QED
    BY <1>1, Invariance, PTL

\* No socket is ever left accepting with nobody to close it.
THEOREM NoOrphans == Spec => []NoOrphanedSocket
  <1>1. IInv => NoOrphanedSocket
    BY DEF IInv, TypeOK, SockType, SlotsOwned, NoOrphanedSocket
  <1>. QED
    BY <1>1, Invariance, PTL
=============================================================================
