------------------------------- MODULE EventLog -------------------------------
(***************************************************************************)
(* The ring of events.go.                                                  *)
(***************************************************************************)
EXTENDS Naturals, Sequences, SequencesExt

CONSTANT MaxEvents

ASSUME EventLogAssumption == MaxEvents \in Nat \ {0}

EmptyRing == [events |-> <<>>, next |-> 0]

\* Mutant of Add: next stays where it was.
AddInPlace(ring, event) ==
    IF Len(ring.events) < MaxEvents
    THEN [ring EXCEPT !.events = Append(@, event)]
    ELSE [ring EXCEPT !.events[ring.next + 1] = event]

\* Once the ring is full, the event at next, the oldest, is replaced.
Add(ring, event) ==
    IF Len(ring.events) < MaxEvents
    THEN [ring EXCEPT !.events = Append(@, event)]
    ELSE [events |-> [ring.events EXCEPT ![ring.next + 1] = event],
          next |-> (ring.next + 1) % MaxEvents]

AddAll(ring, events) == FoldLeft(Add, ring, events)

List(ring) == SubSeq(ring.events, ring.next + 1, Len(ring.events))
                  \o SubSeq(ring.events, 1, ring.next)

=============================================================================
