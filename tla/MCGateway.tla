----------------------------- MODULE MCGateway -----------------------------
(* Instances of Gateway for TLC: two listener names and two addresses.     *)
EXTENDS Gateway, TLC

CONSTANTS web, tls, a1, a2, l1, l2

At(a, l) == [addr |-> a, limits |-> l]
Cfg(w, t) == [off |-> FALSE, specs |-> (web :> w @@ tls :> t)]

Base    == Cfg(At(a1, l1), Nil)
Relimit == Cfg(At(a1, l2), Nil)           \* same address: stop before bind
Both    == Cfg(At(a1, l1), At(a2, l1))    \* web as in Base, tls added
Moved   == Cfg(At(a2, l1), Nil)           \* web takes the address tls has in Both
Off     == [Base EXCEPT !.off = TRUE]

\* Slots are interchangeable: nothing depends on which one listen picks.
SlotSymmetry == Permutations(Socks)

\* Listeners kept, added, removed, replaced at the same address, moved to an
\* address another one had.
ApplyConfigs   == {Base, Relimit, Both, Moved}
\* Listeners replaced at the same address, the gateway turned off and on.
OffConfigs     == {Base, Relimit, Off}
RestartConfigs == {Base, Relimit}
=============================================================================
