---------------------------- MODULE ClientAddress ----------------------------
(***************************************************************************)
(* Whom a request is taken to come from (clientip.go), and what the proxy  *)
(* tells the next server about it (setForwardedHeaders in proxy.go).       *)
(***************************************************************************)
EXTENDS Naturals, Sequences, SequencesExt

CONSTANTS Peers,      \* addresses
          Trusted,    \* those that the listener trusts
          Malformed,  \* a hop that is no address
          Self        \* this gateway's own address

ASSUME AddressAssumption ==
    /\ Trusted \subseteq Peers
    /\ {Malformed, Self} \cap Peers = {} /\ Malformed # Self

\* One hop of X-Forwarded-For, met from the right.
Hop(trusted, hop, walk) ==
    IF walk.over THEN walk
    ELSE IF hop = Malformed THEN [walk EXCEPT !.over = TRUE]
    ELSE [client |-> hop, over |-> hop \notin trusted]

\* Mutant of Resolve: the leftmost address is taken for the client's.
ResolveLeftmost(trusted, peer, hops) ==
    IF peer \notin trusted \/ hops = <<>> \/ Head(hops) = Malformed THEN peer ELSE Head(hops)

Resolve(trusted, peer, hops) ==
    IF peer \notin trusted THEN peer
    ELSE FoldRight(LAMBDA hop, walk : Hop(trusted, hop, walk), hops,
                   [client |-> peer, over |-> FALSE]).client

\* The X-Forwarded-For that goes on: a trusted peer's is extended by the peer,
\* any other's is discarded.
Forwarded(peer, hops) == IF peer \in Trusted THEN Append(hops, peer) ELSE <<peer>>

=============================================================================
