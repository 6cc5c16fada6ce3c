------------------------------ MODULE HostTable ------------------------------
(***************************************************************************)
(* The table of hosts.go: exact names, wildcards of one label and the      *)
(* catch-all, used for sites and for certificates alike.  A name is the    *)
(* sequence of its labels after normalizeHost; the first label of a        *)
(* pattern may be the star.                                                *)
(***************************************************************************)
EXTENDS Naturals, Sequences

Star == "*"
CatchAll == <<Star>>

Name == Seq(STRING) \ {<<>>}

ASSUME LabelAssumption == Star \in STRING

IsWildcard(pattern) == Len(pattern) > 1 /\ Head(pattern) = Star
IsConcrete(pattern) == Head(pattern) # Star

\* wildcard is keyed by the parent domain; fallback holds at most one value.
NewTable == [exact |-> <<>>, wildcard |-> <<>>, fallback |-> {}]

Put(entries, key, value) ==
    [k \in DOMAIN entries \cup {key} |-> IF k = key THEN value ELSE entries[k]]

Store(table, pattern, value) ==
    IF pattern = CatchAll THEN [table EXCEPT !.fallback = {value}]
    ELSE IF IsWildcard(pattern)
    THEN [table EXCEPT !.wildcard = Put(@, Tail(pattern), value)]
    ELSE [table EXCEPT !.exact = Put(@, pattern, value)]

\* Lookups yield the set of the value found, or the empty set.
At(entries, key) == IF key \in DOMAIN entries THEN {entries[key]} ELSE {}

Stored(table, pattern) ==
    IF pattern = CatchAll THEN table.fallback
    ELSE IF IsWildcard(pattern) THEN At(table.wildcard, Tail(pattern))
    ELSE At(table.exact, pattern)

\* An exact entry, else the wildcard of the parent domain, else the catch-all.
Match(table, name) ==
    IF At(table.exact, name) # {} THEN At(table.exact, name)
    ELSE IF Len(name) > 1 /\ At(table.wildcard, Tail(name)) # {}
    THEN At(table.wildcard, Tail(name))
    ELSE table.fallback

=============================================================================
