----------------------------- MODULE RateLimiter -----------------------------
(***************************************************************************)
(* The rate limiter of policy.go as functions on its state: a table of     *)
(* clients, the most recently seen first, each with a token bucket as      *)
(* golang.org/x/time/rate keeps it.                                        *)
(***************************************************************************)
EXTENDS Naturals, FiniteSetsExt, SequencesExt

CONSTANTS Rate,        \* tokens per unit of time
          Burst,       \* the bucket's size
          MaxKeys,     \* clients the table holds
          IdleTimeout  \* an entry not seen for so long is dropped

ASSUME LimiterAssumption == {Rate, Burst, MaxKeys, IdleTimeout} \subseteq Nat \ {0}

Lesser(a, b) == IF a < b THEN a ELSE b

\* rate.NewLimiter: full, whenever it is first asked.
FullBucket(now) == [tokens |-> Burst, last |-> now]

\* Tokens at a clock reading that may lie before the last one.
Tokens(bucket, now) ==
    Lesser(Burst, bucket.tokens + Rate * (now - Lesser(bucket.last, now)))

\* AllowN: a refusal leaves the bucket alone; a grant moves last to the clock
\* reading, back in time as well.
Granted(bucket, now) == Tokens(bucket, now) >= 1
Charge(bucket, now) ==
    IF Granted(bucket, now) THEN [tokens |-> Tokens(bucket, now) - 1, last |-> now]
                            ELSE bucket

-----------------------------------------------------------------------------
(* The table.                                                              *)

Keys(table) == {table[i].key : i \in DOMAIN table}
Place(table, key) == CHOOSE i \in DOMAIN table : table[i].key = key
EntryOf(table, key) == table[Place(table, key)]
Without(table, key) == RemoveAt(table, Place(table, key))

\* Entries are dropped from the back up to the first that is not idle; those
\* before it stay, even when concurrent requests left an older one there.
Expire(table, now) ==
    LET busy == {i \in DOMAIN table : now < table[i].seen + IdleTimeout}
    IN  SubSeq(table, 1, Max(busy \cup {0}))

\* Mutant of Room: one too many stays.
RoomForNone(table) == SubSeq(table, 1, Lesser(Len(table), MaxKeys))

\* A full table gives up its least recently seen client.
Room(table) == SubSeq(table, 1, Lesser(Len(table), MaxKeys - 1))

\* Mutant of Admit: the table makes room before it looks for the client, which
\* may then be the one that is given up.
AdmitRoomFirst(table, key, now) ==
    LET kept  == Room(Expire(table, now))
        known == key \in Keys(kept)
        old   == IF known THEN EntryOf(kept, key).bucket ELSE FullBucket(now)
        rest  == IF known THEN Without(kept, key) ELSE kept
        entry == [key |-> key, seen |-> now, bucket |-> Charge(old, now)]
    IN  [ok |-> Granted(old, now), table |-> <<entry>> \o rest]

\* allow, after the lock is taken: the entry moves to the front, or is made.
Admit(table, key, now) ==
    LET kept  == Expire(table, now)
        known == key \in Keys(kept)
        old   == IF known THEN EntryOf(kept, key).bucket ELSE FullBucket(now)
        rest  == IF known THEN Without(kept, key) ELSE Room(kept)
        entry == [key |-> key, seen |-> now, bucket |-> Charge(old, now)]
    IN  [ok |-> Granted(old, now), table |-> <<entry>> \o rest]

=============================================================================
