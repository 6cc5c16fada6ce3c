----------------------------- MODULE FrontProofs -----------------------------
(***************************************************************************)
(* Proofs about Front, for any files, configurations, names, addresses and *)
(* sizes: the certificate and the site a name gets (HandshakeChoice,       *)
(* RedirectLands), that expiry never makes a configuration unacceptable    *)
(* (StaleNeverBlocks), the client a request is taken to come from          *)
(* (ClientKept) and the event log (RingIsLog).                             *)
(*                                                                         *)
(* Most of the module is about what the model's folds compute.  A fold of  *)
(* the community modules unfolds to the function that its definition       *)
(* chooses, once there is such a function (FoldExists), and what a step    *)
(* preserves holds of the fold (OneByOne).  From these:                    *)
(*   AddAllLists      adding events to the ring is appending them to its   *)
(*                    list, cut to the last MaxEvents;                     *)
(*   LoadFacts        the tables of loaded certificates hold, for every    *)
(*                    name, the one that expires last;                     *)
(*   DispatcherFacts  a listener's table has an entry just where a site    *)
(*                    there claims the pattern;                            *)
(*   ResolveFacts     the rightmost hop that is malformed or not trusted   *)
(*                    decides.                                             *)
(* The invariant, FrontInv, says of the snapshot what the loading and the  *)
(* compiling that made it left behind, in terms of the files as they were  *)
(* read then, and that every TLS host of its configuration is served by    *)
(* the names of some file or by ACME, which no refresh can change.         *)
(***************************************************************************)
EXTENDS Front, FiniteSetTheorems, SequenceTheorems, WellFoundedInduction, TLAPS

-----------------------------------------------------------------------------
(* Induction, and folds.                                                   *)

\* Induction over the naturals, for a set of them.
LEMMA AllNaturals ==
    ASSUME NEW P \in SUBSET Nat, 0 \in P, \A n \in P : n + 1 \in P
    PROVE  P = Nat
  <1> DEFINE R == OpToRel(<, Nat)
             Q == Nat \ P
  <1>1. IsWellFoundedOn(R, Nat)
    BY NatLessThanWellFounded
  <1>2. SUFFICES ASSUME Q # {} PROVE FALSE
    OBVIOUS
  <1>3. \E m \in Q : \A n \in Q : <<n, m>> \notin R
    <2> Q \subseteq Nat
      OBVIOUS
    <2> HIDE DEF R, Q
    <2>. QED
      BY <1>1, <1>2, WFMin
  <1>4. PICK m \in Q : \A n \in Q : ~(n < m)
    <2>1. PICK m \in Q : \A n \in Q : <<n, m>> \notin R
      BY <1>3
    <2>2. \A n \in Q : ~(n < m)
      BY <2>1 DEF OpToRel
    <2>. QED
      BY <2>2
  <1>5. m # 0 /\ m - 1 \in Nat /\ m - 1 < m
    OBVIOUS
  <1>6. m - 1 \in P
    BY <1>4, <1>5
  <1>. QED
    BY <1>6

\* What holds of {} and of a set once it holds of the set without the element
\* picked holds of every subset of a finite set.
LEMMA OneByOne ==
    ASSUME NEW S, IsFiniteSet(S), NEW pick, NEW K, {} \in K,
           \A s \in SUBSET S : s # {} => pick[s] \in s /\ (s \ {pick[s]} \in K => s \in K)
    PROVE  S \in K
  <1> DEFINE Upto(n) == \A s \in SUBSET S : Cardinality(s) <= n => s \in K
             P == {n \in Nat : Upto(n)}
  <1>1. \A s \in SUBSET S : /\ IsFiniteSet(s) /\ Cardinality(s) \in Nat
                            /\ Cardinality(s) = 0 <=> s = {}
    BY FS_Subset, FS_CardinalityType, FS_EmptySet
  <1>2. \A s \in SUBSET S : s # {} => Cardinality(s \ {pick[s]}) = Cardinality(s) - 1
    BY <1>1, FS_RemoveElement
  <1>3. 0 \in P
    <2>1. \A s \in SUBSET S : Cardinality(s) <= 0 => s = {}
      BY <1>1
    <2>. QED
      BY <2>1
  <1>4. ASSUME NEW n \in P PROVE n + 1 \in P
    <2>1. ASSUME NEW s \in SUBSET S, Cardinality(s) <= n + 1 PROVE s \in K
      <3>1. CASE s # {}
        <4>1. PICK t \in SUBSET S : t = s \ {pick[s]}
          OBVIOUS
        <4>2. Cardinality(t) <= n
          BY <1>1, <1>2, <2>1, <3>1, <4>1
        <4>. QED
          BY <3>1, <4>1, <4>2
      <3>. QED
        BY <3>1
    <2>. QED
      BY <2>1
  <1>5. Cardinality(S) \in P
    <2> P \subseteq Nat
      OBVIOUS
    <2> HIDE DEF P
    <2>. QED
      BY <1>1, <1>3, <1>4, AllNaturals
  <1>. QED
    BY <1>1, <1>5

\* A fold: from base, step takes the elements of S one by one.  There is one,
\* for any step, of a finite set.
IsFold(g, S, base, pick, step) ==
    g = [s \in SUBSET S |-> IF s = {} THEN base ELSE step[<<pick[s], g[s \ {pick[s]}]>>]]

LEMMA FoldExists ==
    ASSUME NEW S, IsFiniteSet(S), NEW B, NEW base \in B,
           NEW pick, \A s \in SUBSET S : s # {} => pick[s] \in s,
           NEW step \in [S \X B -> B]
    PROVE  \E g \in [SUBSET S -> B] : IsFold(g, S, base, pick, step)
  <1> DEFINE Value(g, s) == IF s = {} THEN base ELSE step[<<pick[s], g[s \ {pick[s]}]>>]
             Upto(g, n) == \A s \in SUBSET S : Cardinality(s) <= n => g[s] = Value(g, s)
             P == {n \in Nat : \E g \in [SUBSET S -> B] : Upto(g, n)}
  <1>1. \A s \in SUBSET S : /\ IsFiniteSet(s) /\ Cardinality(s) \in Nat
                            /\ Cardinality(s) <= Cardinality(S)
                            /\ Cardinality(s) = 0 <=> s = {}
    BY FS_Subset, FS_CardinalityType, FS_EmptySet
  <1>2. \A s \in SUBSET S : s # {} => Cardinality(s \ {pick[s]}) = Cardinality(s) - 1
    BY <1>1, FS_RemoveElement
  <1>3. 0 \in P
    <2>1. PICK g : g = [s \in SUBSET S |-> base]
      OBVIOUS
    <2>2. ASSUME NEW s \in SUBSET S, Cardinality(s) <= 0 PROVE g[s] = Value(g, s)
      <3>1. s = {}
        BY <1>1, <2>2
      <3>. QED
        BY <2>1, <3>1
    <2>3. g \in [SUBSET S -> B] /\ Upto(g, 0)
      BY <2>1, <2>2
    <2>. HIDE DEF Upto
    <2>. QED
      BY <2>3
  <1>4. ASSUME NEW n \in P PROVE n + 1 \in P
    <2>1. PICK g \in [SUBSET S -> B] : Upto(g, n)
      OBVIOUS
    <2>2. PICK h : h = [s \in SUBSET S |-> Value(g, s)]
      OBVIOUS
    <2>3. h \in [SUBSET S -> B]
      BY <2>2
    <2>4. ASSUME NEW s \in SUBSET S, Cardinality(s) <= n PROVE h[s] = g[s]
      BY <2>1, <2>2, <2>4
    <2>5. ASSUME NEW s \in SUBSET S, Cardinality(s) <= n + 1
          PROVE  h[s] = Value(h, s)
      <3>1. CASE s = {}
        BY <2>2, <3>1
      <3>2. CASE s # {}
        <4>1. PICK t \in SUBSET S : t = s \ {pick[s]}
          OBVIOUS
        <4>2. Cardinality(t) <= n
          BY <1>1, <1>2, <2>5, <3>2, <4>1
        <4>3. h[t] = g[t]
          BY <2>4, <4>2
        <4>. QED
          BY <2>2, <3>2, <4>1, <4>3
      <3>. QED
        BY <3>1, <3>2
    <2>6. Upto(h, n + 1)
      BY <2>5
    <2>7. n + 1 \in Nat
      OBVIOUS
    <2>. HIDE DEF Upto
    <2>. QED
      BY <2>3, <2>6, <2>7
  <1>5. Cardinality(S) \in P
    <2> P \subseteq Nat
      OBVIOUS
    <2> HIDE DEF P
    <2>. QED
      BY <1>1, <1>3, <1>4, AllNaturals
  <1>6. PICK g \in [SUBSET S -> B] : Upto(g, Cardinality(S))
    BY <1>5
  <1>7. IsFold(g, S, base, pick, step)
    <2>1. \A s \in SUBSET S : g[s] = Value(g, s)
      BY <1>1, <1>6
    <2>. QED
      BY <2>1 DEF IsFold
  <1>. QED
    BY <1>7

\* The four ways in which the model folds: what the community modules' folds
\* unfold to.
IsAddAll(h, ring0, events) ==
    h = [s \in SUBSET DOMAIN events |->
            IF s = {} THEN ring0 ELSE Add(h[s \ {Max(s)}], events[Max(s)])]

LEMMA AddAllFold ==
    ASSUME NEW ring0, NEW events, NEW g, IsAddAll(g, ring0, events)
    PROVE  \E h : IsAddAll(h, ring0, events) /\ AddAll(ring0, events) = h[DOMAIN events]
  BY DEF AddAll, FoldLeft, MapThenFoldSet, IsAddAll

Listing == [i \in Files |-> i]

IsLoad(h) ==
    h = [s \in SUBSET DOMAIN Listing |->
            IF s = {} THEN NewStore ELSE LoadOne(h[s \ {Max(s)}], Listing[Max(s)])]

LEMMA LoadFold ==
    ASSUME NEW g, IsLoad(g)
    PROVE  \E h : IsLoad(h) /\ LoadCertificates = h[DOMAIN Listing]
  <1>1. LoadCertificates = FoldLeft(LoadOne, NewStore, Listing)
    BY DEF LoadCertificates, Listing
  <1>2. \E h : IsLoad(h) /\ FoldLeft(LoadOne, NewStore, Listing) = h[DOMAIN Listing]
    BY DEF FoldLeft, MapThenFoldSet, IsLoad
  <1>. QED
    BY <1>1, <1>2

OneOf(s) == CHOOSE x \in s : TRUE

OfferAll(table, names, leaf) == FoldSet(LAMBDA name, t : Offer(t, name, leaf), table, names)

IsOfferAll(h, table, names, leaf) ==
    h = [s \in SUBSET names |->
            IF s = {} THEN table ELSE Offer(h[s \ {OneOf(s)}], OneOf(s), leaf)]

LEMMA OfferFold ==
    ASSUME NEW table, NEW leaf, NEW names, NEW g, IsOfferAll(g, table, names, leaf)
    PROVE  \E h : IsOfferAll(h, table, names, leaf) /\ OfferAll(table, names, leaf) = h[names]
  BY DEF FoldSet, MapThenFoldSet, OneOf, OfferAll, IsOfferAll

Entry(c, listener, i) ==
    [site |-> i, redirect |-> /\ listener = "http"
                              /\ c.sites[i].tls
                              /\ ~c.sites[i].allowHttp]

Serves(c, listener, i) == IF listener = "https" THEN c.sites[i].tls ELSE c.sites[i].plain

Claims(c, listener) ==
    UNION {{i} \X c.sites[i].hosts : i \in {j \in DOMAIN c.sites : Serves(c, listener, j)}}

IsDispatcher(h, c, listener) ==
    h = [s \in SUBSET Claims(c, listener) |->
            IF s = {} THEN NewTable
            ELSE Store(h[s \ {OneOf(s)}], OneOf(s)[2], Entry(c, listener, OneOf(s)[1]))]

LEMMA DispatcherFold ==
    ASSUME NEW c, NEW listener, NEW g, IsDispatcher(g, c, listener)
    PROVE  \E h : IsDispatcher(h, c, listener) /\ Dispatcher(c, listener) = h[Claims(c, listener)]
  <1>1. Dispatcher(c, listener) =
            FoldSet(LAMBDA claim, table : Store(table, claim[2], Entry(c, listener, claim[1])),
                    NewTable, Claims(c, listener))
    BY DEF Dispatcher, Entry, Serves, Claims
  <1>. QED
    BY <1>1 DEF FoldSet, MapThenFoldSet, OneOf, IsDispatcher

Walk(trusted, hops, start) ==
    FoldRight(LAMBDA hop, walk : Hop(trusted, hop, walk), hops, start)

IsWalk(h, trusted, hops, start) ==
    h = [s \in SUBSET DOMAIN hops |->
            IF s = {} THEN start ELSE Hop(trusted, hops[Min(s)], h[s \ {Min(s)}])]

LEMMA HopFold ==
    ASSUME NEW trusted, NEW hops, NEW start, NEW g, IsWalk(g, trusted, hops, start)
    PROVE  \E h : IsWalk(h, trusted, hops, start) /\ Walk(trusted, hops, start) = h[DOMAIN hops]
  BY DEF FoldRight, MapThenFoldSet, Walk, IsWalk

LEMMA LeastIsReached ==
    ASSUME NEW S \in SUBSET Nat, S # {}
    PROVE  Min(S) \in S /\ \A i \in S : Min(S) <= i
  <1> DEFINE R == OpToRel(<, Nat)
  <1>1. IsWellFoundedOn(R, Nat)
    BY NatLessThanWellFounded
  <1>2. \E m \in S : \A i \in S : <<i, m>> \notin R
    <2> HIDE DEF R
    <2>. QED
      BY <1>1, WFMin
  <1>3. PICK m \in S : \A i \in S : m <= i
    <2>1. PICK m \in S : \A i \in S : <<i, m>> \notin R
      BY <1>2
    <2>2. \A i \in S : ~(i < m)
      BY <2>1 DEF OpToRel
    <2>. QED
      BY <2>2
  <1>. QED
    BY <1>3 DEF Min

LEMMA GreatestIsReached ==
    ASSUME NEW n \in Nat, NEW S \in SUBSET (1 .. n), S # {}
    PROVE  Max(S) \in S /\ \A i \in S : i <= Max(S)
  <1> DEFINE T == {n - i : i \in S}
  <1>1. T \in SUBSET Nat /\ T # {}
    <2>1. \A i \in S : n - i \in Nat
      OBVIOUS
    <2>. QED
      BY <2>1
  <1>2. PICK m \in T : \A j \in T : m <= j
    <2> HIDE DEF T
    <2>. QED
      BY <1>1, LeastIsReached
  <1>3. PICK i \in S : m = n - i
    OBVIOUS
  <1>4. \A j \in S : n - i <= n - j
    BY <1>2, <1>3
  <1>5. \A j \in S : i >= j
    <2>1. S \subseteq 1 .. n
      OBVIOUS
    <2>2. SUFFICES ASSUME NEW j \in S PROVE i >= j
      OBVIOUS
    <2>3. j \in 1 .. n /\ i \in 1 .. n
      BY <2>1
    <2>. QED
      BY <1>4, <2>3
  <1>. QED
    BY <1>5 DEF Max

-----------------------------------------------------------------------------
(* The event log.                                                          *)

Rings(E) == {r \in [events : Seq(E), next : Nat] :
                 /\ Len(r.events) <= MaxEvents
                 /\ r.next < MaxEvents
                 /\ Len(r.events) < MaxEvents => r.next = 0}

LEMMA PartOfSeq ==
    ASSUME NEW E, NEW s \in Seq(E), NEW m \in 1 .. Len(s) + 1, NEW n \in 0 .. Len(s), m <= n + 1
    PROVE  /\ SubSeq(s, m, n) \in Seq(E)
           /\ Len(SubSeq(s, m, n)) = n - m + 1
           /\ \A i \in 1 .. n - m + 1 : SubSeq(s, m, n)[i] = s[m - 1 + i]
  <1>1. Len(s) \in Nat /\ m \in Int /\ n \in Int
    BY LenProperties
  <1>2. \A i \in m .. n : s[i] \in E
    BY <1>1, ElementOfSeq
  <1>3. /\ SubSeq(s, m, n) \in Seq(E)
        /\ Len(SubSeq(s, m, n)) = IF m <= n THEN n - m + 1 ELSE 0
        /\ \A i \in 1 .. n - m + 1 : SubSeq(s, m, n)[i] = s[m + i - 1]
    BY <1>1, <1>2, SubSeqProperties
  <1>. QED
    BY <1>1, <1>3

LEMMA ListFacts ==
    ASSUME NEW E, NEW r \in Rings(E)
    PROVE  /\ List(r) \in Seq(E)
           /\ Len(List(r)) = Len(r.events)
           /\ \A i \in 1 .. Len(r.events) :
                  List(r)[i] = IF i <= Len(r.events) - r.next
                               THEN r.events[r.next + i]
                               ELSE r.events[i - (Len(r.events) - r.next)]
  <1>1. PICK s, n, k : s = r.events /\ n = r.next /\ k = Len(s)
    OBVIOUS
  <1>2. s \in Seq(E) /\ n \in Nat /\ k \in Nat /\ n <= k /\ MaxEvents \in Nat
    BY <1>1, EventLogAssumption, LenProperties DEF Rings
  <1>3. PICK a, b : a = SubSeq(s, n + 1, k) /\ b = SubSeq(s, 1, n)
    OBVIOUS
  <1>4. a \in Seq(E) /\ Len(a) = k - n /\ \A i \in 1 .. k - n : a[i] = s[n + i]
    <2>1. n + 1 \in 1 .. Len(s) + 1 /\ k \in 0 .. Len(s) /\ n + 1 <= k + 1
      BY <1>1, <1>2
    <2>2. /\ a \in Seq(E) /\ Len(a) = k - (n + 1) + 1
          /\ \A i \in 1 .. k - (n + 1) + 1 : a[i] = s[(n + 1) - 1 + i]
      BY <1>2, <1>3, <2>1, PartOfSeq
    <2>. QED
      BY <1>2, <2>2
  <1>5. b \in Seq(E) /\ Len(b) = n /\ \A i \in 1 .. n : b[i] = s[i]
    <2>1. 1 \in 1 .. Len(s) + 1 /\ n \in 0 .. Len(s) /\ 1 <= n + 1
      BY <1>1, <1>2
    <2>2. /\ b \in Seq(E) /\ Len(b) = n - 1 + 1
          /\ \A i \in 1 .. n - 1 + 1 : b[i] = s[1 - 1 + i]
      BY <1>2, <1>3, <2>1, PartOfSeq
    <2>. QED
      BY <1>2, <2>2
  <1>6. List(r) = a \o b
    BY <1>1, <1>3 DEF List
  <1>7. /\ a \o b \in Seq(E) /\ Len(a \o b) = Len(a) + Len(b)
        /\ \A i \in 1 .. Len(a) + Len(b) :
               (a \o b)[i] = IF i <= Len(a) THEN a[i] ELSE b[i - Len(a)]
    BY <1>4, <1>5, ConcatProperties
  <1>8. Len(a) + Len(b) = k
    BY <1>2, <1>4, <1>5
  <1>9. ASSUME NEW i \in 1 .. k
        PROVE  List(r)[i] = IF i <= k - n THEN s[n + i] ELSE s[i - (k - n)]
    <2>1. CASE i <= k - n
      BY <1>2, <1>4, <1>6, <1>7, <1>8, <2>1
    <2>2. CASE i > k - n
      <3>1. i - (k - n) \in 1 .. n /\ ~(i <= Len(a))
        BY <1>2, <1>4, <2>2
      <3>. QED
        BY <1>2, <1>4, <1>5, <1>6, <1>7, <1>8, <2>2, <3>1
    <2>. QED
      BY <1>2, <2>1, <2>2
  <1>. QED
    BY <1>1, <1>6, <1>7, <1>8, <1>9

LEMMA LatestFacts ==
    ASSUME NEW E, NEW s \in Seq(E)
    PROVE  /\ Bounded!LatestOf(s) \in Seq(E)
           /\ Len(s) <= MaxEvents => Bounded!LatestOf(s) = s
           /\ Len(s) > MaxEvents =>
                 /\ Len(Bounded!LatestOf(s)) = MaxEvents
                 /\ \A i \in 1 .. MaxEvents :
                        Bounded!LatestOf(s)[i] = s[i + (Len(s) - MaxEvents)]
  <1>1. MaxEvents \in Nat \ {0} /\ Len(s) \in Nat
    BY EventLogAssumption, LenProperties
  <1>2. CASE Len(s) <= MaxEvents
    BY <1>1, <1>2 DEF Bounded!LatestOf
  <1>3. CASE Len(s) > MaxEvents
    <2>1. PICK t : t = SubSeq(s, Len(s) - MaxEvents + 1, Len(s))
      OBVIOUS
    <2>2. PICK m, n : m = Len(s) - MaxEvents + 1 /\ n = Len(s)
      OBVIOUS
    <2>3. m \in 1 .. Len(s) + 1 /\ n \in 0 .. Len(s) /\ m <= n + 1
      BY <1>1, <1>3, <2>2
    <2>4. t \in Seq(E) /\ Len(t) = n - m + 1 /\ \A i \in 1 .. n - m + 1 : t[i] = s[m - 1 + i]
      BY <2>1, <2>2, <2>3, PartOfSeq
    <2>5. /\ t \in Seq(E) /\ Len(t) = MaxEvents
          /\ \A i \in 1 .. MaxEvents : t[i] = s[i + (Len(s) - MaxEvents)]
      <3>1. n - m + 1 = MaxEvents
        BY <1>1, <2>2
      <3>2. \A i \in 1 .. MaxEvents : m - 1 + i = i + (Len(s) - MaxEvents)
        BY <1>1, <2>2
      <3>. QED
        BY <2>4, <3>1, <3>2
    <2>6. Bounded!LatestOf(s) = t
      BY <1>1, <1>3, <2>1 DEF Bounded!LatestOf
    <2>. QED
      BY <1>1, <1>3, <2>5, <2>6
  <1>. QED
    BY <1>1, <1>2, <1>3

LEMMA AppendFacts ==
    ASSUME NEW E, NEW s \in Seq(E), NEW e \in E
    PROVE  /\ Append(s, e) \in Seq(E)
           /\ Len(Append(s, e)) = Len(s) + 1
           /\ \A i \in 1 .. Len(s) + 1 : Append(s, e)[i] = IF i <= Len(s) THEN s[i] ELSE e
  <1>1. Len(s) \in Nat /\ \A i \in 1 .. Len(s) : i # Len(s) + 1
    BY LenProperties
  <1>. QED
    BY <1>1, AppendProperties

LEMMA LatestOfLatest ==
    ASSUME NEW E, NEW s \in Seq(E), NEW e \in E
    PROVE  Bounded!LatestOf(Append(Bounded!LatestOf(s), e)) = Bounded!LatestOf(Append(s, e))
  <1>1. MaxEvents \in Nat \ {0} /\ Len(s) \in Nat
    BY EventLogAssumption, LenProperties
  <1>2. CASE Len(s) <= MaxEvents
    BY <1>2, LatestFacts
  <1>3. CASE Len(s) > MaxEvents
    <2>1. PICK t : t = Bounded!LatestOf(s)
      OBVIOUS
    <2>2. t \in Seq(E) /\ Len(t) = MaxEvents
          /\ \A i \in 1 .. MaxEvents : t[i] = s[i + (Len(s) - MaxEvents)]
      BY <1>3, <2>1, LatestFacts
    <2>3. PICK u, v : u = Append(t, e) /\ v = Append(s, e)
      OBVIOUS
    <2>4. /\ u \in Seq(E) /\ Len(u) = MaxEvents + 1
          /\ \A i \in 1 .. MaxEvents + 1 : u[i] = IF i <= MaxEvents THEN t[i] ELSE e
      BY <2>2, <2>3, AppendFacts
    <2>5. /\ v \in Seq(E) /\ Len(v) = Len(s) + 1
          /\ \A i \in 1 .. Len(s) + 1 : v[i] = IF i <= Len(s) THEN s[i] ELSE e
      BY <2>3, AppendFacts
    <2>6. PICK x, y : x = Bounded!LatestOf(u) /\ y = Bounded!LatestOf(v)
      OBVIOUS
    <2>7. /\ x \in Seq(E) /\ Len(x) = MaxEvents
          /\ \A i \in 1 .. MaxEvents : x[i] = u[i + 1]
      <3>1. Len(u) > MaxEvents
        BY <1>1, <2>4
      <3>2. u \in Seq(E)
        BY <2>4
      <3>3. /\ x \in Seq(E) /\ Len(x) = MaxEvents
            /\ \A i \in 1 .. MaxEvents : x[i] = u[i + (Len(u) - MaxEvents)]
        BY <2>6, <3>1, <3>2, LatestFacts
      <3>4. Len(u) - MaxEvents = 1
        BY <1>1, <2>4
      <3>. QED
        BY <3>3, <3>4
    <2>8. /\ y \in Seq(E) /\ Len(y) = MaxEvents
          /\ \A i \in 1 .. MaxEvents : y[i] = v[i + (Len(s) + 1 - MaxEvents)]
      <3>1. Len(v) > MaxEvents
        BY <1>1, <1>3, <2>5
      <3>. QED
        BY <2>5, <2>6, <3>1, LatestFacts
    <2>9. ASSUME NEW i \in 1 .. MaxEvents PROVE x[i] = y[i]
      <3>1. x[i] = u[i + 1]
        BY <1>1, <2>7
      <3>2. y[i] = v[i + (Len(s) + 1 - MaxEvents)]
        BY <2>8
      <3>3. CASE i = MaxEvents
        <4>1. i + 1 \in 1 .. MaxEvents + 1 /\ ~(i + 1 <= MaxEvents)
          BY <1>1, <3>3
        <4>2. i + (Len(s) + 1 - MaxEvents) = Len(s) + 1
          BY <1>1, <3>3
        <4>3. Len(s) + 1 \in 1 .. Len(s) + 1 /\ ~(Len(s) + 1 <= Len(s))
          BY <1>1
        <4>4. u[i + 1] = e
          BY <2>4, <4>1
        <4>5. v[Len(s) + 1] = e
          BY <2>5, <4>3
        <4>. QED
          BY <3>1, <3>2, <4>2, <4>4, <4>5
      <3>4. CASE i < MaxEvents
        <4>1. i + 1 \in 1 .. MaxEvents /\ i + 1 \in 1 .. MaxEvents + 1
          BY <1>1, <3>4
        <4>2. PICK j : j = i + (Len(s) + 1 - MaxEvents)
          OBVIOUS
        <4>3. j \in 1 .. Len(s) /\ j \in 1 .. Len(s) + 1 /\ j = i + 1 + (Len(s) - MaxEvents)
          BY <1>1, <1>3, <3>4, <4>2
        <4>4. u[i + 1] = t[i + 1] /\ t[i + 1] = s[i + 1 + (Len(s) - MaxEvents)]
          BY <2>2, <2>4, <4>1
        <4>5. v[j] = s[j]
          BY <2>5, <4>3
        <4>. QED
          BY <3>1, <3>2, <4>2, <4>3, <4>4, <4>5
      <3>. QED
        BY <1>1, <3>3, <3>4
    <2>10. x = y
      BY <2>7, <2>8, <2>9, SeqEqual
    <2>. QED
      BY <2>1, <2>3, <2>6, <2>10
  <1>. QED
    BY <1>1, <1>2, <1>3

\* A ring as a list: an event added is an event appended to the list, cut to
\* the last MaxEvents.
LEMMA AddLists ==
    ASSUME NEW E, NEW r \in Rings(E), NEW e \in E
    PROVE  /\ Add(r, e) \in Rings(E)
           /\ List(Add(r, e)) = Bounded!LatestOf(Append(List(r), e))
  <1>1. PICK s, n, q : s = r.events /\ n = r.next /\ q = Add(r, e)
    OBVIOUS
  <1>2. /\ s \in Seq(E) /\ n \in Nat /\ Len(s) \in Nat /\ Len(s) <= MaxEvents /\ n < MaxEvents
        /\ Len(s) < MaxEvents => n = 0
        /\ MaxEvents \in Nat \ {0}
        /\ r \in [events : Seq(E), next : Nat]
    BY <1>1, EventLogAssumption, LenProperties DEF Rings
  <1>3. /\ List(r) \in Seq(E) /\ Len(List(r)) = Len(s)
        /\ \A i \in 1 .. Len(s) :
               List(r)[i] = IF i <= Len(s) - n THEN s[n + i] ELSE s[i - (Len(s) - n)]
    BY <1>1, ListFacts
  <1>4. PICK x : x = Append(List(r), e)
    OBVIOUS
  <1>5. /\ x \in Seq(E) /\ Len(x) = Len(s) + 1
        /\ \A i \in 1 .. Len(s) + 1 : x[i] = IF i <= Len(s) THEN List(r)[i] ELSE e
    BY <1>3, <1>4, AppendFacts
  <1>6. CASE Len(s) < MaxEvents
    <2>1. PICK t : t = Append(s, e)
      OBVIOUS
    <2>2. /\ t \in Seq(E) /\ Len(t) = Len(s) + 1
          /\ \A i \in 1 .. Len(s) + 1 : t[i] = IF i <= Len(s) THEN s[i] ELSE e
      BY <1>2, <2>1, AppendFacts
    <2>3. q = [events |-> t, next |-> 0]
      BY <1>1, <1>2, <1>6, <2>1 DEF Add
    <2>4. q.events = t /\ q.next = 0
      BY <2>3
    <2>5. q \in Rings(E)
      BY <1>2, <1>6, <2>2, <2>3 DEF Rings
    <2>6. /\ List(q) \in Seq(E) /\ Len(List(q)) = Len(s) + 1
          /\ \A i \in 1 .. Len(s) + 1 :
                 List(q)[i] = IF i <= Len(s) + 1 - 0 THEN t[0 + i] ELSE t[i - (Len(s) + 1 - 0)]
      BY <2>2, <2>4, <2>5, ListFacts
    <2>7. ASSUME NEW i \in 1 .. Len(s) + 1 PROVE List(q)[i] = x[i]
      <3>1. List(q)[i] = t[i]
        BY <1>2, <2>6
      <3>2. CASE i <= Len(s)
        <4>1. i \in 1 .. Len(s) /\ i <= Len(s) - n /\ n + i = i
          BY <1>2, <1>6, <3>2
        <4>. QED
          BY <1>3, <1>5, <2>2, <3>1, <4>1, <3>2
      <3>3. CASE ~(i <= Len(s))
        BY <1>5, <2>2, <3>1, <3>3
      <3>. QED
        BY <3>2, <3>3
    <2>8. List(q) = x
      BY <1>5, <2>6, <2>7, SeqEqual
    <2>9. Bounded!LatestOf(x) = x
      BY <1>2, <1>5, <1>6, LatestFacts
    <2>. QED
      BY <1>1, <1>4, <2>5, <2>8, <2>9
  <1>7. CASE Len(s) = MaxEvents
    <2>1. PICK t, m : t = [s EXCEPT ![n + 1] = e] /\ m = (n + 1) % MaxEvents
      OBVIOUS
    <2>2. n + 1 \in 1 .. MaxEvents
      BY <1>2
    <2>3. /\ t \in Seq(E) /\ Len(t) = MaxEvents
          /\ \A i \in 1 .. MaxEvents : t[i] = IF i = n + 1 THEN e ELSE s[i]
      BY <1>2, <1>7, <2>1, <2>2, ExceptSeq
    <2>4. m = IF n + 1 = MaxEvents THEN 0 ELSE n + 1
      BY <1>2, <2>1
    <2>5. q = [events |-> t, next |-> m]
      BY <1>1, <1>2, <1>7, <2>1 DEF Add
    <2>6. q.events = t /\ q.next = m
      BY <2>5
    <2>7. q \in Rings(E)
      BY <1>2, <2>3, <2>4, <2>5 DEF Rings
    <2>8. /\ List(q) \in Seq(E) /\ Len(List(q)) = MaxEvents
          /\ \A i \in 1 .. MaxEvents :
                 List(q)[i] = IF i <= MaxEvents - m THEN t[m + i] ELSE t[i - (MaxEvents - m)]
      BY <2>3, <2>6, <2>7, ListFacts
    <2>9. PICK y : y = Bounded!LatestOf(x)
      OBVIOUS
    <2>10. /\ y \in Seq(E) /\ Len(y) = MaxEvents
           /\ \A i \in 1 .. MaxEvents : y[i] = x[i + 1]
      <3>1. Len(x) > MaxEvents /\ Len(x) - MaxEvents = 1
        BY <1>2, <1>5, <1>7
      <3>2. /\ y \in Seq(E) /\ Len(y) = MaxEvents
            /\ \A i \in 1 .. MaxEvents : y[i] = x[i + (Len(x) - MaxEvents)]
        BY <1>5, <2>9, <3>1, LatestFacts
      <3>. QED
        BY <3>1, <3>2
    <2>11. ASSUME NEW i \in 1 .. MaxEvents PROVE List(q)[i] = y[i]
      <3>1. y[i] = x[i + 1] /\ i + 1 \in 1 .. Len(s) + 1
        BY <1>2, <1>7, <2>10
      <3>2. CASE i = MaxEvents
        <4>1. y[i] = e
          <5>1. ~(i + 1 <= Len(s))
            BY <1>2, <1>7, <3>2
          <5>. QED
            BY <1>5, <3>1, <5>1
        <4>2. t[n + 1] = e
          BY <2>2, <2>3
        <4>3. CASE n + 1 = MaxEvents
          <5>1. i <= MaxEvents - m /\ m + i = n + 1
            BY <1>2, <2>4, <3>2, <4>3
          <5>. QED
            BY <2>8, <4>1, <4>2, <5>1
        <4>4. CASE n + 1 # MaxEvents
          <5>1. ~(i <= MaxEvents - m) /\ i - (MaxEvents - m) = n + 1
            BY <1>2, <2>4, <3>2, <4>4
          <5>. QED
            BY <2>8, <4>1, <4>2, <5>1
        <4>. QED
          BY <4>3, <4>4
      <3>3. CASE i < MaxEvents
        <4>1. i + 1 \in 1 .. Len(s) /\ i + 1 <= Len(s)
          BY <1>2, <1>7, <3>3
        <4>2. y[i] = IF i + 1 <= MaxEvents - n THEN s[n + (i + 1)]
                                               ELSE s[i + 1 - (MaxEvents - n)]
          <5>1. y[i] = List(r)[i + 1]
            BY <1>5, <3>1, <4>1
          <5>2. List(r)[i + 1] = IF i + 1 <= Len(s) - n THEN s[n + (i + 1)]
                                                        ELSE s[i + 1 - (Len(s) - n)]
            <6>1. PICK j \in 1 .. Len(s) : j = i + 1
              BY <4>1
            <6>2. List(r)[j] = IF j <= Len(s) - n THEN s[n + j] ELSE s[j - (Len(s) - n)]
              BY <1>3
            <6>3. n + j = n + (i + 1) /\ j - (Len(s) - n) = i + 1 - (Len(s) - n)
              BY <1>2, <6>1
            <6>. QED
              BY <6>1, <6>2, <6>3
          <5>. QED
            BY <1>7, <5>1, <5>2
        <4>3. CASE n + 1 = MaxEvents
          <5>1. ~(i + 1 <= MaxEvents - n) /\ i + 1 - (MaxEvents - n) = i
            BY <1>2, <3>3, <4>3
          <5>2. i <= MaxEvents - m /\ m + i = i /\ i # n + 1
            BY <1>2, <2>4, <3>3, <4>3
          <5>. QED
            BY <2>3, <2>8, <4>2, <5>1, <5>2
        <4>4. CASE n + 1 # MaxEvents /\ i + 1 <= MaxEvents - n
          <5>1. /\ i <= MaxEvents - m /\ m + i = n + (i + 1) /\ n + (i + 1) # n + 1
                /\ n + (i + 1) \in 1 .. MaxEvents
            BY <1>2, <2>4, <4>4
          <5>. QED
            BY <2>3, <2>8, <4>2, <4>4, <5>1
        <4>5. CASE n + 1 # MaxEvents /\ ~(i + 1 <= MaxEvents - n)
          <5>1. PICK j : j = i + 1 - (MaxEvents - n)
            OBVIOUS
          <5>2. /\ ~(i <= MaxEvents - m) /\ i - (MaxEvents - m) = j /\ j # n + 1
                /\ j \in 1 .. MaxEvents
            BY <1>2, <2>4, <3>3, <4>5, <5>1
          <5>. QED
            BY <2>3, <2>8, <4>2, <4>5, <5>1, <5>2
        <4>. QED
          BY <4>3, <4>4, <4>5
      <3>. QED
        BY <1>2, <3>2, <3>3
    <2>12. List(q) = y
      BY <2>8, <2>10, <2>11, SeqEqual
    <2>. QED
      BY <1>1, <1>4, <2>7, <2>9, <2>12
  <1>. QED
    BY <1>2, <1>6, <1>7

LEMMA ConcatFacts ==
    ASSUME NEW E, NEW s \in Seq(E), NEW t \in Seq(E)
    PROVE  /\ s \o t \in Seq(E)
           /\ Len(s \o t) = Len(s) + Len(t)
           /\ \A i \in 1 .. Len(s) + Len(t) :
                  (s \o t)[i] = IF i <= Len(s) THEN s[i] ELSE t[i - Len(s)]
  BY ConcatProperties

\* One more of a sequence, put behind another.
LEMMA ConcatOneMore ==
    ASSUME NEW E, NEW s \in Seq(E), NEW t \in Seq(E), NEW k \in 1 .. Len(t)
    PROVE  s \o SubSeq(t, 1, k) = Append(s \o SubSeq(t, 1, k - 1), t[k])
  <1>1. Len(s) \in Nat /\ Len(t) \in Nat /\ t[k] \in E
    BY LenProperties, ElementOfSeq
  <1>2. PICK a, b, j : a = SubSeq(t, 1, k) /\ b = SubSeq(t, 1, j) /\ j = k - 1
    OBVIOUS
  <1>3. a \in Seq(E) /\ Len(a) = k /\ \A i \in 1 .. k : a[i] = t[i]
    <2>1. 1 \in 1 .. Len(t) + 1 /\ k \in 0 .. Len(t) /\ 1 <= k + 1
      BY <1>1
    <2>2. a \in Seq(E) /\ Len(a) = k - 1 + 1 /\ \A i \in 1 .. k - 1 + 1 : a[i] = t[1 - 1 + i]
      BY <1>2, <2>1, PartOfSeq
    <2>. QED
      BY <1>1, <2>2
  <1>4. b \in Seq(E) /\ Len(b) = j /\ \A i \in 1 .. j : b[i] = t[i]
    <2>1. 1 \in 1 .. Len(t) + 1 /\ j \in 0 .. Len(t) /\ 1 <= j + 1
      BY <1>1, <1>2
    <2>2. b \in Seq(E) /\ Len(b) = j - 1 + 1 /\ \A i \in 1 .. j - 1 + 1 : b[i] = t[1 - 1 + i]
      BY <1>2, <2>1, PartOfSeq
    <2>. QED
      BY <1>1, <1>2, <2>2
  <1>5. PICK x, y, z : x = s \o a /\ y = s \o b /\ z = Append(y, t[k])
    OBVIOUS
  <1>6. /\ x \in Seq(E) /\ Len(x) = Len(s) + k
        /\ \A i \in 1 .. Len(s) + k : x[i] = IF i <= Len(s) THEN s[i] ELSE a[i - Len(s)]
    <2>1. /\ x \in Seq(E) /\ Len(x) = Len(s) + Len(a)
          /\ \A i \in 1 .. Len(s) + Len(a) : x[i] = IF i <= Len(s) THEN s[i] ELSE a[i - Len(s)]
      BY <1>3, <1>5, ConcatFacts
    <2>. QED
      BY <1>3, <2>1
  <1>7. /\ y \in Seq(E) /\ Len(y) = Len(s) + j
        /\ \A i \in 1 .. Len(s) + j : y[i] = IF i <= Len(s) THEN s[i] ELSE b[i - Len(s)]
    <2>1. /\ y \in Seq(E) /\ Len(y) = Len(s) + Len(b)
          /\ \A i \in 1 .. Len(s) + Len(b) : y[i] = IF i <= Len(s) THEN s[i] ELSE b[i - Len(s)]
      BY <1>4, <1>5, ConcatFacts
    <2>. QED
      BY <1>4, <2>1
  <1>8. /\ z \in Seq(E) /\ Len(z) = Len(s) + j + 1
        /\ \A i \in 1 .. Len(s) + j + 1 : z[i] = IF i <= Len(s) + j THEN y[i] ELSE t[k]
    <2>1. /\ z \in Seq(E) /\ Len(z) = Len(y) + 1
          /\ \A i \in 1 .. Len(y) + 1 : z[i] = IF i <= Len(y) THEN y[i] ELSE t[k]
      <3>1. PICK e : e = t[k]
        OBVIOUS
      <3>2. e \in E /\ y \in Seq(E)
        BY <1>7, <3>1, ElementOfSeq
      <3>3. /\ Append(y, e) \in Seq(E) /\ Len(Append(y, e)) = Len(y) + 1
            /\ \A i \in 1 .. Len(y) + 1 :
                   Append(y, e)[i] = IF i <= Len(y) THEN y[i] ELSE e
        BY <3>2, AppendFacts
      <3>. QED
        BY <1>5, <3>1, <3>3
    <2>. QED
      BY <1>7, <2>1
  <1>9. Len(s) + j + 1 = Len(s) + k
    BY <1>1, <1>2
  <1>10. ASSUME NEW i \in 1 .. Len(s) + k PROVE x[i] = z[i]
    <2>1. CASE i <= Len(s)
      <3>1. i <= Len(s) + j /\ i \in 1 .. Len(s) + j
        BY <1>1, <1>2, <2>1
      <3>. QED
        BY <1>6, <1>7, <1>8, <1>9, <2>1, <3>1
    <2>2. CASE ~(i <= Len(s)) /\ i <= Len(s) + j
      <3>1. i \in 1 .. Len(s) + j /\ i - Len(s) \in 1 .. j /\ i - Len(s) \in 1 .. k
        BY <1>1, <1>2, <2>2
      <3>2. x[i] = IF i <= Len(s) THEN s[i] ELSE a[i - Len(s)]
        BY <1>6
      <3>3. z[i] = y[i]
        <4>1. i \in 1 .. Len(s) + j + 1
          BY <1>9
        <4>. QED
          BY <1>8, <2>2, <4>1
      <3>4. y[i] = IF i <= Len(s) THEN s[i] ELSE b[i - Len(s)]
        BY <1>7, <3>1
      <3>5. a[i - Len(s)] = t[i - Len(s)] /\ b[i - Len(s)] = t[i - Len(s)]
        BY <1>3, <1>4, <3>1
      <3>. QED
        BY <2>2, <3>2, <3>3, <3>4, <3>5
    <2>3. CASE ~(i <= Len(s) + j)
      <3>1. k \in Nat /\ k >= 1
        BY <1>1
      <3>2. i - Len(s) = k /\ k \in 1 .. k /\ ~(i <= Len(s))
        <4>1. PICK n : n = Len(s)
          OBVIOUS
        <4>2. n \in Nat /\ j = k - 1 /\ i \in 1 .. n + k /\ ~(i <= n + j)
          BY <1>1, <1>2, <2>3, <4>1
        <4>. QED
          BY <3>1, <4>1, <4>2
      <3>3. x[i] = t[k]
        BY <1>3, <1>6, <3>2
      <3>4. z[i] = t[k]
        <4>1. i \in 1 .. Len(s) + j + 1
          BY <1>9
        <4>. QED
          BY <1>8, <2>3, <4>1
      <3>. QED
        BY <3>3, <3>4
    <2>. QED
      BY <2>1, <2>2, <2>3
  <1>11. x = z
    BY <1>6, <1>8, <1>9, <1>10, SeqEqual
  <1>. QED
    BY <1>2, <1>5, <1>11

LEMMA WholeSeq ==
    ASSUME NEW E, NEW s \in Seq(E), NEW t \in Seq(E)
    PROVE  s \o SubSeq(t, 1, 0) = s /\ s \o SubSeq(t, 1, Len(t)) = s \o t
  <1>1. Len(s) \in Nat /\ Len(t) \in Nat
    BY LenProperties
  <1>2. PICK a, b, n : a = SubSeq(t, 1, n) /\ b = SubSeq(t, 1, 0) /\ n = Len(t)
    OBVIOUS
  <1>3. a \in Seq(E) /\ Len(a) = n /\ \A i \in 1 .. n : a[i] = t[i]
    <2>1. 1 \in 1 .. Len(t) + 1 /\ n \in 0 .. Len(t) /\ 1 <= n + 1
      BY <1>1, <1>2
    <2>2. a \in Seq(E) /\ Len(a) = n - 1 + 1 /\ \A i \in 1 .. n - 1 + 1 : a[i] = t[1 - 1 + i]
      BY <1>2, <2>1, PartOfSeq
    <2>. QED
      BY <1>1, <1>2, <2>2
  <1>4. b \in Seq(E) /\ Len(b) = 0
    <2>1. 1 \in 1 .. Len(t) + 1 /\ 0 \in 0 .. Len(t) /\ 1 <= 0 + 1
      BY <1>1
    <2>2. b \in Seq(E) /\ Len(b) = 0 - 1 + 1
      BY <1>2, <2>1, PartOfSeq
    <2>. QED
      BY <2>2
  <1>5. a = t
    BY <1>2, <1>3, SeqEqual
  <1>6. s \o b \in Seq(E) /\ Len(s \o b) = Len(s) + 0
        /\ \A i \in 1 .. Len(s) + 0 : (s \o b)[i] = IF i <= Len(s) THEN s[i] ELSE b[i - Len(s)]
    BY <1>4, ConcatFacts
  <1>7. Len(s) + 0 = Len(s) /\ \A i \in 1 .. Len(s) : i <= Len(s)
    BY <1>1
  <1>8. s \o b = s
    BY <1>6, <1>7, SeqEqual
  <1>. QED
    BY <1>2, <1>5, <1>8

LEMMA AddAllLists ==
    ASSUME NEW E, NEW r \in Rings(E), NEW es \in Seq(E)
    PROVE  /\ AddAll(r, es) \in Rings(E)
           /\ List(AddAll(r, es)) = Bounded!LatestOf(List(r) \o es)
  <1>1. PICK S, n : S = DOMAIN es /\ n = Len(es) /\ S = 1 .. n /\ n \in Nat
    BY LenProperties
  <1>2. IsFiniteSet(S) /\ \A i \in S : es[i] \in E
    <2>1. \A i \in 1 .. n : es[i] \in E
      BY <1>1, ElementOfSeq
    <2>2. IsFiniteSet(1 .. n)
      BY <1>1, FS_Interval
    <2>. QED
      BY <1>1, <2>1, <2>2
  <1>3. \A s \in SUBSET S : s # {} => Max(s) \in s /\ \A i \in s : i <= Max(s)
    BY <1>1, GreatestIsReached
  <1>4. PICK pick : pick = [s \in SUBSET S |-> Max(s)]
    OBVIOUS
  <1>5. PICK step : step = [p \in S \X Rings(E) |-> Add(p[2], es[p[1]])]
    OBVIOUS
  <1>6. step \in [S \X Rings(E) -> Rings(E)]
    <2>1. \A p \in S \X Rings(E) : Add(p[2], es[p[1]]) \in Rings(E)
      BY <1>2, AddLists
    <2>. QED
      BY <1>5, <2>1
  <1>7. PICK g \in [SUBSET S -> Rings(E)] : IsFold(g, S, r, pick, step)
    <2>1. \A s \in SUBSET S : s # {} => pick[s] \in s
      BY <1>3, <1>4
    <2>. QED
      BY <1>2, <1>6, <2>1, FoldExists
  <1>8. g = [s \in SUBSET S |-> IF s = {} THEN r ELSE Add(g[s \ {Max(s)}], es[Max(s)])]
    <2>1. ASSUME NEW s \in SUBSET S, s # {}
          PROVE  step[<<pick[s], g[s \ {pick[s]}]>>] = Add(g[s \ {Max(s)}], es[Max(s)])
      <3>1. pick[s] = Max(s) /\ Max(s) \in S /\ s \ {Max(s)} \in SUBSET S
        BY <1>3, <1>4, <2>1
      <3>2. <<Max(s), g[s \ {Max(s)}]>> \in S \X Rings(E)
        BY <3>1
      <3>. QED
        BY <1>5, <3>1, <3>2
    <2>2. g = [s \in SUBSET S |-> IF s = {} THEN r ELSE step[<<pick[s], g[s \ {pick[s]}]>>]]
      BY <1>7 DEF IsFold
    <2>3. DOMAIN g = SUBSET S
      OBVIOUS
    <2>4. ASSUME NEW s \in SUBSET S
          PROVE  g[s] = IF s = {} THEN r ELSE Add(g[s \ {Max(s)}], es[Max(s)])
      BY <2>1, <2>2
    <2>5. g = [s \in SUBSET S |-> g[s]]
      BY <2>3
    <2>. QED
      BY <2>4, <2>5
  <1>9. PICK h : /\ h = [s \in SUBSET S |-> IF s = {} THEN r ELSE Add(h[s \ {Max(s)}], es[Max(s)])]
                 /\ AddAll(r, es) = h[S]
    <2>1. IsAddAll(g, r, es)
      BY <1>1, <1>8 DEF IsAddAll
    <2>2. PICK h : IsAddAll(h, r, es) /\ AddAll(r, es) = h[DOMAIN es]
      BY <2>1, AddAllFold
    <2>. QED
      BY <1>1, <2>2 DEF IsAddAll
  <1> DEFINE Good(s) ==
          /\ h[s] \in Rings(E)
          /\ \A k \in 0 .. n : s = 1 .. k =>
                 List(h[s]) = Bounded!LatestOf(List(r) \o SubSeq(es, 1, k))
          K == {s \in SUBSET S : Good(s)}
  <1>10. Good({})
    <2>1. h[{}] = r
      BY <1>9
    <2>2. ASSUME NEW k \in 0 .. n, {} = 1 .. k
          PROVE  List(r) = Bounded!LatestOf(List(r) \o SubSeq(es, 1, k))
      <3>1. k = 0
        BY <2>2
      <3>2. List(r) \in Seq(E) /\ Len(List(r)) <= MaxEvents
        BY ListFacts DEF Rings
      <3>3. List(r) \o SubSeq(es, 1, k) = List(r)
        BY <3>1, <3>2, WholeSeq
      <3>. QED
        BY <3>2, <3>3, LatestFacts
    <2>. QED
      BY <2>1, <2>2
  <1>11. ASSUME NEW s \in SUBSET S, s # {}, Good(s \ {Max(s)}) PROVE Good(s)
    <2>1. PICK m, u, q, e : m = Max(s) /\ u = s \ {m} /\ q = h[u] /\ e = es[m]
      OBVIOUS
    <2>2. m \in s /\ m \in S /\ e \in E /\ q \in Rings(E) /\ \A i \in s : i <= m
      BY <1>2, <1>3, <1>11, <2>1
    <2>3. h[s] = Add(q, e)
      BY <1>9, <1>11, <2>1
    <2>4. h[s] \in Rings(E) /\ List(h[s]) = Bounded!LatestOf(Append(List(q), e))
      BY <2>2, <2>3, AddLists
    <2>5. ASSUME NEW k \in 0 .. n, s = 1 .. k
          PROVE  List(h[s]) = Bounded!LatestOf(List(r) \o SubSeq(es, 1, k))
      <3>1. k \in 1 .. n /\ k \in s /\ m = k
        <4>1. k \in Nat /\ k # 0
          BY <1>1, <1>11, <2>5
        <4>2. k \in s /\ m \in 1 .. k
          BY <2>2, <2>5, <4>1
        <4>3. k <= m
          BY <2>2, <4>2
        <4>. QED
          BY <1>1, <4>1, <4>2, <4>3
      <3>2. k - 1 \in 0 .. n /\ u = 1 .. k - 1
        BY <1>1, <2>1, <2>5, <3>1
      <3>3. List(q) = Bounded!LatestOf(List(r) \o SubSeq(es, 1, k - 1))
        BY <1>11, <2>1, <3>2
      <3>4. List(r) \in Seq(E)
        BY ListFacts
      <3>5. PICK x : x = List(r) \o SubSeq(es, 1, k - 1)
        OBVIOUS
      <3>6. x \in Seq(E)
        <4>1. 1 \in 1 .. Len(es) + 1 /\ k - 1 \in 0 .. Len(es) /\ 1 <= k - 1 + 1
          BY <1>1, <3>1
        <4>2. SubSeq(es, 1, k - 1) \in Seq(E)
          BY <4>1, PartOfSeq
        <4>. QED
          BY <3>4, <3>5, <4>2, ConcatFacts
      <3>7. Bounded!LatestOf(Append(Bounded!LatestOf(x), e)) = Bounded!LatestOf(Append(x, e))
        BY <2>2, <3>6, LatestOfLatest
      <3>8. Append(x, e) = List(r) \o SubSeq(es, 1, k)
        BY <1>1, <2>1, <3>1, <3>4, <3>5, ConcatOneMore
      <3>. QED
        BY <2>4, <3>3, <3>5, <3>7, <3>8
    <2>. QED
      BY <2>4, <2>5
  <1>12. S \in K
    <2>1. {} \in K
      BY <1>10
    <2>2. \A s \in SUBSET S : s # {} => pick[s] \in s /\ (s \ {pick[s]} \in K => s \in K)
      BY <1>3, <1>4, <1>11
    <2> HIDE DEF K
    <2>. QED
      BY <1>2, <2>1, <2>2, OneByOne
  <1>13. Good(S)
    BY <1>12
  <1>14. n \in 0 .. n
    BY <1>1
  <1>15. List(r) \o SubSeq(es, 1, n) = List(r) \o es
    BY <1>1, ListFacts, WholeSeq
  <1>. QED
    BY <1>1, <1>9, <1>13, <1>14, <1>15

LEMMA OneElement ==
    ASSUME NEW D, NEW x \in D
    PROVE  <<x>> \in Seq(D) /\ Len(<<x>>) = 1 /\ <<x>>[1] = x
  OBVIOUS

-----------------------------------------------------------------------------
(* The host table.                                                         *)

Exact == {p \in Name : p # CatchAll /\ ~IsWildcard(p)}

Maps(D, V) == UNION {[d -> V] : d \in SUBSET D}

Tables(V) == [exact : Maps(Exact, V), wildcard : Maps(Seq(STRING), V), fallback : SUBSET V]

LEMMA NewTableFacts ==
    ASSUME NEW V
    PROVE  NewTable \in Tables(V) /\ \A p : Stored(NewTable, p) = {}
  <1>1. PICK e : e = <<>>
    OBVIOUS
  <1>2. DOMAIN e = {}
    BY <1>1
  <1>3. e \in [{} -> V]
    BY <1>1
  <1>4. \A D : e \in Maps(D, V)
    BY <1>3 DEF Maps
  <1>5. NewTable = [exact |-> e, wildcard |-> e, fallback |-> {}]
    BY <1>1 DEF NewTable
  <1>6. NewTable \in Tables(V)
    BY <1>4, <1>5 DEF Tables
  <1>7. \A k : At(e, k) = {}
    BY <1>2 DEF At
  <1>. QED
    BY <1>5, <1>6, <1>7 DEF Stored

\* One entry more of a map.
LEMMA Extended ==
    ASSUME NEW D, NEW V, NEW m \in Maps(D, V), NEW key \in D, NEW v \in V
    PROVE  /\ Put(m, key, v) \in Maps(D, V)
           /\ \A k : At(Put(m, key, v), k) = IF k = key THEN {v} ELSE At(m, k)
  <1>1. PICK d \in SUBSET D : m \in [d -> V]
    BY DEF Maps
  <1>2. PICK n : n = Put(m, key, v)
    OBVIOUS
  <1>3. n = [x \in {key} \cup d |-> IF x = key THEN v ELSE m[x]]
    BY <1>1, <1>2 DEF Put
  <1>4. n \in [{key} \cup d -> V] /\ {key} \cup d \in SUBSET D
    BY <1>1, <1>3
  <1>5. n \in Maps(D, V)
    BY <1>4 DEF Maps
  <1>6. \A k : At(n, k) = IF k = key THEN {v} ELSE At(m, k)
    BY <1>1, <1>3 DEF At
  <1>. QED
    BY <1>2, <1>5, <1>6

\* Wildcards of one parent domain are one.
LEMMA WildcardOf ==
    ASSUME NEW p \in Name, NEW q \in Name, IsWildcard(p), IsWildcard(q), Tail(p) = Tail(q)
    PROVE  p = q
  <1>1. p \in Seq(STRING) /\ q \in Seq(STRING) /\ p # <<>> /\ q # <<>>
    BY DEF Name
  <1>2. /\ Len(Tail(p)) = Len(p) - 1 /\ \A i \in 1 .. Len(Tail(p)) : Tail(p)[i] = p[i + 1]
        /\ Len(Tail(q)) = Len(q) - 1 /\ \A i \in 1 .. Len(Tail(q)) : Tail(q)[i] = q[i + 1]
    BY <1>1, HeadTailProperties
  <1>3. Len(p) \in Nat /\ Len(q) \in Nat
    BY <1>1, LenProperties
  <1>4. Len(p) = Len(q)
    <2>1. PICK t : t = Tail(p)
      OBVIOUS
    <2>2. Len(t) = Len(p) - 1 /\ Len(t) = Len(q) - 1
      BY <1>2, <2>1
    <2>. QED
      BY <1>3, <2>2
  <1>5. ASSUME NEW i \in 1 .. Len(p) PROVE p[i] = q[i]
    <2>1. CASE i = 1
      BY <2>1 DEF IsWildcard
    <2>2. CASE i # 1
      <3>1. i - 1 \in 1 .. Len(Tail(p)) /\ i - 1 + 1 = i
        BY <1>2, <1>3, <2>2
      <3>2. Tail(p)[i - 1] = p[i - 1 + 1] /\ Tail(q)[i - 1] = q[i - 1 + 1]
        BY <1>2, <1>4, <3>1
      <3>. QED
        BY <3>1, <3>2
    <2>. QED
      BY <2>1, <2>2
  <1>. QED
    BY <1>1, <1>4, <1>5, SeqEqual

\* What is stored for a pattern is found there, and changes no other's.
LEMMA StoreFacts ==
    ASSUME NEW V, NEW t \in Tables(V), NEW p \in Name, NEW v \in V
    PROVE  /\ Store(t, p, v) \in Tables(V)
           /\ \A q \in Name : Stored(Store(t, p, v), q) = IF q = p THEN {v} ELSE Stored(t, q)
  <1>1. PICK u : u = Store(t, p, v)
    OBVIOUS
  <1>2. /\ t.exact \in Maps(Exact, V) /\ t.wildcard \in Maps(Seq(STRING), V)
        /\ t.fallback \in SUBSET V
        /\ t = [exact |-> t.exact, wildcard |-> t.wildcard, fallback |-> t.fallback]
    BY DEF Tables
  <1>3. CatchAll = <<Star>> /\ Len(CatchAll) = 1 /\ ~IsWildcard(CatchAll)
    BY DEF CatchAll, IsWildcard
  <1>4. CASE p = CatchAll
    <2>1. u = [exact |-> t.exact, wildcard |-> t.wildcard, fallback |-> {v}]
      BY <1>1, <1>2, <1>4 DEF Store
    <2>2. u \in Tables(V)
      BY <1>2, <2>1 DEF Tables
    <2>. QED
      BY <1>1, <1>4, <2>1, <2>2 DEF Stored
  <1>5. CASE p # CatchAll /\ IsWildcard(p)
    <2>1. PICK m, key : m = Put(t.wildcard, key, v) /\ key = Tail(p)
      OBVIOUS
    <2>2. u = [exact |-> t.exact, wildcard |-> m, fallback |-> t.fallback]
      BY <1>1, <1>2, <1>5, <2>1 DEF Store
    <2>3. key \in Seq(STRING)
      BY <2>1, HeadTailProperties DEF Name
    <2>4. /\ m \in Maps(Seq(STRING), V)
          /\ \A k : At(m, k) = IF k = key THEN {v} ELSE At(t.wildcard, k)
      <3>1. PICK D, w : D = Seq(STRING) /\ w = t.wildcard
        OBVIOUS
      <3>2. key \in D /\ w \in Maps(D, V) /\ m = Put(w, key, v)
        BY <1>2, <2>1, <2>3, <3>1
      <3>3. m \in Maps(D, V) /\ \A k : At(m, k) = IF k = key THEN {v} ELSE At(w, k)
        BY <3>2, Extended
      <3>. QED
        BY <3>1, <3>3
    <2>5. u \in Tables(V)
      BY <1>2, <2>2, <2>4 DEF Tables
    <2>6. ASSUME NEW q \in Name
          PROVE  Stored(u, q) = IF q = p THEN {v} ELSE Stored(t, q)
      <3>1. CASE q = CatchAll \/ ~IsWildcard(q)
        BY <1>5, <2>2, <3>1 DEF Stored
      <3>2. CASE q # CatchAll /\ IsWildcard(q)
        <4>1. Stored(u, q) = At(m, Tail(q)) /\ Stored(t, q) = At(t.wildcard, Tail(q))
          BY <2>2, <3>2 DEF Stored
        <4>2. Tail(q) = Tail(p) <=> q = p
          BY <1>5, <3>2, WildcardOf
        <4>. QED
          BY <2>1, <2>4, <4>1, <4>2
      <3>. QED
        BY <3>1, <3>2
    <2>. QED
      BY <1>1, <2>5, <2>6
  <1>6. CASE p # CatchAll /\ ~IsWildcard(p)
    <2>1. PICK m : m = Put(t.exact, p, v)
      OBVIOUS
    <2>2. u = [exact |-> m, wildcard |-> t.wildcard, fallback |-> t.fallback]
      BY <1>1, <1>2, <1>6, <2>1 DEF Store
    <2>3. p \in Exact
      BY <1>6 DEF Exact
    <2>4. /\ m \in Maps(Exact, V)
          /\ \A k : At(m, k) = IF k = p THEN {v} ELSE At(t.exact, k)
      BY <1>2, <2>1, <2>3, Extended
    <2>5. u \in Tables(V)
      BY <1>2, <2>2, <2>4 DEF Tables
    <2>6. \A q \in Name : Stored(u, q) = IF q = p THEN {v} ELSE Stored(t, q)
      BY <1>6, <2>2, <2>4 DEF Stored
    <2>. QED
      BY <1>1, <2>5, <2>6
  <1>. QED
    BY <1>4, <1>5, <1>6

ParentWildcard(host) == <<Star>> \o Tail(host)

LEMMA ParentFacts ==
    ASSUME NEW host \in Name, Len(host) > 1
    PROVE  /\ ParentWildcard(host) \in Name
           /\ IsWildcard(ParentWildcard(host))
           /\ ParentWildcard(host) # CatchAll
           /\ Tail(ParentWildcard(host)) = Tail(host)
           /\ Len(ParentWildcard(host)) > 1
  <1>1. PICK s, w : s = Tail(host) /\ w = ParentWildcard(host)
    OBVIOUS
  <1>2. host \in Seq(STRING) /\ host # <<>> /\ Len(host) \in Nat
    BY LenProperties DEF Name
  <1>3. s \in Seq(STRING) /\ Len(s) = Len(host) - 1
    BY <1>1, <1>2, HeadTailProperties
  <1>4. PICK o : o = <<Star>>
    OBVIOUS
  <1>5. o \in Seq(STRING) /\ Len(o) = 1 /\ o[1] = Star
    BY <1>4, LabelAssumption, OneElement
  <1>6. w = o \o s
    BY <1>1, <1>4 DEF ParentWildcard
  <1>7. /\ w \in Seq(STRING) /\ Len(w) = Len(host)
        /\ \A i \in 1 .. Len(host) : w[i] = IF i <= 1 THEN o[i] ELSE s[i - 1]
    <2>1. /\ w \in Seq(STRING) /\ Len(w) = Len(o) + Len(s)
          /\ \A i \in 1 .. Len(o) + Len(s) : w[i] = IF i <= Len(o) THEN o[i] ELSE s[i - Len(o)]
      BY <1>3, <1>5, <1>6, ConcatFacts
    <2>2. Len(o) + Len(s) = Len(host)
      BY <1>2, <1>3, <1>5
    <2>. QED
      BY <1>5, <2>1, <2>2
  <1>8. w # <<>> /\ w # CatchAll
    <2>1. Len(<<>>) = 0 /\ Len(CatchAll) = 1
      BY DEF CatchAll
    <2>. QED
      BY <1>2, <1>7, <2>1
  <1>9. w[1] = Star /\ Head(w) = Star
    BY <1>2, <1>5, <1>7
  <1>10. Tail(w) = s
    <2>1. /\ Tail(w) \in Seq(STRING) /\ Len(Tail(w)) = Len(w) - 1
          /\ \A i \in 1 .. Len(Tail(w)) : Tail(w)[i] = w[i + 1]
      BY <1>7, <1>8, HeadTailProperties
    <2>2. ASSUME NEW i \in 1 .. Len(s) PROVE Tail(w)[i] = s[i]
      <3>1. i + 1 \in 1 .. Len(host) /\ ~(i + 1 <= 1) /\ i + 1 - 1 = i
        BY <1>2, <1>3
      <3>2. Tail(w)[i] = w[i + 1]
        BY <1>3, <1>7, <2>1
      <3>3. w[i + 1] = s[i + 1 - 1]
        BY <1>7, <3>1
      <3>. QED
        BY <3>1, <3>2, <3>3
    <2>. QED
      BY <1>3, <1>7, <2>1, <2>2, SeqEqual
  <1>. QED
    BY <1>1, <1>7, <1>8, <1>9, <1>10 DEF Name, IsWildcard

\* A name's value is the one stored for the closest pattern that fits it.
LEMMA MatchFacts ==
    ASSUME NEW V, NEW t \in Tables(V), NEW host \in Name
    PROVE  Match(t, host) =
               IF Stored(t, host) # {} THEN Stored(t, host)
               ELSE IF Len(host) > 1 /\ Stored(t, ParentWildcard(host)) # {}
               THEN Stored(t, ParentWildcard(host))
               ELSE Stored(t, CatchAll)
  <1>1. t.exact \in Maps(Exact, V)
    BY DEF Tables
  <1>2. ~IsWildcard(CatchAll)
    <2>1. Len(CatchAll) = 1
      BY DEF CatchAll
    <2>. QED
      BY <2>1 DEF IsWildcard
  <1>3. ASSUME host \notin Exact PROVE At(t.exact, host) = {}
    BY <1>1, <1>3 DEF Maps, At
  <1>4. ASSUME Len(host) > 1
        PROVE  Stored(t, ParentWildcard(host)) = At(t.wildcard, Tail(host))
    BY <1>4, ParentFacts DEF Stored
  <1>5. Stored(t, CatchAll) = t.fallback
    BY DEF Stored
  <1>6. CASE host \in Exact
    <2>1. Stored(t, host) = At(t.exact, host)
      BY <1>6 DEF Stored, Exact
    <2>. QED
      BY <1>4, <1>5, <2>1 DEF Match
  <1>7. CASE host = CatchAll
    <2>1. ~(Len(host) > 1)
      BY <1>7 DEF CatchAll
    <2>2. host \notin Exact
      BY <1>7 DEF Exact
    <2>. QED
      BY <1>3, <1>5, <1>7, <2>1, <2>2 DEF Match
  <1>8. CASE host # CatchAll /\ IsWildcard(host)
    <2>1. Len(host) > 1 /\ Stored(t, host) = At(t.wildcard, Tail(host)) /\ host \notin Exact
      BY <1>8 DEF Stored, Exact, IsWildcard
    <2>. QED
      BY <1>3, <1>4, <1>5, <2>1 DEF Match
  <1>. QED
    BY <1>6, <1>7, <1>8 DEF Exact

-----------------------------------------------------------------------------
(* What loadCertificates yields.                                           *)

Leaves == [file : Files, from : Nat, until : Nat]

CurrentOf(listed, at) ==
    {i \in Files : listed[i].from <= at /\ at + Grace <= listed[i].until}

\* For every name that some of the files have, the table holds the one of them
\* that expires last, and for no other name anything.
Holds(table, some, listed) ==
    /\ table \in Tables(Leaves)
    /\ \A p \in Name : Stored(table, p) = {} => \A i \in some : p \notin listed[i].names
    /\ \A p \in Name : \A leaf \in Stored(table, p) :
           /\ leaf.file \in some /\ p \in listed[leaf.file].names
           /\ leaf.from = listed[leaf.file].from /\ leaf.until = listed[leaf.file].until
           /\ \A j \in some : p \in listed[j].names => listed[j].until <= leaf.until

Stores == [current : Tables(Leaves), stale : Tables(Leaves)]

Loaded(store, listed, at) ==
    /\ store \in Stores
    /\ Holds(store.current, CurrentOf(listed, at), listed)
    /\ Holds(store.stale, Files \ CurrentOf(listed, at), listed)

LEMMA FilesFacts ==
    /\ IsFiniteSet(Files)
    /\ Files = 1 .. FileCount /\ FileCount \in Nat
  BY FilesAssumption, FS_Interval DEF Files

LEMMA NamesFacts ==
    ASSUME NEW listed \in FilesType, NEW i \in Files
    PROVE  listed[i].names \in SUBSET Name /\ IsFiniteSet(listed[i].names)
  <1>1. listed[i].names \in NameSets \cup {{}}
    BY DEF FilesType
  <1>2. CASE listed[i].names = {}
    BY <1>2, FS_EmptySet
  <1>3. CASE listed[i].names \in NameSets
    BY <1>3, FilesAssumption
  <1>. QED
    BY <1>1, <1>2, <1>3

LEMMA StoredLeaves ==
    ASSUME NEW V, NEW t \in Tables(V), NEW p \in Name
    PROVE  Stored(t, p) \subseteq V
  <1>1. /\ t.exact \in Maps(Exact, V) /\ t.wildcard \in Maps(Seq(STRING), V)
        /\ t.fallback \in SUBSET V
    BY DEF Tables
  <1>2. \A k : At(t.exact, k) \subseteq V /\ At(t.wildcard, k) \subseteq V
    BY <1>1 DEF Maps, At
  <1>. QED
    BY <1>1, <1>2 DEF Stored

Winner(t, p, leaf) ==
    IF \E other \in Stored(t, p) : other.until >= leaf.until THEN Stored(t, p) ELSE {leaf}

LEMMA OfferFacts ==
    ASSUME NEW t \in Tables(Leaves), NEW leaf \in Leaves, NEW p \in Name
    PROVE  /\ Offer(t, p, leaf) \in Tables(Leaves)
           /\ \A q \in Name : Stored(Offer(t, p, leaf), q) =
                  IF q = p THEN Winner(t, p, leaf) ELSE Stored(t, q)
  <1>1. CASE \E other \in Stored(t, p) : other.until >= leaf.until
    BY <1>1 DEF Offer, Winner
  <1>2. CASE ~\E other \in Stored(t, p) : other.until >= leaf.until
    <2>1. Offer(t, p, leaf) = Store(t, p, leaf) /\ Winner(t, p, leaf) = {leaf}
      BY <1>2 DEF Offer, Winner
    <2>. QED
      BY <2>1, StoreFacts
  <1>. QED
    BY <1>1, <1>2

LEMMA OfferAllFacts ==
    ASSUME NEW t \in Tables(Leaves), NEW leaf \in Leaves,
           NEW names \in SUBSET Name, IsFiniteSet(names)
    PROVE  /\ OfferAll(t, names, leaf) \in Tables(Leaves)
           /\ \A p \in Name : Stored(OfferAll(t, names, leaf), p) =
                  IF p \in names THEN Winner(t, p, leaf) ELSE Stored(t, p)
  <1>1. \A s \in SUBSET names : s # {} => OneOf(s) \in s
    BY DEF OneOf
  <1>2. PICK B : B = Tables(Leaves)
    OBVIOUS
  <1>3. PICK pick, step : /\ pick = [s \in SUBSET names |-> OneOf(s)]
                          /\ step = [x \in names \X B |-> Offer(x[2], x[1], leaf)]
    OBVIOUS
  <1>4. step \in [names \X B -> B]
    <2>1. \A x \in names \X B : Offer(x[2], x[1], leaf) \in B
      BY <1>2, OfferFacts
    <2>. QED
      BY <1>3, <2>1
  <1>5. PICK g \in [SUBSET names -> B] : IsFold(g, names, t, pick, step)
    <2>1. \A s \in SUBSET names : s # {} => pick[s] \in s
      BY <1>1, <1>3
    <2>. QED
      BY <1>2, <1>4, <2>1, FoldExists
  <1>6. IsOfferAll(g, t, names, leaf)
    <2>1. ASSUME NEW s \in SUBSET names, s # {}
          PROVE  step[<<pick[s], g[s \ {pick[s]}]>>] = Offer(g[s \ {OneOf(s)}], OneOf(s), leaf)
      <3>1. pick[s] = OneOf(s) /\ OneOf(s) \in names /\ s \ {OneOf(s)} \in SUBSET names
        BY <1>1, <1>3, <2>1
      <3>2. <<OneOf(s), g[s \ {OneOf(s)}]>> \in names \X B
        BY <3>1
      <3>. QED
        BY <1>3, <3>1, <3>2
    <2>2. g = [s \in SUBSET names |-> IF s = {} THEN t ELSE step[<<pick[s], g[s \ {pick[s]}]>>]]
      BY <1>5 DEF IsFold
    <2>3. ASSUME NEW s \in SUBSET names
          PROVE  g[s] = IF s = {} THEN t ELSE Offer(g[s \ {OneOf(s)}], OneOf(s), leaf)
      BY <2>1, <2>2
    <2>4. g = [s \in SUBSET names |-> g[s]]
      OBVIOUS
    <2>. QED
      BY <2>3, <2>4 DEF IsOfferAll
  <1>7. PICK h : IsOfferAll(h, t, names, leaf) /\ OfferAll(t, names, leaf) = h[names]
    BY <1>6, OfferFold
  <1>8. h = [s \in SUBSET names |-> IF s = {} THEN t ELSE Offer(h[s \ {OneOf(s)}], OneOf(s), leaf)]
    BY <1>7 DEF IsOfferAll
  <1> DEFINE Good(s) == /\ h[s] \in Tables(Leaves)
                        /\ \A p \in Name : Stored(h[s], p) =
                               IF p \in s THEN Winner(t, p, leaf) ELSE Stored(t, p)
             K == {s \in SUBSET names : Good(s)}
  <1>9. Good({})
    BY <1>8
  <1>10. ASSUME NEW s \in SUBSET names, s # {}, Good(s \ {OneOf(s)}) PROVE Good(s)
    <2>1. PICK x, u : x = OneOf(s) /\ u = h[s \ {x}]
      OBVIOUS
    <2>2. h[s] = Offer(u, x, leaf)
      BY <1>8, <1>10, <2>1
    <2>3. /\ x \in s /\ x \in Name /\ u \in Tables(Leaves)
          /\ \A p \in Name :
                 Stored(u, p) = IF p \in s \ {x} THEN Winner(t, p, leaf) ELSE Stored(t, p)
      BY <1>1, <1>10, <2>1
    <2>4. Stored(u, x) = Stored(t, x)
      BY <2>3
    <2>5. Winner(u, x, leaf) = Winner(t, x, leaf)
      BY <2>4 DEF Winner
    <2>6. /\ Offer(u, x, leaf) \in Tables(Leaves)
          /\ \A q \in Name : Stored(Offer(u, x, leaf), q) =
                  IF q = x THEN Winner(u, x, leaf) ELSE Stored(u, q)
      BY <2>3, OfferFacts
    <2>. QED
      BY <2>2, <2>3, <2>5, <2>6
  <1>11. names \in K
    <2>1. {} \in K
      BY <1>9
    <2>2. \A s \in SUBSET names : s # {} => pick[s] \in s /\ (s \ {pick[s]} \in K => s \in K)
      BY <1>1, <1>3, <1>10
    <2> HIDE DEF K
    <2>. QED
      BY <2>1, <2>2, OneByOne
  <1>12. Good(names)
    BY <1>11
  <1>. QED
    BY <1>7, <1>12

LEMMA HoldsNone == \A listed : Holds(NewTable, {}, listed)
  BY NewTableFacts DEF Holds

LEMMA HoldsOneMore ==
    ASSUME NEW listed \in FilesType, NEW some \in SUBSET Files, NEW t, Holds(t, some, listed),
           NEW i \in Files, NEW leaf,
           leaf = [file |-> i, from |-> listed[i].from, until |-> listed[i].until]
    PROVE  Holds(OfferAll(t, listed[i].names, leaf), some \cup {i}, listed)
  <1>1. /\ t \in Tables(Leaves)
        /\ \A p \in Name : Stored(t, p) = {} => \A k \in some : p \notin listed[k].names
        /\ \A p \in Name : \A other \in Stored(t, p) :
               /\ other.file \in some /\ p \in listed[other.file].names
               /\ other.from = listed[other.file].from /\ other.until = listed[other.file].until
               /\ \A j \in some : p \in listed[j].names => listed[j].until <= other.until
    BY DEF Holds
  <1>2. PICK names, u : names = listed[i].names /\ u = OfferAll(t, names, leaf)
    OBVIOUS
  <1>3. names \in SUBSET Name /\ IsFiniteSet(names)
    BY <1>2, NamesFacts
  <1>4. \A j \in Files : listed[j].from \in Nat /\ listed[j].until \in Nat
    BY DEF FilesType
  <1>5. /\ leaf \in Leaves /\ leaf.file = i
        /\ leaf.from = listed[i].from /\ leaf.until = listed[i].until
    BY <1>4 DEF Leaves
  <1>6. /\ u \in Tables(Leaves)
        /\ \A p \in Name : Stored(u, p) = IF p \in names THEN Winner(t, p, leaf) ELSE Stored(t, p)
    BY <1>1, <1>2, <1>3, <1>5, OfferAllFacts
  <1>7. ASSUME NEW p \in Name, Stored(u, p) = {}, NEW k \in some \cup {i}
        PROVE  p \notin listed[k].names
    <2>1. p \notin names
      <3>1. Winner(t, p, leaf) # {}
        BY DEF Winner
      <3>. QED
        BY <1>6, <1>7, <3>1
    <2>. QED
      BY <1>1, <1>2, <1>6, <1>7, <2>1
  <1>8. ASSUME NEW p \in Name, NEW other \in Stored(u, p)
        PROVE  /\ other.file \in some \cup {i} /\ p \in listed[other.file].names
               /\ other.from = listed[other.file].from /\ other.until = listed[other.file].until
               /\ \A j \in some \cup {i} : p \in listed[j].names => listed[j].until <= other.until
    <2>1. CASE p \notin names
      BY <1>1, <1>2, <1>6, <1>8, <2>1
    <2>2. CASE p \in names /\ \E best \in Stored(t, p) : best.until >= leaf.until
      <3>1. PICK best \in Stored(t, p) : best.until >= leaf.until
        BY <2>2
      <3>2. other \in Stored(t, p)
        BY <1>6, <2>2 DEF Winner
      <3>3. other.file \in Files /\ best.file \in Files
        BY <1>1, <3>1, <3>2
      <3>4. best.until = listed[best.file].until /\ listed[best.file].until <= other.until
        BY <1>1, <3>1, <3>2
      <3>5. listed[i].until <= other.until
        <4>1. other.until \in Nat /\ best.until \in Nat /\ leaf.until \in Nat
          BY <1>1, <1>4, <1>5, <3>2, <3>3, <3>4
        <4>. QED
          BY <1>5, <3>1, <3>4, <4>1
      <3>. QED
        BY <1>1, <3>2, <3>5
    <2>3. CASE p \in names /\ ~\E best \in Stored(t, p) : best.until >= leaf.until
      <3>1. other = leaf
        BY <1>6, <2>3 DEF Winner
      <3>2. ASSUME NEW j \in some, p \in listed[j].names PROVE listed[j].until <= leaf.until
        <4>1. PICK best \in Stored(t, p) : TRUE
          BY <1>1, <3>2
        <4>2. listed[j].until <= best.until /\ ~(best.until >= leaf.until)
          BY <1>1, <2>3, <3>2, <4>1
        <4>3. best.until \in Nat /\ leaf.until \in Nat /\ listed[j].until \in Nat
          BY <1>1, <1>4, <1>5, <4>1
        <4>. QED
          BY <4>2, <4>3
      <3>3. listed[i].until <= leaf.until
        BY <1>4, <1>5
      <3>. QED
        BY <1>2, <1>5, <2>3, <3>1, <3>2, <3>3
    <2>. QED
      BY <2>1, <2>2, <2>3
  <1>. QED
    BY <1>2, <1>6, <1>7, <1>8 DEF Holds

LEMMA LoadOneOffers ==
    ASSUME NEW store, NEW i, NEW leaf, NEW which,
           leaf = [file |-> i, from |-> files[i].from, until |-> files[i].until],
           which = IF IsStale(leaf) THEN "stale" ELSE "current"
    PROVE  LoadOne(store, i) =
               [store EXCEPT ![which] = OfferAll(store[which], files[i].names, leaf)]
  BY DEF LoadOne, OfferAll

LEMMA LoadOneFacts ==
    ASSUME files \in FilesType, now \in Nat, NEW store \in Stores, NEW some \in SUBSET Files,
           NEW i \in Files,
           Holds(store.current, some \cap CurrentOf(files, now), files),
           Holds(store.stale, some \ CurrentOf(files, now), files)
    PROVE  /\ LoadOne(store, i) \in Stores
           /\ Holds(LoadOne(store, i).current, (some \cup {i}) \cap CurrentOf(files, now), files)
           /\ Holds(LoadOne(store, i).stale, (some \cup {i}) \ CurrentOf(files, now), files)
  <1>1. PICK leaf, C : /\ leaf = [file |-> i, from |-> files[i].from, until |-> files[i].until]
                       /\ C = CurrentOf(files, now)
    OBVIOUS
  <1>2. C \in SUBSET Files
    BY <1>1 DEF CurrentOf
  <1>3. IsStale(leaf) <=> i \notin C
    <2>1. files[i].from \in Nat /\ files[i].until \in Nat /\ Grace \in Nat
      BY ClockAssumption DEF FilesType
    <2>. QED
      BY <1>1, <2>1 DEF IsStale, CurrentOf
  <1>4. \A t : Holds(t, {}, files) => t \in Tables(Leaves)
    BY DEF Holds
  <1>5. CASE IsStale(leaf)
    <2>1. PICK u : u = OfferAll(store.stale, files[i].names, leaf)
      OBVIOUS
    <2>2. LoadOne(store, i) = [store EXCEPT !["stale"] = u]
      <3>1. PICK which : which = "stale"
        OBVIOUS
      <3>2. which = IF IsStale(leaf) THEN "stale" ELSE "current"
        BY <1>5, <3>1
      <3>3. LoadOne(store, i) =
                [store EXCEPT ![which] = OfferAll(store[which], files[i].names, leaf)]
        BY <1>1, <3>2, LoadOneOffers
      <3>. QED
        BY <2>1, <3>1, <3>3
    <2>3. Holds(u, (some \ C) \cup {i}, files)
      <3>1. some \ C \in SUBSET Files
        OBVIOUS
      <3>2. PICK t, part : t = store.stale /\ part = some \ C
        OBVIOUS
      <3>3. Holds(OfferAll(t, files[i].names, leaf), part \cup {i}, files)
        BY <1>1, <3>1, <3>2, HoldsOneMore
      <3>. QED
        BY <2>1, <3>2, <3>3
    <2>4. u \in Tables(Leaves)
      BY <2>3 DEF Holds
    <2>5. /\ LoadOne(store, i) \in Stores /\ LoadOne(store, i).stale = u
          /\ LoadOne(store, i).current = store.current
      BY <2>2, <2>4 DEF Stores
    <2>6. (some \cup {i}) \cap C = some \cap C /\ (some \cup {i}) \ C = (some \ C) \cup {i}
      BY <1>3, <1>5
    <2>. QED
      BY <1>1, <2>3, <2>5, <2>6
  <1>6. CASE ~IsStale(leaf)
    <2>1. PICK u : u = OfferAll(store.current, files[i].names, leaf)
      OBVIOUS
    <2>2. LoadOne(store, i) = [store EXCEPT !["current"] = u]
      <3>1. PICK which : which = "current"
        OBVIOUS
      <3>2. which = IF IsStale(leaf) THEN "stale" ELSE "current"
        BY <1>6, <3>1
      <3>3. LoadOne(store, i) =
                [store EXCEPT ![which] = OfferAll(store[which], files[i].names, leaf)]
        BY <1>1, <3>2, LoadOneOffers
      <3>. QED
        BY <2>1, <3>1, <3>3
    <2>3. Holds(u, (some \cap C) \cup {i}, files)
      <3>1. some \cap C \in SUBSET Files
        OBVIOUS
      <3>2. PICK t, part : t = store.current /\ part = some \cap C
        OBVIOUS
      <3>3. Holds(OfferAll(t, files[i].names, leaf), part \cup {i}, files)
        BY <1>1, <3>1, <3>2, HoldsOneMore
      <3>. QED
        BY <2>1, <3>2, <3>3
    <2>4. u \in Tables(Leaves)
      BY <2>3 DEF Holds
    <2>5. /\ LoadOne(store, i) \in Stores /\ LoadOne(store, i).current = u
          /\ LoadOne(store, i).stale = store.stale
      BY <2>2, <2>4 DEF Stores
    <2>6. (some \cup {i}) \cap C = (some \cap C) \cup {i} /\ (some \cup {i}) \ C = some \ C
      BY <1>3, <1>6
    <2>. QED
      BY <1>1, <2>3, <2>5, <2>6
  <1>. QED
    BY <1>5, <1>6

LEMMA LoadFacts ==
    ASSUME files \in FilesType, now \in Nat
    PROVE  Loaded(LoadCertificates, files, now)
  <1>1. PICK C, n : C = CurrentOf(files, now) /\ n = FileCount
    OBVIOUS
  <1>2. /\ n \in Nat /\ Files = 1 .. n /\ IsFiniteSet(Files) /\ DOMAIN Listing = Files
        /\ \A i \in Files : Listing[i] = i
    BY <1>1, FilesFacts DEF Listing
  <1>3. \A s \in SUBSET Files : s # {} => Max(s) \in s
    BY <1>2, GreatestIsReached
  <1>4. NewStore \in Stores
    <2>1. NewTable \in Tables(Leaves)
      BY NewTableFacts
    <2>. QED
      BY <2>1 DEF NewStore, Stores
  <1>5. PICK pick, step : /\ pick = [s \in SUBSET Files |-> Max(s)]
                          /\ step = [x \in Files \X Stores |-> LoadOne(x[2], x[1])]
    OBVIOUS
  <1>6. step \in [Files \X Stores -> Stores]
    <2>1. ASSUME NEW store \in Stores, NEW i \in Files PROVE LoadOne(store, i) \in Stores
      <3>1. PICK leaf, which : 
                /\ leaf = [file |-> i, from |-> files[i].from, until |-> files[i].until]
                /\ which = IF IsStale(leaf) THEN "stale" ELSE "current"
        OBVIOUS
      <3>2. leaf \in Leaves
        BY <3>1 DEF Leaves, FilesType
      <3>3. store[which] \in Tables(Leaves)
        BY <3>1 DEF Stores
      <3>4. PICK u : u = OfferAll(store[which], files[i].names, leaf)
        OBVIOUS
      <3>5. u \in Tables(Leaves)
        <4>1. PICK names, t : names = files[i].names /\ t = store[which]
          OBVIOUS
        <4>2. names \in SUBSET Name /\ IsFiniteSet(names)
          BY <4>1, NamesFacts
        <4>. QED
          BY <3>2, <3>3, <3>4, <4>1, <4>2, OfferAllFacts
      <3>6. LoadOne(store, i) = [store EXCEPT ![which] = u]
        BY <3>1, <3>4, LoadOneOffers
      <3>. QED
        BY <3>1, <3>5, <3>6 DEF Stores
    <2>2. \A x \in Files \X Stores : LoadOne(x[2], x[1]) \in Stores
      BY <2>1
    <2>. QED
      BY <1>5, <2>2
  <1>7. PICK g \in [SUBSET Files -> Stores] : IsFold(g, Files, NewStore, pick, step)
    <2>1. \A s \in SUBSET Files : s # {} => pick[s] \in s
      BY <1>3, <1>5
    <2>. QED
      <3>1. IsFiniteSet(Files)
        BY <1>2
      <3>. QED
        BY <1>4, <1>6, <2>1, <3>1, FoldExists
  <1>8. IsLoad(g)
    <2>1. ASSUME NEW s \in SUBSET Files, s # {}
          PROVE  step[<<pick[s], g[s \ {pick[s]}]>>] = LoadOne(g[s \ {Max(s)}], Listing[Max(s)])
      <3>1. pick[s] = Max(s) /\ Max(s) \in Files /\ s \ {Max(s)} \in SUBSET Files
        BY <1>3, <1>5, <2>1
      <3>2. <<Max(s), g[s \ {Max(s)}]>> \in Files \X Stores
        BY <3>1
      <3>. QED
        BY <1>2, <1>5, <3>1, <3>2
    <2>2. g = [s \in SUBSET Files |->
                  IF s = {} THEN NewStore ELSE step[<<pick[s], g[s \ {pick[s]}]>>]]
      BY <1>7 DEF IsFold
    <2>3. ASSUME NEW s \in SUBSET Files
          PROVE  g[s] = IF s = {} THEN NewStore ELSE LoadOne(g[s \ {Max(s)}], Listing[Max(s)])
      BY <2>1, <2>2
    <2>4. g = [s \in SUBSET Files |-> g[s]]
      OBVIOUS
    <2>. QED
      BY <1>2, <2>3, <2>4 DEF IsLoad
  <1>9. PICK h : IsLoad(h) /\ LoadCertificates = h[DOMAIN Listing]
    BY <1>8, LoadFold
  <1>10. h = [s \in SUBSET Files |->
                 IF s = {} THEN NewStore ELSE LoadOne(h[s \ {Max(s)}], Listing[Max(s)])]
    BY <1>2, <1>9 DEF IsLoad
  <1> DEFINE Good(s) == /\ h[s] \in Stores
                        /\ Holds(h[s].current, s \cap C, files)
                        /\ Holds(h[s].stale, s \ C, files)
             K == {s \in SUBSET Files : Good(s)}
  <1>11. Good({})
    <2>1. h[{}] = NewStore
      BY <1>10
    <2>2. NewStore.current = NewTable /\ NewStore.stale = NewTable
      BY DEF NewStore
    <2>3. {} \cap C = {} /\ {} \ C = {}
      OBVIOUS
    <2>. QED
      BY <1>4, <2>1, <2>2, <2>3, HoldsNone
  <1>12. ASSUME NEW s \in SUBSET Files, s # {}, Good(s \ {Max(s)}) PROVE Good(s)
    <2>1. PICK m, r, u : m = Max(s) /\ r = s \ {m} /\ u = h[r]
      OBVIOUS
    <2>2. m \in s /\ m \in Files /\ r \in SUBSET Files /\ r \cup {m} = s
      BY <1>3, <1>12, <2>1
    <2>3. h[s] = LoadOne(u, m)
      BY <1>2, <1>10, <1>12, <2>1, <2>2
    <2>4. u \in Stores /\ Holds(u.current, r \cap C, files) /\ Holds(u.stale, r \ C, files)
      BY <1>12, <2>1
    <2>5. /\ LoadOne(u, m) \in Stores
          /\ Holds(LoadOne(u, m).current, (r \cup {m}) \cap C, files)
          /\ Holds(LoadOne(u, m).stale, (r \cup {m}) \ C, files)
      BY <1>1, <2>2, <2>4, LoadOneFacts
    <2>. QED
      BY <2>2, <2>3, <2>5
  <1>13. Files \in K
    <2>1. {} \in K
      BY <1>11
    <2>2. \A s \in SUBSET Files : s # {} => pick[s] \in s /\ (s \ {pick[s]} \in K => s \in K)
      BY <1>3, <1>5, <1>12
    <2> HIDE DEF K
    <2>. QED
      <3>1. IsFiniteSet(Files)
        BY <1>2
      <3>. QED
        BY <2>1, <2>2, <3>1, OneByOne
  <1>14. Good(Files)
    BY <1>13
  <1>15. Files \cap C = C
    BY <1>1 DEF CurrentOf
  <1>. QED
    BY <1>1, <1>2, <1>9, <1>14, <1>15 DEF Loaded

-----------------------------------------------------------------------------
(* What a handshake is given.                                              *)

LEMMA FittingFacts ==
    ASSUME NEW host \in Name
    PROVE  /\ Len(host) > 1 => Fitting(host) = <<host, ParentWildcard(host), CatchAll>>
           /\ ~(Len(host) > 1) => Fitting(host) = <<host, CatchAll>>
           /\ CatchAll \in Name
  <1>1. CatchAll \in Name
    <2>1. <<Star>> \in Seq(STRING) /\ Len(<<Star>>) = 1
      BY LabelAssumption, OneElement
    <2>2. Len(<<>>) = 0
      OBVIOUS
    <2>. QED
      BY <2>1, <2>2 DEF Name, CatchAll
  <1>. QED
    BY <1>1 DEF Fitting, ParentWildcard

\* The pattern that decides for a name, among those that some files have.
LEMMA BestFacts ==
    ASSUME NEW host \in Name, NEW some \in SUBSET Files, snap.listed \in FilesType,
           NEW t, Holds(t, some, snap.listed)
    PROVE  /\ Best(some, host) = {} => Match(t, host) = {}
           /\ Best(some, host) # {} => \E leaf \in Match(t, host) :
                  /\ leaf.file \in Best(some, host)
                  /\ leaf.from = snap.listed[leaf.file].from
                  /\ leaf.until = snap.listed[leaf.file].until
  <1> DEFINE naming(k) == {i \in some : Fitting(host)[k] \in snap.listed[i].names}
             named == {k \in DOMAIN Fitting(host) : naming(k) # {}}
             first == CHOOSE k \in named : \A l \in named : k <= l
             last(k) == {i \in naming(k) : \A j \in naming(k) :
                                               snap.listed[j].until <= snap.listed[i].until}
  <1>1. Best(some, host) = IF named = {} THEN {} ELSE last(first)
    BY DEF Best
  <1>2. /\ t \in Tables(Leaves)
        /\ \A p \in Name : Stored(t, p) = {} => \A i \in some : p \notin snap.listed[i].names
        /\ \A p \in Name : \A leaf \in Stored(t, p) :
               /\ leaf.file \in some /\ p \in snap.listed[leaf.file].names
               /\ leaf.from = snap.listed[leaf.file].from
               /\ leaf.until = snap.listed[leaf.file].until
               /\ \A j \in some : p \in snap.listed[j].names => snap.listed[j].until <= leaf.until
    BY DEF Holds
  <1>3. /\ host \in Name /\ CatchAll \in Name
        /\ Len(host) > 1 => ParentWildcard(host) \in Name
    BY FittingFacts, ParentFacts
  <1>4. /\ \A k \in DOMAIN Fitting(host) : Fitting(host)[k] \in Name
        /\ \A k \in DOMAIN Fitting(host) : k \in 1 .. 3
        /\ \A k \in DOMAIN Fitting(host) : \A l \in 1 .. k : l \in DOMAIN Fitting(host)
    <2>1. CASE Len(host) > 1
      <3>1. Fitting(host) = <<host, ParentWildcard(host), CatchAll>>
        BY <2>1, FittingFacts
      <3>. QED
        BY <1>3, <2>1, <3>1
    <2>2. CASE ~(Len(host) > 1)
      <3>1. Fitting(host) = <<host, CatchAll>>
        BY <2>2, FittingFacts
      <3>. QED
        BY <1>3, <2>2, <3>1
    <2>. QED
      BY <2>1, <2>2
  \* Where a file names a fitting pattern, and only there, there is an entry.
  <1>5. \A k \in DOMAIN Fitting(host) : naming(k) = {} <=> Stored(t, Fitting(host)[k]) = {}
    BY <1>2, <1>4
  <1>6. \A k \in DOMAIN Fitting(host) : \A leaf \in Stored(t, Fitting(host)[k]) :
            /\ leaf.file \in last(k)
            /\ leaf.from = snap.listed[leaf.file].from
            /\ leaf.until = snap.listed[leaf.file].until
    <2>1. ASSUME NEW k \in DOMAIN Fitting(host), NEW leaf \in Stored(t, Fitting(host)[k])
          PROVE  /\ leaf.file \in last(k)
                 /\ leaf.from = snap.listed[leaf.file].from
                 /\ leaf.until = snap.listed[leaf.file].until
      <3>1. PICK p \in Name : p = Fitting(host)[k]
        BY <1>4
      <3>2. /\ leaf.file \in some /\ p \in snap.listed[leaf.file].names
            /\ leaf.from = snap.listed[leaf.file].from
            /\ leaf.until = snap.listed[leaf.file].until
            /\ \A j \in some : p \in snap.listed[j].names => snap.listed[j].until <= leaf.until
        BY <1>2, <2>1, <3>1
      <3>. QED
        BY <3>1, <3>2
    <2>. QED
      BY <2>1
  \* The first of them decides.
  <1>7. /\ named = {} => Match(t, host) = {}
        /\ named # {} => Match(t, host) = Stored(t, Fitting(host)[first])
                         /\ Match(t, host) # {} /\ first \in DOMAIN Fitting(host)
    <2>1. named = {k \in DOMAIN Fitting(host) : Stored(t, Fitting(host)[k]) # {}}
      BY <1>5
    <2>2. named # {} => first \in named /\ \A l \in named : first <= l
      <3>1. ASSUME named # {} PROVE \E k \in named : \A l \in named : k <= l
        <4>1. named \in SUBSET Nat
          BY <1>4
        <4> HIDE DEF named
        <4>. QED
          BY <3>1, <4>1, LeastIsReached
      <3>. HIDE DEF named
      <3>. QED
        BY <3>1
    <2> HIDE DEF named, first
    <2>3. CASE Len(host) > 1
      <3>1. Fitting(host) = <<host, ParentWildcard(host), CatchAll>>
        BY <2>3, FittingFacts
      <3>2. /\ DOMAIN Fitting(host) = {1, 2, 3}
            /\ Fitting(host)[1] = host /\ Fitting(host)[2] = ParentWildcard(host)
            /\ Fitting(host)[3] = CatchAll
        BY <3>1
      <3>3. Match(t, host) = IF Stored(t, host) # {} THEN Stored(t, host)
                             ELSE IF Stored(t, ParentWildcard(host)) # {}
                             THEN Stored(t, ParentWildcard(host))
                             ELSE Stored(t, CatchAll)
        BY <1>2, <2>3, MatchFacts
      <3>4. named = {k \in {1, 2, 3} : Stored(t, Fitting(host)[k]) # {}}
        BY <2>1, <3>2
      <3>. QED
        BY <2>2, <3>2, <3>3, <3>4
    <2>4. CASE ~(Len(host) > 1)
      <3>1. Fitting(host) = <<host, CatchAll>>
        BY <2>4, FittingFacts
      <3>2. /\ DOMAIN Fitting(host) = {1, 2}
            /\ Fitting(host)[1] = host /\ Fitting(host)[2] = CatchAll
        BY <3>1
      <3>3. Match(t, host) = IF Stored(t, host) # {} THEN Stored(t, host)
                             ELSE Stored(t, CatchAll)
        BY <1>2, <2>4, MatchFacts
      <3>4. named = {k \in {1, 2} : Stored(t, Fitting(host)[k]) # {}}
        BY <2>1, <3>2
      <3>. QED
        BY <2>2, <3>2, <3>3, <3>4
    <2>. QED
      BY <2>3, <2>4
  <1> HIDE DEF named, first, last
  <1>8. CASE named = {}
    BY <1>1, <1>7, <1>8
  <1>9. CASE named # {}
    <2>1. PICK leaf \in Match(t, host) : TRUE
      BY <1>7, <1>9
    <2>2. /\ leaf.file \in last(first)
          /\ leaf.from = snap.listed[leaf.file].from
          /\ leaf.until = snap.listed[leaf.file].until
      BY <1>6, <1>7, <1>9, <2>1
    <2>. QED
      BY <1>1, <1>9, <2>1, <2>2
  <1>. QED
    BY <1>8, <1>9

-----------------------------------------------------------------------------
(* What compile requires.                                                  *)

\* Some of the names fits the host.
Names(names, host) ==
    \/ host \in names
    \/ Len(host) > 1 /\ ParentWildcard(host) \in names
    \/ CatchAll \in names

\* With files of these names a listed certificate fits the host, current or not,
\* or ACME may get one.
Served(c, accepted, host) ==
    \/ host = CatchAll
    \/ c.acme /\ AcmeEligible(host)
    \/ \E i \in Files : Names(accepted[i], host)

LEMMA MatchNames ==
    ASSUME NEW host \in Name, NEW some, NEW listed, NEW t, Holds(t, some, listed)
    PROVE  Match(t, host) # {} <=> \E i \in some : Names(listed[i].names, host)
  <1>1. /\ t \in Tables(Leaves)
        /\ \A p \in Name : Stored(t, p) = {} => \A i \in some : p \notin listed[i].names
        /\ \A p \in Name : \A leaf \in Stored(t, p) :
               leaf.file \in some /\ p \in listed[leaf.file].names
    BY DEF Holds
  <1>2. \A p \in Name : Stored(t, p) # {} <=> \E i \in some : p \in listed[i].names
    BY <1>1
  <1>3. CatchAll \in Name /\ (Len(host) > 1 => ParentWildcard(host) \in Name)
    BY FittingFacts, ParentFacts
  <1>4. Match(t, host) # {} <=> \/ Stored(t, host) # {}
                                \/ Len(host) > 1 /\ Stored(t, ParentWildcard(host)) # {}
                                \/ Stored(t, CatchAll) # {}
    BY <1>1, MatchFacts
  <1>. QED
    BY <1>2, <1>3, <1>4 DEF Names

\* Whatever file names the host is in one of the two tables.
LEMMA NamedIsLoaded ==
    ASSUME NEW host \in Name, NEW certs, NEW listed, NEW at, Loaded(certs, listed, at)
    PROVE  (Match(certs.current, host) # {} \/ Match(certs.stale, host) # {}) <=>
               \E i \in Files : Names(listed[i].names, host)
  <1>1. PICK C : C = CurrentOf(listed, at)
    OBVIOUS
  <1>2. Holds(certs.current, C, listed) /\ Holds(certs.stale, Files \ C, listed)
    BY <1>1 DEF Loaded
  <1>3. Match(certs.current, host) # {} <=> \E i \in C : Names(listed[i].names, host)
    BY <1>2, MatchNames
  <1>4. Match(certs.stale, host) # {} <=> \E i \in Files \ C : Names(listed[i].names, host)
    <2>1. PICK some, t : some = Files \ C /\ t = certs.stale
      OBVIOUS
    <2>2. Match(t, host) # {} <=> \E i \in some : Names(listed[i].names, host)
      BY <1>2, <2>1, MatchNames
    <2>. QED
      BY <2>1, <2>2
  <1>5. C \subseteq Files
    BY <1>1 DEF CurrentOf
  <1>. QED
    BY <1>3, <1>4, <1>5

\* Whether compile finds a certificate for a host is decided by the names of the
\* files, and not by when they expire.
LEMMA RequireIsServed ==
    ASSUME NEW c, NEW host \in Name, NEW certs, NEW listed, NEW at, Loaded(certs, listed, at),
           NEW accepted, accepted = [i \in Files |-> listed[i].names]
    PROVE  RequireCertificate(c, certs, host) <=> Served(c, accepted, host)
  <1>1. (Match(certs.current, host) # {} \/ Match(certs.stale, host) # {}) <=>
            \E i \in Files : Names(listed[i].names, host)
    BY NamedIsLoaded
  <1>2. \A i \in Files : accepted[i] = listed[i].names
    OBVIOUS
  <1>3. (\E i \in Files : Names(listed[i].names, host)) <=> \E i \in Files : Names(accepted[i], host)
    BY <1>2
  <1>. QED
    BY <1>1, <1>3 DEF RequireCertificate, Covers, Served

LEMMA SiteFacts ==
    ASSUME NEW c \in Configs
    PROVE  /\ IsFiniteSet(DOMAIN c.sites)
           /\ \A i \in DOMAIN c.sites : c.sites[i].hosts \in SUBSET Name
                                        /\ IsFiniteSet(c.sites[i].hosts)
           /\ TlsHosts(c) \in SUBSET Name
  <1>1. /\ IsFiniteSet(DOMAIN c.sites)
        /\ \A i \in DOMAIN c.sites : c.sites[i].hosts \in SUBSET Name
                                     /\ IsFiniteSet(c.sites[i].hosts)
    BY ConfigsAssumption
  <1>. QED
    BY <1>1 DEF TlsHosts, TlsSites

-----------------------------------------------------------------------------
(* The listeners' tables.                                                  *)

LEMMA ClaimsFacts ==
    ASSUME NEW c \in Configs, NEW listener
    PROVE  /\ IsFiniteSet(Claims(c, listener))
           /\ \A x : x \in Claims(c, listener) <=>
                  \E i \in DOMAIN c.sites : /\ Serves(c, listener, i)
                                            /\ \E p \in c.sites[i].hosts : x = <<i, p>>
  <1>1. \A x : x \in Claims(c, listener) <=>
            \E i \in DOMAIN c.sites : /\ Serves(c, listener, i)
                                      /\ \E p \in c.sites[i].hosts : x = <<i, p>>
    BY DEF Claims
  <1>2. PICK H : H = UNION {c.sites[i].hosts : i \in DOMAIN c.sites}
    OBVIOUS
  <1>3. IsFiniteSet(H)
    <2>1. PICK D, hosts : D = DOMAIN c.sites /\ hosts = [i \in D |-> c.sites[i].hosts]
      OBVIOUS
    <2>2. IsFiniteSet(D) /\ \A i \in D : IsFiniteSet(hosts[i])
      BY <2>1, SiteFacts
    <2>3. PICK R : R = {hosts[i] : i \in D}
      OBVIOUS
    <2>4. IsFiniteSet(R)
      <3>1. PICK f : f = [i \in D |-> hosts[i]]
        OBVIOUS
      <3>2. f \in Surjection(D, R)
        BY <2>3, <3>1 DEF Surjection
      <3>. QED
        BY <2>2, <3>2, FS_Surjection
    <2>5. \A s \in R : IsFiniteSet(s)
      BY <2>2, <2>3
    <2>6. IsFiniteSet(UNION R)
      BY <2>4, <2>5, FS_UNION
    <2>7. H = UNION R
      BY <1>2, <2>1, <2>3
    <2>. QED
      BY <2>6, <2>7
  <1>4. IsFiniteSet((DOMAIN c.sites) \X H)
    <2>1. PICK D : D = DOMAIN c.sites
      OBVIOUS
    <2>2. IsFiniteSet(D)
      BY <2>1, SiteFacts
    <2>3. IsFiniteSet(D \X H)
      BY <1>3, <2>2, FS_Product
    <2>. QED
      BY <2>1, <2>3
  <1>5. Claims(c, listener) \subseteq (DOMAIN c.sites) \X H
    BY <1>1, <1>2
  <1>6. IsFiniteSet(Claims(c, listener))
    BY <1>4, <1>5, FS_Subset
  <1>. QED
    BY <1>1, <1>6

Entries(c, listener) == {Entry(c, listener, i) : i \in DOMAIN c.sites}

\* A pattern has an entry on a listener just where a site there claims it, and
\* the entry is that of such a site.
LEMMA DispatcherFacts ==
    ASSUME NEW c \in Configs, NEW listener
    PROVE  /\ Dispatcher(c, listener) \in Tables(Entries(c, listener))
           /\ \A i \in DOMAIN c.sites : Serves(c, listener, i) =>
                  \A p \in c.sites[i].hosts : Stored(Dispatcher(c, listener), p) # {}
           /\ \A p \in Name : \A e \in Stored(Dispatcher(c, listener), p) :
                  \E i \in DOMAIN c.sites : /\ Serves(c, listener, i)
                                            /\ p \in c.sites[i].hosts
                                            /\ e = Entry(c, listener, i)
  <1>1. PICK claims, V, B :
            claims = Claims(c, listener) /\ V = Entries(c, listener) /\ B = Tables(V)
    OBVIOUS
  <1>2. IsFiniteSet(claims)
    BY <1>1, ClaimsFacts
  <1>3. \A x \in claims : x[1] \in DOMAIN c.sites /\ x[2] \in Name /\ x[2] \in c.sites[x[1]].hosts
                          /\ Serves(c, listener, x[1]) /\ Entry(c, listener, x[1]) \in V
    <2>1. ASSUME NEW x \in claims
          PROVE  x[1] \in DOMAIN c.sites /\ x[2] \in Name /\ x[2] \in c.sites[x[1]].hosts
                 /\ Serves(c, listener, x[1]) /\ Entry(c, listener, x[1]) \in V
      <3>1. PICK i \in DOMAIN c.sites : /\ Serves(c, listener, i)
                                        /\ \E p \in c.sites[i].hosts : x = <<i, p>>
        BY <1>1, ClaimsFacts
      <3>2. PICK p \in c.sites[i].hosts : x = <<i, p>>
        BY <3>1
      <3>3. x[1] = i /\ x[2] = p
        BY <3>2
      <3>4. p \in Name
        BY SiteFacts
      <3>. QED
        BY <1>1, <3>1, <3>3, <3>4 DEF Entries
    <2>. QED
      BY <2>1
  <1>4. \A s \in SUBSET claims : s # {} => OneOf(s) \in s
    BY DEF OneOf
  <1>5. PICK pick, step :
            /\ pick = [s \in SUBSET claims |-> OneOf(s)]
            /\ step = [y \in claims \X B |-> Store(y[2], y[1][2], Entry(c, listener, y[1][1]))]
    OBVIOUS
  <1>6. step \in [claims \X B -> B]
    <2>1. ASSUME NEW x \in claims, NEW t \in B
          PROVE  Store(t, x[2], Entry(c, listener, x[1])) \in B
      BY <1>1, <1>3, StoreFacts
    <2>2. \A y \in claims \X B : Store(y[2], y[1][2], Entry(c, listener, y[1][1])) \in B
      BY <2>1
    <2>. QED
      BY <1>5, <2>2
  <1>7. PICK g \in [SUBSET claims -> B] : IsFold(g, claims, NewTable, pick, step)
    <2>1. \A s \in SUBSET claims : s # {} => pick[s] \in s
      BY <1>4, <1>5
    <2>2. NewTable \in B
      BY <1>1, NewTableFacts
    <2>. QED
      BY <1>2, <1>6, <2>1, <2>2, FoldExists
  <1>8. IsDispatcher(g, c, listener)
    <2>1. ASSUME NEW s \in SUBSET claims, s # {}
          PROVE  step[<<pick[s], g[s \ {pick[s]}]>>] =
                     Store(g[s \ {OneOf(s)}], OneOf(s)[2], Entry(c, listener, OneOf(s)[1]))
      <3>1. pick[s] = OneOf(s) /\ OneOf(s) \in claims /\ s \ {OneOf(s)} \in SUBSET claims
        BY <1>4, <1>5, <2>1
      <3>2. PICK x, t : x = OneOf(s) /\ t = g[s \ {x}]
        OBVIOUS
      <3>3. x \in claims /\ t \in B
        BY <3>1, <3>2
      <3>4. step[<<x, t>>] = Store(t, x[2], Entry(c, listener, x[1]))
        BY <1>5, <3>3
      <3>. QED
        BY <3>1, <3>2, <3>4
    <2>2. g = [s \in SUBSET claims |->
                  IF s = {} THEN NewTable ELSE step[<<pick[s], g[s \ {pick[s]}]>>]]
      BY <1>7 DEF IsFold
    <2>3. ASSUME NEW s \in SUBSET claims
          PROVE  g[s] = IF s = {} THEN NewTable
                        ELSE Store(g[s \ {OneOf(s)}], OneOf(s)[2], Entry(c, listener, OneOf(s)[1]))
      BY <2>1, <2>2
    <2>4. g = [s \in SUBSET claims |-> g[s]]
      OBVIOUS
    <2>. QED
      BY <1>1, <2>3, <2>4 DEF IsDispatcher
  <1>9. PICK h : IsDispatcher(h, c, listener) /\ Dispatcher(c, listener) = h[Claims(c, listener)]
    BY <1>8, DispatcherFold
  <1>10. h = [s \in SUBSET claims |->
                 IF s = {} THEN NewTable
                 ELSE Store(h[s \ {OneOf(s)}], OneOf(s)[2], Entry(c, listener, OneOf(s)[1]))]
    BY <1>1, <1>9 DEF IsDispatcher
  <1> DEFINE Good(s) == /\ h[s] \in Tables(V)
                        /\ \A x \in s : Stored(h[s], x[2]) # {}
                        /\ \A p \in Name : \A e \in Stored(h[s], p) :
                               \E x \in s : p = x[2] /\ e = Entry(c, listener, x[1])
             K == {s \in SUBSET claims : Good(s)}
  <1>11. Good({})
    <2>1. h[{}] = NewTable
      BY <1>10
    <2>. QED
      BY <2>1, NewTableFacts
  <1>12. ASSUME NEW s \in SUBSET claims, s # {}, Good(s \ {OneOf(s)}) PROVE Good(s)
    <2>1. PICK x, r, t, e0 : x = OneOf(s) /\ r = s \ {x} /\ t = h[r] /\ e0 = Entry(c, listener, x[1])
      OBVIOUS
    <2>2. x \in s /\ x \in claims /\ x[2] \in Name /\ e0 \in V
      BY <1>3, <1>4, <1>12, <2>1
    <2>3. h[s] = Store(t, x[2], e0)
      BY <1>10, <1>12, <2>1
    <2>4. /\ t \in Tables(V)
          /\ \A y \in r : Stored(t, y[2]) # {}
          /\ \A p \in Name : \A e \in Stored(t, p) :
                 \E y \in r : p = y[2] /\ e = Entry(c, listener, y[1])
      <3>1. r = s \ {OneOf(s)} /\ t = h[r]
        BY <2>1
      <3>2. Good(r)
        <4> HIDE DEF Good
        <4>. QED
          BY <1>12, <3>1
      <3>. QED
        BY <3>1, <3>2
    <2>5. /\ h[s] \in Tables(V)
          /\ \A q \in Name : Stored(h[s], q) = IF q = x[2] THEN {e0} ELSE Stored(t, q)
      <3>1. PICK p : p = x[2]
        OBVIOUS
      <3>2. p \in Name /\ e0 \in V /\ t \in Tables(V)
        BY <2>2, <2>4, <3>1
      <3>3. /\ Store(t, p, e0) \in Tables(V)
            /\ \A q \in Name : Stored(Store(t, p, e0), q) = IF q = p THEN {e0} ELSE Stored(t, q)
        BY <3>2, StoreFacts
      <3>. QED
        BY <2>3, <3>1, <3>3
    <2>6. ASSUME NEW y \in s PROVE Stored(h[s], y[2]) # {}
      <3>1. y[2] \in Name /\ (y = x \/ y \in r)
        BY <1>3, <2>1
      <3>. QED
        BY <2>4, <2>5, <3>1
    <2>7. ASSUME NEW p \in Name, NEW e \in Stored(h[s], p)
          PROVE  \E y \in s : p = y[2] /\ e = Entry(c, listener, y[1])
      <3>1. CASE p = x[2]
        <4>1. e = e0
          BY <2>5, <2>7, <3>1
        <4>. QED
          BY <2>1, <2>2, <3>1, <4>1
      <3>2. CASE p # x[2]
        <4>1. e \in Stored(t, p)
          BY <2>5, <2>7, <3>2
        <4>2. PICK y \in r : p = y[2] /\ e = Entry(c, listener, y[1])
          BY <2>4, <4>1
        <4>. QED
          BY <2>1, <4>2
      <3>. QED
        BY <3>1, <3>2
    <2>. QED
      BY <2>5, <2>6, <2>7
  <1>13. claims \in K
    <2>1. {} \in K
      BY <1>11
    <2>2. \A s \in SUBSET claims : s # {} => pick[s] \in s /\ (s \ {pick[s]} \in K => s \in K)
      BY <1>4, <1>5, <1>12
    <2> HIDE DEF K
    <2>. QED
      BY <1>2, <2>1, <2>2, OneByOne
  <1>14. Good(claims)
    BY <1>13
  <1>15. PICK t : t = Dispatcher(c, listener)
    OBVIOUS
  <1>16. t = h[claims]
    BY <1>1, <1>9, <1>15
  <1>17. ASSUME NEW i \in DOMAIN c.sites, Serves(c, listener, i), NEW p \in c.sites[i].hosts
         PROVE  Stored(t, p) # {}
    <2>1. <<i, p>> \in claims
      BY <1>1, <1>17, ClaimsFacts
    <2>2. Stored(t, <<i, p>>[2]) # {}
      BY <1>14, <1>16, <2>1
    <2>. QED
      BY <2>2
  <1>18. ASSUME NEW p \in Name, NEW e \in Stored(t, p)
         PROVE  \E i \in DOMAIN c.sites : /\ Serves(c, listener, i)
                                          /\ p \in c.sites[i].hosts
                                          /\ e = Entry(c, listener, i)
    <2>1. PICK x \in claims : p = x[2] /\ e = Entry(c, listener, x[1])
      BY <1>14, <1>16
    <2>. QED
      BY <1>3, <2>1
  <1>. QED
    BY <1>1, <1>14, <1>15, <1>16, <1>17, <1>18

-----------------------------------------------------------------------------
(* The invariant of Front.                                                 *)

SnapOK ==
    /\ snap = [config |-> snap.config, certs |-> snap.certs, managed |-> snap.managed,
               http |-> snap.http, https |-> snap.https,
               accepted |-> snap.accepted, listed |-> snap.listed, loaded |-> snap.loaded]
    /\ snap.config \in Configs
    /\ snap.listed \in FilesType
    /\ snap.loaded \in Nat /\ snap.loaded <= now
    /\ Loaded(snap.certs, snap.listed, snap.loaded)
    /\ snap.managed = ManagedHosts(snap.config, snap.certs)
    /\ snap.http = Dispatcher(snap.config, "http")
    /\ snap.https = Dispatcher(snap.config, "https")
    /\ \A host \in TlsHosts(snap.config) : Served(snap.config, snap.accepted, host)
    /\ ~Conflict(snap.config)
    /\ DOMAIN snap.accepted = Files
    /\ snap.accepted = [i \in DOMAIN snap.accepted |-> snap.accepted[i]]

Events == {"warned", "applied", "failed", "issued"}

FrontInv ==
    /\ now \in Nat
    /\ files \in FilesType
    /\ SnapOK
    /\ snap.managed \cap stored \subseteq issued /\ issued \subseteq stored
    /\ ring \in Rings(Events)
    /\ request # NoRequest => request.peer \in Peers /\ request.hops \in Hops

LEMMA CompiledOK ==
    ASSUME now \in Nat, files \in FilesType, NEW c \in Configs, Compiles(c, LoadCertificates),
           NEW s, s = Compiled(c, LoadCertificates)
    PROVE  /\ s = [config |-> s.config, certs |-> s.certs, managed |-> s.managed,
                   http |-> s.http, https |-> s.https, accepted |-> s.accepted,
                   listed |-> s.listed, loaded |-> s.loaded]
           /\ s.config = c /\ s.listed = files /\ s.loaded = now
           /\ s.certs = LoadCertificates
           /\ Loaded(s.certs, s.listed, s.loaded)
           /\ s.managed = ManagedHosts(c, s.certs)
           /\ s.http = Dispatcher(c, "http") /\ s.https = Dispatcher(c, "https")
           /\ \A host \in TlsHosts(c) : Served(c, s.accepted, host)
           /\ ~Conflict(c)
           /\ DOMAIN s.accepted = Files
           /\ s.accepted = [i \in DOMAIN s.accepted |-> s.accepted[i]]
  <1>1. PICK certs, accepted : /\ certs = LoadCertificates
                               /\ accepted = [i \in Files |-> files[i].names]
    OBVIOUS
  <1>2. s = [config |-> c, certs |-> certs, managed |-> ManagedHosts(c, certs),
             http |-> Dispatcher(c, "http"), https |-> Dispatcher(c, "https"),
             accepted |-> accepted, listed |-> files, loaded |-> now]
    BY <1>1 DEF Compiled
  <1>3. Loaded(certs, files, now)
    BY <1>1, LoadFacts
  <1>4. ASSUME NEW host \in TlsHosts(c) PROVE Served(c, accepted, host)
    <2>1. RequireCertificate(c, certs, host)
      BY <1>1 DEF Compiles
    <2>2. host \in Name
      BY SiteFacts
    <2>. QED
      BY <1>1, <1>3, <2>1, <2>2, RequireIsServed
  <1>5. ~Conflict(c)
    BY DEF Compiles
  <1>. QED
    BY <1>1, <1>2, <1>3, <1>4, <1>5

LEMMA WarningsFacts ==
    /\ Warnings \in Seq(Events)
    /\ \E n \in 0 .. Cardinality(Files) : Warnings = Warned(n)
  <1>1. PICK S : S = {i \in Files : files[i].names # {} /\ IsStale(files[i])}
    OBVIOUS
  <1>2. /\ IsFiniteSet(Files) /\ S \subseteq Files
    BY <1>1, FilesFacts
  <1>3. Cardinality(S) \in 0 .. Cardinality(Files)
    <2>1. IsFiniteSet(S) /\ Cardinality(S) <= Cardinality(Files)
      BY <1>2, FS_Subset
    <2>2. Cardinality(S) \in Nat /\ Cardinality(Files) \in Nat
      BY <1>2, <2>1, FS_CardinalityType
    <2>. QED
      BY <2>1, <2>2
  <1>4. PICK n \in 0 .. Cardinality(Files) : Warnings = Warned(n)
    BY <1>1, <1>3 DEF Warnings
  <1>5. n \in Nat
    BY <1>3
  <1>6. PICK f : f = [i \in 1 .. n |-> "warned"]
    OBVIOUS
  <1>7. f \in Seq(Events)
    BY <1>5, <1>6 DEF Events
  <1>. QED
    BY <1>4, <1>6, <1>7 DEF Warned

LEMMA LoggedFacts ==
    ASSUME NEW n \in 0 .. Cardinality(Files),
           NEW what \in {<<>>, <<"applied">>, <<"failed">>, <<"issued">>}
    PROVE  Warned(n) \o what \in Logged
  <1>1. PICK N, T : /\ N = 0 .. Cardinality(Files)
                    /\ T = {<<>>, <<"applied">>, <<"failed">>, <<"issued">>}
    OBVIOUS
  <1>2. Logged = {Warned(m) \o x : m \in N, x \in T}
    BY <1>1 DEF Logged
  <1>3. n \in N /\ what \in T
    BY <1>1
  <1>. QED
    BY <1>2, <1>3

\* What each kind of step logs is a batch of the abstract log.
LEMMA Batches ==
    ASSUME NEW batch,
           \/ batch = Warnings \/ batch = Append(Warnings, "applied")
           \/ batch = <<"failed">> \/ batch = <<"issued">>
    PROVE  batch \in Logged /\ batch \in Seq(Events)
  <1>1. PICK w : w = Warnings
    OBVIOUS
  <1>2. w \in Seq(Events) /\ \E n \in 0 .. Cardinality(Files) : w = Warned(n)
    BY <1>1, WarningsFacts
  <1>3. \A what \in {<<>>, <<"applied">>, <<"failed">>, <<"issued">>} : w \o what \in Logged
    BY <1>2, LoggedFacts
  <1>4. CASE batch = Warnings
    <2>1. w \o <<>> = w
      BY <1>2, ConcatEmptySeq
    <2>2. w \o <<>> \in Logged
      BY <1>3
    <2>. QED
      BY <1>1, <1>2, <1>4, <2>1, <2>2
  <1>5. CASE batch = Append(Warnings, "applied")
    <2>1. "applied" \in Events
      BY DEF Events
    <2>2. PICK e : e = "applied"
      OBVIOUS
    <2>3. Append(w, e) \in Seq(Events)
      BY <1>2, <2>1, <2>2, AppendFacts
    <2>4. Append(w, e) = w \o <<e>>
      BY <1>2, <2>1, <2>2, AppendIsConcat
    <2>5. w \o <<e>> \in Logged
      BY <1>3, <2>2
    <2>. QED
      BY <1>1, <1>5, <2>2, <2>3, <2>4, <2>5
  <1>6. ASSUME NEW e \in {"failed", "issued"}
        PROVE  <<e>> \in Logged /\ <<e>> \in Seq(Events)
    <2>1. e \in Events
      BY DEF Events
    <2>2. PICK o, z : o = <<e>> /\ z = Warned(0)
      OBVIOUS
    <2>3. o \in Seq(Events)
      BY <2>1, <2>2, OneElement
    <2>4. z = <<>>
      BY <2>2 DEF Warned
    <2>5. <<>> \o o = o
      BY <2>3, ConcatEmptySeq
    <2>6. 0 \in 0 .. Cardinality(Files)
      BY FilesFacts, FS_CardinalityType
    <2>7. z \o o \in Logged
      <3>1. PICK n : n = 0
        OBVIOUS
      <3>2. n \in 0 .. Cardinality(Files) /\ z = Warned(n)
        BY <2>2, <2>6, <3>1
      <3>3. o \in {<<>>, <<"applied">>, <<"failed">>, <<"issued">>}
        BY <2>2
      <3>. QED
        BY <3>2, <3>3, LoggedFacts
    <2>. QED
      BY <2>2, <2>3, <2>4, <2>5, <2>7
  <1>. QED
    BY <1>4, <1>5, <1>6

LEMMA EmptyRingFacts ==
    /\ EmptyRing \in Rings(Events)
    /\ List(EmptyRing) = <<>>
  <1>1. PICK s, r : s = <<>> /\ r = [events |-> s, next |-> 0] /\ r = EmptyRing
    BY DEF EmptyRing
  <1>2. s \in Seq(Events) /\ Len(s) = 0
    BY <1>1, EmptySeq
  <1>3. r \in Rings(Events)
    BY <1>1, <1>2, EventLogAssumption DEF Rings
  <1>4. List(r) \in Seq(Events) /\ Len(List(r)) = 0
    BY <1>1, <1>2, <1>3, ListFacts
  <1>5. List(r) = <<>>
    BY <1>4, EmptySeq
  <1>. QED
    BY <1>1, <1>3, <1>5

LEMMA FrontStarts == FrontInit => FrontInv /\ Bounded!Init
  <1> SUFFICES ASSUME FrontInit PROVE FrontInv /\ Bounded!Init
    OBVIOUS
  <1>1. now = 0 /\ now \in Nat /\ files \in FilesType /\ ring = AddAll(EmptyRing, Warnings)
        /\ request = NoRequest /\ stored = {} /\ issued = {}
    BY FilesAssumption DEF FrontInit, Init
  <1>2. SnapOK
    <2>1. PICK c \in Configs : Compiles(c, LoadCertificates) /\ snap = Compiled(c, LoadCertificates)
      BY DEF FrontInit, Init
    <2>. QED
      BY <1>1, <2>1, CompiledOK DEF SnapOK
  <1>3. PICK w : w = Warnings
    OBVIOUS
  <1>4. w \in Logged /\ w \in Seq(Events)
    BY <1>3, Batches
  <1>5. ring \in Rings(Events) /\ List(ring) = Bounded!LatestOf(List(EmptyRing) \o w)
    BY <1>1, <1>3, <1>4, EmptyRingFacts, AddAllLists
  <1>6. List(EmptyRing) \o w = w
    BY <1>4, EmptyRingFacts, ConcatEmptySeq
  <1>7. Bounded!Init
    BY <1>4, <1>5, <1>6 DEF Bounded!Init
  <1>. QED
    BY <1>1, <1>2, <1>5, <1>7 DEF FrontInv

LEMMA LogStep ==
    ASSUME ring \in Rings(Events), NEW batch, Log(batch),
           \/ batch = Warnings \/ batch = Append(Warnings, "applied")
           \/ batch = <<"failed">> \/ batch = <<"issued">>
    PROVE  ring' \in Rings(Events) /\ Bounded!Next
  <1>1. batch \in Logged /\ batch \in Seq(Events)
    BY Batches
  <1>2. ring' = AddAll(ring, batch)
    BY DEF Log
  <1>3. /\ AddAll(ring, batch) \in Rings(Events)
        /\ List(AddAll(ring, batch)) = Bounded!LatestOf(List(ring) \o batch)
    BY <1>1, AddAllLists
  <1>. QED
    BY <1>1, <1>2, <1>3 DEF Bounded!Next

\* A manager that takes over has what is on disk for its hosts, and no more.
LEMMA HandOverFacts ==
    ASSUME NEW c, NEW certs, NEW managed, managed = ManagedHosts(c, certs), issued \subseteq stored
    PROVE  /\ managed \cap stored \subseteq HandOver(c, managed)
           /\ HandOver(c, managed) \subseteq stored
  <1>1. ~c.acme => managed = {}
    BY DEF ManagedHosts
  <1>. QED
    BY <1>1 DEF HandOver

LEMMA FrontSteps ==
    ASSUME FrontInv, [FrontNext]_frontVars
    PROVE  FrontInv' /\ [Bounded!Next]_(List(ring))
  <1> USE DEF FrontInv
  <1>1. CASE UNCHANGED frontVars
    BY <1>1 DEF frontVars, vars, SnapOK
  <1>2. ASSUME NEW peer \in Peers, NEW hops \in Hops, Ask(peer, hops)
        PROVE  FrontInv' /\ [Bounded!Next]_(List(ring))
    BY <1>2 DEF Ask, vars, SnapOK
  <1>3. ASSUME NEW c \in Configs, Apply(c), UNCHANGED request
        PROVE  FrontInv' /\ [Bounded!Next]_(List(ring))
    <2>1. UNCHANGED <<now, files, stored>>
      BY <1>3 DEF Apply
    <2>2. CASE Compiles(c, LoadCertificates)
      <3>1. /\ snap' = Compiled(c, LoadCertificates) /\ Log(Append(Warnings, "applied"))
            /\ issued' = HandOver(c, snap'.managed)
        BY <1>3, <2>2 DEF Apply
      <3>2. SnapOK'
        BY <2>1, <2>2, <3>1, CompiledOK DEF SnapOK
      <3>3. snap'.managed = ManagedHosts(c, LoadCertificates)
        BY <3>1 DEF Compiled
      <3>4. snap'.managed \cap stored \subseteq issued' /\ issued' \subseteq stored
        BY <3>1, <3>3, HandOverFacts
      <3>. QED
        BY <1>3, <2>1, <3>1, <3>2, <3>4, LogStep
    <2>3. CASE ~Compiles(c, LoadCertificates)
      <3>1. UNCHANGED <<snap, issued>> /\ Log(Warnings)
        BY <1>3, <2>3 DEF Apply
      <3>2. SnapOK'
        BY <2>1, <3>1 DEF SnapOK
      <3>. QED
        BY <1>3, <2>1, <3>1, <3>2, LogStep
    <2>. QED
      BY <2>2, <2>3
  <1>4. ASSUME Refresh, UNCHANGED request
        PROVE  FrontInv' /\ [Bounded!Next]_(List(ring))
    <2>1. /\ UNCHANGED <<now, files, stored>> /\ Log(Warnings)
          /\ issued' = HandOver(snap.config, snap'.managed)
      BY <1>4 DEF Refresh
    <2>2. PICK certs : certs = LoadCertificates
      OBVIOUS
    <2>3. snap' = [snap EXCEPT !.certs = certs, !.managed = ManagedHosts(snap.config, certs),
                               !.listed = files, !.loaded = now]
      BY <1>4, <2>2 DEF Refresh, Reloaded
    <2>4. Loaded(certs, files, now)
      BY <2>2, LoadFacts
    <2>5. snap' = [config |-> snap.config, certs |-> certs,
                   managed |-> ManagedHosts(snap.config, certs),
                   http |-> snap.http, https |-> snap.https, accepted |-> snap.accepted,
                   listed |-> files, loaded |-> now]
      <3>1. PICK a, b, d, e, f, g, l, o :
                snap = [config |-> a, certs |-> b, managed |-> d, http |-> e, https |-> f,
                        accepted |-> g, listed |-> l, loaded |-> o]
        BY DEF SnapOK
      <3>. QED
        BY <2>3, <3>1
    <2>6. SnapOK'
      BY <2>1, <2>4, <2>5 DEF SnapOK
    <2>7. snap'.managed \cap stored \subseteq issued' /\ issued' \subseteq stored
      <3>1. snap'.managed = ManagedHosts(snap.config, certs)
        BY <2>5
      <3>. QED
        BY <2>1, <3>1, HandOverFacts
    <2>. QED
      BY <1>4, <2>1, <2>6, <2>7, LogStep
  <1>5. ASSUME RefreshFails, UNCHANGED request
        PROVE  FrontInv' /\ [Bounded!Next]_(List(ring))
    <2>1. UNCHANGED <<now, files, snap, stored, issued>> /\ Log(<<"failed">>)
      BY <1>5 DEF RefreshFails
    <2>2. SnapOK'
      BY <2>1 DEF SnapOK
    <2>. QED
      BY <1>5, <2>1, <2>2, LogStep
  <1>6. ASSUME NEW host \in snap.managed, Issue(host), UNCHANGED request
        PROVE  FrontInv' /\ [Bounded!Next]_(List(ring))
    <2>1. /\ UNCHANGED <<now, files, snap>> /\ Log(<<"issued">>)
          /\ stored' = stored \cup {host} /\ issued' = issued \cup {host}
      BY <1>6 DEF Issue
    <2>2. SnapOK'
      BY <2>1 DEF SnapOK
    <2>. QED
      BY <1>6, <2>1, <2>2, LogStep
  <1>7. ASSUME NEW i \in Files, Renew(i), UNCHANGED request
        PROVE  FrontInv' /\ [Bounded!Next]_(List(ring))
    <2>1. UNCHANGED <<now, snap, stored, issued, ring>>
      BY <1>7 DEF Renew
    <2>2. PICK from \in {now, now + 1}, names \in NameSets :
              files' = [files EXCEPT ![i] = [names |-> names, from |-> from,
                                             until |-> from + Lifetime, readable |-> TRUE]]
      BY <1>7 DEF Renew
    <2>3. from \in Nat /\ from + Lifetime \in Nat
      BY ClockAssumption
    <2>4. files' \in FilesType
      BY <2>2, <2>3 DEF FilesType
    <2>5. SnapOK'
      BY <2>1 DEF SnapOK
    <2>. QED
      BY <1>7, <2>1, <2>4, <2>5
  <1>8. ASSUME NEW i \in Files, Spoil(i), UNCHANGED request
        PROVE  FrontInv' /\ [Bounded!Next]_(List(ring))
    <2>1. /\ UNCHANGED <<now, snap, stored, issued, ring>>
          /\ files' = [files EXCEPT ![i].readable = FALSE]
      BY <1>8 DEF Spoil
    <2>2. files' \in FilesType
      BY <2>1 DEF FilesType
    <2>3. SnapOK'
      BY <2>1 DEF SnapOK
    <2>. QED
      BY <1>8, <2>1, <2>2, <2>3
  <1>9. ASSUME Tick, UNCHANGED request
        PROVE  FrontInv' /\ [Bounded!Next]_(List(ring))
    <2>1. UNCHANGED <<files, snap, stored, issued, ring>> /\ now' = now + 1
      BY <1>9 DEF Tick
    <2>2. SnapOK'
      BY <2>1 DEF SnapOK
    <2>. QED
      BY <1>9, <2>1, <2>2
  <1>10. ASSUME NEW i \in Sourced, LeaveOut(i), UNCHANGED request
         PROVE  FrontInv' /\ [Bounded!Next]_(List(ring))
    <2>1. /\ UNCHANGED <<now, snap, stored, issued, ring>>
          /\ files' = [files EXCEPT ![i].names = {}, ![i].readable = TRUE]
      BY <1>10 DEF LeaveOut
    <2>2. files' \in FilesType
      BY <2>1 DEF FilesType
    <2>3. SnapOK'
      BY <2>1 DEF SnapOK
    <2>. QED
      BY <1>10, <2>1, <2>2, <2>3
  <1>. QED
    BY <1>1, <1>2, <1>3, <1>4, <1>5, <1>6, <1>7, <1>8, <1>9, <1>10 DEF FrontNext, Next

\* FrontInv is kept by every step: applying, refreshing, issuing, renewing and
\* spoiling files, and the clock.
THEOREM FrontInvariant == Spec => []FrontInv
  <1>1. FrontInit => FrontInv
    BY FrontStarts
  <1>2. FrontInv /\ [FrontNext]_frontVars => FrontInv'
    BY FrontSteps
  <1>. QED
    BY <1>1, <1>2, PTL DEF Spec

\* The ring of events.go implements the log of the last MaxEvents events: every
\* step that logs adds its batch to the list, and no other step changes it.
THEOREM RingRefines == Spec => RingIsLog
  <1>1. FrontInit => Bounded!Init
    BY FrontStarts
  <1>2. FrontInv /\ [FrontNext]_frontVars => [Bounded!Next]_(List(ring))
    BY FrontSteps
  <1>. QED
    BY <1>1, <1>2, FrontInvariant, PTL DEF Spec, RingIsLog, Bounded!Spec

LEMMA BestIsOfThem ==
    ASSUME NEW some, NEW host PROVE Best(some, host) \subseteq some
  BY DEF Best

LEMMA ChoiceHolds == FrontInv => HandshakeChoice
  <1> SUFFICES ASSUME FrontInv, NEW host \in ServerNames
               PROVE  LET given   == Handshake(host)
                          current == Best(CurrentFiles, host)
                          stale   == Best(Files \ CurrentFiles, host)
                      IN  IF current # {}
                          THEN \E leaf \in given :
                                  /\ leaf.file \in current
                                  /\ now <= snap.loaded + Grace =>
                                         leaf.from <= now /\ now <= leaf.until
                          ELSE IF given = {FromAcme(host)} THEN snap.config.acme /\ host \in stored
                          ELSE /\ host \notin snap.managed \cap stored
                               /\ IF stale # {} THEN \E leaf \in given : leaf.file \in stale
                                                ELSE given = {}
    BY DEF HandshakeChoice
  <1>1. host \in Name
    BY NamesAssumption
  <1>2. /\ snap.listed \in FilesType /\ snap.loaded \in Nat /\ snap.loaded <= now /\ now \in Nat
        /\ Grace \in Nat
        /\ Loaded(snap.certs, snap.listed, snap.loaded)
    BY ClockAssumption DEF FrontInv, SnapOK
  <1>3. PICK C, D : C = CurrentFiles /\ D = Files \ CurrentFiles
    OBVIOUS
  <1>4. C = CurrentOf(snap.listed, snap.loaded) /\ C \in SUBSET Files /\ D \in SUBSET Files
    BY <1>3 DEF CurrentFiles, CurrentOf
  <1>5. PICK tc, ts : tc = snap.certs.current /\ ts = snap.certs.stale
    OBVIOUS
  <1>6. Holds(tc, C, snap.listed) /\ Holds(ts, D, snap.listed)
    BY <1>2, <1>3, <1>4, <1>5 DEF Loaded
  <1>7. /\ Best(C, host) = {} => Match(tc, host) = {}
        /\ Best(C, host) # {} => \E leaf \in Match(tc, host) :
               /\ leaf.file \in Best(C, host)
               /\ leaf.from = snap.listed[leaf.file].from
               /\ leaf.until = snap.listed[leaf.file].until
    BY <1>1, <1>2, <1>4, <1>6, BestFacts
  <1>8. /\ Best(D, host) = {} => Match(ts, host) = {}
        /\ Best(D, host) # {} => \E leaf \in Match(ts, host) : leaf.file \in Best(D, host)
    <2>1. /\ Best(D, host) = {} => Match(ts, host) = {}
          /\ Best(D, host) # {} => \E leaf \in Match(ts, host) :
                 /\ leaf.file \in Best(D, host)
                 /\ leaf.from = snap.listed[leaf.file].from
                 /\ leaf.until = snap.listed[leaf.file].until
      BY <1>1, <1>2, <1>4, <1>6, BestFacts
    <2>. QED
      BY <2>1
  <1>9. Handshake(host) = IF Match(tc, host) # {} THEN Match(tc, host)
                          ELSE IF snap.config.acme /\ host \in issued THEN {FromAcme(host)}
                          ELSE Match(ts, host)
    BY <1>5 DEF Handshake
  <1>10. ASSUME Best(C, host) # {}
         PROVE  \E leaf \in Handshake(host) :
                    /\ leaf.file \in Best(C, host)
                    /\ now <= snap.loaded + Grace => leaf.from <= now /\ now <= leaf.until
    <2>1. PICK leaf \in Match(tc, host) : /\ leaf.file \in Best(C, host)
                                          /\ leaf.from = snap.listed[leaf.file].from
                                          /\ leaf.until = snap.listed[leaf.file].until
      BY <1>7, <1>10
    <2>2. leaf \in Handshake(host)
      BY <1>9, <2>1
    <2>3. leaf.file \in C
      BY <2>1, BestIsOfThem
    <2>4. /\ leaf.file \in Files
          /\ snap.listed[leaf.file].from <= snap.loaded
          /\ snap.loaded + Grace <= snap.listed[leaf.file].until
      BY <1>4, <2>3 DEF CurrentOf
    <2>5. snap.listed[leaf.file].from \in Nat /\ snap.listed[leaf.file].until \in Nat
      BY <1>2, <2>4 DEF FilesType
    <2>6. now <= snap.loaded + Grace => leaf.from <= now /\ now <= leaf.until
      BY <1>2, <2>1, <2>4, <2>5
    <2>. QED
      BY <2>1, <2>2, <2>6
  <1>11. ASSUME Best(C, host) = {}
         PROVE  IF Handshake(host) = {FromAcme(host)} THEN snap.config.acme /\ host \in stored
                ELSE /\ host \notin snap.managed \cap stored
                     /\ IF Best(D, host) # {} THEN \E leaf \in Handshake(host) : leaf.file \in Best(D, host)
                                             ELSE Handshake(host) = {}
    <2>1. Match(tc, host) = {}
      BY <1>7, <1>11
    <2>2. /\ snap.managed \cap stored \subseteq issued /\ issued \subseteq stored
          /\ snap.managed = ManagedHosts(snap.config, snap.certs)
      BY DEF FrontInv, SnapOK
    <2>3. host \in snap.managed => snap.config.acme
      BY <2>2 DEF ManagedHosts
    <2>4. CASE snap.config.acme /\ host \in issued
      BY <1>9, <2>1, <2>2, <2>4
    <2>5. CASE ~(snap.config.acme /\ host \in issued)
      <3>1. Handshake(host) = Match(ts, host) /\ host \notin snap.managed \cap stored
        BY <1>9, <2>1, <2>2, <2>3, <2>5
      <3>2. CASE Best(D, host) = {}
        BY <1>8, <3>1, <3>2
      <3>3. CASE Best(D, host) # {}
        <4>1. PICK leaf \in Match(ts, host) : leaf.file \in Best(D, host)
          BY <1>8, <3>3
        <4>2. Handshake(host) # {FromAcme(host)}
          <5>1. leaf.file \in Files /\ FromAcme(host).file = 0
            BY <1>4, <4>1, BestIsOfThem DEF FromAcme
          <5>2. leaf.file # 0
            BY <5>1, FilesFacts
          <5>. QED
            BY <3>1, <4>1, <5>1, <5>2
        <4>. QED
          BY <3>1, <3>3, <4>1, <4>2
      <3>. QED
        BY <3>2, <3>3
    <2>. QED
      BY <2>4, <2>5
  <1>. QED
    BY <1>3, <1>10, <1>11

\* A handshake presents the best listed certificate that is current, else ACME's,
\* else the best stale one, after any Applies, refreshes and renewals.
THEOREM ChoiceIsBest == Spec => []HandshakeChoice
  BY FrontInvariant, ChoiceHolds, PTL

LEMMA RedirectHolds == FrontInv => RedirectLands
  <1> SUFFICES ASSUME FrontInv, NEW host \in ServerNames, NEW plain \in Dispatched("http", host),
                      plain.redirect
               PROVE  /\ Dispatched("https", host) # {}
                      /\ \/ OnlyCatchAll(host)
                         \/ Dropped(host) /\ ~AcmeTakesOver(host)
                         \/ Handshake(host) # {}
                         \/ host \in snap.managed
    BY DEF RedirectLands
  <1>1. PICK c : c = snap.config
    OBVIOUS
  <1>2. /\ host \in Name /\ c \in Configs
        /\ snap.http = Dispatcher(c, "http") /\ snap.https = Dispatcher(c, "https")
        /\ snap.managed = ManagedHosts(c, snap.certs)
        /\ Loaded(snap.certs, snap.listed, snap.loaded)
        /\ \A h \in TlsHosts(c) : Served(c, snap.accepted, h)
    BY <1>1, NamesAssumption DEF FrontInv, SnapOK
  <1>3. PICK H, S : H = snap.http /\ S = snap.https
    OBVIOUS
  <1>4. /\ Dispatched("http", host) = Match(H, host) /\ Dispatched("https", host) = Match(S, host)
    BY <1>3 DEF Dispatched
  <1>5. /\ H \in Tables(Entries(c, "http"))
        /\ \A p \in Name : \A e \in Stored(H, p) :
               \E i \in DOMAIN c.sites : /\ Serves(c, "http", i)
                                         /\ p \in c.sites[i].hosts
                                         /\ e = Entry(c, "http", i)
    BY <1>2, <1>3, DispatcherFacts
  <1>6. /\ S \in Tables(Entries(c, "https"))
        /\ \A i \in DOMAIN c.sites : Serves(c, "https", i) =>
               \A p \in c.sites[i].hosts : Stored(S, p) # {}
        /\ \A p \in Name : \A e \in Stored(S, p) :
               \E i \in DOMAIN c.sites : /\ Serves(c, "https", i)
                                         /\ p \in c.sites[i].hosts
                                         /\ e = Entry(c, "https", i)
    BY <1>2, <1>3, DispatcherFacts
  <1>7. CatchAll \in Name /\ (Len(host) > 1 => ParentWildcard(host) \in Name)
    BY <1>2, FittingFacts, ParentFacts
  \* The pattern that the plain listener matched is claimed on the TLS listener.
  <1>8. PICK p \in Name : /\ p \in {host, CatchAll} \/ (Len(host) > 1 /\ p = ParentWildcard(host))
                          /\ plain \in Stored(H, p)
    <2>1. plain \in Match(H, host)
      BY <1>4
    <2>2. \/ plain \in Stored(H, host)
          \/ Len(host) > 1 /\ plain \in Stored(H, ParentWildcard(host))
          \/ plain \in Stored(H, CatchAll)
      BY <1>2, <1>5, <2>1, MatchFacts
    <2>. QED
      BY <1>2, <1>7, <2>2
  <1>9. Stored(S, p) # {}
    <2>1. PICK i \in DOMAIN c.sites : p \in c.sites[i].hosts /\ plain = Entry(c, "http", i)
      BY <1>5, <1>8
    <2>2. c.sites[i].tls
      BY <2>1 DEF Entry
    <2>3. Serves(c, "https", i)
      BY <2>2 DEF Serves
    <2>. QED
      BY <1>6, <2>1, <2>3
  <1>10. Match(S, host) # {}
    BY <1>2, <1>6, <1>8, <1>9, MatchFacts
  <1>11. PICK tc, ts : tc = snap.certs.current /\ ts = snap.certs.stale
    OBVIOUS
  <1>12. Match(tc, host) # {} \/ Match(ts, host) # {} => Handshake(host) # {}
    BY <1>11 DEF Handshake
  \* What ACME may take over is covered, or managed, whatever the files name.
  <1>13. CASE AcmeTakesOver(host)
    <2>1. c.acme /\ host \in TlsHosts(c) /\ AcmeEligible(host)
      BY <1>1, <1>13 DEF AcmeTakesOver
    <2>2. CASE Covers(tc, host)
      <3>1. host # CatchAll
        BY <2>1 DEF AcmeEligible, IsConcrete, CatchAll
      <3>2. Match(tc, host) # {}
        BY <2>2, <3>1 DEF Covers
      <3>. QED
        BY <1>4, <1>10, <1>12, <3>2
    <2>3. CASE ~Covers(tc, host)
      <3>1. host \in snap.managed
        BY <1>2, <1>11, <2>1, <2>3 DEF ManagedHosts
      <3>. QED
        BY <1>4, <1>10, <3>1
    <2>. QED
      BY <2>2, <2>3
  \* For the rest a file named the pattern when it was compiled: either it still
  \* does, and is presented, or the name has been dropped.
  <1>14. CASE ~AcmeTakesOver(host) /\ ~OnlyCatchAll(host)
    <2>1. PICK k \in DOMAIN Fitting(host) :
              Fitting(host)[k] # CatchAll /\ Stored(S, Fitting(host)[k]) # {}
      BY <1>3, <1>14 DEF OnlyCatchAll
    <2>2. PICK q : q = Fitting(host)[k]
      OBVIOUS
    <2>3. q = host \/ (Len(host) > 1 /\ q = ParentWildcard(host))
      <3>1. CASE Len(host) > 1
        <4>1. Fitting(host) = <<host, ParentWildcard(host), CatchAll>>
          BY <1>2, <3>1, FittingFacts
        <4>. QED
          BY <2>1, <2>2, <3>1, <4>1
      <3>2. CASE ~(Len(host) > 1)
        <4>1. Fitting(host) = <<host, CatchAll>>
          BY <1>2, <3>2, FittingFacts
        <4>. QED
          BY <2>1, <2>2, <4>1
      <3>. QED
        BY <3>1, <3>2
    <2>4. q \in Name /\ q # CatchAll /\ Stored(S, q) # {}
      BY <1>2, <1>7, <2>1, <2>2, <2>3
    <2>5. q \in TlsHosts(c)
      <3>1. PICK e \in Stored(S, q) : TRUE
        BY <2>4
      <3>2. PICK i \in DOMAIN c.sites : Serves(c, "https", i) /\ q \in c.sites[i].hosts
        BY <1>6, <2>4, <3>1
      <3>3. c.sites[i].tls
        BY <3>2 DEF Serves
      <3>. QED
        BY <3>2, <3>3 DEF TlsHosts, TlsSites
    <2>6. ~(c.acme /\ AcmeEligible(q))
      <3>1. Len(host) > 1 => Head(ParentWildcard(host)) = Star
        BY <1>2, ParentFacts DEF IsWildcard
      <3>2. CASE q = host
        BY <1>1, <1>14, <2>5, <3>2 DEF AcmeTakesOver
      <3>3. CASE Len(host) > 1 /\ q = ParentWildcard(host)
        BY <3>1, <3>3 DEF AcmeEligible, IsConcrete
      <3>. QED
        BY <2>3, <3>2, <3>3
    <2>7. PICK i \in Files : Names(snap.accepted[i], q)
      BY <1>2, <2>4, <2>5, <2>6 DEF Served
    <2>8. PICK l \in DOMAIN Fitting(host) : Fitting(host)[l] \in snap.accepted[i]
      <3>1. \/ q \in snap.accepted[i]
            \/ Len(q) > 1 /\ ParentWildcard(q) \in snap.accepted[i]
            \/ CatchAll \in snap.accepted[i]
        BY <2>7 DEF Names
      <3>2. Len(host) > 1 /\ q = ParentWildcard(host) => ParentWildcard(q) = q
        BY <1>2, ParentFacts DEF ParentWildcard
      <3>3. CASE Len(host) > 1
        <4>1. Fitting(host) = <<host, ParentWildcard(host), CatchAll>>
          BY <1>2, <3>3, FittingFacts
        <4>2. /\ DOMAIN Fitting(host) = {1, 2, 3}
              /\ Fitting(host)[1] = host /\ Fitting(host)[2] = ParentWildcard(host)
              /\ Fitting(host)[3] = CatchAll
          BY <4>1
        <4>. QED
          BY <2>3, <3>1, <3>2, <3>3, <4>2
      <3>4. CASE ~(Len(host) > 1)
        <4>1. Fitting(host) = <<host, CatchAll>>
          BY <1>2, <3>4, FittingFacts
        <4>2. /\ DOMAIN Fitting(host) = {1, 2}
              /\ Fitting(host)[1] = host /\ Fitting(host)[2] = CatchAll
          BY <4>1
        <4>. QED
          BY <2>3, <3>1, <3>4, <4>2
      <3>. QED
        BY <3>3, <3>4
    <2>9. CASE Fitting(host)[l] \notin snap.listed[i].names
      <3>1. Dropped(host)
        BY <2>8, <2>9 DEF Dropped
      <3>. QED
        BY <1>4, <1>10, <1>14, <3>1
    <2>10. CASE Fitting(host)[l] \in snap.listed[i].names
      <3>1. Names(snap.listed[i].names, host)
        <4>1. PICK names : names = snap.listed[i].names
          OBVIOUS
        <4>2. CASE Len(host) > 1
          <5>1. Fitting(host) = <<host, ParentWildcard(host), CatchAll>>
            BY <1>2, <4>2, FittingFacts
          <5>. QED
            BY <2>10, <4>1, <4>2, <5>1 DEF Names
        <4>3. CASE ~(Len(host) > 1)
          <5>1. Fitting(host) = <<host, CatchAll>>
            BY <1>2, <4>3, FittingFacts
          <5>. QED
            BY <2>10, <4>1, <5>1 DEF Names
        <4>. QED
          BY <4>2, <4>3
      <3>2. Match(tc, host) # {} \/ Match(ts, host) # {}
        BY <1>2, <1>11, <3>1, NamedIsLoaded
      <3>. QED
        BY <1>4, <1>10, <1>12, <3>2
    <2>. QED
      BY <2>9, <2>10
  <1>. QED
    BY <1>4, <1>10, <1>13, <1>14

\* A redirected plain request finds a site on the TLS listener and, unless only
\* the catch-all site fits its name, a certificate, or ACME at work to get one;
\* a host that ACME cannot take over may lose its certificate only when a refresh
\* has read one that no longer has the name it was accepted for.
THEOREM RedirectsLand == Spec => []RedirectLands
  BY FrontInvariant, RedirectHolds, PTL

\* What compile required is required of the names of the files, so that it holds
\* again while these are the same.
LEMMA StaleHolds == FrontInv => StaleNeverBlocks
  <1> SUFFICES ASSUME FrontInv,
                      \A i \in Files : files[i].names = snap.accepted[i],
                      snap.config.plain \/ ~snap.config.acme
               PROVE  Compiles(snap.config, LoadCertificates)
    BY DEF StaleNeverBlocks
  <1>1. PICK c, accepted, certs : /\ c = snap.config /\ accepted = snap.accepted
                                  /\ certs = LoadCertificates
    OBVIOUS
  <1>2. /\ c \in Configs /\ ~Conflict(c)
        /\ \A host \in TlsHosts(c) : Served(c, accepted, host)
        /\ accepted = [i \in Files |-> files[i].names]
    BY <1>1 DEF FrontInv, SnapOK
  <1>3. Loaded(certs, files, now)
    BY <1>1, LoadFacts DEF FrontInv
  <1>4. ASSUME NEW host \in TlsHosts(c) PROVE RequireCertificate(c, certs, host)
    <2>1. host \in Name
      BY <1>2, SiteFacts
    <2>. QED
      BY <1>2, <1>3, <2>1, RequireIsServed
  <1>5. ManagedHosts(c, certs) # {} => c.plain
    BY <1>1 DEF ManagedHosts
  <1>. QED
    BY <1>1, <1>2, <1>4, <1>5 DEF Compiles

\* Expiry alone never makes an accepted configuration unacceptable.
THEOREM StaleAccepted == Spec => []StaleNeverBlocks
  BY FrontInvariant, StaleHolds, PTL

-----------------------------------------------------------------------------
(* Whom a request is taken to come from.                                   *)

\* A hop that ends the walk.
Stop(trusted, hops, i) == hops[i] = Malformed \/ hops[i] \notin trusted

LastStop(trusted, hops, j) ==
    /\ j \in 1 .. Len(hops)
    /\ Stop(trusted, hops, j)
    /\ \A i \in j + 1 .. Len(hops) : ~Stop(trusted, hops, i)

\* The client as it stands when the walk, from the right, gets to hop j.
Before(peer, hops, j) == IF j = Len(hops) THEN peer ELSE hops[j + 1]

\* The client when the walk has ended at hop j.
Verdict(peer, hops, j) == IF hops[j] = Malformed THEN Before(peer, hops, j) ELSE hops[j]

Start(peer) == [client |-> peer, over |-> FALSE]

\* The last stop decides, and if there is none the first hop.
LEMMA WalkFacts ==
    ASSUME NEW trusted, NEW peer, NEW H, NEW hops \in Seq(H),
           NEW w, w = Walk(trusted, hops, Start(peer))
    PROVE  /\ (\A i \in 1 .. Len(hops) : ~Stop(trusted, hops, i)) =>
                  w.client = Before(peer, hops, 0)
           /\ \A j : LastStop(trusted, hops, j) => w.client = Verdict(peer, hops, j)
  <1>1. PICK S, n, B : /\ S = DOMAIN hops /\ n = Len(hops) /\ S = 1 .. n /\ n \in Nat
                       /\ B = [client : H \cup {peer}, over : BOOLEAN]
    BY LenProperties
  <1>2. IsFiniteSet(S) /\ \A i \in S : hops[i] \in H
    <2>1. \A i \in 1 .. n : hops[i] \in H
      BY <1>1, ElementOfSeq
    <2>2. IsFiniteSet(1 .. n)
      BY <1>1, FS_Interval
    <2>. QED
      BY <1>1, <2>1, <2>2
  <1>3. \A s \in SUBSET S : s # {} => Min(s) \in s /\ \A i \in s : Min(s) <= i
    <2>1. ASSUME NEW s \in SUBSET S, s # {} PROVE Min(s) \in s /\ \A i \in s : Min(s) <= i
      <3>1. s \in SUBSET Nat
        BY <1>1
      <3>. QED
        BY <2>1, <3>1, LeastIsReached
    <2>. QED
      BY <2>1
  <1>4. PICK start : start = Start(peer) /\ start \in B /\ ~start.over /\ start.client = peer
    <2>1. PICK start : start = Start(peer)
      OBVIOUS
    <2>2. start = [client |-> peer, over |-> FALSE]
      BY <2>1 DEF Start
    <2>3. start \in B
      BY <1>1, <2>2
    <2>4. ~start.over /\ start.client = peer
      BY <2>2
    <2>. QED
      BY <2>1, <2>3, <2>4
  <1>5. \A hop \in H : \A walk \in B : Hop(trusted, hop, walk) \in B
    BY <1>1 DEF Hop
  <1>6. PICK pick, step : /\ pick = [s \in SUBSET S |-> Min(s)]
                          /\ step = [x \in S \X B |-> Hop(trusted, hops[x[1]], x[2])]
    OBVIOUS
  <1>7. step \in [S \X B -> B]
    <2>1. \A x \in S \X B : Hop(trusted, hops[x[1]], x[2]) \in B
      BY <1>2, <1>5
    <2>. QED
      BY <1>6, <2>1
  <1>8. PICK g \in [SUBSET S -> B] : IsFold(g, S, start, pick, step)
    <2>1. \A s \in SUBSET S : s # {} => pick[s] \in s
      BY <1>3, <1>6
    <2>. QED
      BY <1>2, <1>4, <1>7, <2>1, FoldExists
  <1>9. IsWalk(g, trusted, hops, start)
    <2>1. ASSUME NEW s \in SUBSET S, s # {}
          PROVE  step[<<pick[s], g[s \ {pick[s]}]>>] = Hop(trusted, hops[Min(s)], g[s \ {Min(s)}])
      <3>1. pick[s] = Min(s) /\ Min(s) \in S /\ s \ {Min(s)} \in SUBSET S
        BY <1>3, <1>6, <2>1
      <3>2. <<Min(s), g[s \ {Min(s)}]>> \in S \X B
        BY <3>1
      <3>. QED
        BY <1>6, <3>1, <3>2
    <2>2. g = [s \in SUBSET S |-> IF s = {} THEN start ELSE step[<<pick[s], g[s \ {pick[s]}]>>]]
      BY <1>8 DEF IsFold
    <2>3. ASSUME NEW s \in SUBSET S
          PROVE  g[s] = IF s = {} THEN start ELSE Hop(trusted, hops[Min(s)], g[s \ {Min(s)}])
      BY <2>1, <2>2
    <2>4. g = [s \in SUBSET S |-> g[s]]
      OBVIOUS
    <2>. QED
      BY <1>1, <2>3, <2>4 DEF IsWalk
  <1>10. PICK h : IsWalk(h, trusted, hops, start) /\ w = h[DOMAIN hops]
    BY <1>4, <1>9, HopFold
  <1>11. h = [s \in SUBSET S |->
                 IF s = {} THEN start ELSE Hop(trusted, hops[Min(s)], h[s \ {Min(s)}])]
    BY <1>1, <1>10 DEF IsWalk
  <1> DEFINE Walked(x, k) ==
                 /\ x.over <=> \E i \in k .. n : Stop(trusted, hops, i)
                 /\ ~x.over => x.client = Before(peer, hops, k - 1)
                 /\ \A j \in k .. n : LastStop(trusted, hops, j) =>
                                          x.client = Verdict(peer, hops, j)
             Good(s) == h[s] \in B /\ \A k \in 1 .. n + 1 : s = k .. n => Walked(h[s], k)
             K == {s \in SUBSET S : Good(s)}
  <1>12. Good({})
    <2>1. h[{}] = start
      BY <1>11
    <2>2. ASSUME NEW k \in 1 .. n + 1, {} = k .. n PROVE Walked(start, k)
      <3>1. k - 1 = n
        <4>1. k \in Int /\ ~(k <= n)
          BY <1>1, <2>2
        <4>. QED
          BY <1>1, <4>1
      <3>. QED
        BY <1>1, <1>4, <2>2, <3>1 DEF Before
    <2> HIDE DEF Walked
    <2>. QED
      BY <1>4, <2>1, <2>2
  <1>13. ASSUME NEW s \in SUBSET S, s # {}, Good(s \ {Min(s)}) PROVE Good(s)
    <2>1. PICK m, r, x : m = Min(s) /\ r = s \ {m} /\ x = h[r]
      OBVIOUS
    <2>2. m \in s /\ m \in S /\ hops[m] \in H /\ x \in B /\ \A i \in s : m <= i
      BY <1>2, <1>3, <1>13, <2>1
    <2>3. h[s] = Hop(trusted, hops[m], x)
      BY <1>11, <1>13, <2>1
    <2>4. h[s] \in B
      BY <1>5, <2>2, <2>3
    <2>5. ASSUME NEW k \in 1 .. n + 1, s = k .. n PROVE Walked(h[s], k)
      <3>1. m = k /\ k \in 1 .. n
        <4>1. m \in k .. n
          BY <2>2, <2>5
        <4>2. k \in s
          BY <1>1, <2>5, <4>1
        <4>. QED
          BY <1>1, <2>2, <2>5, <4>1, <4>2
      <3>2. r = k + 1 .. n /\ k + 1 \in 1 .. n + 1 /\ k + 1 - 1 = k
        BY <1>1, <2>1, <2>5, <3>1
      <3>3. Walked(x, k + 1)
        BY <1>13, <2>1, <3>2
      <3>4. /\ x.over <=> \E i \in k + 1 .. n : Stop(trusted, hops, i)
            /\ ~x.over => x.client = Before(peer, hops, k)
            /\ \A j \in k + 1 .. n : LastStop(trusted, hops, j) => x.client = Verdict(peer, hops, j)
        BY <3>2, <3>3
      <3>5. \A i \in k .. n : i = k \/ i \in k + 1 .. n
        BY <1>1, <3>1
      <3>6. \A i \in k + 1 .. n : i \in k .. n
        BY <1>1, <3>1
      <3>7. k \in k .. n /\ k - 1 # n /\ k - 1 + 1 = k
        BY <1>1, <3>1
      <3>8. CASE x.over
        <4>1. h[s] = x
          BY <2>3, <3>8 DEF Hop
        <4>2. ~LastStop(trusted, hops, k)
          BY <1>1, <3>4, <3>8 DEF LastStop
        <4>. QED
          BY <3>4, <3>5, <3>6, <3>8, <4>1, <4>2
      <3>9. CASE ~x.over /\ hops[m] = Malformed
        <4>1. h[s].over = TRUE /\ h[s].client = x.client
          BY <1>1, <2>2, <2>3, <3>9 DEF Hop
        <4>2. Stop(trusted, hops, k) /\ Verdict(peer, hops, k) = Before(peer, hops, k)
          BY <3>1, <3>9 DEF Stop, Verdict
        <4>3. \A j \in k + 1 .. n : ~LastStop(trusted, hops, j)
          BY <3>4, <3>9 DEF LastStop
        <4>. QED
          BY <3>4, <3>5, <3>7, <3>9, <4>1, <4>2, <4>3
      <3>10. CASE ~x.over /\ hops[m] # Malformed
        <4>1. h[s] = [client |-> hops[k], over |-> hops[k] \notin trusted]
          BY <2>3, <3>1, <3>10 DEF Hop
        <4>2. h[s].client = hops[k] /\ (h[s].over <=> hops[k] \notin trusted)
          <5>1. PICK o \in BOOLEAN : o = (hops[k] \notin trusted)
            OBVIOUS
          <5>2. h[s] = [client |-> hops[k], over |-> o]
            BY <4>1, <5>1
          <5>3. h[s].client = hops[k] /\ h[s].over = o
            BY <5>2
          <5>. QED
            BY <5>1, <5>3
        <4>3. (Stop(trusted, hops, k) <=> hops[k] \notin trusted) /\ Verdict(peer, hops, k) = hops[k]
          BY <3>1, <3>10 DEF Stop, Verdict
        <4>4. \A j \in k + 1 .. n : ~LastStop(trusted, hops, j)
          BY <3>4, <3>10 DEF LastStop
        <4>5. Before(peer, hops, k - 1) = hops[k]
          BY <1>1, <3>7 DEF Before
        <4>. QED
          BY <3>4, <3>5, <3>7, <3>10, <4>2, <4>3, <4>4, <4>5
      <3>. QED
        BY <3>8, <3>9, <3>10
    <2> HIDE DEF Walked
    <2>. QED
      BY <2>4, <2>5
  <1>14. S \in K
    <2>1. {} \in K
      BY <1>12
    <2>2. \A s \in SUBSET S : s # {} => pick[s] \in s /\ (s \ {pick[s]} \in K => s \in K)
      BY <1>3, <1>6, <1>13
    <2> HIDE DEF K
    <2>. QED
      BY <1>2, <2>1, <2>2, OneByOne
  <1>15. Walked(w, 1)
    <2>1. 1 \in 1 .. n + 1 /\ w = h[S]
      BY <1>1, <1>10
    <2> HIDE DEF Walked
    <2>. QED
      BY <1>1, <1>14, <2>1
  <1>16. \A j : LastStop(trusted, hops, j) => j \in 1 .. n
    BY <1>1 DEF LastStop
  <1>17. /\ w.over <=> \E i \in 1 .. n : Stop(trusted, hops, i)
         /\ ~w.over => w.client = Before(peer, hops, 0)
         /\ \A j \in 1 .. n : LastStop(trusted, hops, j) => w.client = Verdict(peer, hops, j)
    <2>1. 1 - 1 = 0
      OBVIOUS
    <2>. QED
      BY <1>15, <2>1
  <1> HIDE DEF Walked
  <1>. QED
    BY <1>1, <1>16, <1>17

LEMMA ResolveFacts ==
    ASSUME NEW trusted, NEW peer, NEW H, NEW hops \in Seq(H)
    PROVE  /\ peer \notin trusted => Resolve(trusted, peer, hops) = peer
           /\ peer \in trusted =>
                  /\ (\A i \in 1 .. Len(hops) : ~Stop(trusted, hops, i)) =>
                         Resolve(trusted, peer, hops) = Before(peer, hops, 0)
                  /\ \A j : LastStop(trusted, hops, j) =>
                         Resolve(trusted, peer, hops) = Verdict(peer, hops, j)
  <1>1. PICK w : w = Walk(trusted, hops, Start(peer))
    OBVIOUS
  <1>2. Resolve(trusted, peer, hops) = IF peer \notin trusted THEN peer ELSE w.client
    BY <1>1 DEF Resolve, Walk, Start
  <1>3. /\ (\A i \in 1 .. Len(hops) : ~Stop(trusted, hops, i)) => w.client = Before(peer, hops, 0)
        /\ \A j : LastStop(trusted, hops, j) => w.client = Verdict(peer, hops, j)
    BY <1>1, WalkFacts
  <1>. QED
    BY <1>2, <1>3

LEMMA StopsOrNot ==
    ASSUME NEW trusted, NEW H, NEW hops \in Seq(H)
    PROVE  \/ \A i \in 1 .. Len(hops) : ~Stop(trusted, hops, i)
           \/ \E j : LastStop(trusted, hops, j)
  <1>1. PICK n : n = Len(hops) /\ n \in Nat
    BY LenProperties
  <1>2. PICK T : T = {i \in 1 .. n : Stop(trusted, hops, i)}
    OBVIOUS
  <1>3. CASE T = {}
    BY <1>1, <1>2, <1>3
  <1>4. CASE T # {}
    <2>1. T \in SUBSET (1 .. n)
      BY <1>2
    <2>2. PICK j : j \in T /\ \A i \in T : i <= j
      BY <1>1, <1>4, <2>1, GreatestIsReached
    <2>3. ASSUME NEW i \in j + 1 .. n PROVE ~Stop(trusted, hops, i)
      <3>1. i \in 1 .. n /\ ~(i <= j)
        BY <1>1, <1>2, <2>2
      <3>. QED
        BY <1>2, <2>2, <3>1
    <2>. QED
      BY <1>1, <1>2, <2>2, <2>3 DEF LastStop
  <1>. QED
    BY <1>3, <1>4

AnyHop == Peers \cup {Malformed, Self}

LEMMA AddressesDiffer ==
    /\ Trusted \subseteq Peers
    /\ \A p \in Peers : p # Malformed /\ p # Self
    /\ Malformed # Self
  BY AddressAssumption

\* Nothing written in front changes an untrusted address.
LEMMA FrontIsForgotten ==
    ASSUME NEW peer \in Peers, NEW hops \in Seq(AnyHop), NEW more \in Seq(AnyHop),
           Resolve(Trusted, peer, hops) \notin Trusted
    PROVE  Resolve(Trusted, peer, more \o hops) = Resolve(Trusted, peer, hops)
  <1>1. PICK all, m, n : all = more \o hops /\ m = Len(more) /\ n = Len(hops)
    OBVIOUS
  <1>2. m \in Nat /\ n \in Nat
    BY <1>1, LenProperties
  <1>3. /\ all \in Seq(AnyHop) /\ Len(all) = m + n
        /\ \A i \in 1 .. m + n : all[i] = IF i <= m THEN more[i] ELSE hops[i - m]
    BY <1>1, ConcatFacts
  <1>4. CASE peer \notin Trusted
    BY <1>1, <1>3, <1>4, ResolveFacts
  <1>5. CASE peer \in Trusted
    <2>1. PICK j : LastStop(Trusted, hops, j)
      <3>1. ASSUME \A i \in 1 .. Len(hops) : ~Stop(Trusted, hops, i) PROVE FALSE
        <4>1. Resolve(Trusted, peer, hops) = Before(peer, hops, 0)
          BY <1>5, <3>1, ResolveFacts
        <4>2. CASE n = 0
          BY <1>1, <1>5, <4>1, <4>2 DEF Before
        <4>3. CASE n # 0
          <5>1. 1 \in 1 .. n /\ 0 + 1 = 1
            BY <1>2, <4>3
          <5>2. hops[1] \in Trusted
            BY <1>1, <3>1, <5>1 DEF Stop
          <5>. QED
            BY <1>1, <4>1, <4>3, <5>1, <5>2 DEF Before
        <4>. QED
          BY <4>2, <4>3
      <3>. QED
        BY <3>1, StopsOrNot
    <2>2. /\ j \in 1 .. n /\ Stop(Trusted, hops, j)
          /\ \A i \in j + 1 .. n : ~Stop(Trusted, hops, i)
      BY <1>1, <2>1 DEF LastStop
    <2>3. \A i \in 1 .. n : i + m \in 1 .. m + n /\ all[i + m] = hops[i]
      <3>1. ASSUME NEW i \in 1 .. n PROVE i + m \in 1 .. m + n /\ all[i + m] = hops[i]
        <4>1. i + m \in 1 .. m + n /\ ~(i + m <= m) /\ i + m - m = i
          BY <1>2
        <4>2. all[i + m] = hops[i + m - m]
          <5>1. PICK k \in 1 .. m + n : k = i + m
            BY <4>1
          <5>2. all[k] = hops[k - m]
            BY <1>3, <4>1, <5>1
          <5>3. k - m = i + m - m
            BY <1>2, <5>1
          <5>. QED
            BY <5>1, <5>2, <5>3
        <4>. QED
          BY <4>1, <4>2
      <3>. QED
        BY <3>1
    <2>4. LastStop(Trusted, all, j + m)
      <3>1. j + m \in 1 .. Len(all) /\ Stop(Trusted, all, j + m)
        BY <1>3, <2>2, <2>3 DEF Stop
      <3>2. ASSUME NEW i \in j + m + 1 .. Len(all) PROVE ~Stop(Trusted, all, i)
        <4>1. i - m \in 1 .. n /\ i - m \in j + 1 .. n /\ i - m + m = i
          BY <1>2, <1>3, <2>2
        <4>2. all[i] = hops[i - m]
          BY <2>3, <4>1
        <4>. QED
          BY <2>2, <4>1, <4>2 DEF Stop
      <3>. QED
        BY <3>1, <3>2 DEF LastStop
    <2>5. Verdict(peer, all, j + m) = Verdict(peer, hops, j)
      <3>1. all[j + m] = hops[j]
        BY <2>2, <2>3
      <3>2. CASE j = n
        <4>1. j + m = Len(all)
          BY <1>2, <1>3, <3>2
        <4>. QED
          BY <1>1, <3>1, <3>2, <4>1 DEF Verdict, Before
      <3>3. CASE j # n
        <4>1. j + m # Len(all) /\ j + 1 \in 1 .. n /\ j + 1 + m = j + m + 1
          BY <1>2, <1>3, <2>2, <3>3
        <4>2. all[j + m + 1] = hops[j + 1]
          BY <2>3, <4>1
        <4>. QED
          BY <1>1, <3>1, <3>3, <4>1, <4>2 DEF Verdict, Before
      <3>. QED
        BY <3>2, <3>3
    <2>6. Resolve(Trusted, peer, all) = Verdict(peer, all, j + m)
      BY <1>3, <1>5, <2>4, ResolveFacts
    <2>7. Resolve(Trusted, peer, hops) = Verdict(peer, hops, j)
      BY <1>5, <2>1, ResolveFacts
    <2>. QED
      BY <1>1, <2>5, <2>6, <2>7
  <1>. QED
    BY <1>4, <1>5

\* A malformed hop hides what is before it.
LEMMA MalformedHides ==
    ASSUME NEW peer \in Peers, NEW hops \in Seq(AnyHop), NEW m \in 1 .. Len(hops),
           hops[m] = Malformed
    PROVE  Resolve(Trusted, peer, SubSeq(hops, m + 1, Len(hops))) = Resolve(Trusted, peer, hops)
  <1>1. PICK rest, n : rest = SubSeq(hops, m + 1, n) /\ n = Len(hops)
    OBVIOUS
  <1>2. n \in Nat /\ m \in 1 .. n /\ n - m \in Nat
    <2>1. n \in Nat /\ m \in 1 .. n
      BY <1>1, LenProperties
    <2>. QED
      BY <2>1
  <1>3. /\ rest \in Seq(AnyHop) /\ Len(rest) = n - m
        /\ \A i \in 1 .. n - m : rest[i] = hops[i + m]
    <2>1. m + 1 \in 1 .. Len(hops) + 1 /\ n \in 0 .. Len(hops) /\ m + 1 <= n + 1
      BY <1>1, <1>2
    <2>2. PICK k : k = m + 1
      OBVIOUS
    <2>3. /\ rest \in Seq(AnyHop) /\ Len(rest) = n - k + 1
          /\ \A i \in 1 .. n - k + 1 : rest[i] = hops[k - 1 + i]
      BY <1>1, <2>1, <2>2, PartOfSeq
    <2>4. n - k + 1 = n - m /\ \A i \in 1 .. n - m : k - 1 + i = i + m
      BY <1>2, <2>2
    <2>. QED
      BY <2>3, <2>4
  <1>4. CASE peer \notin Trusted
    BY <1>1, <1>3, <1>4, ResolveFacts
  <1>5. CASE peer \in Trusted
    <2>1. ASSUME NEW j, LastStop(Trusted, rest, j)
          PROVE  Resolve(Trusted, peer, rest) = Resolve(Trusted, peer, hops)
      <3>1. /\ j \in 1 .. n - m /\ Stop(Trusted, rest, j)
            /\ \A i \in j + 1 .. n - m : ~Stop(Trusted, rest, i)
        BY <1>3, <2>1 DEF LastStop
      <3>2. j + m \in 1 .. n /\ rest[j] = hops[j + m]
        BY <1>2, <1>3, <3>1
      <3>3. LastStop(Trusted, hops, j + m)
        <4>1. Stop(Trusted, hops, j + m)
          BY <3>1, <3>2 DEF Stop
        <4>2. ASSUME NEW i \in j + m + 1 .. n PROVE ~Stop(Trusted, hops, i)
          <5>1. i - m \in j + 1 .. n - m /\ i - m \in 1 .. n - m /\ i - m + m = i
            BY <1>2, <3>1
          <5>2. rest[i - m] = hops[i]
            BY <1>3, <5>1
          <5>. QED
            BY <3>1, <5>1, <5>2 DEF Stop
        <4>. QED
          BY <1>1, <3>2, <4>1, <4>2 DEF LastStop
      <3>4. Verdict(peer, rest, j) = Verdict(peer, hops, j + m)
        <4>1. CASE j = n - m
          <5>1. j + m = n
            BY <1>2, <4>1
          <5>. QED
            BY <1>1, <1>3, <3>2, <4>1, <5>1 DEF Verdict, Before
        <4>2. CASE j # n - m
          <5>1. j + m # n /\ j + 1 \in 1 .. n - m /\ j + 1 + m = j + m + 1
            BY <1>2, <3>1, <4>2
          <5>2. rest[j + 1] = hops[j + m + 1]
            BY <1>3, <5>1
          <5>. QED
            BY <1>1, <1>3, <3>2, <4>2, <5>1, <5>2 DEF Verdict, Before
        <4>. QED
          BY <4>1, <4>2
      <3>5. Resolve(Trusted, peer, rest) = Verdict(peer, rest, j)
        BY <1>3, <1>5, <2>1, ResolveFacts
      <3>6. Resolve(Trusted, peer, hops) = Verdict(peer, hops, j + m)
        BY <1>5, <3>3, ResolveFacts
      <3>. QED
        BY <3>4, <3>5, <3>6
    <2>2. ASSUME \A i \in 1 .. Len(rest) : ~Stop(Trusted, rest, i)
          PROVE  Resolve(Trusted, peer, rest) = Resolve(Trusted, peer, hops)
      <3>1. LastStop(Trusted, hops, m)
        <4>1. ASSUME NEW i \in m + 1 .. n PROVE ~Stop(Trusted, hops, i)
          <5>1. i - m \in 1 .. n - m /\ i - m + m = i
            BY <1>2
          <5>2. rest[i - m] = hops[i]
            BY <1>3, <5>1
          <5>. QED
            BY <1>3, <2>2, <5>1, <5>2 DEF Stop
        <4>. QED
          BY <1>1, <1>2, <4>1 DEF LastStop, Stop
      <3>2. Resolve(Trusted, peer, hops) = Before(peer, hops, m)
        BY <1>5, <3>1, ResolveFacts DEF Verdict
      <3>3. Resolve(Trusted, peer, rest) = Before(peer, rest, 0)
        BY <1>3, <1>5, <2>2, ResolveFacts
      <3>4. CASE m = n
        <4>1. Len(rest) = 0
          BY <1>2, <1>3, <3>4
        <4>. QED
          BY <1>1, <3>2, <3>3, <3>4, <4>1 DEF Before
      <3>5. CASE m # n
        <4>1. n - m # 0 /\ 1 \in 1 .. n - m /\ 0 + 1 = 1 /\ 1 + m = m + 1
          BY <1>2, <3>5
        <4>2. rest[1] = hops[m + 1]
          BY <1>3, <4>1
        <4>. QED
          BY <1>1, <1>3, <3>2, <3>3, <3>5, <4>1, <4>2 DEF Before
      <3>. QED
        BY <3>4, <3>5
    <2>. QED
      BY <1>1, <1>3, <2>1, <2>2, StopsOrNot
  <1>. QED
    BY <1>1, <1>4, <1>5

\* The next server takes the request to come from the same client.
LEMMA ForwardedKeeps ==
    ASSUME NEW peer \in Peers, NEW hops \in Seq(AnyHop),
           Resolve(Trusted, peer, hops) # Self
    PROVE  Resolve(Trusted \cup {Self}, Self, Forwarded(peer, hops)) = Resolve(Trusted, peer, hops)
  <1>1. PICK all, n, both : /\ all = Forwarded(peer, hops) /\ n = Len(hops)
                            /\ both = Trusted \cup {Self}
    OBVIOUS
  <1>2. n \in Nat /\ peer \in AnyHop /\ Self \in both /\ Trusted \subseteq both
    BY <1>1, LenProperties DEF AnyHop
  <1>3. peer # Malformed /\ peer # Self /\ (\A t \in Trusted : t # Malformed /\ t # Self)
        /\ Malformed \notin both
    BY <1>1, AddressesDiffer
  <1>4. CASE peer \notin Trusted
    <2>1. all \in Seq(AnyHop) /\ Len(all) = 1 /\ all[1] = peer
      BY <1>1, <1>2, <1>4, OneElement DEF Forwarded
    <2>2. peer \notin both
      BY <1>1, <1>3, <1>4
    <2>3. LastStop(both, all, 1)
      BY <2>1, <2>2 DEF LastStop, Stop
    <2>4. Resolve(both, Self, all) = Verdict(Self, all, 1)
      BY <1>2, <2>1, <2>3, ResolveFacts
    <2>5. Verdict(Self, all, 1) = peer
      BY <1>3, <2>1 DEF Verdict
    <2>6. Resolve(Trusted, peer, hops) = peer
      BY <1>4, ResolveFacts
    <2>. QED
      BY <1>1, <2>4, <2>5, <2>6
  <1>5. CASE peer \in Trusted
    <2>1. /\ all \in Seq(AnyHop) /\ Len(all) = n + 1
          /\ \A i \in 1 .. n + 1 : all[i] = IF i <= n THEN hops[i] ELSE peer
      BY <1>1, <1>2, <1>5, AppendFacts DEF Forwarded
    <2>2. \A i \in 1 .. n : i \in 1 .. n + 1 /\ all[i] = hops[i]
      <3>1. \A i \in 1 .. n : i \in 1 .. n + 1 /\ i <= n
        BY <1>2
      <3>. QED
        BY <2>1, <3>1
    <2>3. n + 1 \in 1 .. n + 1 /\ all[n + 1] = peer
      <3>1. n + 1 \in 1 .. n + 1 /\ ~(n + 1 <= n)
        BY <1>2
      <3>. QED
        BY <2>1, <3>1
    <2>4. ~Stop(both, all, n + 1)
      BY <1>2, <1>3, <1>5, <2>3 DEF Stop
    <2>5. \A i \in 1 .. n : ~Stop(Trusted, hops, i) => ~Stop(both, all, i)
      BY <1>2, <2>2 DEF Stop
    <2>6. \A j \in 0 .. n : Before(Self, all, j) = Before(peer, hops, j)
      <3>1. ASSUME NEW j \in 0 .. n PROVE Before(Self, all, j) = Before(peer, hops, j)
        <4>1. j # n + 1
          BY <1>2
        <4>2. Before(Self, all, j) = all[j + 1]
          BY <2>1, <4>1 DEF Before
        <4>3. CASE j = n
          BY <1>1, <2>3, <4>2, <4>3 DEF Before
        <4>4. CASE j # n
          <5>1. j + 1 \in 1 .. n
            BY <1>2, <4>4
          <5>. QED
            BY <1>1, <2>2, <4>2, <4>4, <5>1 DEF Before
        <4>. QED
          BY <4>3, <4>4
      <3>. QED
        BY <3>1
    <2>7. ASSUME NEW j, LastStop(Trusted, hops, j)
          PROVE  Resolve(both, Self, all) = Resolve(Trusted, peer, hops)
      <3>1. /\ j \in 1 .. n /\ Stop(Trusted, hops, j)
            /\ \A i \in j + 1 .. n : ~Stop(Trusted, hops, i)
        BY <1>1, <2>7 DEF LastStop
      <3>2. Resolve(Trusted, peer, hops) = Verdict(peer, hops, j)
        BY <1>5, <2>7, ResolveFacts
      <3>3. Stop(both, all, j)
        <4>1. CASE hops[j] = Malformed
          BY <2>2, <3>1, <4>1 DEF Stop
        <4>2. CASE hops[j] # Malformed
          <5>1. hops[j] # Self
            BY <3>2, <4>2 DEF Verdict
          <5>2. hops[j] \notin Trusted
            BY <3>1, <4>2 DEF Stop
          <5>. QED
            BY <1>1, <2>2, <3>1, <5>1, <5>2 DEF Stop
        <4>. QED
          BY <4>1, <4>2
      <3>4. LastStop(both, all, j)
        <4>1. ASSUME NEW i \in j + 1 .. n + 1 PROVE ~Stop(both, all, i)
          <5>1. CASE i = n + 1
            BY <2>4, <5>1
          <5>2. CASE i # n + 1
            <6>1. i \in j + 1 .. n /\ i \in 1 .. n
              BY <1>2, <3>1, <5>2
            <6>. QED
              BY <2>5, <3>1, <6>1
          <5>. QED
            BY <5>1, <5>2
        <4>. QED
          BY <2>1, <2>2, <3>1, <3>3, <4>1 DEF LastStop
      <3>5. Resolve(both, Self, all) = Verdict(Self, all, j)
        BY <1>2, <2>1, <3>4, ResolveFacts
      <3>6. Verdict(Self, all, j) = Verdict(peer, hops, j)
        <4>1. j \in 0 .. n
          BY <3>1
        <4>. QED
          BY <2>2, <2>6, <3>1, <4>1 DEF Verdict
      <3>. QED
        BY <3>2, <3>5, <3>6
    <2>8. ASSUME \A i \in 1 .. Len(hops) : ~Stop(Trusted, hops, i)
          PROVE  Resolve(both, Self, all) = Resolve(Trusted, peer, hops)
      <3>1. Resolve(Trusted, peer, hops) = Before(peer, hops, 0)
        BY <1>5, <2>8, ResolveFacts
      <3>2. ASSUME NEW i \in 1 .. Len(all) PROVE ~Stop(both, all, i)
        <4>1. CASE i = n + 1
          BY <2>4, <4>1
        <4>2. CASE i # n + 1
          <5>1. i \in 1 .. n
            BY <1>2, <2>1, <4>2
          <5>. QED
            BY <1>1, <2>5, <2>8, <5>1
        <4>. QED
          BY <4>1, <4>2
      <3>3. Resolve(both, Self, all) = Before(Self, all, 0)
        BY <1>2, <2>1, <3>2, ResolveFacts
      <3>4. 0 \in 0 .. n
        BY <1>2
      <3>. QED
        BY <2>6, <3>1, <3>3, <3>4
    <2>. QED
      BY <1>1, <2>7, <2>8, StopsOrNot
  <1>. QED
    BY <1>4, <1>5

LEMMA ClientHolds == FrontInv => ClientKept
  <1> SUFFICES ASSUME FrontInv, request # NoRequest
               PROVE  /\ Address \notin Trusted =>
                             \A more \in Hops :
                                 Resolve(Trusted, request.peer, more \o request.hops) = Address
                      /\ \A i \in DOMAIN request.hops : request.hops[i] = Malformed =>
                             Resolve(Trusted, request.peer,
                                     SubSeq(request.hops, i + 1, Len(request.hops))) = Address
                      /\ Address # Self =>
                             Resolve(Trusted \cup {Self}, Self,
                                     Forwarded(request.peer, request.hops)) = Address
    BY DEF ClientKept
  <1>1. PICK peer, hops : peer = request.peer /\ hops = request.hops
    OBVIOUS
  <1>2. peer \in Peers /\ hops \in Seq(AnyHop) /\ \A more \in Hops : more \in Seq(AnyHop)
    BY <1>1, HopsAssumption DEF FrontInv, AnyHop
  <1>3. Address = Resolve(Trusted, peer, hops)
    BY <1>1 DEF Address
  <1>4. DOMAIN hops = 1 .. Len(hops)
    BY <1>2, LenProperties
  <1>5. ASSUME Address \notin Trusted, NEW more \in Hops
        PROVE  Resolve(Trusted, peer, more \o hops) = Address
    BY <1>2, <1>3, <1>5, FrontIsForgotten
  <1>6. ASSUME NEW i \in DOMAIN hops, hops[i] = Malformed
        PROVE  Resolve(Trusted, peer, SubSeq(hops, i + 1, Len(hops))) = Address
    BY <1>2, <1>3, <1>4, <1>6, MalformedHides
  <1>7. ASSUME Address # Self
        PROVE  Resolve(Trusted \cup {Self}, Self, Forwarded(peer, hops)) = Address
    BY <1>2, <1>3, <1>7, ForwardedKeeps
  <1>. QED
    BY <1>1, <1>5, <1>6, <1>7

\* No header a client writes changes the address it is taken to have, and the
\* next server that trusts this one and its proxies sees the same client.
THEOREM ClientIsKept == Spec => []ClientKept
  BY FrontInvariant, ClientHolds, PTL

=============================================================================
