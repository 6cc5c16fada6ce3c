-------------------------- MODULE AcmeManagerProofs --------------------------
(***************************************************************************)
(* Proofs about AcmeManager for any hosts, times and bounds.  CertsInv is  *)
(* about the certificates in use; LoopInv ties the account and the tokens  *)
(* of challenges to the position of the loop that orders certificates.     *)
(* TypeInv gives TypeOK; its AccountsCounted bounds the accounts by the    *)
(* events.  ScheduleInv is what the timer rests on: RetryInv, how far off  *)
(* a retry can be, and TimerInv, that next covers the hosts passed.        *)
(***************************************************************************)
EXTENDS AcmeManager, TLAPS

-----------------------------------------------------------------------------
(* The certificates in use.                                                *)

CertsInv == DOMAIN certs = Hosts /\ LoadedPairMatches

LEMMA LoadedMatches ==
    ASSUME NEW h
    PROVE  LoadKeyPair(h) # Nil => LoadKeyPair(h).key = LoadKeyPair(h).crt
  BY DEF LoadKeyPair

LEMMA SetHostsKeepsCertsInv ==
    ASSUME CertsInv, NEW H, NEW reload, SetHosts(H, reload)
    PROVE  CertsInv'
  BY LoadedMatches DEF CertsInv, LoadedPairMatches, SetHosts

LEMMA StoreKeepsCertsInv ==
    ASSUME CertsInv, Store
    PROVE  CertsInv'
  <1> DEFINE pair == [crt |-> loop.issue, key |-> loop.issue]
  <1>1. certs' = [certs EXCEPT ![loop.host] = pair] /\ pair.key = pair.crt
    BY DEF Store
  <1>. QED
    BY <1>1 DEF CertsInv, LoadedPairMatches

LEMMA RestartKeepsCertsInv ==
    ASSUME Restart
    PROVE  CertsInv'
  BY LoadedMatches DEF CertsInv, LoadedPairMatches, Restart

LEMMA NextKeepsCertsInv == CertsInv /\ [Next]_vars => CertsInv'
  <1> SUFFICES ASSUME CertsInv, [Next]_vars PROVE CertsInv'
    OBVIOUS
  <1>1. CASE UNCHANGED certs
    BY <1>1 DEF CertsInv, LoadedPairMatches
  <1>2. ASSUME NEW H \in HostSets, NEW reload \in BOOLEAN, Call(H, reload) PROVE CertsInv'
    BY <1>2, SetHostsKeepsCertsInv DEF Call
  <1>3. CASE WriteCertificate
    BY <1>1, <1>3, StoreKeepsCertsInv DEF WriteCertificate
  <1>4. CASE Restart
    BY <1>4, RestartKeepsCertsInv
  <1>5. CASE \/ Begin \/ Pass \/ Wait \/ EnsureAccount \/ SaveAccount \/ CreateOrder
             \/ Authorize \/ CompleteChallenge \/ WaitAuthorization \/ WriteKey
             \/ (\E h \in Hosts : CaFetches(h)) \/ Tick \/ Replaced \/ Stop
    BY <1>1, <1>5 DEF Begin, Pass, Wait, EnsureAccount, SaveAccount, CreateOrder, Authorize,
       CompleteChallenge, WaitAuthorization, WriteKey, CaFetches, Tick, Replaced, Stop, manager
  <1>. QED
    BY <1>1, <1>2, <1>3, <1>4, <1>5 DEF Next, Run, vars, manager

\* Whatever failed writes and crashes leave on disk, a certificate in use has
\* its own key (acme.go:190-204, 386-393).
THEOREM PairsMatch == Spec => []LoadedPairMatches
  <1>1. Init => CertsInv
    BY DEF Init, CertsInv, LoadedPairMatches
  <1>2. CertsInv => LoadedPairMatches
    BY DEF CertsInv
  <1>. QED
    BY <1>1, <1>2, NextKeepsCertsInv, PTL DEF Spec

-----------------------------------------------------------------------------
(* The account and the challenge tokens: both depend on where the loop is. *)

LoopFields == {"at", "queue", "host", "now", "next", "again", "issue"}

Shapes == /\ DOMAIN loop = LoopFields
          /\ DOMAIN ca = {"accounts", "told", "verdict"}
          /\ DOMAIN disk = {"account", "key", "crt"}

AccountInv == account # "generated" => ConfiguredAccountKept /\ ~At("save")

TokensInv ==
    /\ tokens = IF loop.at \in {"complete", "validating"} THEN {loop.host} ELSE {}
    /\ ca.verdict # "none" => At("validating") /\ loop.host \notin ca.told

LoopInv == Shapes /\ AccountInv /\ TokensInv

LEMMA GotoFacts ==
    ASSUME Shapes, NEW label, Goto(label)
    PROVE  DOMAIN loop' = LoopFields /\ loop'.at = label /\ loop'.host = loop.host
  BY DEF Shapes, Goto, LoopFields

LEMMA FailFacts ==
    ASSUME Shapes, Fail
    PROVE  DOMAIN loop' = LoopFields /\ loop'.at = "pass"
  BY DEF Shapes, Fail, NextHost, LoopFields

LEMMA DownloadFacts ==
    ASSUME Shapes, Download
    PROVE  DOMAIN loop' = LoopFields /\ loop'.at = "key"
  BY DEF Shapes, Download, LoopFields

LEMMA FetchFacts ==
    ASSUME NEW h, CaFetches(h)
    PROVE  /\ UNCHANGED <<now, account, current, manager, client, loop, disk, events>>
           /\ \E verdict \in {ca.verdict, "valid", "invalid"} :
                 /\ ca' = [ca EXCEPT !.told = @ \ {h}, !.verdict = verdict]
                 /\ verdict # ca.verdict => At("validating") /\ h = loop.host
  <1>1. UNCHANGED <<now, account, current, manager, client, loop, disk, events>>
    BY DEF CaFetches
  <1>2. PICK answer \in {"valid", "invalid"} :
            ca' = [ca EXCEPT !.told = @ \ {h},
                             !.verdict = IF At("validating") /\ h = loop.host THEN answer
                                                                               ELSE @]
    BY DEF CaFetches
  <1>3. CASE At("validating") /\ h = loop.host
    <2>1. ca' = [ca EXCEPT !.told = @ \ {h}, !.verdict = answer]
      BY <1>2, <1>3
    <2>. QED
      BY <1>1, <1>3, <2>1
  <1>4. CASE ~(At("validating") /\ h = loop.host)
    <2>1. ca' = [ca EXCEPT !.told = @ \ {h}, !.verdict = ca.verdict]
      BY <1>2, <1>4
    <2>. QED
      BY <1>1, <2>1
  <1>. QED
    BY <1>3, <1>4

\* Steps outside an order: the loop between hosts, setHosts, time.
LEMMA OutsideKeepsLoopInv ==
    ASSUME LoopInv, UNCHANGED <<account, tokens, client, disk, ca>>,
           Begin \/ Pass \/ Wait
    PROVE  LoopInv'
  <1>1. /\ DOMAIN loop' = LoopFields
        /\ loop.at \in {"idle", "pass", "wait"}
        /\ loop'.at \in {"idle", "pass", "wait", "account"}
    <2> USE DEF LoopInv, Shapes, At, LoopFields
    <2>1. CASE Begin
      BY <2>1 DEF Begin
    <2>2. CASE Pass
      BY <2>2, GotoFacts DEF Pass, Skip, Start
    <2>3. CASE Wait
      BY <2>3 DEF Wait, Idle
    <2>. QED
      BY <2>1, <2>2, <2>3
  <1>. QED
    BY <1>1 DEF LoopInv, Shapes, AccountInv, ConfiguredAccountKept, TokensInv, At

LEMMA EnsureAccountKeepsLoopInv ==
    ASSUME LoopInv, account \in {"generated", "key", "url"}, EnsureAccount
    PROVE  LoopInv'
  <1> USE DEF LoopInv, Shapes, At, EnsureAccount
  <1>1. /\ DOMAIN loop' = LoopFields
        /\ loop'.at \in {"order", "save", "pass"}
        /\ loop'.at = "save" => account = "generated"
    BY GotoFacts, FailFacts DEF RequestFails, RegisterAccount
  <1>2. /\ DOMAIN ca' = {"accounts", "told", "verdict"} /\ ca'.verdict = ca.verdict /\ ca'.told = ca.told
        /\ account # "generated" => /\ ca'.accounts = ca.accounts
                                    /\ client' \in {client, Configured}
    BY DEF RegisterAccount, ResolveAccount
  <1>3. AccountInv'
    BY <1>1, <1>2 DEF AccountInv, ConfiguredAccountKept
  <1>4. TokensInv'
    BY <1>1, <1>2 DEF TokensInv
  <1>. QED
    BY <1>1, <1>2, <1>3, <1>4

LEMMA SaveAccountKeepsLoopInv ==
    ASSUME LoopInv, SaveAccount
    PROVE  LoopInv'
  <1> USE DEF LoopInv, Shapes, At, SaveAccount
  <1>1. DOMAIN loop' = LoopFields /\ loop'.at \in {"order", "pass"}
    BY GotoFacts, FailFacts
  <1>2. DOMAIN disk' = {"account", "key", "crt"} /\ account = "generated"
    BY DEF AccountInv
  <1>. QED
    BY <1>1, <1>2 DEF AccountInv, TokensInv

LEMMA CreateOrderKeepsLoopInv ==
    ASSUME LoopInv, CreateOrder
    PROVE  LoopInv'
  <1> USE DEF LoopInv, Shapes, At, CreateOrder, ReplaceAccount
  <1>1. DOMAIN loop' = LoopFields /\ loop'.at \in {"authorize", "account", "pass"}
    BY GotoFacts, FailFacts DEF RequestFails, LoopFields
  <1>2. /\ DOMAIN disk' = {"account", "key", "crt"} /\ ca' = ca
        /\ account # "generated" => disk' = disk /\ client' = client
    OBVIOUS
  <1>. QED
    BY <1>1, <1>2 DEF AccountInv, ConfiguredAccountKept, TokensInv

LEMMA ChallengeKeepsLoopInv ==
    ASSUME LoopInv, \/ Authorize \/ CompleteChallenge \/ WaitAuthorization
                    \/ \E h \in Hosts : CaFetches(h)
    PROVE  LoopInv'
  <1> USE DEF LoopInv, Shapes, At, AccountInv, ConfiguredAccountKept, TokensInv, RequestFails
  <1>1. CASE Authorize
    BY <1>1, GotoFacts, FailFacts, DownloadFacts DEF Authorize
  <1>2. CASE CompleteChallenge
    BY <1>2, GotoFacts, FailFacts DEF CompleteChallenge, AfterTelling
  <1>3. ASSUME NEW h \in Hosts, CaFetches(h) PROVE LoopInv'
    <2>1. PICK verdict \in {ca.verdict, "valid", "invalid"} :
              /\ ca' = [ca EXCEPT !.told = @ \ {h}, !.verdict = verdict]
              /\ verdict # ca.verdict => At("validating") /\ h = loop.host
      BY <1>3, FetchFacts
    <2>2. /\ DOMAIN ca' = {"accounts", "told", "verdict"} /\ ca'.accounts = ca.accounts
          /\ ca'.verdict = verdict /\ ca'.told = ca.told \ {h}
      BY <2>1
    <2>3. UNCHANGED <<account, tokens, client, loop, disk>>
      BY <1>3, FetchFacts DEF manager
    <2>4. AccountInv'
      BY <2>2, <2>3
    <2>5. TokensInv'
      BY <2>1, <2>2, <2>3
    <2>. QED
      BY <2>2, <2>3, <2>4, <2>5
  <1>4. CASE WaitAuthorization
    BY <1>4, FailFacts, DownloadFacts DEF WaitAuthorization
  <1>. QED
    BY <1>1, <1>2, <1>3, <1>4

LEMMA WritesKeepLoopInv ==
    ASSUME LoopInv, WriteKey \/ WriteCertificate
    PROVE  LoopInv'
  <1> USE DEF LoopInv, Shapes, At
  <1>1. /\ DOMAIN loop' = LoopFields
        /\ loop.at \in {"key", "crt"} /\ loop'.at \in {"crt", "pass"}
    <2>1. CASE WriteKey
      BY <2>1, GotoFacts, FailFacts DEF WriteKey
    <2>2. CASE WriteCertificate
      <3>1. loop.at = "crt" /\ (Store \/ Fail)
        BY <2>2 DEF WriteCertificate
      <3>2. CASE Store
        BY <3>1, <3>2 DEF Store, NextHost, LoopFields
      <3>. QED
        BY <3>1, <3>2, FailFacts
    <2>. QED
      BY <2>1, <2>2
  <1>2. DOMAIN disk' = {"account", "key", "crt"} /\ disk'.account = disk.account
    BY DEF WriteKey, WriteCertificate
  <1>3. UNCHANGED <<account, client, ca, tokens>>
    BY DEF WriteKey, WriteCertificate
  <1>. QED
    BY <1>1, <1>2, <1>3 DEF AccountInv, ConfiguredAccountKept, TokensInv

LEMMA EndsKeepLoopInv ==
    ASSUME LoopInv, Stop \/ Restart
    PROVE  LoopInv'
  <1> USE DEF LoopInv, Shapes, At, AccountInv, ConfiguredAccountKept, TokensInv, Idle, LoopFields
  <1>1. CASE Stop
    BY <1>1 DEF Stop
  <1>2. CASE Restart
    BY <1>2 DEF Restart
  <1>. QED
    BY <1>1, <1>2

LEMMA InitLoopInv == Init => LoopInv /\ account \in {"generated", "key", "url"}
  BY DEF Init, LoopInv, Shapes, LoopFields, Idle, AccountInv, ConfiguredAccountKept,
     TokensInv, At

LEMMA NextKeepsLoopInv ==
    LoopInv /\ account \in {"generated", "key", "url"} /\ [Next]_vars
        => (LoopInv /\ account \in {"generated", "key", "url"})'
  <1> SUFFICES ASSUME LoopInv, account \in {"generated", "key", "url"}, [Next]_vars
               PROVE  LoopInv' /\ account' = account
    OBVIOUS
  <1>1. CASE UNCHANGED <<account, tokens, client, loop, disk, ca>>
    BY <1>1 DEF LoopInv, Shapes, AccountInv, ConfiguredAccountKept, TokensInv, At
  <1>2. CASE Begin \/ Pass \/ Wait
    <2>1. UNCHANGED <<account, tokens, client, disk, ca>>
      BY <1>2 DEF Begin, Pass, Wait, manager
    <2>. QED
      BY <1>2, <2>1, OutsideKeepsLoopInv
  <1>3. CASE EnsureAccount
    BY <1>3, EnsureAccountKeepsLoopInv DEF EnsureAccount
  <1>4. CASE SaveAccount \/ CreateOrder
    BY <1>4, SaveAccountKeepsLoopInv, CreateOrderKeepsLoopInv DEF SaveAccount, CreateOrder
  <1>5. CASE \/ Authorize \/ CompleteChallenge \/ WaitAuthorization
            \/ \E h \in Hosts : CaFetches(h)
    BY <1>5, ChallengeKeepsLoopInv
       DEF Authorize, CompleteChallenge, CaFetches, WaitAuthorization
  <1>6. CASE WriteKey \/ WriteCertificate
    BY <1>6, WritesKeepLoopInv DEF WriteKey, WriteCertificate
  <1>7. CASE Stop \/ Restart
    BY <1>7, EndsKeepLoopInv DEF Stop, Restart
  <1>8. CASE Tick \/ Replaced \/ \E H \in HostSets, reload \in BOOLEAN : Call(H, reload)
    BY <1>1, <1>8 DEF Tick, Replaced, Call, manager
  <1>. QED
    BY <1>1, <1>2, <1>3, <1>4, <1>5, <1>6, <1>7, <1>8 DEF Next, Run, vars, manager

\* Whatever the CA answers, a configured account stays (acme.go:438-454,
\* 508-517).
THEOREM ConfiguredStays == Spec => []ConfiguredAccountKept
  <1>1. LoopInv => ConfiguredAccountKept
    BY DEF LoopInv, AccountInv, ConfiguredAccountKept
  <1>. QED
    BY <1>1, InitLoopInv, NextKeepsLoopInv, PTL DEF Spec

-----------------------------------------------------------------------------
(* Types.  The loop's record, the account it is about to store, and how    *)
(* many accounts can have been registered.                                 *)

\* The powers of two that a back-off can be multiplied by.
LEMMA TwoToThe ==
    ASSUME NEW k \in 0..10
    PROVE  2^k \in Nat /\ 1 <= 2^k
  <1> DEFINE P(n) == 2^n \in Nat /\ 1 <= 2^n
  <1>1. P(0) /\ P(1) /\ P(2) /\ P(3) /\ P(4) /\ P(5)
    OBVIOUS
  <1>2. P(6) /\ P(7) /\ P(8) /\ P(9) /\ P(10)
    OBVIOUS
  <1>3. k \in {0, 1, 2, 3, 4, 5, 6, 7, 8, 9, 10}
    OBVIOUS
  <1> HIDE DEF P
  <1>4. P(k)
    BY <1>1, <1>2, <1>3, Zenon
  <1>. QED
    BY <1>4 DEF P

USE ConstantsAssumption, NilAssumption

Resting == {"idle", "pass", "wait", "stopped"}
Ordering == {"account", "save", "order", "authorize", "complete", "validating",
             "key", "crt"}

LoopRecord == [at : Resting \cup Ordering, queue : SUBSET Hosts, host : Hosts \cup {Nil},
               now : 0..MaxTime, next : Nat, again : BOOLEAN, issue : Issue \cup {Nil}]

LoopTyped ==
    /\ loop \in LoopRecord
    /\ loop.at \in Resting => loop.host = Nil
    /\ loop.at \in Ordering => loop.host \in loop.queue
    /\ loop.at \in {"key", "crt"} => loop.issue \in Issue

FailuresTyped == failures \in [Hosts -> Failure \cup {Nil}]
CertsTyped == certs \in [Hosts -> Pair \cup {Nil}]

\* Every registration but MaxAccounts + 1 follows an event: an account that is
\* neither in use nor on disk was archived, or an event lost it.
AccountsCounted ==
    /\ ca.accounts <= MaxAccounts + 1 + events
    /\ client = Nil /\ disk.account = Nil => ca.accounts <= MaxAccounts + events
    /\ At("save") => client \in Accounts

RestTyped ==
    /\ now \in 0..MaxTime
    /\ account \in {"generated", "key", "url"}
    /\ hosts \subseteq Hosts
    /\ tokens \subseteq Hosts
    /\ wake \in BOOLEAN /\ current \in BOOLEAN
    /\ client \in Accounts \cup {Nil}
    /\ disk \in [account : Accounts \cup {Nil, Partial},
                 key : [Hosts -> Issue \cup {Nil, Partial}],
                 crt : [Hosts -> Issue \cup {Nil, Partial}]]
    /\ ca \in [accounts : Accounts, told : SUBSET Hosts,
               verdict : {"none", "valid", "invalid"}]
    /\ events \in 0..MaxEvents

TypeInv == LoopTyped /\ FailuresTyped /\ CertsTyped /\ RestTyped /\ AccountsCounted

LEMMA EarliestFacts ==
    ASSUME NEW a \in Nat, NEW b \in Nat
    PROVE  Earliest(a, b) \in {a, b} /\ Earliest(a, b) <= a /\ Earliest(a, b) <= b
  BY DEF Earliest

\* The shift never reaches zero, and MaxRetry caps it.
LEMMA BackoffBounds ==
    ASSUME NEW count \in Nat \ {0}
    PROVE  Backoff(count) \in Nat /\ MinRetry <= Backoff(count) /\ Backoff(count) <= MaxRetry
  <1> DEFINE k == Earliest(count - 1, 10)
             p == 2^k
  <1>1. k \in 0..10
    BY DEF Earliest
  <1>2. p \in Nat /\ 1 <= p
    BY <1>1, TwoToThe
  <1> HIDE DEF p
  <1>3. MinRetry * p \in Nat /\ MinRetry <= MinRetry * p
    BY <1>2
  <1>4. Backoff(count) = Earliest(MinRetry * p, MaxRetry)
    BY DEF Backoff, p
  <1>. QED
    BY <1>3, <1>4 DEF Earliest

LEMMA RenewAtNat ==
    ASSUME NEW pair \in Pair
    PROVE  RenewAt(pair) \in Nat
  <1>1. pair.crt.born \in Nat
    BY DEF Pair, Issue
  <1>2. (Lifetime * 2) \div 3 \in Nat
    OBVIOUS
  <1>. QED
    BY <1>1, <1>2 DEF RenewAt

\* What a failed attempt records, and where the loop goes from there.
LEMMA FailRecords ==
    ASSUME LoopTyped, FailuresTyped, now \in 0..MaxTime, loop.at \in Ordering, Fail
    PROVE  /\ \E failure \in Failure :
                 /\ failure.failedAt = now
                 /\ now + MinRetry <= failure.retryAt
                 /\ failure.retryAt <= now + MaxRetry
                 /\ failures' = [failures EXCEPT ![loop.host] = failure]
                 /\ NextHost(failure.retryAt)
           /\ loop.host \in Hosts
  <1> DEFINE count == IF failures[loop.host] = Nil THEN 1 ELSE failures[loop.host].count + 1
             retryAt == now + Backoff(count)
             failure == [count |-> count, failedAt |-> now, retryAt |-> retryAt]
  <1>1. loop.host \in Hosts
    BY DEF LoopTyped, LoopRecord
  <1>2. count \in Nat \ {0}
    BY <1>1 DEF FailuresTyped, Failure
  <1>3. /\ Backoff(count) \in Nat
        /\ MinRetry <= Backoff(count) /\ Backoff(count) <= MaxRetry
    BY <1>2, BackoffBounds
  <1>4. /\ failures' = [failures EXCEPT ![loop.host] = failure]
        /\ NextHost(retryAt)
    BY DEF Fail
  <1> HIDE DEF count
  <1>5. retryAt \in Nat /\ now + MinRetry <= retryAt /\ retryAt <= now + MaxRetry
    BY <1>3
  <1>6. failure \in Failure
    BY <1>2, <1>5 DEF Failure
  <1>. QED
    BY <1>1, <1>4, <1>5, <1>6

LEMMA NextHostTyped ==
    ASSUME LoopTyped, NEW time \in Nat, NextHost(time)
    PROVE  /\ LoopTyped'
           /\ loop'.at = "pass" /\ loop'.now = loop.now
           /\ loop'.queue = loop.queue \ {loop.host}
           /\ loop'.next \in Nat /\ loop'.next <= time /\ loop'.next <= loop.next
  BY EarliestFacts DEF LoopTyped, LoopRecord, NextHost, Resting, Ordering

LEMMA FailTyped ==
    ASSUME LoopTyped, FailuresTyped, now \in 0..MaxTime, loop.at \in Ordering, Fail
    PROVE  LoopTyped' /\ FailuresTyped' /\ loop'.at = "pass"
  <1>1. PICK failure \in Failure : /\ failures' = [failures EXCEPT ![loop.host] = failure]
                                   /\ NextHost(failure.retryAt)
    BY FailRecords
  <1>2. failure.retryAt \in Nat
    BY DEF Failure
  <1>. QED
    BY <1>1, <1>2, NextHostTyped DEF FailuresTyped

\* The loop goes to another place in the same attempt.
LEMMA GotoTyped ==
    ASSUME LoopTyped, NEW label \in Ordering, loop.at \in Ordering, Goto(label),
           label = "crt" => loop.issue \in Issue, label # "key"
    PROVE  LoopTyped' /\ loop'.at = label
  BY DEF LoopTyped, LoopRecord, Goto, Resting, Ordering

LEMMA DownloadTyped ==
    ASSUME LoopTyped, RestTyped, loop.at \in Ordering, Download
    PROVE  LoopTyped' /\ loop'.at = "key"
  BY DEF LoopTyped, LoopRecord, RestTyped, Download, Issue, Resting, Ordering

\* The loop stays with the host: it goes to another place in the attempt.
Stays ==
    /\ loop'.at \in Ordering
    /\ loop'.queue = loop.queue /\ loop'.now = loop.now /\ loop'.next = loop.next
    /\ UNCHANGED <<certs, failures>>

\* What an attempt may do to the loop, to the failures and to the table.
AttemptStep ==
    /\ loop.at \in Ordering
    /\ UNCHANGED <<now, account, current, hosts, wake>>
    /\ \/ Stays /\ LoopTyped'
       \/ Fail /\ UNCHANGED certs
       \/ At("crt") /\ Store

LEMMA GotoStays ==
    ASSUME LoopTyped, NEW label \in Ordering, loop.at \in Ordering, Goto(label),
           label = "crt" => loop.issue \in Issue, label # "key",
           UNCHANGED <<certs, failures>>
    PROVE  Stays /\ LoopTyped' /\ loop'.at = label
  BY GotoTyped DEF Stays, LoopTyped, LoopRecord, Goto

LEMMA DownloadStays ==
    ASSUME LoopTyped, RestTyped, loop.at \in Ordering, Download,
           UNCHANGED <<certs, failures>>
    PROVE  Stays /\ LoopTyped' /\ loop'.at = "key"
  BY DownloadTyped DEF Stays, LoopTyped, LoopRecord, Download, Ordering

LEMMA AccountSteps ==
    ASSUME TypeInv, EnsureAccount \/ SaveAccount
    PROVE  AttemptStep
  <1> USE DEF TypeInv, AttemptStep, At, Ordering, RequestFails
  <1>1. CASE EnsureAccount
    <2>1. \/ Goto("order") /\ UNCHANGED failures
          \/ Goto("save") /\ UNCHANGED failures
          \/ Fail
      BY <1>1 DEF EnsureAccount
    <2>2. loop.at = "account" /\ UNCHANGED <<now, account, current, hosts, wake, certs>>
      BY <1>1 DEF EnsureAccount
    <2>. QED
      BY <2>1, <2>2, GotoStays
  <1>2. CASE SaveAccount
    <2>1. (Goto("order") /\ UNCHANGED failures) \/ Fail
      BY <1>2 DEF SaveAccount
    <2>2. loop.at = "save" /\ UNCHANGED <<now, account, current, hosts, wake, certs>>
      BY <1>2 DEF SaveAccount
    <2>. QED
      BY <2>1, <2>2, GotoStays
  <1>. QED
    BY <1>1, <1>2

LEMMA OrderSteps ==
    ASSUME TypeInv, CreateOrder
    PROVE  AttemptStep
  <1> USE DEF TypeInv, AttemptStep, At, Ordering, RequestFails
  <1>1. \/ Goto("authorize") /\ UNCHANGED failures
        \/ loop' = [loop EXCEPT !.at = "account", !.again = TRUE] /\ UNCHANGED failures
        \/ Fail
    BY DEF CreateOrder, ReplaceAccount
  <1>2. loop.at = "order" /\ UNCHANGED <<now, account, current, hosts, wake, certs>>
    BY DEF CreateOrder
  <1>3. CASE loop' = [loop EXCEPT !.at = "account", !.again = TRUE] /\ UNCHANGED failures
    BY <1>2, <1>3 DEF Stays, LoopTyped, LoopRecord, Resting
  <1>. QED
    BY <1>1, <1>2, <1>3, GotoStays

LEMMA ChallengeSteps ==
    ASSUME TypeInv, Authorize \/ CompleteChallenge \/ WaitAuthorization
    PROVE  AttemptStep
  <1> USE DEF TypeInv, AttemptStep, At, Ordering, RequestFails
  <1>1. \/ Download /\ UNCHANGED failures
        \/ Goto("complete") /\ UNCHANGED failures
        \/ Goto("validating") /\ UNCHANGED failures
        \/ Fail
    BY DEF Authorize, CompleteChallenge, WaitAuthorization
  <1>2. /\ loop.at \in {"authorize", "complete", "validating"}
        /\ UNCHANGED <<now, account, current, hosts, wake, certs>>
    BY DEF Authorize, CompleteChallenge, WaitAuthorization
  <1>. QED
    BY <1>1, <1>2, GotoStays, DownloadStays

LEMMA WriteSteps ==
    ASSUME TypeInv, WriteKey \/ WriteCertificate
    PROVE  AttemptStep
  <1> USE DEF TypeInv, AttemptStep, At, Ordering
  <1>1. CASE WriteKey
    <2>1. (Goto("crt") /\ UNCHANGED failures) \/ Fail
      BY <1>1 DEF WriteKey
    <2>2. loop.at = "key" /\ UNCHANGED <<now, account, current, hosts, wake, certs>>
      BY <1>1 DEF WriteKey
    <2>3. loop.issue \in Issue
      BY <2>2 DEF LoopTyped
    <2>. QED
      BY <2>1, <2>2, <2>3, GotoStays
  <1>2. CASE WriteCertificate
    <2>1. Store \/ (Fail /\ UNCHANGED certs)
      BY <1>2 DEF WriteCertificate
    <2>2. loop.at = "crt" /\ UNCHANGED <<now, account, current, hosts, wake>>
      BY <1>2 DEF WriteCertificate
    <2>. QED
      BY <2>1, <2>2
  <1>. QED
    BY <1>1, <1>2

Attempt == \/ EnsureAccount \/ SaveAccount \/ CreateOrder
           \/ Authorize \/ CompleteChallenge \/ WaitAuthorization
           \/ WriteKey \/ WriteCertificate

LEMMA AttemptSteps ==
    ASSUME TypeInv, Attempt
    PROVE  AttemptStep
  BY AccountSteps, OrderSteps, ChallengeSteps, WriteSteps DEF Attempt

\* What a stored certificate leaves.
LEMMA StoreFacts ==
    ASSUME LoopTyped, FailuresTyped, CertsTyped, At("crt"), Store
    PROVE  /\ loop.host \in Hosts
           /\ \E pair \in Pair : /\ certs' = [certs EXCEPT ![loop.host] = pair]
                                 /\ RenewAt(pair) \in Nat
                                 /\ NextHost(RenewAt(pair))
           /\ failures' = [failures EXCEPT ![loop.host] = Nil]
           /\ CertsTyped' /\ FailuresTyped'
  <1> DEFINE pair == [crt |-> loop.issue, key |-> loop.issue]
  <1>1. pair \in Pair /\ loop.host \in Hosts
    BY DEF LoopTyped, LoopRecord, At, Ordering, Pair
  <1>2. RenewAt(pair) \in Nat
    BY <1>1, RenewAtNat
  <1>3. /\ certs' = [certs EXCEPT ![loop.host] = pair]
        /\ failures' = [failures EXCEPT ![loop.host] = Nil]
        /\ NextHost(RenewAt(pair))
    BY DEF Store
  <1>4. CertsTyped' /\ FailuresTyped'
    BY <1>1, <1>3 DEF CertsTyped, FailuresTyped
  <1>. QED
    BY <1>1, <1>2, <1>3, <1>4

LEMMA AttemptTyped ==
    ASSUME TypeInv, AttemptStep
    PROVE  LoopTyped' /\ FailuresTyped' /\ CertsTyped'
  <1> USE DEF TypeInv
  <1>1. CASE Stays /\ LoopTyped'
    BY <1>1 DEF Stays, FailuresTyped, CertsTyped
  <1>2. CASE Fail /\ UNCHANGED certs
    BY <1>2, FailTyped DEF AttemptStep, RestTyped, CertsTyped
  <1>3. CASE At("crt") /\ Store
    BY <1>3, StoreFacts, NextHostTyped
  <1>. QED
    BY <1>1, <1>2, <1>3 DEF AttemptStep

LEMMA IdleTyped == Idle \in LoopRecord /\ Idle.at = "idle" /\ Idle.host = Nil
  BY DEF Idle, LoopRecord, Resting

LEMMA BetweenHostsTyped ==
    ASSUME TypeInv, Begin \/ Pass \/ Wait
    PROVE  TypeInv'
  <1> USE DEF TypeInv, At
  <1>1. LoopTyped' /\ loop'.at # "save"
    <2>1. CASE Begin
      <3>1. now + CheckInterval \in Nat
        BY DEF RestTyped
      <3>. QED
        BY <2>1, <3>1 DEF Begin, LoopTyped, LoopRecord, RestTyped, Resting, Ordering
    <2>2. CASE Pass
      <3>1. ASSUME NEW h \in loop.queue, Skip(h) PROVE LoopTyped' /\ loop'.at = "pass"
        <4>1. PICK time \in Nat : loop' = [loop EXCEPT !.queue = @ \ {h},
                                                       !.next = Earliest(@, time)]
          <5>1. h \in Hosts
            BY DEF LoopTyped, LoopRecord
          <5>2. Fresh(h) => RenewAt(certs[h]) \in Nat
            BY <5>1, RenewAtNat DEF Fresh, CertsTyped
          <5>3. BackingOff(h) => failures[h].retryAt \in Nat
            BY <5>1 DEF BackingOff, FailuresTyped, Failure
          <5>. QED
            BY <3>1, <5>2, <5>3 DEF Skip
        <4>. QED
          BY <2>2, <4>1, EarliestFacts DEF Pass, LoopTyped, LoopRecord, Resting, Ordering
      <3>2. ASSUME NEW h \in loop.queue, Start(h) PROVE LoopTyped' /\ loop'.at = "account"
        BY <3>2, <2>2 DEF Pass, Start, LoopTyped, LoopRecord, Resting, Ordering
      <3>3. CASE Goto("wait")
        BY <2>2, <3>3 DEF Pass, Goto, LoopTyped, LoopRecord, Resting, Ordering
      <3>. QED
        BY <2>2, <3>1, <3>2, <3>3 DEF Pass
    <2>3. CASE Wait
      BY <2>3, IdleTyped DEF Wait, LoopTyped, LoopRecord, Resting, Ordering
    <2>. QED
      BY <2>1, <2>2, <2>3
  <1>2. /\ UNCHANGED <<now, account, current, hosts, certs, failures, tokens, client, disk, ca, events>>
        /\ wake' \in BOOLEAN
    BY DEF Begin, Pass, Wait, manager, RestTyped
  <1>. QED
    BY <1>1, <1>2 DEF FailuresTyped, CertsTyped, RestTyped, AccountsCounted

LEMMA LoadKeyPairTyped ==
    ASSUME NEW h \in Hosts
    PROVE  LoadKeyPair(h) \in Pair \cup {Nil}
  BY DEF LoadKeyPair, Pair

LEMMA ResetTyped ==
    ASSUME NEW failure \in Failure
    PROVE  /\ Reset(failure) \in Failure
           /\ Reset(failure).failedAt = failure.failedAt
           /\ Reset(failure).retryAt
                  = Earliest(failure.retryAt, failure.failedAt + ReloadRetry)
  <1>1. failure.failedAt + ReloadRetry \in Nat /\ failure.retryAt \in Nat
    BY DEF Failure
  <1>2. Earliest(failure.retryAt, failure.failedAt + ReloadRetry) \in Nat
    BY <1>1, EarliestFacts
  <1>. QED
    BY <1>2 DEF Reset, Failure

LEMMA WorldTyped ==
    ASSUME TypeInv, \/ \E H \in HostSets, reload \in BOOLEAN : Call(H, reload)
                    \/ \E h \in Hosts : CaFetches(h)
                    \/ Tick \/ Replaced \/ Stop \/ Restart
    PROVE  TypeInv'
  <1> USE DEF TypeInv, At
  <1>1. ASSUME NEW H \in HostSets, NEW reload \in BOOLEAN, Call(H, reload) PROVE TypeInv'
    <2> USE <1>1 DEF Call, SetHosts, Event, Wake
    <2>1. FailuresTyped'
      BY ResetTyped DEF FailuresTyped
    <2>2. CertsTyped'
      BY LoadKeyPairTyped DEF CertsTyped
    <2>3. LoopTyped' /\ AccountsCounted'
      BY DEF LoopTyped, AccountsCounted, RestTyped, Accounts
    <2>. QED
      BY <2>1, <2>2, <2>3 DEF RestTyped
  <1>2. CASE \E h \in Hosts : CaFetches(h)
    <2>1. UNCHANGED <<now, account, current, manager, client, loop, disk, events>>
      BY <1>2, FetchFacts
    <2>2. /\ ca' \in [accounts : Accounts, told : SUBSET Hosts,
                      verdict : {"none", "valid", "invalid"}]
          /\ ca'.accounts = ca.accounts
      <3>1. PICK h \in Hosts, verdict \in {ca.verdict, "valid", "invalid"} :
                ca' = [ca EXCEPT !.told = @ \ {h}, !.verdict = verdict]
        BY <1>2, FetchFacts
      <3>. QED
        BY <3>1 DEF RestTyped
    <2>. QED
      BY <2>1, <2>2 DEF manager, LoopTyped, FailuresTyped, CertsTyped, RestTyped,
                        AccountsCounted
  <1>3. CASE Tick
    BY <1>3 DEF Tick, manager, LoopTyped, FailuresTyped, CertsTyped, RestTyped,
                AccountsCounted
  <1>4. CASE Stop
    <2>1. LoopTyped' /\ loop'.at = "stopped"
      BY <1>4, IdleTyped DEF Stop, LoopTyped, LoopRecord, Resting, Ordering
    <2>. QED
      BY <1>4, <2>1 DEF Stop, FailuresTyped, CertsTyped, RestTyped, AccountsCounted
  <1>5. CASE Restart
    <2> USE <1>5 DEF Restart, Event
    <2>1. LoopTyped' /\ loop'.at = "idle"
      BY DEF Idle, LoopTyped, LoopRecord, Resting, Ordering
    <2>2. CertsTyped' /\ FailuresTyped'
      BY LoadKeyPairTyped DEF CertsTyped, FailuresTyped
    <2>3. RestTyped'
      <3>1. ca' \in [accounts : Accounts, told : SUBSET Hosts,
                     verdict : {"none", "valid", "invalid"}]
        BY DEF RestTyped
      <3>2. events' \in 0..MaxEvents
        BY DEF RestTyped
      <3>. QED
        BY <3>1, <3>2 DEF RestTyped
    <2>4. AccountsCounted'
      BY <2>1 DEF AccountsCounted, RestTyped, Accounts
    <2>. QED
      BY <2>1, <2>2, <2>3, <2>4
  <1>6. CASE Replaced
    <2>1. /\ UNCHANGED <<now, account, hosts, certs, failures, tokens, wake, client, loop,
                         disk, ca>>
          /\ current' = FALSE /\ events' = events + 1 /\ events' \in 0..MaxEvents
      BY <1>6 DEF Replaced, Event, manager, RestTyped
    <2>2. LoopTyped' /\ FailuresTyped' /\ CertsTyped' /\ RestTyped'
      BY <2>1 DEF LoopTyped, FailuresTyped, CertsTyped, RestTyped
    <2>3. AccountsCounted'
      BY <2>1 DEF AccountsCounted, RestTyped, Accounts
    <2>. QED
      BY <2>2, <2>3
  <1>. QED
    BY <1>1, <1>2, <1>3, <1>4, <1>5, <1>6

\* An attempt is about a host of the queue, so it touches known files.
LEMMA AttemptHost ==
    ASSUME LoopTyped, loop.at \in Ordering
    PROVE  loop.host \in Hosts
  BY DEF LoopTyped, LoopRecord

LEMMA WrittenContent ==
    ASSUME NEW old, NEW data, NEW w \in WriteFileAtomic(old, data)
    PROVE  w.content \in {old, data, Partial}
  BY DEF WriteFileAtomic

LEMMA EnsureAccountRest ==
    ASSUME TypeInv, EnsureAccount, AttemptStep
    PROVE  RestTyped' /\ AccountsCounted'
  <1> USE DEF TypeInv, At, Accounts, Configured
  <1>1. UNCHANGED <<now, account, current, hosts, tokens, wake, disk, events>>
    BY DEF EnsureAccount, RequestFails
  <1>2. CASE RegisterAccount /\ client = Nil /\ disk.account = Nil /\ Goto("save")
    <2>1. /\ ca.accounts + 1 <= MaxAccounts + 1 + events
          /\ ca' = [ca EXCEPT !.accounts = ca.accounts + 1]
          /\ client' = ca.accounts + 1
      BY <1>2 DEF RegisterAccount, AccountsCounted, RestTyped
    <2>2. client' \in Accounts /\ ca'.accounts = ca.accounts + 1 /\ client' # Nil
      BY <2>1 DEF RestTyped
    <2>. QED
      BY <1>1, <2>1, <2>2 DEF RestTyped, AccountsCounted
  <1>3. CASE ca' = ca /\ client' \in Accounts \cup {Nil} /\ loop'.at # "save"
             /\ (client' = Nil => client = Nil)
    BY <1>1, <1>3 DEF RestTyped, AccountsCounted
  <1>4. \/ RegisterAccount /\ client = Nil /\ disk.account = Nil /\ Goto("save")
        \/ ca' = ca /\ client' \in Accounts \cup {Nil} /\ (client' = Nil => client = Nil)
           /\ (Goto("order") \/ Fail)
    <2>1. client \in Accounts \cup {Nil} /\ 0 \in Accounts
      BY DEF RestTyped
    <2>. QED
      BY <2>1 DEF EnsureAccount, RequestFails, ResolveAccount
  <1>5. Goto("order") \/ Fail => loop'.at # "save"
    BY FailTyped DEF Goto, LoopTyped, LoopRecord, AttemptStep, RestTyped
  <1>. QED
    BY <1>2, <1>3, <1>4, <1>5

LEMMA SaveAccountRest ==
    ASSUME TypeInv, SaveAccount, AttemptStep
    PROVE  RestTyped' /\ AccountsCounted'
  <1> USE DEF TypeInv, At
  <1>1. /\ client \in Accounts /\ client # Nil
        /\ UNCHANGED <<now, account, current, hosts, tokens, wake, client, ca>>
    BY DEF SaveAccount, AccountsCounted
  <1>2. \E content \in {disk.account, client, Partial} :
            disk' = [disk EXCEPT !.account = content]
    BY WrittenContent DEF SaveAccount
  <1>3. events' \in {events, events + 1} /\ events' \in 0..MaxEvents
    BY DEF SaveAccount, Event, RestTyped
  <1>4. loop'.at # "save"
    BY FailTyped DEF SaveAccount, Goto, LoopTyped, LoopRecord, AttemptStep, RestTyped
  <1>. QED
    BY <1>1, <1>2, <1>3, <1>4 DEF RestTyped, AccountsCounted, Accounts

LEMMA OrderRest ==
    ASSUME TypeInv, CreateOrder, AttemptStep
    PROVE  RestTyped' /\ AccountsCounted'
  <1> USE DEF TypeInv, At
  <1>1. UNCHANGED <<now, account, current, hosts, tokens, wake, ca, events>>
    BY DEF CreateOrder, ReplaceAccount, AccountGone, RequestFails
  <1>2. \/ UNCHANGED <<client, disk>>
        \/ /\ ca.accounts <= MaxAccounts
           /\ disk' = [disk EXCEPT !.account = Nil] /\ client' = Nil
    BY DEF CreateOrder, ReplaceAccount, AccountGone
  <1>3. loop'.at # "save"
    BY FailTyped DEF CreateOrder, ReplaceAccount, RequestFails, Goto, LoopTyped, LoopRecord,
       AttemptStep, RestTyped
  <1>. QED
    BY <1>1, <1>2, <1>3 DEF RestTyped, AccountsCounted, Accounts

LEMMA ChallengeRest ==
    ASSUME TypeInv, Authorize \/ CompleteChallenge \/ WaitAuthorization, AttemptStep
    PROVE  RestTyped' /\ AccountsCounted'
  <1> USE DEF TypeInv, At
  <1>1. UNCHANGED <<now, account, current, hosts, wake, client, disk, events>>
    BY DEF Authorize, CompleteChallenge, WaitAuthorization, RequestFails
  <1>2. tokens' \in {tokens, tokens \cup {loop.host}, tokens \ {loop.host}}
    BY DEF Authorize, CompleteChallenge, AfterTelling, WaitAuthorization
  <1>3. loop.host \in Hosts
    BY AttemptHost DEF AttemptStep
  <1>4. ca' \in {ca, [ca EXCEPT !.told = @ \cup {loop.host}], [ca EXCEPT !.verdict = "none"]}
    BY DEF Authorize, CompleteChallenge, WaitAuthorization
  <1>5. loop'.at # "save"
    BY FailTyped DEF Authorize, CompleteChallenge, WaitAuthorization, Download, RequestFails,
       Goto, LoopTyped, LoopRecord, AttemptStep, RestTyped
  <1>. QED
    BY <1>1, <1>2, <1>3, <1>4, <1>5 DEF RestTyped, AccountsCounted

LEMMA WriteRest ==
    ASSUME TypeInv, WriteKey \/ WriteCertificate, AttemptStep
    PROVE  RestTyped' /\ AccountsCounted'
  <1> USE DEF TypeInv, At
  <1>1. UNCHANGED <<now, account, current, hosts, tokens, wake, client, ca>>
    BY DEF WriteKey, WriteCertificate
  <1>2. loop.host \in Hosts /\ loop.issue \in Issue
    BY AttemptHost DEF AttemptStep, WriteKey, WriteCertificate, LoopTyped
  <1>3. \E content \in Issue \cup {Nil, Partial} :
            \/ disk' = [disk EXCEPT !.key[loop.host] = content]
            \/ disk' = [disk EXCEPT !.crt[loop.host] = content]
    <2>1. disk.key[loop.host] \in Issue \cup {Nil, Partial}
      BY <1>2 DEF RestTyped
    <2>2. disk.crt[loop.host] \in Issue \cup {Nil, Partial}
      BY <1>2 DEF RestTyped
    <2>. QED
      BY <1>2, <2>1, <2>2, WrittenContent DEF WriteKey, WriteCertificate
  <1>4. events' \in {events, events + 1} /\ events' \in 0..MaxEvents
    BY DEF WriteKey, WriteCertificate, Event, RestTyped
  <1>5. loop'.at # "save"
    BY FailTyped DEF WriteKey, WriteCertificate, Store, NextHost, Goto, LoopTyped,
       LoopRecord, AttemptStep, RestTyped
  <1>6. /\ disk' \in [account : Accounts \cup {Nil, Partial},
                      key : [Hosts -> Issue \cup {Nil, Partial}],
                      crt : [Hosts -> Issue \cup {Nil, Partial}]]
        /\ disk'.account = disk.account
    BY <1>2, <1>3 DEF RestTyped
  <1>. QED
    BY <1>1, <1>4, <1>5, <1>6 DEF RestTyped, AccountsCounted, Accounts

LEMMA InitTypeInv == Init => TypeInv
  BY DEF Init, TypeInv, LoopTyped, LoopRecord, FailuresTyped, CertsTyped, RestTyped,
     AccountsCounted, Idle, Resting, Ordering, At, Accounts

LEMMA AttemptKeepsTypeInv == TypeInv /\ Attempt => TypeInv'
  <1> SUFFICES ASSUME TypeInv, Attempt PROVE TypeInv'
    OBVIOUS
  <1>1. AttemptStep
    BY AttemptSteps
  <1>2. RestTyped' /\ AccountsCounted'
    BY <1>1, EnsureAccountRest, SaveAccountRest, OrderRest, ChallengeRest, WriteRest
       DEF Attempt
  <1>. QED
    BY <1>1, <1>2, AttemptTyped DEF TypeInv

LEMMA NextKeepsTypeInv == TypeInv /\ [Next]_vars => TypeInv'
  <1> SUFFICES ASSUME TypeInv, [Next]_vars PROVE TypeInv'
    OBVIOUS
  <1>1. CASE UNCHANGED vars
    BY <1>1 DEF vars, manager, TypeInv, LoopTyped, FailuresTyped, CertsTyped, RestTyped,
                AccountsCounted, At
  <1>. QED
    BY <1>1, AttemptKeepsTypeInv, BetweenHostsTyped, WorldTyped DEF Next, Run, Attempt

\* The types of TypeOK, with the number of accounts bounded by the events
\* (acme.go:98-118, 181-210).
THEOREM AcmeTypeCorrect == Spec => []TypeOK
  <1>1. TypeInv => TypeOK
    BY DEF TypeInv, TypeOK, LoopTyped, LoopRecord, FailuresTyped, CertsTyped, RestTyped,
       Resting, Ordering
  <1>. QED
    BY <1>1, InitTypeInv, NextKeepsTypeInv, PTL DEF Spec

-----------------------------------------------------------------------------
(* The answer for the CA.                                                  *)

\* An attempt that fails in this step is recorded.
LEMMA FailGivesUp ==
    ASSUME TypeInv, loop.at \in Ordering, Fail
    PROVE  GivesUp(loop.host)
  <1>1. PICK failure \in Failure : /\ failure.failedAt = now
                                   /\ failures' = [failures EXCEPT ![loop.host] = failure]
    BY FailRecords DEF TypeInv, RestTyped
  <1>2. loop.host \in Hosts
    BY AttemptHost DEF TypeInv
  <1>3. failures'[loop.host] = failure /\ failure # Nil
    BY <1>1, <1>2 DEF TypeInv, FailuresTyped
  <1>. QED
    BY <1>1, <1>3 DEF GivesUp

\* The loop's own steps: those of an order that can drop the token.
LEMMA AnswerStays ==
    ASSUME TypeInv, LoopInv, [Next]_vars, NEW h \in ca.told, Answers(h)
    PROVE  Answers(h)' \/ GivesUp(h)
  <1>1. /\ current /\ h = loop.host /\ h \in tokens
        /\ loop.at \in {"complete", "validating"} /\ ca.verdict = "none"
    BY DEF Answers, LoopInv, TokensInv
  <1>2. CASE UNCHANGED <<tokens, current>>
    BY <1>2 DEF Answers
  <1>3. CASE CompleteChallenge \/ WaitAuthorization
    <2>1. UNCHANGED <<tokens, current>> \/ Fail
      BY <1>1, <1>3 DEF CompleteChallenge, WaitAuthorization, AfterTelling, RequestFails
    <2>. QED
      BY <1>1, <1>2, <2>1, FailGivesUp DEF Ordering
  <1>4. CASE Stop \/ Restart \/ Replaced
    BY <1>4 DEF Stop, Restart, Replaced, GivesUp, Idle
  <1>5. CASE Tick \/ (\E g \in Hosts : CaFetches(g))
             \/ \E H \in HostSets, reload \in BOOLEAN : Call(H, reload)
    BY <1>2, <1>5 DEF Tick, CaFetches, Call, manager
  <1>6. CASE Begin \/ Pass \/ Wait \/ EnsureAccount \/ SaveAccount \/ CreateOrder
             \/ Authorize \/ WriteKey \/ WriteCertificate
    BY <1>1, <1>6 DEF Begin, Pass, Wait, EnsureAccount, SaveAccount, CreateOrder, Authorize,
       WriteKey, WriteCertificate, At
  <1>7. CASE UNCHANGED vars
    BY <1>2, <1>7 DEF vars, manager
  <1>. QED
    BY <1>3, <1>4, <1>5, <1>6, <1>7 DEF Next, Run

\* The CA finds the answer for as long as the attempt goes on and the manager
\* serves the challenges; a failed attempt that takes it away is recorded, and
\* no token is left behind (acme.go:66-67, 410-425, server.go:266-289).
THEOREM TokensAnswered == Spec => TokenAnswered
  <1>1. LoopInv => /\ At("validating") /\ current => Answers(loop.host)
                   /\ tokens # {} => /\ loop.at \in {"complete", "validating"}
                                     /\ tokens = {loop.host}
    BY DEF LoopInv, TokensInv, Answers, At
  <1>2. TypeInv /\ LoopInv /\ [Next]_vars =>
            [\A h \in ca.told : Answers(h) => Answers(h)' \/ GivesUp(h)]_vars
    BY AnswerStays
  <1>3. LoopInv /\ account \in {"generated", "key", "url"} /\ TypeInv /\ [Next]_vars
            => (LoopInv /\ account \in {"generated", "key", "url"} /\ TypeInv)'
    BY NextKeepsLoopInv, NextKeepsTypeInv
  <1>. QED
    BY <1>1, <1>2, <1>3, InitLoopInv, InitTypeInv, PTL DEF Spec, TokenAnswered

-----------------------------------------------------------------------------
(* Retries and the timer.                                                  *)

\* No retry comes earlier than ReloadRetry, or later than MaxRetry, after the
\* failure, whether setHosts has reset it or not; a pass works with a clock
\* reading of the past.
RetryInv ==
    /\ loop.now <= now
    /\ \A h \in Hosts : failures[h] # Nil =>
           /\ failures[h].failedAt + ReloadRetry <= failures[h].retryAt
           /\ failures[h].retryAt <= failures[h].failedAt + MaxRetry

\* During a pass the host is still in the queue, or its due time has been put
\* into the timer; setHosts leaves a wake-up for what it changes.
TimerInv ==
    /\ At("wait") => loop.queue = {}
    /\ ~wake /\ loop.at \notin {"idle", "stopped"} =>
           \A h \in hosts : h \in loop.queue \/ loop.next <= DueAt(h)

ScheduleInv == TypeInv /\ RetryInv /\ TimerInv

LEMMA DueFacts ==
    ASSUME CertsTyped, FailuresTyped, NEW h \in Hosts
    PROVE  /\ DueAt(h) \in Nat
           /\ certs[h] # Nil => RenewAt(certs[h]) \in Nat /\ RenewAt(certs[h]) <= DueAt(h)
           /\ failures[h] # Nil => /\ failures[h].retryAt \in Nat
                                   /\ failures[h].retryAt <= DueAt(h)
  <1>1. certs[h] # Nil => RenewAt(certs[h]) \in Nat
    BY RenewAtNat DEF CertsTyped
  <1>2. failures[h] # Nil => failures[h].retryAt \in Nat
    BY DEF FailuresTyped, Failure
  <1>. QED
    BY <1>1, <1>2 DEF DueAt, Latest

LEMMA AttemptKeepsRetryInv ==
    ASSUME ScheduleInv, AttemptStep
    PROVE  RetryInv'
  <1> USE DEF ScheduleInv, TypeInv, RetryInv
  <1>1. now' = now /\ now \in 0..MaxTime
    BY DEF AttemptStep, RestTyped
  <1>2. CASE Stays
    BY <1>1, <1>2 DEF Stays
  <1>3. CASE Fail
    <2>1. PICK failure \in Failure :
                 /\ failure.failedAt = now
                 /\ now + MinRetry <= failure.retryAt
                 /\ failure.retryAt <= now + MaxRetry
                 /\ failures' = [failures EXCEPT ![loop.host] = failure]
                 /\ NextHost(failure.retryAt)
      BY <1>1, <1>3, FailRecords DEF AttemptStep
    <2>2. failure.failedAt + ReloadRetry <= failure.retryAt
      BY <1>1, <2>1 DEF Failure
    <2>3. loop'.now = loop.now
      BY <2>1, NextHostTyped DEF Failure
    <2>. QED
      BY <1>1, <2>1, <2>2, <2>3 DEF FailuresTyped
  <1>4. CASE At("crt") /\ Store
    <2>1. loop'.now = loop.now
      BY <1>4, StoreFacts, NextHostTyped
    <2>. QED
      BY <1>1, <1>4, <2>1, StoreFacts DEF FailuresTyped
  <1>. QED
    BY <1>2, <1>3, <1>4 DEF AttemptStep

\* A failure and a certificate put their host's due time into the timer.
LEMMA AttemptKeepsTimerInv ==
    ASSUME ScheduleInv, AttemptStep
    PROVE  TimerInv'
  <1> USE DEF ScheduleInv, TypeInv
  <1> PICK host : host = loop.host
    OBVIOUS
  <1>1. /\ UNCHANGED <<hosts, wake>> /\ hosts \subseteq Hosts
        /\ loop.at \notin {"idle", "stopped"} /\ now \in 0..MaxTime
    BY DEF AttemptStep, RestTyped, Ordering
  <1>2. CASE Stays
    BY <1>1, <1>2 DEF Stays, TimerInv, At, DueAt, Ordering
  <1>3. ASSUME NEW time \in Nat, NextHost(time), CertsTyped', FailuresTyped',
               DueAt(host)' \in Nat, time <= DueAt(host)',
               \A h \in Hosts \ {host} : certs'[h] = certs[h] /\ failures'[h] = failures[h]
        PROVE  TimerInv'
    <2>1. /\ loop'.at = "pass" /\ loop'.queue = loop.queue \ {host}
          /\ loop'.next \in Nat /\ loop'.next <= time /\ loop'.next <= loop.next
          /\ loop.next \in Nat
      BY <1>3, NextHostTyped DEF LoopTyped, LoopRecord
    <2> SUFFICES ASSUME ~wake, NEW h \in hosts
                 PROVE  h \in loop.queue \ {host} \/ loop'.next <= DueAt(h)'
      BY <1>1, <2>1 DEF TimerInv, At
    <2>2. CASE h = host
      BY <1>1, <1>3, <2>1, <2>2, DueFacts
    <2>3. CASE h # host
      <3>1. DueAt(h)' = DueAt(h) /\ DueAt(h) \in Nat
        BY <1>1, <1>3, <2>3, DueFacts DEF DueAt
      <3>2. h \in loop.queue \/ loop.next <= DueAt(h)
        BY <1>1 DEF TimerInv
      <3>. QED
        BY <2>1, <2>3, <3>1, <3>2
    <2>. QED
      BY <2>2, <2>3
  <1>4. CASE Fail /\ UNCHANGED certs
    <2>1. PICK failure \in Failure :
                 /\ failures' = [failures EXCEPT ![loop.host] = failure]
                 /\ NextHost(failure.retryAt)
      BY <1>1, <1>4, FailRecords DEF AttemptStep
    <2>2. loop.host \in Hosts /\ failure.retryAt \in Nat
      BY AttemptHost DEF AttemptStep, Failure
    <2>3. CertsTyped' /\ FailuresTyped'
      BY AttemptTyped
    <2>4. failures'[host] = failure /\ failure # Nil
      BY <2>1, <2>2 DEF FailuresTyped
    <2>5. DueAt(host)' \in Nat /\ failure.retryAt <= DueAt(host)'
      <3> DEFINE renewal == IF certs'[host] = Nil THEN 0 ELSE RenewAt(certs'[host])
      <3>1. renewal \in Nat
        BY <2>2, <2>3, RenewAtNat DEF CertsTyped
      <3>2. DueAt(host)' = Latest(renewal, failure.retryAt)
        BY <2>4 DEF DueAt
      <3>. QED
        BY <2>2, <3>1, <3>2 DEF Latest
    <2>6. \A h \in Hosts \ {host} : certs'[h] = certs[h] /\ failures'[h] = failures[h]
      BY <1>4, <2>1 DEF FailuresTyped
    <2>. QED
      BY <1>3, <2>1, <2>2, <2>3, <2>5, <2>6
  <1>5. CASE At("crt") /\ Store
    <2>1. PICK pair \in Pair : /\ certs' = [certs EXCEPT ![loop.host] = pair]
                               /\ RenewAt(pair) \in Nat
                               /\ NextHost(RenewAt(pair))
      BY <1>5, StoreFacts
    <2>2. /\ loop.host \in Hosts
          /\ failures' = [failures EXCEPT ![loop.host] = Nil]
          /\ CertsTyped' /\ FailuresTyped'
      BY <1>5, StoreFacts
    <2>3. certs'[host] = pair /\ pair # Nil /\ failures'[host] = Nil
      BY <2>1, <2>2 DEF CertsTyped, FailuresTyped
    <2>4. DueAt(host)' \in Nat /\ RenewAt(pair) <= DueAt(host)'
      <3>1. DueAt(host)' = Latest(RenewAt(pair), 0)
        BY <2>3 DEF DueAt
      <3>. QED
        BY <2>1, <3>1 DEF Latest
    <2>5. \A h \in Hosts \ {host} : certs'[h] = certs[h] /\ failures'[h] = failures[h]
      BY <2>1, <2>2 DEF CertsTyped, FailuresTyped
    <2>. QED
      BY <1>3, <2>1, <2>2, <2>4, <2>5
  <1>. QED
    BY <1>2, <1>4, <1>5 DEF AttemptStep

LEMMA BetweenHostsKeepsSchedule ==
    ASSUME ScheduleInv, Begin \/ Pass \/ Wait
    PROVE  RetryInv' /\ TimerInv'
  <1> USE DEF ScheduleInv, TypeInv, At
  <1>1. UNCHANGED <<now, hosts, certs, failures>> /\ hosts \subseteq Hosts /\ now \in 0..MaxTime
    BY DEF Begin, Pass, Wait, manager, RestTyped
  <1>2. DOMAIN loop = LoopFields
    BY DEF LoopTyped, LoopRecord, LoopFields
  <1>3. CASE Begin
    BY <1>1, <1>2, <1>3 DEF Begin, manager, RetryInv, TimerInv, LoopTyped, LoopRecord,
                            LoopFields
  <1>4. CASE Wait
    <2>1. loop' = Idle
      BY <1>4 DEF Wait
    <2>. QED
      BY <1>1, <2>1 DEF Idle, RetryInv, TimerInv
  <1>5. CASE Pass
    <2>1. loop.at = "pass" /\ wake' = wake
      BY <1>5 DEF Pass, manager
    <2>2. ASSUME NEW g \in loop.queue, Skip(g) PROVE RetryInv' /\ TimerInv'
      <3>1. g \in Hosts
        BY DEF LoopTyped, LoopRecord
      <3>2. PICK time \in Nat : /\ time <= DueAt(g)
                                /\ loop' = [loop EXCEPT !.queue = @ \ {g},
                                                        !.next = Earliest(@, time)]
        <4>1. Fresh(g) => certs[g] # Nil
          BY DEF Fresh
        <4>2. BackingOff(g) => failures[g] # Nil
          BY DEF BackingOff
        <4>. QED
          BY <2>2, <3>1, <4>1, <4>2, DueFacts DEF Skip
      <3>3. /\ loop'.at = "pass" /\ loop'.now = loop.now
            /\ loop'.queue = loop.queue \ {g}
            /\ loop'.next = Earliest(loop.next, time) /\ loop.next \in Nat
        BY <2>1, <3>2 DEF LoopTyped, LoopRecord
      <3>4. loop'.next \in Nat /\ loop'.next <= loop.next /\ loop'.next <= time
        BY <3>2, <3>3, EarliestFacts
      <3>5. RetryInv'
        BY <1>1, <3>3 DEF RetryInv
      <3>6. ASSUME ~wake, NEW h \in hosts
            PROVE  h \in loop'.queue \/ loop'.next <= DueAt(h)
        <4>1. h \in loop.queue \/ loop.next <= DueAt(h)
          BY <2>1, <3>6 DEF TimerInv
        <4>2. DueAt(h) \in Nat /\ DueAt(g) \in Nat
          BY <1>1, <3>1, DueFacts
        <4>. QED
          BY <3>2, <3>3, <3>4, <4>1, <4>2
      <3>7. \A h \in Hosts : DueAt(h)' = DueAt(h)
        BY <1>1 DEF DueAt
      <3>. QED
        BY <1>1, <2>1, <3>3, <3>5, <3>6, <3>7 DEF TimerInv
    <2>3. ASSUME NEW g \in loop.queue, Start(g) PROVE RetryInv' /\ TimerInv'
      <3>1. /\ loop'.at = "account" /\ loop'.queue = loop.queue
            /\ loop'.next = loop.next /\ loop'.now = loop.now
        BY <2>3 DEF Start, LoopTyped, LoopRecord
      <3>. QED
        BY <1>1, <2>1, <3>1 DEF RetryInv, TimerInv, DueAt
    <2>4. CASE loop.queue = {} /\ Goto("wait")
      <3>1. /\ loop'.at = "wait" /\ loop'.queue = {}
            /\ loop'.next = loop.next /\ loop'.now = loop.now
        BY <2>4 DEF Goto, LoopTyped, LoopRecord
      <3>. QED
        BY <1>1, <2>1, <2>4, <3>1 DEF RetryInv, TimerInv, DueAt
    <2>. QED
      BY <1>5, <2>2, <2>3, <2>4 DEF Pass
  <1>. QED
    BY <1>3, <1>4, <1>5

LEMMA WorldKeepsSchedule ==
    ASSUME ScheduleInv, \/ \E H \in HostSets, reload \in BOOLEAN : Call(H, reload)
                        \/ \E h \in Hosts : CaFetches(h)
                        \/ Tick \/ Replaced \/ Stop \/ Restart
    PROVE  RetryInv' /\ TimerInv'
  <1> USE DEF ScheduleInv, TypeInv, At
  <1>1. ASSUME NEW H \in HostSets, NEW reload \in BOOLEAN, Call(H, reload)
        PROVE  RetryInv' /\ TimerInv'
    <2>1. UNCHANGED <<now, loop>> /\ wake' = TRUE
      BY <1>1 DEF Call, SetHosts, Wake
    <2>2. ASSUME NEW h \in Hosts, failures'[h] # Nil
          PROVE  /\ failures'[h].failedAt + ReloadRetry <= failures'[h].retryAt
                 /\ failures'[h].retryAt <= failures'[h].failedAt + MaxRetry
      <3>1. failures[h] # Nil /\ failures'[h] \in {failures[h], Reset(failures[h])}
        BY <1>1, <2>2 DEF Call, SetHosts
      <3>2. failures[h] \in Failure
        BY <3>1 DEF FailuresTyped
      <3>3. /\ failures[h].failedAt + ReloadRetry <= failures[h].retryAt
            /\ failures[h].retryAt <= failures[h].failedAt + MaxRetry
        BY <3>1 DEF RetryInv
      <3>4. failures[h].failedAt \in Nat /\ failures[h].retryAt \in Nat
        BY <3>2 DEF Failure
      <3>. QED
        BY <3>1, <3>2, <3>3, <3>4, ResetTyped DEF Earliest
    <2>. QED
      BY <2>1, <2>2 DEF RetryInv, TimerInv
  <1>2. CASE Replaced \/ \E h \in Hosts : CaFetches(h)
    BY <1>2 DEF Replaced, CaFetches, manager, RetryInv, TimerInv, DueAt
  <1>3. CASE Tick
    <2>1. now' = now + 1 /\ now \in Nat /\ loop.now \in Nat
          /\ UNCHANGED <<loop, hosts, certs, failures, wake>>
      BY <1>3 DEF Tick, manager, RestTyped, LoopTyped, LoopRecord
    <2>. QED
      BY <2>1 DEF RetryInv, TimerInv, DueAt
  <1>4. CASE Stop
    <2>1. loop'.at = "stopped" /\ loop'.now = 0 /\ UNCHANGED <<now, failures>>
          /\ now \in 0..MaxTime
      BY <1>4 DEF Stop, Idle, RestTyped
    <2>. QED
      BY <2>1 DEF RetryInv, TimerInv
  <1>5. CASE Restart
    <2>1. loop'.at = "idle" /\ loop'.now = 0 /\ now' = now /\ now \in 0..MaxTime
          /\ failures' = [h \in Hosts |-> Nil]
      BY <1>5 DEF Restart, Idle, RestTyped
    <2>. QED
      BY <2>1 DEF RetryInv, TimerInv
  <1>. QED
    BY <1>1, <1>2, <1>3, <1>4, <1>5

LEMMA InitScheduleInv == Init => ScheduleInv
  <1> SUFFICES ASSUME Init PROVE ScheduleInv
    OBVIOUS
  <1>1. loop.at = "idle" /\ loop.now = 0 /\ now = 0 /\ failures = [h \in Hosts |-> Nil]
    BY DEF Init, Idle
  <1>. QED
    BY <1>1, InitTypeInv DEF ScheduleInv, RetryInv, TimerInv, At

LEMMA NextKeepsScheduleInv == ScheduleInv /\ [Next]_vars => ScheduleInv'
  <1> SUFFICES ASSUME ScheduleInv, [Next]_vars PROVE ScheduleInv'
    OBVIOUS
  <1>1. TypeInv'
    BY NextKeepsTypeInv DEF ScheduleInv
  <1>2. CASE UNCHANGED vars
    BY <1>1, <1>2 DEF vars, manager, ScheduleInv, RetryInv, TimerInv, At, DueAt
  <1>3. CASE Attempt
    BY <1>1, <1>3, AttemptSteps, AttemptKeepsRetryInv, AttemptKeepsTimerInv DEF ScheduleInv
  <1>4. CASE ~Attempt
    BY <1>1, <1>2, <1>4, BetweenHostsKeepsSchedule, WorldKeepsSchedule
       DEF ScheduleInv, Next, Run, Attempt
  <1>. QED
    BY <1>3, <1>4

\* While the loop sleeps its timer covers every managed host, those that a
\* reload changed during the pass included (acme.go:181-210, 232-295).
THEOREM TimerCovers == Spec => []TimerCoversEveryHost
  <1>1. ScheduleInv => TimerCoversEveryHost
    <2> SUFFICES ASSUME ScheduleInv, At("wait"), ~wake, NEW h \in hosts
                 PROVE  /\ loop.next <= DueAt(h)
                        /\ failures[h] # Nil =>
                               failures[h].retryAt <= failures[h].failedAt + MaxRetry
      BY DEF TimerCoversEveryHost
    <2>1. h \in Hosts
      BY DEF ScheduleInv, TypeInv, RestTyped
    <2>. QED
      BY <2>1 DEF ScheduleInv, TimerInv, RetryInv, At
  <1>. QED
    BY <1>1, InitScheduleInv, NextKeepsScheduleInv, PTL DEF Spec

\* Only the step from the pass to an attempt is one of Start.
LEMMA OnlyStartAttempts ==
    ASSUME TypeInv, [Next]_vars, At("pass"), loop'.at = "account"
    PROVE  Pass /\ \E h \in loop.queue : Start(h) /\ loop'.host = h
  <1> USE DEF At
  <1>1. CASE Pass
    <2>1. ASSUME NEW h \in loop.queue, Skip(h) PROVE FALSE
      BY <2>1 DEF Skip, TypeInv, LoopTyped, LoopRecord
    <2>2. ~Goto("wait")
      BY DEF Goto, TypeInv, LoopTyped, LoopRecord
    <2>3. PICK h \in loop.queue : Start(h)
      BY <1>1, <2>1, <2>2 DEF Pass
    <2>4. loop'.host = h
      BY <2>3 DEF Start, TypeInv, LoopTyped, LoopRecord
    <2>. QED
      BY <1>1, <2>3, <2>4
  <1>2. CASE Stop \/ Restart
    BY <1>2 DEF Stop, Restart, Idle
  <1>3. CASE UNCHANGED loop
    BY <1>3
  <1>4. CASE Begin \/ Wait \/ Attempt
    BY <1>4 DEF Begin, Wait, Attempt, EnsureAccount, SaveAccount, CreateOrder, Authorize,
                CompleteChallenge, WaitAuthorization, WriteKey, WriteCertificate
  <1>. QED
    BY <1>1, <1>2, <1>3, <1>4
       DEF Next, Run, Attempt, vars, Call, CaFetches, Tick, Replaced

\* No attempt starts within ReloadRetry of the last failure for the host
\* (acme.go:181-189, 262-274).
THEOREM AttemptsAreSpaced == Spec => AttemptsSpaced
  <1>1. ScheduleInv /\ [Next]_vars =>
            [At("pass") /\ loop'.at = "account" =>
                 LET failure == failures[loop'.host] IN
                 failure # Nil => now >= failure.failedAt + ReloadRetry]_vars
    <2> SUFFICES ASSUME ScheduleInv, [Next]_vars, At("pass"), loop'.at = "account",
                        failures[loop'.host] # Nil
                 PROVE  now >= failures[loop'.host].failedAt + ReloadRetry
      OBVIOUS
    <2>1. PICK h \in loop.queue : Start(h) /\ loop'.host = h
      BY OnlyStartAttempts DEF ScheduleInv
    <2>2. h \in Hosts
      BY DEF ScheduleInv, TypeInv, LoopTyped, LoopRecord
    <2>3. ~(loop.now < failures[h].retryAt)
      BY <2>1 DEF Start, BackingOff
    <2>4. /\ failures[h].failedAt \in Nat /\ failures[h].retryAt \in Nat
          /\ loop.now \in Nat /\ now \in Nat
      BY <2>1, <2>2 DEF ScheduleInv, TypeInv, FailuresTyped, Failure, LoopTyped, LoopRecord,
                        RestTyped
    <2>5. loop.now <= now /\ failures[h].failedAt + ReloadRetry <= failures[h].retryAt
      BY <2>1, <2>2 DEF ScheduleInv, RetryInv
    <2>. QED
      BY <2>1, <2>3, <2>4, <2>5
  <1>. QED
    BY <1>1, InitScheduleInv, NextKeepsScheduleInv, PTL DEF Spec, AttemptsSpaced

=============================================================================
