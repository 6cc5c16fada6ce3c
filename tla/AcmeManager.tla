----------------------------- MODULE AcmeManager -----------------------------
(***************************************************************************)
(* The ACME manager of acme.go: the managed hosts with their certificates, *)
(* failures and challenge tokens, the goroutine run that obtains and       *)
(* renews, setHosts as Apply and refresh call it, the files under          *)
(* acme/ in the data directory, and the CA as the client library shows it. *)
(*                                                                         *)
(* A step is what happens between two points where another goroutine, the  *)
(* CA or a crash can intervene.  The time between two steps is arbitrary,  *)
(* so a call of the client library may also fail by its timeout.           *)
(***************************************************************************)
EXTENDS Naturals, FiniteSets

CONSTANTS Hosts,         \* hostnames that may be served over TLS
          HostSets,      \* the sets of them a configuration leaves to the manager
          Nil,           \* no file, no certificate, no failure, no account
          Partial,       \* a file that was cut short
          ReloadRetry,   \* acmeReloadRetry
          MinRetry,      \* acmeMinRetry
          MaxRetry,      \* acmeMaxRetry
          CheckInterval, \* acmeCheckInterval
          Lifetime,      \* from NotBefore to NotAfter of an issued certificate
          MaxTime,       \* bound: the clock stops here
          MaxAccounts,   \* bound: accounts that may be rejected and replaced
          MaxEvents      \* bound: crashes, file writes that fail, calls of
                         \* setHosts after the first and a replacement of the
                         \* manager, taken together

ASSUME ConstantsAssumption ==
    /\ HostSets \subseteq SUBSET Hosts
    /\ {ReloadRetry, MinRetry, MaxRetry, CheckInterval, Lifetime, MaxTime,
        MaxAccounts, MaxEvents} \subseteq Nat
    /\ 0 < ReloadRetry /\ ReloadRetry <= MinRetry /\ MinRetry <= MaxRetry

VARIABLES
    now,       \* the clock
    account,   \* tls.acme: "generated", or "key" or "url" when configured
    hosts,     \* m.hosts
    certs,     \* m.certs
    failures,  \* m.failures
    tokens,    \* m.tokens, as the hosts the tokens are for
    current,   \* whether this is the manager of the snapshot in s.current
    wake,      \* whether the channel m.wake holds a value
    client,    \* m.client.AccountURL
    loop,      \* the goroutine run: where it stands and its local variables
    disk,      \* account file, and key and certificate file of every host
    ca,        \* how many generated accounts it registered, the hosts it was told
               \* to validate and has yet to ask for, and its verdict on the
               \* challenge the loop waits for
    events     \* how many of the bounded events have happened

manager == <<hosts, certs, failures, tokens, wake>>
vars == <<now, account, current, manager, client, loop, disk, ca, events>>

Earliest(a, b) == IF b < a THEN b ELSE a
Latest(a, b) == IF a < b THEN b ELSE a

\* Account 0 is the configured one; the others are registered in order.
Configured == 0
Accounts == 0..(MaxAccounts + MaxEvents + 1)

\* A certificate or a private key, named by when it was made; between two for
\* one host there is a tick or a crash.
Issue == [born : 0..MaxTime, event : 0..MaxEvents]
Pair == [crt : Issue, key : Issue]
Failure == [count : Nat, failedAt : 0..MaxTime, retryAt : Nat]

\* Nil is none of the values whose absence it stands for.
ASSUME NilAssumption == Nil \notin Accounts /\ Nil \notin Pair /\ Nil \notin Failure

RenewAt(pair) == pair.crt.born + (Lifetime * 2) \div 3

TypeOK ==
    /\ now \in 0..MaxTime
    /\ account \in {"generated", "key", "url"}
    /\ hosts \subseteq Hosts
    /\ certs \in [Hosts -> Pair \cup {Nil}]
    /\ failures \in [Hosts -> Failure \cup {Nil}]
    /\ tokens \subseteq Hosts
    /\ wake \in BOOLEAN /\ current \in BOOLEAN
    /\ client \in Accounts \cup {Nil}
    /\ loop.at \in {"idle", "pass", "account", "save", "order", "authorize",
                    "complete", "validating", "key", "crt", "wait", "stopped"}
    /\ loop.queue \subseteq Hosts
    /\ loop.host \in IF loop.at \in {"idle", "pass", "wait", "stopped"} THEN {Nil}
                                                                     ELSE loop.queue
    /\ loop.now \in 0..MaxTime /\ loop.next \in Nat
    /\ loop.again \in BOOLEAN /\ loop.issue \in Issue \cup {Nil}
    /\ disk.account \in Accounts \cup {Nil, Partial}
    /\ disk.key \in [Hosts -> Issue \cup {Nil, Partial}]
    /\ disk.crt \in [Hosts -> Issue \cup {Nil, Partial}]
    /\ ca.accounts \in Accounts
    /\ ca.told \subseteq Hosts
    /\ ca.verdict \in {"none", "valid", "invalid"}
    /\ events \in 0..MaxEvents

-----------------------------------------------------------------------------
(* The loop's position.                                                    *)

Idle == [at |-> "idle", queue |-> {}, host |-> Nil, now |-> 0, next |-> 0,
         again |-> FALSE, issue |-> Nil]

At(label) == loop.at = label

Goto(label) == loop' = [loop EXCEPT !.at = label]

\* Mutant of NextHost: the host stays the current one.
NextHostStale(time) ==
    loop' = [loop EXCEPT !.at = "pass", !.queue = @ \ {loop.host},
                         !.next = Earliest(@, time), !.again = FALSE, !.issue = Nil]

\* continue in maintain: the host is done, the next run no later than time.
NextHost(time) ==
    loop' = [loop EXCEPT !.at = "pass", !.queue = @ \ {loop.host}, !.host = Nil,
                         !.next = Earliest(@, time), !.again = FALSE,
                         !.issue = Nil]

Event == events < MaxEvents /\ events' = events + 1

-----------------------------------------------------------------------------
(* Certificates on disk.  LoadX509KeyPair refuses a pair that does not     *)
(* match, a truncated file, and a missing one.  A chain that is cut after  *)
(* the leaf loads like the whole one: that write counts as complete.       *)

\* Mutant of LoadKeyPair: nobody asks whether the key fits the certificate.
LoadKeyPairUnchecked(host) ==
    LET pair == [crt |-> disk.crt[host], key |-> disk.key[host]] IN
    IF pair.crt \in Issue /\ pair.key \in Issue THEN pair ELSE Nil

LoadKeyPair(host) ==
    LET pair == [crt |-> disk.crt[host], key |-> disk.key[host]] IN
    IF pair.crt \in Issue /\ pair.crt = pair.key THEN pair ELSE Nil

\* What writeFileAtomic leaves where file had old: the data, the old content
\* when a call fails, or a truncated file when only Write fails, since its
\* error is shadowed.  The second component says whether it returns nil.
WriteFileAtomic(old, data) ==
    {[content |-> data, ok |-> TRUE], [content |-> old, ok |-> FALSE],
     [content |-> Partial, ok |-> TRUE]}

-----------------------------------------------------------------------------
(* setHosts.                                                               *)

\* Mutant of Reset: the host may be retried at once.
ResetAtOnce(failure) == [failure EXCEPT !.count = 0, !.retryAt = failure.failedAt]

\* A reload resets the back-off, but keeps ReloadRetry after the failure.
Reset(failure) ==
    [failure EXCEPT !.count = 0,
                    !.retryAt = Earliest(@, failure.failedAt + ReloadRetry)]

\* Mutant of Wake: nothing is sent while the loop is busy.
WakeIfWaiting == wake' = (wake \/ At("wait"))

\* A send on the channel of size one; it is dropped when one is there.
Wake == wake' = TRUE

SetHosts(H, reload) ==
    /\ hosts' = H
    /\ failures' = [h \in Hosts |-> IF reload /\ failures[h] # Nil THEN Reset(failures[h])
                                                                    ELSE failures[h]]
    /\ certs' = [h \in Hosts |-> IF h \in H /\ certs[h] = Nil THEN LoadKeyPair(h)
                                                              ELSE certs[h]]
    /\ Wake

\* Apply and refresh hand the manager the hosts no listed certificate covers.
Call(H, reload) ==
    /\ current /\ ~At("stopped") /\ Event
    /\ SetHosts(H, reload)
    /\ UNCHANGED <<now, account, current, tokens, client, loop, disk, ca>>

-----------------------------------------------------------------------------
(* maintain: the clock is read and the hosts are cloned once.              *)

Begin ==
    /\ At("idle")
    /\ loop' = [loop EXCEPT !.at = "pass", !.queue = hosts, !.now = now,
                            !.next = now + CheckInterval]
    /\ UNCHANGED <<now, account, current, manager, client, disk, ca, events>>

Fresh(host) == certs[host] # Nil /\ loop.now < RenewAt(certs[host])
BackingOff(host) == failures[host] # Nil /\ loop.now < failures[host].retryAt

\* Mutant of Skip: a host that backs off leaves no trace in the next run.
SkipSilently(host) ==
    /\ Fresh(host) \/ BackingOff(host)
    /\ loop' = [loop EXCEPT !.queue = @ \ {host},
                            !.next = IF Fresh(host)
                                     THEN Earliest(@, RenewAt(certs[host]))
                                     ELSE @]
Skip(host) ==
    /\ Fresh(host) \/ BackingOff(host)
    /\ loop' = [loop EXCEPT !.queue = @ \ {host},
                            !.next = Earliest(@, IF Fresh(host) THEN RenewAt(certs[host])
                                                 ELSE failures[host].retryAt)]

Start(host) ==
    /\ ~Fresh(host) /\ ~BackingOff(host)
    /\ loop' = [loop EXCEPT !.at = "account", !.host = host]

Pass ==
    /\ At("pass")
    /\ \/ \E h \in loop.queue : Skip(h) \/ Start(h)
       \/ loop.queue = {} /\ Goto("wait")
    /\ UNCHANGED <<now, account, current, manager, client, disk, ca, events>>

\* The select of run: the wake-up or the timer (Stop is the context).
Wait ==
    /\ At("wait")
    /\ \/ wake /\ wake' = FALSE /\ loop' = Idle
       \/ now >= loop.next /\ loop' = Idle /\ UNCHANGED wake
    /\ UNCHANGED <<now, account, current, hosts, certs, failures, tokens, client,
                   disk, ca, events>>

Backoff(count) == Earliest(MinRetry * 2^Earliest(count - 1, 10), MaxRetry)

\* The attempt ends with an error.
Fail ==
    LET count == IF failures[loop.host] = Nil THEN 1 ELSE failures[loop.host].count + 1
        retryAt == now + Backoff(count)
    IN  /\ failures' = [failures EXCEPT ![loop.host] =
               [count |-> count, failedAt |-> now, retryAt |-> retryAt]]
        /\ NextHost(retryAt)

RequestFails == Fail /\ UNCHANGED events

-----------------------------------------------------------------------------
(* The account.                                                            *)

\* Registering the configured key returns its account; a generated key makes
\* a new one.
ResolveAccount ==
    /\ account = "key"
    /\ client' = Configured /\ UNCHANGED ca

\* Mutant of RegisterAccount: a configured key is overlooked.
RegisterAnyway == ca' = [ca EXCEPT !.accounts = @ + 1] /\ client' = ca'.accounts

RegisterAccount ==
    /\ account = "generated"
    /\ ca' = [ca EXCEPT !.accounts = @ + 1] /\ client' = ca'.accounts

EnsureAccount ==
    /\ At("account")
    /\ \/ client # Nil /\ Goto("order") /\ UNCHANGED <<client, ca, failures, events>>
       \/ /\ client = Nil /\ account = "url"
          /\ client' = Configured /\ Goto("order") /\ UNCHANGED <<ca, failures, events>>
       \/ client = Nil /\ ResolveAccount /\ Goto("order") /\ UNCHANGED <<failures, events>>
       \/ /\ client = Nil /\ account = "generated" /\ disk.account \in Accounts
          /\ client' = disk.account /\ Goto("order") /\ UNCHANGED <<ca, failures, events>>
       \/ /\ client = Nil /\ disk.account = Nil
          /\ RegisterAccount /\ Goto("save") /\ UNCHANGED <<failures, events>>
       \/ /\ client = Nil /\ account = "generated" /\ disk.account = Partial
          /\ Fail /\ UNCHANGED <<client, ca, events>>
       \/ client = Nil /\ account # "url" /\ RequestFails /\ UNCHANGED <<client, ca>>
    /\ UNCHANGED <<now, account, current, hosts, certs, tokens, wake, disk>>

SaveAccount ==
    /\ At("save")
    /\ \E w \in WriteFileAtomic(disk.account, client) :
          /\ disk' = [disk EXCEPT !.account = w.content]
          /\ IF w.content = client THEN UNCHANGED events ELSE Event
          /\ IF w.ok THEN Goto("order") /\ UNCHANGED failures ELSE Fail
    /\ UNCHANGED <<now, account, current, hosts, certs, tokens, wake, client, ca>>

\* The CA has rejected the account.  A generated one is archived, unless the
\* rename fails, and ensureAccount registers another.
ReplaceAccount ==
    /\ UNCHANGED ca
    /\ \/ Fail /\ UNCHANGED <<disk, client>>
       \/ /\ account = "generated"
          /\ disk' = [disk EXCEPT !.account = Nil] /\ client' = Nil
          /\ loop' = [loop EXCEPT !.at = "account", !.again = TRUE]
          /\ UNCHANGED failures

\* The CA answers that the account does not exist, or is not authorized.
AccountGone ==
    /\ loop.again \/ ca.accounts <= MaxAccounts
    /\ UNCHANGED events

CreateOrder ==
    /\ At("order")
    /\ \/ /\ Goto("authorize")
          /\ UNCHANGED <<client, ca, disk, failures, events>>
       \/ AccountGone /\ ~loop.again /\ ReplaceAccount
       \/ AccountGone /\ loop.again /\ Fail /\ UNCHANGED <<client, ca, disk>>
       \/ RequestFails /\ UNCHANGED <<client, ca, disk>>
    /\ UNCHANGED <<now, account, current, hosts, certs, tokens, wake>>

-----------------------------------------------------------------------------
(* The challenge.                                                          *)

\* The order is valid, finalized, and the certificate downloaded.
Download == loop' = [loop EXCEPT !.at = "key", !.issue = [born |-> now, event |-> events]]

\* An authorization may be valid already, from an earlier order.
Authorize ==
    /\ At("authorize")
    /\ \/ Download /\ UNCHANGED <<tokens, failures, events>>
       \/ /\ tokens' = tokens \cup {loop.host} /\ Goto("complete")
          /\ UNCHANGED <<failures, events>>
       \/ RequestFails /\ UNCHANGED tokens
    /\ UNCHANGED <<now, account, current, hosts, certs, wake, client, disk, ca>>

\* Mutant of AfterTelling: the token is deleted as soon as the CA was told.
AfterTellingDropped == tokens \ {loop.host}

\* The deferred delete runs when authorize returns.
AfterTelling == tokens

\* The request may also fail after the CA has taken it; the CA then asks for a
\* token that is gone.
CompleteChallenge ==
    /\ At("complete")
    /\ \/ /\ Goto("validating")
          /\ ca' = [ca EXCEPT !.told = @ \cup {loop.host}]
          /\ tokens' = AfterTelling /\ UNCHANGED <<failures, events>>
       \/ /\ RequestFails /\ tokens' = tokens \ {loop.host}
          /\ ca' \in {ca, [ca EXCEPT !.told = @ \cup {loop.host}]}
    /\ UNCHANGED <<now, account, current, hosts, certs, wake, client, disk>>

\* serveACMEChallenge asks the manager of the current snapshot only.
Answers(host) == current /\ host \in tokens

\* The CA asks for the token over plain HTTP, also when nobody waits for the
\* verdict any more.  The request may be lost, or be for an earlier token.
CaFetches(host) ==
    /\ host \in ca.told
    /\ \E verdict \in IF Answers(host) THEN {"valid", "invalid"} ELSE {"invalid"} :
          ca' = [ca EXCEPT !.told = @ \ {host},
                           !.verdict = IF At("validating") /\ host = loop.host THEN verdict
                                                                               ELSE @]
    /\ UNCHANGED <<now, account, current, manager, client, loop, disk, events>>

\* The verdict, or an error or timeout on the way to it, which leaves what the
\* CA was told as it is.
WaitAuthorization ==
    /\ At("validating")
    /\ tokens' = tokens \ {loop.host} /\ ca' = [ca EXCEPT !.verdict = "none"]
    /\ \/ ca.verdict = "valid" /\ Download /\ UNCHANGED <<failures, events>>
       \/ ca.verdict = "invalid" /\ Fail /\ UNCHANGED events
       \/ RequestFails
    /\ UNCHANGED <<now, account, current, hosts, certs, wake, client, disk>>

-----------------------------------------------------------------------------
(* The certificate, once the order is valid: key file, certificate file,   *)
(* and only then the table that handshakes read.                           *)

WriteKey ==
    /\ At("key")
    /\ \E w \in WriteFileAtomic(disk.key[loop.host], loop.issue) :
          /\ disk' = [disk EXCEPT !.key[loop.host] = w.content]
          /\ IF w.content = loop.issue THEN UNCHANGED events ELSE Event
          /\ IF w.ok THEN Goto("crt") /\ UNCHANGED failures ELSE Fail
    /\ UNCHANGED <<now, account, current, hosts, certs, tokens, wake, client, ca>>

Store ==
    LET pair == [crt |-> loop.issue, key |-> loop.issue] IN
    /\ certs' = [certs EXCEPT ![loop.host] = pair]
    /\ failures' = [failures EXCEPT ![loop.host] = Nil]
    /\ NextHost(RenewAt(pair))

WriteCertificate ==
    /\ At("crt")
    /\ \E w \in WriteFileAtomic(disk.crt[loop.host], loop.issue) :
          /\ disk' = [disk EXCEPT !.crt[loop.host] = w.content]
          /\ IF w.content = loop.issue THEN UNCHANGED events ELSE Event
          /\ IF w.ok THEN Store ELSE Fail /\ UNCHANGED certs
    /\ UNCHANGED <<now, account, current, hosts, tokens, wake, client, ca>>

-----------------------------------------------------------------------------
(* The world: time, the end of the manager, a crash.                       *)

\* Time passes while the loop sleeps and while it waits for the CA.
Tick ==
    /\ loop.at \in {"wait", "order", "validating"}
    /\ now < MaxTime /\ now' = now + 1
    /\ UNCHANGED <<account, current, manager, client, loop, disk, ca, events>>

\* Apply has stored a snapshot with another manager, or with none; Stop follows.
Replaced ==
    /\ current /\ ~At("stopped") /\ Event
    /\ current' = FALSE
    /\ UNCHANGED <<now, account, manager, client, loop, disk, ca>>

\* The context ends: the request in flight fails, nothing is recorded, and the
\* loop breaks off.  File writes are not interrupted.
Stop ==
    /\ loop.at \notin {"save", "key", "crt", "stopped"}
    /\ loop' = [Idle EXCEPT !.at = "stopped"]
    /\ tokens' = tokens \ {loop.host} /\ ca' = [ca EXCEPT !.verdict = "none"]
    /\ UNCHANGED <<now, account, current, hosts, certs, failures, wake, client, disk, events>>

\* The process ends anywhere, and another builds its manager from the same
\* configuration and data directory.
Restart ==
    /\ Event
    /\ certs' = [h \in Hosts |-> IF h \in hosts THEN LoadKeyPair(h) ELSE Nil]
    /\ failures' = [h \in Hosts |-> Nil] /\ tokens' = {} /\ wake' = TRUE
    /\ client' = Nil /\ loop' = Idle /\ current' = TRUE
    /\ ca' = [ca EXCEPT !.verdict = "none"]
    /\ UNCHANGED <<now, account, hosts, disk>>

Init ==
    /\ now = 0 /\ account \in {"generated", "key", "url"}
    /\ hosts \in HostSets /\ certs = [h \in Hosts |-> Nil]
    /\ failures = [h \in Hosts |-> Nil] /\ tokens = {} /\ wake = TRUE
    /\ client = Nil /\ loop = Idle /\ current = TRUE
    /\ disk = [account |-> Nil, key |-> [h \in Hosts |-> Nil], crt |-> [h \in Hosts |-> Nil]]
    /\ ca = [accounts |-> 0, told |-> {}, verdict |-> "none"]
    /\ events = 0

Run == \/ Begin \/ Pass \/ Wait
       \/ EnsureAccount \/ SaveAccount \/ CreateOrder
       \/ Authorize \/ CompleteChallenge \/ WaitAuthorization
       \/ WriteKey \/ WriteCertificate

Next == \/ Run
        \/ \E H \in HostSets, reload \in BOOLEAN : Call(H, reload)
        \/ \E h \in Hosts : CaFetches(h)
        \/ Tick \/ Replaced \/ Stop \/ Restart

\* The goroutine is scheduled, every request it makes ends, by its timeout
\* at the latest, and the CA asks for a token it was told about.
Spec == Init /\ [][Next]_vars
FairSpec == Spec /\ WF_vars(Run) /\ WF_vars(\E h \in Hosts : CaFetches(h))

-----------------------------------------------------------------------------
(* Properties.                                                             *)

\* A certificate in the table, whether issued or loaded after a crash between
\* the two file writes, has the private key it was issued for.
LoadedPairMatches == \A h \in Hosts : certs[h] # Nil => certs[h].key = certs[h].crt

DueAt(host) ==
    Latest(IF certs[host] = Nil THEN 0 ELSE RenewAt(certs[host]),
           IF failures[host] = Nil THEN 0 ELSE failures[host].retryAt)

\* While the loop sleeps without a wake-up pending, its timer fires no later
\* than the next renewal or retry of any managed host, hosts that setHosts
\* changed during the last pass included, and no retry is more than MaxRetry
\* after the failure.
TimerCoversEveryHost ==
    At("wait") /\ ~wake =>
        \A h \in hosts : /\ loop.next <= DueAt(h)
                         /\ failures[h] # Nil =>
                               failures[h].retryAt <= failures[h].failedAt + MaxRetry

\* Why the CA may find no answer although it was told to ask: the attempt for
\* the host has just failed (its retry is recorded), or the manager's life ends
\* by a stop, a crash or a configuration with another manager.
GivesUp(host) ==
    \/ failures'[host] # Nil /\ failures'[host].failedAt = now
    \/ ~current' \/ loop'.at = "stopped" \/ loop' = Idle

\* The CA finds its answer for as long as the loop waits for its verdict and
\* this manager serves the challenges; an answer that the CA has yet to ask for
\* goes away only with one of the reasons above, and no token outlives its
\* attempt, so a later one is never answered with an old token.
TokenAnswered ==
    /\ [](/\ At("validating") /\ current => Answers(loop.host)
          /\ tokens # {} => loop.at \in {"complete", "validating"} /\ tokens = {loop.host})
    /\ [][\A h \in ca.told : Answers(h) => Answers(h)' \/ GivesUp(h)]_vars

\* An account that the configuration names is never replaced: nothing is
\* registered or stored in its stead, whatever the CA answers.
ConfiguredAccountKept ==
    account # "generated" =>
        ca.accounts = 0 /\ disk.account = Nil /\ client \in {Nil, Configured}

\* Without a restart, no attempt starts within ReloadRetry of the last
\* failure for the host, whatever reloads happened since and however old the
\* clock reading of the pass is.
AttemptsSpaced ==
    [][At("pass") /\ loop'.at = "account" =>
          LET failure == failures[loop'.host] IN
          failure # Nil => now >= failure.failedAt + ReloadRetry]_vars

\* A managed host with neither a certificate nor a failure is attempted: no
\* wake-up is lost, though the channel holds one and the loop may be busy
\* with the hosts it cloned earlier.
EveryHostTried ==
    \A h \in Hosts :
        h \in hosts /\ certs[h] = Nil /\ failures[h] = Nil
            ~> certs[h] # Nil \/ failures[h] # Nil \/ h \notin hosts \/ At("stopped")

\* A reader of a file that writeFileAtomic replaces never sees part of it.
NoPartialFile ==
    /\ disk.account # Partial
    /\ \A h \in Hosts : disk.key[h] # Partial /\ disk.crt[h] # Partial

=============================================================================
