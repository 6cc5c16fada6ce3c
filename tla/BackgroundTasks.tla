-------------------------- MODULE BackgroundTasks --------------------------
(***************************************************************************)
(* The goroutines a started Server keeps besides its listeners (server.go): *)
(* the issuer, which runs the ACME loop of the active manager, and the     *)
(* refresher, which re-reads listed certificates every hour.  Start, Apply *)
(* and Shutdown start and stop them under Server.mu, the refresher takes   *)
(* the same mutex, and task.stop blocks until the goroutine has returned.  *)
(*                                                                         *)
(* A snapshot is what these goroutines can tell apart of one: the ACME     *)
(* manager it names (a configuration that keeps tls.acme keeps the         *)
(* manager) and how new the certificate files were when it read them.      *)
(* Listeners are in Gateway; here Apply and Start may just fail to bind.   *)
(***************************************************************************)
EXTENDS Naturals, FiniteSets

CONSTANTS
    Managers,    \* ACME managers, one per tls.acme section in use
    Callers,     \* goroutines that call Start, Apply and Shutdown
    Tasks,       \* bound: goroutines of one kind alive at once
    MaxFiles,    \* bound: times the certificate files change
    MaxFailures, \* bound: refreshes that cannot read them
    Nil

ASSUME TasksAssumption ==
    /\ MaxFiles \in Nat /\ MaxFailures \in Nat
    /\ Nil \notin Managers /\ Nil \notin Tasks /\ Nil \notin Callers
    /\ Callers \cap Tasks = {}

VARIABLES
    mu,         \* the caller or refresher holding Server.mu, or Nil
    pc,         \* where each caller is; "sync" is inside syncIssuerLocked
    started,    \* Server.started
    snap,       \* Server.current
    issuer,     \* Server.issuer: a slot of issuers, or Nil
    issuers,    \* the ACME goroutines; .of is issuerOf
    refresher,  \* Server.refresher: a slot of refreshers, or Nil
    refreshers, \* the refresher goroutines
    taken,      \* the refresher each Shutdown call stops
    copy,       \* the snapshot a refresher has prepared under the mutex
    files,      \* version of the certificate files on disk
    failures    \* counts RefreshFails, for MaxFailures

vars == <<mu, pc, started, snap, issuer, issuers, refresher, refreshers, taken,
          copy, files, failures>>
disk == <<files, failures>>

Snapshots == [acme : Managers \cup {Nil}, certs : 0..MaxFiles]

\* Alive: the goroutine has not closed task.done yet.
IssuerAlive(i) == issuers[i].state \in {"running", "cancelled"}
RefresherAlive(r) == refreshers[r].state # "done"

TypeOK ==
    /\ mu \in Callers \cup Tasks \cup {Nil}
    /\ pc \in [Callers -> {"idle", "sync", "syncStart", "syncShutdown", "stop", "join"}]
    /\ started \in BOOLEAN
    /\ snap \in Snapshots
    /\ issuer \in Tasks \cup {Nil}
    /\ issuers \in [Tasks -> [state : {"running", "cancelled", "done"},
                              of : Managers \cup {Nil}]]
    /\ refresher \in Tasks \cup {Nil}
    /\ refreshers \in [Tasks -> [state : {"select", "lock", "commit", "sync", "done"},
                                 cancelled : BOOLEAN]]
    /\ taken \in [Callers -> Tasks \cup {Nil}]
    /\ copy \in [Tasks -> Snapshots \cup {Nil}]
    /\ files \in 0..MaxFiles
    /\ failures \in 0..MaxFailures

Init ==
    /\ mu = Nil
    /\ pc = [c \in Callers |-> "idle"]
    /\ started = FALSE
    /\ snap \in [acme : Managers \cup {Nil}, certs : {0}]
    /\ issuer = Nil
    /\ issuers = [i \in Tasks |-> [state |-> "done", of |-> Nil]]
    /\ refresher = Nil
    /\ refreshers = [r \in Tasks |-> [state |-> "done", cancelled |-> FALSE]]
    /\ taken = [c \in Callers |-> Nil]
    /\ copy = [r \in Tasks |-> Nil]
    /\ files = 0
    /\ failures = 0

-----------------------------------------------------------------------------
(* syncIssuerLocked, run by the holder of the mutex.                       *)

\* Mutants of Wanted: compare snapshots, not managers; ignore that the
\* server is stopped.
WantedSnapshot == IF started THEN snap ELSE Nil
WantedAlways == snap.acme

Wanted == IF started THEN snap.acme ELSE Nil
IssuerOf == IF issuer = Nil THEN Nil ELSE issuers[issuer].of

\* task.stop, first half: cancel the context of a replaced issuer.
CancelIssuer ==
    /\ issuer # Nil /\ IssuerOf # Wanted /\ issuers[issuer].state = "running"
    /\ issuers' = [issuers EXCEPT ![issuer].state = "cancelled"]
    /\ UNCHANGED issuer

\* Mutant of IssuerStopped: cancel, but do not wait for `done`.
IssuerAbandoned ==
    /\ issuer # Nil /\ IssuerOf # Wanted /\ issuers[issuer].state # "running"
    /\ issuer' = Nil
    /\ UNCHANGED issuers

\* task.stop, second half: done is closed and the fields are cleared.
IssuerStopped ==
    /\ issuer # Nil /\ IssuerOf # Wanted /\ issuers[issuer].state = "done"
    /\ issuer' = Nil
    /\ UNCHANGED issuers

StartIssuer ==
    /\ issuer = Nil /\ Wanted # Nil
    /\ \E i \in Tasks :
        /\ issuers[i].state = "done"
        /\ issuers' = [issuers EXCEPT ![i] = [state |-> "running", of |-> Wanted]]
        /\ issuer' = i

Synced == IssuerOf = Wanted

SyncStep == CancelIssuer \/ IssuerStopped \/ StartIssuer

\* The holder of the mutex, a call or a refresher, is in commitLocked, Start
\* or Shutdown and calls syncIssuerLocked.
Syncing == mu # Nil /\ (mu \in Tasks => refreshers[mu].state = "sync")

Sync ==
    /\ Syncing /\ SyncStep
    /\ UNCHANGED <<mu, pc, started, snap, refresher, refreshers, taken, copy, disk>>

-----------------------------------------------------------------------------
(* Start, Apply and Shutdown.                                              *)

\* compile has read the certificate files, and commitLocked stores the
\* snapshot.  Where compile or a listener fails nothing here changes.
Apply(c, m) ==
    /\ mu = Nil /\ pc[c] = "idle"
    /\ mu' = c
    /\ pc' = [pc EXCEPT ![c] = "sync"]
    /\ snap' = [acme |-> m, certs |-> files]
    /\ UNCHANGED <<started, issuer, issuers, refresher, refreshers, taken, copy, disk>>

\* All sockets are bound; ErrAlreadyRunning and a failed bind change nothing.
Start(c) ==
    /\ mu = Nil /\ pc[c] = "idle" /\ ~started
    /\ mu' = c
    /\ pc' = [pc EXCEPT ![c] = "syncStart"]
    /\ started' = TRUE
    /\ UNCHANGED <<snap, issuer, issuers, refresher, refreshers, taken, copy, disk>>

Shutdown(c) ==
    /\ mu = Nil /\ pc[c] = "idle"
    /\ mu' = c
    /\ pc' = [pc EXCEPT ![c] = "syncShutdown"]
    /\ started' = FALSE
    /\ UNCHANGED <<snap, issuer, issuers, refresher, refreshers, taken, copy, disk>>

ApplyReturns(c) ==
    /\ mu = c /\ pc[c] = "sync" /\ Synced
    /\ mu' = Nil
    /\ pc' = [pc EXCEPT ![c] = "idle"]
    /\ UNCHANGED <<started, snap, issuer, issuers, refresher, refreshers, taken, copy, disk>>

StartReturns(c) ==
    /\ mu = c /\ pc[c] = "syncStart" /\ Synced
    /\ \E r \in Tasks :
        /\ ~RefresherAlive(r) /\ \A d \in Callers : taken[d] # r
        /\ refreshers' = [refreshers EXCEPT ![r] = [state |-> "select", cancelled |-> FALSE]]
        /\ refresher' = r
    /\ mu' = Nil
    /\ pc' = [pc EXCEPT ![c] = "idle"]
    /\ UNCHANGED <<started, snap, issuer, issuers, taken, copy, disk>>

\* Mutant of ShutdownUnlocks: the refresher is stopped under the mutex.
ShutdownStaysLocked(c) ==
    /\ mu = c /\ pc[c] = "syncShutdown" /\ Synced
    /\ taken' = [taken EXCEPT ![c] = refresher]
    /\ refresher' = Nil
    /\ pc' = [pc EXCEPT ![c] = "stop"]
    /\ UNCHANGED <<mu, started, snap, issuer, issuers, refreshers, copy, disk>>

\* Server.mu is released before the refresher is stopped.
ShutdownUnlocks(c) ==
    /\ mu = c /\ pc[c] = "syncShutdown" /\ Synced
    /\ taken' = [taken EXCEPT ![c] = refresher]
    /\ refresher' = Nil
    /\ mu' = Nil
    /\ pc' = [pc EXCEPT ![c] = "stop"]
    /\ UNCHANGED <<started, snap, issuer, issuers, refreshers, copy, disk>>

CancelRefresher(c) ==
    /\ pc[c] = "stop"
    /\ refreshers' = IF taken[c] = Nil THEN refreshers
                     ELSE [refreshers EXCEPT ![taken[c]].cancelled = TRUE]
    /\ pc' = [pc EXCEPT ![c] = "join"]
    /\ UNCHANGED <<mu, started, snap, issuer, issuers, refresher, taken, copy, disk>>

\* Mutant of ShutdownReturns: nobody waits for the refresher.
ShutdownDoesNotWait(c) ==
    /\ pc[c] = "join"
    /\ taken' = [taken EXCEPT ![c] = Nil]
    /\ pc' = [pc EXCEPT ![c] = "idle"]
    /\ UNCHANGED <<mu, started, snap, issuer, issuers, refresher, refreshers, copy, disk>>

ShutdownReturns(c) ==
    /\ pc[c] = "join"
    /\ taken[c] # Nil => ~RefresherAlive(taken[c])
    /\ taken' = [taken EXCEPT ![c] = Nil]
    /\ pc' = [pc EXCEPT ![c] = "idle"]
    /\ UNCHANGED <<mu, started, snap, issuer, issuers, refresher, refreshers, copy, disk>>

-----------------------------------------------------------------------------
(* The goroutines.                                                         *)

\* acmeManager.run returns once its context is cancelled.
IssuerReturns(i) ==
    /\ issuers[i].state = "cancelled"
    /\ issuers' = [issuers EXCEPT ![i].state = "done"]
    /\ UNCHANGED <<mu, pc, started, snap, issuer, refresher, refreshers, taken, copy, disk>>

\* refreshCertificates: select may choose the tick over a done context.
Tick(r) ==
    /\ refreshers[r].state = "select"
    /\ refreshers' = [refreshers EXCEPT ![r].state = "lock"]
    /\ UNCHANGED <<mu, pc, started, snap, issuer, issuers, refresher, taken, copy, disk>>

RefresherReturns(r) ==
    /\ refreshers[r].state = "select" /\ refreshers[r].cancelled
    /\ refreshers' = [refreshers EXCEPT ![r] = [state |-> "done", cancelled |-> FALSE]]
    /\ UNCHANGED <<mu, pc, started, snap, issuer, issuers, refresher, taken, copy, disk>>

\* The context was cancelled while it waited for the mutex: unlock at once.
SkipRefresh(r) ==
    /\ refreshers[r].state = "lock" /\ mu = Nil /\ refreshers[r].cancelled
    /\ refreshers' = [refreshers EXCEPT ![r].state = "select"]
    /\ UNCHANGED <<mu, pc, started, snap, issuer, issuers, refresher, taken, copy, disk>>

\* Mutants of Refresh: the files are read without the mutex; not at all.
RefreshUnlocked(r) ==
    /\ refreshers[r].state = "lock" /\ ~refreshers[r].cancelled
    /\ refreshers' = [refreshers EXCEPT ![r].state = "commit"]
    /\ copy' = [copy EXCEPT ![r] = [snap EXCEPT !.certs = files]]
    /\ UNCHANGED <<mu, pc, started, snap, issuer, issuers, refresher, taken, disk>>
RefreshKeepsFiles(r) ==
    /\ refreshers[r].state = "lock" /\ mu = Nil /\ ~refreshers[r].cancelled
    /\ mu' = r
    /\ refreshers' = [refreshers EXCEPT ![r].state = "commit"]
    /\ copy' = [copy EXCEPT ![r] = snap]
    /\ UNCHANGED <<pc, started, snap, issuer, issuers, refresher, taken, disk>>

\* refreshCertificatesLocked copies the active snapshot and reads the files.
Refresh(r) ==
    /\ refreshers[r].state = "lock" /\ mu = Nil /\ ~refreshers[r].cancelled
    /\ mu' = r
    /\ refreshers' = [refreshers EXCEPT ![r].state = "commit"]
    /\ copy' = [copy EXCEPT ![r] = [snap EXCEPT !.certs = files]]
    /\ UNCHANGED <<pc, started, snap, issuer, issuers, refresher, taken, disk>>

\* A certificate cannot be read: the loaded ones are kept.
RefreshFails(r) ==
    /\ refreshers[r].state = "commit" /\ failures < MaxFailures
    /\ mu' = Nil
    /\ refreshers' = [refreshers EXCEPT ![r].state = "select"]
    /\ copy' = [copy EXCEPT ![r] = Nil]
    /\ failures' = failures + 1
    /\ UNCHANGED <<pc, started, snap, issuer, issuers, refresher, taken, files>>

RefreshCommits(r) ==
    /\ refreshers[r].state = "commit"
    /\ snap' = copy[r]
    /\ copy' = [copy EXCEPT ![r] = Nil]
    /\ refreshers' = [refreshers EXCEPT ![r].state = "sync"]
    /\ UNCHANGED <<mu, pc, started, issuer, issuers, refresher, taken, disk>>

RefreshUnlocks(r) ==
    /\ refreshers[r].state = "sync" /\ Synced
    /\ mu' = Nil
    /\ refreshers' = [refreshers EXCEPT ![r].state = "select"]
    /\ UNCHANGED <<pc, started, snap, issuer, issuers, refresher, taken, copy, disk>>

\* Somebody renews a listed certificate on disk.
FilesChange ==
    /\ files < MaxFiles
    /\ files' = files + 1
    /\ UNCHANGED <<mu, pc, started, snap, issuer, issuers, refresher, refreshers,
                   taken, copy, failures>>

-----------------------------------------------------------------------------
CallerSteps(c) ==
    ApplyReturns(c) \/ StartReturns(c) \/ ShutdownUnlocks(c)
        \/ CancelRefresher(c) \/ ShutdownReturns(c)

LockedRefresh(r) == RefreshCommits(r) \/ RefreshUnlocks(r)

Next ==
    \/ \E c \in Callers :
        \/ Start(c) \/ Shutdown(c)
        \/ \E m \in Managers \cup {Nil} : Apply(c, m)
        \/ CallerSteps(c)
    \/ \E t \in Tasks :
        \/ IssuerReturns(t)
        \/ Tick(t) \/ RefresherReturns(t) \/ SkipRefresh(t) \/ Refresh(t)
        \/ RefreshFails(t) \/ LockedRefresh(t)
    \/ Sync
    \/ FilesChange

Spec == Init /\ [][Next]_vars

(***************************************************************************)
(* Goroutines and ticker run on.  A sync.Mutex in starvation mode is       *)
(* handed over in order, so a refresher that waits for it gets it even     *)
(* when callers keep taking it: strong fairness.  The same goes for a      *)
(* select that finds the context done again and again.                     *)
(***************************************************************************)
Fairness ==
    /\ WF_vars(Sync)
    /\ \A c \in Callers : WF_vars(CallerSteps(c))
    /\ \A t \in Tasks :
        /\ WF_vars(IssuerReturns(t))
        /\ WF_vars(Tick(t))
        /\ SF_vars(RefresherReturns(t))
        /\ SF_vars(SkipRefresh(t) \/ Refresh(t))
        /\ WF_vars(LockedRefresh(t))

FairSpec == Spec /\ Fairness

-----------------------------------------------------------------------------
(* Properties.                                                             *)

\* Two ACME goroutines never run at the same time, so no two of them write
\* the same account and certificate files: a replaced issuer has returned
\* before its successor starts, across Apply, restart and refresh.
OneIssuer == Cardinality({i \in Tasks : IssuerAlive(i)}) <= 1

\* Whenever the mutex is free, the issuer is that of the active snapshot of
\* a started server, running and not cancelled, and there is none otherwise:
\* a late refresh after Shutdown must not bring it back.
IssuerFollowsSnapshot ==
    mu = Nil =>
        IF started /\ snap.acme # Nil
        THEN issuer # Nil /\ issuers[issuer] = [state |-> "running", of |-> snap.acme]
        ELSE issuer = Nil /\ \A i \in Tasks : ~IssuerAlive(i)

\* A refresh replaces only certificates: it never brings back an older
\* configuration, and no change ever brings back older certificates.
RefreshLosesNothing ==
    [][/\ \A r \in Tasks : refreshers[r].state = "commit" => snap'.acme = snap.acme
       /\ snap'.certs >= snap.certs]_vars

\* When Shutdown returns, the server has not been started again and no other
\* Shutdown is in progress, no goroutine of the server is left.
ShutdownLeavesNothing ==
    [][\A c \in Callers :
          pc[c] = "join" /\ pc'[c] = "idle" /\ ~started /\ mu = Nil
            /\ (\A d \in Callers : d # c => pc[d] = "idle")
              => \A t \in Tasks : ~IssuerAlive(t) /\ ~RefresherAlive(t)]_vars

\* No call blocks for ever: whoever holds the mutex releases it although it
\* waits for the issuer, and Shutdown returns although the refresher it
\* waits for may be waiting for the mutex.
CallsReturn ==
    /\ mu # Nil ~> mu = Nil
    /\ \A c \in Callers : pc[c] # "idle" ~> pc[c] = "idle"

\* A running server notices renewed certificate files without a reload.
RenewalsAreNoticed ==
    \A v \in 1..MaxFiles :
        started /\ files >= v ~> ~started \/ snap.certs >= v
=============================================================================
