----------------------- MODULE BackgroundTasksProofs -----------------------
(***************************************************************************)
(* Proofs about BackgroundTasks for any callers, managers and number of    *)
(* goroutines.  TasksInv is inductive: who holds the mutex, what a refresh *)
(* has in its hands, and how the issuer relates to the snapshot.  OwnerInv *)
(* says whom a refresher belongs to: the server, or the Shutdown that      *)
(* waits for it.                                                           *)
(***************************************************************************)
EXTENDS BackgroundTasks, FiniteSetTheorems, TLAPS

\* The parts of TypeOK by name.
CallerStates  == {"idle", "sync", "syncStart", "syncShutdown", "stop", "join"}
IssuerType    == [state : {"running", "cancelled", "done"}, of : Managers \cup {Nil}]
RefresherType == [state : {"select", "lock", "commit", "sync", "done"}, cancelled : BOOLEAN]
USE DEF CallerStates, IssuerType, RefresherType

\* A refresher between locking and unlocking is the holder, and what it is
\* about to store differs from the active snapshot in certificates only.
LockInv ==
    \A r \in Tasks :
        /\ refreshers[r].state \in {"commit", "sync"} => mu = r
        /\ refreshers[r].state = "commit" =>
              /\ copy[r] \in Snapshots
              /\ copy[r].acme = snap.acme
              /\ snap.certs <= copy[r].certs /\ copy[r].certs <= files
              /\ Synced

\* Only the issuer of the Server is alive; it is cancelled only while another
\* one is wanted, and that is so only under the mutex.
IssuerInv ==
    /\ \A i \in Tasks : IssuerAlive(i) => issuer = i
    /\ issuer # Nil => issuers[issuer].of # Nil
    /\ issuer # Nil /\ issuers[issuer].state # "running" => ~Synced
    /\ mu = Nil => Synced

TasksInv == TypeOK /\ snap.certs <= files /\ LockInv /\ IssuerInv

LEMMA InitTasksInv == Init => TasksInv
  <1> SUFFICES ASSUME Init PROVE TasksInv
    OBVIOUS
  <1>1. TypeOK
    <2>1. 0 \in 0..MaxFiles /\ 0 \in 0..MaxFailures
      BY TasksAssumption
    <2>2. snap \in Snapshots
      BY <2>1 DEF Init, Snapshots
    <2>3. /\ issuers \in [Tasks -> IssuerType]
          /\ refreshers \in [Tasks -> RefresherType]
      BY DEF Init
    <2>. QED
      BY <2>1, <2>2, <2>3 DEF Init, TypeOK
  <1>2. LockInv /\ IssuerInv
    BY DEF Init, LockInv, IssuerInv, IssuerAlive, Synced, IssuerOf, Wanted
  <1>. QED
    BY <1>1, <1>2 DEF Init, TasksInv

\* Start, Apply and Shutdown up to their call of syncIssuerLocked: the mutex
\* was free, so no refresh is under way and the issuer is running.
LEMMA CallsKeepTasksInv ==
    ASSUME TasksInv, NEW c \in Callers,
           Start(c) \/ Shutdown(c) \/ \E m \in Managers \cup {Nil} : Apply(c, m)
    PROVE  TasksInv'
  <1> USE DEF TasksInv, Start, Shutdown, Apply
  <1>1. /\ mu = Nil /\ mu' = c /\ c # Nil
        /\ UNCHANGED <<issuer, issuers, refresher, refreshers, taken, copy, disk>>
    BY TasksAssumption
  <1>2. TypeOK' /\ snap'.certs <= files'
    <2>1. snap' \in Snapshots /\ snap'.certs <= files'
      BY DEF TypeOK, Snapshots, disk
    <2>2. pc' \in [Callers -> CallerStates]
          /\ started' \in BOOLEAN
      BY DEF TypeOK
    <2>. QED
      BY <1>1, <2>1, <2>2 DEF TypeOK, disk
  <1>3. \A r \in Tasks : refreshers[r].state \notin {"commit", "sync"}
    BY <1>1, TasksAssumption DEF LockInv
  <1>4. LockInv'
    BY <1>1, <1>3 DEF LockInv
  <1>5. IssuerInv'
    BY <1>1 DEF IssuerInv, IssuerAlive, Synced
  <1>. QED
    BY <1>2, <1>4, <1>5

\* Steps that leave the issuer, the snapshot and `started` alone and do not
\* take the mutex.
LEMMA AsideKeepsIssuerInv ==
    ASSUME IssuerInv, UNCHANGED <<started, snap, issuer, issuers>>,
           mu' = Nil => mu = Nil \/ Synced
    PROVE  IssuerInv' /\ Synced' = Synced
  BY DEF IssuerInv, IssuerAlive, Synced, IssuerOf, Wanted

LEMMA ReturnsKeepTasksInv ==
    ASSUME TasksInv, NEW c \in Callers,
           ApplyReturns(c) \/ StartReturns(c) \/ ShutdownUnlocks(c)
    PROVE  TasksInv'
  <1> USE DEF TasksInv, ApplyReturns, StartReturns, ShutdownUnlocks
  <1>1. /\ mu = c /\ mu' = Nil /\ Synced
        /\ UNCHANGED <<started, snap, issuer, issuers, copy, disk>>
    OBVIOUS
  <1>2. \A r \in Tasks : refreshers[r].state \notin {"commit", "sync"}
    BY <1>1, TasksAssumption DEF LockInv
  <1>3. refreshers' \in [Tasks -> RefresherType]
        /\ \A r \in Tasks : refreshers'[r].state \notin {"commit", "sync"}
    <2>1. CASE StartReturns(c)
      BY <1>2, <2>1 DEF TypeOK
    <2>2. CASE ApplyReturns(c) \/ ShutdownUnlocks(c)
      <3>1. refreshers' = refreshers
        BY <2>2
      <3>. QED
        BY <1>2, <3>1 DEF TypeOK
    <2>. QED
      BY <2>1, <2>2
  <1>4. /\ pc' \in [Callers -> CallerStates]
        /\ taken' \in [Callers -> Tasks \cup {Nil}]
        /\ refresher' \in Tasks \cup {Nil}
    BY DEF TypeOK
  <1>5. TypeOK' /\ snap'.certs <= files'
    BY <1>1, <1>3, <1>4 DEF TypeOK, disk
  <1>6. LockInv'
    BY <1>3 DEF LockInv
  <1>. QED
    BY <1>1, <1>5, <1>6, AsideKeepsIssuerInv

\* Shutdown after it has unlocked, and a refresher away from the mutex.
LEMMA UnlockedKeepTasksInv ==
    ASSUME TasksInv,
           \/ \E c \in Callers : CancelRefresher(c) \/ ShutdownReturns(c)
           \/ \E r \in Tasks : Tick(r) \/ RefresherReturns(r) \/ SkipRefresh(r)
    PROVE  TasksInv'
  <1> USE DEF TasksInv, CancelRefresher, ShutdownReturns, Tick, RefresherReturns, SkipRefresh
  <1>1. UNCHANGED <<mu, started, snap, issuer, issuers, refresher, copy, disk>>
    OBVIOUS
  <1>2. /\ refreshers' \in [Tasks -> RefresherType]
        /\ \A r \in Tasks : \/ refreshers'[r].state = refreshers[r].state
                            \/ refreshers'[r].state \notin {"commit", "sync"}
    <2>1. CASE \E c \in Callers : CancelRefresher(c)
      <3>1. PICK c \in Callers : CancelRefresher(c)
        BY <2>1
      <3>2. CASE taken[c] = Nil
        BY <3>1, <3>2 DEF TypeOK
      <3>3. CASE taken[c] # Nil
        <4>1. /\ taken[c] \in Tasks
              /\ refreshers \in [Tasks -> RefresherType]
              /\ refreshers' = [refreshers EXCEPT ![taken[c]] = [@ EXCEPT !.cancelled = TRUE]]
          BY <3>1, <3>3 DEF TypeOK
        <4>2. \A v \in RefresherType : /\ [v EXCEPT !.cancelled = TRUE] \in RefresherType
                                      /\ [v EXCEPT !.cancelled = TRUE].state = v.state
          OBVIOUS
        <4>. QED
          BY <4>1, <4>2
      <3>. QED
        BY <3>2, <3>3
    <2>2. CASE \E c \in Callers : ShutdownReturns(c)
      BY <2>2 DEF TypeOK
    <2>3. ASSUME NEW r \in Tasks, Tick(r) \/ SkipRefresh(r)
          PROVE  /\ refreshers' \in [Tasks -> RefresherType]
                 /\ \A q \in Tasks : \/ refreshers'[q].state = refreshers[q].state
                                     \/ refreshers'[q].state \notin {"commit", "sync"}
      <3>1. /\ refreshers \in [Tasks -> RefresherType]
            /\ \E to \in {"lock", "select"} :
                  refreshers' = [refreshers EXCEPT ![r] = [@ EXCEPT !.state = to]]
        BY <2>3 DEF TypeOK
      <3>2. \A v \in RefresherType, to \in {"lock", "select"} :
                /\ [v EXCEPT !.state = to] \in RefresherType
                /\ [v EXCEPT !.state = to].state = to
        OBVIOUS
      <3>. QED
        BY <3>1, <3>2
    <2>4. ASSUME NEW r \in Tasks, RefresherReturns(r)
          PROVE  /\ refreshers' \in [Tasks -> RefresherType]
                 /\ \A q \in Tasks : \/ refreshers'[q].state = refreshers[q].state
                                     \/ refreshers'[q].state \notin {"commit", "sync"}
      BY <2>4 DEF TypeOK
    <2>. QED
      BY <2>1, <2>2, <2>3, <2>4
  <1>4. /\ pc' \in [Callers -> CallerStates]
        /\ taken' \in [Callers -> Tasks \cup {Nil}]
    BY DEF TypeOK
  <1>5. TypeOK' /\ snap'.certs <= files'
    BY <1>1, <1>2, <1>4 DEF TypeOK, disk
  <1>6. IssuerInv' /\ Synced' = Synced
    BY <1>1, AsideKeepsIssuerInv
  <1>7. LockInv'
    BY <1>1, <1>2, <1>6 DEF LockInv, disk
  <1>. QED
    BY <1>5, <1>6, <1>7

\* A refresher with the mutex.
LEMMA RefreshKeepsTasksInv ==
    ASSUME TasksInv, NEW r \in Tasks,
           Refresh(r) \/ RefreshFails(r) \/ RefreshCommits(r) \/ RefreshUnlocks(r)
    PROVE  TasksInv'
  <1> USE DEF TasksInv
  <1>0. r # Nil /\ files \in Nat /\ failures \in Nat /\ snap.certs \in Nat
    BY TasksAssumption DEF TypeOK, Snapshots
  <1>1. CASE Refresh(r)
    <2> USE <1>1 DEF Refresh
    <2>1. /\ mu = Nil /\ mu' = r /\ Synced
          /\ UNCHANGED <<started, snap, issuer, issuers, files>>
      BY DEF IssuerInv, disk
    <2>2. copy'[r] \in Snapshots /\ copy'[r].acme = snap.acme /\ copy'[r].certs = files
      BY DEF TypeOK, Snapshots
    <2>3. TypeOK'
      BY <2>1, <2>2 DEF TypeOK, Snapshots, disk
    <2>4. IssuerInv' /\ Synced' = Synced
      BY <1>0, <2>1, AsideKeepsIssuerInv
    <2>5. \A q \in Tasks \ {r} : refreshers'[q].state \notin {"commit", "sync"}
      BY <2>1, TasksAssumption DEF LockInv, TypeOK
    <2>6. LockInv'
      BY <1>0, <2>1, <2>2, <2>4, <2>5 DEF LockInv
    <2>. QED
      BY <2>1, <2>3, <2>4, <2>6
  <1>2. CASE RefreshFails(r)
    <2> USE <1>2 DEF RefreshFails
    <2>1. mu = r /\ mu' = Nil /\ Synced /\ UNCHANGED <<started, snap, issuer, issuers, files>>
      BY DEF LockInv
    <2>2. TypeOK'
      BY <1>0, TasksAssumption DEF TypeOK
    <2>3. IssuerInv' /\ Synced' = Synced
      BY <2>1, AsideKeepsIssuerInv
    <2>4. \A q \in Tasks : refreshers'[q].state \notin {"commit", "sync"}
      BY <2>1 DEF LockInv, TypeOK
    <2>. QED
      BY <2>1, <2>2, <2>3, <2>4 DEF LockInv
  <1>3. CASE RefreshCommits(r)
    <2> USE <1>3 DEF RefreshCommits
    <2>1. /\ mu = r /\ mu' = mu /\ snap' = copy[r] /\ copy[r] \in Snapshots
          /\ snap'.acme = snap.acme /\ snap'.certs <= files
          /\ UNCHANGED <<started, issuer, issuers, files>>
      BY DEF LockInv, disk
    <2>2. TypeOK'
      BY <2>1 DEF TypeOK, disk
    <2>3. IssuerInv'
      BY <1>0, <2>1 DEF IssuerInv, IssuerAlive, Synced, IssuerOf, Wanted
    <2>4. \A q \in Tasks : refreshers'[q].state # "commit" /\
              (refreshers'[q].state = "sync" => q = r)
      BY <2>1 DEF LockInv, TypeOK
    <2>5. LockInv'
      BY <2>1, <2>4 DEF LockInv
    <2>. QED
      BY <2>1, <2>2, <2>3, <2>5
  <1>4. CASE RefreshUnlocks(r)
    <2> USE <1>4 DEF RefreshUnlocks
    <2>1. mu = r /\ mu' = Nil /\ Synced /\ UNCHANGED <<started, snap, issuer, issuers, copy, disk>>
      BY DEF LockInv
    <2>2. TypeOK'
      <3>1. refreshers' \in [Tasks -> [state : {"select", "lock", "commit", "sync", "done"},
                                       cancelled : BOOLEAN]]
        BY DEF TypeOK
      <3>. QED
        BY <2>1, <3>1 DEF TypeOK, disk
    <2>3. IssuerInv' /\ Synced' = Synced
      BY <2>1, AsideKeepsIssuerInv
    <2>4. \A q \in Tasks : refreshers'[q].state \notin {"commit", "sync"}
      BY <2>1 DEF LockInv, TypeOK
    <2>. QED
      BY <2>1, <2>2, <2>3, <2>4 DEF LockInv, disk
  <1>. QED
    BY <1>1, <1>2, <1>3, <1>4

\* syncIssuerLocked stops the issuer before it starts another.
LEMMA SyncKeepsTasksInv ==
    ASSUME TasksInv, Sync
    PROVE  TasksInv'
  <1> USE DEF TasksInv, Sync, TypeOK
  <1>1. /\ mu # Nil /\ mu' = mu
        /\ UNCHANGED <<started, snap, refreshers, copy, files>>
        /\ Wanted' = Wanted
    BY DEF Syncing, disk, Wanted
  <1>2. \A r \in Tasks : refreshers[r].state # "commit"
    BY DEF LockInv, Syncing
  <1>3. LockInv'
    BY <1>1, <1>2 DEF LockInv
  <1>4. /\ issuer' \in Tasks \cup {Nil}
        /\ issuers' \in [Tasks -> IssuerType]
        /\ IssuerInv'
    <2>1. CASE CancelIssuer
      BY <1>1, <2>1 DEF CancelIssuer, IssuerInv, IssuerAlive, Synced, IssuerOf
    <2>2. CASE IssuerStopped
      BY <1>1, <2>2 DEF IssuerStopped, IssuerInv, IssuerAlive, Synced, IssuerOf
    <2>3. CASE StartIssuer
      <3>1. PICK i \in Tasks :
                /\ issuers' = [issuers EXCEPT ![i] = [state |-> "running", of |-> Wanted]]
                /\ issuer' = i
        BY <2>3 DEF StartIssuer
      <3>2. issuer = Nil /\ Wanted # Nil /\ Wanted \in Managers /\ i # Nil
        BY <2>3, TasksAssumption DEF StartIssuer, Wanted, Snapshots
      <3>3. \A j \in Tasks : ~IssuerAlive(j)
        BY <3>2, TasksAssumption DEF IssuerInv
      <3>. QED
        BY <1>1, <3>1, <3>2, <3>3 DEF IssuerInv, IssuerAlive, Synced, IssuerOf
    <2>. QED
      BY <2>1, <2>2, <2>3 DEF SyncStep
  <1>. QED
    BY <1>1, <1>3, <1>4 DEF disk

LEMMA OutsideKeepsTasksInv ==
    ASSUME TasksInv, FilesChange \/ \E i \in Tasks : IssuerReturns(i)
    PROVE  TasksInv'
  <1> USE DEF TasksInv
  <1>1. CASE FilesChange
    <2>1. /\ UNCHANGED <<mu, started, snap, issuer, issuers, refreshers, copy>>
          /\ files' = files + 1 /\ files' \in 0..MaxFiles
      BY <1>1, TasksAssumption DEF FilesChange, TypeOK
    <2>2. TypeOK'
      BY <1>1, <2>1 DEF FilesChange, TypeOK
    <2>3. IssuerInv' /\ Synced' = Synced
      BY <2>1, AsideKeepsIssuerInv
    <2>4. snap'.certs <= files' /\ LockInv'
      BY <2>1, <2>3, TasksAssumption DEF LockInv, TypeOK, Snapshots
    <2>. QED
      BY <2>2, <2>3, <2>4
  <1>2. ASSUME NEW i \in Tasks, IssuerReturns(i) PROVE TasksInv'
    <2> USE <1>2 DEF IssuerReturns
    <2>0. issuers' \in [Tasks -> IssuerType]
      BY DEF TypeOK
    <2>1. TypeOK'
      BY <2>0 DEF TypeOK, disk
    <2>2. Synced' = Synced
      BY DEF TypeOK, Synced, IssuerOf, Wanted
    <2>3. IssuerInv'
      BY <2>2 DEF TypeOK, IssuerInv, IssuerAlive
    <2>4. LockInv'
      BY <2>2 DEF LockInv, disk
    <2>. QED
      BY <2>1, <2>3, <2>4 DEF disk
  <1>. QED
    BY <1>1, <1>2

LEMMA StepKeepsTasksInv ==
    ASSUME TasksInv, [Next]_vars
    PROVE  TasksInv'
  <1>1. CASE Next
    BY <1>1, CallsKeepTasksInv, ReturnsKeepTasksInv, UnlockedKeepTasksInv,
       RefreshKeepsTasksInv, SyncKeepsTasksInv, OutsideKeepsTasksInv
       DEF Next, CallerSteps, LockedRefresh
  <1>2. CASE UNCHANGED vars
    BY <1>2 DEF vars, disk, TasksInv, TypeOK, LockInv, IssuerInv, IssuerAlive, Synced,
                IssuerOf, Wanted
  <1>. QED
    BY <1>1, <1>2

LEMMA TasksInvariant == Spec => []TasksInv
  BY InitTasksInv, StepKeepsTasksInv, PTL DEF Spec

\* Type correctness.
THEOREM TasksTypeCorrect == Spec => []TypeOK
  BY TasksInvariant, PTL DEF TasksInv

\* A replaced ACME goroutine has returned before the next one starts
\* (server.go:276-293).
THEOREM OneIssuerAtATime == Spec => []OneIssuer
  <1>1. TasksInv => OneIssuer
    <2> SUFFICES ASSUME TasksInv PROVE OneIssuer
      OBVIOUS
    <2>1. {i \in Tasks : IssuerAlive(i)} \subseteq {issuer}
      BY DEF TasksInv, IssuerInv
    <2>2. IsFiniteSet({issuer}) /\ Cardinality({issuer}) = 1
      BY FS_Singleton
    <2>3. Cardinality({i \in Tasks : IssuerAlive(i)}) <= Cardinality({issuer})
      BY <2>1, <2>2, FS_Subset
    <2>. QED
      BY <2>2, <2>3 DEF OneIssuer
  <1>. QED
    BY <1>1, TasksInvariant, PTL

\* Whatever Start, Apply, Shutdown and late refreshes did, the issuer found
\* when the mutex is free is the one of the active snapshot, and running.
THEOREM IssuerFollows == Spec => []IssuerFollowsSnapshot
  <1>1. TasksInv => IssuerFollowsSnapshot
    <2> SUFFICES ASSUME TasksInv, mu = Nil PROVE IssuerFollowsSnapshot
      BY DEF IssuerFollowsSnapshot
    <2>1. IssuerOf = Wanted
      BY DEF TasksInv, IssuerInv, Synced
    <2>2. CASE started /\ snap.acme # Nil
      <3>1. issuer \in Tasks /\ issuer # Nil /\ issuers[issuer].of = snap.acme
        BY <2>1, <2>2 DEF IssuerOf, Wanted, TasksInv, TypeOK
      <3>2. issuers[issuer].state = "running"
        BY <2>1, <3>1 DEF TasksInv, IssuerInv, Synced
      <3>3. issuers[issuer] = [state |-> "running", of |-> snap.acme]
        BY <3>1, <3>2 DEF TasksInv, TypeOK
      <3>. QED
        BY <2>2, <3>1, <3>3 DEF IssuerFollowsSnapshot
    <2>3. CASE ~(started /\ snap.acme # Nil)
      <3>1. issuer = Nil
        BY <2>1, <2>3 DEF IssuerOf, Wanted, TasksInv, IssuerInv
      <3>2. \A i \in Tasks : ~IssuerAlive(i)
        BY <3>1, TasksAssumption DEF TasksInv, IssuerInv
      <3>. QED
        BY <2>3, <3>1, <3>2 DEF IssuerFollowsSnapshot
    <2>. QED
      BY <2>2, <2>3
  <1>. QED
    BY <1>1, TasksInvariant, PTL

\* A refresh neither undoes a change of configuration nor brings back older
\* certificates (server.go:295-308).
THEOREM NothingIsLost == Spec => RefreshLosesNothing
  <1>1. ASSUME TasksInv, [Next]_vars
        PROVE  /\ \A r \in Tasks : refreshers[r].state = "commit" => snap'.acme = snap.acme
               /\ snap'.certs >= snap.certs
    <2> USE <1>1 DEF TasksInv
    <2>0. snap.certs \in Nat /\ snap.certs <= snap.certs
      BY TasksAssumption DEF TypeOK, Snapshots
    <2>1. CASE UNCHANGED snap
      BY <2>0, <2>1
    <2>2. ASSUME NEW c \in Callers, NEW m \in Managers \cup {Nil}, Apply(c, m)
          PROVE  snap'.certs >= snap.certs /\ \A r \in Tasks : refreshers[r].state # "commit"
      BY <2>0, <2>2, TasksAssumption DEF Apply, LockInv, TypeOK
    <2>3. ASSUME NEW r \in Tasks, RefreshCommits(r)
          PROVE  snap'.certs >= snap.certs /\ snap'.acme = snap.acme
      BY <2>0, <2>3 DEF RefreshCommits, LockInv, Snapshots
    <2>. QED
      BY <2>1, <2>2, <2>3
         DEF Next, vars, CallerSteps, LockedRefresh, Start, Shutdown, ApplyReturns, StartReturns,
             ShutdownUnlocks, CancelRefresher, ShutdownReturns, IssuerReturns, Tick,
             RefresherReturns, SkipRefresh, Refresh, RefreshFails, RefreshUnlocks, Sync,
             FilesChange
  <1>. QED
    BY <1>1, TasksInvariant, PTL DEF Spec, RefreshLosesNothing

-----------------------------------------------------------------------------
(* Who stops the refreshers.                                               *)

\* Every refresher alive is that of the Server or one that a Shutdown stops;
\* a stopped server has none once the mutex is free, nor has one that starts.
OwnerInv ==
    /\ \A r \in Tasks : RefresherAlive(r) => refresher = r \/ \E c \in Callers : taken[c] = r
    /\ \A c \in Callers : taken[c] # Nil => pc[c] \in {"stop", "join"}
    /\ refresher # Nil => started \/ (mu \in Callers /\ pc[mu] = "syncShutdown")
    /\ mu \in Callers /\ pc[mu] = "syncStart" => started /\ refresher = Nil

\* A goroutine that ends, or goes on, has the owner it had.
LEMMA GoingOnKeepsOwnerInv ==
    ASSUME OwnerInv, UNCHANGED <<pc, started, refresher, taken>>,
           \A r \in Tasks : RefresherAlive(r)' => RefresherAlive(r),
           mu' = mu \/ mu' \notin Callers,
           mu \in Callers /\ pc[mu] = "syncShutdown" => mu' = mu
    PROVE  OwnerInv'
  BY DEF OwnerInv

LEMMA CallerKeepsOwnerInv ==
    ASSUME TasksInv, OwnerInv, NEW c \in Callers,
           \/ Start(c) \/ Shutdown(c) \/ \E m \in Managers \cup {Nil} : Apply(c, m)
           \/ CallerSteps(c)
    PROVE  OwnerInv'
  <1> USE DEF OwnerInv
  <1>0. /\ pc \in [Callers -> CallerStates] /\ taken \in [Callers -> Tasks \cup {Nil}]
        /\ refreshers \in [Tasks -> RefresherType] /\ refresher \in Tasks \cup {Nil}
        /\ Nil \notin Callers /\ Nil \notin Tasks
    BY TasksAssumption DEF TasksInv, TypeOK
  <1>1. CASE Start(c) \/ Shutdown(c) \/ \E m \in Managers \cup {Nil} : Apply(c, m)
    <2>1. /\ mu = Nil /\ mu' = c /\ pc[c] = "idle"
          /\ \E label \in {"sync", "syncStart", "syncShutdown"} :
                 pc' = [pc EXCEPT ![c] = label]
          /\ UNCHANGED <<refresher, refreshers, taken>>
      BY <1>1 DEF Start, Shutdown, Apply
    <2>2. refresher # Nil => started
      BY <1>0, <2>1
    <2>3. CASE Start(c)
      BY <1>0, <2>1, <2>2, <2>3 DEF Start, RefresherAlive
    <2>4. CASE Shutdown(c)
      BY <1>0, <2>1, <2>2, <2>4 DEF Shutdown, RefresherAlive
    <2>5. CASE \E m \in Managers \cup {Nil} : Apply(c, m)
      BY <1>0, <2>1, <2>2, <2>5 DEF Apply, RefresherAlive
    <2>. QED
      BY <1>1, <2>3, <2>4, <2>5
  <1>2. CASE ApplyReturns(c)
    BY <1>0, <1>2 DEF ApplyReturns, RefresherAlive
  <1>3. CASE StartReturns(c)
    <2>1. PICK r \in Tasks :
              /\ refreshers' = [refreshers EXCEPT ![r] = [state |-> "select",
                                                          cancelled |-> FALSE]]
              /\ refresher' = r
      BY <1>3 DEF StartReturns
    <2>2. /\ started /\ refresher = Nil /\ started' = started
          /\ mu' = Nil /\ taken' = taken /\ pc' = [pc EXCEPT ![c] = "idle"]
          /\ pc[c] = "syncStart"
      BY <1>3 DEF StartReturns
    <2>3. \A q \in Tasks : RefresherAlive(q)' => q = r \/ RefresherAlive(q)
      BY <1>0, <2>1 DEF RefresherAlive
    <2>. QED
      BY <1>0, <2>1, <2>2, <2>3
  <1>4. CASE ShutdownUnlocks(c)
    <2>1. /\ pc[c] = "syncShutdown" /\ mu' = Nil /\ refresher' = Nil
          /\ taken' = [taken EXCEPT ![c] = refresher]
          /\ pc' = [pc EXCEPT ![c] = "stop"]
          /\ UNCHANGED refreshers
      BY <1>4 DEF ShutdownUnlocks
    <2>2. taken[c] = Nil
      BY <2>1
    <2>. QED
      BY <1>0, <2>1, <2>2 DEF RefresherAlive
  <1>5. CASE CancelRefresher(c)
    <2>1. /\ pc[c] = "stop" /\ pc' = [pc EXCEPT ![c] = "join"]
          /\ UNCHANGED <<mu, started, refresher, taken>>
      BY <1>5 DEF CancelRefresher
    <2>2. \A r \in Tasks : refreshers'[r].state = refreshers[r].state
      <3>1. taken[c] # Nil => taken[c] \in Tasks
        BY <1>0
      <3>. QED
        BY <1>0, <1>5, <3>1 DEF CancelRefresher
    <2>. QED
      BY <1>0, <2>1, <2>2 DEF RefresherAlive
  <1>6. CASE ShutdownReturns(c)
    <2>1. /\ pc[c] = "join" /\ pc' = [pc EXCEPT ![c] = "idle"]
          /\ taken' = [taken EXCEPT ![c] = Nil]
          /\ taken[c] # Nil => ~RefresherAlive(taken[c])
          /\ UNCHANGED <<mu, started, refresher, refreshers>>
      BY <1>6 DEF ShutdownReturns
    <2>. QED
      BY <1>0, <2>1 DEF RefresherAlive
  <1>. QED
    BY <1>1, <1>2, <1>3, <1>4, <1>5, <1>6 DEF CallerSteps

LEMMA StepKeepsOwnerInv ==
    ASSUME TasksInv, OwnerInv, [Next]_vars
    PROVE  OwnerInv'
  <1>0. refreshers \in [Tasks -> RefresherType] /\ Callers \cap Tasks = {}
    BY TasksAssumption DEF TasksInv, TypeOK
  <1>1. CASE UNCHANGED <<mu, pc, started, refresher, refreshers, taken>>
    BY <1>1, GoingOnKeepsOwnerInv DEF RefresherAlive
  <1>2. ASSUME NEW t \in Tasks,
               \/ Tick(t) \/ RefresherReturns(t) \/ SkipRefresh(t) \/ Refresh(t)
               \/ RefreshFails(t) \/ LockedRefresh(t)
        PROVE  OwnerInv'
    <2>1. UNCHANGED <<pc, started, refresher, taken>>
      BY <1>2 DEF Tick, RefresherReturns, SkipRefresh, Refresh, RefreshFails, LockedRefresh,
         RefreshCommits, RefreshUnlocks
    <2>2. \A r \in Tasks : RefresherAlive(r)' => RefresherAlive(r)
      BY <1>0, <1>2 DEF RefresherAlive, Tick, RefresherReturns, SkipRefresh, Refresh,
         RefreshFails, LockedRefresh, RefreshCommits, RefreshUnlocks
    <2>3. (mu' = mu \/ mu' = Nil \/ mu' = t) /\ (mu \in Callers => mu' = mu)
      BY <1>0, <1>2, TasksAssumption
         DEF Tick, RefresherReturns, SkipRefresh, Refresh, RefreshFails, LockedRefresh,
             RefreshCommits, RefreshUnlocks, TasksInv, LockInv
    <2>. QED
      BY <1>0, <2>1, <2>2, <2>3, GoingOnKeepsOwnerInv, TasksAssumption
  <1>3. ASSUME NEW t \in Tasks, IssuerReturns(t) PROVE OwnerInv'
    BY <1>1, <1>3 DEF IssuerReturns
  <1>4. CASE Sync \/ FilesChange
    BY <1>1, <1>4 DEF Sync, FilesChange
  <1>. QED
    BY <1>1, <1>2, <1>3, <1>4, CallerKeepsOwnerInv DEF Next, vars

\* When Shutdown returns, a server that nobody has started again has neither
\* an issuer nor a refresher left (server.go:389-400).
THEOREM NothingIsLeft == Spec => ShutdownLeavesNothing
  <1>1. Init => OwnerInv
    BY TasksAssumption DEF Init, OwnerInv, RefresherAlive
  <1>2. ASSUME TasksInv, OwnerInv, [Next]_vars
        PROVE  \A c \in Callers :
                 pc[c] = "join" /\ pc'[c] = "idle" /\ ~started /\ mu = Nil
                   /\ (\A d \in Callers : d # c => pc[d] = "idle")
                     => \A t \in Tasks : ~IssuerAlive(t) /\ ~RefresherAlive(t)
    <2> SUFFICES ASSUME NEW c \in Callers, pc[c] = "join", pc'[c] = "idle", ~started,
                        mu = Nil, \A d \in Callers : d # c => pc[d] = "idle",
                        NEW t \in Tasks
                 PROVE  ~IssuerAlive(t) /\ ~RefresherAlive(t)
      OBVIOUS
    <2>1. ShutdownReturns(c)
      <3>1. pc \in [Callers -> CallerStates]
        BY <1>2 DEF TasksInv, TypeOK
      <3>2. \E d \in Callers :
               \/ Start(d) \/ Shutdown(d) \/ \E m \in Managers \cup {Nil} : Apply(d, m)
               \/ CallerSteps(d)
        BY <1>2 DEF Next, vars, IssuerReturns, Tick, RefresherReturns, SkipRefresh, Refresh,
           RefreshFails, LockedRefresh, RefreshCommits, RefreshUnlocks, Sync, FilesChange
      <3>. QED
        BY <3>1, <3>2 DEF Start, Shutdown, Apply, CallerSteps, ApplyReturns, StartReturns,
           ShutdownUnlocks, CancelRefresher, ShutdownReturns
    <2>2. taken[c] # Nil => ~RefresherAlive(taken[c])
      BY <2>1 DEF ShutdownReturns
    <2>3. refresher = Nil /\ \A d \in Callers : d # c => taken[d] = Nil
      BY <1>2, TasksAssumption DEF OwnerInv
    <2>4. ~RefresherAlive(t)
      BY <1>2, <2>2, <2>3, TasksAssumption DEF OwnerInv
    <2>5. issuer = Nil
      BY <1>2 DEF TasksInv, IssuerInv, Synced, IssuerOf, Wanted
    <2>6. ~IssuerAlive(t)
      BY <1>2, <2>5, TasksAssumption DEF TasksInv, IssuerInv
    <2>. QED
      BY <2>4, <2>6
  <1>. QED
    BY <1>1, <1>2, TasksInvariant, StepKeepsOwnerInv, PTL DEF Spec, ShutdownLeavesNothing

=============================================================================
