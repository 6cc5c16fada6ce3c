# yabber in TLA+

A verification development of yabber, an HTTP gateway in Go. It models the parts of
the program that keep state across goroutines, processes and crashes, checks them
with TLC on small instances, and proves the main invariants for every instance with
TLAPS. Paths are relative to the root of the repository; line numbers refer to the
commit this directory lies beside.

Run from this directory:

    tlc -config Gateway.cfg MCGateway        # any run of the table below
    tlapm GatewayProofs.tla
    tlapm ManagementApiProofs.tla
    # and likewise GatewayRefinement, BackgroundTasksProofs, PidFileProofs,
    # AcmeManagerProofs, ServingProofs and FrontProofs

`PROJECT.json` lists the runs, the source lines behind every definition, the
hazards, the findings and the theorems in machine-readable form.

## 1. Inventory

### Parts and how they interact

    yabber run ── locks ──> DIR/yabber.pid <── probes ── yabber reload ── SIGHUP ─┐
        │                                                                         │
        │  SIGHUP loop: Load(file), then API.Apply  <─────────────────────────────┘
        v
    management API ── API.writes ──> Server.Update ── Server.mu ──> compile, listen, drain
        │                                                │
        └── Save ──> configuration file                  ├── Server.current (atomic snapshot)
                                                         ├── Serve and drain goroutines
    requests ── read Server.current ─────────────────────┤
                                                         ├── issuer: acmeManager.run
                                                         └── refresher: hourly, takes Server.mu

| Part | Source | State it keeps | Operations | What is hard | What makes it correct |
| --- | --- | --- | --- | --- | --- |
| Listener lifecycle | `server.go` | `current`, `started`, `running`, `draining`; per listener `closing`, `failure`, the socket | `New`, `Apply`, `Update`, `Start`, `Shutdown`, `Close`, `Status`, `Healthy` | stop-then-bind with roll-back, goroutines that see a socket close under them, drains that outlive the call, other processes taking an address | the listener table belongs to the active configuration; no leaked socket; kept listeners untouched; the switch is all or nothing; everything replaced is closed |
| Background tasks | `server.go`, `acme.go` (`run`) | `issuer`, `issuerOf`, `refresher` | `syncIssuerLocked`, `refreshCertificates`, `task.stop` | a goroutine joined under a mutex, another that needs the mutex to end, ticks that arrive late | one issuer; it is the active snapshot's; no lost update; no deadlock; nothing left after Shutdown |
| Management API | `api/api.go`, `api/sites.go`, `save.go` | `API.writes`, the file | `change`, `Apply`, `Update`, `Save` | two mutexes, optimistic `If-Match`, failing saves, crashes | acknowledged changes are durable, but for what a reload or a failed save takes away; what is saved is what is applied |
| Run loop | `cmd/yabber/run.go` | the loaded configuration | SIGHUP | reads the file before taking the lock | served and saved configuration agree |
| Pid file | `cmd/yabber/pidfile_unix.go` | the file, its lock, its content | `acquirePidFile`, `release`, `runningPid`, `reload` | every system call interleaves with other processes; unlinked inodes stay locked | one instance per data directory; a reload finds the right process |
| ACME manager | `acme.go` | `certs`, `failures`, `hosts`, `challenges`, account, files | `run`, `issue`, `obtain`, `setHosts`, `ensureAccount`, `replaceAccount` | wake-ups, back-off, host set changed during an order, crash between two renames | a host gets its certificate or an attempt is due; stored pairs match |
| Certificates, host table | `tls.go`, `hosts.go` | store of current and stale certificates, exact/wildcard tables | `loadCertificates`, `certificate`, `match`, `managedHosts` | boundaries of validity, precedence | a current certificate if there is one; ACME manages exactly the uncovered hosts |
| Compilation | `compile.go` | `snapshot` | `compile` | state carried over from the previous snapshot | refused configurations change nothing; shared state survives |
| Request serving | `serve.go`, `middleware.go` | none of its own | `ServeHTTP` | several reads of `current` during one request | one request is answered consistently |
| Policies | `policy.go` | buckets, LRU list, slots | `allow`, slots, IP rules | table full, idle expiry, panics | never more than burst + rate·t per client; slots are returned |
| Proxy, handlers | `proxy.go`, `handlers.go` | shared transports | `ServeHTTP` | little state | - |
| Events, observability | `events.go`, `observability.go` | ring of 256, counters | `add`, `list`, `snapshot` | wrap-around | the last 256 in order |
| Client address | `clientip.go` | none | `resolve` | forged forwarding headers | the first untrusted address from the right |
| Workers | `workers/` | pool of runtimes | `serve` | cancellation against reuse | an interrupted runtime is never reused |
| Update | `cmd/yabber/update.go` | the executable | `replaceExecutable` | failure between two renames | there is always an executable |
| Configuration data | `config.go`, `encoding.go`, `clone.go` | - | defaults, decoding, deep copy | - | - |
| Web panel, CLI, packaging | `web/`, `cmd/yabber/*.go`, `site/`, `contrib/`, `tools/`, `install.sh` | session cookie | - | - | - |

## 2. Modules

| Module | Models | Checked by | Proved in |
| --- | --- | --- | --- |
| `Gateway` | `Server`: Start, Apply with roll-back, Shutdown, sockets, Serve and drain goroutines | `MCGateway` | `GatewayProofs`, `GatewayRefinement` |
| `AtomicSwitch` | what `Server` promises of configuration changes; abstract | refined by `Gateway` | - |
| `BackgroundTasks` | issuer and refresher tasks of the `Server` | `MCBackgroundTasks` | `BackgroundTasksProofs` |
| `ManagementApi` | API requests, Save, the file, the SIGHUP loop, crashes | `MCManagementApi` | `ManagementApiProofs` |
| `PidFile` | `yabber run` and `yabber reload` at the level of system calls | `MCPidFile` | `PidFileProofs` |
| `AcmeManager` | the ACME manager, its files, the CA, crashes | `MCAcmeManager` | `AcmeManagerProofs` |
| `RateLimiter` | the limiter's table and buckets, as functions | through `Serving` | `ServingProofs` |
| `RequestServing` | requests under policies, Apply, the counters | through `Serving` | `ServingProofs` |
| `WorkerPool` | pooled JavaScript runtimes and their interrupts | through `Serving` | `ServingProofs` |
| `Serving` | `RequestServing` and `WorkerPool` composed | `MCServing` | `ServingProofs` |
| `HostTable` | exact names, wildcards, catch-all, as functions | through `Front` | `FrontProofs` |
| `Certificates` | listed certificates through Apply, refresh and expiry | through `Front` | `FrontProofs` |
| `EventLog` | the ring of events, as functions | through `Front` | `FrontProofs` |
| `BoundedLog` | what `Server.Events` promises; abstract | refined by `Front` | `FrontProofs` |
| `ClientAddress` | `X-Forwarded-For`, as functions | through `Front` | `FrontProofs` |
| `Front` | `Certificates` and `ClientAddress` composed | `MCFront` | `FrontProofs` |

The definitions named as mutants in a comment ("Mutant of ...") are no part of a
specification: each is a plausible bug, used in place of the definition it names to
show that a property of a run notices it.

### Gateway

`Server.mu` serialises Start, Apply, Update and the first part of Shutdown. A call
under the mutex takes many steps, and `mu` names the loop of the code the holder
is in:

| `mu` | code |
| --- | --- |
| `"stop"` | the loop over `stale` calling `stopAccepting` (`server.go:232`) |
| `"bind"` | the loop over `bound()` calling `listen` (`:236`, and `:368` in Start) |
| `"undo"` | closing what this call has bound after a failure (`:242`, `:371`) |
| `"rebind"` | `rebindLocked` (`:332`) |

Between two of its steps everything else moves: Serve goroutines enter and leave
their accept loop, requests begin and end, drains run, other processes take and
release addresses. `stopAccepting` is two steps because the Serve goroutine can
observe the closed socket only after `closing` was set. The `http.Server` is
external; of it we use that `Shutdown` closes the sockets Serve has registered, that
a Serve which starts later finds it shut down and closes its own, that `Shutdown`
waits for busy connections and `Close` cuts them.

`sock` is a function from slots to runningListeners. A slot is given back when
nothing refers to it and its goroutines have ended (`Retire`); the number of slots
bounds how many listeners exist at once, nothing else.

The interleaving of a `range` over a Go map is any order: each loop picks any
name of `todo`.

Left out: what a listener serves, and the ACME and refresher tasks, which are the
next module. A configuration that does not compile returns before the first step
and is the stuttering step.

### BackgroundTasks

The same calls, seen from the two long-lived goroutines. `mu` is the goroutine
holding the mutex, `pc` where a caller is; `"sync"`, `"syncStart"` and
`"syncShutdown"` are inside `syncIssuerLocked`, which cancels the issuer
(`CancelIssuer`), waits for it (`IssuerStopped`) and starts the next
(`StartIssuer`). A refresher is in its `select`, waiting for the mutex (`"lock"`),
between reading the files and storing (`"commit"`), or in `syncIssuerLocked`. The
`select` may prefer a tick over a cancelled context, as Go's does.

A snapshot is reduced to the ACME manager it names and the version of the
certificate files it was compiled from. That a configuration keeping its `tls.acme`
section keeps its manager is compile's business and an input here: Apply may name
the same manager or another. A listener that fails to bind leaves this state alone.

### ManagementApi

`change` (`api.go:200`) holds `API.writes` over `Server.Update` and `Save`, so a
request is Lock, Update or Reject, Save or SaveFails, Respond, and for `PUT /config`
a last read of the configuration for the body. `Server.Update` runs under
`Server.mu` and either switches or fails (module Gateway), so it is one step here.
A configuration is a function from site IDs to contents; an ETag is the
configuration it hashes. `Save` writes a complete temporary file and renames it, so
it is one step that happens or not; a crash can fall on either side of it. An
interrupted write of the `.bak` copy is not modelled: nothing reads it back.

`API.Update` (`api.go:113`), for programs that embed the gateway, takes the same lock
and does the same as a change without `If-Match`, so the same actions stand for it.

The run loop's reload is two steps: `ReloadLoads` outside the lock, `ReloadApplies`
through `API.Apply`.

`ack`, `doubtful` and `edited` are history variables: what clients have been told,
which sites are excused, and which a person edited in the file. A site is excused from
an applied change that was not acknowledged, and when a reload takes it from an edited
file or from a file that a client has saved over meanwhile (`Overwritten`): that is the
race of `api_reload_loses`, and the next Save of another site writes its loss into the
file. Everything else a reload reads is in the file as the clients left it.

### PidFile

Names, inodes and open files are separate, because `flock` locks the inode and
`release` unlinks the name. Every system call is a step of its own, crashes fall
anywhere, and a reload may read a pid and signal it any time later. `kill` with
SIGHUP terminates a process that has not reached `signal.Notify` (`run.go:92`).
The probe's shared lock (`pidfile_unix.go:57`) is modelled too: it makes a start that
arrives during it fail. A process that has locked the file is in `"locked"` until it
truncates it: there the file may still name one that crashed.

### AcmeManager

The goroutine `run` goes through `maintain` host by host; `loop` is its position and
its local variables (the hosts it cloned, the clock it read once, `next`). Every
request to the CA, every file write and every section under `m.mu` is a step, so
`setHosts`, the CA's fetch of a token, the clock and a crash fall between any two.
A host set is an input: `Certificates` says which hosts `managedHosts` yields.
`WriteFileAtomic` yields what the code does in the three cases that differ: all
went well, a call failed and the old file stays, or only `Write` failed, whose error
is shadowed (`acme.go:541`). A crash (`Restart`) builds a new manager from what is on
disk. A configuration with another manager, or with none, stores its snapshot first and
stops the old loop afterwards (`Replaced`, `Stop`): between the two the old loop goes on
and `serveACMEChallenge` no longer asks it (`current`). The CA is external: it may reject
accounts (`AccountGone`) and fail any request. `ca.told` are the hosts it was told to
validate and has yet to ask for; it may have been told by a request whose answer was lost,
and it may ask after the client has given up and deleted the token.

The order of hosts in a pass is left open: the code goes through a sorted slice.

### Serving

A request loads the snapshot once, walks the policies of listener, site and route
from outside to inside, runs the handler and unwinds. `todo` is the rest of the chain
that the closures form in the code; `held` the slots its deferred functions will
give back. `Apply` is compile and commit in one step, since listeners do not matter
here: it keeps a policy whose definition is unchanged, and requests of the old
snapshot run on with the old ones. The limiter reads the clock before it takes its
lock (`ReadClock`, `Allow`). `golang.org/x/time/rate` is external and modelled as its
source computes it, with a clock that may go back. `ledger` is a history variable: what
was granted, how often the table gave a client up too early (evicted it, or dropped it as
idle, before its bucket was full again), and by how much readings came out of order.

A worker's job reads the body, takes a runtime, arms the hook that interrupts it when
the context ends, calls the script and stops the hook. The hook runs on its own
goroutine: `started` are the hooks that have begun and not interrupted yet.
`sync.Pool` may return nothing although something was put. Making a runtime runs the
script's top level (`workers/runtime.go:78-108`) before the hook is armed (`:128`): a top
level that never returns is not stopped by the request's context. The model has this only
as a job that may stay in `"body"` for ever (`MayStay`), and `RequestsEnd` leaves such a
job out.

Left out: a limiter with one global bucket, which is the case of one client; how an
address becomes a key; status codes and messages.

### Front

`Certificates` loads the listed files into two host tables, current and stale, decides
which hosts ACME gets, and builds the dispatch tables of one plain and one TLS
listener. Apply compiles first and may refuse; the refresher reassigns without
asking. ACME only delivers a certificate to a host it manages; `stored` are the hosts with
a certificate on disk, `issued` those the snapshot's manager has loaded: a manager is
kept from one snapshot to the next, and a new one loads only what it is to manage
(`HandOver`). A name is the sequence of its labels, normalised; a certificate is the file
it came from and its validity. A renewed certificate may have other names (`Renew`), and
one that comes from a `CertificateSource` may be gone at the next load (`LeaveOut`; it then
has no names, since nothing else loads without a name). All configurations list the same
files and, where they have one, the same `tls.acme` section, so that a manager is replaced
only by way of a configuration without ACME.

Clients send no server name for an IP address, so `ServerNames` has none: such a client
is presented a catch-all certificate or nothing, and a plain request for an address that is
redirected to TLS is outside `RedirectLands`.

`ClientAddress` is a pure function of a request. Composition is by `Ask`, one request
in the first state, which keeps its inputs from multiplying the states of the rest.

`RingIsLog` is a refinement: the ring of `EventLog`, listed oldest first, behaves as
`BoundedLog`, a list cut to its last `MaxEvents` entries after every step.

## 3. Runs

| Run | Question | Result | States |
| --- | --- | --- | --- |
| `gateway` | Is the listener table right through every Start, Apply and roll-back? | holds | 1.8 M |
| `gateway_liveness` | Do drains, calls and Shutdown end with a request that does not? | holds | 61 k |
| `gateway_shutdown_closes` | Is everything closed when Shutdown's context expires? | violated | - |
| `tasks` | Issuer and refresher against two concurrent callers | holds | 136 k |
| `api` | Are acknowledged changes durable? | holds | 2.3 M |
| `api_reload_loses` | Does the saved file match the applied configuration? | violated | - |
| `pid` | One lock holder, and does its file name no other instance that lives? | holds | 55 k |
| `pid_two` | One instance, also across a stop? | violated | - |
| `acme` | Pairs, timer, tokens, accounts and spacing through failures, reloads, a late CA, another manager and crashes; is every host tried? | holds | 1.5 M |
| `acme_partial_file` | Does a reader ever see part of a file? | violated | - |
| `serving` | Do limits and pooled runtimes survive Apply, panics, time-outs and a full table of clients? | holds | 814 k |
| `front` | Right certificate, redirects that land, expiry against reloads, client address, event log | holds | 1.2 M |

### What the properties say

Gateway: `RunningMatchesConfig` - with the mutex free, the table holds only listeners of the
active configuration, with their spec, not stopped. `NoOrphanedSocket` - an open socket has
an owner that will close it. `OnlyFaultsAreFailures` - a listener the server closes itself
never reports a failure. `HealthyMeansBound` - Healthy is never optimistic.
`KeptListenersUntouched` - an unchanged listener survives every step of an Apply until a
bind fails; in the roll-back, which clears `next`, the same listeners are the subject of
`RunningMatchesConfig` and `LostOnlyToOtherProcesses`. `SwitchIsAtomic` - a refinement: seen
through the snapshot and `Server.running`, every step is one of `AtomicSwitch` or changes
nothing. There a configuration and all of its listeners change at once, and a failed change
can only lose listeners. `LostOnlyToOtherProcesses` - the roll-back loses a listener only
when another process has its address. `ReplacedListenersFinish`, `CallsReturn` - liveness.

BackgroundTasks: `OneIssuer`, `IssuerFollowsSnapshot`, `RefreshLosesNothing`,
`ShutdownLeavesNothing`, `CallsReturn`, `RenewalsAreNoticed`.

ManagementApi: `AcknowledgedIsDurable`, `SaveWritesApplied`; violated:
`FileMatchesApplied`.

PidFile: `OneInstanceUntilUnlinked`; `RunningIsNamed` - the file an instance has locked
never names another that lives, and from the truncation on no other at all. In the two
system calls between the lock and the truncation it may name one that has stopped or
crashed, and a reload that comes then signals that pid (section 5). Violated:
`OneInstance`.

AcmeManager: `LoadedPairMatches` - a certificate in use has its own key, whatever a crash
left on disk. `TimerCoversEveryHost` - when the loop sleeps, its timer is no later than the
next renewal or retry of any host, and no retry is further off than the cap. `TokenAnswered`
- the CA finds its answer while the loop waits for the verdict and the manager is the
snapshot's; an answer it has yet to ask for, also after the client gave up, goes only with
the failure of the attempt, a stop, a crash or another manager; and no token outlives its
attempt. `ConfiguredAccountKept`, `AttemptsSpaced` - reloads never bring two attempts closer
than `acmeReloadRetry`; the failures are those the manager remembers, and a new one (another
`tls.acme` section, a restart) starts without any. `EveryHostTried` - liveness: no wake-up
is lost. Violated: `NoPartialFile`.

Serving: `RateHolds` - a client gets burst + rate * time, plus a burst for each time the
table gave it up too early and the rate for the spans that clock readings went back.
`SlotsHold` - used slots are those of requests, and never more than the maximum across
Applies. `PoolClean` - a pooled
runtime has no interrupt, no hook on its way and no script. `RequestsEnd` - liveness: a
script that never returns is stopped when its time is over.

Front: `HandshakeChoice` - the current certificate that is the closest match and expires
last, else ACME's, which a managed host with a certificate on disk must get, else a stale
one, stated over the files and not over the tables. "The closest", whether a site serves the
name or not, is what the code does and not what the README says (section 5). `RedirectLands`
- a name redirected to TLS finds a site and a certificate there, or ACME at work, unless
only the catch-all fits it (`OnlyCatchAll`, by pattern), or its certificate was renewed
without the name or left out and ACME may not take the name over (`Dropped`,
`AcmeTakesOver`): there a refresh leaves it with nothing. `StaleNeverBlocks` - a
configuration that was accepted is accepted again while its certificates have the same
names, whatever has expired, unless it has ACME and no plain listener. `ClientKept` - hops
in front change nothing, and the next gateway takes the request to come from the same
client, unless that is this gateway. `RingIsLog` - the refinement above.

### Bounds

- Two names and two addresses are the least that let a listener take the address of
  another, be replaced at its own address and be kept beside one that changes. The
  four configurations of `gateway` (`ApplyConfigs`) are those cases. Three slots:
  two listeners and one that drains or replaces; a call that needs a fourth waits for
  a drain to finish. One Accept failure and one foreign address at a time. Requests
  are left to the liveness run (`MaxBusy`), since no invariant of `gateway` speaks of
  them; Shutdown is left to the two other runs.
- `gateway_liveness` uses one name, replaced at the same address or turned off, one
  caller of Shutdown and one request that may last for ever. Without symmetry.
- `tasks`: two callers, two managers and two slots per kind of task, which is one
  more than are ever alive when the code is right: a second issuer has room to
  appear. One renewal of the files, one failing refresh.
- `api`: two clients, two sites, one content (a site is there or not). A failed Save,
  a crash, an edit and a reload, at most two of them in one behaviour
  (`AtMostTwoTroubles`, a state constraint: no liveness is checked in this run).
- `pid`: three instances are the fewest that show a problem across an unlink
  (one that stops, one that has the old file open, one that creates the new one);
  two reloads, three inodes, two crashes, one unwritten pid. Every process runs once
  and ends, so the run switches deadlock checking off.

- `acme`: two hosts, one of which may be added or dropped; times are small
  numbers in the order of the real ones (reload retry 1, first retry 2, cap 3, renewal at 2
  of 3). Two events in a behaviour out of crashes, failed or short writes, calls of
  `setHosts` and a replacement of the manager: the shortest histories of the hazards need
  two (a failed write and a restart, a failure and a reload). The clock advances once, to the
  time at which a certificate is due for renewal (two thirds of its lifetime of 2, rounded
  down) and a retry that a reload brought forward is due; the doubling of the
  back-off and its cap would need a longer one, and are left to the theorem `TimerCovers`.
  Without symmetry.
- `serving`: two goroutines, four arrivals, two clients in a table of one, so that each
  evicts the other; one Apply between a configuration that lists one policy, with a rate, a
  timeout and a single slot, twice, and one that keeps it unlisted and has a script behind
  another policy. Two runtimes: one reused and one made. A burst of 2 at rate 1 and an idle
  timeout of 1: an entry can be dropped as idle before its bucket is full. Four arrivals are
  more than a client may have by then, so that the run reaches the bound of `RateHolds` and
  needs its correction for entries given up too early: without either kind of them in
  `lost`, evicted or dropped as idle, it fails. The correction for readings that went back
  (`skew`) needs more requests than that, and is left to the theorem `RatesHold`.
- `front`: two files that share a wildcard with the validity of
  each open, the second from the source; three sets of names for a renewed one, of which one
  lacks the wildcard. Four configurations: both listeners, with a host that only ACME can
  serve, one that shares a site with the catch-all and one that moves between a listed
  certificate and ACME; TLS only; listed certificates only; a conflict. Two changes. The
  clock passes validity and grace at both ends. A ring of 3 wraps. Headers have up to three
  hops out of two trusted addresses, an untrusted one, a malformed hop and the gateway's own
  address.

Symmetry is used for slots, clients of the API, sites, contents and processes, in runs
without liveness properties only.

### Fairness

- Gateway: weak fairness of the steps of the call that holds the mutex, of every
  goroutine and of Shutdown's context. Go schedules runnable goroutines; drain's
  context has a timeout, which `withDefaults` makes positive; `Close` and the run
  loop always pass a context with one. Nothing is assumed of clients (a request may
  never end), of callers, or of other processes.
- BackgroundTasks: weak fairness of the callers' and goroutines' steps and of the
  ticker. A refresher waiting for the mutex gets it even when callers keep taking it
  (strong fairness): `sync.Mutex` in starvation mode hands itself to the first waiter
  after a millisecond. The `select` that finds the context done again and again
  takes that branch in the end, because it chooses at random. The issuer returns
  when cancelled: `acmeManager.run` selects on its context and passes it to every
  network call.
- AcmeManager: weak fairness of the loop, whose requests all end (`http.Client` has a
  timeout), and of the CA asking for some token it was told about. Nothing is assumed of
  reloads.
- Serving: weak fairness of what happens by itself; not of a script that was not
  interrupted, nor of a client that has not sent its body. Arrivals are bounded, so
  fairness to all goroutines taken together is enough.
- ManagementApi, PidFile and Front claim no liveness.

## 4. Proofs

TLAPS checks these for all values of the constants that satisfy the named
assumptions (`ConfigsAssumption`, `AddressesAssumption`, `BoundsAssumption`,
`NilAssumption` in Gateway; `TasksAssumption`; `PidFileAssumption`; `ApiAssumption`;
`ConstantsAssumption` and `NilAssumption` in AcmeManager; `WorkerAssumption`,
`LimiterAssumption`, `ConfigsAssumption`, `RequestsAssumption`, `BoundsAssumption` and
`SameGoroutines` for Serving; `LabelAssumption`, `ConfigsAssumption`, `FilesAssumption`,
`ClockAssumption`, `EventLogAssumption`, `NamesAssumption`, `HopsAssumption` and
`AddressAssumption` for Front). TLC evaluates the assumptions in the runs.

Those of Front say only what the constants are: sites and names of files are finite and
made of names that are not empty (`validateHostPattern`, `hosts.go:92`), certificates are
a list, periods are not negative, a hop is an address or malformed, and this server is
not among its peers. `LabelAssumption` says that a star is a string.

| Theorem | States |
| --- | --- |
| `GatewayProofs!TypeCorrect` | `Spec => []TypeOK` |
| `GatewayProofs!RunningMatches` | `Spec => []RunningMatchesConfig` |
| `GatewayProofs!NoOrphans` | `Spec => []NoOrphanedSocket` |
| `ManagementApiProofs!ApiTypeCorrect` | `Spec => []TypeOK` |
| `ManagementApiProofs!SavesTheApplied` | `Spec => SaveWritesApplied` |
| `ManagementApiProofs!Durability` | `Spec => []AcknowledgedIsDurable` |
| `ManagementApiProofs!SavedFileMatches` | with no reload and no edit, `FileMatchesApplied` holds |
| `GatewayRefinement!Refines` | `Spec => SwitchIsAtomic` (refinement of `AtomicSwitch`) |
| `GatewayRefinement!KeptStay` | `Spec => KeptListenersUntouched` |
| `GatewayRefinement!HealthIsReal` | `Spec => []HealthyMeansBound` |
| `GatewayRefinement!FailuresAreFaults` | `Spec => []OnlyFaultsAreFailures` |
| `GatewayRefinement!LostToOtherProcesses` | `Spec => LostOnlyToOtherProcesses` |
| `BackgroundTasksProofs!TasksTypeCorrect` | `Spec => []TypeOK` |
| `BackgroundTasksProofs!OneIssuerAtATime` | `Spec => []OneIssuer` |
| `BackgroundTasksProofs!IssuerFollows` | `Spec => []IssuerFollowsSnapshot` |
| `BackgroundTasksProofs!NothingIsLost` | `Spec => RefreshLosesNothing` |
| `BackgroundTasksProofs!NothingIsLeft` | `Spec => ShutdownLeavesNothing` |
| `PidFileProofs!PidTypeCorrect` | `Spec => []TypeOK` |
| `PidFileProofs!OneUntilUnlinked` | `Spec => []OneInstanceUntilUnlinked` |
| `PidFileProofs!NamesItself` | `Spec => []RunningIsNamed` |
| `AcmeManagerProofs!PairsMatch` | `Spec => []LoadedPairMatches` |
| `AcmeManagerProofs!ConfiguredStays` | `Spec => []ConfiguredAccountKept` |
| `AcmeManagerProofs!TokensAnswered` | `Spec => TokenAnswered` |
| `AcmeManagerProofs!AcmeTypeCorrect` | `Spec => []TypeOK` |
| `AcmeManagerProofs!TimerCovers` | `Spec => []TimerCoversEveryHost` |
| `AcmeManagerProofs!AttemptsAreSpaced` | `Spec => AttemptsSpaced` |
| `ServingProofs!PoolStaysClean` | `Spec => []PoolClean` |
| `ServingProofs!RequestsAccounted` | `Spec => []Accounted` |
| `ServingProofs!RatesHold` | `Spec => []RateHolds` |
| `ServingProofs!SlotsAreHeld` | `Spec => []SlotsHold` |
| `ServingProofs!ServingTypeCorrect` | `Spec => []TypeOK` |
| `FrontProofs!FrontInvariant` | `Spec => []FrontInv` |
| `FrontProofs!ChoiceIsBest` | `Spec => []HandshakeChoice` |
| `FrontProofs!RedirectsLand` | `Spec => []RedirectLands` |
| `FrontProofs!StaleAccepted` | `Spec => []StaleNeverBlocks` |
| `FrontProofs!ClientIsKept` | `Spec => []ClientKept` |
| `FrontProofs!RingRefines` | `Spec => RingIsLog` (refinement of `BoundedLog`) |

**Gateway.** `RunningMatchesConfig` speaks of the moments when the mutex is free; what
is true in between has to be said first. `IInv` adds `PhaseInv` (what each phase
knows of `next`, `stale`, `todo` and `fresh`: in `"bind"`, say, exactly the
missing listeners already visited are fresh), `RunningInv` (only a listener the call
is replacing may have been told to stop; in `"rebind"` only one not yet
visited), `FreshInv` (a listener just bound has the spec of the new configuration),
`SlotsDistinct` (no two names share a slot, so a step on one listener leaves the
others alone) and `SlotsOwned` (a live listener belongs to a map). The proof
has one lemma per action, or per pair that is alike; the steps of the goroutines all
change one slot in a way that `OneSlot` describes, and one lemma covers them.
`GatewayRefinement` adds the rest: with `IInv` each step either leaves the table of
specs as it is or is a `Start`, `Switch`, `Lose` or `Stop` of `AtomicSwitch`; a kept
listener is not in `stale`, which is what the steps touch; `ServeInv` says that a
listener without a recorded failure is open or about to record one.

`OnlyFaultsAreFailures` counts failures, and a count does not see a listener whose
goroutine is about to record one. `FailureInv` counts these as well, and says that a
goroutine which has not reached its accept loop finds its socket open unless the
listener is closing: every step but `AcceptError` then takes no listener into the
count. `LostOnlyToOtherProcesses` needs to know whose an address is: `AddressInv` says
that an open socket at the address of a running listener is that listener or one the
call has just bound, and that in a roll-back the listeners still to be bound again are
closed. When `rebindLocked` begins, the call's own are closed too, so an address that
is taken is taken by another process.

**BackgroundTasks.** `TasksInv`: a refresher between locking and unlocking is the holder,
and what it is about to store differs from the snapshot in certificates only; the
only goroutine alive is the one in `Server.issuer`, and it is cancelled only while the
holder wants another. `CancelIssuer`, `IssuerStopped` and `StartIssuer` keep this because
the wanted manager does not change under the mutex. `OwnerInv` is for the refreshers:
each one alive is the one in `Server.refresher` or was taken from there by a Shutdown
that still waits for it, and a server that is stopped has none in `Server.refresher`. So
the last Shutdown to return leaves none (`NothingIsLeft`); of the issuer, `TasksInv` says
the same already.

**PidFile.** `PidInv`: a lock is exclusive for its inode, not for the name, and only its
holder writes the inode. While no name but the first was ever used, all holders have
that inode. An inode that names an instance is locked by it or the instance has ended
(`ContentInv`), since a holder gives the lock up only by ending: so one that has just got
the lock finds its own pid, none, or that of an instance that is gone.

**ManagementApi.** `LockInv`: the lock is held exactly from Lock to the answer, and what
the holder has applied stays in force, since reloads and other clients need the same
lock. `SaveWritesApplied` follows. `FileInv`: before the answer the file has what was
saved. With these `AcknowledgedIsDurable` is inductive, crashes included: a reload changes
no site that is not in `Overwritten`.
`SavedFileMatches` narrows the finding of `api_reload_loses`: in a
system without reloads and edits, `QuietInv` is inductive and the comment in
`api.go:70` is true.

**AcmeManager.** `CertsInv` is `LoadedPairMatches` and the domain of `certs`: a pair enters
the table only through `LoadKeyPair`, which compares, or from one order. What a crash leaves
on disk therefore needs no invariant. `LoopInv` says what each position of the loop knows:
there is a token exactly while the loop completes or awaits the challenge, and it is the one
of its host; a verdict is only kept while it is awaited; with a configured account the loop
never gets to the step that saves a registered one. `TokensAnswered` takes the state part of
`TokenAnswered` from it; for the step part, `AnswerStays` goes through the steps that delete
a token and finds a reason for each (`FailGivesUp`). `TypeInv` is `TypeOK` with
`AccountsCounted`: what bounds the number of accounts is that a further one is registered
only when the last was rejected or an event lost it. `ScheduleInv` is what the timer rests
on. `RetryInv`: a retry is between `ReloadRetry` and `MaxRetry` after the failure, also when
`setHosts` has reset it, and the clock reading of a pass is one of the past - from which
`AttemptsSpaced` follows however old the reading is. `TimerInv`: during a pass each host is
still in the queue or its due time is in `next`, or there is a wake-up pending; that is
`TimerCoversEveryHost` when the queue is empty.

**Serving.** `WorkerInv`: a runtime belongs to one request at most, and while the hook
can still be stopped, no interrupt has been sent to it. So a request whose
`stop` succeeds (`runtime.go:128`) returns a runtime that nothing is on its way to.
`CountInv` writes the counter of active requests and the records in terms of where each
request is; it is about cardinalities, hence `RequestsAssumption`, that the requests
that ever arrive are finitely many.

**Policies.** `RateHolds` bounds what was granted, and is not inductive: a client may have
tokens left. `RateInv` bounds both together: what a client was granted and the tokens in
its bucket are covered by its allowance at the time the bucket was last changed; for a
client that has no entry, a full bucket from now on is covered. A refill adds no more than
the rate; an entry that is given up is counted in the ledger, unless its bucket had been
full by then. It relies on three parts: `PolicyInv` (a policy is made once, its table
holds no client twice, and no bucket is ahead of the clock), `WalkInv` (what is left of a
request's chain: a slot is asked for once and not by its holder, and a clock reading is
one of the past) and `SlotInv` (the slots of a policy are the requests that hold one). The
lemmas before them are about the operators of `RateLimiter`: what expiry, eviction and the
move to the front do to a table, and what each costs in the ledger. `ServingTypeCorrect`
adds `BoundInv`, the bounds of clock and counters, and uses the invariants of
`ServingProofs`.

The proof changed the model. `RateHolds` used to count evictions only, and took an entry
dropped as idle for one with a full bucket. `idle_timeout` does not ensure that; and even
where it does, a request that read the clock before the drop and reaches the limiter
after it finds a full bucket at a time that has passed. The run was too small to show
either. The ledger now counts each entry given up before its bucket is full by the
request's own clock reading, and the run has an idle timeout short enough to see it happen.

**Front.** The tables of certificates and sites, the walk along `X-Forwarded-For` and the
log of a step are folds of the community modules. Their definitions choose a recursive
function. The library's induction theorems take an operator as a parameter, which the
provers cannot instantiate, so the induction is done over sets instead: if some number, or
some finite set, fails, there is a smallest that does (`WFMin`). `AllNaturals` and
`OneByOne` say this once; `FoldExists` shows that the chosen function exists, and each
fold then has a lemma that says what it computes:

- `AddAllLists`: adding events to the ring is appending them to its list, cut to the last
  `MaxEvents`. `RingRefines` needs beside it only which steps log what.
- `LoadFacts`: for each name, the table of current certificates holds, of the files that
  name it and are current, the one that expires last, and nothing if there is none;
  likewise the stale table. `Offer` keeps the best of those met so far, in any order of
  the names of a file.
- `DispatcherFacts`: a listener's table has an entry exactly where one of its sites claims
  the pattern, and the entry is that site's.
- `ResolveFacts`: the rightmost hop that is malformed or not trusted decides, whatever is
  to the left of it.

`HandshakeChoice` speaks of the files, `Handshake` of tables, and refreshes and renewals
change the one without the other. `FrontInv` therefore says of the snapshot what its load
left there, in terms of the files as they were read then (`snap.listed`, `snap.loaded`).
`RedirectLands` is not inductive: a refresh asks for nothing, and a host whose certificate
has expired has to come under ACME. `FrontInv` adds that every TLS host of the configuration
but the catch-all was named, when it was compiled, by a file (`snap.accepted`) or is one
that ACME may manage. If no file has lost that name since (`Dropped`), it is in one of the
tables (`NamedIsLoaded`); else ACME has it, if it may. `StaleAccepted` follows from the same
part: compile asks nothing but that (`RequireIsServed`). `HandshakeChoice` needs of ACME
that the managed hosts with a certificate on disk are loaded, which each `HandOver` keeps.

The proof changed the model. `ClientKept` now leaves out a request whose address is this
server's own: a request that the gateway itself sent through a proxy it trusts. The
next server trusts the gateway, so it looks past this hop where the gateway did not.
`MCHops` had no header with that hop in it, and now has.

**Only model-checked:**

- All liveness properties (`ReplacedListenersFinish`, `CallsReturn`, `RenewalsAreNoticed`,
  `EveryHostTried`, `RequestsEnd`): liveness under fairness is out of the prover's reach.

The four properties that are violated (section 5) are TLC's as well.

**Only proved:** `Accounted` - each request is active or recorded, once - is in no run.

## 5. Findings

1. `gateway_shutdown_closes`. README.md:291 says of Shutdown and Close "remaining
   connections are closed when the context expires", `server.go:386` "so the server
   is always fully stopped on return". When the context expires, listeners that an
   earlier Apply replaced go on serving until their own timeout: Shutdown only stops
   waiting for them (`server.go:427`).
2. `api_reload_loses`. `api.go:70` says "so the saved file always matches the applied
   configuration". The SIGHUP loop reads the file before it takes the lock
   (`run.go:97`); a change saved in between is replaced by the older file in the
   server and kept in the file, until the next Save of another site writes the older state
   there as well.
3. `pid_two`. README.md:82 says "two instances can never share ACME state". `release`
   removes the file before it drops the lock, and `acquirePidFile` does not check
   that what it locked still has the name.
4. `acme_partial_file`. `acme.go:531` says "writeFileAtomic replaces path so that
   readers never see a partial file". The `err` of the `if` around `file.Write`
   (`acme.go:541`) is a new variable: after a short write on a full disk the outer one is
   nil, and the truncated file is renamed into place as a success. A truncated account
   file makes every later attempt fail after a restart. Truncated certificates are
   noticed when loaded (`LoadedPairMatches`) and only cost a new order. (A chain cut after
   the leaf loads like the whole one; the model counts that write as complete.)

Seen while modelling, without a run of their own. In the first four the code does other
than a document says:

- `pidfile_unix.go:16-18` says "a stale file after a crash never blocks a start or misdirects
  a reload". Between `Flock` (`:29`) and `Truncate` (`:36`) the lock is taken and the file
  still names the crashed instance: a reload that comes then signals that pid, whatever
  process has it by now. `RunningIsNamed` allows for it, and for no more.
- README.md:215-218 says of hosts no site serves "over HTTPS the handshake is refused without
  presenting a certificate, so the server never reveals which names it hosts".
  `Server.certificate` asks the certificates and not the sites (`server.go:571`): whatever
  name a listed certificate covers, by a wildcard say, is presented that certificate
  (`HandshakeChoice`).
- README.md:204-206 and `tls.go:46-48` say "When several certificates cover a name, the one
  that expires last wins". That decides between certificates that name the same pattern
  only: an exact name wins over a wildcard that expires later (`hosts.go:59`,
  `HandshakeChoice`).
- README.md:208-211 and `tls.go:33-36` say "one stale file never blocks a reload". A
  configuration with `tls.acme` and no plain listener compiles while its certificates are
  current and is refused once one is stale, since ACME would then manage the host
  (`compile.go:131`). `StaleNeverBlocks` excepts it.
- "on any error nothing changes" (README.md:283) holds of the configuration, not of
  the sockets: `rebindLocked` cannot restore a listener whose address another
  process took meanwhile. `LostOnlyToOtherProcesses` states the exception.
- A Shutdown that overlaps another returns once its own part is done: it has taken
  nothing and may return while the first still closes listeners.
- `PUT /config` answers with the configuration at the time of the answer, which may be
  newer than the `ETag` header (`api.go:250`), since the lock is already released.
- `acquirePidFile` loses a write error in a shadowed `err` as well.
- A refresh asks for nothing: when a renewed file has lost a redirected name and ACME may not
  take it (a wildcard, or no `tls.acme`), the name has neither until the next Apply, which is
  refused (`RedirectLands` excepts it).
- `acmeReloadRetry` keeps attempts a minute apart. The comment at `acme.go:36-38` takes this
  for staying well under five failures an hour, which a reload every minute exceeds.
- `idle_timeout` is not checked against burst and rate. An entry dropped before its
  bucket would have filled comes back full; `RateHolds` allows a burst for each time that
  happens. The defaults avoid it for any burst up to ten minutes of the rate.
- A reload probe that holds the shared lock for a moment makes a start that arrives
  then fail with "another yabber is running".

## 6. Not modelled

`PROJECT.json` lists every part with its reason.

- Compilation: validation of names, addresses and defaults, and the transports shared
  between snapshots, which only hold idle connections.
- Reverse proxy and handlers: header rewriting, files, redirects; `net/http` does the
  work and there is no state beside the transports.
- Observability beyond the two counters: sums, classes and formats.
- Configuration data, the web panel's browser code, the command line and packaging: no
  behaviour that interleaves with anything.
- `yabber update`: a download and, on Windows, two renames, of which the second may fail
  after the first and leave no executable (`update.go:208`). The error is returned; there
  is no one to race with.

## 7. Plan

Done: all modules above, their runs, and a theorem for every property of a passing run
that is not a liveness property. Left: the transports of compile, with the requests still
using those of an old snapshot.
