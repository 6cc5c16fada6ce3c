--------------------------- MODULE ManagementApi ---------------------------
(***************************************************************************)
(* The management API (api/api.go, api/sites.go), the configuration file   *)
(* it saves to, and the SIGHUP loop of `yabber run` (cmd/yabber/run.go).   *)
(*                                                                         *)
(* A change holds API.writes from server.Update to Save; a reload reads    *)
(* the file, then applies it through API.Apply, which takes the same lock. *)
(* The server is one variable, `applied`: Server.Apply and Server.Update   *)
(* run under Server.mu and either switch or fail (module Gateway).  Save   *)
(* is one step too: it renames a complete file into place.  Crashes fall   *)
(* between the steps.                                                      *)
(***************************************************************************)
EXTENDS Naturals

CONSTANTS
    Clients,     \* requests in progress, one per client
    Sites,       \* site IDs
    Values,      \* contents a site may have
    MaxFailures, \* bound: Saves that fail
    MaxCrashes,  \* bound: crashes of the process
    MaxEdits,    \* bound: edits of the file by hand
    MaxReloads,  \* bound: SIGHUPs
    Nil

ASSUME ApiAssumption ==
    /\ Nil \notin Clients /\ Nil \notin Values
    /\ \A S \in SUBSET Sites : Nil \notin [S -> Values \cup {Nil}]
    /\ MaxFailures \in Nat /\ MaxCrashes \in Nat /\ MaxEdits \in Nat /\ MaxReloads \in Nat

\* A configuration: the sites it has, Nil for one it has not.  An ETag is a
\* hash of the whole configuration, so it is modelled by the configuration.
Configurations == [Sites -> Values \cup {Nil}]

VARIABLES
    applied,  \* Server.Config()
    file,     \* the configuration file
    writes,   \* the client holding API.writes, or Nil
    pc,       \* where each client's request is
    kind,     \* "put" (PUT /config), "create" (POST /sites) or "site" (PUT or
              \* DELETE /sites/{id})
    ifMatch,  \* the configuration its If-Match names, Nil without the header
    change,   \* what it does: a function of the sites it sets
    next,     \* `applied` of API.change, the configuration it has applied
    seen,     \* what the client has read with GET for its next request
    loaded,   \* what the SIGHUP loop has read and not applied yet, or Nil
    saved,    \* the last change was saved
    ack,      \* history: each site as the last acknowledged change left it
    doubtful, \* history: sites that something other than an acknowledged change
              \* has touched since the last one
    edited,   \* history: sites edited in the file since the last Save
    count     \* counts failures, crashes, edits and reloads

vars == <<applied, file, writes, pc, kind, ifMatch, change, next, seen, loaded,
          saved, ack, doubtful, edited, count>>
request == <<kind, ifMatch, change>>
history == <<saved, ack, doubtful, edited>>

\* The changes a request may make: to one site, or to all of them.
Changes == UNION {[S -> Values \cup {Nil}] : S \in {Sites} \cup {{s} : s \in Sites}}

TypeOK ==
    /\ applied \in Configurations /\ file \in Configurations
    /\ writes \in Clients \cup {Nil}
    /\ pc \in [Clients -> {"idle", "lock", "update", "save", "respond", "body"}]
    /\ kind \in [Clients -> {"put", "create", "site"}]
    /\ ifMatch \in [Clients -> Configurations \cup {Nil}]
    /\ change \in [Clients -> Changes \cup {Nil}]
    /\ next \in [Clients -> Configurations \cup {Nil}]
    /\ seen \in [Clients -> Configurations \cup {Nil}]
    /\ loaded \in Configurations \cup {Nil}
    /\ saved \in BOOLEAN
    /\ ack \in Configurations
    /\ doubtful \subseteq Sites /\ edited \subseteq Sites
    /\ count \in [failures : 0..MaxFailures, crashes : 0..MaxCrashes,
                  edits : 0..MaxEdits, reloads : 0..MaxReloads]

Init ==
    /\ applied \in Configurations
    /\ file = applied
    /\ writes = Nil
    /\ pc = [c \in Clients |-> "idle"]
    /\ kind = [c \in Clients |-> "site"]
    /\ ifMatch = [c \in Clients |-> Nil]
    /\ change = [c \in Clients |-> Nil]
    /\ next = [c \in Clients |-> Nil]
    /\ seen = [c \in Clients |-> Nil]
    /\ loaded = Nil
    /\ saved = TRUE
    /\ ack = applied
    /\ doubtful = {}
    /\ edited = {}
    /\ count = [failures |-> 0, crashes |-> 0, edits |-> 0, reloads |-> 0]

\* Client c's request is over: its local state goes.
Forget(c) ==
    /\ pc' = [pc EXCEPT ![c] = "idle"]
    /\ kind' = [kind EXCEPT ![c] = "site"]
    /\ ifMatch' = [ifMatch EXCEPT ![c] = Nil]
    /\ change' = [change EXCEPT ![c] = Nil]
    /\ next' = [next EXCEPT ![c] = Nil]

-----------------------------------------------------------------------------
(* Requests.                                                               *)

\* GET /config, /sites, /sites/{id}: body and ETag of one Server.Config().
Get(c) ==
    /\ pc[c] = "idle"
    /\ seen' = [seen EXCEPT ![c] = applied]
    /\ UNCHANGED <<applied, file, writes, pc, request, next, loaded, history, count>>

\* PUT /config with what the client read, one site edited; PUT, POST or
\* DELETE of one site; with the ETag it read as If-Match, or without.
Send(c, s, v) ==
    /\ pc[c] = "idle"
    /\ \/ /\ seen[c] # Nil
          /\ kind' = [kind EXCEPT ![c] = "put"]
          /\ change' = [change EXCEPT ![c] = [seen[c] EXCEPT ![s] = v]]
       \/ /\ \/ kind' = kind
             \/ v # Nil /\ kind' = [kind EXCEPT ![c] = "create"]
          /\ change' = [change EXCEPT ![c] = [t \in {s} |-> v]]
    /\ ifMatch' \in {ifMatch, [ifMatch EXCEPT ![c] = seen[c]]}
    /\ seen' = [seen EXCEPT ![c] = Nil]
    /\ pc' = [pc EXCEPT ![c] = "lock"]
    /\ UNCHANGED <<applied, file, writes, next, loaded, history, count>>

Lock(c) ==
    /\ pc[c] = "lock" /\ writes = Nil
    /\ writes' = c
    /\ pc' = [pc EXCEPT ![c] = "update"]
    /\ UNCHANGED <<applied, file, request, next, seen, loaded, history, count>>

\* Mutant of Matches: If-Match is ignored.
AlwaysMatches(c) == TRUE

Matches(c) == ifMatch[c] # Nil => ifMatch[c] = applied

\* 409 for a site that exists, 404 for one that does not.
SiteFits(c) ==
    kind[c] # "put" => \A s \in DOMAIN change[c] : kind[c] = "create" <=> applied[s] = Nil

\* The configuration the request makes of `config`.
Modified(c, config) ==
    [s \in Sites |-> IF s \in DOMAIN change[c] THEN change[c][s] ELSE config[s]]

\* The sites the client means to change: all that differ from what it saw
\* and tagged, or from what it overwrites when it sends no If-Match.
Meant(c) == {s \in Sites : Modified(c, applied)[s] #
                (IF ifMatch[c] = Nil THEN applied ELSE ifMatch[c])[s]}

\* Server.Update: check If-Match, modify a copy, compile and switch.
Update(c) ==
    /\ pc[c] = "update" /\ Matches(c) /\ SiteFits(c)
    /\ applied' = Modified(c, applied)
    /\ next' = [next EXCEPT ![c] = applied']
    /\ pc' = [pc EXCEPT ![c] = "save"]
    /\ doubtful' = doubtful \cup Meant(c)
    /\ UNCHANGED <<file, writes, request, seen, loaded, saved, ack, edited, count>>

\* 412, 404 or 409; or 422, when the result does not compile or bind.
Reject(c) ==
    /\ pc[c] = "update"
    /\ writes' = Nil
    /\ Forget(c)
    /\ UNCHANGED <<applied, file, seen, loaded, history, count>>

\* Mutant of Save: the request is saved instead of what was applied.
SaveRequest(c) ==
    /\ pc[c] = "save"
    /\ file' = change[c]
    /\ saved' = TRUE
    /\ edited' = {}
    /\ pc' = [pc EXCEPT ![c] = "respond"]
    /\ UNCHANGED <<applied, writes, request, next, seen, loaded, ack, doubtful, count>>

Save(c) ==
    /\ pc[c] = "save"
    /\ file' = next[c]
    /\ saved' = TRUE
    /\ edited' = {}
    /\ pc' = [pc EXCEPT ![c] = "respond"]
    /\ UNCHANGED <<applied, writes, request, next, seen, loaded, ack, doubtful, count>>

\* 500: applied, but saving failed.
SaveFails(c) ==
    /\ pc[c] = "save" /\ count.failures < MaxFailures
    /\ saved' = FALSE
    /\ writes' = Nil
    /\ Forget(c)
    /\ count' = [count EXCEPT !.failures = @ + 1]
    /\ UNCHANGED <<applied, file, seen, loaded, ack, doubtful, edited>>

\* change returns true: the ETag of next is set, the lock released and the
\* change acknowledged.  putConfig then reads the body from the server.
Respond(c) ==
    /\ pc[c] = "respond"
    /\ writes' = Nil
    /\ LET mine == {s \in DOMAIN change[c] :
                       ifMatch[c] = Nil \/ change[c][s] # ifMatch[c][s]}
       IN  /\ ack' = [s \in Sites |-> IF s \in mine THEN change[c][s] ELSE ack[s]]
           /\ doubtful' = doubtful \ mine
    /\ IF kind[c] = "put"
       THEN pc' = [pc EXCEPT ![c] = "body"] /\ UNCHANGED <<request, next>>
       ELSE Forget(c)
    /\ UNCHANGED <<applied, file, seen, loaded, saved, edited, count>>

\* PUT /config answers with Server.Config().
Body(c) ==
    /\ pc[c] = "body"
    /\ Forget(c)
    /\ UNCHANGED <<applied, file, writes, seen, loaded, history, count>>

-----------------------------------------------------------------------------
(* SIGHUP, edits by hand, crashes.                                         *)

\* yabber.Load, outside the lock.
ReloadLoads ==
    /\ loaded = Nil /\ count.reloads < MaxReloads
    /\ loaded' = file
    /\ count' = [count EXCEPT !.reloads = @ + 1]
    /\ UNCHANGED <<applied, file, writes, pc, request, next, seen, history>>

\* The sites that applying `loaded` may take from an acknowledged change: they
\* were edited in the file, or saved after the loop had read it.  All others
\* are in the file as they were read, and stay as they are.
Overwritten ==
    {s \in Sites : loaded[s] # applied[s] /\ (s \in edited \/ file[s] # loaded[s])}

\* Mutant of ReloadApplies: Server.Apply is called without API.writes.
ReloadUnlocked ==
    /\ loaded # Nil
    /\ applied' = loaded
    /\ loaded' = Nil
    /\ doubtful' = doubtful \cup Overwritten
    /\ UNCHANGED <<file, writes, pc, request, next, seen, saved, ack, edited, count>>

\* API.Apply: nothing is saved.
ReloadApplies ==
    /\ loaded # Nil /\ writes = Nil
    /\ applied' = loaded
    /\ loaded' = Nil
    /\ doubtful' = doubtful \cup Overwritten
    /\ UNCHANGED <<file, writes, pc, request, next, seen, saved, ack, edited, count>>

\* The configuration does not compile or bind.
ReloadFails ==
    /\ loaded # Nil /\ writes = Nil
    /\ loaded' = Nil
    /\ UNCHANGED <<applied, file, writes, pc, request, next, seen, history, count>>

EditFile(s, v) ==
    /\ count.edits < MaxEdits
    /\ file' = [file EXCEPT ![s] = v]
    /\ edited' = edited \cup {s}
    /\ count' = [count EXCEPT !.edits = @ + 1]
    /\ UNCHANGED <<applied, writes, pc, request, next, seen, loaded, saved, ack, doubtful>>

\* The process dies and is started again from the file.
Crash ==
    /\ count.crashes < MaxCrashes
    /\ applied' = file
    /\ saved' = TRUE
    /\ writes' = Nil
    /\ pc' = [c \in Clients |-> "idle"]
    /\ kind' = [c \in Clients |-> "site"]
    /\ ifMatch' = [c \in Clients |-> Nil]
    /\ change' = [c \in Clients |-> Nil]
    /\ next' = [c \in Clients |-> Nil]
    /\ loaded' = Nil
    /\ doubtful' = doubtful \cup edited
    /\ edited' = {}
    /\ count' = [count EXCEPT !.crashes = @ + 1]
    /\ UNCHANGED <<file, seen, ack>>

-----------------------------------------------------------------------------
Change(c) ==
    \/ Lock(c) \/ Update(c) \/ Reject(c) \/ Save(c) \/ SaveFails(c)
    \/ Respond(c) \/ Body(c)

Reload == ReloadLoads \/ ReloadApplies \/ ReloadFails

Next ==
    \/ \E c \in Clients :
        \/ Get(c) \/ Change(c)
        \/ \E s \in Sites, v \in Values \cup {Nil} : Send(c, s, v)
    \/ Reload
    \/ \E s \in Sites, v \in Values \cup {Nil} : EditFile(s, v)
    \/ Crash

Spec == Init /\ [][Next]_vars

-----------------------------------------------------------------------------
(* Properties.                                                             *)

\* What a client was told is done stays done, whatever other clients write in
\* between, a Save fails, the process crashes or SIGHUPs arrive: a site is in
\* the server as the last acknowledged change of it left it, and in the file
\* too unless somebody edited it there.  Excused are the sites with a change
\* that was applied and not acknowledged, those that a SIGHUP or a restart
\* took from an edited file, and those that were saved between the two steps
\* of a SIGHUP: it applies the file as it was before, and the next Save of
\* another site writes that to the file (ApiReloadLoses.cfg shows the race).
AcknowledgedIsDurable ==
    \A s \in Sites \ doubtful :
        applied[s] = ack[s] /\ (s \in edited \/ file[s] = ack[s])

\* api.go:71: "so the saved file always matches the applied configuration".
\* Outside a change, and unless the last Save failed and said so.
FileMatchesApplied == writes = Nil /\ saved => file = applied

\* A Save writes what the server serves at that moment, not an older or a
\* newer configuration, even when reloads arrive during the change.
SaveWritesApplied ==
    [][\A c \in Clients : pc[c] = "save" /\ pc'[c] = "respond" => file' = applied]_vars

-----------------------------------------------------------------------------
(* The inductive invariants of ManagementApiProofs.                        *)

\* The lock is held exactly from Lock to the answer, and what the holder has
\* applied stays in force until then.
LockInv ==
    \A c \in Clients :
        /\ pc[c] \in {"update", "save", "respond"} <=> writes = c
        /\ pc[c] \in {"lock", "update", "save", "respond"} =>
              change[c] # Nil /\ DOMAIN change[c] \subseteq Sites
        /\ pc[c] \in {"save", "respond"} =>
              /\ applied = next[c]
              /\ \A s \in DOMAIN change[c] : next[c][s] = change[c][s]

\* Before its answer, what the holder saved is in the file, edits aside.
FileInv ==
    \A c \in Clients : pc[c] = "respond" =>
        \A s \in Sites \ edited : file[s] = applied[s]

\* Without reloads and edits the file is what the server serves, except
\* while a change is unsaved.
QuietInv ==
    /\ loaded = Nil /\ edited = {}
    /\ saved /\ (\A c \in Clients : pc[c] # "save") => file = applied

ApiInv == TypeOK /\ LockInv
DurableInv == ApiInv /\ FileInv /\ AcknowledgedIsDurable
=============================================================================
