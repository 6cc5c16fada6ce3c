----------------------------- MODULE Certificates -----------------------------
(***************************************************************************)
(* Which site and which certificate a name gets, while configurations are  *)
(* applied, certificate files are renewed and spoiled, time passes and the *)
(* refresher reads the files again (compile.go, tls.go, hosts.go, and      *)
(* certificate, refreshCertificatesLocked of server.go).  ACME is taken    *)
(* only as what delivers a certificate for a managed host; AcmeManager     *)
(* says how.                                                               *)
(***************************************************************************)
EXTENDS HostTable, EventLog, FiniteSets, FiniteSetsExt

CONSTANTS FileCount,   \* how many certificates are listed or come from the source
          Sourced,     \* those of the CertificateSource, which may leave one out
          NameSets,    \* the sets of names a certificate may have
          FirstFiles,  \* the certificates at first: see FilesType
          Configs,     \* see ConfigsAssumption
          Addresses,   \* the patterns that are IP addresses
          Lifetime,    \* how long a renewed certificate lasts
          Grace,       \* certificateGrace
          MaxTime,     \* the clock stops here
          MaxChanges   \* files renewed, spoiled or left out, and Applies, in a behaviour

Files == 1 .. FileCount

\* A certificate without names is one that the source leaves out: nothing else
\* loads without a name (tls.go:87).
FilesType == [Files -> [names : NameSets \cup {{}}, from : Nat, until : Nat,
                        readable : BOOLEAN]]

\* sites: on the TLS listener or on the plain one or both; plain: whether there
\* is a plain listener at all; a TLS listener there always is.
ASSUME ConfigsAssumption ==
    \A c \in Configs :
        /\ {c.acme, c.plain} \subseteq BOOLEAN
        /\ IsFiniteSet(DOMAIN c.sites)
        /\ \A i \in DOMAIN c.sites :
               /\ {c.sites[i].tls, c.sites[i].plain, c.sites[i].allowHttp} \subseteq BOOLEAN
               /\ c.sites[i].plain => c.plain
               /\ c.sites[i].hosts \subseteq Name /\ IsFiniteSet(c.sites[i].hosts)

ASSUME FilesAssumption ==
    /\ FileCount \in Nat
    /\ Sourced \subseteq Files
    /\ \A names \in NameSets : names \subseteq Name /\ IsFiniteSet(names) /\ names # {}
    /\ FirstFiles \subseteq FilesType

ASSUME ClockAssumption == {Lifetime, Grace} \subseteq Nat

VARIABLES now,      \* the clock
          files,    \* the listed certificates on disk and those of the source
          snap,     \* the snapshot; accepted: the names of each file when it was compiled
          stored,   \* hosts that have a certificate from ACME on disk
          issued,   \* those of them that the ACME manager of the snapshot has loaded
          ring,     \* the event log
          changes   \* see MaxChanges

vars == <<now, files, snap, stored, issued, ring, changes>>

-----------------------------------------------------------------------------
(* loadCertificates.                                                       *)

NewStore == [current |-> NewTable, stale |-> NewTable]

IsStale(leaf) == now < leaf.from \/ now + Grace > leaf.until

\* Mutant of Offer: the certificate listed last wins.
OfferLast(table, name, leaf) == Store(table, name, leaf)

\* Of several certificates for a name the one that expires last wins, the one
\* listed first if they expire together.
Offer(table, name, leaf) ==
    IF \E other \in Stored(table, name) : other.until >= leaf.until
    THEN table ELSE Store(table, name, leaf)

LoadOne(store, i) ==
    LET leaf  == [file |-> i, from |-> files[i].from, until |-> files[i].until]
        which == IF IsStale(leaf) THEN "stale" ELSE "current"
    IN  [store EXCEPT ![which] =
             FoldSet(LAMBDA name, table : Offer(table, name, leaf), @, files[i].names)]

Loadable == \A i \in Files : files[i].readable
LoadCertificates == FoldLeft(LoadOne, NewStore, [i \in Files |-> i])

\* One warning for each stale certificate.
Warned(n) == [i \in 1 .. n |-> "warned"]
Warnings == Warned(Cardinality({i \in Files : files[i].names # {} /\ IsStale(files[i])}))

-----------------------------------------------------------------------------
(* compile.                                                                *)

\* The catch-all needs no certificate of its own.
Covers(table, pattern) == pattern = CatchAll \/ Match(table, pattern) # {}

AcmeEligible(pattern) == IsConcrete(pattern) /\ pattern \notin Addresses

TlsSites(c) == {i \in DOMAIN c.sites : c.sites[i].tls}
TlsHosts(c) == UNION {c.sites[i].hosts : i \in TlsSites(c)}

\* Mutant of RequireCertificate: a stale certificate does not do.
RequireCurrent(c, certs, host) ==
    Covers(certs.current, host) \/ (c.acme /\ AcmeEligible(host))

RequireCertificate(c, certs, host) ==
    \/ Covers(certs.current, host)
    \/ c.acme /\ AcmeEligible(host)
    \/ Covers(certs.stale, host)

ManagedHosts(c, certs) ==
    {host \in TlsHosts(c) : c.acme /\ AcmeEligible(host) /\ ~Covers(certs.current, host)}

\* Two sites on one listener claim the same pattern.
Conflict(c) ==
    \E i, j \in DOMAIN c.sites :
        /\ i # j
        /\ c.sites[i].hosts \cap c.sites[j].hosts # {}
        /\ \/ c.sites[i].tls /\ c.sites[j].tls
           \/ c.sites[i].plain /\ c.sites[j].plain

\* The table of a listener: the plain one redirects what is also served over
\* TLS, unless the site allows plain HTTP.
Dispatcher(c, listener) ==
    LET on(site) == IF listener = "https" THEN site.tls ELSE site.plain
        entry(i) == [site |-> i, redirect |-> /\ listener = "http"
                                              /\ c.sites[i].tls
                                              /\ ~c.sites[i].allowHttp]
        claims == UNION {{i} \X c.sites[i].hosts : i \in {j \in DOMAIN c.sites : on(c.sites[j])}}
    IN  FoldSet(LAMBDA claim, table : Store(table, claim[2], entry(claim[1])), NewTable, claims)

Compiles(c, certs) ==
    /\ ~Conflict(c)
    /\ \A host \in TlsHosts(c) : RequireCertificate(c, certs, host)
    /\ ManagedHosts(c, certs) # {} => c.plain

Compiled(c, certs) ==
    [config |-> c, certs |-> certs, managed |-> ManagedHosts(c, certs),
     http |-> Dispatcher(c, "http"), https |-> Dispatcher(c, "https"),
     accepted |-> [i \in Files |-> files[i].names], listed |-> files, loaded |-> now]

-----------------------------------------------------------------------------

Init ==
    /\ now = 0
    /\ files \in FirstFiles
    /\ Loadable
    /\ \E c \in Configs : /\ Compiles(c, LoadCertificates)
                          /\ snap = Compiled(c, LoadCertificates)
    /\ stored = {} /\ issued = {}
    /\ ring = AddAll(EmptyRing, Warnings)
    /\ changes = 0

Log(events) == ring' = AddAll(ring, events)

Change == /\ changes < MaxChanges
          /\ changes' = changes + 1

\* setHosts: the manager loads what is on disk for the hosts it is to manage.
\* It is kept from one snapshot to the next, and a new one has nothing loaded.
HandOver(c, managed) ==
    IF ~c.acme THEN {}
    ELSE (IF snap.config.acme THEN issued ELSE {}) \cup (managed \cap stored)

\* A configuration that does not compile changes nothing, though the warnings
\* of its certificates are logged.
Apply(c) ==
    /\ Change
    /\ Loadable
    /\ IF Compiles(c, LoadCertificates)
       THEN /\ snap' = Compiled(c, LoadCertificates)
            /\ issued' = HandOver(c, snap'.managed)
            /\ Log(Append(Warnings, "applied"))
       ELSE Log(Warnings) /\ UNCHANGED <<snap, issued>>
    /\ UNCHANGED <<now, files, stored>>

Reloaded(certs) ==
    [snap EXCEPT !.certs = certs, !.managed = ManagedHosts(snap.config, certs),
                 !.listed = files, !.loaded = now]

\* Mutant of Refresh: a file that cannot be read is passed over.
RefreshReadable ==
    /\ LET readable == SelectSeq([i \in Files |-> i], LAMBDA i : files[i].readable)
       IN  snap' = Reloaded(FoldLeft(LoadOne, NewStore, readable))
    /\ issued' = HandOver(snap.config, snap'.managed)
    /\ Log(Warnings)
    /\ UNCHANGED <<now, files, stored, changes>>

\* refreshCertificatesLocked loads and reassigns; it requires nothing.
Refresh ==
    /\ Loadable
    /\ snap' = Reloaded(LoadCertificates)
    /\ issued' = HandOver(snap.config, snap'.managed)
    /\ Log(Warnings)
    /\ UNCHANGED <<now, files, stored, changes>>

RefreshFails ==
    /\ ~Loadable
    /\ Log(<<"failed">>)
    /\ UNCHANGED <<now, files, snap, stored, issued, changes>>

\* The ACME manager obtains a certificate for a host it is given.
Issue(host) ==
    /\ host \in snap.managed \ issued
    /\ stored' = stored \cup {host}
    /\ issued' = issued \cup {host}
    /\ Log(<<"issued">>)
    /\ UNCHANGED <<now, files, snap, changes>>

\* A file is replaced; the new certificate may be valid from later on only, and
\* for other names.
Renew(i) ==
    /\ Change
    /\ \E from \in {now, now + 1}, names \in NameSets :
           files' = [files EXCEPT ![i] = [names |-> names, from |-> from,
                                          until |-> from + Lifetime, readable |-> TRUE]]
    /\ UNCHANGED <<now, snap, stored, issued, ring>>

\* A file is half written, or does not match its key, or the source fails.
Spoil(i) ==
    /\ Change
    /\ files' = [files EXCEPT ![i].readable = FALSE]
    /\ UNCHANGED <<now, snap, stored, issued, ring>>

\* The source no longer has a certificate.
LeaveOut(i) ==
    /\ Change
    /\ files' = [files EXCEPT ![i].names = {}, ![i].readable = TRUE]
    /\ UNCHANGED <<now, snap, stored, issued, ring>>

Tick == /\ now < MaxTime
        /\ now' = now + 1
        /\ UNCHANGED <<files, snap, stored, issued, ring, changes>>

Next == \/ \E c \in Configs : Apply(c)
        \/ Refresh \/ RefreshFails
        \/ \E host \in snap.managed : Issue(host)
        \/ \E i \in Files : Renew(i) \/ Spoil(i)
        \/ \E i \in Sourced : LeaveOut(i)
        \/ Tick

-----------------------------------------------------------------------------
(* What a TLS handshake is given, and what a request is dispatched to.     *)

\* The certificate from ACME, which is no listed one.
FromAcme(host) == [file |-> 0, host |-> host]

\* certificate: a current listed one, one from ACME, a stale listed one.
Handshake(host) ==
    LET current == Match(snap.certs.current, host)
    IN  IF current # {} THEN current
        ELSE IF snap.config.acme /\ host \in issued THEN {FromAcme(host)}
        ELSE Match(snap.certs.stale, host)

Dispatched(listener, host) == Match(IF listener = "https" THEN snap.https ELSE snap.http, host)

=============================================================================
