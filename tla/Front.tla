-------------------------------- MODULE Front --------------------------------
(***************************************************************************)
(* What a connection meets before any policy: the certificate and the site *)
(* for its name, out of Certificates, and the client address, out of       *)
(* ClientAddress.                                                          *)
(***************************************************************************)
EXTENDS Certificates, ClientAddress

CONSTANTS ServerNames,  \* the names clients ask for: for an address they send none
          Hops,         \* X-Forwarded-For headers
          NoRequest

ASSUME NamesAssumption == ServerNames \subseteq Name \ Addresses

ASSUME HopsAssumption == Hops \subseteq Seq(Peers \cup {Malformed, Self})

VARIABLE request  \* the peer and the hops of a request, or NoRequest

frontVars == <<vars, request>>

FrontInit == Init /\ request = NoRequest

\* Only the addresses of a request matter here, so that one is looked at in
\* the first state alone, and nothing comes after.
Ask(peer, hops) ==
    /\ request = NoRequest
    /\ now = 0 /\ changes = 0 /\ issued = {}
    /\ request' = [peer |-> peer, hops |-> hops]
    /\ UNCHANGED vars

FrontNext ==
    \/ request = NoRequest /\ Next /\ UNCHANGED request
    \/ \E peer \in Peers, hops \in Hops : Ask(peer, hops)

Spec == FrontInit /\ [][FrontNext]_frontVars

-----------------------------------------------------------------------------
\* The patterns that fit a name, the closest first.
Fitting(host) == IF Len(host) > 1 THEN <<host, <<Star>> \o Tail(host), CatchAll>>
                                  ELSE <<host, CatchAll>>

\* Of some files, those that name the closest pattern named by any of them, and
\* of these the ones that expire last.
Best(some, host) ==
    LET naming(k) == {i \in some : Fitting(host)[k] \in snap.listed[i].names}
        named == {k \in DOMAIN Fitting(host) : naming(k) # {}}
        closest == naming(CHOOSE k \in named : \A l \in named : k <= l)
    IN  IF named = {} THEN {}
        ELSE {i \in closest : \A j \in closest : snap.listed[j].until <= snap.listed[i].until}

CurrentFiles == {i \in Files : /\ snap.listed[i].from <= snap.loaded
                               /\ snap.loaded + Grace <= snap.listed[i].until}

\* A handshake presents the closest listed certificate that is current, of
\* several the one that expires last; if none is current, ACME's, which it must
\* have for a managed host with a certificate on disk, also one issued under an
\* earlier configuration; and only without that a stale one.  As long as the last
\* load is no older than the grace, a certificate that counts as current is valid
\* (tls.go:27-31, 38-41, 47-49, server.go:569-570, hosts.go:56-57, acme.go:190-204).
\* README.md has it otherwise in two places.  The code does not ask whether a site
\* serves the name, while of a name that none serves it says that "the handshake is
\* refused without presenting a certificate" (215-218); and an exact name wins over
\* a wildcard that expires later, while "when several certificates cover a name,
\* the one that expires last wins" (204-206).
HandshakeChoice ==
    \A host \in ServerNames :
        LET given   == Handshake(host)
            current == Best(CurrentFiles, host)
            stale   == Best(Files \ CurrentFiles, host)
        IN  IF current # {}
            THEN \E leaf \in given :
                    /\ leaf.file \in current
                    /\ now <= snap.loaded + Grace => leaf.from <= now /\ now <= leaf.until
            ELSE IF given = {FromAcme(host)} THEN snap.config.acme /\ host \in stored
            ELSE /\ host \notin snap.managed \cap stored
                 /\ IF stale # {} THEN \E leaf \in given : leaf.file \in stale
                                  ELSE given = {}

\* Only the catch-all site of the TLS listener fits a name.
OnlyCatchAll(host) ==
    \A k \in DOMAIN Fitting(host) :
        Fitting(host)[k] # CatchAll => Stored(snap.https, Fitting(host)[k]) = {}

\* A certificate has been replaced since the configuration was compiled, or left
\* out, and no longer has a name that fits.
Dropped(host) ==
    \E i \in Files : \E k \in DOMAIN Fitting(host) :
        Fitting(host)[k] \in snap.accepted[i] \ snap.listed[i].names

AcmeTakesOver(host) ==
    snap.config.acme /\ host \in TlsHosts(snap.config) /\ AcmeEligible(host)

\* A plain request that is redirected finds a site on the TLS listener, and,
\* unless only the catch-all fits the name, a certificate, or ACME at work to
\* get one: through Applies, expiries, refreshes and spoiled files.  When a
\* refresh reads a certificate that has lost the name, only ACME's hosts are
\* still safe (compile.go:250-291, 293-321, server.go:297-307).
RedirectLands ==
    \A host \in ServerNames : \A plain \in Dispatched("http", host) :
        plain.redirect =>
            /\ Dispatched("https", host) # {}
            /\ \/ OnlyCatchAll(host)
               \/ Dropped(host) /\ ~AcmeTakesOver(host)
               \/ Handshake(host) # {}
               \/ host \in snap.managed

\* An accepted configuration is accepted again while its certificates have the
\* names they had then, whatever has expired or is not valid yet: "so one stale
\* file never blocks a reload" (README.md:208-211, tls.go:33-36).  It takes a plain
\* listener or no ACME: without one, a stale file that ACME takes over does block
\* the reload, against those words (compile.go:131-133).
StaleNeverBlocks ==
    (/\ Loadable
     /\ \A i \in Files : files[i].names = snap.accepted[i]
     /\ snap.config.plain \/ ~snap.config.acme)
        => Compiles(snap.config, LoadCertificates)

Address == Resolve(Trusted, request.peer, request.hops)

\* Nothing that a client writes in front changes an untrusted address, and a
\* malformed hop hides what is before it; a next server that trusts this one
\* and the same proxies takes the request to come from the same client, unless
\* that is this server (clientip.go:33-36, proxy.go:108-116).
ClientKept ==
    request # NoRequest =>
        /\ Address \notin Trusted =>
               \A more \in Hops : Resolve(Trusted, request.peer, more \o request.hops) = Address
        /\ \A i \in DOMAIN request.hops : request.hops[i] = Malformed =>
               Resolve(Trusted, request.peer,
                       SubSeq(request.hops, i + 1, Len(request.hops))) = Address
        /\ Address # Self =>
               Resolve(Trusted \cup {Self}, Self, Forwarded(request.peer, request.hops)) = Address

\* What a step logs: warnings, and what it came to.
Logged == {Warned(n) \o what :
               n \in 0 .. Cardinality(Files),
               what \in {<<>>, <<"applied">>, <<"failed">>, <<"issued">>}}

\* The ring keeps what an endless list cut to its end would keep
\* (events.go:11-12, server.go:501-503).
Bounded == INSTANCE BoundedLog WITH Batches <- Logged, log <- List(ring)
RingIsLog == Bounded!Spec

=============================================================================
