------------------------------- MODULE MCFront -------------------------------
EXTENDS Front

CONSTANTS t1, t2, u1

Ax == <<"a", "x">>
OnX == <<Star, "x">>
Ip == <<"ip">>

BX == <<"b", "x">>
Z  == <<"z">>

MCNameSets == {{Ax, OnX}, {OnX, Ip}, {Ax}}

MCFirstFiles ==
    {[i \in 1 .. 2 |-> [names |-> IF i = 1 THEN {Ax, OnX} ELSE {OnX, Ip},
                        from |-> 0, until |-> until[i], readable |-> TRUE]] :
         until \in [1 .. 2 -> {1, 3}]}

Site(hosts, tls, plain, allowHttp) ==
    [hosts |-> hosts, tls |-> tls, plain |-> plain, allowHttp |-> allowHttp]

\* Everything on both listeners, with sites that overlap: the certificate of
\* a.x may be listed or ACME's, that of *.x is listed, that of z is ACME's.
Both == [acme |-> TRUE, plain |-> TRUE,
         sites |-> <<Site({OnX}, TRUE, TRUE, FALSE),
                     Site({Ax}, TRUE, TRUE, FALSE),
                     Site({CatchAll, Z}, TRUE, TRUE, FALSE),
                     Site({BX}, TRUE, TRUE, TRUE)>>]

\* It compiles only while a listed certificate for a.x is current.
TlsOnly == [acme |-> TRUE, plain |-> FALSE, sites |-> <<Site({Ax}, TRUE, FALSE, FALSE)>>]

\* Listed certificates alone.
Listed == [acme |-> FALSE, plain |-> TRUE,
           sites |-> <<Site({OnX, Ip}, TRUE, TRUE, FALSE)>>]

\* Two sites for a name on one listener.
Twice == [Both EXCEPT !.sites[1].hosts = {OnX, Ax}]

MCConfigs == {Both, TlsOnly, Listed, Twice}
MCServerNames == {Ax, BX, <<"c", "x">>, <<"c", "a", "x">>, Z}
MCAddresses == {Ip}
MCHops == UNION {[1 .. n -> {t1, t2, u1, Malformed, Self}] : n \in 0 .. 3}

=============================================================================
