------------------------------ MODULE MCServing ------------------------------
EXTENDS Serving

CONSTANTS r1, r2, k1, k2, v1, v2, limits, bounds

Definition(timeout, body, rate, max) ==
    [timeout |-> timeout, body |-> body, rate |-> rate, max |-> max]

\* limits is listed by the listener and again by the route.
Usual == [chain |-> <<limits, limits>>, acme |-> FALSE, handler |-> "other",
          definition |-> limits :> Definition(TRUE, FALSE, TRUE, 1)]

\* Another policy comes, limits stays though no route lists it any more.
Open == [chain |-> <<bounds>>, acme |-> TRUE, handler |-> "script",
         definition |-> limits :> Usual.definition[limits]
                     @@ bounds :> Definition(TRUE, TRUE, FALSE, 0)]

MCConfigs == {Usual, Open}

=============================================================================
