---------------------------- MODULE AtomicSwitch ----------------------------
(***************************************************************************)
(* What a Server promises of configuration changes (server.go, the         *)
(* comments of Apply and Start): the configuration and all of its          *)
(* listeners change in one step or not at all.  A change that fails may    *)
(* only cost listeners, which are absent until the next one.               *)
(***************************************************************************)
CONSTANTS Names, Configs, Nil

VARIABLES
    config, \* the active configuration
    up,     \* whether the server is started
    table   \* the spec each name listens with, or Nil

vars == <<config, up, table>>

Nothing == [n \in Names |-> Nil]
Wanted(c) == IF c.off THEN Nothing ELSE c.specs

Init == config \in Configs /\ up = FALSE /\ table = Nothing

Start ==
    /\ ~up
    /\ up' = TRUE
    /\ table' = Wanted(config)
    /\ UNCHANGED config

Switch(c) ==
    /\ config' = c
    /\ table' = IF up THEN Wanted(c) ELSE table
    /\ UNCHANGED up

Lose(n) ==
    /\ up
    /\ table' = [table EXCEPT ![n] = Nil]
    /\ UNCHANGED <<config, up>>

Stop ==
    /\ up' = FALSE
    /\ table' = Nothing
    /\ UNCHANGED config

Next ==
    \/ Start \/ Stop
    \/ \E c \in Configs : Switch(c)
    \/ \E n \in Names : Lose(n)

Spec == Init /\ [][Next]_vars
=============================================================================
