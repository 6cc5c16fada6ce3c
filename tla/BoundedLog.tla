------------------------------ MODULE BoundedLog ------------------------------
(***************************************************************************)
(* What Server.Events promises (server.go:501-506): the last MaxEvents     *)
(* events, oldest first.  A step may log several.                          *)
(***************************************************************************)
EXTENDS Naturals, Sequences

CONSTANTS Batches,   \* the sequences of events that a step logs
          MaxEvents  \* how many events are kept

VARIABLE log

LatestOf(s) == IF Len(s) <= MaxEvents THEN s
               ELSE SubSeq(s, Len(s) - MaxEvents + 1, Len(s))

Init == log \in {LatestOf(batch) : batch \in Batches}
Next == \E batch \in Batches : log' = LatestOf(log \o batch)
Spec == Init /\ [][Next]_log

=============================================================================
