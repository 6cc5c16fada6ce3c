-------------------------- MODULE MCManagementApi --------------------------
(* Instances of ManagementApi for TLC.                                     *)
EXTENDS ManagementApi, TLC

ApiSymmetry == Permutations(Clients) \cup Permutations(Sites) \cup Permutations(Values)

\* Bound: failed Saves, crashes, edits and SIGHUPs together.
AtMostTwoTroubles == count.failures + count.crashes + count.edits + count.reloads <= 2
=============================================================================
