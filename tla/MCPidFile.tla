----------------------------- MODULE MCPidFile -----------------------------
(* Instances of PidFile for TLC.                                           *)
EXTENDS PidFile, TLC

ProcessSymmetry == Permutations(Instances) \cup Permutations(Reloads) \cup Permutations(Inodes)
=============================================================================
