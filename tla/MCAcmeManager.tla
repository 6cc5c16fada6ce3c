---------------------------- MODULE MCAcmeManager ----------------------------
(***************************************************************************)
(* AcmeManager for TLC.  ReloadRetry is the unit of time; MinRetry is two, *)
(* MaxRetry three; a certificate lives two units and is renewed after one. *)
(* One host joins and leaves.                                              *)
(***************************************************************************)
EXTENDS AcmeManager

CONSTANTS h1, h2

MCHostSets == {{h1}, {h1, h2}}

=============================================================================
