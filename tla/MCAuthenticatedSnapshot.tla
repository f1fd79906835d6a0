---------------------- MODULE MCAuthenticatedSnapshot ----------------------
(* A small instance of the snapshot store: one or two processes, journals   *)
(* of two records, two rollovers.                                           *)
EXTENDS AuthenticatedSnapshot, TLC

CONSTANTS v1, v2

=============================================================================
