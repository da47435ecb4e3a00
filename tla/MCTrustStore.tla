---------------------------- MODULE MCTrustStore ----------------------------
(* The trust store with two processes at a time and two peers. *)
EXTENDS TrustStore, TLC

CONSTANTS p1, p2, k1, k2

=============================================================================
