--------------------------- MODULE MCHostSession ---------------------------
(* The host with a client of this version, or an older one beside it. *)
EXTENDS HostSession, TLC

CONSTANTS c1, o1

\* Two connections of a client compete with one of an older client.
TwoThenOld == c1 :> 2 @@ o1 :> 1

\* One client comes back often enough for three failures and one more.
OneAgain == c1 :> 4

=============================================================================
