----------------------------- MODULE MCPairing -----------------------------
(* Pairing on one or two devices and a few connections. *)
EXTENDS Pairing, TLC

CONSTANTS c1, c2

\* Two devices that ask to pair compete for the serial host.
TwoDevices == c1 :> 1 @@ c2 :> 1

\* One device goes from unknown to a session, or pairs again after a failure.
OneDevice == c1 :> 3
=============================================================================
