-------------------------- MODULE MCLegacyClients --------------------------
(* Three connections of either client, with two frames in each: a second      *)
(* frame may replace the first one, and a session may be lost before, between *)
(* and after them.                                                            *)
EXTENDS LegacyClients
=============================================================================
