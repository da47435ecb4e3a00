--------------------------- MODULE MCNativeClient ---------------------------
(* The client of one host, over a few connections with short streams. *)
EXTENDS NativeClient
=============================================================================
