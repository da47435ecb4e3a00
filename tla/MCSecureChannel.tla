-------------------------- MODULE MCSecureChannel ---------------------------
(* A stream of a few bytes in records of two. *)
EXTENDS SecureChannel
=============================================================================
