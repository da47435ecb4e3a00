-------------------------- MODULE MCEncodePipeline --------------------------
(* One stream of each transport, with a short encoding. *)
EXTENDS EncodePipeline
=============================================================================
