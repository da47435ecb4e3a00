----------------------------- MODULE MCLauncher -----------------------------
(* Two sessions in the mode that adds a display through the CPU: one broker of *)
(* the display beside the host.  The mode is the same for both: the prompt of  *)
(* the first may be answered, and its manager may end, during the second.      *)
EXTENDS Launcher
=============================================================================
