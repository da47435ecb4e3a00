-------------------------- MODULE MCFrameExchange ---------------------------
(***************************************************************************)
(* Two slots instead of the driver's three and three frames: the writer    *)
(* finds one slot read and the other one full, or both of them read, which *)
(* three slots need four frames for.                                       *)
(***************************************************************************)
EXTENDS FrameExchange
=============================================================================
