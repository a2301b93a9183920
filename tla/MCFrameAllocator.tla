------------------------- MODULE MCFrameAllocator -------------------------
(* FrameAllocator for TLC. *)
EXTENDS FrameAllocator
=============================================================================
