--------------------------- MODULE MCHealthMonitor ---------------------------
(* A history of three samples is overwritten within the bound of four calls;
   the jitter ring holds two APT windows of two. *)
EXTENDS FrameStats

MCBytes == {2}
MCLatencies == {0, 2}
=============================================================================
