------------------------- MODULE MCScreeningAudio ---------------------------
(* ScreeningAudio with its assumptions, for TLC: its runs check liveness,  *)
(* so there is no symmetry.                                                *)
EXTENDS ScreeningAudio
=============================================================================
