----------------------------- MODULE MCRecording -----------------------------
(* Instances of Recording for TLC.                                          *)
EXTENDS Recording

CONSTANTS r1, r2, s1, s2
=============================================================================
