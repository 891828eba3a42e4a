------------------------------ MODULE MCScreen ------------------------------
(* Instances of Screen for TLC: chunks of 2, 1, 3, 5 and 1 bytes, one of    *)
(* which alone exceeds the scrollback.                                      *)
EXTENDS Screen

CONSTANTS g1, g2

UnevenEnds == [n \in 0..5 |-> <<0, 2, 3, 6, 11, 12>>[n + 1]]
=============================================================================
