------------------------------ MODULE MCPtyPipe ------------------------------
(* Instances of PtyPipe for TLC: every channel holds one chunk.             *)
EXTENDS PtyPipe

CONSTANTS h1, h2
=============================================================================
