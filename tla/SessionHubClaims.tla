-------------------------- MODULE SessionHubClaims --------------------------
(***************************************************************************)
(* What comments and documents of the repository say of the session hub and *)
(* the code does not do.  Each is refuted by a run of its own; the README    *)
(* quotes the statement and tells the counterexample.                        *)
(***************************************************************************)
EXTENDS SessionHub, TLC

CONSTANTS u1, u2, c1, c2, p1, p2

OneTab  == c1 :> u1
TwoTabs == c1 :> u1 @@ c2 :> u1

\* session_hub.rs:1138-1139: a session no WebSocket is connected to is reaped.
\* A handler that returns during the scrollback replay leaves its count behind,
\* so the idle clock never starts (ws.rs:488-490).
AbandonedSessionCloses ==
  (Live /\ \A c \in Conns : at[c] = "NoPty")
    ~> (row = "closed" \/ \E c \in Conns : at[c] # "NoPty")

\* docs/api.md:312: closing a session stops the PTY process.  A handler that
\* read the row before the close spawns a PTY after stop_session.
ClosedSessionStops ==
  \A g \in Ptys :
    (closes > 0 /\ closer = "idle" /\ pty[g] = "running") ~> (pty[g] # "running")

\* session_hub.rs:1142-1147: the reaper drops the entry and the PTY loop then
\* sees its last sender go and ends.  A client that stops reading in the middle
\* of its replay keeps a handler, and with it a sender, in a send that has no
\* timeout (ws.rs:470, 487).
DroppedShellEnds == UnlistedPtyFinishes

\* session_hub.rs:519-528, "Cleanup: remove from in-memory map": the loop of a dead PTY removes the
\* entry of its own PTY, or none.  It removes by session id, so the entry of
\* the PTY that succeeded it goes too.
LoopUnlistsOwn ==
  [][\A g \in Ptys : PtyUnlists(g) => entry \notin Ptys \ {g}]_vars
=============================================================================
