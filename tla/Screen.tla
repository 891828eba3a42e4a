------------------------------- MODULE Screen -------------------------------
(***************************************************************************)
(* How the terminal's output reaches the browsers: the PTY loop pushes each *)
(* chunk to the scrollback and the broadcast ring in one critical section;  *)
(* attach_to takes the scrollback's snapshot and subscribes in another; the *)
(* handler replays the snapshot and then hands the socket to a forwarder    *)
(* that pumps the ring.  A receiver that fell out of the ring is closed and *)
(* the page connects anew.                                                  *)
(***************************************************************************)
EXTENDS Integers, Sequences

CONSTANTS
  Pages,       \* browser pages; each has one connection at a time
  RingCap,     \* capacity of output_tx (256)
  ScrollCap,   \* SCROLLBACK_CAP_BYTES
  EndOf,       \* EndOf[n]: how many bytes the first n chunks have
  MaxChunks,   \* bound on chunks printed
  MaxAttaches  \* bound on connections per page

ASSUME ScreenAssumption ==
  /\ RingCap \in Nat \ {0}
  /\ ScrollCap \in Nat
  /\ MaxChunks \in Nat /\ MaxAttaches \in Nat
  /\ EndOf \in [0..MaxChunks -> Nat] /\ EndOf[0] = 0
  /\ \A m, n \in 0..MaxChunks : m <= n => EndOf[m] <= EndOf[n]

VARIABLES
  printed,   \* chunks pushed and broadcast so far
  oldest,    \* the first chunk in the scrollback
  total,     \* Scrollback.total, in bytes
  pc,        \* per page: "off", "replay", "live", "lagged"
  from,      \* first chunk of the snapshot; 0 while off
  cursor,    \* next chunk of the snapshot to replay
  next,      \* the receiver's position in the ring
  shown,     \* chunks sent on this connection
  term,      \* chunks the page wrote to its terminal, all connections together
  attaches   \* connections the page made

logVars  == <<printed, oldest, total>>
connVars == <<pc, from, cursor, next, shown, term, attaches>>
screenVars     == <<logVars, connVars>>

ScreenInit ==
  /\ printed = 0 /\ oldest = 1 /\ total = 0
  /\ pc = [p \in Pages |-> "off"]
  /\ from = [p \in Pages |-> 0]
  /\ cursor = [p \in Pages |-> 0]
  /\ next = [p \in Pages |-> 0]
  /\ shown = [p \in Pages |-> <<>>]
  /\ term = [p \in Pages |-> <<>>]
  /\ attaches = [p \in Pages |-> 0]

-----------------------------------------------------------------------------
(* The scrollback and the PTY loop *)

\* The bytes of the chunks j, ..., k, and of the n-th.
Bytes(j, k) == EndOf[k] - EndOf[j - 1]
SizeOf(n) == Bytes(n, n)

\* Scrollback::push pops chunks off the front until the rest fits: k is the
\* first chunk left once the n-th is in.
Trims(k, n) ==
  LET Left(j) == total + SizeOf(n) - Bytes(oldest, j - 1)
  IN  /\ Left(k) <= ScrollCap
      /\ k > oldest => Left(k - 1) > ScrollCap

\* mutant: the popped bytes stay in the total
PushForgetsPops ==
  /\ printed < MaxChunks
  /\ printed' = printed + 1
  /\ oldest' \in oldest..printed + 2 /\ Trims(oldest', printed + 1)
  /\ total' = total + SizeOf(printed + 1)
  /\ UNCHANGED connVars

\* push and broadcast, both under the scrollback lock
Push ==
  /\ printed < MaxChunks
  /\ printed' = printed + 1
  /\ oldest' \in oldest..printed + 2 /\ Trims(oldest', printed + 1)
  /\ total' = total + SizeOf(printed + 1) - Bytes(oldest, oldest' - 1)
  /\ UNCHANGED connVars

-----------------------------------------------------------------------------
(* One connection *)

Send(p, n) ==
  /\ shown' = [shown EXCEPT ![p] = Append(@, n)]
  /\ term' = [term EXCEPT ![p] = Append(@, n)]

Close(p) ==
  /\ pc' = [pc EXCEPT ![p] = "off"]
  /\ from' = [from EXCEPT ![p] = 0]
  /\ cursor' = [cursor EXCEPT ![p] = 0]
  /\ next' = [next EXCEPT ![p] = 0]
  /\ shown' = [shown EXCEPT ![p] = <<>>]
  /\ UNCHANGED <<logVars, term, attaches>>

\* attach_to: subscribe and snapshot under the scrollback lock.  The page keeps
\* what its terminal shows.
AttachTo(p) ==
  /\ pc[p] = "off"
  /\ attaches[p] < MaxAttaches
  /\ attaches' = [attaches EXCEPT ![p] = @ + 1]
  /\ pc' = [pc EXCEPT ![p] = "replay"]
  /\ from' = [from EXCEPT ![p] = oldest]
  /\ cursor' = [cursor EXCEPT ![p] = oldest]
  /\ next' = [next EXCEPT ![p] = printed + 1]
  /\ UNCHANGED <<logVars, shown, term>>

\* One frame of the replay; the receiver waits where it subscribed.
ReplayChunk(p) ==
  /\ pc[p] = "replay"
  /\ cursor[p] < next[p]
  /\ Send(p, cursor[p])
  /\ cursor' = [cursor EXCEPT ![p] = @ + 1]
  /\ UNCHANGED <<logVars, pc, from, next, attaches>>

\* The snapshot is sent; the socket goes to the forwarder.
StartForwarder(p) ==
  /\ pc[p] = "replay"
  /\ cursor[p] = next[p]
  /\ pc' = [pc EXCEPT ![p] = "live"]
  /\ UNCHANGED <<logVars, from, cursor, next, shown, term, attaches>>

\* The ring holds the last RingCap chunks.
InRing(n) == n <= printed /\ printed < n + RingCap

ForwardChunk(p) ==
  /\ pc[p] = "live"
  /\ InRing(next[p])
  /\ Send(p, next[p])
  /\ next' = [next EXCEPT ![p] = @ + 1]
  /\ UNCHANGED <<logVars, pc, from, cursor, attaches>>

\* mutant: recv() is simply called again, from the oldest chunk in the ring
SkipLagged(p) ==
  /\ pc[p] = "live"
  /\ next[p] <= printed /\ ~InRing(next[p])
  /\ next' = [next EXCEPT ![p] = printed + 1 - RingCap]
  /\ UNCHANGED <<logVars, pc, from, cursor, shown, term, attaches>>

LagUnnoticed(p) == FALSE   \* mutant: Lagged is not an error

\* RecvError::Lagged: the forwarder sends Close(TRANSIENT) and ends.
Lag(p) ==
  /\ pc[p] = "live"
  /\ next[p] <= printed /\ ~InRing(next[p])
  /\ pc' = [pc EXCEPT ![p] = "lagged"]
  /\ UNCHANGED <<logVars, from, cursor, next, shown, term, attaches>>

\* The page got the Close frame; its socket class schedules a reconnect.
PageCloses(p) ==
  /\ pc[p] = "lagged"
  /\ Close(p)

\* The connection breaks, or the session's end stops the forwarder, which may
\* have chunks left to forward.
Disconnect(p) ==
  /\ pc[p] \in {"replay", "live"}
  /\ Close(p)

-----------------------------------------------------------------------------
ServerStep(p) == ReplayChunk(p) \/ StartForwarder(p) \/ ForwardChunk(p) \/ Lag(p)

ScreenNext ==
  \/ Push
  \/ \E p \in Pages : ServerStep(p) \/ AttachTo(p) \/ PageCloses(p) \/ Disconnect(p)

ScreenSpec == ScreenInit /\ [][ScreenNext]_screenVars

\* Tasks run, and a page takes what is sent to it; nothing makes a page connect
\* or the program print.
FairScreenSpec == ScreenSpec /\ \A p \in Pages : WF_screenVars(ServerStep(p)) /\ WF_screenVars(PageCloses(p))

-----------------------------------------------------------------------------
(* Properties *)

ScreenTypeOK ==
  /\ printed \in Nat
  /\ oldest \in 1..printed + 1
  /\ total \in Nat
  /\ pc \in [Pages -> {"off", "replay", "live", "lagged"}]
  /\ from \in [Pages -> Nat]
  /\ cursor \in [Pages -> Nat]
  /\ next \in [Pages -> Nat]
  /\ shown \in [Pages -> Seq(Nat)]
  /\ term \in [Pages -> Seq(Nat)]
  /\ attaches \in [Pages -> Nat]

\* The scrollback is the longest end of the output that fits its cap, and its
\* running total is the size of what it holds, however sizes and pops mix.
ScrollbackIsWindow ==
  /\ total = Bytes(oldest, printed)
  /\ total <= ScrollCap
  /\ oldest > 1 => total + SizeOf(oldest - 1) > ScrollCap

\* ws.rs:479-485, session_hub.rs:416-441: on every connection the replayed
\* snapshot and the live broadcast together are a gapless, repetition-free
\* piece of the output, whenever the page attached and however it lagged.
Feed == INSTANCE ScreenFeed WITH Viewers <- Pages
FeedRefined == Feed!FeedSpec

\* FairScreenSpec: a connected page is shown all that was printed, or it is cut off
\* and knows that it has to reconnect.
CatchesUp ==
  \A p \in Pages : \A n \in 1..MaxChunks :
    (pc[p] \in {"replay", "live"} /\ printed >= n)
      ~> (pc[p] = "off" \/ next[p] > n)

\* ws.rs:548-552: a page whose output lagged reconnects, the scrollback is
\* replayed into fresh state, and its terminal shows the output as it is.  The
\* page keeps its terminal, so that the replay repeats what is already there.
TerminalShowsOutput ==
  \A p \in Pages : \A i, j \in 1..Len(term[p]) : i < j => term[p][i] < term[p][j]
=============================================================================
