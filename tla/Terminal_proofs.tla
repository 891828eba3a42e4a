--------------------------- MODULE Terminal_proofs ---------------------------
(***************************************************************************)
(* Proofs about the way of a terminal's data: PtyPipe, for channels of any  *)
(* capacity and any number of handlers, commands and chunks; Screen, for    *)
(* any pages, chunks and connections, a ring and a scrollback of any        *)
(* capacity; Reconnect, for any number of sockets and any retry budget.     *)
(***************************************************************************)
EXTENDS PtyPipe, Screen, Reconnect, TLAPS

-----------------------------------------------------------------------------
(* PtyPipe: the queues between the clients, the loop and the shell *)

\* What the threads know of each other; makes the conservation laws inductive.
ThreadsInv ==
  /\ writer = "ended" => child # "alive"
  /\ loop = "done" => child # "alive"
  /\ reader = "ended" /\ loop # "done" => child # "alive" /\ ttyOut = 0
  /\ cause = "none" <=> loop \in {"select", "writing"}
  /\ cause = "exit" => child # "alive" /\ delivered = emitted

\* A command is on its way or took effect at most once, and one whose write
\* failed is in neither place.
CommandsCounted ==
  cmdQ + One(loop = "writing") + inQ + One(writer = "writing") + ttyIn + consumed
    + One(cause = "write") <= typed

PipeInv ==
  /\ TypeOK
  /\ ThreadsInv
  /\ CommandsCounted
  /\ KeystrokesConserved
  /\ OutputConserved

LEMMA PipeInit == Init => PipeInv
<1> SUFFICES ASSUME Init PROVE PipeInv
  OBVIOUS
<1>1. TypeOK
  <2>1. unlisted \in BOOLEAN BY Zenon DEF Init
  <2>2. hpc \in [Handlers -> {"main", "sending", "gone"}] BY DEF Init
  <2> QED BY <2>1, <2>2, PipeAssumption DEF Init, TypeOK
<1>2. ThreadsInv BY DEF Init, ThreadsInv
<1>3. KeystrokesConserved /\ OutputConserved /\ CommandsCounted
  BY DEF Init, KeystrokesConserved, OutputConserved, CommandsCounted, One
<1> QED BY <1>1, <1>2, <1>3 DEF PipeInv

\* The main loops: only an accepted command touches the conserved quantities.
LEMMA HandlersKeep ==
  ASSUME PipeInv, NEW h \in Handlers,
         ClientTypes(h) \/ HandlerStep(h) \/ ClientLeaves(h)
  PROVE  PipeInv'
<1> USE PipeAssumption DEF PipeInv, TypeOK, ThreadsInv, KeystrokesConserved,
        OutputConserved, CommandsCounted, One, inVars, outVars, endVars
<1>1. CASE ClientTypes(h) BY <1>1 DEF ClientTypes
<1>2. CASE SendAccepted(h) BY <1>2 DEF SendAccepted
<1>3. CASE SendRefused(h) BY <1>3 DEF SendRefused
<1>4. CASE ShutdownSeen(h) BY <1>4 DEF ShutdownSeen
<1>5. CASE ClientLeaves(h) BY <1>5 DEF ClientLeaves
<1> QED BY <1>1, <1>2, <1>3, <1>4, <1>5 DEF HandlerStep

\* The I/O loop: a chunk moves one place on; a break happens on drained output.
LEMMA LoopKeeps == ASSUME PipeInv, LoopStep PROVE PipeInv'
<1> USE PipeAssumption DEF PipeInv, TypeOK, ThreadsInv, KeystrokesConserved,
        OutputConserved, CommandsCounted, One, inVars, outVars, endVars
<1>1. CASE LoopReadsOutput BY <1>1 DEF LoopReadsOutput
<1>2. CASE LoopTakesInput BY <1>2 DEF LoopTakesInput
<1>3. CASE LoopResizes BY <1>3 DEF LoopResizes
<1>4. CASE LoopWrites BY <1>4 DEF LoopWrites
<1>5. CASE LoopWriteFails BY <1>5 DEF LoopWriteFails, LoopBreaks
<1>6. CASE LoopSeesExit BY <1>6 DEF LoopSeesExit, LoopBreaks
<1>7. CASE LoopLosesSenders BY <1>7 DEF LoopLosesSenders, LoopBreaks
<1>8. CASE LoopCleanup BY <1>8 DEF LoopCleanup
<1> QED
  BY <1>1, <1>2, <1>3, <1>4, <1>5, <1>6, <1>7, <1>8 DEF LoopStep

\* The blocking threads and the child.
LEMMA ThreadsKeep ==
  ASSUME PipeInv,
         WriterStep \/ ReaderStep \/ ChildReads \/ ChildPrints \/ ChildExits
  PROVE  PipeInv'
<1> USE PipeAssumption DEF PipeInv, TypeOK, ThreadsInv, KeystrokesConserved,
        OutputConserved, CommandsCounted, One, inVars, outVars, endVars
<1>1. CASE WriterTakes BY <1>1 DEF WriterTakes
<1>2. CASE WriterWrites BY <1>2 DEF WriterWrites
<1>3. CASE WriterEnds BY <1>3 DEF WriterEnds
<1>4. CASE ReaderReads BY <1>4 DEF ReaderReads
<1>5. CASE ReaderSends BY <1>5 DEF ReaderSends
<1>6. CASE ReaderEnds BY <1>6 DEF ReaderEnds
<1>7. CASE ChildReads BY <1>7 DEF ChildReads
<1>8. CASE ChildPrints BY <1>8 DEF ChildPrints
<1>9. CASE ChildExits BY <1>9 DEF ChildExits
<1> QED
  BY <1>1, <1>2, <1>3, <1>4, <1>5, <1>6, <1>7, <1>8, <1>9
     DEF WriterStep, ReaderStep

LEMMA PipeNext == PipeInv /\ [Next]_vars => PipeInv'
<1> SUFFICES ASSUME PipeInv, [Next]_vars PROVE PipeInv'
  OBVIOUS
<1>1. CASE Unlist
  BY <1>1 DEF Unlist, PipeInv, TypeOK, ThreadsInv, KeystrokesConserved,
     OutputConserved, CommandsCounted, One, inVars, outVars
<1>2. CASE UNCHANGED vars
  BY <1>2 DEF vars, inVars, outVars, endVars, PipeInv, TypeOK, ThreadsInv,
     KeystrokesConserved, OutputConserved, CommandsCounted, One
<1> QED
  BY <1>1, <1>2, HandlersKeep, LoopKeeps, ThreadsKeep DEF Next

\* No channel ever holds more than its capacity.
THEOREM PipeTypeCorrect == Spec => []TypeOK
  BY PipeInit, PipeNext, PTL DEF Spec, PipeInv

\* While the shell runs no accepted command is lost or duplicated.
THEOREM NoKeystrokeLost == Spec => []KeystrokesConserved
  BY PipeInit, PipeNext, PTL DEF Spec, PipeInv

\* Output read from the shell is broadcast, queued or still in the reader's
\* hand until the loop that drains it has gone: never dropped on the way.
THEOREM NoOutputLost == Spec => []OutputConserved
  BY PipeInit, PipeNext, PTL DEF Spec, PipeInv

\* Nothing is lost between the hub and the shell, in either direction.
THEOREM PipeLosesNothing == Spec => []NothingLost
  BY NoKeystrokeLost, NoOutputLost, PTL DEF NothingLost

\* A loop that ends by itself has broadcast all the shell's output, unless a
\* command it accepted met the dead terminal.
THEOREM LastScreenDelivered == Spec => []FinalOutputDelivered
<1>1. PipeInv => FinalOutputDelivered
  BY PipeAssumption
     DEF PipeInv, TypeOK, ThreadsInv, CommandsCounted, FinalOutputDelivered, One
<1> QED BY <1>1, PipeInit, PipeNext, PTL DEF Spec

-----------------------------------------------------------------------------
(* Screen: every connection is shown a gapless piece of the output *)

FeedTypes ==
  /\ printed \in Nat
  /\ oldest \in 1..printed + 1
  /\ pc \in [Pages -> {"off", "replay", "live", "lagged"}]
  /\ from \in [Pages -> Nat]
  /\ cursor \in [Pages -> Nat]
  /\ next \in [Pages -> Nat]
  /\ shown \in [Pages -> Seq(Nat)]

\* Where a connection is in the output: what it was shown ends where the replay
\* stands, or, once that is over, where its receiver stands.
Placed ==
  \A p \in Pages :
    /\ pc[p] = "off" => from[p] = 0 /\ shown[p] = <<>>
    /\ pc[p] # "off" => from[p] > 0 /\ next[p] <= printed + 1
    /\ pc[p] = "replay" =>
         cursor[p] = from[p] + Len(shown[p]) /\ cursor[p] <= next[p]
    /\ pc[p] \in {"live", "lagged"} => next[p] = from[p] + Len(shown[p])

FeedInv == FeedTypes /\ Placed

LEMMA FeedInit == ScreenInit => FeedInv
BY DEF ScreenInit, FeedInv, FeedTypes, Placed

LEMMA PushKeeps ==
  ASSUME FeedInv, Push
  PROVE  FeedInv'
<1>1. FeedTypes'
  BY DEF FeedInv, FeedTypes, Push, connVars, Trims
<1>2. Placed'
  BY DEF FeedInv, FeedTypes, Placed, Push, connVars
<1> QED BY <1>1, <1>2 DEF FeedInv

LEMMA CloseKeeps ==
  ASSUME FeedInv, NEW p \in Pages, Close(p)
  PROVE  FeedInv'
<1>1. FeedTypes'
  BY DEF FeedInv, FeedTypes, Close, logVars
<1>2. Placed'
  BY DEF FeedInv, FeedTypes, Placed, Close, logVars
<1> QED BY <1>1, <1>2 DEF FeedInv

\* A chunk sent to p lengthens what p was shown by one, and changes nothing of
\* another page.
LEMMA SendAppends ==
  ASSUME FeedTypes, NEW p \in Pages, NEW n \in Nat, Send(p, n)
  PROVE  /\ shown' \in [Pages -> Seq(Nat)]
         /\ shown'[p] = Append(shown[p], n)
         /\ Len(shown'[p]) = Len(shown[p]) + 1
         /\ \A q \in Pages \ {p} : shown'[q] = shown[q]
<1>1. /\ shown'[p] = Append(shown[p], n)
      /\ \A q \in Pages \ {p} : shown'[q] = shown[q]
  BY DEF FeedTypes, Send
<1>2. shown' \in [Pages -> Seq(Nat)]
  BY DEF FeedTypes, Send
<1>3. Len(shown'[p]) = Len(shown[p]) + 1
  BY <1>1 DEF FeedTypes
<1> QED BY <1>1, <1>2, <1>3

LEMMA ConnectionKeeps ==
  ASSUME FeedInv, NEW p \in Pages,
         ServerStep(p) \/ AttachTo(p) \/ PageCloses(p) \/ Disconnect(p)
  PROVE  FeedInv'
<1> USE DEF FeedInv, logVars
<1>1. CASE ReplayChunk(p)
  <2>1. Send(p, cursor[p]) /\ cursor[p] \in Nat
    BY <1>1 DEF ReplayChunk, FeedTypes
  <2>2. FeedTypes'
    <3>1. shown' \in [Pages -> Seq(Nat)] BY <2>1, SendAppends
    <3>2. cursor' \in [Pages -> Nat] BY <1>1, <2>1 DEF ReplayChunk, FeedTypes
    <3> QED BY <1>1, <3>1, <3>2 DEF ReplayChunk, FeedTypes
  <2>3. Placed'
    <3>0. /\ Len(shown'[p]) = Len(shown[p]) + 1
          /\ \A q \in Pages \ {p} : shown'[q] = shown[q]
      BY <2>1, SendAppends
    <3>1. /\ cursor'[p] = cursor[p] + 1
          /\ \A q \in Pages \ {p} : cursor'[q] = cursor[q]
      BY <1>1 DEF ReplayChunk, FeedTypes
    <3>2. /\ pc' = pc /\ from' = from /\ next' = next /\ printed' = printed
          /\ pc[p] = "replay" /\ cursor[p] < next[p]
      BY <1>1 DEF ReplayChunk
    <3>3. Len(shown[p]) \in Nat /\ from[p] \in Nat /\ cursor[p] \in Nat
          /\ next[p] \in Nat
      BY DEF FeedTypes
    <3> SUFFICES ASSUME NEW q \in Pages
                 PROVE  /\ pc'[q] = "off" => from'[q] = 0 /\ shown'[q] = <<>>
                        /\ pc'[q] # "off" => from'[q] > 0 /\ next'[q] <= printed' + 1
                        /\ pc'[q] = "replay" =>
                             cursor'[q] = from'[q] + Len(shown'[q]) /\ cursor'[q] <= next'[q]
                        /\ pc'[q] \in {"live", "lagged"} =>
                             next'[q] = from'[q] + Len(shown'[q])
      BY DEF Placed
    <3>4. /\ from[p] > 0 /\ next[p] <= printed + 1 /\ printed \in Nat
          /\ cursor[p] = from[p] + Len(shown[p])
      BY <3>2 DEF Placed, FeedTypes
    <3>5. CASE q = p
      <4>1. cursor'[p] <= next[p] /\ cursor'[p] = from[p] + Len(shown'[p])
        <5>1. Len(shown'[p]) = Len(shown[p]) + 1 /\ cursor'[p] = cursor[p] + 1 BY <3>0, <3>1
        <5>2. cursor[p] < next[p] /\ cursor[p] = from[p] + Len(shown[p]) BY <3>2, <3>4
        <5> HIDE DEF FeedInv
        <5> QED BY <5>1, <5>2, <3>3
      <4>2. pc'[q] = "replay" /\ from'[q] > 0 /\ next'[q] <= printed' + 1
        BY <3>2, <3>4, <3>5
      <4> QED BY <3>2, <3>5, <4>1, <4>2
    <3>6. CASE q # p
      BY <3>0, <3>1, <3>2, <3>6 DEF Placed
    <3> QED BY <3>5, <3>6
  <2> QED BY <2>2, <2>3
<1>2. CASE StartForwarder(p)
  <2>1. FeedTypes' BY <1>2 DEF StartForwarder, FeedTypes
  <2>2. Placed' BY <1>2 DEF StartForwarder, FeedTypes, Placed
  <2> QED BY <2>1, <2>2
<1>3. CASE ForwardChunk(p)
  <2>1. Send(p, next[p]) /\ next[p] \in Nat /\ next[p] <= printed
    BY <1>3 DEF ForwardChunk, InRing, FeedTypes
  <2>2. FeedTypes'
    <3>1. shown' \in [Pages -> Seq(Nat)] BY <2>1, SendAppends
    <3>2. next' \in [Pages -> Nat] BY <1>3, <2>1 DEF ForwardChunk, FeedTypes
    <3> QED BY <1>3, <3>1, <3>2 DEF ForwardChunk, FeedTypes
  <2>3. Placed'
    <3>0. /\ Len(shown'[p]) = Len(shown[p]) + 1
          /\ \A q \in Pages \ {p} : shown'[q] = shown[q]
      BY <2>1, SendAppends
    <3>1. /\ next'[p] = next[p] + 1
          /\ \A q \in Pages \ {p} : next'[q] = next[q]
      BY <1>3 DEF ForwardChunk, FeedTypes
    <3>2. /\ pc' = pc /\ from' = from /\ cursor' = cursor /\ printed' = printed
          /\ pc[p] = "live"
      BY <1>3 DEF ForwardChunk
    <3>3. Len(shown[p]) \in Nat /\ from[p] \in Nat /\ cursor[p] \in Nat
          /\ next[p] \in Nat
      BY DEF FeedTypes
    <3> SUFFICES ASSUME NEW q \in Pages
                 PROVE  /\ pc'[q] = "off" => from'[q] = 0 /\ shown'[q] = <<>>
                        /\ pc'[q] # "off" => from'[q] > 0 /\ next'[q] <= printed' + 1
                        /\ pc'[q] = "replay" =>
                             cursor'[q] = from'[q] + Len(shown'[q]) /\ cursor'[q] <= next'[q]
                        /\ pc'[q] \in {"live", "lagged"} =>
                             next'[q] = from'[q] + Len(shown'[q])
      BY DEF Placed
    <3>4. /\ from[p] > 0 /\ printed \in Nat /\ next[p] <= printed
          /\ next[p] = from[p] + Len(shown[p])
      BY <2>1, <3>2 DEF Placed, FeedTypes
    <3>5. CASE q = p
      <4>1. next'[p] <= printed + 1 /\ next'[p] = from[p] + Len(shown'[p])
        <5>1. Len(shown'[p]) = Len(shown[p]) + 1 /\ next'[p] = next[p] + 1 BY <3>0, <3>1
        <5>2. next[p] <= printed /\ next[p] = from[p] + Len(shown[p]) /\ printed \in Nat
          BY <3>4
        <5> HIDE DEF FeedInv
        <5>3. next'[p] <= printed + 1 BY <5>1, <5>2, <3>3
        <5>4. next'[p] = from[p] + Len(shown'[p]) BY <5>1, <5>2, <3>3
        <5> QED BY <5>3, <5>4
      <4>2. pc'[q] = "live" /\ from'[q] > 0
        BY <3>2, <3>4, <3>5
      <4> QED BY <3>2, <3>5, <4>1, <4>2
    <3>6. CASE q # p
      BY <3>0, <3>1, <3>2, <3>6 DEF Placed
    <3> QED BY <3>5, <3>6
  <2> QED BY <2>2, <2>3
<1>4. CASE Lag(p)
  <2>1. FeedTypes' BY <1>4 DEF Lag, FeedTypes
  <2>2. Placed' BY <1>4 DEF Lag, FeedTypes, Placed
  <2> QED BY <2>1, <2>2
<1>5. CASE AttachTo(p)
  <2>1. FeedTypes' BY <1>5 DEF AttachTo, FeedTypes
  <2>2. Len(shown[p]) = 0 /\ from'[p] = oldest /\ oldest > 0
    BY <1>5 DEF AttachTo, FeedTypes, Placed
  <2>3. Placed' BY <1>5, <2>2 DEF AttachTo, FeedTypes, Placed
  <2> QED BY <2>1, <2>3
<1>6. CASE PageCloses(p)
  BY <1>6, CloseKeeps DEF PageCloses
<1>7. CASE Disconnect(p)
  BY <1>7, CloseKeeps DEF Disconnect
<1> QED BY <1>1, <1>2, <1>3, <1>4, <1>5, <1>6, <1>7 DEF ServerStep

LEMMA FeedStep == FeedInv /\ [ScreenNext]_screenVars => FeedInv'
<1> SUFFICES ASSUME FeedInv, [ScreenNext]_screenVars PROVE FeedInv'
  OBVIOUS
<1>1. CASE UNCHANGED screenVars
  BY <1>1 DEF screenVars, logVars, connVars, FeedInv, FeedTypes, Placed
<1>2. CASE ScreenNext
  BY <1>2, PushKeeps, ConnectionKeeps DEF ScreenNext
<1> QED BY <1>1, <1>2

THEOREM FeedInvariant == ScreenSpec => []FeedInv
BY FeedInit, FeedStep, PTL DEF ScreenSpec

-----------------------------------------------------------------------------
(* Every step is a step of the feed, or none of its business. *)

LEMMA FeedMapsInit == ScreenInit => Feed!Init
BY DEF ScreenInit, Feed!Init

LEMMA ConnectionMaps ==
  ASSUME FeedInv, NEW p \in Pages,
         ServerStep(p) \/ AttachTo(p) \/ PageCloses(p) \/ Disconnect(p)
  PROVE  [Feed!Next]_(Feed!feedVars)
<1> USE DEF FeedInv, logVars
<1>1. CASE ReplayChunk(p)
  <2>1. from[p] # 0 /\ cursor[p] = Feed!Due(p) /\ Feed!Due(p) <= printed
    BY <1>1 DEF ReplayChunk, FeedTypes, Placed, Feed!Due
  <2>2. Feed!Show(p)
    BY <1>1, <2>1 DEF ReplayChunk, Send, Feed!Show
  <2> QED BY <2>2 DEF Feed!Next
<1>2. CASE ForwardChunk(p)
  <2>1. from[p] # 0 /\ next[p] = Feed!Due(p) /\ Feed!Due(p) <= printed
    BY <1>2 DEF ForwardChunk, InRing, FeedTypes, Placed, Feed!Due
  <2>2. Feed!Show(p)
    BY <1>2, <2>1 DEF ForwardChunk, Send, Feed!Show
  <2> QED BY <2>2 DEF Feed!Next
<1>3. CASE StartForwarder(p) \/ Lag(p)
  BY <1>3 DEF StartForwarder, Lag, Feed!feedVars
<1>4. CASE AttachTo(p)
  <2>1. from[p] = 0 /\ oldest \in 1..printed + 1
    BY <1>4 DEF AttachTo, FeedTypes, Placed
  <2>2. Feed!Attach(p)
    BY <1>4, <2>1 DEF AttachTo, Feed!Attach
  <2> QED BY <2>2 DEF Feed!Next
<1>5. CASE PageCloses(p) \/ Disconnect(p)
  <2>1. Feed!CutOff(p)
    BY <1>5 DEF PageCloses, Disconnect, Close, Feed!CutOff
  <2> QED BY <2>1 DEF Feed!Next
<1> QED BY <1>1, <1>2, <1>3, <1>4, <1>5 DEF ServerStep

LEMMA FeedMapsStep == FeedInv /\ [ScreenNext]_screenVars => [Feed!Next]_(Feed!feedVars)
<1> SUFFICES ASSUME FeedInv, [ScreenNext]_screenVars PROVE [Feed!Next]_(Feed!feedVars)
  OBVIOUS
<1>1. CASE UNCHANGED screenVars
  BY <1>1 DEF screenVars, logVars, connVars, Feed!feedVars
<1>2. CASE Push
  <2>1. Feed!PrintChunk BY <1>2 DEF Push, connVars, Feed!PrintChunk
  <2> QED BY <2>1 DEF Feed!Next
<1>3. CASE \E p \in Pages : ServerStep(p) \/ AttachTo(p) \/ PageCloses(p) \/ Disconnect(p)
  BY <1>3, ConnectionMaps
<1> QED BY <1>1, <1>2, <1>3 DEF ScreenNext

\* session_hub.rs:596-613: replay and broadcast line up without gap or
\* duplication.
THEOREM ScreenImplementsFeed == ScreenSpec => FeedRefined
<1>1. ScreenInit => Feed!Init BY FeedMapsInit
<1>2. FeedInv /\ [ScreenNext]_screenVars => [Feed!Next]_(Feed!feedVars) BY FeedMapsStep
<1>3. ScreenSpec => []FeedInv BY FeedInvariant
<1> QED BY <1>1, <1>2, <1>3, PTL DEF ScreenSpec, FeedRefined, Feed!FeedSpec

-----------------------------------------------------------------------------
(* The scrollback *)

LogTypes ==
  /\ printed \in 0..MaxChunks
  /\ oldest \in 1..printed + 1
  /\ total \in Nat

LogInv == LogTypes /\ ScrollbackIsWindow

LEMMA LogInit == ScreenInit => LogInv
BY ScreenAssumption
   DEF ScreenInit, LogInv, LogTypes, ScrollbackIsWindow, Bytes, SizeOf

LEMMA LogStep == LogInv /\ [ScreenNext]_screenVars => LogInv'
<1> SUFFICES ASSUME LogInv, [ScreenNext]_screenVars PROVE LogInv'
  OBVIOUS
<1>1. CASE Push
  <2> DEFINE n == printed + 1
             k == oldest'
  <2>1. /\ n \in 1..MaxChunks /\ printed' = n /\ k \in oldest..n + 1
        /\ printed \in Nat /\ oldest \in 1..n /\ total \in Nat
        /\ total = EndOf[printed] - EndOf[oldest - 1]
    BY <1>1, ScreenAssumption
       DEF Push, LogInv, LogTypes, ScrollbackIsWindow, Bytes
  <2>a. /\ n \in Nat /\ k \in Nat /\ oldest \in Nat /\ MaxChunks \in Nat
        /\ 1 <= oldest /\ oldest <= k /\ k <= n + 1 /\ n <= MaxChunks
    BY <2>1, ScreenAssumption
  <2>b. /\ printed \in 0..MaxChunks /\ n \in 0..MaxChunks /\ printed <= n
        /\ oldest - 1 \in 0..MaxChunks
        /\ k - 1 \in 0..MaxChunks /\ k - 1 <= n
        /\ k > 1 => k - 2 \in 0..MaxChunks
    <3> HIDE DEF k
    <3> QED BY <2>1, <2>a
  <2>2. /\ EndOf[printed] \in Nat /\ EndOf[n] \in Nat /\ EndOf[oldest - 1] \in Nat
        /\ EndOf[k - 1] \in Nat /\ EndOf[k - 1] <= EndOf[n]
        /\ EndOf[printed] <= EndOf[n]
    <3> HIDE DEF n, k
    <3> QED BY <2>b, ScreenAssumption
  <2>0. SizeOf(n) = EndOf[n] - EndOf[printed]
    <3>1. n - 1 = printed BY <2>1
    <3> QED BY <3>1 DEF SizeOf, Bytes
  <2>3. total' = EndOf[n] - EndOf[k - 1] /\ total' \in Nat
    <3>1. total' = total + SizeOf(n) - Bytes(oldest, k - 1) BY <1>1 DEF Push
    <3>2. Bytes(oldest, k - 1) = EndOf[k - 1] - EndOf[oldest - 1] BY DEF Bytes
    <3> HIDE DEF n, k
    <3> QED BY <2>0, <2>1, <2>2, <3>1, <3>2
  <2>4. total' <= ScrollCap
    BY <1>1, <2>1, <2>2, <2>3, ScreenAssumption DEF Push, Trims, Bytes, SizeOf
  <2>5. k > 1 => total' + SizeOf(k - 1) > ScrollCap
    <3>1. CASE k = oldest
      <4>1. total' >= total BY <2>1, <2>2, <2>3, <3>1
      <4>2. k > 1 => total + SizeOf(k - 1) > ScrollCap
        BY <3>1 DEF LogInv, ScrollbackIsWindow
      <4>3. ASSUME k > 1 PROVE SizeOf(k - 1) \in Int
        <5>1. (k - 1) - 1 = k - 2 BY <2>a
        <5>2. EndOf[k - 2] \in Nat BY <2>b, <4>3, ScreenAssumption
        <5> HIDE DEF k
        <5> QED BY <2>2, <5>1, <5>2 DEF SizeOf, Bytes
      <4> HIDE DEF k
      <4> QED BY <2>1, <2>3, <4>1, <4>2, <4>3, ScreenAssumption
    <3>2. CASE k > oldest
      <4>1. total + SizeOf(n) - Bytes(oldest, k - 2) > ScrollCap
        BY <1>1, <2>1, <3>2 DEF Push, Trims
      <4>2. k - 2 \in 0..MaxChunks /\ EndOf[k - 2] \in Nat
        <5>1. k > 1
          <6> HIDE DEF n, k
          <6> QED BY <2>a, <3>2
        <5> HIDE DEF n, k
        <5> QED BY <2>b, <5>1, ScreenAssumption
      <4>3. total + SizeOf(n) - Bytes(oldest, k - 2) = EndOf[n] - EndOf[k - 2]
        <5>1. Bytes(oldest, k - 2) = EndOf[k - 2] - EndOf[oldest - 1] BY DEF Bytes
        <5> HIDE DEF n, k
        <5> QED BY <2>0, <2>1, <2>2, <4>2, <5>1
      <4>4. total' + SizeOf(k - 1) = EndOf[n] - EndOf[k - 2]
        <5>1. SizeOf(k - 1) = EndOf[k - 1] - EndOf[k - 2]
          <6>1. (k - 1) - 1 = k - 2 BY <2>1
          <6> QED BY <6>1 DEF SizeOf, Bytes
        <5> HIDE DEF n, k
        <5> QED BY <2>2, <2>3, <4>2, <5>1
      <4> QED BY <4>1, <4>3, <4>4
    <3> QED BY <2>1, <3>1, <3>2
  <2>6. LogTypes' BY <2>1, <2>3 DEF LogTypes
  <2> QED
    BY <2>1, <2>3, <2>4, <2>5, <2>6 DEF LogInv, ScrollbackIsWindow, Bytes
<1>2. CASE UNCHANGED logVars
  BY <1>2 DEF logVars, LogInv, LogTypes, ScrollbackIsWindow, Bytes, SizeOf
<1>3. ScreenNext => Push \/ UNCHANGED logVars
  BY DEF ScreenNext, ServerStep, ReplayChunk, StartForwarder, ForwardChunk, Lag,
     AttachTo, PageCloses, Disconnect, Close
<1> QED BY <1>1, <1>2, <1>3 DEF screenVars

\* session_hub.rs:80-90: whatever the sizes of the chunks, the running total is
\* the size of what the scrollback holds, and it holds the longest end of the
\* output that fits.
THEOREM ScrollbackCorrect == ScreenSpec => []ScrollbackIsWindow
BY LogInit, LogStep, PTL DEF ScreenSpec, LogInv

-----------------------------------------------------------------------------
(* Reconnect: the line of a page to the gateway *)

\* Where the socket is while the page loads, is open, or was left.
LinePhases ==
  /\ page = "loading" => /\ timers = 0 /\ attempts = 0 /\ streak = 0
                         /\ \A s \in Sockets : stage[s] = "unused"
  /\ page = "open" => /\ ws \in Sockets /\ ~intended
                      /\ stage[ws] \in {"dialing", "open", "closed"}
                      /\ \A s \in Sockets : stage[s] # "closing"
  /\ page = "left" => intended

\* The retries dialed and due never run ahead of reconnectAttempts.
LineBudget == streak <= attempts + 1 /\ (timers = 1 => streak <= attempts)

\* What is over for good has nothing under way.
LineEnds ==
  /\ retryToast => page = "open" /\ status = "giveup"
  /\ status = "disconnected" => page = "left"
  /\ status = "error" =>
       /\ page # "loading" /\ timers = 0
       /\ \A s \in Sockets : stage[s] \in {"unused", "closed"}

LineCore ==
  /\ OneLine
  /\ LinePhases
  /\ LeftIsQuiet
  /\ LineBudget
  /\ StatusIsTrue
  /\ LineEnds

LineInv == LineTypeOK /\ LineCore

coreVars == <<pageVars, sockVars, stage, attached, streak>>

\* Every initial world satisfies the invariant.
LEMMA LineStart == LineInit => LineInv
<1> SUFFICES ASSUME LineInit PROVE LineInv
  OBVIOUS
<1>1. LineTypeOK
  <2>1. inbox \in [Sockets -> Seq(Frames)] BY DEF LineInit
  <2>2. /\ ended \in BOOLEAN /\ signedIn \in BOOLEAN /\ retryToast \in BOOLEAN
        /\ intended \in BOOLEAN /\ valid \in BOOLEAN /\ enabled \in BOOLEAN
    BY Zenon DEF LineInit
  <2> QED BY <2>1, <2>2, ReconnectAssumption DEF LineInit, LineTypeOK
<1>2. LineCore
  BY ReconnectAssumption DEF LineInit, LineCore, OneLine, LinePhases, LeftIsQuiet,
     LineBudget, StatusIsTrue, LineEnds, Up
<1> QED BY <1>1, <1>2 DEF LineInv

\* The core says nothing of frames, handlers and the world.
LEMMA CoreKeeps == LineCore /\ UNCHANGED coreVars => LineCore'
BY DEF coreVars, pageVars, sockVars, LineCore, OneLine, LinePhases, LeftIsQuiet,
   LineBudget, StatusIsTrue, LineEnds, Up

\* The gateway, the network and the world touch no state of the page.
LEMMA OthersKeepCore ==
  ASSUME NEW s \in Sockets, GatewayStep(s) \/ Cut(s) \/ WorldChanges
  PROVE  UNCHANGED coreVars
BY DEF GatewayStep, HandshakeStep, HandshakeLooks, HandshakeLaunches,
   HandshakeFails, JoinTimesOut, Lags, Stopped, Evicted, ServerCloses,
   Cut, WorldChanges, coreVars, pageVars, sockVars, worldVars, wireVars

\* Dialing with no connection up and no timer left: one line, and it connects.
LEMMA DialKeepsCore ==
  ASSUME LineInv, NEW s \in Sockets, DoConnect(s),
         page' = "open", ~intended', ~retryToast', timers' = 0,
         \A r \in Sockets : ~Up(r) /\ stage[r] # "closing",
         attempts' \in Nat, streak' \in Nat, streak' <= attempts' + 1
  PROVE  LineCore'
<1>1. /\ ws' = s /\ status' = "connecting"
      /\ stage' = [stage EXCEPT ![s] = "dialing"] /\ attached'[s]
  BY DEF DoConnect, LineInv, LineTypeOK
<1>2. \A r \in Sockets : stage'[r] = IF r = s THEN "dialing" ELSE stage[r]
  BY <1>1 DEF LineInv, LineTypeOK
<1>3. OneLine' BY <1>1, <1>2 DEF OneLine, Up
<1>4. LinePhases' BY <1>1, <1>2 DEF LinePhases
<1>5. StatusIsTrue' BY <1>1, <1>2 DEF StatusIsTrue, Up
<1>6. LeftIsQuiet' BY DEF LeftIsQuiet
<1>7. LineBudget'
  <2>1. timers' # 1 OBVIOUS
  <2>2. streak' <= attempts' + 1 OBVIOUS
  <2> QED BY <2>1, <2>2, Zenon DEF LineBudget
<1>8. LineEnds' BY <1>1, Zenon DEF LineEnds
<1> QED BY <1>3, <1>4, <1>5, <1>6, <1>7, <1>8 DEF LineCore

\* The page's own steps: mounting, pressing Reconnect or Retry, leaving.
LEMMA PageKeepsCore == LineInv /\ PageStep => LineCore'
<1> SUFFICES ASSUME LineInv, PageStep PROVE LineCore'
  OBVIOUS
<1>1. ASSUME NEW s \in Sockets, Mount(s) PROVE LineCore'
  <2>1. /\ DoConnect(s) /\ page' = "open" /\ ~intended' /\ timers' = 0
        /\ attempts' = 0 /\ streak' = 1
    BY <1>1 DEF Mount, StartOver, LineInv, LineCore, LinePhases
  <2>2. ~retryToast' BY <1>1 DEF Mount, LineInv, LineCore, LineEnds
  <2>3. \A r \in Sockets : ~Up(r) /\ stage[r] # "closing"
    BY <1>1 DEF Mount, Up, LineInv, LineCore, LinePhases
  <2> QED BY <2>1, <2>2, <2>3, DialKeepsCore
<1>2. ASSUME NEW s \in Sockets, PressReconnect(s) \/ PressRetry(s) PROVE LineCore'
  <2>1. page = "open" /\ status = "giveup"
    BY <1>2 DEF PressReconnect, PressRetry, LineInv, LineCore, LineEnds
  <2>2. timers = 0 /\ \A r \in Sockets : ~Up(r) /\ stage[r] # "closing"
    BY <2>1 DEF LineInv, LineCore, StatusIsTrue, LinePhases
  <2>3. /\ DoConnect(s) /\ page' = "open" /\ ~intended' /\ timers' = 0
        /\ attempts' = 0 /\ streak' = 1 /\ ~retryToast'
    BY <1>2, <2>1, <2>2 DEF PressReconnect, PressRetry, ReconnectNow, StartOver
  <2> QED BY <2>2, <2>3, DialKeepsCore
<1>3. CASE DismissToast
  BY <1>3 DEF DismissToast, sockVars, wireVars, LineInv, LineCore, OneLine,
     LinePhases, LeftIsQuiet, LineBudget, StatusIsTrue, LineEnds, Up
<1>4. CASE Leave
  <2>1. timers' = 0
    BY <1>4 DEF Leave, LineInv, LineTypeOK, LineCore, OneLine
  <2>2. \A s \in Sockets : stage'[s] = IF Up(s) THEN "closing" ELSE stage[s]
    BY <1>4 DEF Leave, Up, LineInv, LineCore, OneLine
  <2>3. OneLine' /\ LeftIsQuiet' /\ LinePhases' /\ StatusIsTrue'
    BY <1>4, <2>1, <2>2
       DEF Leave, Up, OneLine, LeftIsQuiet, LinePhases, StatusIsTrue
  <2>4. LineBudget' /\ LineEnds'
    BY <1>4, <2>1, <2>2 DEF Leave, Up, LineInv, LineCore, LineBudget, LineEnds
  <2> QED BY <2>3, <2>4 DEF LineCore
<1> QED BY <1>1, <1>2, <1>3, <1>4 DEF PageStep

\* The browser's events: open, message, close, and the timer.
LEMMA BrowserKeepsCore ==
  ASSUME LineInv, NEW s \in Sockets, BrowserStep(s)
  PROVE  LineCore'
<1>1. CASE Opens(s)
  <2>1. Up(s) /\ stage' = [stage EXCEPT ![s] = "open"]
    BY <1>1 DEF Opens, Up
  <2>2. \A r \in Sockets : stage'[r] = IF r = s THEN "open" ELSE stage[r]
    BY <2>1 DEF LineInv, LineTypeOK
  <2> QED
    BY <1>1, <2>1, <2>2 DEF Opens, pageVars, sockVars, LineInv, LineCore, OneLine,
       LinePhases, LeftIsQuiet, LineBudget, StatusIsTrue, LineEnds, Up
<1>2. CASE Message(s)
  <2>1. Up(s) /\ s = ws /\ timers = 0 /\ page = "open"
    BY <1>2 DEF Message, Up, LineInv, LineTypeOK, LineCore, OneLine, LinePhases,
       LeftIsQuiet
  <2>2. CASE SignOfLife
    BY <1>2, <2>1, <2>2 DEF Message, SignOfLife, LineInv, LineCore, OneLine,
       LinePhases, LeftIsQuiet, LineBudget, StatusIsTrue, LineEnds, Up
  <2>3. CASE UNCHANGED <<attempts, status, streak>>
    BY <1>2, <2>1, <2>3 DEF Message, LineInv, LineCore, OneLine,
       LinePhases, LeftIsQuiet, LineBudget, StatusIsTrue, LineEnds, Up
  <2> QED BY <1>2, <2>2, <2>3 DEF Message
<1>3. CASE CloseEvent(s)
  <2>1. stage' = [stage EXCEPT ![s] = "closed"] /\ UNCHANGED <<page, ws, intended, attached, streak>>
    BY <1>3 DEF CloseEvent
  <2>2. \A r \in Sockets : stage'[r] = IF r = s THEN "closed" ELSE stage[r]
    BY <2>1 DEF LineInv, LineTypeOK
  <2>3. CASE page = "left"
    <3>1. intended /\ timers = 0 /\ ~retryToast
      BY <2>3 DEF LineInv, LineCore, LinePhases, LeftIsQuiet
    <3>2. /\ UNCHANGED <<attempts, timers, retryToast>>
          /\ status' \in {status, "disconnected"}
      BY <1>3, <3>1 DEF CloseEvent, OnClose
    <3> QED
      BY <2>1, <2>2, <2>3, <3>1, <3>2 DEF LineInv, LineCore, OneLine,
         LinePhases, LeftIsQuiet, LineBudget, StatusIsTrue, LineEnds, Up
  <2>4. CASE page # "left"
    <3>1. page = "open" /\ Up(s) /\ s = ws /\ attached[s] /\ timers = 0 /\ ~intended
      BY <1>3, <2>4 DEF CloseEvent, Up, LineInv, LineTypeOK, LineCore, OneLine,
         LinePhases
    <3>2. \A r \in Sockets : stage'[r] \in {"unused", "closed"}
      BY <2>2, <3>1 DEF LineInv, LineTypeOK, LineCore, OneLine, LinePhases, Up
    <3>3. ~retryToast
      BY <3>1 DEF LineInv, LineCore, LineEnds, StatusIsTrue
    <3>4. \/ status' = "error" /\ UNCHANGED <<attempts, timers, retryToast>>
          \/ ScheduleReconnect
      BY <1>3, <3>1 DEF CloseEvent, OnClose
    <3>5. attempts \in Nat /\ streak \in Nat /\ streak <= attempts + 1
      BY ReconnectAssumption DEF LineInv, LineTypeOK, LineCore, LineBudget
    <3>6. OneLine' /\ LinePhases' /\ LeftIsQuiet'
      BY <2>1, <3>1, <3>2, <3>4 DEF ScheduleReconnect, OneLine, LinePhases,
         LeftIsQuiet, Up
    <3>7. StatusIsTrue' /\ LineEnds'
      BY <2>1, <3>1, <3>2, <3>3, <3>4
         DEF ScheduleReconnect, StatusIsTrue, LineEnds, Up
    <3>8. LineBudget'
      BY <2>1, <3>1, <3>4, <3>5 DEF ScheduleReconnect, LineBudget
    <3> QED BY <3>6, <3>7, <3>8 DEF LineCore
  <2> QED BY <2>3, <2>4
<1>4. CASE TimerFires(s)
  <2>1. timers = 1 /\ timers' = 0
    BY <1>4 DEF TimerFires, LineInv, LineTypeOK, LineCore, OneLine
  <2>2. page = "open" /\ ~intended /\ ~retryToast
    BY <2>1 DEF LineInv, LineTypeOK, LineCore, LinePhases, LeftIsQuiet, LineEnds,
       StatusIsTrue
  <2>3. \A r \in Sockets : ~Up(r) /\ stage[r] # "closing"
    BY <2>1, <2>2 DEF LineInv, LineCore, OneLine, LinePhases
  <2>4. attempts' \in Nat /\ streak' \in Nat /\ streak' <= attempts' + 1
    BY <1>4, <2>1, ReconnectAssumption
       DEF TimerFires, LineInv, LineTypeOK, LineCore, LineBudget
  <2>5. DoConnect(s) /\ page' = "open" /\ ~intended' /\ ~retryToast'
    BY <1>4, <2>2 DEF TimerFires, pageVars
  <2> QED BY <2>1, <2>3, <2>4, <2>5, DialKeepsCore
<1> QED BY <1>1, <1>2, <1>3, <1>4 DEF BrowserStep

\* The frames the gateway and the network make.
LEMMA FramesAre ==
  /\ \A e \in Errors : Frame("Error", e) \in Frames
  /\ Frame("SessionState", "admitted") \in Frames
  /\ \A w \in {"account_disabled", "token_rotated"} : Frame("PeerEvicted", w) \in Frames
  /\ \A c \in {TERMINAL, TRANSIENT, ABNORMAL} : ClosingWith(c) \in Frames
BY DEF Frame, Frames, ClosingWith

\* What send_error adds to the frames under way.
LEMMA RefusalFrames ==
  ASSUME NEW q \in Seq(Frames), NEW e \in Errors
  PROVE  q \o <<Frame("Error", e), ClosingWith(CloseCodeFor(e))>> \in Seq(Frames)
<1>1. <<Frame("Error", e), ClosingWith(CloseCodeFor(e))>> \in Seq(Frames)
  BY FramesAre DEF CloseCodeFor
<1> QED BY <1>1

\* A handshake admits or answers one of the protocol's errors.
LEMMA Verdicts == ASSUME NEW f PROVE Verdict(f) \in Errors \cup {"admitted"}
BY DEF Verdict, Errors

\* doConnect keeps the types.
LEMMA DialTypes ==
  ASSUME LineTypeOK, NEW s \in Sockets, DoConnect(s)
  PROVE  /\ ws' \in Sockets /\ status' = "connecting"
         /\ stage' \in [Sockets -> {"unused", "dialing", "open", "closing", "closed"}]
         /\ attached' \in [Sockets -> BOOLEAN]
         /\ inbox' \in [Sockets -> Seq(Frames)]
         /\ peer' \in [Sockets -> {"none", "waiting", "asked", "looked", "serving",
                                  "disabled", "rotated", "stopped", "gone"}]
<1>1. attached' \in [Sockets -> BOOLEAN] BY Zenon DEF DoConnect
<1>2. inbox' \in [Sockets -> Seq(Frames)] BY DEF DoConnect, LineTypeOK
<1> QED BY <1>1, <1>2 DEF DoConnect, LineTypeOK

\* The page's steps keep the types.
LEMMA PageTypes == LineTypeOK /\ PageStep => LineTypeOK'
<1> SUFFICES ASSUME LineTypeOK, PageStep PROVE LineTypeOK'
  OBVIOUS
<1>1. ASSUME NEW s \in Sockets, Mount(s) \/ PressReconnect(s) \/ PressRetry(s)
      PROVE  LineTypeOK'
  <2>1. /\ DoConnect(s) /\ attempts' = 0 /\ intended' = FALSE /\ streak' = 1
        /\ timers' \in Nat
    BY <1>1 DEF Mount, PressReconnect, PressRetry, ReconnectNow, StartOver, LineTypeOK
  <2>2. /\ page' \in {"open", page} /\ retryToast' \in {retryToast, FALSE}
        /\ UNCHANGED <<ended, signedIn, worldVars>>
    BY <1>1 DEF Mount, PressReconnect, PressRetry
  <2>3. attempts' \in 0..MaxAttempts BY <2>1, ReconnectAssumption
  <2>4. /\ ended' \in BOOLEAN /\ signedIn' \in BOOLEAN /\ retryToast' \in BOOLEAN
        /\ intended' \in BOOLEAN /\ valid' \in BOOLEAN /\ enabled' \in BOOLEAN
    BY <2>1, <2>2, Zenon DEF LineTypeOK, worldVars
  <2> QED BY <2>1, <2>2, <2>3, <2>4, DialTypes DEF LineTypeOK, worldVars
<1>2. CASE DismissToast
  <2>1. /\ ended' \in BOOLEAN /\ signedIn' \in BOOLEAN /\ retryToast' \in BOOLEAN
        /\ intended' \in BOOLEAN /\ valid' \in BOOLEAN /\ enabled' \in BOOLEAN
    BY <1>2, Zenon DEF DismissToast, LineTypeOK, sockVars, worldVars
  <2> QED
    BY <1>2, <2>1 DEF DismissToast, LineTypeOK, sockVars, wireVars, worldVars
<1>3. CASE Leave
  <2>1. /\ ended' \in BOOLEAN /\ signedIn' \in BOOLEAN /\ retryToast' \in BOOLEAN
        /\ intended' \in BOOLEAN /\ valid' \in BOOLEAN /\ enabled' \in BOOLEAN
    BY <1>3, Zenon DEF Leave, LineTypeOK, worldVars
  <2>2. timers' \in Nat BY <1>3 DEF Leave, LineTypeOK
  <2>3. /\ stage' \in [Sockets -> {"unused", "dialing", "open", "closing", "closed"}]
        /\ peer' \in [Sockets -> {"none", "waiting", "asked", "looked", "serving",
                                 "disabled", "rotated", "stopped", "gone"}]
    BY <1>3 DEF Leave, LineTypeOK
  <2> QED BY <1>3, <2>1, <2>2, <2>3 DEF Leave, LineTypeOK, worldVars
<1> QED BY <1>1, <1>2, <1>3 DEF PageStep

\* The browser's events keep the types.
LEMMA BrowserTypes ==
  ASSUME LineTypeOK, NEW s \in Sockets, BrowserStep(s)
  PROVE  LineTypeOK'
<1>1. CASE Opens(s)
  BY <1>1 DEF Opens, LineTypeOK, pageVars, sockVars, worldVars
<1>2. CASE Message(s)
  <2>1. inbox' \in [Sockets -> Seq(Frames)]
    BY <1>2 DEF Message, LineTypeOK
  <2>2. /\ ended' \in BOOLEAN /\ signedIn' \in BOOLEAN
        /\ attempts' \in {0, attempts} /\ status' \in {"connected", status}
        /\ streak' \in {0, streak}
    BY <1>2, Zenon DEF Message, SignOfLife, PageReads, LineTypeOK
  <2> QED
    BY <1>2, <2>1, <2>2, ReconnectAssumption DEF Message, LineTypeOK, worldVars
<1>3. CASE CloseEvent(s)
  <2>1. inbox' \in [Sockets -> Seq(Frames)]
    BY <1>3 DEF CloseEvent, LineTypeOK
  <2>2. /\ attempts' \in 0..MaxAttempts /\ timers' \in Nat
        /\ status' \in {status, "disconnected", "error", "giveup", "connecting"}
    <3>1. CASE UNCHANGED <<attempts, timers>>
               /\ status' \in {status, "disconnected", "error", "giveup"}
      BY <3>1 DEF LineTypeOK
    <3>2. CASE /\ attempts < MaxAttempts /\ attempts' = attempts + 1
               /\ timers' = timers + 1 /\ status' = "connecting"
      BY <3>2, ReconnectAssumption DEF LineTypeOK
    <3> QED BY <1>3, <3>1, <3>2, Zenon DEF CloseEvent, OnClose, ScheduleReconnect
  <2>3. retryToast' \in {retryToast, TRUE}
    BY <1>3, Zenon DEF CloseEvent, OnClose, ScheduleReconnect
  <2>4. /\ ended' \in BOOLEAN /\ signedIn' \in BOOLEAN /\ retryToast' \in BOOLEAN
        /\ intended' \in BOOLEAN /\ valid' \in BOOLEAN /\ enabled' \in BOOLEAN
    BY <1>3, <2>3, Zenon DEF CloseEvent, LineTypeOK, worldVars
  <2> QED BY <1>3, <2>1, <2>2, <2>4 DEF CloseEvent, LineTypeOK, worldVars
<1>4. CASE TimerFires(s)
  <2>1. DoConnect(s) /\ UNCHANGED <<pageVars, attempts, intended, worldVars>>
    BY <1>4 DEF TimerFires
  <2>2. timers' \in Nat /\ streak' \in Nat
    BY <1>4 DEF TimerFires, LineTypeOK
  <2> QED BY <2>1, <2>2, DialTypes DEF LineTypeOK, pageVars, worldVars
<1> QED BY <1>1, <1>2, <1>3, <1>4 DEF BrowserStep

\* The gateway's steps and a cut keep the types.
LEMMA GatewayTypes ==
  ASSUME LineTypeOK, NEW s \in Sockets, GatewayStep(s) \/ Cut(s)
  PROVE  LineTypeOK'
<1> DEFINE Peers == {"none", "waiting", "asked", "looked", "serving", "disabled",
                       "rotated", "stopped", "gone"}
<1>0. UNCHANGED coreVars BY OthersKeepCore
<1> SUFFICES /\ inbox' \in [Sockets -> Seq(Frames)] /\ peer' \in [Sockets -> Peers]
             /\ valid' \in BOOLEAN /\ enabled' \in BOOLEAN
             /\ standing' \in {"member", "stranger", "pinned"}
             /\ row' \in {"absent", "active", "closed"}
             /\ launch' \in {"ok", "unknown", "broken"}
  BY <1>0 DEF LineTypeOK, coreVars, pageVars, sockVars
<1>1. ASSUME NEW e \in Errors, SendError(s, e)
      PROVE  inbox' \in [Sockets -> Seq(Frames)] /\ peer' \in [Sockets -> Peers]
  <2>1. inbox[s] \o <<Frame("Error", e), ClosingWith(CloseCodeFor(e))>> \in Seq(Frames)
    BY RefusalFrames DEF LineTypeOK
  <2> QED BY <1>1, <2>1 DEF SendError, LineTypeOK
<1>2. ASSUME HandshakeStep(s)
      PROVE  /\ inbox' \in [Sockets -> Seq(Frames)] /\ peer' \in [Sockets -> Peers]
             /\ UNCHANGED <<valid, enabled, standing, launch>> /\ row' \in {row, "closed"}
  <2>1. ASSUME NEW f \in Reads \cup {NoFault}, HandshakeLooks(s, f)
        PROVE  inbox' \in [Sockets -> Seq(Frames)] /\ peer' \in [Sockets -> Peers]
    <3>1. CASE Verdict(f) = "admitted" BY <2>1, <3>1 DEF HandshakeLooks, LineTypeOK
    <3>2. CASE Verdict(f) # "admitted"
      BY <1>1, <2>1, <3>2, Verdicts DEF HandshakeLooks
    <3> QED BY <3>1, <3>2
  <2>2. CASE HandshakeLaunches(s)
    <3>1. Append(inbox[s], Frame("SessionState", "admitted")) \in Seq(Frames)
      BY FramesAre DEF LineTypeOK
    <3> QED BY <2>2, <3>1 DEF HandshakeLaunches, LineTypeOK, worldVars
  <2>3. CASE HandshakeFails(s)
    <3>1. PICK e \in {"STORAGE_ERROR", "TARGET_NOT_FOUND", "PTY_ERROR"} : SendError(s, e)
      BY <2>3 DEF HandshakeFails
    <3>2. e \in Errors BY DEF Errors
    <3> QED BY <1>1, <2>3, <3>1, <3>2 DEF HandshakeFails
  <2>4. ASSUME NEW f \in Reads \cup {NoFault}, HandshakeLooks(s, f)
        PROVE  UNCHANGED worldVars
    BY <2>4 DEF HandshakeLooks
  <2> QED BY <1>2, <2>1, <2>2, <2>3, <2>4 DEF HandshakeStep, worldVars
<1>3. CASE JoinTimesOut(s)
  <2>1. "AUTH_TIMEOUT" \in Errors BY DEF Errors
  <2> QED BY <1>1, <1>3, <2>1 DEF JoinTimesOut, worldVars, LineTypeOK
<1>4. CASE Lags(s) \/ Stopped(s) \/ Evicted(s)
  <2>0. /\ <<ClosingWith(TRANSIENT)>> \in Seq(Frames)
        /\ <<ClosingWith(ABNORMAL)>> \in Seq(Frames)
        /\ \A w \in {"account_disabled", "token_rotated"} :
             <<Frame("PeerEvicted", w), ClosingWith(TERMINAL)>> \in Seq(Frames)
    BY FramesAre
  <2>1. \E q \in Seq(Frames) : ServerCloses(s, q)
    BY <1>4, <2>0, Zenon DEF Lags, Stopped, Evicted
  <2>. PICK q \in Seq(Frames) : ServerCloses(s, q) BY <2>1
  <2>2. inbox[s] \o q \in Seq(Frames) BY DEF LineTypeOK
  <2> QED BY <2>2 DEF ServerCloses, worldVars, LineTypeOK
<1>5. CASE Cut(s)
  <2>1. PICK n \in 0..Len(inbox[s]) :
          inbox' = [inbox EXCEPT ![s] = Append(SubSeq(@, 1, n), ClosingWith(ABNORMAL))]
    BY <1>5 DEF Cut
  <2>2. SubSeq(inbox[s], 1, n) \in Seq(Frames) BY <2>1 DEF LineTypeOK
  <2>3. Append(SubSeq(inbox[s], 1, n), ClosingWith(ABNORMAL)) \in Seq(Frames)
    BY <2>2, FramesAre
  <2> QED BY <1>5, <2>1, <2>3 DEF Cut, worldVars, LineTypeOK
<1> QED
  BY <1>2, <1>3, <1>4, <1>5 DEF GatewayStep, LineTypeOK

\* Every step keeps the invariant.
LEMMA LineStep == LineInv /\ [LineNext]_lineVars => LineInv'
<1> SUFFICES ASSUME LineInv, [LineNext]_lineVars PROVE LineInv'
  OBVIOUS
<1>1. CASE PageStep BY <1>1, PageKeepsCore, PageTypes DEF LineInv
<1>2. ASSUME NEW s \in Sockets, BrowserStep(s) PROVE LineInv'
  BY <1>2, BrowserKeepsCore, BrowserTypes DEF LineInv
<1>3. ASSUME NEW s \in Sockets, GatewayStep(s) \/ Cut(s) PROVE LineInv'
  BY <1>3, OthersKeepCore, CoreKeeps, GatewayTypes DEF LineInv
<1>4. CASE WorldChanges
  <2>1. UNCHANGED coreVars
    BY <1>4 DEF WorldChanges, coreVars, pageVars, sockVars
  <2>2. LineTypeOK'
    <3>1. /\ ended' \in BOOLEAN /\ signedIn' \in BOOLEAN /\ retryToast' \in BOOLEAN
        /\ intended' \in BOOLEAN /\ valid' \in BOOLEAN /\ enabled' \in BOOLEAN
      BY <1>4, Zenon DEF LineInv, WorldChanges, LineTypeOK, pageVars, sockVars
    <3>2. /\ row' \in {"absent", "active", "closed"}
          /\ launch' \in {"ok", "unknown", "broken"}
      BY <1>4 DEF LineInv, WorldChanges, LineTypeOK
    <3>3. peer' \in [Sockets -> {"none", "waiting", "asked", "looked", "serving",
                                 "disabled", "rotated", "stopped", "gone"}]
      BY <1>4 DEF LineInv, WorldChanges, Notice, LineTypeOK
    <3> QED
      BY <1>4, <3>1, <3>2, <3>3
         DEF LineInv, WorldChanges, LineTypeOK, pageVars, sockVars
  <2> QED BY <2>1, <2>2, CoreKeeps DEF LineInv
<1>5. CASE UNCHANGED lineVars
  BY <1>5, CoreKeeps DEF lineVars, coreVars, pageVars, sockVars, wireVars, worldVars,
     LineInv, LineTypeOK
<1> QED BY <1>1, <1>2, <1>3, <1>4, <1>5 DEF LineNext

\* The inductive invariant of a page's line to the gateway (ws.ts, Session.tsx),
\* for any number of sockets and any retry budget.
THEOREM LineInvariant == LineSpec => []LineInv
BY LineStart, LineStep, PTL DEF LineSpec

\* Every variable of Reconnect keeps its type; attempts never exceed the budget.
THEOREM LineTypes == LineSpec => []LineTypeOK
BY LineInvariant, PTL DEF LineInv

\* ws.ts:80-99: a page never has two connections, two timers, or a timer behind
\* a connection.
THEOREM PageHasOneLine == LineSpec => []OneLine
BY LineInvariant, PTL DEF LineInv, LineCore

\* Session.tsx:599-605: nothing reconnects a page that was left.
THEOREM PageLeftIsQuiet == LineSpec => []LeftIsQuiet
BY LineInvariant, PTL DEF LineInv, LineCore

\* The retries due and dialed are within reconnectAttempts, it within its maximum.
LEMMA BudgetBounds == LineInv => NoStorm
BY ReconnectAssumption DEF LineInv, LineTypeOK, LineCore, LineBudget, NoStorm

\* ws.ts:105-116: whatever the gateway answers, a page dials once and
\* MaxAttempts times more until it is accepted or its user asks again.
THEOREM RetriesAreBounded == LineSpec => []NoStorm
BY LineInvariant, BudgetBounds, PTL

\* ws.ts:120-185: the status a page shows is what its line does.
THEOREM StatusTellsTheLine == LineSpec => []StatusIsTrue
BY LineInvariant, PTL DEF LineInv, LineCore

\* Socket, timer, toast and status of a page agree in every state.
THEOREM LineSound == LineSpec => []LineIsSound
BY PageHasOneLine, PageLeftIsQuiet, StatusTellsTheLine, PTL DEF LineIsSound

\* From error there is no way back, and a terminal close leads there.
LEMMA FinalStep ==
  ASSUME LineInv, LineInv', [LineNext]_lineVars, Refused \/ status = "error"
  PROVE  status' = "error" /\ timers' = 0 /\ ws' \in {ws, NoSocket}
<1>1. CASE status = "error"
  <2>1. page # "loading" /\ timers = 0 /\ ~retryToast
        /\ \A s \in Sockets : ~Up(s) /\ stage[s] # "closing"
    BY <1>1 DEF LineInv, LineCore, LineEnds, Up
  <2>2. CASE PageStep
    BY <1>1, <2>1, <2>2 DEF PageStep, Mount, PressReconnect, PressRetry,
       DismissToast, Leave, sockVars
  <2>3. ASSUME NEW s \in Sockets, BrowserStep(s) PROVE FALSE
    <3>1. timers \in Nat /\ ~(timers > 0) BY <2>1
    <3> QED
      BY <2>1, <2>3, <3>1 DEF BrowserStep, Opens, Message, CloseEvent, TimerFires, Up
  <2>4. ASSUME NEW s \in Sockets, GatewayStep(s) \/ Cut(s) \/ WorldChanges
        PROVE  UNCHANGED <<status, timers, ws>>
    BY <2>4, OthersKeepCore DEF coreVars, sockVars
  <2>5. WorldChanges => UNCHANGED <<status, timers, ws>>
    BY DEF WorldChanges, sockVars
  <2>6. UNCHANGED lineVars => UNCHANGED <<status, timers, ws>>
    BY DEF lineVars, sockVars
  <2> QED BY <1>1, <2>1, <2>2, <2>3, <2>4, <2>5, <2>6 DEF LineNext
<1>2. CASE Refused
  <2>1. PICK s \in Sockets : /\ Up(s) /\ stage'[s] = "closed"
                             /\ Head(inbox[s]) = ClosingWith(TERMINAL)
    BY <1>2 DEF Refused
  <2>2. page = "open" /\ ~intended /\ attached[s] /\ timers = 0
    BY <2>1 DEF LineInv, LineTypeOK, LineCore, OneLine, LinePhases, LeftIsQuiet, Up
  <2>3. CloseEvent(s)
    <3>1. ~PageStep
      BY <2>1, <2>2 DEF PageStep, Mount, PressReconnect, PressRetry, ReconnectNow,
         StartOver, DoConnect, DismissToast, wireVars, Leave, Up, LineInv, LineTypeOK
    <3>2. ASSUME NEW r \in Sockets, BrowserStep(r) PROVE CloseEvent(s)
      BY <2>1, <2>2, <3>2 DEF BrowserStep, Opens, Message, CloseEvent, TimerFires,
         DoConnect, Up, LineInv, LineTypeOK
    <3>3. ASSUME NEW r \in Sockets, GatewayStep(r) \/ Cut(r) \/ WorldChanges
          PROVE  UNCHANGED stage
      BY <3>3, OthersKeepCore DEF coreVars
    <3>4. WorldChanges \/ UNCHANGED lineVars => UNCHANGED stage
      BY DEF WorldChanges, lineVars, wireVars
    <3> QED BY <2>1, <3>1, <3>2, <3>3, <3>4 DEF LineNext, Up
  <2>4. OnClose(TERMINAL)
    BY <2>1, <2>2, <2>3 DEF CloseEvent, ClosingWith, Frame, Up
  <2> QED BY <2>2, <2>3, <2>4 DEF OnClose, CloseEvent
<1> QED BY <1>1, <1>2

\* ws.ts:146-158: after a terminal close the page dials no more.
THEOREM RefusedForGood == LineSpec => RefusalIsFinal
<1>1. LineInv /\ LineInv' /\ [LineNext]_lineVars =>
        [Refused \/ status = "error" =>
           status' = "error" /\ timers' = 0 /\ ws' \in {ws, NoSocket}]_lineVars
  BY FinalStep
<1> QED BY <1>1, LineInvariant, PTL DEF LineSpec, RefusalIsFinal
==============================================================================
