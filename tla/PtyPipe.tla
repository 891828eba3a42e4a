------------------------------- MODULE PtyPipe -------------------------------
(***************************************************************************)
(* The plumbing of one PTY: keystrokes go from a WebSocket main loop over   *)
(* the bounded cmd channel to the PTY I/O loop, from there over the bounded *)
(* input channel to a writer thread, and into the terminal; output goes     *)
(* from the terminal to a reader thread, over the bounded output channel to *)
(* the loop, which broadcasts it.  The loop is one task: while it waits for *)
(* room in the input channel it reads no output and sees no closed channel. *)
(* Chunks are counted, not spelled out: every queue is first in, first out. *)
(***************************************************************************)
EXTENDS Naturals, FiniteSets

CONSTANTS
  Handlers,  \* WebSocket main loops attached to the session
  CmdCap,    \* capacity of cmd_tx (256 in start_or_join)
  InCap,     \* capacity of PtyManager.input_tx (256)
  OutCap,    \* capacity of PtyManager.output_rx (256)
  TtyCap,    \* room in each direction of the kernel's terminal
  MaxTyped,  \* bound on commands sent by clients
  MaxPrinted \* bound on chunks emitted by the child

ASSUME PipeAssumption ==
  /\ IsFiniteSet(Handlers)
  /\ CmdCap \in Nat \ {0} /\ InCap \in Nat \ {0}
  /\ OutCap \in Nat \ {0} /\ TtyCap \in Nat \ {0}
  /\ MaxTyped \in Nat /\ MaxPrinted \in Nat

VARIABLES
  hpc,       \* main loops: "main" (in select!), "sending", "gone"
  cmdQ,      \* commands in the cmd channel
  loop,      \* PTY loop: "select", "writing" (in pty.write), "cleanup", "done"
  inQ,       \* chunks in the input channel
  writer,    \* writer thread: "recv", "writing", "ended"
  ttyIn,     \* chunks the terminal holds for the child
  child,     \* "alive", "exited", "killed"
  ttyOut,    \* chunks the terminal holds for the reader
  reader,    \* reader thread: "read", "sending", "ended"
  outQ,      \* chunks in the output channel
  unlisted,  \* the entry left the map (DELETE, reaper, loop): one cmd_tx less
  cause,     \* why the loop broke: "none", "exit", "write", "senders"
  typed,     \* commands accepted by the cmd channel
  consumed,  \* commands that took effect: read by the child, or a resize
  emitted,   \* chunks the child wrote
  delivered  \* chunks pushed to the scrollback and broadcast

inVars  == <<cmdQ, inQ, writer, ttyIn, typed, consumed>>
outVars == <<ttyOut, reader, outQ, emitted, delivered>>
endVars == <<unlisted, cause, child>>
vars    == <<hpc, loop, inVars, outVars, endVars>>

Init ==
  /\ hpc = [h \in Handlers |-> "main"]
  /\ loop = "select"
  /\ cmdQ = 0 /\ inQ = 0 /\ ttyIn = 0 /\ typed = 0 /\ consumed = 0
  /\ ttyOut = 0 /\ outQ = 0 /\ emitted = 0 /\ delivered = 0
  /\ writer = "recv"
  /\ reader = "read"
  /\ child = "alive"
  /\ unlisted = FALSE
  /\ cause = "none"

-----------------------------------------------------------------------------
(* The WebSocket main loops *)

Senders == {h \in Handlers : hpc[h] = "sending"}

\* A binary frame or a resize: `cmd_tx.send(..).await` inside the select! arm,
\* so until it returns the handler polls nothing else.
ClientTypes(h) ==
  /\ hpc[h] = "main"
  /\ typed + Cardinality(Senders) < MaxTyped
  /\ hpc' = [hpc EXCEPT ![h] = "sending"]
  /\ UNCHANGED <<loop, inVars, outVars, endVars>>

SendAccepted(h) ==
  /\ hpc[h] = "sending"
  /\ loop # "done" /\ cmdQ < CmdCap
  /\ hpc' = [hpc EXCEPT ![h] = "main"]
  /\ cmdQ' = cmdQ + 1
  /\ typed' = typed + 1
  /\ UNCHANGED <<loop, inQ, writer, ttyIn, consumed, outVars, endVars>>

\* The receiver is gone: the error is ignored.
SendRefused(h) ==
  /\ hpc[h] = "sending"
  /\ loop = "done"
  /\ hpc' = [hpc EXCEPT ![h] = "main"]
  /\ UNCHANGED <<loop, inVars, outVars, endVars>>

ClientLeaves(h) ==
  /\ hpc[h] = "main"
  /\ hpc' = [hpc EXCEPT ![h] = "gone"]
  /\ UNCHANGED <<loop, inVars, outVars, endVars>>

ShutdownSeen(h) ==
  /\ hpc[h] = "main"
  /\ unlisted
  /\ hpc' = [hpc EXCEPT ![h] = "gone"]
  /\ UNCHANGED <<loop, inVars, outVars, endVars>>

\* stop_session or the reaper drops the entry and with it the hub's cmd_tx.
Unlist ==
  /\ ~unlisted
  /\ unlisted' = TRUE
  /\ UNCHANGED <<hpc, loop, inVars, outVars, cause, child>>

-----------------------------------------------------------------------------
(* The PTY I/O loop *)

LoopReadsOutput ==
  /\ loop = "select"
  /\ outQ > 0
  /\ outQ' = outQ - 1
  /\ delivered' = delivered + 1
  /\ UNCHANGED <<hpc, loop, inVars, ttyOut, reader, emitted, endVars>>

\* PtyCommand::Input starts a write, PtyCommand::Resize is applied at once.
LoopTakesInput ==
  /\ loop = "select"
  /\ cmdQ > 0
  /\ cmdQ' = cmdQ - 1
  /\ loop' = "writing"
  /\ UNCHANGED <<hpc, inQ, writer, ttyIn, typed, consumed, outVars, endVars>>

LoopResizes ==
  /\ loop = "select"
  /\ cmdQ > 0
  /\ cmdQ' = cmdQ - 1
  /\ consumed' = consumed + 1
  /\ UNCHANGED <<hpc, loop, inQ, writer, ttyIn, typed, outVars, endVars>>

\* mutant: try_send, which drops the chunk when the channel is full
LoopTriesWrite ==
  /\ loop = "writing"
  /\ writer # "ended"
  /\ inQ' = IF inQ < InCap THEN inQ + 1 ELSE inQ
  /\ loop' = "select"
  /\ UNCHANGED <<hpc, cmdQ, writer, ttyIn, typed, consumed, outVars, endVars>>

\* PtyManager::write waits for room in the input channel.
LoopWrites ==
  /\ loop = "writing"
  /\ writer # "ended" /\ inQ < InCap
  /\ inQ' = inQ + 1
  /\ loop' = "select"
  /\ UNCHANGED <<hpc, cmdQ, writer, ttyIn, typed, consumed, outVars, endVars>>

LoopBreaks(why) ==
  /\ loop' = "cleanup"
  /\ cause' = why
  /\ UNCHANGED <<hpc, inVars, outVars, unlisted, child>>

LoopWriteFails ==
  /\ loop = "writing"
  /\ writer = "ended"
  /\ LoopBreaks("write")

\* mutant: the loop breaks as soon as the child is gone
LoopSeesDeath ==
  /\ loop = "select"
  /\ child = "exited"
  /\ LoopBreaks("exit")

\* pty.read() returns None: the reader thread ended and its channel is empty.
LoopSeesExit ==
  /\ loop = "select"
  /\ reader = "ended" /\ outQ = 0
  /\ LoopBreaks("exit")

\* cmd_rx.recv() returns None: every cmd_tx is dropped and the channel is empty.
LoopLosesSenders ==
  /\ loop = "select"
  /\ unlisted /\ cmdQ = 0
  /\ \A h \in Handlers : hpc[h] = "gone"
  /\ LoopBreaks("senders")

\* mutant: the manager is dropped without killing the child
CleanupSparesChild ==
  /\ loop = "cleanup"
  /\ loop' = "done"
  /\ unlisted' = TRUE
  /\ UNCHANGED <<hpc, inVars, outVars, cause, child>>

\* The entry is removed by id, the row closed, and the task's PtyManager
\* dropped: Drop kills the child and both channels lose their loop end.
LoopCleanup ==
  /\ loop = "cleanup"
  /\ loop' = "done"
  /\ unlisted' = TRUE
  /\ child' = IF child = "alive" THEN "killed" ELSE child
  /\ UNCHANGED <<hpc, inVars, outVars, cause>>

-----------------------------------------------------------------------------
(* The two blocking threads of PtyManager *)

WriterTakes ==
  /\ writer = "recv"
  /\ inQ > 0
  /\ inQ' = inQ - 1
  /\ writer' = "writing"
  /\ UNCHANGED <<hpc, loop, cmdQ, ttyIn, typed, consumed, outVars, endVars>>

WriterWrites ==
  /\ writer = "writing"
  /\ child = "alive" /\ ttyIn < TtyCap
  /\ ttyIn' = ttyIn + 1
  /\ writer' = "recv"
  /\ UNCHANGED <<hpc, loop, cmdQ, inQ, typed, consumed, outVars, endVars>>

\* write_all fails on a terminal without a child, or the channel is closed.
WriterEnds ==
  /\ \/ writer = "writing" /\ child # "alive"
     \/ writer = "recv" /\ inQ = 0 /\ loop = "done"
  /\ writer' = "ended"
  /\ UNCHANGED <<hpc, loop, cmdQ, inQ, ttyIn, typed, consumed, outVars, endVars>>

ReaderReads ==
  /\ reader = "read"
  /\ ttyOut > 0
  /\ ttyOut' = ttyOut - 1
  /\ reader' = "sending"
  /\ UNCHANGED <<hpc, loop, inVars, outQ, emitted, delivered, endVars>>

ReaderSends ==
  /\ reader = "sending"
  /\ loop # "done" /\ outQ < OutCap
  /\ outQ' = outQ + 1
  /\ reader' = "read"
  /\ UNCHANGED <<hpc, loop, inVars, ttyOut, emitted, delivered, endVars>>

\* End of file on a drained terminal without a child, or blocking_send fails.
ReaderEnds ==
  /\ \/ reader = "read" /\ ttyOut = 0 /\ child # "alive"
     \/ reader = "sending" /\ loop = "done"
  /\ reader' = "ended"
  /\ UNCHANGED <<hpc, loop, inVars, ttyOut, outQ, emitted, delivered, endVars>>

-----------------------------------------------------------------------------
(* The child program, which the gateway does not control *)

ChildReads ==
  /\ child = "alive"
  /\ ttyIn > 0
  /\ ttyIn' = ttyIn - 1
  /\ consumed' = consumed + 1
  /\ UNCHANGED <<hpc, loop, cmdQ, inQ, writer, typed, outVars, endVars>>

ChildPrints ==
  /\ child = "alive"
  /\ ttyOut < TtyCap
  /\ emitted < MaxPrinted
  /\ ttyOut' = ttyOut + 1
  /\ emitted' = emitted + 1
  /\ UNCHANGED <<hpc, loop, inVars, reader, outQ, delivered, endVars>>

ChildExits ==
  /\ child = "alive"
  /\ child' = "exited"
  /\ UNCHANGED <<hpc, loop, inVars, outVars, unlisted, cause>>

-----------------------------------------------------------------------------
HandlerStep(h) == SendAccepted(h) \/ SendRefused(h) \/ ShutdownSeen(h)

LoopStep ==
  \/ LoopReadsOutput \/ LoopTakesInput \/ LoopResizes \/ LoopWrites
  \/ LoopWriteFails \/ LoopSeesExit \/ LoopLosesSenders \/ LoopCleanup

WriterStep == WriterTakes \/ WriterWrites \/ WriterEnds
ReaderStep == ReaderReads \/ ReaderSends \/ ReaderEnds

Next ==
  \/ \E h \in Handlers : ClientTypes(h) \/ HandlerStep(h) \/ ClientLeaves(h)
  \/ Unlist
  \/ LoopStep \/ WriterStep \/ ReaderStep
  \/ ChildReads \/ ChildPrints \/ ChildExits

Spec == Init /\ [][Next]_vars

(* The tasks and threads of the gateway run, and select! polls its arms in   *)
(* random order: an arm that is ready again and again is taken, however fast *)
(* the client types.  Nothing is assumed of clients, nothing of the child.   *)
Fairness ==
  /\ \A h \in Handlers : WF_vars(HandlerStep(h)) /\ SF_vars(ShutdownSeen(h))
  /\ WF_vars(LoopStep)
  /\ WF_vars(WriterStep)
  /\ WF_vars(ReaderStep)

FairSpec == Spec /\ Fairness

-----------------------------------------------------------------------------
(* Safety *)

TypeOK ==
  /\ hpc \in [Handlers -> {"main", "sending", "gone"}]
  /\ loop \in {"select", "writing", "cleanup", "done"}
  /\ writer \in {"recv", "writing", "ended"}
  /\ reader \in {"read", "sending", "ended"}
  /\ child \in {"alive", "exited", "killed"}
  /\ cause \in {"none", "exit", "write", "senders"}
  /\ unlisted \in BOOLEAN
  /\ cmdQ \in 0..CmdCap /\ inQ \in 0..InCap /\ outQ \in 0..OutCap
  /\ ttyIn \in 0..TtyCap /\ ttyOut \in 0..TtyCap
  /\ typed \in Nat /\ consumed \in Nat
  /\ emitted \in Nat /\ delivered \in Nat

One(p) == IF p THEN 1 ELSE 0

\* While the shell runs, a command the hub accepted is in exactly one place on
\* its way or took effect: neither a full channel nor a loop that is breaking
\* drops a keystroke.
KeystrokesConserved ==
  child = "alive" =>
    typed = cmdQ + One(loop = "writing") + inQ + One(writer = "writing")
            + ttyIn + consumed

\* Output reaches the scrollback or waits on its way as long as the loop runs.
OutputConserved ==
  loop # "done" =>
    emitted = ttyOut + One(reader = "sending") + outQ + delivered

\* Four bounded queues and two threads lose nothing in either direction.
NothingLost == KeystrokesConserved /\ OutputConserved

\* A loop that ends by itself, because the shell exited or because a write to
\* it failed, has recorded and broadcast everything the shell emitted, the last
\* screen included, unless it was the write that failed: then a command it had
\* accepted met the dead terminal.
FinalOutputDelivered ==
  (cause \in {"exit", "write"} /\ delivered # emitted)
    => (cause = "write" /\ consumed < typed)

-----------------------------------------------------------------------------
(* Liveness *)

\* FairSpec: a shell that exits ends the session's loop, even one that waits in
\* pty.write for a channel that was full, whatever the clients do.
ExitEndsLoop == (child # "alive") ~> (loop = "done")

\* FairSpec: no blocking thread outlives the loop.
ThreadsEnd ==
  (loop = "done") ~> (writer = "ended" /\ reader = "ended")

\* A session taken off the map loses its shell and its handlers, even those that
\* were waiting in cmd_tx.send, if the child keeps reading what it is sent.
UnlistedSessionEnds ==
  WF_vars(ChildReads) =>
    (unlisted ~> (child # "alive" /\ \A h \in Handlers : hpc[h] = "gone"))

\* Either end of a session ends all of it, though the loop may be waiting in
\* pty.write and handlers in cmd_tx.send.
SessionEnds == ExitEndsLoop /\ UnlistedSessionEnds

\* session_hub.rs:1142-1147: once the entry is dropped and the clients are gone
\* the PTY loop sees its last cmd_tx go and kills the child.  Under FairSpec it
\* does not: a loop that waits in pty.write on a child that stopped reading
\* polls no other arm.
UnlistedShellDies ==
  (unlisted /\ \A h \in Handlers : hpc[h] = "gone") ~> (child # "alive")

\* session_hub.rs:468-476: whichever of its arms tells it of the shell's exit,
\* the loop ends with the session's last screen shown.  The arm that writes
\* breaks at once, and what the reader thread still holds or has queued is lost.
LastScreenShown == cause \in {"exit", "write"} => delivered = emitted
=============================================================================
