------------------------------ MODULE Recording ------------------------------
(***************************************************************************)
(* The recordings of one session: the rows in SQLite, the slot through      *)
(* which the hub feeds the current writer, one writer task per recording,   *)
(* the owner's start and stop requests, and the end of the session.  An     *)
(* action is a stretch between two awaits.  Events are counted: the channel *)
(* is first in, first out, and the Stop that ends a feed comes after every  *)
(* event tapped before the slot was taken.                                  *)
(***************************************************************************)
EXTENDS Naturals, FiniteSets

CONSTANTS
  Recs,      \* recordings that may be started (bounds the starts)
  Starters,  \* POST .../recording/start handlers that may overlap
  ChanCap,   \* capacity of the writer's channel (1024)
  MaxTaps,   \* bound on events per recording
  MaxAborts, \* bound on writers that hit an I/O error
  MaxBoots,  \* bound on crashes
  MaxSweeps  \* bound on admin commands run beside the server

ASSUME RecordingAssumption ==
  /\ "NoRec" \notin Recs
  /\ ChanCap \in Nat \ {0}
  /\ MaxTaps \in Nat /\ MaxAborts \in Nat /\ MaxBoots \in Nat /\ MaxSweeps \in Nat

VARIABLES
  status,   \* recordings.status: "none" before the INSERT
  slot,     \* LiveSession.recording_tx
  session,  \* "live"; "unlisted": entry removed, loop still running;
            \* "exited": loop broke, entry still listed; "gone"
  spc,      \* start handlers: "idle", "created", "spawned", "rollback"
  srec,     \* the recording a start handler works on
  stopper,  \* the stop handler: "idle", "found"
  wpc,      \* writers: "none", "running", "aborting", "finishing", "ended", or
            \* "unstored": it ended and the storage refused its final status
  feed,     \* "open", or "ended": Stop was sent or the sender dropped
  queue,    \* events in the writer's channel
  dropped,  \* RecordingSlot.dropped
  tapped,   \* events the hub tapped for the recording
  written,  \* events the writer put into the file
  clears,   \* writers whose on_failure task has yet to run
  aborts,   \* I/O errors so far
  boots,    \* crashes so far
  sweeps    \* admin commands so far

reqVars    == <<spc, srec, stopper>>
writerVars == <<wpc, queue, written>>
tapVars    == <<dropped, tapped>>
limitVars  == <<aborts, boots, sweeps>>
vars == <<status, slot, session, reqVars, writerVars, feed, tapVars, clears,
          limitVars>>

\* The hub still has a Live entry for the session.
Listed == session \in {"live", "exited"}

Init ==
  /\ status = [r \in Recs |-> "none"]
  /\ slot = "NoRec"
  /\ session = "live"
  /\ spc = [s \in Starters |-> "idle"]
  /\ srec = [s \in Starters |-> "NoRec"]
  /\ stopper = "idle"
  /\ wpc = [r \in Recs |-> "none"]
  /\ feed = [r \in Recs |-> "open"]
  /\ queue = [r \in Recs |-> 0]
  /\ dropped = [r \in Recs |-> 0]
  /\ tapped = [r \in Recs |-> 0]
  /\ written = [r \in Recs |-> 0]
  /\ clears = {}
  /\ aborts = 0 /\ boots = 0 /\ sweeps = 0

\* The slot is emptied: its sender is gone, with or without a Stop before it.
TakeSlot ==
  /\ slot' = "NoRec"
  /\ feed' = [r \in Recs |-> IF r = slot THEN "ended" ELSE feed[r]]

\* The writer task has returned: nobody receives from its channel.
Returned(r) == wpc[r] \in {"ended", "unstored"}

Answer(s) ==
  /\ spc' = [spc EXCEPT ![s] = "idle"]
  /\ srec' = [srec EXCEPT ![s] = "NoRec"]

-----------------------------------------------------------------------------
(* POST .../recording/start.  The gate read the session's row earlier, so    *)
(* the request may find the session in any state.                            *)

\* The INSERT; the unique partial index refuses a second active recording.
StartCreate(s, r) ==
  /\ spc[s] = "idle"
  /\ status[r] = "none"
  /\ \A q \in Recs : status[q] # "recording"
  /\ status' = [status EXCEPT ![r] = "recording"]
  /\ spc' = [spc EXCEPT ![s] = "created"]
  /\ srec' = [srec EXCEPT ![s] = r]
  /\ UNCHANGED <<slot, session, stopper, writerVars, feed, tapVars, clears,
                 limitVars>>

\* spawn_recording_writer: from here on the writer runs on its own.
StartSpawn(s) ==
  /\ spc[s] = "created"
  /\ spc' = [spc EXCEPT ![s] = "spawned"]
  /\ wpc' = [wpc EXCEPT ![srec[s]] = "running"]
  /\ UNCHANGED <<status, slot, session, srec, stopper, queue, written, feed,
                 tapVars, clears, limitVars>>

\* SessionHub::start_recording; a refusal drops the sender.
StartAttach(s) ==
  /\ spc[s] = "spawned"
  /\ IF Listed /\ slot = "NoRec"
       THEN /\ slot' = srec[s]
            /\ Answer(s)
            /\ UNCHANGED feed
       ELSE /\ feed' = [feed EXCEPT ![srec[s]] = "ended"]
            /\ spc' = [spc EXCEPT ![s] = "rollback"]
            /\ UNCHANGED <<slot, srec>>
  /\ UNCHANGED <<status, session, stopper, writerVars, tapVars, clears,
                 limitVars>>

\* fail_recording, whatever the writer made of the row meanwhile.  A refusal by
\* the storage is logged, and the request is answered all the same.
StartRollback(s) ==
  /\ spc[s] = "rollback"
  /\ \/ status' = [status EXCEPT ![srec[s]] = "failed"]
     \/ UNCHANGED status
  /\ Answer(s)
  /\ UNCHANGED <<slot, session, stopper, writerVars, feed, tapVars, clears,
                 limitVars>>

-----------------------------------------------------------------------------
(* POST .../recording/stop *)

StopFind ==
  /\ stopper = "idle"
  /\ \E r \in Recs : status[r] = "recording"
  /\ stopper' = "found"
  /\ UNCHANGED <<status, slot, session, spc, srec, writerVars, feed, tapVars,
                 clears, limitVars>>

\* SessionHub::stop_recording: whichever recording has the slot now.
StopDetach ==
  /\ stopper = "found"
  /\ stopper' = "idle"
  /\ IF Listed THEN TakeSlot ELSE UNCHANGED <<slot, feed>>
  /\ UNCHANGED <<status, session, spc, srec, writerVars, tapVars, clears,
                 limitVars>>

-----------------------------------------------------------------------------
(* Taps and the writer *)

\* RecordingSlot::try_send from the PTY loop, a chat, a join or a leave.
Tap ==
  /\ session # "gone"
  /\ slot # "NoRec"
  /\ tapped[slot] < MaxTaps
  /\ tapped' = [tapped EXCEPT ![slot] = @ + 1]
  /\ IF ~Returned(slot) /\ queue[slot] < ChanCap
       THEN queue' = [queue EXCEPT ![slot] = @ + 1] /\ UNCHANGED dropped
       ELSE dropped' = [dropped EXCEPT ![slot] = @ + 1] /\ UNCHANGED queue
  /\ UNCHANGED <<status, slot, session, reqVars, wpc, written, feed, clears,
                 limitVars>>

WriterWrites(r) ==
  /\ wpc[r] = "running"
  /\ queue[r] > 0
  /\ queue' = [queue EXCEPT ![r] = @ - 1]
  /\ written' = [written EXCEPT ![r] = @ + 1]
  /\ UNCHANGED <<status, slot, session, reqVars, wpc, feed, tapVars, clears,
                 limitVars>>

\* Creating, writing, flushing or shutting down the file fails.
WriterAborts(r) ==
  /\ wpc[r] = "running"
  /\ aborts < MaxAborts
  /\ aborts' = aborts + 1
  /\ wpc' = [wpc EXCEPT ![r] = "aborting"]
  /\ UNCHANGED <<status, slot, session, reqVars, queue, written, feed, tapVars,
                 clears, boots, sweeps>>

\* mutant: the row is left to somebody else
AbortKeepsRow(r) ==
  /\ wpc[r] = "aborting"
  /\ wpc' = [wpc EXCEPT ![r] = "ended"]
  /\ clears' = clears \cup {r}
  /\ UNCHANGED <<status, slot, session, reqVars, queue, written, feed, tapVars,
                 limitVars>>

\* The writer returns with a final status, or without one: a refusal by the
\* storage is logged and not tried again.
StoreAndReturn(r, final) ==
  \/ /\ status' = [status EXCEPT ![r] = final]
     /\ wpc' = [wpc EXCEPT ![r] = "ended"]
  \/ /\ wpc' = [wpc EXCEPT ![r] = "unstored"]
     /\ UNCHANGED status

\* abort_writer!: mark_failed, then on_failure spawns the clearing task.
WriterMarksFailed(r) ==
  /\ wpc[r] = "aborting"
  /\ StoreAndReturn(r, "failed")
  /\ clears' = clears \cup {r}
  /\ UNCHANGED <<slot, session, reqVars, queue, written, feed, tapVars,
                 limitVars>>

\* clear_recording_slot: unconditional.
ClearSlot(r) ==
  /\ r \in clears
  /\ clears' = clears \ {r}
  /\ IF Listed THEN TakeSlot ELSE UNCHANGED <<slot, feed>>
  /\ UNCHANGED <<status, session, reqVars, writerVars, tapVars, limitVars>>

\* mutant: the writer stops at the Stop without draining what came before
FinishEarly(r) ==
  /\ wpc[r] = "running"
  /\ feed[r] = "ended"
  /\ wpc' = [wpc EXCEPT ![r] = "finishing"]
  /\ UNCHANGED <<status, slot, session, reqVars, queue, written, feed, tapVars,
                 clears, limitVars>>

\* Stop, or None on a closed channel; the file is shut down.
WriterFinishes(r) ==
  /\ wpc[r] = "running"
  /\ feed[r] = "ended" /\ queue[r] = 0
  /\ wpc' = [wpc EXCEPT ![r] = "finishing"]
  /\ UNCHANGED <<status, slot, session, reqVars, queue, written, feed, tapVars,
                 clears, limitVars>>

\* mutant: a writer that dropped events leaves the row alone
FinalisesCleanOnly(r) ==
  /\ wpc[r] = "finishing"
  /\ wpc' = [wpc EXCEPT ![r] = "ended"]
  /\ status' = [status EXCEPT ![r] = IF dropped[r] > 0 THEN @ ELSE "completed"]
  /\ UNCHANGED <<slot, session, reqVars, queue, written, feed, tapVars, clears,
                 limitVars>>

\* complete_recording, or mark_failed after drops; neither looks at the status.
WriterFinalises(r) ==
  /\ wpc[r] = "finishing"
  /\ StoreAndReturn(r, IF dropped[r] > 0 THEN "failed" ELSE "completed")
  /\ UNCHANGED <<slot, session, reqVars, queue, written, feed, tapVars, clears,
                 limitVars>>

-----------------------------------------------------------------------------
(* The end of the session, and of the process *)

\* stop_session or the reaper removes the entry; the loop keeps its own Arc of
\* the slot.
Unlist ==
  /\ session = "live"
  /\ session' = "unlisted"
  /\ UNCHANGED <<status, slot, reqVars, writerVars, feed, tapVars, clears,
                 limitVars>>

\* The loop broke: it takes the slot and sends Stop before it unlists.
LoopTakesSlot ==
  /\ session \in {"live", "unlisted"}
  /\ session' = IF session = "live" THEN "exited" ELSE "gone"
  /\ TakeSlot
  /\ UNCHANGED <<status, reqVars, writerVars, tapVars, clears, limitVars>>

\* The entry is removed and with it whatever slot was installed since.
LoopUnlists ==
  /\ session = "exited"
  /\ session' = "gone"
  /\ TakeSlot
  /\ UNCHANGED <<status, reqVars, writerVars, tapVars, clears, limitVars>>

\* Opening the database runs the migrations; migration 003 fails every row
\* that is still 'recording'.
SweepRows ==
  status' = [r \in Recs |-> IF status[r] = "recording" THEN "failed"
                                                      ELSE status[r]]

\* A crash loses every task, and the boot opens the database.
CrashAndBoot ==
  /\ boots < MaxBoots
  /\ boots' = boots + 1
  /\ SweepRows
  /\ session' = "gone"
  /\ TakeSlot
  /\ spc' = [s \in Starters |-> "idle"]
  /\ srec' = [s \in Starters |-> "NoRec"]
  /\ stopper' = "idle"
  /\ wpc' = [r \in Recs |-> IF wpc[r] = "none" THEN "none" ELSE "ended"]
  /\ clears' = {}
  /\ UNCHANGED <<queue, written, tapVars, aborts, sweeps>>

\* `telepair admin users` and `admin audit` open the same database from a
\* process of their own, while the server runs.
CliSweep ==
  /\ sweeps < MaxSweeps
  /\ sweeps' = sweeps + 1
  /\ SweepRows
  /\ UNCHANGED <<slot, session, reqVars, writerVars, feed, tapVars, clears,
                 aborts, boots>>

-----------------------------------------------------------------------------
StarterStep(s) == StartSpawn(s) \/ StartAttach(s) \/ StartRollback(s)

WriterStep(r) ==
  \/ WriterWrites(r) \/ WriterMarksFailed(r)
  \/ WriterFinishes(r) \/ WriterFinalises(r)

Next ==
  \/ \E s \in Starters : StarterStep(s) \/ \E r \in Recs : StartCreate(s, r)
  \/ StopFind \/ StopDetach
  \/ Tap
  \/ \E r \in Recs : WriterStep(r) \/ WriterAborts(r) \/ ClearSlot(r)
  \/ Unlist \/ LoopTakesSlot \/ LoopUnlists
  \/ CrashAndBoot \/ CliSweep

Spec == Init /\ [][Next]_vars

(* Tasks run and the disk answers, with data or an error.  A loop whose entry *)
(* was removed breaks; nothing makes the shell or the owner act.              *)
Fairness ==
  /\ \A s \in Starters : WF_vars(StarterStep(s))
  /\ \A r \in Recs : WF_vars(WriterStep(r)) /\ WF_vars(ClearSlot(r))
  /\ WF_vars(StopDetach)
  /\ WF_vars(session = "unlisted" /\ LoopTakesSlot)
  /\ WF_vars(LoopUnlists)

FairSpec == Spec /\ Fairness

-----------------------------------------------------------------------------
(* Safety *)

TypeOK ==
  /\ status \in [Recs -> {"none", "recording", "completed", "failed"}]
  /\ slot \in Recs \cup {"NoRec"}
  /\ session \in {"live", "unlisted", "exited", "gone"}
  /\ spc \in [Starters -> {"idle", "created", "spawned", "rollback"}]
  /\ srec \in [Starters -> Recs \cup {"NoRec"}]
  /\ stopper \in {"idle", "found"}
  /\ wpc \in [Recs -> {"none", "running", "aborting", "finishing", "ended",
                     "unstored"}]
  /\ feed \in [Recs -> {"open", "ended"}]
  /\ queue \in [Recs -> 0..ChanCap]
  /\ dropped \in [Recs -> Nat]
  /\ tapped \in [Recs -> Nat]
  /\ written \in [Recs -> Nat]
  /\ clears \subseteq Recs
  /\ aborts \in Nat /\ boots \in Nat /\ sweeps \in Nat

\* docs/deployment.md:230: a completed recording is gapless.  Every event the
\* hub tapped for it is in its file, in spite of full channels, aborts, lost
\* slots and whichever of stop, exit and rollback ended it.
CompletedIsGapless ==
  \A r \in Recs : status[r] = "completed" => written[r] = tapped[r]

\* migrations/003: an active row is kept legitimately by a writer task of this
\* process, or by a start handler about to spawn it; otherwise the unique index
\* would block every later recording of the session.  A rollback whose
\* fail_recording is refused leaves the row to its writer, which finalises it;
\* only a writer whose own last store is refused leaves the row behind.
ActiveRowHasWriter ==
  \A r \in Recs : status[r] = "recording" =>
    \/ wpc[r] \in {"running", "aborting", "finishing"}
    \/ \E s \in Starters : srec[s] = r /\ spc[s] = "created"
    \/ wpc[r] = "unstored"

\* The slot feeds a writer whose row is not final as a complete capture.
SlotNotCompleted ==
  slot # "NoRec" => feed[slot] = "open" /\ status[slot] # "completed"

-----------------------------------------------------------------------------
(* Liveness under FairSpec *)

\* A recording whose feed ended, by stop, exit, rollback or a clearing task,
\* reaches a final status, unless the storage refuses it to the writer.
EndedFeedFinalises ==
  \A r \in Recs :
    (feed[r] = "ended") ~> (status[r] # "recording" \/ wpc[r] = "unstored")

-----------------------------------------------------------------------------
(* Statements of the repository that the code does not keep *)

\* migrations/003:16-19: a row is kept in 'recording' by its live writer task,
\* and the sweep runs where no writer can exist.  An admin command sweeps the
\* rows of the writers of the server beside it.
FedRowIsActive ==
  \A r \in Recs : slot = r /\ wpc[r] = "running" => status[r] = "recording"

\* migrations/003:15-19: an active row belongs to a live writer of this process,
\* or waits for the sweep of the next boot.  A writer whose complete_recording
\* or fail_recording is refused (recording_writer.rs:283-292, 316-319) is gone
\* and its row blocks every later start while the process runs.
BlockingRowIsServed ==
  \A r \in Recs : status[r] = "recording" =>
    \/ wpc[r] \in {"running", "aborting", "finishing"}
    \/ \E s \in Starters : srec[s] = r /\ spc[s] = "created"

\* http.rs:2211-2215: a writer that aborts releases the slot, so that the owner
\* can start a new recording.  One that aborts before the handler installs the
\* slot has its clearing task run on an empty slot.
DeadWriterReleasesSlot ==
  \A r \in Recs : (slot = r /\ Returned(r)) ~> (slot # r)
=============================================================================
