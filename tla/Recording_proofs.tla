-------------------------- MODULE Recording_proofs --------------------------
(***************************************************************************)
(* Proofs about Recording, for any number of recordings, start requests,    *)
(* events, aborts and crashes, and a channel of any capacity.               *)
(***************************************************************************)
EXTENDS Recording, TLAPS

\* Where an event is: in the file, in the channel, or counted as dropped.
EventsAccounted ==
  \A r \in Recs : tapped[r] = written[r] + queue[r] + dropped[r]

\* What a start handler knows of the recording it works on: nobody else does,
\* and until it hands the sender over the feed is open and the slot is not its.
StarterInv ==
  \A s \in Starters :
    /\ spc[s] = "idle" <=> srec[s] = "NoRec"
    /\ srec[s] # "NoRec" =>
         /\ status[srec[s]] # "none"
         /\ slot # srec[s]
         /\ \A t \in Starters \ {s} : srec[t] # srec[s]
    /\ spc[s] = "created" =>
         status[srec[s]] \in {"recording", "failed"} /\ wpc[srec[s]] = "none"
    /\ spc[s] \in {"spawned", "rollback"} => wpc[srec[s]] # "none"
    /\ spc[s] \in {"created", "spawned"} => feed[srec[s]] = "open"

\* What the phase of a writer says of its row, its channel and its feed.
WriterInv ==
  \A r \in Recs :
    /\ status[r] = "none" => wpc[r] = "none" /\ feed[r] = "open" /\ slot # r
    /\ wpc[r] = "none" => status[r] # "completed" /\ slot # r
    /\ wpc[r] = "ended" => status[r] # "recording"
    /\ wpc[r] \in {"running", "aborting", "unstored"} => status[r] # "completed"
    /\ wpc[r] = "finishing" =>
         feed[r] = "ended" /\ queue[r] = 0 /\ status[r] # "completed"
    /\ status[r] = "completed" =>
         feed[r] = "ended" /\ queue[r] = 0 /\ dropped[r] = 0
    /\ slot = r => feed[r] = "open"

RecInv ==
  TypeOK /\ EventsAccounted /\ StarterInv /\ WriterInv /\ ActiveRowHasWriter

LEMMA RecInit == Init => RecInv
<1> SUFFICES ASSUME Init PROVE RecInv
  OBVIOUS
<1> USE RecordingAssumption DEF Init
<1>1. TypeOK BY DEF TypeOK
<1>2. EventsAccounted BY DEF EventsAccounted
<1>3. StarterInv BY DEF StarterInv
<1>4. WriterInv BY DEF WriterInv
<1>5. ActiveRowHasWriter BY DEF ActiveRowHasWriter
<1> QED BY <1>1, <1>2, <1>3, <1>4, <1>5 DEF RecInv

\* The start handler: a new row has no writer and no events yet, its writer no
\* slot yet, and the slot it gets has a feed nobody ended.
LEMMA StarterKeeps ==
  ASSUME RecInv, NEW s \in Starters,
         StarterStep(s) \/ \E r \in Recs : StartCreate(s, r)
  PROVE  RecInv'
<1> USE RecordingAssumption DEF RecInv, reqVars, writerVars, tapVars, limitVars
<1>1. ASSUME NEW r \in Recs, StartCreate(s, r) PROVE RecInv'
  <2> USE <1>1 DEF StartCreate
  <2>1. TypeOK' BY DEF TypeOK
  <2>2. EventsAccounted' BY DEF EventsAccounted
  <2>3. StarterInv' BY DEF StarterInv, WriterInv, TypeOK
  <2>4. WriterInv' BY DEF WriterInv, TypeOK
  <2>5. ActiveRowHasWriter' BY DEF ActiveRowHasWriter, StarterInv, TypeOK
  <2> QED BY <2>1, <2>2, <2>3, <2>4, <2>5
<1>2. CASE StartSpawn(s)
  <2> USE <1>2 DEF StartSpawn
  <2>0. srec[s] \in Recs BY DEF StarterInv, TypeOK
  <2>1. TypeOK' BY <2>0 DEF TypeOK
  <2>2. EventsAccounted' BY DEF EventsAccounted
  <2>3. StarterInv' BY <2>0 DEF StarterInv, TypeOK
  <2>4. WriterInv' BY <2>0 DEF WriterInv, StarterInv, TypeOK
  <2>5. ActiveRowHasWriter' BY <2>0 DEF ActiveRowHasWriter, StarterInv, TypeOK
  <2> QED BY <2>1, <2>2, <2>3, <2>4, <2>5
<1>3. CASE StartAttach(s)
  <2> USE <1>3 DEF StartAttach, Answer
  <2>0. srec[s] \in Recs BY DEF StarterInv, TypeOK
  <2>1. TypeOK' BY <2>0 DEF TypeOK
  <2>2. EventsAccounted' BY DEF EventsAccounted
  <2>3. StarterInv' BY <2>0 DEF StarterInv, TypeOK
  <2>4. WriterInv' BY <2>0 DEF WriterInv, StarterInv, TypeOK
  <2>5. ActiveRowHasWriter' BY <2>0 DEF ActiveRowHasWriter, StarterInv, TypeOK
  <2> QED BY <2>1, <2>2, <2>3, <2>4, <2>5
<1>4. CASE StartRollback(s)
  <2> USE <1>4 DEF StartRollback, Answer
  <2>0. srec[s] \in Recs BY DEF StarterInv, TypeOK
  <2>1. TypeOK' BY <2>0 DEF TypeOK
  <2>2. EventsAccounted' BY DEF EventsAccounted
  <2>3. StarterInv' BY <2>0 DEF StarterInv, TypeOK
  <2>4. WriterInv' BY <2>0 DEF WriterInv, StarterInv, TypeOK
  <2>5. ActiveRowHasWriter' BY <2>0 DEF ActiveRowHasWriter, StarterInv, TypeOK
  <2> QED BY <2>1, <2>2, <2>3, <2>4, <2>5
<1> QED BY <1>1, <1>2, <1>3, <1>4 DEF StarterStep

\* Emptying the slot ends one feed and touches nothing else.
LEMMA TakeSlotKeeps ==
  ASSUME RecInv, TakeSlot,
         UNCHANGED <<status, spc, srec, wpc, queue, written, tapVars, limitVars>>,
         session' \in {"live", "unlisted", "exited", "gone"},
         stopper' \in {"idle", "found"},
         clears' \subseteq Recs
  PROVE  RecInv'
<1> USE RecordingAssumption DEF RecInv, TakeSlot, tapVars, limitVars
<1>1. TypeOK' BY DEF TypeOK
<1>2. EventsAccounted' BY DEF EventsAccounted
<1>3. StarterInv' BY DEF StarterInv, TypeOK
<1>4. WriterInv' BY DEF WriterInv, TypeOK
<1>5. ActiveRowHasWriter' BY DEF ActiveRowHasWriter
<1> QED BY <1>1, <1>2, <1>3, <1>4, <1>5

\* A step that moves neither rows, slot, feeds, writers nor events.
LEMMA QuietKeeps ==
  ASSUME RecInv,
         UNCHANGED <<status, slot, spc, srec, writerVars, feed, tapVars,
                     limitVars>>,
         session' \in {"live", "unlisted", "exited", "gone"},
         stopper' \in {"idle", "found"},
         clears' \subseteq Recs
  PROVE  RecInv'
<1> USE DEF RecInv, writerVars, tapVars, limitVars
<1>1. TypeOK' BY DEF TypeOK
<1>2. EventsAccounted' /\ StarterInv' /\ WriterInv' /\ ActiveRowHasWriter'
  BY DEF EventsAccounted, StarterInv, WriterInv, ActiveRowHasWriter
<1> QED BY <1>1, <1>2

\* A tapped event is queued or counted as dropped; a writer's row is completed
\* only from an empty channel without drops, once no tap can reach it.
LEMMA TapKeeps == ASSUME RecInv, Tap PROVE RecInv'
<1> USE RecordingAssumption
    DEF RecInv, Tap, Returned, reqVars, writerVars, tapVars, limitVars
<1>0. slot \in Recs BY DEF TypeOK
<1>1. TypeOK' BY <1>0 DEF TypeOK
<1>2. EventsAccounted' BY <1>0 DEF EventsAccounted, TypeOK
<1>3. StarterInv' BY DEF StarterInv
<1>4. WriterInv' BY <1>0 DEF WriterInv, TypeOK
<1>5. ActiveRowHasWriter' BY DEF ActiveRowHasWriter
<1> QED BY <1>1, <1>2, <1>3, <1>4, <1>5

LEMMA WriterKeeps ==
  ASSUME RecInv, NEW r \in Recs, WriterStep(r) \/ WriterAborts(r)
  PROVE  RecInv'
<1> USE RecordingAssumption DEF RecInv, reqVars, writerVars, tapVars, limitVars
<1>1. CASE WriterWrites(r)
  <2> USE <1>1 DEF WriterWrites
  <2>1. TypeOK' BY DEF TypeOK
  <2>2. EventsAccounted' BY DEF EventsAccounted, TypeOK
  <2>3. StarterInv' BY DEF StarterInv
  <2>4. WriterInv' BY DEF WriterInv, TypeOK
  <2>5. ActiveRowHasWriter' BY DEF ActiveRowHasWriter
  <2> QED BY <2>1, <2>2, <2>3, <2>4, <2>5
<1>2. CASE WriterAborts(r)
  <2> USE <1>2 DEF WriterAborts
  <2>1. TypeOK' BY DEF TypeOK
  <2>2. EventsAccounted' BY DEF EventsAccounted
  <2>3. StarterInv' BY DEF StarterInv, TypeOK
  <2>4. WriterInv' BY DEF WriterInv, TypeOK
  <2>5. ActiveRowHasWriter' BY DEF ActiveRowHasWriter, TypeOK
  <2> QED BY <2>1, <2>2, <2>3, <2>4, <2>5
<1>3. CASE WriterMarksFailed(r)
  <2> USE <1>3 DEF WriterMarksFailed, StoreAndReturn
  <2>1. TypeOK' BY DEF TypeOK
  <2>2. EventsAccounted' BY DEF EventsAccounted
  <2>3. StarterInv' BY DEF StarterInv, TypeOK
  <2>4. WriterInv' BY DEF WriterInv, TypeOK
  <2>5. ActiveRowHasWriter' BY DEF ActiveRowHasWriter, TypeOK
  <2> QED BY <2>1, <2>2, <2>3, <2>4, <2>5
<1>4. CASE WriterFinishes(r)
  <2> USE <1>4 DEF WriterFinishes
  <2>1. TypeOK' BY DEF TypeOK
  <2>2. EventsAccounted' BY DEF EventsAccounted
  <2>3. StarterInv' BY DEF StarterInv, TypeOK
  <2>4. WriterInv' BY DEF WriterInv, TypeOK
  <2>5. ActiveRowHasWriter' BY DEF ActiveRowHasWriter, TypeOK
  <2> QED BY <2>1, <2>2, <2>3, <2>4, <2>5
<1>5. CASE WriterFinalises(r)
  <2> USE <1>5 DEF WriterFinalises, StoreAndReturn
  <2>1. TypeOK' BY DEF TypeOK
  <2>2. EventsAccounted' BY DEF EventsAccounted
  <2>3. StarterInv' BY DEF StarterInv, TypeOK
  <2>4. WriterInv' BY DEF WriterInv, TypeOK
  <2>5. ActiveRowHasWriter' BY DEF ActiveRowHasWriter, TypeOK
  <2> QED BY <2>1, <2>2, <2>3, <2>4, <2>5
<1> QED BY <1>1, <1>2, <1>3, <1>4, <1>5 DEF WriterStep

\* The sweep at boot fails every row that is still recording, so the writers
\* and handlers the crash took leave none behind.
LEMMA BootKeeps == ASSUME RecInv, CrashAndBoot PROVE RecInv'
<1> USE RecordingAssumption DEF RecInv, CrashAndBoot, SweepRows, TakeSlot, tapVars
<1>1. TypeOK' BY DEF TypeOK
<1>2. EventsAccounted' BY DEF EventsAccounted
<1>3. StarterInv' BY DEF StarterInv
<1>4. WriterInv' BY DEF WriterInv, TypeOK
<1>5. ActiveRowHasWriter' BY DEF ActiveRowHasWriter, TypeOK
<1> QED BY <1>1, <1>2, <1>3, <1>4, <1>5

\* The sweep of an admin command leaves no row that blocks a later start.
LEMMA SweepKeeps == ASSUME RecInv, CliSweep PROVE RecInv'
<1> USE RecordingAssumption
    DEF RecInv, CliSweep, SweepRows, reqVars, writerVars, tapVars
<1>1. TypeOK' BY DEF TypeOK
<1>2. EventsAccounted' BY DEF EventsAccounted
<1>3. StarterInv' BY DEF StarterInv, TypeOK
<1>4. WriterInv' BY DEF WriterInv, TypeOK
<1>5. ActiveRowHasWriter' BY DEF ActiveRowHasWriter, TypeOK
<1> QED BY <1>1, <1>2, <1>3, <1>4, <1>5

LEMMA RecNext == RecInv /\ [Next]_vars => RecInv'
<1> SUFFICES ASSUME RecInv, [Next]_vars PROVE RecInv'
  OBVIOUS
<1>t. /\ session \in {"live", "unlisted", "exited", "gone"}
      /\ stopper \in {"idle", "found"} /\ clears \subseteq Recs
  BY DEF RecInv, TypeOK
<1>1. ASSUME NEW s \in Starters,
             StarterStep(s) \/ \E r \in Recs : StartCreate(s, r)
      PROVE  RecInv'
  BY <1>1, StarterKeeps
<1>2. CASE StopFind
  BY <1>2, <1>t, QuietKeeps DEF StopFind, writerVars, tapVars
<1>3. CASE StopDetach
  <2>1. CASE Listed
    BY <1>3, <1>t, <2>1, TakeSlotKeeps DEF StopDetach, writerVars
  <2>2. CASE ~Listed
    BY <1>3, <1>t, <2>2, QuietKeeps DEF StopDetach, writerVars
  <2> QED BY <2>1, <2>2
<1>4. CASE Tap
  BY <1>4, TapKeeps
<1>5. ASSUME NEW r \in Recs, WriterStep(r) \/ WriterAborts(r) PROVE RecInv'
  BY <1>5, WriterKeeps
<1>6. ASSUME NEW r \in Recs, ClearSlot(r) PROVE RecInv'
  <2>1. CASE Listed
    BY <1>6, <1>t, <2>1, TakeSlotKeeps DEF ClearSlot, reqVars, writerVars
  <2>2. CASE ~Listed
    BY <1>6, <1>t, <2>2, QuietKeeps DEF ClearSlot, reqVars, writerVars
  <2> QED BY <2>1, <2>2
<1>7. CASE Unlist
  BY <1>7, <1>t, QuietKeeps DEF Unlist, reqVars, writerVars
<1>8. CASE LoopTakesSlot
  BY <1>8, <1>t, TakeSlotKeeps DEF LoopTakesSlot, reqVars, writerVars
<1>9. CASE LoopUnlists
  BY <1>9, <1>t, TakeSlotKeeps DEF LoopUnlists, reqVars, writerVars
<1>10. CASE CrashAndBoot
  BY <1>10, BootKeeps
<1>12. CASE CliSweep
  BY <1>12, SweepKeeps
<1>11. CASE UNCHANGED vars
  BY <1>11, <1>t, QuietKeeps DEF vars, reqVars
<1> QED
  BY <1>1, <1>2, <1>3, <1>4, <1>5, <1>6, <1>7, <1>8, <1>9, <1>10, <1>11,
     <1>12 DEF Next

LEMMA RecInvHolds == Spec => []RecInv
<1> QED BY RecInit, RecNext, PTL DEF Spec

\* Every variable of a session's recordings keeps its type; no channel holds
\* more than its capacity (spawn_recording_writer).
THEOREM RecordingTypeCorrect == Spec => []TypeOK
<1>1. RecInv => TypeOK BY DEF RecInv
<1> QED BY <1>1, RecInvHolds, PTL

\* A recording whose row says completed holds every event the hub tapped for it
\* (run_writer, RecordingSlot::try_send).
THEOREM CompletedGapless == Spec => []CompletedIsGapless
<1>1. RecInv => CompletedIsGapless
  BY DEF RecInv, CompletedIsGapless, EventsAccounted, WriterInv, TypeOK
<1> QED BY <1>1, RecInvHolds, PTL

\* A row in status recording, which blocks every later start, has a writer, a
\* start handler that is about to spawn it, or had a writer whose last store the
\* storage refused (start_recording, run_writer, migration 003): no refusal of
\* the rollback and no order of the requests leaves one behind.
THEOREM ActiveRowHeld == Spec => []ActiveRowHasWriter
<1>1. RecInv => ActiveRowHasWriter BY DEF RecInv
<1> QED BY <1>1, RecInvHolds, PTL

\* The hub never feeds a recording whose row is final as a complete capture
\* (SessionHub::start_recording, stop_recording).
THEOREM SlotStaysOpen == Spec => []SlotNotCompleted
<1>1. RecInv => SlotNotCompleted
  BY RecordingAssumption DEF RecInv, SlotNotCompleted, WriterInv, TypeOK
<1> QED BY <1>1, RecInvHolds, PTL
=============================================================================
