----------------------------- MODULE Retention -----------------------------
(***************************************************************************)
(* Recordings after their start: rows and .cast files, which are never       *)
(* changed in one step, the writer that fills a file, the requests that      *)
(* delete, keep, expire, share and download a recording, and the cleaner     *)
(* that deletes what expired.  A start's INSERT and the spawn of its writer  *)
(* are one action here; module Recording tells them apart.                   *)
(***************************************************************************)
EXTENDS Naturals, FiniteSets

CONSTANTS
  Recs,      \* recordings that may be started
  Shares,    \* share links that may be minted (bounds the minting)
  Viewers,   \* GET .../data requests with a share token that may overlap
  Deleters,  \* DELETE requests that may overlap
  TtlDays,   \* RecordingConfig.ttl_days; 0 keeps recordings for ever
  Batch,     \* BATCH_LIMIT (100)
  MaxUses,   \* largest max_uses of a share; 0 is no limit
  MaxAsked,  \* bound on starts, deletions, new expiries and downloads
  MaxMishaps \* bound on crashes, admin commands run beside the server, and
             \* row deletions of the cleaner that fail

ASSUME RetentionAssumption ==
  /\ "NoRec" \notin Recs /\ "unborn" \notin Recs /\ "gone" \notin Recs
  /\ "NoShare" \notin Shares
  /\ IsFiniteSet(Viewers)
  /\ TtlDays \in Nat /\ Batch \in Nat \ {0} /\ MaxUses \in Nat
  /\ MaxAsked \in Nat /\ MaxMishaps \in Nat

VARIABLES
  status,    \* recordings.status: "none" before the INSERT, "recording", "final"
             \* (completed or failed), "deleted"
  expiry,    \* expires_at: "none" (NULL), "future", "past"
  files,     \* recordings whose .cast is on disk
  wpc,       \* writers: "none", "spawned", "writing", "ended"
  starting,  \* recordings whose start may still be refused
  dpc,       \* deletions: "idle", "looked", "unlinked"
  drec,      \* the recording a deletion works on
  batch,     \* what is left of the cleaner's list
  cur,       \* the recording whose file the cleaner has just removed
  sharing,   \* the recording POST .../shares has looked up
  shareOf,   \* recording_shares.recording_id; "unborn" before, and "gone" once
             \* the share was deleted or its expires_at has passed
  limit,     \* recording_shares.max_uses
  used,      \* recording_shares.used_count
  vshare,    \* the share a download has consumed a use of
  vrec,      \* the recording it is about to read
  served,    \* history: downloads answered with the file
  lost,      \* history: uses consumed for nothing
  disowned,  \* history: rows failed by others while their writer worked
  left,      \* history: files the cleaner failed to remove
  rescued,   \* history: listed recordings given a new expiry since
  asked,     \* requests so far
  mishaps    \* mishaps so far

fileVars   == <<files, left>>
startVars  == <<wpc, starting, disowned>>
deleteVars == <<dpc, drec>>
cleanVars  == <<batch, cur>>
shareVars  == <<sharing, limit, used>>
viewVars   == <<vshare, vrec, served, lost>>
vars == <<status, expiry, fileVars, startVars, deleteVars, cleanVars, rescued,
          shareOf, shareVars, viewVars, asked, mishaps>>

Asks == asked < MaxAsked /\ asked' = asked + 1 /\ UNCHANGED mishaps
Mishap == mishaps < MaxMishaps /\ mishaps' = mishaps + 1 /\ UNCHANGED asked
NoLimit == UNCHANGED <<asked, mishaps>>

Stored == {"recording", "final"}
Rows == {r \in Recs : status[r] \in Stored}

Init ==
  /\ status = [r \in Recs |-> "none"]
  /\ expiry = [r \in Recs |-> "none"]
  /\ files = {} /\ left = {}
  /\ wpc = [r \in Recs |-> "none"] /\ starting = {} /\ disowned = {}
  /\ dpc = [d \in Deleters |-> "idle"] /\ drec = [d \in Deleters |-> "NoRec"]
  /\ batch = {} /\ cur = "NoRec" /\ rescued = {}
  /\ sharing = "NoRec"
  /\ shareOf = [s \in Shares |-> "unborn"]
  /\ limit = [s \in Shares |-> 0] /\ used = [s \in Shares |-> 0]
  /\ vshare = [v \in Viewers |-> "NoShare"]
  /\ vrec = [v \in Viewers |-> "NoRec"]
  /\ served = [s \in Shares |-> 0] /\ lost = [s \in Shares |-> 0]
  /\ asked = 0 /\ mishaps = 0

\* complete_recording or fail_recording: an UPDATE by id, whatever the status.
Finalises(r) ==
  status' = [q \in Recs |-> IF q = r /\ q \in Rows THEN "final" ELSE status[q]]

\* DELETE FROM recordings, which cascades to the shares.
DeletesRow(r) ==
  /\ status' = [status EXCEPT ![r] = "deleted"]
  /\ expiry' = [expiry EXCEPT ![r] = "none"]
  /\ shareOf' = [s \in Shares |-> IF shareOf[s] = r THEN "gone" ELSE shareOf[s]]

-----------------------------------------------------------------------------
(* The start of a recording and its writer *)

\* create_recording, compute_expires_at, spawn_recording_writer.
Start(r) ==
  /\ Asks
  /\ status[r] = "none"
  /\ status' = [status EXCEPT ![r] = "recording"]
  /\ expiry' = [expiry EXCEPT ![r] = IF TtlDays = 0 THEN "none" ELSE "future"]
  /\ wpc' = [wpc EXCEPT ![r] = "spawned"]
  /\ starting' = starting \cup {r}
  /\ UNCHANGED <<fileVars, disowned, deleteVars, cleanVars, rescued, shareOf,
                 shareVars, viewVars>>

\* The hub refuses the slot: the row is failed although the writer may not even
\* have created its file.  A handler that attached changes nothing here.
StartRefused(r) ==
  /\ r \in starting
  /\ starting' = starting \ {r}
  /\ Finalises(r)
  /\ disowned' = disowned \cup {r}
  /\ UNCHANGED <<expiry, fileVars, wpc, deleteVars, cleanVars, rescued, shareOf,
                 shareVars, viewVars>>
  /\ NoLimit

\* File::create succeeds, or fails and the writer aborts.
WriterOpens(r) ==
  /\ wpc[r] = "spawned"
  /\ \/ /\ wpc' = [wpc EXCEPT ![r] = "writing"]
        /\ files' = files \cup {r}
        /\ UNCHANGED status
     \/ /\ wpc' = [wpc EXCEPT ![r] = "ended"]
        /\ Finalises(r)
        /\ UNCHANGED files
  /\ UNCHANGED <<expiry, left, starting, disowned, deleteVars, cleanVars,
                 rescued, shareOf, shareVars, viewVars>>
  /\ NoLimit

\* The feed ended or an I/O error stopped the writer.
WriterEnds(r) ==
  /\ wpc[r] = "writing"
  /\ wpc' = [wpc EXCEPT ![r] = "ended"]
  /\ Finalises(r)
  /\ UNCHANGED <<expiry, fileVars, starting, disowned, deleteVars, cleanVars,
                 rescued, shareOf, shareVars, viewVars>>
  /\ NoLimit

-----------------------------------------------------------------------------
(* DELETE /api/recordings/{id}, by the owner or an administrator *)

\* mutant: a recording that is still captured may be deleted
DeleteLooksAway(d, r) ==
  /\ Asks
  /\ dpc[d] = "idle"
  /\ r \in Rows
  /\ dpc' = [dpc EXCEPT ![d] = "looked"]
  /\ drec' = [drec EXCEPT ![d] = r]
  /\ UNCHANGED <<status, expiry, fileVars, startVars, cleanVars, rescued,
                 shareOf, shareVars, viewVars>>

\* delete_recording reads the row; 409 while it is being captured.
DeleteLooks(d, r) ==
  /\ Asks
  /\ dpc[d] = "idle"
  /\ status[r] = "final"
  /\ dpc' = [dpc EXCEPT ![d] = "looked"]
  /\ drec' = [drec EXCEPT ![d] = r]
  /\ UNCHANGED <<status, expiry, fileVars, startVars, cleanVars, rescued,
                 shareOf, shareVars, viewVars>>

\* remove_file: a missing file will do; any other error answers 500 and keeps
\* the row.
DeleteUnlinks(d) ==
  /\ dpc[d] = "looked"
  /\ \/ /\ files' = files \ {drec[d]}
        /\ left' = left \ {drec[d]}
        /\ dpc' = [dpc EXCEPT ![d] = "unlinked"]
        /\ UNCHANGED drec
     \/ /\ drec[d] \in files
        /\ dpc' = [dpc EXCEPT ![d] = "idle"]
        /\ drec' = [drec EXCEPT ![d] = "NoRec"]
        /\ UNCHANGED <<files, left>>
  /\ UNCHANGED <<status, expiry, startVars, cleanVars, rescued, shareOf,
                 shareVars, viewVars>>
  /\ NoLimit

DeleteStores(d) ==
  /\ dpc[d] = "unlinked"
  /\ DeletesRow(drec[d])
  /\ dpc' = [dpc EXCEPT ![d] = "idle"]
  /\ drec' = [drec EXCEPT ![d] = "NoRec"]
  /\ UNCHANGED <<fileVars, startVars, cleanVars, rescued, shareVars,
                 viewVars>>
  /\ NoLimit

-----------------------------------------------------------------------------
(* Expiry and the cleaner *)

Expired == {r \in Rows : expiry[r] = "past" /\ status[r] # "recording"}

Elapse(r) ==
  /\ r \in Rows /\ expiry[r] = "future"
  /\ expiry' = [expiry EXCEPT ![r] = "past"]
  /\ UNCHANGED <<status, fileVars, startVars, deleteVars, cleanVars, rescued,
                 shareOf, shareVars, viewVars>>
  /\ NoLimit

\* set_recording_permanent, set_recording_expiry: one UPDATE, 404 when there is
\* no row.
Reprieve(r, when) ==
  /\ r \in Rows
  /\ expiry' = [expiry EXCEPT ![r] = when]
  /\ rescued' = rescued \cup ({r} \cap (batch \cup {cur}))
  /\ UNCHANGED <<status, fileVars, startVars, deleteVars, cleanVars, shareOf,
                 shareVars, viewVars>>

\* POST .../keep
KeepRecording(r) ==
  /\ Asks
  /\ Reprieve(r, "none")

\* POST .../expire: with a lifetime of 0 it is overdue at once.
ExpireRecording(r) ==
  /\ Asks
  /\ Reprieve(r, IF TtlDays = 0 THEN "past" ELSE "future")

\* mutant: whatever has an expiry is listed
CleanerListsEarly ==
  LET Listed == {r \in Rows : expiry[r] # "none" /\ status[r] # "recording"} IN
  /\ batch = {} /\ cur = "NoRec"
  /\ \E B \in SUBSET Listed : B # {} /\ Cardinality(B) <= Batch /\ batch' = B
  /\ rescued' = {}
  /\ UNCHANGED <<status, expiry, fileVars, startVars, deleteVars, cur, shareOf,
                 shareVars, viewVars>>
  /\ NoLimit

\* list_expired_recordings: a full batch, or all there is.
CleanerLists ==
  /\ batch = {} /\ cur = "NoRec"
  /\ \E B \in SUBSET Expired :
       /\ B # {} /\ Cardinality(B) <= Batch
       /\ B = Expired \/ Cardinality(B) = Batch
       /\ batch' = B
  /\ rescued' = {}
  /\ UNCHANGED <<status, expiry, fileVars, startVars, deleteVars, cur, shareOf,
                 shareVars, viewVars>>
  /\ NoLimit

\* mutant: a row whose file cannot be removed is left for the next pass
CleanerSkips(r) ==
  /\ cur = "NoRec" /\ r \in batch
  /\ batch' = batch \ {r}
  /\ \/ cur' = r /\ files' = files \ {r}
     \/ r \in files /\ UNCHANGED <<cur, files>>
  /\ UNCHANGED <<status, expiry, left, startVars, deleteVars, rescued, shareOf,
                 shareVars, viewVars>>
  /\ NoLimit

\* remove_file; any error is logged and the row goes all the same.
CleanerUnlinks(r) ==
  /\ cur = "NoRec" /\ r \in batch
  /\ batch' = batch \ {r} /\ cur' = r
  /\ \/ files' = files \ {r} /\ left' = left \ {r}
     \/ r \in files /\ left' = left \cup {r} /\ UNCHANGED files
  /\ UNCHANGED <<status, expiry, startVars, deleteVars, rescued, shareOf,
                 shareVars, viewVars>>
  /\ NoLimit

\* The DELETE looks at nothing but the id.
CleanerStores ==
  /\ cur # "NoRec"
  /\ cur' = "NoRec"
  /\ DeletesRow(cur)
  /\ UNCHANGED <<fileVars, startVars, deleteVars, batch, rescued,
                 shareVars, viewVars>>
  /\ NoLimit

\* It fails: logged, and left for a later pass.
CleanerFails ==
  /\ cur # "NoRec"
  /\ Mishap
  /\ cur' = "NoRec"
  /\ UNCHANGED <<status, expiry, fileVars, startVars, deleteVars, batch,
                 rescued, shareOf, shareVars, viewVars>>

-----------------------------------------------------------------------------
(* Share links *)

ShareLooks(r) ==
  /\ sharing = "NoRec" /\ r \in Rows
  /\ \E s \in Shares : shareOf[s] = "unborn"
  /\ sharing' = r
  /\ UNCHANGED <<status, expiry, fileVars, startVars, deleteVars, cleanVars,
                 rescued, shareOf, limit, used, viewVars>>
  /\ NoLimit

\* The INSERT; its foreign key refuses a row that has gone meanwhile.
ShareStores(s) ==
  /\ sharing # "NoRec" /\ shareOf[s] = "unborn"
  /\ sharing' = "NoRec"
  /\ \/ /\ sharing \in Rows
        /\ shareOf' = [shareOf EXCEPT ![s] = sharing]
        /\ \E n \in 0..MaxUses : limit' = [limit EXCEPT ![s] = n]
     \/ sharing \notin Rows /\ UNCHANGED <<shareOf, limit>>
  /\ UNCHANGED <<status, expiry, fileVars, startVars, deleteVars, cleanVars,
                 rescued, used, viewVars>>
  /\ NoLimit

\* delete_recording_share, or the share expires: no use is granted any more.
ShareEnds(s) ==
  /\ shareOf[s] \in Recs
  /\ shareOf' = [shareOf EXCEPT ![s] = "gone"]
  /\ UNCHANGED <<status, expiry, fileVars, startVars, deleteVars, cleanVars,
                 rescued, shareVars, viewVars>>
  /\ NoLimit

\* mutant: >= for >
ConsumesOneMore(v, s) ==
  /\ Asks
  /\ vshare[v] = "NoShare"
  /\ shareOf[s] \in Recs
  /\ limit[s] = 0 \/ used[s] <= limit[s]
  /\ used' = [used EXCEPT ![s] = @ + 1]
  /\ vshare' = [vshare EXCEPT ![v] = s]
  /\ vrec' = [vrec EXCEPT ![v] = shareOf[s]]
  /\ UNCHANGED <<status, expiry, fileVars, startVars, deleteVars, cleanVars,
                 rescued, shareOf, sharing, limit, served, lost>>

\* consume_recording_share: one UPDATE checks and counts.
Consumes(v, s) ==
  /\ Asks
  /\ vshare[v] = "NoShare"
  /\ shareOf[s] \in Recs
  /\ limit[s] = 0 \/ used[s] < limit[s]
  /\ used' = [used EXCEPT ![s] = @ + 1]
  /\ vshare' = [vshare EXCEPT ![v] = s]
  /\ vrec' = [vrec EXCEPT ![v] = shareOf[s]]
  /\ UNCHANGED <<status, expiry, fileVars, startVars, deleteVars, cleanVars,
                 rescued, shareOf, sharing, limit, served, lost>>

\* The file is read afterwards: 404, and the use is gone, when it is not there.
Reads(v) ==
  /\ vshare[v] # "NoShare"
  /\ IF vrec[v] \in files
       THEN served' = [served EXCEPT ![vshare[v]] = @ + 1] /\ UNCHANGED lost
       ELSE lost' = [lost EXCEPT ![vshare[v]] = @ + 1] /\ UNCHANGED served
  /\ vshare' = [vshare EXCEPT ![v] = "NoShare"]
  /\ vrec' = [vrec EXCEPT ![v] = "NoRec"]
  /\ UNCHANGED <<status, expiry, fileVars, startVars, deleteVars, cleanVars,
                 rescued, shareOf, shareVars>>
  /\ NoLimit

-----------------------------------------------------------------------------
(* The sweep of migration 003 *)

\* Whoever opens the database fails the rows that are still 'recording'.
SweepsRows ==
  status' = [r \in Recs |-> IF status[r] = "recording" THEN "final"
                                                      ELSE status[r]]

\* Readers(s): downloads that have consumed a use of s and not read yet.
Readers(s) == {v \in Viewers : vshare[v] = s}

CrashAndBoot ==
  /\ Mishap
  /\ SweepsRows
  /\ wpc' = [r \in Recs |-> IF wpc[r] = "none" THEN "none" ELSE "ended"]
  /\ starting' = {}
  /\ dpc' = [d \in Deleters |-> "idle"] /\ drec' = [d \in Deleters |-> "NoRec"]
  /\ batch' = {} /\ cur' = "NoRec" /\ rescued' = {}
  /\ sharing' = "NoRec"
  /\ lost' = [s \in Shares |-> lost[s] + Cardinality(Readers(s))]
  /\ vshare' = [v \in Viewers |-> "NoShare"]
  /\ vrec' = [v \in Viewers |-> "NoRec"]
  /\ UNCHANGED <<expiry, fileVars, disowned, shareOf, limit, used,
                 served>>

\* An admin command opens it beside the running server.
CliSweep ==
  /\ Mishap
  /\ SweepsRows
  /\ disowned' = disowned \cup {r \in Recs : status[r] = "recording"}
  /\ UNCHANGED <<expiry, fileVars, wpc, starting, deleteVars, cleanVars, rescued,
                 shareOf, shareVars, viewVars>>

-----------------------------------------------------------------------------
Cleaner == CleanerLists \/ (\E r \in Recs : CleanerUnlinks(r)) \/ CleanerStores

Next ==
  \/ \E r \in Recs : \/ Start(r) \/ StartRefused(r)
                     \/ WriterOpens(r) \/ WriterEnds(r)
                     \/ Elapse(r) \/ ShareLooks(r)
                     \/ KeepRecording(r) \/ ExpireRecording(r)
                     \/ \E d \in Deleters : DeleteLooks(d, r)
  \/ \E d \in Deleters : DeleteUnlinks(d) \/ DeleteStores(d)
  \/ Cleaner \/ CleanerFails
  \/ \E s \in Shares : \/ ShareStores(s) \/ ShareEnds(s)
                       \/ \E v \in Viewers : Consumes(v, s)
  \/ \E v \in Viewers : Reads(v)
  \/ CrashAndBoot \/ CliSweep

Spec == Init /\ [][Next]_vars

(* The cleaner runs at every boot and every hour; an unlink or a DELETE may    *)
(* fail, the DELETE not for ever.                                             *)
FairSpec == Spec /\ WF_vars(Cleaner)

-----------------------------------------------------------------------------
(* Properties *)

TypeOK ==
  /\ status \in [Recs -> Stored \cup {"none", "deleted"}]
  /\ expiry \in [Recs -> {"none", "future", "past"}]
  /\ files \subseteq Recs /\ left \subseteq Recs
  /\ wpc \in [Recs -> {"none", "spawned", "writing", "ended"}]
  /\ starting \subseteq Recs /\ disowned \subseteq Recs
  /\ dpc \in [Deleters -> {"idle", "looked", "unlinked"}]
  /\ drec \in [Deleters -> Recs \cup {"NoRec"}]
  /\ batch \subseteq Recs /\ cur \in Recs \cup {"NoRec"} /\ rescued \subseteq Recs
  /\ sharing \in Recs \cup {"NoRec"}
  /\ shareOf \in [Shares -> Recs \cup {"unborn", "gone"}]
  /\ limit \in [Shares -> Nat] /\ used \in [Shares -> Nat]
  /\ vshare \in [Viewers -> Shares \cup {"NoShare"}]
  /\ vrec \in [Viewers -> Recs \cup {"NoRec"}]
  /\ served \in [Shares -> Nat] /\ lost \in [Shares -> Nat]
  /\ asked \in Nat /\ mishaps \in Nat

\* recording_service.rs:157-163 and sqlite.rs:2419-2425: neither a deletion nor
\* the cleaner takes the file, or the row, from under a writer; only a row that
\* somebody else failed while its writer worked can lose them.
WriterKeepsFile ==
  \A r \in Recs : wpc[r] = "writing" /\ r \notin disowned =>
    status[r] = "recording" /\ r \in files

\* recording_service.rs:165-170: no file outlives its row, because a deletion
\* keeps the row of a file it could not remove.  There are two exceptions: the
\* cleaner, which does not, and a writer whose row was failed before it created
\* its file.
OrphansExplained ==
  \A r \in files : r \in Rows \/ r \in left \/ r \in disowned

\* Rows and files go together, while a writer works and after any deletion.
FilesAccounted == WriterKeepsFile /\ OrphansExplained

\* A row is deleted by a request for it, or by a pass of the cleaner that found
\* it expired; one that is still being captured is not deleted at all.
DeletionIsMeant ==
  [][\A r \in Recs : status[r] \in Stored /\ status'[r] = "deleted" =>
       /\ status[r] # "recording"
       /\ \/ expiry[r] = "past" \/ r \in rescued
          \/ \E d \in Deleters : dpc[d] = "unlinked" /\ drec[d] = r]_vars

\* No link serves more downloads than it was minted for, every use it counts
\* was served, lost or is being served, and none outlives its recording.
SharesAccounted ==
  \A s \in Shares :
    /\ limit[s] > 0 => used[s] <= limit[s]
    /\ used[s] = served[s] + lost[s] + Cardinality(Readers(s))
    /\ shareOf[s] \in Recs => shareOf[s] \in Rows

\* recording_cleaner.rs:57-60: rows do not accumulate.  Whatever cannot be
\* removed, an expired recording is deleted, unless somebody gives it a new
\* expiry, and does not keep the batch from the others.
ExpiredIsCleaned == \A r \in Recs : (r \in Expired) ~> (r \notin Expired)

-----------------------------------------------------------------------------
(* A statement of the repository that the code does not keep *)

\* docs/api.md:1086 and 1163: a recording without expires_at is permanent.  The
\* cleaner deletes one that was kept after the pass listed it.
PermanentIsKept ==
  [][\A r \in Recs : cur = r /\ expiry[r] = "none" => status'[r] = status[r]]_vars
=============================================================================
