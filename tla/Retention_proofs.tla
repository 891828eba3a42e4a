-------------------------- MODULE Retention_proofs --------------------------
(***************************************************************************)
(* Proofs about Retention, for any number of recordings, shares and          *)
(* requests.                                                                *)
(***************************************************************************)
EXTENDS Retention, FiniteSetTheorems, TLAPS

Over(r) == status[r] \in {"final", "deleted"}

\* While nobody disowned it, the row of a recording whose writer is at work
\* says so.
WriterInv ==
  \A r \in Recs :
    /\ wpc[r] \in {"spawned", "writing"} /\ r \notin disowned =>
         status[r] = "recording"
    /\ wpc[r] = "writing" /\ r \notin disowned => r \in files

\* What a deletion or the cleaner works on was final when it was looked up, and
\* so is not recording now; once its file is unlinked, only a writer whose row
\* was disowned brings it back.
DeletersInv ==
  /\ \A d \in Deleters : dpc[d] # "idle" => drec[d] \in Recs /\ Over(drec[d])
  /\ \A d \in Deleters : dpc[d] = "unlinked" /\ drec[d] \in files =>
       drec[d] \in left \/ drec[d] \in disowned
  /\ \A r \in Recs : r \in batch \/ r = cur =>
       /\ Over(r)
       /\ status[r] = "final" => expiry[r] = "past" \/ r \in rescued
  /\ cur \in Recs /\ cur \in files => cur \in left \/ cur \in disowned

UnbornUnused == \A s \in Shares : shareOf[s] = "unborn" => used[s] = 0

\* What the links promise, and that one not minted yet counts nothing.
LinksInv == SharesAccounted /\ UnbornUnused

RetInv ==
  /\ TypeOK /\ WriterInv /\ DeletersInv /\ OrphansExplained /\ LinksInv

LEMMA RetInit == Init => RetInv
<1> SUFFICES ASSUME Init PROVE RetInv
  OBVIOUS
<1> USE RetentionAssumption DEF Init
<1>1. TypeOK BY DEF TypeOK, Stored
<1>2. WriterInv BY DEF WriterInv
<1>3. DeletersInv BY DEF DeletersInv
<1>4. OrphansExplained BY DEF OrphansExplained
<1>5. LinksInv
  <2>1. \A s \in Shares : Readers(s) = {}
    <3>1. \A v \in Viewers : vshare[v] = "NoShare" OBVIOUS
    <3> QED BY <3>1 DEF Readers
  <2>2. Cardinality({}) = 0 BY FS_EmptySet
  <2>3. \A s \in Shares : Cardinality(Readers(s)) = 0 BY <2>1, <2>2
  <2> QED BY <2>3 DEF LinksInv, UnbornUnused, SharesAccounted
<1> QED BY <1>1, <1>2, <1>3, <1>4, <1>5 DEF RetInv

\* What shares and their uses depend on.
ShareTouched == <<shareOf, limit, used, vshare, served, lost>>

LEMMA SharesUntouched ==
  ASSUME LinksInv, UNCHANGED ShareTouched, Rows \subseteq Rows'
  PROVE  LinksInv'
<1>1. \A s : Readers(s)' = Readers(s) BY DEF Readers, ShareTouched
<1> QED BY <1>1 DEF LinksInv, UnbornUnused, SharesAccounted, ShareTouched

\* The rows of recordings started, refused, aborted, finished or swept.
LEMMA StartKeeps ==
  ASSUME RetInv, NEW r \in Recs, Start(r) \/ StartRefused(r)
  PROVE  RetInv'
<1> USE RetentionAssumption
    DEF RetInv, Over, fileVars, startVars, deleteVars, cleanVars, shareVars,
        viewVars, NoLimit, Asks
<1>1. CASE Start(r)
  <2> USE <1>1 DEF Start
  <2>1. TypeOK' BY DEF TypeOK, Stored
  <2>2. WriterInv' BY DEF WriterInv, TypeOK
  <2>3. DeletersInv' BY DEF DeletersInv, TypeOK
  <2>0. Rows \subseteq Rows' BY DEF Rows, Stored, TypeOK
  <2>4. OrphansExplained' BY <2>0 DEF OrphansExplained
  <2>5. LinksInv' BY <2>0, SharesUntouched DEF ShareTouched
  <2> QED BY <2>1, <2>2, <2>3, <2>4, <2>5
<1>2. CASE StartRefused(r)
  <2> USE <1>2 DEF StartRefused, Finalises
  <2>1. TypeOK' BY DEF TypeOK, Stored
  <2>2. WriterInv' BY DEF WriterInv, TypeOK
  <2>3. DeletersInv' BY DEF DeletersInv, TypeOK, Rows, Stored
  <2>0. Rows \subseteq Rows' BY DEF Rows, Stored, TypeOK
  <2>4. OrphansExplained' BY <2>0 DEF OrphansExplained
  <2>5. LinksInv' BY <2>0, SharesUntouched DEF ShareTouched
  <2> QED BY <2>1, <2>2, <2>3, <2>4, <2>5
<1> QED BY <1>1, <1>2

LEMMA WriterKeeps ==
  ASSUME RetInv, NEW r \in Recs, WriterOpens(r) \/ WriterEnds(r)
  PROVE  RetInv'
<1> USE RetentionAssumption
    DEF RetInv, Over, fileVars, startVars, deleteVars, cleanVars, shareVars,
        viewVars, NoLimit, Finalises
<1>1. CASE WriterOpens(r)
  <2> USE <1>1 DEF WriterOpens
  <2>1. TypeOK' BY DEF TypeOK, Stored
  <2>2. WriterInv' BY DEF WriterInv, TypeOK
  <2>3. DeletersInv' BY DEF DeletersInv, TypeOK, Rows, Stored, WriterInv
  <2>0. Rows \subseteq Rows' BY DEF Rows, Stored, TypeOK
  <2>4. OrphansExplained'
    BY <2>0 DEF OrphansExplained, WriterInv, Rows, Stored
  <2>5. LinksInv' BY <2>0, SharesUntouched DEF ShareTouched
  <2> QED BY <2>1, <2>2, <2>3, <2>4, <2>5
<1>2. CASE WriterEnds(r)
  <2> USE <1>2 DEF WriterEnds
  <2>1. TypeOK' BY DEF TypeOK, Stored
  <2>2. WriterInv' BY DEF WriterInv, TypeOK
  <2>3. DeletersInv' BY DEF DeletersInv, TypeOK, Rows, Stored
  <2>0. Rows \subseteq Rows' BY DEF Rows, Stored, TypeOK
  <2>4. OrphansExplained' BY <2>0 DEF OrphansExplained
  <2>5. LinksInv' BY <2>0, SharesUntouched DEF ShareTouched
  <2> QED BY <2>1, <2>2, <2>3, <2>4, <2>5
<1> QED BY <1>1, <1>2

\* A row that goes takes its shares with it and was not being captured.
LEMMA RowGoes ==
  ASSUME RetInv, NEW r \in Recs, DeletesRow(r), Over(r),
         r \in files => r \in left \/ r \in disowned,
         UNCHANGED <<fileVars, startVars, shareVars, viewVars>>
  PROVE  /\ status' \in [Recs -> Stored \cup {"none", "deleted"}]
         /\ expiry' \in [Recs -> {"none", "future", "past"}]
         /\ shareOf' \in [Shares -> Recs \cup {"unborn", "gone"}]
         /\ WriterInv' /\ OrphansExplained' /\ LinksInv'
         /\ \A q \in Recs : Over(q) => Over(q)'
         /\ \A q \in Recs : status'[q] = "final" =>
              status[q] = "final" /\ expiry'[q] = expiry[q]
<1> USE RetentionAssumption
    DEF RetInv, DeletesRow, Over, fileVars, startVars, shareVars, viewVars
<1>1. /\ status' \in [Recs -> Stored \cup {"none", "deleted"}]
      /\ expiry' \in [Recs -> {"none", "future", "past"}]
      /\ shareOf' \in [Shares -> Recs \cup {"unborn", "gone"}]
  BY DEF TypeOK
<1>2. WriterInv' BY DEF WriterInv, TypeOK
<1>3. OrphansExplained' BY DEF OrphansExplained, Rows, TypeOK
<1>4. LinksInv'
  <2>1. \A s : Readers(s)' = Readers(s) BY DEF Readers
  <2> QED BY <2>1 
          DEF LinksInv, UnbornUnused, SharesAccounted, TypeOK, Rows
<1>5. /\ \A q \in Recs : Over(q) => Over(q)'
      /\ \A q \in Recs : status'[q] = "final" =>
           status[q] = "final" /\ expiry'[q] = expiry[q]
  BY DEF TypeOK
<1> QED BY <1>1, <1>2, <1>3, <1>4, <1>5

LEMMA DeleteKeeps ==
  ASSUME RetInv, NEW d \in Deleters,
         \/ \E r \in Recs : DeleteLooks(d, r)
         \/ DeleteUnlinks(d) \/ DeleteStores(d)
  PROVE  RetInv'
<1> USE RetentionAssumption
    DEF fileVars, startVars, deleteVars, cleanVars, shareVars, viewVars, NoLimit,
        Asks
<1>1. ASSUME NEW r \in Recs, DeleteLooks(d, r) PROVE RetInv'
  <2> USE <1>1 DEF RetInv, Over, DeleteLooks
  <2>1. TypeOK' BY DEF TypeOK
  <2>2. WriterInv' BY DEF WriterInv
  <2>3. DeletersInv' BY DEF DeletersInv, TypeOK
  <2>4. OrphansExplained' BY DEF OrphansExplained, Rows
  <2>5. LinksInv' BY SharesUntouched DEF ShareTouched, Rows
  <2> QED BY <2>1, <2>2, <2>3, <2>4, <2>5
<1>2. CASE DeleteUnlinks(d)
  <2> USE <1>2 DEF RetInv, Over, DeleteUnlinks
  <2>1. TypeOK' BY DEF TypeOK
  <2>2. WriterInv' BY DEF WriterInv, DeletersInv
  <2>3. DeletersInv' BY DEF DeletersInv, TypeOK
  <2>4. OrphansExplained' BY DEF OrphansExplained, Rows
  <2>5. LinksInv' BY SharesUntouched DEF ShareTouched, Rows
  <2> QED BY <2>1, <2>2, <2>3, <2>4, <2>5
<1>3. CASE DeleteStores(d)
  <2>1. drec[d] \in Recs /\ Over(drec[d])
        /\ (drec[d] \in files => drec[d] \in left \/ drec[d] \in disowned)
    BY <1>3 DEF RetInv, DeletersInv, DeleteStores
  <2>2. DeletesRow(drec[d]) BY <1>3 DEF DeleteStores
  <2>3. UNCHANGED <<fileVars, startVars, shareVars, viewVars>>
    BY <1>3 DEF DeleteStores
  <2>4. /\ status' \in [Recs -> Stored \cup {"none", "deleted"}]
        /\ expiry' \in [Recs -> {"none", "future", "past"}]
        /\ shareOf' \in [Shares -> Recs \cup {"unborn", "gone"}]
        /\ WriterInv' /\ OrphansExplained' /\ LinksInv'
        /\ \A q \in Recs : Over(q) => Over(q)'
        /\ \A q \in Recs : status'[q] = "final" =>
             status[q] = "final" /\ expiry'[q] = expiry[q]
    BY <2>1, <2>2, <2>3, RowGoes
  <2>5. TypeOK' BY <1>3, <2>4 DEF RetInv, TypeOK, DeleteStores
  <2>6. DeletersInv' BY <1>3, <2>4 DEF RetInv, TypeOK, DeletersInv, DeleteStores
  <2> QED BY <2>4, <2>5, <2>6 DEF RetInv
<1> QED BY <1>1, <1>2, <1>3

LEMMA ExpiryKeeps ==
  ASSUME RetInv, NEW r \in Recs,
         Elapse(r) \/ KeepRecording(r) \/ ExpireRecording(r)
  PROVE  RetInv'
<1> USE RetentionAssumption
    DEF RetInv, Over, fileVars, startVars, deleteVars, cleanVars, shareVars,
        viewVars, NoLimit, Asks
<1>1. CASE Elapse(r)
  <2> USE <1>1 DEF Elapse
  <2>1. TypeOK' BY DEF TypeOK
  <2>2. WriterInv' BY DEF WriterInv
  <2>3. DeletersInv' BY DEF DeletersInv, TypeOK
  <2>4. OrphansExplained' BY DEF OrphansExplained, Rows
  <2>5. LinksInv' BY SharesUntouched DEF ShareTouched, Rows
  <2> QED BY <2>1, <2>2, <2>3, <2>4, <2>5
<1>2. CASE KeepRecording(r) \/ ExpireRecording(r)
  <2> USE <1>2 DEF Reprieve, KeepRecording, ExpireRecording
  <2>1. TypeOK' BY DEF TypeOK
  <2>2. WriterInv' BY DEF WriterInv
  <2>3. DeletersInv' BY DEF DeletersInv, TypeOK
  <2>4. OrphansExplained' BY DEF OrphansExplained, Rows
  <2>5. LinksInv' BY SharesUntouched DEF ShareTouched, Rows
  <2> QED BY <2>1, <2>2, <2>3, <2>4, <2>5
<1> QED BY <1>1, <1>2

LEMMA CleanerKeeps == RetInv /\ (Cleaner \/ CleanerFails) => RetInv'
<1> SUFFICES ASSUME RetInv, Cleaner \/ CleanerFails PROVE RetInv'
  OBVIOUS
<1> USE RetentionAssumption
    DEF fileVars, startVars, deleteVars, cleanVars, shareVars, viewVars, NoLimit
<1>1. CASE CleanerLists
  <2> USE <1>1 DEF RetInv, Over, CleanerLists
  <2>0. batch' \subseteq Expired OBVIOUS
  <2>1. TypeOK' BY <2>0 DEF TypeOK, Expired, Rows
  <2>2. WriterInv' BY DEF WriterInv
  <2>3. DeletersInv' BY <2>0 DEF DeletersInv, TypeOK, Expired, Rows, Stored
  <2>4. OrphansExplained' BY DEF OrphansExplained, Rows
  <2>5. LinksInv' BY SharesUntouched DEF ShareTouched, Rows
  <2> QED BY <2>1, <2>2, <2>3, <2>4, <2>5
<1>2. ASSUME NEW r \in Recs, CleanerUnlinks(r) PROVE RetInv'
  <2> USE <1>2 DEF RetInv, Over, CleanerUnlinks
  <2>1. TypeOK' BY DEF TypeOK
  <2>2. WriterInv' BY DEF WriterInv, DeletersInv
  <2>3. DeletersInv' BY DEF DeletersInv, TypeOK
  <2>4. OrphansExplained' BY DEF OrphansExplained, Rows
  <2>5. LinksInv' BY SharesUntouched DEF ShareTouched, Rows
  <2> QED BY <2>1, <2>2, <2>3, <2>4, <2>5
<1>3. CASE CleanerStores
  <2>1. cur \in Recs /\ Over(cur)
        /\ (cur \in files => cur \in left \/ cur \in disowned)
    BY <1>3 DEF RetInv, DeletersInv, CleanerStores, TypeOK
  <2>2. DeletesRow(cur) BY <1>3 DEF CleanerStores
  <2>3. UNCHANGED <<fileVars, startVars, shareVars, viewVars>>
    BY <1>3 DEF CleanerStores
  <2>4. /\ status' \in [Recs -> Stored \cup {"none", "deleted"}]
        /\ expiry' \in [Recs -> {"none", "future", "past"}]
        /\ shareOf' \in [Shares -> Recs \cup {"unborn", "gone"}]
        /\ WriterInv' /\ OrphansExplained' /\ LinksInv'
        /\ \A q \in Recs : Over(q) => Over(q)'
        /\ \A q \in Recs : status'[q] = "final" =>
             status[q] = "final" /\ expiry'[q] = expiry[q]
    BY <2>1, <2>2, <2>3, RowGoes
  <2>5. TypeOK' BY <1>3, <2>4 DEF RetInv, TypeOK, CleanerStores
  <2>6. DeletersInv' BY <1>3, <2>4 DEF RetInv, TypeOK, DeletersInv, CleanerStores
  <2> QED BY <2>4, <2>5, <2>6 DEF RetInv
<1>4. CASE CleanerFails
  <2> USE <1>4 DEF RetInv, Over, CleanerFails, Mishap
  <2>1. TypeOK' BY DEF TypeOK
  <2>2. WriterInv' BY DEF WriterInv
  <2>3. DeletersInv' BY DEF DeletersInv, TypeOK
  <2>4. OrphansExplained' BY DEF OrphansExplained, Rows
  <2>5. LinksInv' BY SharesUntouched DEF ShareTouched, Rows
  <2> QED BY <2>1, <2>2, <2>3, <2>4, <2>5
<1> QED BY <1>1, <1>2, <1>3, <1>4 DEF Cleaner

LEMMA ShareKeeps ==
  ASSUME RetInv,
         \/ \E r \in Recs : ShareLooks(r)
         \/ \E s \in Shares : ShareStores(s) \/ ShareEnds(s)
  PROVE  RetInv'
<1> USE RetentionAssumption
    DEF RetInv, Over, fileVars, startVars, deleteVars, cleanVars, shareVars,
        viewVars, NoLimit
<1>1. ASSUME NEW r \in Recs, ShareLooks(r) PROVE RetInv'
  <2> USE <1>1 DEF ShareLooks
  <2>1. TypeOK' BY DEF TypeOK
  <2>2. WriterInv' /\ DeletersInv' BY DEF WriterInv, DeletersInv
  <2>3. OrphansExplained' BY DEF OrphansExplained, Rows
  <2>4. LinksInv' BY SharesUntouched DEF ShareTouched, Rows
  <2> QED BY <2>1, <2>2, <2>3, <2>4
<1>2. ASSUME NEW s \in Shares, ShareStores(s) PROVE RetInv'
  <2> USE <1>2 DEF ShareStores
  <2>1. TypeOK' BY DEF TypeOK
  <2>2. WriterInv' /\ DeletersInv' BY DEF WriterInv, DeletersInv
  <2>3. OrphansExplained' BY DEF OrphansExplained, Rows
  <2>4. LinksInv'
    <3>1. \A q : Readers(q)' = Readers(q) BY DEF Readers
    <3> QED BY <3>1 
          DEF LinksInv, UnbornUnused, SharesAccounted, TypeOK, Rows
  <2> QED BY <2>1, <2>2, <2>3, <2>4
<1>3. ASSUME NEW s \in Shares, ShareEnds(s) PROVE RetInv'
  <2> USE <1>3 DEF ShareEnds
  <2>1. TypeOK' BY DEF TypeOK
  <2>2. WriterInv' /\ DeletersInv' BY DEF WriterInv, DeletersInv
  <2>3. OrphansExplained' BY DEF OrphansExplained, Rows
  <2>4. LinksInv'
    <3>1. \A q : Readers(q)' = Readers(q) BY DEF Readers
    <3> QED BY <3>1 
          DEF LinksInv, UnbornUnused, SharesAccounted, TypeOK, Rows
  <2> QED BY <2>1, <2>2, <2>3, <2>4
<1> QED BY <1>1, <1>2, <1>3

LEMMA ReadersFinite == \A s : IsFiniteSet(Readers(s)) /\ Cardinality(Readers(s)) \in Nat
<1>1. \A s : Readers(s) \subseteq Viewers BY DEF Readers
<1> QED BY <1>1, RetentionAssumption, FS_Subset, FS_CardinalityType

LEMMA ViewKeeps ==
  ASSUME RetInv, NEW v \in Viewers,
         Reads(v) \/ \E s \in Shares : Consumes(v, s)
  PROVE  RetInv'
<1> USE RetentionAssumption
    DEF RetInv, Over, fileVars, startVars, deleteVars, cleanVars, shareVars,
        viewVars, NoLimit, Asks
<1>1. ASSUME NEW s \in Shares, Consumes(v, s) PROVE RetInv'
  <2> USE <1>1 DEF Consumes
  <2>1. TypeOK' BY DEF TypeOK
  <2>2. WriterInv' /\ DeletersInv' BY DEF WriterInv, DeletersInv
  <2>3. OrphansExplained' BY DEF OrphansExplained, Rows
  <2>4. LinksInv'
    <3>1. v \notin Readers(s) /\ Readers(s)' = Readers(s) \cup {v}
      BY DEF Readers, TypeOK
    <3>2. \A q \in Shares \ {s} : Readers(q)' = Readers(q)
      BY DEF Readers, TypeOK
    <3>3. Cardinality(Readers(s)') = Cardinality(Readers(s)) + 1
      BY <3>1, ReadersFinite, FS_AddElement
    <3> QED BY <3>2, <3>3, ReadersFinite 
          DEF LinksInv, UnbornUnused, SharesAccounted, TypeOK, Rows
  <2> QED BY <2>1, <2>2, <2>3, <2>4
<1>2. CASE Reads(v)
  <2> USE <1>2 DEF Reads
  <2>1. TypeOK' BY DEF TypeOK
  <2>2. WriterInv' /\ DeletersInv' BY DEF WriterInv, DeletersInv
  <2>3. OrphansExplained' BY DEF OrphansExplained, Rows
  <2>4. LinksInv'
    <3>0. PICK s \in Shares : s = vshare[v] BY DEF TypeOK
    <3>1. v \in Readers(s) /\ Readers(s)' = Readers(s) \ {v}
      <4>1. /\ vshare' = [vshare EXCEPT ![v] = "NoShare"]
            /\ vshare \in [Viewers -> Shares \cup {"NoShare"}]
        BY DEF TypeOK
      <4> QED BY <3>0, <4>1 DEF Readers
    <3>2. \A q \in Shares \ {s} : Readers(q)' = Readers(q)
      <4>1. /\ vshare' = [vshare EXCEPT ![v] = "NoShare"]
            /\ vshare \in [Viewers -> Shares \cup {"NoShare"}]
        BY DEF TypeOK
      <4> HIDE <1>2 DEF Reads, RetInv
      <4> QED BY <3>0, <4>1 DEF Readers
    <3>3. Cardinality(Readers(s)') = Cardinality(Readers(s)) - 1
      <4>1. IsFiniteSet(Readers(s)) BY ReadersFinite
      <4> HIDE <1>2 DEF Reads, RetInv
      <4> DEFINE before == Readers(s)
                 after == Readers(s)'
      <4>2. v \in before /\ after = before \ {v} BY <3>1
      <4>3. IsFiniteSet(before) BY <4>1
      <4> HIDE DEF before, after
      <4>4. Cardinality(after) = Cardinality(before) - 1
        BY <4>2, <4>3, FS_RemoveElement
      <4> QED BY <4>4 DEF before, after
    <3>4. /\ \A q \in Shares \ {s} : served'[q] = served[q] /\ lost'[q] = lost[q]
          /\ served'[s] + lost'[s] = served[s] + lost[s] + 1
      BY <3>0 DEF TypeOK
    <3>5. /\ \A q \in Shares : Cardinality(Readers(q)) \in Nat
          /\ served \in [Shares -> Nat] /\ lost \in [Shares -> Nat]
          /\ served' \in [Shares -> Nat] /\ lost' \in [Shares -> Nat]
          /\ UNCHANGED <<shareOf, limit, used, Rows>>
      BY <2>1, ReadersFinite DEF TypeOK, Rows
    <3> HIDE <1>2 DEF Reads
    <3>6. \A q \in Shares :
            used'[q] = served'[q] + lost'[q] + Cardinality(Readers(q)')
      <4>1. ASSUME NEW q \in Shares \ {s}
            PROVE  used'[q] = served'[q] + lost'[q] + Cardinality(Readers(q)')
        BY <3>2, <3>4, <3>5 DEF LinksInv, SharesAccounted
      <4>2. used[s] = served[s] + lost[s] + Cardinality(Readers(s))
        BY <3>0 DEF LinksInv, SharesAccounted
      <4>3. used'[s] = served'[s] + lost'[s] + Cardinality(Readers(s)')
        BY <3>0, <3>3, <3>4, <3>5, <4>2
      <4> QED BY <4>1, <4>3
    <3> QED BY <3>5, <3>6 DEF LinksInv, UnbornUnused, SharesAccounted
  <2> QED BY <2>1, <2>2, <2>3, <2>4
<1> QED BY <1>1, <1>2

LEMMA SweepKeeps == RetInv /\ (CrashAndBoot \/ CliSweep) => RetInv'
<1> SUFFICES ASSUME RetInv, CrashAndBoot \/ CliSweep PROVE RetInv'
  OBVIOUS
<1> USE RetentionAssumption
    DEF RetInv, Over, SweepsRows, Mishap, fileVars, startVars, deleteVars,
        cleanVars, shareVars, viewVars
<1>1. CASE CrashAndBoot
  <2> USE <1>1 DEF CrashAndBoot
  <2>1. TypeOK' BY ReadersFinite DEF TypeOK, Stored
  <2>2. WriterInv' BY DEF WriterInv, TypeOK
  <2>3. DeletersInv' BY DEF DeletersInv, TypeOK
  <2>0. Rows' = Rows BY DEF Rows, Stored, TypeOK
  <2>4. OrphansExplained' BY <2>0 DEF OrphansExplained
  <2>5. LinksInv'
    <3>1. \A s \in Shares : Readers(s)' = {} BY DEF Readers, TypeOK
    <3>2. Cardinality({}) = 0 BY FS_EmptySet
    <3>3. \A s \in Shares : Cardinality(Readers(s)') = 0 BY <3>1, <3>2
    <3> QED BY <2>0, <3>3, ReadersFinite
          DEF LinksInv, UnbornUnused, SharesAccounted, TypeOK
  <2> QED BY <2>1, <2>2, <2>3, <2>4, <2>5
<1>2. CASE CliSweep
  <2> USE <1>2 DEF CliSweep
  <2>1. TypeOK' BY DEF TypeOK, Stored
  <2>2. WriterInv' BY DEF WriterInv, TypeOK
  <2>3. DeletersInv' BY DEF DeletersInv, TypeOK
  <2>0. Rows' = Rows BY DEF Rows, Stored, TypeOK
  <2>4. OrphansExplained' BY <2>0 DEF OrphansExplained
  <2>5. LinksInv' BY <2>0, SharesUntouched DEF ShareTouched
  <2> QED BY <2>1, <2>2, <2>3, <2>4, <2>5
<1> QED BY <1>1, <1>2

LEMMA StutterKeeps == RetInv /\ UNCHANGED vars => RetInv'
<1> SUFFICES ASSUME RetInv, UNCHANGED vars PROVE RetInv'
  OBVIOUS
<1> USE DEF RetInv, Over, vars, fileVars, startVars, deleteVars, cleanVars,
            shareVars, viewVars
<1>1. TypeOK' BY DEF TypeOK
<1>2. WriterInv' /\ DeletersInv' BY DEF WriterInv, DeletersInv
<1>3. OrphansExplained' BY DEF OrphansExplained, Rows
<1>4. LinksInv' BY SharesUntouched DEF ShareTouched, Rows
<1> QED BY <1>1, <1>2, <1>3, <1>4

LEMMA RetNext == RetInv /\ [Next]_vars => RetInv'
BY StartKeeps, WriterKeeps, DeleteKeeps, ExpiryKeeps, CleanerKeeps, ShareKeeps,
   ViewKeeps, SweepKeeps, StutterKeeps DEF Next

LEMMA RetAlways == Spec => []RetInv
BY RetInit, RetNext, PTL DEF Spec

\* Every variable keeps its type.
THEOREM RetentionTypeCorrect == Spec => []TypeOK
<1>1. RetInv => TypeOK BY DEF RetInv
<1> QED BY <1>1, RetAlways, PTL

\* No deletion and no pass of the cleaner takes a file from under a writer whose
\* row nobody failed.
THEOREM WriterUndisturbed == Spec => []WriterKeepsFile
<1>1. RetInv => WriterKeepsFile BY DEF RetInv, WriterInv, WriterKeepsFile
<1> QED BY <1>1, RetAlways, PTL

\* A file without a row was left by the cleaner or by a disowned writer.
THEOREM OrphansKnown == Spec => []OrphansExplained
<1>1. RetInv => OrphansExplained BY DEF RetInv
<1> QED BY <1>1, RetAlways, PTL

\* Rows and files go together.
THEOREM FilesFollowRows == Spec => []FilesAccounted
  BY WriterUndisturbed, OrphansKnown, PTL DEF FilesAccounted

\* A link serves no more than it grants, for any number of overlapping
\* downloads, and goes with its recording.
THEOREM SharesBounded == Spec => []SharesAccounted
<1>1. RetInv => SharesAccounted BY DEF RetInv, LinksInv
<1> QED BY <1>1, RetAlways, PTL

\* Only a row that a request or an expiry condemned is deleted.
THEOREM DeletionsMeant == Spec => DeletionIsMeant
<1> DEFINE Meant ==
      \A r \in Recs : status[r] \in Stored /\ status'[r] = "deleted" =>
       /\ status[r] # "recording"
       /\ \/ expiry[r] = "past" \/ r \in rescued
          \/ \E d \in Deleters : dpc[d] = "unlinked" /\ drec[d] = r
<1>1. RetInv /\ [Next]_vars => [Meant]_vars
  <2> SUFFICES ASSUME RetInv, Next, NEW r \in Recs, status[r] \in Stored,
                      status'[r] = "deleted"
               PROVE  /\ status[r] # "recording"
                      /\ \/ expiry[r] = "past" \/ r \in rescued
                         \/ \E d \in Deleters : dpc[d] = "unlinked" /\ drec[d] = r
    OBVIOUS
  <2>1. \/ \E d \in Deleters : DeleteStores(d) /\ drec[d] = r
        \/ CleanerStores /\ cur = r
    <3>1. status[r] # "deleted" BY DEF Stored
    <3> QED BY <3>1 DEF Next, RetInv, TypeOK, Stored, Cleaner, Start, StartRefused,
          Finalises, WriterOpens, WriterEnds, DeleteLooks, DeleteUnlinks,
          DeleteStores, DeletesRow, Elapse, KeepRecording, ExpireRecording, Reprieve, CleanerLists,
          CleanerUnlinks, CleanerStores, CleanerFails, ShareLooks, ShareStores,
          ShareEnds, Consumes, Reads, CrashAndBoot, CliSweep, SweepsRows
  <2>2. CASE \E d \in Deleters : DeleteStores(d) /\ drec[d] = r
    BY <2>2 DEF RetInv, DeletersInv, DeleteStores, Over
  <2>3. CASE CleanerStores /\ cur = r
    BY <2>3 DEF RetInv, DeletersInv, Over, Stored
  <2> QED BY <2>1, <2>2, <2>3
<1> QED BY <1>1, RetAlways, PTL DEF Spec, DeletionIsMeant
=============================================================================
