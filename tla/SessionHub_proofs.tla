-------------------------- MODULE SessionHub_proofs --------------------------
(***************************************************************************)
(* Proofs about SessionHub, for any users, connections, PTYs and bounds.    *)
(***************************************************************************)
EXTENDS SessionHub, FiniteSetTheorems, TLAPS

\* Every action of the specification, as one flat disjunction.
LEMMA NextCases ==
  ASSUME Next
  PROVE  \/ CreateRow \/ ReserveTarget
         \/ \E c \in Conns : \/ LoadSession(c) \/ ResolveFails(c) \/ FastPath(c)
                             \/ LoseSpawnRace(c) \/ SpawnFails(c)
                             \/ OrphanRelease(c) \/ OrphanClose(c)
                             \/ AddParticipant(c) \/ FinishReplay(c)
                             \/ AbortReplay(c) \/ ForwardEviction(c)
                             \/ ForwarderEnds(c) \/ ClientLeaves(c)
                             \/ ShutdownSeen(c) \/ Detach(c)
         \/ \E c \in Conns, g \in Ptys : InstallPty(c, g)
         \/ \E g \in Ptys : \/ ShellExits(g) \/ LastSenderGone(g)
                            \/ PtyUnlists(g) \/ PtyClosesRow(g)
         \/ ReaperScan \/ ReaperRecheck \/ ReaperClosesRow \/ LazyGc
         \/ OwnerClose \/ StopSession
         \/ \E u \in Users : EvictUser(u)
         \/ IdleTimeout \/ PendingTimeout
  BY DEF Next, HandlerStep, ReplayStep, ForwarderStep, PtyCleanup, ReaperStep

-----------------------------------------------------------------------------
(* Type correctness *)

LEMMA TypeInit == Init => TypeOK
  BY HubAssumption DEF Init, TypeOK, Phases

LEMMA TypeNext == TypeOK /\ [Next]_vars => TypeOK'
<1> SUFFICES ASSUME TypeOK, [Next]_vars PROVE TypeOK'
  OBVIOUS
<1> USE HubAssumption DEF TypeOK, Phases, vars, rowVars, hubVars, liveVars,
        connVars, taskVars
<1>1. CASE CreateRow BY <1>1 DEF CreateRow
<1>2. CASE ReserveTarget BY <1>2 DEF ReserveTarget
<1>3. ASSUME NEW c \in Conns, LoadSession(c) PROVE TypeOK'
  BY <1>3 DEF LoadSession, Goto
<1>4. ASSUME NEW c \in Conns, ResolveFails(c) PROVE TypeOK'
  BY <1>4 DEF ResolveFails, Goto
<1>5. ASSUME NEW c \in Conns, FastPath(c) PROVE TypeOK'
  BY <1>5 DEF FastPath, JoinLive, Live, Goto
<1>6. ASSUME NEW c \in Conns, LoseSpawnRace(c) PROVE TypeOK'
  BY <1>6 DEF LoseSpawnRace, JoinLive, Live, Goto
<1>7. ASSUME NEW c \in Conns, SpawnFails(c) PROVE TypeOK'
  BY <1>7 DEF SpawnFails, Goto
<1>8. ASSUME NEW c \in Conns, OrphanRelease(c) PROVE TypeOK'
  BY <1>8 DEF OrphanRelease, RemoveEntry, Goto
<1>9. ASSUME NEW c \in Conns, OrphanClose(c) PROVE TypeOK'
  BY <1>9 DEF OrphanClose, CloseRow, CloseRefused, Goto
<1>10. ASSUME NEW c \in Conns, AddParticipant(c) PROVE TypeOK'
  BY <1>10 DEF AddParticipant, Goto
<1>11. ASSUME NEW c \in Conns, FinishReplay(c) PROVE TypeOK'
  BY <1>11 DEF FinishReplay, Goto
<1>12. ASSUME NEW c \in Conns, AbortReplay(c) PROVE TypeOK'
  BY <1>12 DEF AbortReplay, Return, Goto
<1>13. ASSUME NEW c \in Conns, ForwardEviction(c) PROVE TypeOK'
  BY <1>13 DEF ForwardEviction
<1>14. ASSUME NEW c \in Conns, ForwarderEnds(c) PROVE TypeOK'
  BY <1>14 DEF ForwarderEnds
<1>15. ASSUME NEW c \in Conns, ClientLeaves(c) PROVE TypeOK'
  BY <1>15 DEF ClientLeaves, Goto
<1>16. ASSUME NEW c \in Conns, ShutdownSeen(c) PROVE TypeOK'
  BY <1>16 DEF ShutdownSeen, Goto
<1>17. ASSUME NEW c \in Conns, Detach(c) PROVE TypeOK'
  BY <1>17 DEF Detach, DropConnection, ClockAfter, Return, Goto, Live
<1>18. ASSUME NEW c \in Conns, NEW g \in Ptys, InstallPty(c, g) PROVE TypeOK'
  BY <1>18 DEF InstallPty, Goto
<1>19. ASSUME NEW g \in Ptys, ShellExits(g) PROVE TypeOK'
  BY <1>19 DEF ShellExits
<1>20. ASSUME NEW g \in Ptys, LastSenderGone(g) PROVE TypeOK'
  BY <1>20 DEF LastSenderGone
<1>21. ASSUME NEW g \in Ptys, PtyUnlists(g) PROVE TypeOK'
  BY <1>21 DEF PtyUnlists, RemoveEntry
<1>22. ASSUME NEW g \in Ptys, PtyClosesRow(g) PROVE TypeOK'
  BY <1>22 DEF PtyClosesRow, CloseRow, CloseRefused
<1>23. CASE ReaperScan
  BY <1>23 DEF ReaperScan, DropExpiredPending, RemoveEntry
<1>24. CASE ReaperRecheck
  BY <1>24 DEF ReaperRecheck, DropExpiredPending, RemoveEntry
<1>25. CASE ReaperClosesRow
  BY <1>25 DEF ReaperClosesRow, CloseRow, CloseRefused
<1>26. CASE LazyGc BY <1>26 DEF LazyGc, DropExpiredPending, RemoveEntry
<1>27. CASE OwnerClose BY <1>27 DEF OwnerClose, CloseRow
<1>28. CASE StopSession BY <1>28 DEF StopSession, RemoveEntry
<1>29. ASSUME NEW u \in Users, EvictUser(u) PROVE TypeOK'
  BY <1>29 DEF EvictUser, ClockAfter
<1>30. CASE IdleTimeout BY <1>30 DEF IdleTimeout
<1>31. CASE PendingTimeout BY <1>31 DEF PendingTimeout
<1>32. CASE UNCHANGED vars BY <1>32
<1> QED
  BY NextCases, <1>1, <1>2, <1>3, <1>4, <1>5, <1>6, <1>7, <1>8, <1>9, <1>10,
     <1>11, <1>12, <1>13, <1>14, <1>15, <1>16, <1>17, <1>18, <1>19, <1>20,
     <1>21, <1>22, <1>23, <1>24, <1>25, <1>26, <1>27, <1>28, <1>29, <1>30,
     <1>31, <1>32

\* The hub's slot, counters, rosters and handler records keep their types.
THEOREM TypeCorrect == Spec => []TypeOK
  BY TypeInit, TypeNext, PTL DEF Spec

-----------------------------------------------------------------------------
(* The roster, the refcount and the idle clock *)

\* The actions that touch the slot or the counters; the rest leave them alone.
LEMMA HubSteps ==
  ASSUME [Next]_vars
  PROVE  \/ UNCHANGED <<entry, liveVars>>
         \/ RemoveEntry
         \/ ReserveTarget
         \/ \E c \in Conns : AddParticipant(c)
         \/ \E c \in Conns : Detach(c) /\ DropConnection(UserOf[c])
         \/ \E c \in Conns, g \in Ptys : InstallPty(c, g)
         \/ \E u \in Users : EvictUser(u)
         \/ IdleTimeout
<1> USE DEF vars, rowVars, hubVars, liveVars, connVars, taskVars
<1>1. CASE UNCHANGED vars BY <1>1
<1>2. CASE Next
  BY <1>2, NextCases
     DEF CreateRow, LoadSession, ResolveFails, FastPath, LoseSpawnRace,
         JoinLive, SpawnFails, OrphanRelease, OrphanClose, FinishReplay,
         AbortReplay, ForwardEviction, ForwarderEnds, ClientLeaves,
         ShutdownSeen, Detach, ShellExits, LastSenderGone, PtyUnlists,
         PtyClosesRow, ReaperScan, ReaperRecheck, ReaperClosesRow, LazyGc,
         DropExpiredPending, OwnerClose, StopSession, PendingTimeout
<1> QED BY <1>1, <1>2

\* What the counters of one LiveSession agree on.
CountersInv == TypeOK /\ RosterMatchesRefcount /\ IdleClockExact

LEMMA CountersInit == Init => CountersInv
  BY TypeInit, HubAssumption
     DEF Init, CountersInv, RosterMatchesRefcount, IdleClockExact, Live

LEMMA CountersNext == CountersInv /\ [Next]_vars => CountersInv'
<1> SUFFICES ASSUME CountersInv, [Next]_vars
             PROVE  RosterMatchesRefcount' /\ IdleClockExact'
  BY TypeNext DEF CountersInv
<1> USE HubAssumption DEF CountersInv, RosterMatchesRefcount, IdleClockExact,
        Live
<1>1. CASE UNCHANGED <<entry, liveVars>> BY <1>1 DEF liveVars
<1>2. CASE RemoveEntry BY <1>2 DEF RemoveEntry
<1>3. CASE ReserveTarget BY <1>3 DEF ReserveTarget, liveVars
<1>4. ASSUME NEW c \in Conns, AddParticipant(c)
      PROVE  RosterMatchesRefcount' /\ IdleClockExact'
  <2>1. UserOf[c] \in Users OBVIOUS
  <2>2. CASE ~Live BY <1>4, <2>2 DEF AddParticipant, liveVars
  <2>3. CASE Live
    <3>1. /\ connections' = [connections EXCEPT ![UserOf[c]] = @ + 1]
          /\ participants' = participants \cup {UserOf[c]}
          /\ idleSince' = "None" /\ entry' = entry
      BY <1>4, <2>3 DEF AddParticipant
    <3>2. connections \in [Users -> Nat] BY DEF TypeOK
    <3> QED BY <2>1, <2>3, <3>1, <3>2
  <2> QED BY <2>2, <2>3
<1>5. ASSUME NEW c \in Conns, Detach(c), DropConnection(UserOf[c])
      PROVE  RosterMatchesRefcount' /\ IdleClockExact'
  <2> DEFINE u == UserOf[c]
  <2>1. u \in Users OBVIOUS
  <2>2. connections \in [Users -> Nat] BY DEF TypeOK
  <2>3. CASE ~(Live /\ connections[u] > 0)
    BY <1>5, <2>3 DEF DropConnection, ClockAfter, liveVars
  <2>4. CASE Live /\ connections[u] > 0
    <3>1. /\ connections' = [connections EXCEPT ![u] = @ - 1]
          /\ participants' = IF connections[u] = 1 THEN participants \ {u}
                                                   ELSE participants
          /\ idleSince' = IF \A v \in Users : connections'[v] = 0
                            THEN "Idle" ELSE idleSince
          /\ entry' = entry
      BY <1>5, <2>4 DEF DropConnection, ClockAfter
    <3>2. connections' \in [Users -> Nat] BY <2>1, <2>2, <2>4, <3>1
    <3>3. RosterMatchesRefcount' BY <2>1, <2>2, <2>4, <3>1, <3>2
    <3>4. IdleClockExact' BY <2>1, <2>2, <2>4, <3>1, <3>2
    <3> QED BY <3>3, <3>4
  <2> QED BY <2>3, <2>4
<1>6. ASSUME NEW c \in Conns, NEW g \in Ptys, InstallPty(c, g)
      PROVE  RosterMatchesRefcount' /\ IdleClockExact'
  BY <1>6 DEF InstallPty
<1>7. ASSUME NEW u \in Users, EvictUser(u)
      PROVE  RosterMatchesRefcount' /\ IdleClockExact'
  <2>1. CASE ~(Live /\ connections[u] > 0)
    BY <1>7, <2>1 DEF EvictUser, liveVars
  <2>2. CASE Live /\ connections[u] > 0
    <3>1. /\ connections' = [connections EXCEPT ![u] = 0]
          /\ participants' = participants \ {u}
          /\ idleSince' = IF \A v \in Users : connections'[v] = 0
                            THEN "Idle" ELSE idleSince
          /\ entry' = entry
      BY <1>7, <2>2 DEF EvictUser, ClockAfter
    <3>2. connections \in [Users -> Nat] /\ connections' \in [Users -> Nat]
      BY <3>1 DEF TypeOK
    <3>3. RosterMatchesRefcount' BY <2>2, <3>1, <3>2
    <3>4. IdleClockExact' BY <2>2, <3>1, <3>2
    <3> QED BY <3>3, <3>4
  <2> QED BY <2>1, <2>2
<1>8. CASE IdleTimeout BY <1>8 DEF IdleTimeout
<1> QED
  BY HubSteps, <1>1, <1>2, <1>3, <1>4, <1>5, <1>6, <1>7, <1>8

\* A user is on the roster of LiveSession exactly while its refcount is
\* positive, for any mix of tabs, evictions, exits and respawns.
THEOREM RosterCorrect == Spec => []RosterMatchesRefcount
  BY CountersInit, CountersNext, PTL DEF Spec, CountersInv

\* The reaper's clock runs exactly while no connection is counted.
THEOREM IdleClockCorrect == Spec => []IdleClockExact
  BY CountersInit, CountersNext, PTL DEF Spec, CountersInv

\* The reaper never removes an entry with a counted connection, even one that
\* attached between its scan under the read lock and its recheck.
THEOREM ReaperIsSafe == Spec => ReaperSparesConnected
<1>1. ASSUME CountersInv, ReaperRecheck, Live, entry' # entry, NEW u \in Users
      PROVE  connections[u] = 0
  <2>1. idleSince = "Over"
    BY <1>1, HubAssumption
       DEF ReaperRecheck, Live, DropExpiredPending, hubVars
  <2> QED
    BY <1>1, <2>1 DEF CountersInv, TypeOK, IdleClockExact
<1>2. CountersInv /\ [Next]_vars =>
        [ReaperRecheck /\ Live /\ entry' # entry
           => \A u \in Users : connections[u] = 0]_vars
  BY <1>1
<1> QED
  BY <1>2, CountersInit, CountersNext, PTL DEF Spec, ReaperSparesConnected

-----------------------------------------------------------------------------
(* PTY loops, the slot and the row *)

\* Nothing happens to a session before its row exists.
RowFirst ==
  /\ creator = "before" => row = "none"
  /\ row = "none" => /\ creator = "before"
                     /\ \A c \in Conns : pc[c] = "idle"
                     /\ \A g \in Ptys : pty[g] = "unused"
                     /\ reaper = "idle" /\ closer = "idle"
                     /\ entry = "Absent"

LoopInv ==
  TypeOK /\ RowFirst /\ LiveEntryHasLoop

LEMMA LoopInit == Init => LoopInv
  BY TypeInit, HubAssumption
     DEF Init, LoopInv, RowFirst, LiveEntryHasLoop, Live

\* A step of a handler that had read the row, which therefore exists.
LEMMA HandlerKeepsLoops ==
  ASSUME LoopInv, NEW c \in Conns, TypeOK',
         \/ LoadSession(c) \/ ResolveFails(c) \/ FastPath(c)
         \/ LoseSpawnRace(c) \/ SpawnFails(c) \/ OrphanRelease(c)
         \/ OrphanClose(c) \/ AddParticipant(c) \/ FinishReplay(c)
         \/ AbortReplay(c) \/ ForwardEviction(c) \/ ForwarderEnds(c)
         \/ ClientLeaves(c) \/ ShutdownSeen(c) \/ Detach(c)
  PROVE  LoopInv'
<1>1. row # "none" /\ UNCHANGED <<creator, pty, reaper, closer>>
  BY DEF LoopInv, TypeOK, RowFirst, taskVars, rowVars,
         LoadSession, ResolveFails, FastPath, LoseSpawnRace, JoinLive,
         SpawnFails, OrphanRelease, OrphanClose, AddParticipant, FinishReplay,
         AbortReplay, ForwardEviction, ForwarderEnds, ClientLeaves,
         ShutdownSeen, Detach
<1>2. (entry' = entry \/ entry' = "Absent") /\ (row' = row \/ row' = "closed")
  BY DEF CloseRow, CloseRefused, RemoveEntry, DropConnection, ClockAfter, hubVars, rowVars,
         LoadSession, ResolveFails, FastPath, LoseSpawnRace, JoinLive,
         SpawnFails, OrphanRelease, OrphanClose, AddParticipant, FinishReplay,
         AbortReplay, ForwardEviction, ForwarderEnds, ClientLeaves,
         ShutdownSeen, Detach
<1> QED
  BY <1>1, <1>2, HubAssumption
     DEF LoopInv, RowFirst, LiveEntryHasLoop, Live

LEMMA LoopNext == LoopInv /\ [Next]_vars => LoopInv'
<1> SUFFICES ASSUME LoopInv, [Next]_vars PROVE LoopInv'
  OBVIOUS
<1>0. TypeOK' BY TypeNext DEF LoopInv
<1> USE <1>0, HubAssumption DEF LoopInv, RowFirst, LiveEntryHasLoop,
        Live, vars, rowVars, hubVars, connVars, taskVars
<1>1. CASE CreateRow BY <1>1 DEF CreateRow, TypeOK
<1>2. CASE ReserveTarget BY <1>2 DEF ReserveTarget
<1>3. ASSUME NEW c \in Conns, NEW g \in Ptys, InstallPty(c, g) PROVE LoopInv'
  <2>1. row # "none" BY <1>3 DEF InstallPty
  <2>2. row' = row /\ pty' = [pty EXCEPT ![g] = "running"] /\ entry' = g
    BY <1>3 DEF InstallPty
  <2>3. pty \in [Ptys -> {"unused", "running", "stopping", "unlisted", "done",
                    "unclosed"}]
    BY DEF TypeOK
  <2>4. creator' = creator BY <1>3 DEF InstallPty
  <2> QED BY <2>1, <2>2, <2>3, <2>4
<1>4. ASSUME NEW g \in Ptys,
             ShellExits(g) \/ LastSenderGone(g) \/ PtyUnlists(g)
               \/ PtyClosesRow(g)
      PROVE  LoopInv'
  <2>1. pty \in [Ptys -> {"unused", "running", "stopping", "unlisted", "done",
                    "unclosed"}]
    BY DEF TypeOK
  <2>2. row # "none" /\ creator' = creator
    BY <1>4 DEF ShellExits, LastSenderGone, PtyUnlists, PtyClosesRow
  <2>3. CASE ShellExits(g) BY <2>1, <2>2, <2>3 DEF ShellExits
  <2>4. CASE LastSenderGone(g) BY <2>1, <2>2, <2>4 DEF LastSenderGone
  <2>5. CASE PtyUnlists(g) BY <2>1, <2>2, <2>5 DEF PtyUnlists, RemoveEntry
  <2>6. CASE PtyClosesRow(g)
    <3>1. row' \in {row, "closed"}
      BY <2>6 DEF PtyClosesRow, CloseRow, CloseRefused
    <3>2. /\ entry' = entry /\ pty[g] = "unlisted"
          /\ \E end \in {"done", "unclosed"} : pty' = [pty EXCEPT ![g] = end]
      BY <2>6 DEF PtyClosesRow
    <3> QED BY <2>1, <2>2, <3>1, <3>2
  <2> QED BY <1>4, <2>3, <2>4, <2>5, <2>6
<1>5. CASE ReaperScan \/ LazyGc
  BY <1>5 DEF ReaperScan, LazyGc, DropExpiredPending, RemoveEntry
<1>6. CASE ReaperRecheck
  BY <1>6 DEF ReaperRecheck, DropExpiredPending, RemoveEntry
<1>7. CASE ReaperClosesRow BY <1>7 DEF ReaperClosesRow, CloseRow, CloseRefused
<1>8. CASE OwnerClose BY <1>8 DEF OwnerClose, CloseRow
<1>9. CASE StopSession BY <1>9 DEF StopSession, RemoveEntry
<1>10. ASSUME NEW u \in Users, EvictUser(u) PROVE LoopInv'
  BY <1>10 DEF EvictUser, ClockAfter
<1>11. CASE IdleTimeout BY <1>11 DEF IdleTimeout
<1>12. CASE PendingTimeout BY <1>12 DEF PendingTimeout
<1>13. CASE UNCHANGED vars BY <1>13
<1> QED
  BY NextCases, HandlerKeepsLoops, <1>1, <1>2, <1>3, <1>4, <1>5, <1>6, <1>7,
     <1>8, <1>9, <1>10, <1>11, <1>12, <1>13

\* A Live entry always has a loop that has yet to unlist it, although loops of
\* dead PTYs unlist by session id: no attachment is accepted to a lost shell.
THEOREM LiveHasLoop == Spec => []LiveEntryHasLoop
  BY LoopInit, LoopNext, PTL DEF Spec, LoopInv

-----------------------------------------------------------------------------
(* The handlers and the refcount *)

Counting == {"greet", "replay", "main", "exiting"}

\* What the hub and a handler know of each other: a registration belongs to a
\* handler that has not ended; whoever was told of an eviction is upset; and a
\* handler of an undisturbed user holds the channels of the listed shell, and
\* is counted once it asked for it.
HandlersInv ==
  /\ \A c \in Conns : added[c] = "yes" => pc[c] \in Counting
  /\ \A c \in Conns : fwd[c] \in {"evicted", "flagged"} \/ added[c] = "evicted"
                        => UserOf[c] \in upset
  /\ Live => \A c \in Conns : pc[c] \in Attached /\ UserOf[c] \notin upset =>
               /\ at[c] = entry
               /\ pc[c] \in Counting => added[c] = "yes"

RefcountInv == TypeOK /\ HandlersInv /\ RefcountExact

LEMMA RefcountInit == Init => RefcountInv
  BY TypeInit, HubAssumption
     DEF Init, RefcountInv, HandlersInv, RefcountExact, Live, Attached

LEMMA RegisteredFinite ==
  \A u : IsFiniteSet(Registered(u)) /\ Cardinality(Registered(u)) \in Nat
<1> SUFFICES ASSUME NEW u
             PROVE  IsFiniteSet(Registered(u)) /\ Cardinality(Registered(u)) \in Nat
  OBVIOUS
<1>1. Registered(u) \in SUBSET Conns BY DEF Registered
<1> QED BY <1>1, HubAssumption, FS_Subset, FS_CardinalityType

\* The steps that leave the slot, the counts and the registrations alone, or
\* take the whole entry away: nothing to count then.
LEMMA RefcountStays ==
  ASSUME RefcountInv, HandlersInv',
         \/ entry' \notin Ptys
         \/ entry' = entry /\ connections' = connections /\ added' = added
              /\ upset \subseteq upset'
  PROVE  RefcountExact'
<1>1. CASE entry' \notin Ptys BY <1>1 DEF RefcountExact, Live
<1>2. CASE entry' = entry /\ connections' = connections /\ added' = added
             /\ upset \subseteq upset'
  <2>1. \A u : Registered(u)' = Registered(u) BY <1>2 DEF Registered
  <2> QED BY <1>2, <2>1 DEF RefcountInv, RefcountExact, Live
<1> QED BY <1>1, <1>2
\* Steps of a handler on its own record, the slot and the disturbed users as
\* they were.
LEMMA HandlerKeepsHandlers ==
  ASSUME TypeOK, HandlersInv, NEW c \in Conns,
         \/ LoadSession(c) \/ ResolveFails(c) \/ FastPath(c)
         \/ LoseSpawnRace(c) \/ SpawnFails(c) \/ OrphanRelease(c)
         \/ OrphanClose(c) \/ AddParticipant(c) \/ FinishReplay(c)
         \/ AbortReplay(c) \/ ForwardEviction(c) \/ ForwarderEnds(c)
         \/ ClientLeaves(c) \/ ShutdownSeen(c) \/ Detach(c)
  PROVE  HandlersInv'
<1> USE HubAssumption DEF HandlersInv, Counting, Attached, Live, Goto, hubVars,
        rowVars, taskVars
<1>0. /\ pc \in [Conns -> Phases] /\ at \in [Conns -> Ptys \cup {"NoPty"}]
      /\ fwd \in [Conns -> {"open", "evicted", "flagged", "gone"}]
      /\ added \in [Conns -> {"no", "yes", "evicted"}]
  BY DEF TypeOK
<1> HIDE DEF HandlersInv
<1>1. CASE LoadSession(c) BY <1>0, <1>1 DEF HandlersInv, LoadSession
<1>2. CASE ResolveFails(c) BY <1>0, <1>2 DEF HandlersInv, ResolveFails
<1>3. CASE FastPath(c) BY <1>0, <1>3 DEF HandlersInv, FastPath, JoinLive
<1>4. CASE LoseSpawnRace(c)
  BY <1>0, <1>4 DEF HandlersInv, LoseSpawnRace, JoinLive
<1>5. CASE SpawnFails(c) BY <1>0, <1>5 DEF HandlersInv, SpawnFails
<1>6. CASE OrphanRelease(c)
  BY <1>0, <1>6 DEF HandlersInv, OrphanRelease, RemoveEntry
<1>7. CASE OrphanClose(c) BY <1>0, <1>7 DEF HandlersInv, OrphanClose
<1>8. CASE AddParticipant(c) BY <1>0, <1>8 DEF HandlersInv, AddParticipant
<1>9. CASE FinishReplay(c) BY <1>0, <1>9 DEF HandlersInv, FinishReplay
<1>10. CASE AbortReplay(c) BY <1>0, <1>10 DEF HandlersInv, AbortReplay, Return
<1>11. CASE ForwardEviction(c) BY <1>0, <1>11 DEF HandlersInv, ForwardEviction
<1>12. CASE ForwarderEnds(c) BY <1>0, <1>12 DEF HandlersInv, ForwarderEnds
<1>13. CASE ClientLeaves(c) BY <1>0, <1>13 DEF HandlersInv, ClientLeaves
<1>14. CASE ShutdownSeen(c) BY <1>0, <1>14 DEF HandlersInv, ShutdownSeen
<1>15. CASE Detach(c)
  <2>1. entry' = entry /\ upset' = upset
    BY <1>15 DEF Detach, DropConnection
  <2> QED BY <1>0, <1>15, <2>1 DEF HandlersInv, Detach, Return
<1> QED
  BY <1>1, <1>2, <1>3, <1>4, <1>5, <1>6, <1>7, <1>8, <1>9, <1>10, <1>11, <1>12,
     <1>13, <1>14, <1>15

LEMMA HandlersNext == TypeOK /\ HandlersInv /\ [Next]_vars => HandlersInv'
<1> SUFFICES ASSUME TypeOK, HandlersInv, [Next]_vars PROVE HandlersInv'
  OBVIOUS
<1> USE HubAssumption
<1>1. CASE \/ UNCHANGED <<pc, at, fwd, added, upset, entry>>
           \/ UNCHANGED <<pc, at, fwd, added, upset>> /\ entry' \notin Ptys
  BY <1>1 DEF HandlersInv, Live
<1>2. ASSUME NEW c \in Conns, NEW g \in Ptys, InstallPty(c, g)
      PROVE  HandlersInv'
  <2>1. /\ pc' = [pc EXCEPT ![c] = "installed"] /\ at' = [at EXCEPT ![c] = g]
        /\ upset' = upset \cup {UserOf[d] : d \in {e \in Conns : pc[e] \in Attached}}
        /\ entry' = g /\ UNCHANGED <<fwd, added>> /\ pc[c] = "spawning"
    BY <1>2 DEF InstallPty, Goto
  <2>2. pc \in [Conns -> Phases] /\ at \in [Conns -> Ptys \cup {"NoPty"}]
    BY DEF TypeOK
  <2>3. added[c] # "yes" BY <2>1 DEF HandlersInv, Counting
  <2>4. \A d \in Conns \ {c} : pc'[d] \in Attached => UserOf[d] \in upset'
    BY <2>1, <2>2
  <2> QED BY <2>1, <2>2, <2>3, <2>4 DEF HandlersInv, Counting, Live
<1>3. ASSUME NEW u \in Users, EvictUser(u) PROVE HandlersInv'
  <2>1. CASE Live /\ connections[u] > 0
    <3>1. /\ fwd' = [c \in Conns |->
                       IF UserOf[c] = u /\ at[c] = entry /\ fwd[c] = "open"
                         THEN "evicted" ELSE fwd[c]]
          /\ added' = [c \in Conns |->
                         IF UserOf[c] = u /\ added[c] = "yes"
                           THEN "evicted" ELSE added[c]]
          /\ upset' = upset \cup {u} /\ UNCHANGED <<pc, at, entry>>
      BY <1>3, <2>1 DEF EvictUser
    <3> QED BY <3>1 DEF HandlersInv, Live
  <2>2. CASE ~(Live /\ connections[u] > 0)
    BY <1>1, <1>3, <2>2 DEF EvictUser
  <2> QED BY <2>1, <2>2
<1>4. CASE CreateRow \/ ReserveTarget
  BY <1>1, <1>4 DEF CreateRow, ReserveTarget, connVars, hubVars
<1>5. ASSUME NEW g \in Ptys,
             ShellExits(g) \/ LastSenderGone(g) \/ PtyUnlists(g) \/ PtyClosesRow(g)
      PROVE  HandlersInv'
  BY <1>1, <1>5 DEF ShellExits, LastSenderGone, PtyUnlists, PtyClosesRow,
     RemoveEntry, connVars, hubVars
<1>6. CASE ReaperScan \/ ReaperRecheck \/ ReaperClosesRow \/ LazyGc
  BY <1>1, <1>6 DEF ReaperScan, ReaperRecheck, ReaperClosesRow, LazyGc,
     DropExpiredPending, RemoveEntry, connVars, hubVars
<1>7. CASE OwnerClose \/ StopSession \/ IdleTimeout \/ PendingTimeout
  BY <1>1, <1>7 DEF OwnerClose, StopSession, IdleTimeout, PendingTimeout,
     RemoveEntry, connVars, hubVars
<1>8. CASE UNCHANGED vars
  BY <1>1, <1>8 DEF vars, connVars, hubVars
<1> QED
  BY NextCases, HandlerKeepsHandlers, <1>2, <1>3, <1>4, <1>5, <1>6, <1>7, <1>8
\* A handler of c that ends without the hub being told: c was not counted any
\* more, or its user's count is no longer accounted for.
LEMMA UntoldKeeps ==
  ASSUME RefcountInv, NEW c \in Conns, UserOf[c] \in upset',
         upset \subseteq upset', UNCHANGED <<entry, connections>>,
         \A d \in Conns \ {c} : added'[d] = added[d]
  PROVE  RefcountExact'
<1>1. \A u \in Users \ upset' : Registered(u)' = Registered(u)
  BY HubAssumption DEF Registered
<1> QED BY <1>1 DEF RefcountInv, RefcountExact, Live

LEMMA AddParticipantCounts ==
  ASSUME RefcountInv, NEW c \in Conns, AddParticipant(c)
  PROVE  RefcountExact'
<1>1. CASE ~Live
  BY <1>1 DEF AddParticipant, RefcountExact, Live
<1>2. CASE Live
  <2> DEFINE u == UserOf[c]
  <2>1. u \in Users BY HubAssumption
  <2>2. /\ connections' = [connections EXCEPT ![u] = @ + 1]
        /\ added' = [added EXCEPT ![c] = "yes"] /\ UNCHANGED <<entry, upset>>
        /\ added[c] # "yes"
    BY <1>2 DEF AddParticipant, RefcountInv, HandlersInv, Counting
  <2>3. added \in [Conns -> {"no", "yes", "evicted"}] /\ connections \in [Users -> Nat]
    BY DEF RefcountInv, TypeOK
  <2>4. ASSUME NEW v \in Users \ upset
        PROVE  connections'[v] = Cardinality(Registered(v)')
    <3>1. connections[v] = Cardinality(Registered(v))
      BY <1>2 DEF RefcountInv, RefcountExact
    <3>2. CASE v = u
      <4>1. Registered(v)' = Registered(v) \cup {c} /\ c \notin Registered(v)
        BY <2>2, <2>3, <3>2 DEF Registered
      <4>2. Cardinality(Registered(v)') = Cardinality(Registered(v)) + 1
        BY <4>1, RegisteredFinite, FS_AddElement
      <4> QED BY <2>1, <2>2, <2>3, <3>1, <3>2, <4>2
    <3>3. CASE v # u
      <4>1. Registered(v)' = Registered(v) BY <2>2, <2>3, <3>3 DEF Registered
      <4> QED BY <2>1, <2>2, <2>3, <3>1, <3>3, <4>1
    <3> QED BY <3>2, <3>3
  <2> QED BY <2>2, <2>4 DEF RefcountExact, Live
<1> QED BY <1>1, <1>2

\* A handler that is counted gives back its own count, exactly once.
LEMMA DetachCounts ==
  ASSUME RefcountInv, NEW c \in Conns, Detach(c)
  PROVE  RefcountExact'
<1> DEFINE u == UserOf[c]
<1>1. u \in Users BY HubAssumption
<1>2. /\ added' = [added EXCEPT ![c] = "no"] /\ entry' = entry /\ upset' = upset
      /\ pc[c] = "exiting"
  BY DEF Detach, Return, DropConnection, hubVars
<1>3. added \in [Conns -> {"no", "yes", "evicted"}] /\ connections \in [Users -> Nat]
  BY DEF RefcountInv, TypeOK
<1>4. CASE ~Live BY <1>2, <1>4 DEF RefcountExact, Live
<1>5. CASE Live /\ u \in upset
  <2>1. \A v \in Users \ {u} : connections'[v] = connections[v]
    BY <1>1, <1>3 DEF Detach, DropConnection, hubVars, liveVars
  <2>2. \A v \in Users \ {u} : Registered(v)' = Registered(v)
    BY <1>2, <1>3 DEF Registered
  <2> QED BY <1>2, <1>5, <2>1, <2>2 DEF RefcountInv, RefcountExact, Live
<1>6. CASE Live /\ u \notin upset
  <2>1. added[c] = "yes" /\ fwd[c] # "flagged"
    BY <1>2, <1>6 DEF RefcountInv, HandlersInv, Attached, Counting
  <2>2. c \in Registered(u) BY <2>1 DEF Registered
  <2>3. connections[u] = Cardinality(Registered(u))
    BY <1>1, <1>6 DEF RefcountInv, RefcountExact
  <2>4. connections[u] > 0
    BY <2>2, <2>3, RegisteredFinite, FS_EmptySet
  <2>5. connections' = [connections EXCEPT ![u] = @ - 1]
    BY <1>6, <2>1, <2>4 DEF Detach, DropConnection
  <2>6. ASSUME NEW v \in Users \ upset
        PROVE  connections'[v] = Cardinality(Registered(v)')
    <3>1. connections[v] = Cardinality(Registered(v))
      BY <1>6 DEF RefcountInv, RefcountExact
    <3>2. CASE v = u
      <4>1. Registered(v)' = Registered(v) \ {c}
        BY <1>2, <1>3, <3>2 DEF Registered
      <4>2. Cardinality(Registered(v)') = Cardinality(Registered(v)) - 1
        BY <2>2, <3>2, <4>1, RegisteredFinite, FS_RemoveElement
      <4> QED BY <1>1, <1>3, <2>5, <3>1, <3>2, <4>2
    <3>3. CASE v # u
      <4>1. Registered(v)' = Registered(v) BY <1>2, <1>3, <3>3 DEF Registered
      <4> QED BY <1>1, <1>3, <2>5, <3>1, <3>3, <4>1
    <3> QED BY <3>2, <3>3
  <2> QED BY <1>2, <2>6 DEF RefcountExact, Live
<1> QED BY <1>4, <1>5, <1>6

LEMMA RefcountNext == RefcountInv /\ [Next]_vars => RefcountInv'
<1> SUFFICES ASSUME RefcountInv, [Next]_vars PROVE RefcountInv'
  OBVIOUS
<1>0. TypeOK' /\ HandlersInv' BY TypeNext, HandlersNext DEF RefcountInv
<1> SUFFICES RefcountExact' BY <1>0 DEF RefcountInv
<1> USE <1>0, HubAssumption DEF hubVars, liveVars, connVars, rowVars, taskVars
<1>1. ASSUME NEW c \in Conns,
             \/ LoadSession(c) \/ ResolveFails(c) \/ FastPath(c)
             \/ LoseSpawnRace(c) \/ SpawnFails(c) \/ OrphanRelease(c)
             \/ OrphanClose(c) \/ FinishReplay(c) \/ ForwardEviction(c)
             \/ ForwarderEnds(c) \/ ClientLeaves(c) \/ ShutdownSeen(c)
      PROVE  RefcountExact'
  BY <1>1, RefcountStays
     DEF LoadSession, ResolveFails, FastPath, LoseSpawnRace, JoinLive,
         SpawnFails, OrphanRelease, OrphanClose, FinishReplay,
         ForwardEviction, ForwarderEnds, ClientLeaves, ShutdownSeen, RemoveEntry
<1>2. ASSUME NEW c \in Conns, AbortReplay(c) PROVE RefcountExact'
  <2>1. /\ UserOf[c] \in upset' /\ upset \subseteq upset'
        /\ UNCHANGED <<entry, connections>>
    BY <1>2 DEF AbortReplay
  <2>2. \A d \in Conns \ {c} : added'[d] = added[d]
    BY <1>2 DEF AbortReplay, Return, RefcountInv, TypeOK
  <2> QED BY <2>1, <2>2, UntoldKeeps
<1>3. ASSUME NEW c \in Conns, NEW g \in Ptys, InstallPty(c, g)
      PROVE  RefcountExact'
  <2>1. /\ connections' = [u \in Users |-> 0]
        /\ upset' = upset \cup {UserOf[d] : d \in {e \in Conns : pc[e] \in Attached}}
        /\ added' = added
    BY <1>3 DEF InstallPty
  <2>2. ASSUME NEW u \in Users \ upset' PROVE Registered(u)' = {}
    <3> SUFFICES ASSUME NEW d \in Conns, UserOf[d] = u, added[d] = "yes" PROVE FALSE
      BY <2>1 DEF Registered
    <3>1. pc[d] \in Attached BY DEF RefcountInv, HandlersInv, Counting, Attached
    <3> QED BY <2>1, <3>1
  <2> QED BY <2>1, <2>2, FS_EmptySet DEF RefcountExact
<1>4. ASSUME NEW u \in Users, EvictUser(u) PROVE RefcountExact'
  <2>1. CASE Live /\ connections[u] > 0
    <3>1. \A v \in Users \ upset' :
            v \notin upset /\ connections'[v] = connections[v] /\ Registered(v)' = Registered(v)
      BY <1>4, <2>1 DEF EvictUser, Registered, RefcountInv, TypeOK
    <3>2. entry' = entry BY <1>4 DEF EvictUser
    <3> QED BY <3>1, <3>2 DEF RefcountInv, RefcountExact, Live
  <2>2. CASE ~(Live /\ connections[u] > 0)
    BY <1>4, <2>2, RefcountStays DEF EvictUser
  <2> QED BY <2>1, <2>2
<1>5. CASE CreateRow \/ ReserveTarget
  BY <1>5, RefcountStays DEF CreateRow, ReserveTarget
<1>6. ASSUME NEW g \in Ptys,
             ShellExits(g) \/ LastSenderGone(g) \/ PtyUnlists(g) \/ PtyClosesRow(g)
      PROVE  RefcountExact'
  BY <1>6, RefcountStays
     DEF ShellExits, LastSenderGone, PtyUnlists, PtyClosesRow, RemoveEntry
<1>7. CASE ReaperScan \/ ReaperRecheck \/ ReaperClosesRow \/ LazyGc
  BY <1>7, RefcountStays DEF ReaperScan, ReaperRecheck, ReaperClosesRow, LazyGc,
     DropExpiredPending, RemoveEntry
<1>8. CASE OwnerClose \/ StopSession \/ IdleTimeout \/ PendingTimeout
  BY <1>8, RefcountStays DEF OwnerClose, StopSession, IdleTimeout,
     PendingTimeout, RemoveEntry
<1>9. CASE UNCHANGED vars BY <1>9, RefcountStays DEF vars
<1> QED
  BY NextCases, AddParticipantCounts, DetachCounts, <1>1, <1>2, <1>3, <1>4,
     <1>5, <1>6, <1>7, <1>8, <1>9

\* Whatever tabs come and go and race with each other, LiveSession.connections
\* is the number of handlers the hub still has to hear from: no exit is missed
\* and none is counted twice, short of evictions, cut replays and respawns.
THEOREM RefcountCorrect == Spec => []RefcountExact
  BY RefcountInit, RefcountNext, PTL DEF Spec, RefcountInv

\* What the hub counts about a session agrees: the roster with the refcounts,
\* the clock with both, and the refcount of a user whom no eviction, aborted
\* replay or respawn has hit with the handlers attached.
THEOREM CountsCorrect == Spec => []CountsAgree
  BY RosterCorrect, IdleClockCorrect, RefcountCorrect, PTL DEF CountsAgree

\* Nobody on the roster types into an older shell of the session.
THEOREM RosterSharesOneShell == Spec => []RosterSharesShell
<1>1. RefcountInv => RosterSharesShell
  BY DEF RefcountInv, HandlersInv, RosterSharesShell, Counting, Attached
<1> QED BY <1>1, RefcountInit, RefcountNext, PTL DEF Spec
=============================================================================
