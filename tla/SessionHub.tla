------------------------------ MODULE SessionHub ------------------------------
(***************************************************************************)
(* One terminal session of the gateway: the slot `SessionHub::sessions[id]`,*)
(* the session's row in SQLite, the WebSocket handlers that attach to it    *)
(* (ws.rs::handle_socket), the PTY loops spawned for it, the idle reaper,   *)
(* the owner's DELETE, and the eviction of a user.  Every operation of the  *)
(* hub is keyed by the session id and runs under the map's RwLock, so one   *)
(* id is enough; each critical section is one action and every `.await`     *)
(* between two of them is a point where any other actor may run.            *)
(***************************************************************************)
EXTENDS Naturals, FiniteSets

CONSTANTS
  Users,         \* users who may attach
  Conns,         \* WebSocket connections; one is reused after its handler ends
  UserOf,        \* the user whose token a connection presents
  Ptys,          \* PTYs that may be spawned for the session (bounds respawns)
  MaxEvictions,  \* bound on evictions (account disabled, token rotated)
  MaxCloses,     \* bound on DELETE requests
  MaxAborts      \* bound on replays cut short

ASSUME HubAssumption ==
  /\ UserOf \in [Conns -> Users]
  /\ IsFiniteSet(Conns)
  /\ {"Absent", "Pending", "NoPty"} \cap Ptys = {}
  /\ MaxEvictions \in Nat
  /\ MaxCloses \in Nat
  /\ MaxAborts \in Nat

VARIABLES
  row,          \* sessions.status of the row: "none" until POST /api/sessions
  creator,      \* the POST handler: "before", "reserving", "done"
  entry,        \* the map slot: "Absent", "Pending", or the Live entry's PTY
  ttl,          \* "Over" once the Pending entry outlived pending_attach_ttl
  connections,  \* LiveSession.connections (0 is "no key")
  participants, \* the keys of LiveSession.participants
  idleSince,    \* "None", "Idle" (clock running), "Over" (past idle_timeout)
  pty,          \* the I/O loop of each PTY: "unused", "running", "stopping",
                \* "unlisted", then "done", or "unclosed" when the storage
                \* refused its close of the row
  pc,           \* where each WebSocket handler stands
  at,           \* the PTY whose channels a handler holds (its cmd_tx clone)
  fwd,          \* its forwarder: "open", "evicted" (own PeerEvicted buffered),
                \* "flagged" (was_evicted stored), "gone" (ended without it)
  added,        \* history: "yes" once the hub counted this handler, "evicted"
                \* once evict_user dropped that count
  upset,        \* history: users hit by an eviction, an aborted replay, or a
                \* respawn under an attached handler
  reaper,       \* "idle", "rechecking", "closing"
  closer,       \* the DELETE handler: "idle", "stopping"
  closes,       \* DELETE requests so far
  evictions,    \* calls of evict_user so far
  aborts        \* replays cut short so far

liveVars == <<connections, participants, idleSince>>
hubVars  == <<entry, ttl, connections, participants, idleSince>>
connVars == <<pc, at, fwd, added, upset, aborts>>
rowVars  == <<row, creator>>
taskVars == <<reaper, closer, closes, evictions>>
vars     == <<rowVars, hubVars, pty, connVars, taskVars>>

Phases == {"idle", "loaded", "spawning", "orphan", "orphanClose",
           "installed", "attached", "greet", "replay", "main", "exiting"}

\* Phases in which a handler owns the channels of an attachment.
Attached == {"installed", "attached", "greet", "replay", "main", "exiting"}

Live == entry \in Ptys

\* Handlers whose registration the hub accepted and that have not ended.
Registered(u) == {c \in Conns : UserOf[c] = u /\ added[c] = "yes"}

-----------------------------------------------------------------------------
(* Critical sections of the hub *)

\* HashMap::remove(id): the LiveSession and all it carries are dropped.
RemoveEntry ==
  /\ entry' = "Absent"
  /\ ttl' = "Fresh"
  /\ connections' = [u \in Users |-> 0]
  /\ participants' = {}
  /\ idleSince' = "None"

\* SessionHub::gc_expired_pending
DropExpiredPending ==
  IF entry = "Pending" /\ ttl = "Over"
    THEN RemoveEntry
    ELSE UNCHANGED hubVars

\* The idle clock after a count was lowered: it starts with the last exit.
ClockAfter(count) ==
  IF \A v \in Users : count[v] = 0 THEN "Idle" ELSE idleSince

\* mutant: the first tab to leave drops the count of all its user's tabs
DropUser(u) ==
  /\ IF Live /\ connections[u] > 0
       THEN /\ connections' = [connections EXCEPT ![u] = 0]
            /\ participants' = participants \ {u}
            /\ idleSince' = ClockAfter(connections')
       ELSE UNCHANGED liveVars
  /\ UNCHANGED <<entry, ttl>>

\* SessionHub::remove_participant, on whatever Live entry has the id now.
DropConnection(u) ==
  /\ IF Live /\ connections[u] > 0
       THEN /\ connections' = [connections EXCEPT ![u] = @ - 1]
            /\ participants' = IF connections[u] = 1 THEN participants \ {u}
                                                     ELSE participants
            /\ idleSince' = ClockAfter(connections')
       ELSE UNCHANGED liveVars
  /\ UNCHANGED <<entry, ttl>>

\* SessionService::close_session: the UPDATE guards on status = 'active'.
CloseRow == row' = IF row = "active" THEN "closed" ELSE row

\* The storage fails: the error is logged, the row stays active, and the caller
\* goes on as if it had closed it.
CloseRefused == row = "active" /\ UNCHANGED row

Goto(c, phase) == pc' = [pc EXCEPT ![c] = phase]

\* The handler returns: its receivers and its cmd_tx clone are dropped.
Return(c) ==
  /\ Goto(c, "idle")
  /\ at' = [at EXCEPT ![c] = "NoPty"]
  /\ fwd' = [fwd EXCEPT ![c] = "open"]
  /\ added' = [added EXCEPT ![c] = "no"]

-----------------------------------------------------------------------------
Init ==
  /\ row = "none"
  /\ creator = "before"
  /\ entry = "Absent"
  /\ ttl = "Fresh"
  /\ connections = [u \in Users |-> 0]
  /\ participants = {}
  /\ idleSince = "None"
  /\ pty = [g \in Ptys |-> "unused"]
  /\ pc = [c \in Conns |-> "idle"]
  /\ at = [c \in Conns |-> "NoPty"]
  /\ fwd = [c \in Conns |-> "open"]
  /\ added = [c \in Conns |-> "no"]
  /\ upset = {}
  /\ reaper = "idle"
  /\ closer = "idle"
  /\ closes = 0
  /\ evictions = 0
  /\ aborts = 0

(* POST /api/sessions: the row is committed, then the target is reserved. *)
CreateRow ==
  /\ creator = "before"
  /\ creator' = "reserving"
  /\ row' = "active"
  /\ UNCHANGED <<hubVars, pty, connVars, taskVars>>

ReserveTarget ==
  /\ creator = "reserving"
  /\ creator' = "done"
  /\ entry' = IF entry = "Absent" THEN "Pending" ELSE entry
  /\ UNCHANGED <<row, ttl, liveVars, pty, connVars, taskVars>>

-----------------------------------------------------------------------------
(* The WebSocket handler, one action per stretch between two awaits. *)

\* SessionJoin and the gates, then the one read of the row: a closed session is
\* refused here, and the status is never looked at again.
LoadSession(c) ==
  /\ pc[c] = "idle"
  /\ row = "active"
  /\ Goto(c, "loaded")
  /\ UNCHANGED <<rowVars, hubVars, pty, at, fwd, added, upset, aborts, taskVars>>

\* Target resolution: gone (the orphan path) or a transient storage error.
ResolveFails(c) ==
  /\ pc[c] = "loaded"
  /\ \E next \in {"orphan", "idle"} : Goto(c, next)
  /\ UNCHANGED <<rowVars, hubVars, pty, at, fwd, added, upset, aborts, taskVars>>

\* attach_to: subscribe to the channels of the Live entry.
JoinLive(c) ==
  /\ Goto(c, "attached")
  /\ at' = [at EXCEPT ![c] = entry]
  /\ UNCHANGED <<rowVars, hubVars, pty, fwd, added, upset, aborts, taskVars>>

\* start_or_join, fast path under the read lock.
FastPath(c) ==
  /\ pc[c] = "loaded"
  /\ IF Live
       THEN JoinLive(c)
       ELSE /\ Goto(c, "spawning")
            /\ UNCHANGED <<rowVars, hubVars, pty, at, fwd, added, upset, aborts, taskVars>>

\* mutant: the loser of the race keeps the PTY it spawned
KeepOwnPty(c) ==
  /\ pc[c] = "spawning"
  /\ Live
  /\ \E g \in Ptys :
       /\ pty[g] = "unused"
       /\ pty' = [pty EXCEPT ![g] = "running"]
       /\ at' = [at EXCEPT ![c] = g]
  /\ Goto(c, "attached")
  /\ UNCHANGED <<rowVars, hubVars, fwd, added, upset, aborts, taskVars>>

\* The PTY was spawned without the lock; somebody else installed one meanwhile,
\* so this one is dropped.
LoseSpawnRace(c) ==
  /\ pc[c] = "spawning"
  /\ Live
  /\ JoinLive(c)

\* No Live entry under the write lock: install ours, over a Pending one too.
InstallPty(c, g) ==
  /\ pc[c] = "spawning"
  /\ ~Live
  /\ pty[g] = "unused"
  /\ pty' = [pty EXCEPT ![g] = "running"]
  /\ entry' = g
  /\ ttl' = "Fresh"
  /\ connections' = [u \in Users |-> 0]
  /\ participants' = {}
  /\ idleSince' = "Idle"
  /\ Goto(c, "installed")
  /\ at' = [at EXCEPT ![c] = g]
  /\ upset' = upset \cup {UserOf[d] : d \in {e \in Conns : pc[e] \in Attached}}
  /\ UNCHANGED <<rowVars, fwd, added, aborts, taskVars>>

SpawnFails(c) ==
  /\ pc[c] = "spawning"
  /\ Goto(c, "orphan")
  /\ UNCHANGED <<rowVars, hubVars, pty, at, fwd, added, upset, aborts, taskVars>>

\* cleanup_orphan_session: release_reservation, then close_session(Error).
OrphanRelease(c) ==
  /\ pc[c] = "orphan"
  /\ Goto(c, "orphanClose")
  /\ IF entry = "Pending" THEN RemoveEntry ELSE UNCHANGED hubVars
  /\ UNCHANGED <<rowVars, pty, at, fwd, added, upset, aborts, taskVars>>

OrphanClose(c) ==
  /\ pc[c] = "orphanClose"
  /\ Goto(c, "idle")
  /\ CloseRow \/ CloseRefused
  /\ UNCHANGED <<creator, hubVars, pty, at, fwd, added, upset, aborts, taskVars>>

\* add_participant_and_snapshot: None when the entry is not Live.  The handler
\* that installed the PTY has no scrollback to replay.
AddParticipant(c) ==
  /\ pc[c] \in {"installed", "attached"}
  /\ Goto(c, IF pc[c] = "installed" THEN "greet" ELSE "replay")
  /\ IF Live
       THEN /\ connections' = [connections EXCEPT ![UserOf[c]] = @ + 1]
            /\ participants' = participants \cup {UserOf[c]}
            /\ idleSince' = "None"
            /\ added' = [added EXCEPT ![c] = "yes"]
       ELSE UNCHANGED <<liveVars, added>>
  /\ UNCHANGED <<rowVars, entry, ttl, pty, at, fwd, upset, aborts, taskVars>>

\* SessionState and the scrollback are sent; the forwarder starts.  The sends
\* have no timeout: they end when the client reads, or goes.
FinishReplay(c) ==
  /\ pc[c] \in {"greet", "replay"}
  /\ Goto(c, "main")
  /\ UNCHANGED <<rowVars, hubVars, pty, at, fwd, added, upset, aborts, taskVars>>

\* A scrollback frame cannot be sent: the handler returns at once.
AbortReplay(c) ==
  /\ pc[c] = "replay"
  /\ aborts < MaxAborts
  /\ aborts' = aborts + 1
  /\ Return(c)
  /\ upset' = upset \cup {UserOf[c]}
  /\ UNCHANGED <<rowVars, hubVars, pty, taskVars>>

\* The forwarder meets the PeerEvicted of its own user and sends Close.
ForwardEviction(c) ==
  /\ pc[c] \in {"main", "exiting"}
  /\ fwd[c] = "evicted"
  /\ fwd' = [fwd EXCEPT ![c] = "flagged"]
  /\ UNCHANGED <<rowVars, hubVars, pty, pc, at, added, upset, aborts, taskVars>>

\* The forwarder ends on a lagged receiver, a failed send or a closed channel.
ForwarderEnds(c) ==
  /\ pc[c] = "main"
  /\ fwd[c] \in {"open", "evicted"}
  /\ fwd' = [fwd EXCEPT ![c] = "gone"]
  /\ UNCHANGED <<rowVars, hubVars, pty, pc, at, added, upset, aborts, taskVars>>

\* The main loop breaks: the client closed, or the entry this handler attached
\* to left the map, which signals or drops its shutdown_tx.
ClientLeaves(c) ==
  /\ pc[c] = "main"
  /\ Goto(c, "exiting")
  /\ UNCHANGED <<rowVars, hubVars, pty, at, fwd, added, upset, aborts, taskVars>>

ShutdownMissed(c) == FALSE   \* mutant: no shutdown_rx arm in the loop

ShutdownSeen(c) ==
  /\ pc[c] = "main"
  /\ entry # at[c]
  /\ Goto(c, "exiting")
  /\ UNCHANGED <<rowVars, hubVars, pty, at, fwd, added, upset, aborts, taskVars>>

\* remove_participant unless was_evicted, then the handler returns.
Detach(c) ==
  /\ pc[c] = "exiting"
  /\ IF fwd[c] = "flagged" THEN UNCHANGED hubVars ELSE DropConnection(UserOf[c])
  /\ Return(c)
  /\ UNCHANGED <<rowVars, pty, upset, aborts, taskVars>>

-----------------------------------------------------------------------------
(* The PTY loop *)

\* The shell exits, or a write to it fails.
ShellExits(g) ==
  /\ pty[g] = "running"
  /\ pty' = [pty EXCEPT ![g] = "stopping"]
  /\ UNCHANGED <<rowVars, hubVars, connVars, taskVars>>

\* cmd_rx.recv() returns None: the entry and every handler dropped their cmd_tx.
LastSenderGone(g) ==
  /\ pty[g] = "running"
  /\ entry # g
  /\ \A c \in Conns : at[c] # g
  /\ pty' = [pty EXCEPT ![g] = "stopping"]
  /\ UNCHANGED <<rowVars, hubVars, connVars, taskVars>>

\* mutant: the loop ends without taking its entry off the map
UnlistNothing(g) ==
  /\ pty[g] = "stopping"
  /\ pty' = [pty EXCEPT ![g] = "unlisted"]
  /\ UNCHANGED <<rowVars, hubVars, connVars, taskVars>>

\* sessions.remove(&session_id): by id, whichever entry is there.
PtyUnlists(g) ==
  /\ pty[g] = "stopping"
  /\ pty' = [pty EXCEPT ![g] = "unlisted"]
  /\ RemoveEntry
  /\ UNCHANGED <<rowVars, connVars, taskVars>>

PtyClosesRow(g) ==
  /\ pty[g] = "unlisted"
  /\ \/ CloseRow /\ pty' = [pty EXCEPT ![g] = "done"]
     \/ CloseRefused /\ pty' = [pty EXCEPT ![g] = "unclosed"]
  /\ UNCHANGED <<creator, hubVars, connVars, taskVars>>

-----------------------------------------------------------------------------
(* The reaper, the owner's DELETE, eviction, and time *)

\* mutant: a tick sweeps reservations only
ScanPendingOnly ==
  /\ reaper = "idle"
  /\ DropExpiredPending
  /\ UNCHANGED <<rowVars, pty, connVars, taskVars>>

\* A tick: with nothing to reap it only sweeps expired reservations.
ReaperScan ==
  /\ reaper = "idle"
  /\ IF Live /\ idleSince = "Over"
       THEN reaper' = "rechecking" /\ UNCHANGED hubVars
       ELSE DropExpiredPending /\ UNCHANGED reaper
  /\ UNCHANGED <<rowVars, pty, connVars, closer, closes, evictions>>

\* mutant: the candidate is removed without a second look
RemoveCandidate ==
  /\ reaper = "rechecking"
  /\ RemoveEntry
  /\ reaper' = "closing"
  /\ UNCHANGED <<rowVars, pty, connVars, closer, closes, evictions>>

\* Under the write lock the candidate is looked at again before it is removed.
ReaperRecheck ==
  /\ reaper = "rechecking"
  /\ IF Live /\ idleSince = "Over"
       THEN RemoveEntry /\ reaper' = "closing"
       ELSE DropExpiredPending /\ reaper' = "idle"
  /\ UNCHANGED <<rowVars, pty, connVars, closer, closes, evictions>>

ReaperClosesRow ==
  /\ reaper = "closing"
  /\ reaper' = "idle"
  /\ CloseRow \/ CloseRefused
  /\ UNCHANGED <<creator, hubVars, pty, connVars, closer, closes, evictions>>

\* count_live_sessions_per_target and active_count sweep as they count.
LazyGc ==
  /\ DropExpiredPending
  /\ UNCHANGED <<rowVars, pty, connVars, taskVars>>

\* DELETE /api/sessions/{id}: close the row (a closed one is fine), then stop.
\* A close the storage refuses is answered with an error and stops nothing.
OwnerClose ==
  /\ closer = "idle"
  /\ row # "none"
  /\ closes < MaxCloses
  /\ closer' = "stopping"
  /\ closes' = closes + 1
  /\ CloseRow
  /\ UNCHANGED <<creator, hubVars, pty, connVars, reaper, evictions>>

StopSession ==
  /\ closer = "stopping"
  /\ closer' = "idle"
  /\ RemoveEntry
  /\ UNCHANGED <<rowVars, pty, connVars, reaper, closes, evictions>>

\* evict_user, called once the account is disabled or its token rotated: drop
\* the user's count and roster entry, and tell every subscriber.
EvictUser(u) ==
  /\ evictions < MaxEvictions
  /\ evictions' = evictions + 1
  /\ IF Live /\ connections[u] > 0
       THEN /\ connections' = [connections EXCEPT ![u] = 0]
            /\ participants' = participants \ {u}
            /\ idleSince' = ClockAfter(connections')
            /\ fwd' = [c \in Conns |->
                         IF UserOf[c] = u /\ at[c] = entry /\ fwd[c] = "open"
                           THEN "evicted" ELSE fwd[c]]
            /\ added' = [c \in Conns |->
                           IF UserOf[c] = u /\ added[c] = "yes"
                             THEN "evicted" ELSE added[c]]
            /\ upset' = upset \cup {u}
       ELSE UNCHANGED <<liveVars, fwd, added, upset>>
  /\ UNCHANGED <<rowVars, entry, ttl, pty, pc, at, aborts, reaper, closer,
                 closes>>

IdleTimeout ==
  /\ idleSince = "Idle"
  /\ idleSince' = "Over"
  /\ UNCHANGED <<rowVars, entry, ttl, connections, participants, pty,
                 connVars, taskVars>>

PendingTimeout ==
  /\ entry = "Pending"
  /\ ttl = "Fresh"
  /\ ttl' = "Over"
  /\ UNCHANGED <<rowVars, entry, liveVars, pty, connVars, taskVars>>

-----------------------------------------------------------------------------
HandlerStep(c) ==
  \/ ResolveFails(c)  \/ FastPath(c)
  \/ LoseSpawnRace(c) \/ (\E g \in Ptys : InstallPty(c, g))
  \/ SpawnFails(c)    \/ OrphanRelease(c) \/ OrphanClose(c)
  \/ AddParticipant(c) \/ ShutdownSeen(c)  \/ Detach(c)

ReplayStep(c) == FinishReplay(c) \/ AbortReplay(c)

ForwarderStep(c) == ForwardEviction(c) \/ ForwarderEnds(c)

PtyCleanup(g) == LastSenderGone(g) \/ PtyUnlists(g) \/ PtyClosesRow(g)

ReaperStep == ReaperScan \/ ReaperRecheck \/ ReaperClosesRow

Next ==
  \/ CreateRow \/ ReserveTarget
  \/ \E c \in Conns : LoadSession(c) \/ HandlerStep(c) \/ ReplayStep(c)
                      \/ ForwarderStep(c) \/ ClientLeaves(c)
  \/ \E g \in Ptys : ShellExits(g) \/ PtyCleanup(g)
  \/ ReaperStep \/ LazyGc
  \/ OwnerClose \/ StopSession
  \/ \E u \in Users : EvictUser(u)
  \/ IdleTimeout \/ PendingTimeout

Spec == Init /\ [][Next]_vars

(* What the runtime guarantees: every task that can run does, and timers    *)
(* fire.  Users are free to do nothing: no fairness on connecting, reading, *)
(* leaving, typing `exit`, closing or evicting.  That a handler and a PTY   *)
(* loop come back to their select! supposes a shell that reads its input;   *)
(* PtyPipe models the queues that fill when it does not.                    *)
Fairness ==
  /\ WF_vars(ReserveTarget)
  /\ \A c \in Conns : WF_vars(HandlerStep(c))
  /\ \A g \in Ptys : WF_vars(PtyCleanup(g))
  /\ WF_vars(ReaperStep)
  /\ WF_vars(StopSession)
  /\ WF_vars(IdleTimeout)
  /\ WF_vars(PendingTimeout)

FairSpec == Spec /\ Fairness

-----------------------------------------------------------------------------
(* Safety *)

TypeOK ==
  /\ row \in {"none", "active", "closed"}
  /\ creator \in {"before", "reserving", "done"}
  /\ entry \in {"Absent", "Pending"} \cup Ptys
  /\ ttl \in {"Fresh", "Over"}
  /\ connections \in [Users -> Nat]
  /\ participants \in SUBSET Users
  /\ idleSince \in {"None", "Idle", "Over"}
  /\ pty \in [Ptys -> {"unused", "running", "stopping", "unlisted", "done",
                      "unclosed"}]
  /\ pc \in [Conns -> Phases]
  /\ at \in [Conns -> Ptys \cup {"NoPty"}]
  /\ fwd \in [Conns -> {"open", "evicted", "flagged", "gone"}]
  /\ added \in [Conns -> {"no", "yes", "evicted"}]
  /\ upset \in SUBSET Users
  /\ reaper \in {"idle", "rechecking", "closing"}
  /\ closer \in {"idle", "stopping"}
  /\ closes \in Nat
  /\ evictions \in Nat
  /\ aborts \in Nat

\* A user is on the roster exactly while the refcount is positive, whatever mix
\* of tabs, exits and evictions happened (the invariant stated on
\* LiveSession.connections); a slot without a PTY has no roster.
RosterMatchesRefcount ==
  /\ participants = {u \in Users : connections[u] > 0}
  /\ ~Live => participants = {}

\* The idle clock of a Live entry runs exactly while it has no connection: a
\* clock left running gets an attached session reaped, a stopped one leaks it.
IdleClockExact ==
  Live => (idleSince = "None" <=> \E u \in Users : connections[u] > 0)

\* A Live entry always has an I/O loop that has yet to unlist it, although the
\* loops of dead PTYs unlist by session id; an entry without one would accept
\* attachments to a shell that no longer exists, forever.
LiveEntryHasLoop == Live => pty[entry] \in {"running", "stopping"}

\* The refcount is the number of registered handlers of a user, unless the user
\* was evicted, had a replay cut short, or was attached across a respawn.
RefcountExact ==
  Live => \A u \in Users \ upset : connections[u] = Cardinality(Registered(u))

\* What the hub counts about a session agrees: the handlers attached to it, the
\* refcounts they share by user, the roster shown to everybody, and the clock
\* that has the session reaped.
CountsAgree == RosterMatchesRefcount /\ IdleClockExact /\ RefcountExact

\* A registered handler of an undisturbed user types into the PTY of the entry
\* that lists it, never into an older shell of the same session.
RosterSharesShell ==
  Live => \A c \in Conns :
            (added[c] = "yes" /\ UserOf[c] \notin upset) => at[c] = entry

\* The reaper never removes an entry that has a connection, even when one
\* arrives between its scan and its removal.
ReaperSparesConnected ==
  [][ReaperRecheck /\ Live /\ entry' # entry
       => \A u \in Users : connections[u] = 0]_vars

-----------------------------------------------------------------------------
(* Liveness under FairSpec *)

\* Every client reads what it is sent on joining, or its connection breaks.
\* The code puts no timeout on these sends, so this is a premise and not part
\* of Fairness: a client that keeps its connection and stops reading holds its
\* handler, and with it a sender of the PTY's channel, for as long as it likes.
ReplaysEnd == \A c \in Conns : WF_vars(ReplayStep(c))

\* A PTY whose entry left the map finishes its cleanup: every cmd_tx clone held
\* by a handler is dropped.
UnlistedPtyFinishes ==
  \A g \in Ptys :
    (pty[g] # "unused" /\ entry # g) ~> (pty[g] \in {"done", "unclosed"})

\* A handler that holds channels of a PTY that is no longer listed ends, even
\* if the entry vanished between start_or_join and add_participant.
StrandedHandlerEnds ==
  \A c \in Conns :
    (at[c] # "NoPty" /\ at[c] # entry) ~> (at[c] = "NoPty" \/ at[c] = entry)

\* Whatever takes an entry off the map strands neither its PTY nor a handler,
\* although no client leaves, as long as each takes what is replayed to it.
NothingStranded == ReplaysEnd => (UnlistedPtyFinishes /\ StrandedHandlerEnds)

\* A Live entry nobody is connected to is attached to again or the session's
\* row closes: when the storage refuses the reaper's close, the loop of the PTY
\* makes it good once its last sender is gone.  Only a refusal to that loop too
\* leaves the row active.
IdleSessionCloses ==
  ReplaysEnd =>
    \A g \in Ptys :
      (entry = g /\ idleSince # "None")
        ~> (row = "closed" \/ (Live /\ idleSince = "None") \/ pty[g] = "unclosed")

\* A reservation does not outlive its TTL for ever.
ReservationEnds == (entry = "Pending") ~> (entry # "Pending")
=============================================================================
