# Telepair: formal specification

TLA+ models of telepair, the self-hosted gateway that shares terminal sessions
between browsers: model-checked with TLC on small instances, and proved with
TLAPS where a theorem for every instance is worth having. Paths are relative to
the repository's root; `gateway/`, `control/`, `core/`, `agent/` stand for
`crates/telepair-<name>/src/`, `web/` for `web/src/`.

    tlc -workers 2 -config SessionHub.cfg MCSessionHub     # a run
    tlapm SessionHub_proofs.tla                            # proofs

## 1. Inventory

Telepair is one process: an axum HTTP and WebSocket gateway on tokio, SQLite
below it, one PTY per live session, and a Solid single-page client.

| Part | State it keeps | Operations | Talks to |
|---|---|---|---|
| Session hub (`gateway/session_hub.rs`) | map id -> `Pending` / `Live`; per live session: roster, refcounts, idle clock, scrollback, chat history, recording slot, four channels | reserve, start_or_join, add/remove participant, evict, stop, role change, chat, reaper | WebSocket handlers (channels), PTY loop (shared `Arc`s), SQLite |
| WebSocket handler (`gateway/ws.rs`) | current role, denial latch, two receivers on the collab ring, one on output | authenticate, join, replay, forward, gate input, exit | hub, PTY loop (cmd channel), browser |
| PTY loop and agent (`session_hub.rs` 400-555, `agent/pty.rs`) | bounded queues, reader and writer thread, the child | read, write, resize, notice exit, clean up | hub, SQLite, the kernel's terminal |
| Recording writer (`gateway/recording_writer.rs`), start/stop (`gateway/http.rs`) | row, slot, channel, cast file, drop counter | start, tap, stop, abort, finalise | hub (slot), SQLite, disk |
| Recording service, shares, cleaner (`control/recording_service.rs`, `gateway/recording_cleaner.rs`) | rows with expiry, share tokens | delete, keep, expire, share, sweep | SQLite, disk |
| Session and invite service (`control/`) | sessions, participants, invites | create, close, boot sweep, invite, redeem, revoke | SQLite, hub |
| Auth service, rate limiter (`control/auth_service.rs`, `gateway/rate_limit.rs`) | users, pending registrations, lockout counters, windows | register, verify, log in, change password, enable/disable | SQLite, hub (evictions) |
| Targets (`core/target.rs`, `gateway/state.rs`, `control/user_target_service.rs`) | target list, users' targets | reload, compare-and-set | hub (counts), config file |
| Storage (`core/storage/sqlite.rs`), migrations | the database | transactions | everything |
| Client (`web/lib/ws.ts`, `web/stores`, `web/pages`) | socket and retry counter, participants, chat, terminal, lists | reconnect, handle messages, fetch | gateway |
| CLI, audit, protocol, virtual target | - | start-up, append-only log, message types, command lines | - |

What makes it hard, and what must hold for each part:

- **Everything of a session is touched by many tasks.** Handlers, PTY loop,
  reaper, HTTP requests and evictions meet in the hub's map between awaits.
  Roster, refcount, idle clock, entry, loop and row have to agree in every order;
  nobody may be reaped while connected, and nothing may be left running or
  blocked for ever.
- **Bounded queues in a row**, some of which block (cmd, input, output), some of
  which drop (recording), some of which lose the slowest reader (output and
  collab rings). Keystrokes and output must not be lost, recordings must not lie
  about gaps, viewers must not be shown a gap.
- **Snapshot plus subscription.** A joiner gets state (scrollback, chat, roster,
  role) and then changes; the two must line up.
- **Failure in the middle.** A start request of three steps, a writer that hits
  an I/O error, a replay to a socket that is gone, a crash that leaves rows.
- **Time**: idle timeout, reservation TTL, lockouts, one-time codes, expiry.

`PROJECT.json` lists the hazards one by one, each at its line, with the property
that would catch it or the reason why none does.

## 2. Modules

| Module | Models | Checked by | Proved in |
|---|---|---|---|
| `SessionHub` | the life of one session in the hub | `hub`, `hub_liveness` | `SessionHub_proofs` |
| `SessionHubClaims` | four statements about it that the code does not keep | by hand | - |
| `PtyPipe` | queues, threads and loop of one PTY | `pipe` | `Terminal_proofs` |
| `Recording` | recordings of one session, from start to final row | `recording` | `Recording_proofs` |
| `ScreenFeed` | abstract: what a viewer is shown of the output | (property of `screen`) | - |
| `Screen` | scrollback, output ring, replay, forwarder, reconnection | `screen` | `Terminal_proofs` |
| `Collab` | roles, roster, chat, input gate | `collab` | `Collab_proofs` |
| `Membership` | sessions, seats and invites in the database | `membership` | `Membership_proofs` |
| `Accounts` | one account: registration, login, password, kill switch, its sockets | `accounts` | `Accounts_proofs` |
| `Retention` | finished recordings: rows, files, expiry, cleaner, share links | `retention` | `Retention_proofs` |
| `Targets` | targets, their reload, and the sessions that use them | `targets` | `Targets_proofs` |
| `Reconnect` | a page's line to the gateway: socket, retries, handshake, close codes | `reconnect` | `Terminal_proofs` |
| `Upgrade` | `run_migrations` on a database of any release, and the accounts in it | `upgrade` | `Accounts_proofs` |
| `MC*` | constants and symmetry for TLC | | |

The modules cut the system along its critical sections. They meet in two
places. One is the hub's `LiveSession`: `SessionHub` reduces a PTY to its loop's
phase and takes it that `pty.write` returns; `PtyPipe` drops that assumption and
shows where it fails; `Recording` reduces the hub to "listed", "loop broke",
"gone"; `Screen` and `Collab` follow one `LiveSession`, with a connection's end
(`Disconnect`, `Leave`, `BreakOff`) possible wherever the code can meet it;
`Targets` keeps of every entry whether it is pending or live and what its shell
was launched from. The other is the database: `Membership` is the authority
behind the seat that `SessionHub` and `Collab` look up, `Accounts` the one behind
the token and the switch of a handshake, `Upgrade` what an older release's rows become, `Recording` says how a row becomes final
and `Retention` what happens to it afterwards.

An action is a stretch of code between two awaits that other tasks can see
(a lock's critical section, one statement or transaction, one channel operation).
`PROJECT.json` maps each definition to the lines it stands for. Where the code has
layers (handler, service, storage) a helper stands for the statement and the
action for the handler that runs it (`Verify` and `Admits`). An operator marked
`\* mutant:` is a definition after it with a plausible bug; it is used by no
specification, and exists to show that a property can fail: with the bug in
place of the definition, the run reports the property.

### SessionHub

`entry` is the map's slot for one session id (`Absent`, `Pending` or the PTY of
the `Live` entry); `row` the database row; `pc`, `at`, `fwd`, `added` follow each
`handle_socket`; `pty` each I/O loop. `LoadSession` is everything up to the
participant check; `FastPath`, `LoseSpawnRace` and `InstallPty` are the three
ways through `start_or_join`; `AddParticipant`, `FinishReplay`/`AbortReplay`,
`ClientLeaves`/`ShutdownSeen`, `Detach` the rest of the handler;
`LastSenderGone`, `ShellExits`, `PtyUnlists`, `PtyClosesRow` the loop and its
cleanup; `ReaperScan`, `ReaperRecheck`, `ReaperClosesRow` the reaper; `OwnerClose`
and `StopSession` the DELETE; `EvictUser` a disabled account or rotated token.
A connection in `"greet"` is in the hub and has its scrollback, chat and roster still to be sent.
`close_session` may be refused by the storage (`CloseRefused`): the loop then only logs it
(session_hub.rs:549) and ends as `"unclosed"`, the reaper too, and the row stays active.
`added` and `upset` are history: whom the hub counted, and whom an eviction, an
aborted replay or a respawn hit, which `RefcountExact` and `RosterSharesShell`
exempt because the code does not keep them there (see the hazards). So these two do not
speak of the users an eviction or an aborted replay hits; what becomes of the latter is what
`AbandonedSessionCloses` (§3, refuted) is about.

### PtyPipe

Chunks are counted; all queues are first in, first out. The loop is one task:
in `"writing"` (awaiting room in the input channel) it polls nothing else. The
child reads, prints, stops or exits as it likes. `cause` says what ended the loop. After the
child's exit that may be a keystroke: its write fails, and the loop breaks with output unread.
`FinalOutputDelivered` is about every loop that ends by itself and excepts exactly that case;
the last screen of such a session is lost (`LastScreenShown`, §3).

### Recording

`spc`/`srec` follow start requests through INSERT, spawn of the writer, slot and
rollback; `wpc` the writers; `feed` says whether a writer's channel has been
ended by a `Stop` or a dropped sender. Every store of a status may be refused by the storage: a writer that is refused only logs it
and ends as `"unstored"` (recording_writer.rs:283-292, 316-319), and the rollback of a start
leaves the status as it was (http.rs:2263-2279). After the former the row stays `recording`, with
no writer, until the database is opened again, and blocks later recordings; after the latter the
writer's own final store still comes. `ClearSlot` is the task an aborting writer
spawns. `CrashAndBoot` loses all tasks and runs migration 003's sweep; `CliSweep`
is the same sweep by an admin command, a second process that opens the database
(`open_storage`) while the server's writers work.

### Screen and ScreenFeed

`ScreenFeed` says what is promised: from the moment it is attached, a viewer is
shown consecutive chunks. `Screen` is the code: `Push` trims the scrollback
and broadcasts in one critical section, `AttachTo` snapshots and subscribes in
another, the snapshot is replayed frame by frame while the ring moves on, and
the forwarder takes over where the subscription stands. Chunks have sizes, since
the scrollback is bounded in bytes. `oldest` and `printed` stand for the deque: it
always holds the chunks between them. `term` is what a page wrote to its xterm
over all its connections.

### Collab

`dbRole`, `roster` and `gate` are the three places a role is kept; a role change
(`PutCheck`, `PutStore`, `PutApply`) reaches them one after the other. Every
connection has two positions in the ring: `fwdAt` (forwarder, from `attach_to`)
and `roleAt` (main loop, from `EnterMain`). `Seen` is what the page's
`handleMessage` makes of a message. `missed` is history: the role changed, or
differed from the roster's, while the connection was coming up.

### Membership

`status`, `seat` and `left` are sessions and participants, `state`, `used` and `max`
the invites, `home` the session a guest is bound to. A redemption (`rpc`) reads the
invite (`RedeemFind`), looks for an open session and an existing seat (`RedeemCheck`)
and then consumes a use in a transaction that asks all of it again (`RedeemStore`
with the UPDATE's predicate, `Consumable`); `MintCheck`/`MintStore`,
`CloseCheck`/`CloseStore` and `PutCheck`/`PutStore` are the other requests
that look first and store later. `admitted` and `ghosts` are history: whom an invite
let in, and the seats a role change wrote into a session that had closed.

### Accounts

One address. `row`, `tries`, `fresh`, `lapsed` are its pending registration,
`rpc` the requests that look, store, mail and undo; passwords and tokens are
numbers: `token` is the password it was issued for. `fails`, `lock`, `lpc` are the
lockout and the logins in their five steps; `sock` follows a WebSocket from the
validation of its token (`Handshake`) to its registration in the hub (`Attach`),
which is what `Evict` can see. `Enables`, `DisableStores`/`DisableEvicts` are the
administrator's requests, `CliCreates` and `CliDisables` the other process. `lagging`, `missed`,
`wiped` are history: tokens minted for a password that was no longer current,
sockets an eviction could not see, a lock that a stale clear erased. `admin` is the account's
`is_admin`: the gate of a handshake lets administrators through although they are disabled
(ws.rs:254-257). `waved` is history: the sockets whose gate found the account disabled, so that
`DisabledIsDetached` excepts an administrator's sockets only if they came after the disabling;
those open before it are evicted like anybody's.

### Retention

Rows (`status`, `expiry`) and files (`files`) change in different steps, in every
request: DELETE looks, unlinks, deletes (`DeleteLooks`, `DeleteUnlinks`,
`DeleteStores`); the cleaner lists a batch, then unlinks and deletes one row after
the other (`CleanerLists`, `CleanerUnlinks`, `CleanerStores`, `CleanerFails`); a writer
creates its file some time after its row (`Start`, `WriterOpens`). `KeepRecording`
and `ExpireRecording` change the expiry, `ShareLooks`/`ShareStores` mint a link,
`Consumes` and `Reads` are a download. `left`, `disowned`, `rescued`, `served`, `lost` are
history: files the cleaner could not remove, writers whose row somebody else failed,
recordings given a new expiry after they were listed, and what became of each use.

### Targets

`file` is targets.yaml, `engine` what the gateway has loaded: for each global name the edition of
its definition, 0 if there is none; `user` and `ver` are the users' targets and their editions. A creation looks its target up, inserts the row and
reserves the entry in three steps; a handshake looks the session up, resolves the
target, spawns or joins, or fails and cleans up in two steps. A reload reads and
compares with the preview (`ReloadReads`), counts the hub's entries
(`ReloadCounts`, `ReloadRefuses`) and stores (`ReloadStores`), under no lock. `NameOf`
gives a user's target the name of a global one, since only names reach the
hub. A user's target cannot be edited while a session uses it; a global one can, since the
reload's guard asks only which names go (http.rs:1440-1443). So a running shell of a global target
may be of an older edition than the gateway's. `ShellMatchesTarget` says what the code gives: the
edition is one the target has had since the session's row was stored (`held`, history), and for
a user's target the current one. `slipped` is history too: sessions that no count could have seen
in time.

### Reconnect

The page (`page`, `ended`, `signedIn`, `retryToast`) drives a `TelepairSocket` (`ws`,
`attempts`, `timers`, `intended`, `status`), which makes one WebSocket after the other;
`stage`, `attached` and `inbox` follow each of them, since its events reach the page
late and after it was given up. `peer` is the gateway's handler. `HandshakeLooks` asks
`Verdict` in the order of `handle_socket`, with any one of its reads failing;
`HandshakeLaunches` or `HandshakeFails` is what follows for one that passed, which no longer looks
at the row; and `CloseCodeFor` makes of an error code what decides between a retry and the end.
`WorldChanges` is everybody else: the session ends, an account is disabled,
tokens are rotated, a target goes; `Notice` is what the hub tells the handlers that serve at that
moment (session_hub.rs:705-711), who then end (`Evicted`, `Stopped`). A row may close without it:
`cleanup_orphan_session` (ws.rs:60-68) tells nobody, and a handshake that has looked may launch
after the notice. Such a handler serves the closed session on. `Cut` takes the frames under way with it. `streak` is history: connections
dialed since the last sign of life. `disconnect` and `doConnect` detach the handlers of the socket
they leave; from this page `doConnect` never finds one, so its detaching is
a precaution that the model carries and nothing reaches.

### Upgrade

`Recipe` is `run_migrations` as a sequence of statements, and `line` says at which of them each
process stands: the gateway, and commands that open the same file. Statements are
idempotent by `IF NOT EXISTS` or by a probe of the schema, and only that: no transaction
spans two of them. `ensure_column` is two steps, `Probe` and `Alter` (which fails if
another process came between), and for `approval_state` a third,
`BackfillApprovals`. `UpInit` is a database of any of eight shapes, from no file to 0.1.9, with
accounts of every kind the release could hold (`OldRow`); a row is the set of its columns that are
true. `was`, `judged`, `torn` and `rushed` are history: what an account was when it was made,
whom an administrator has decided on since, whether a kill has parted the ALTER from its backfill,
and which decisions were made while a backfill was due (`Judge`).

## 3. Runs

| Run | Instance | Shows |
|---|---|---|
| `hub` | 2 tabs of one user, 2 PTYs, 1 DELETE, 1 eviction, 1 aborted replay, closes refused at will; 4.8 M states | roster = refcount, exact idle clock, exact refcount, one shell per roster, a live entry has a loop; the reaper removes no connected session |
| `hub_liveness` | 2 tabs, 1 PTY, 1 DELETE, closes refused at will; fair; 52 k states | provided clients take their replay: unlisted PTYs finish, stranded handlers end, the row of an idle session closes unless the loop's own close was refused |
| `pipe` | 2 handlers, all capacities 1, 5 commands, 2 chunks; fair | keystrokes and output are conserved, the last screen is delivered before a loop ends by itself unless a keystroke met the dead shell, an exit ends the loop, an unlisted session ends if its child reads |
| `recording` | 2 recordings, 2 overlapping starts, 1 abort, 1 crash, 1 admin command, stores refused at will; fair; 160 k states | completed means gapless, an active row has a writer and an ended feed is finalised, unless the storage refused the writer's last store |
| `screen` | 2 pages, 2 connections each, ring of 2, 4 bytes of scrollback, 5 chunks of 1 to 5 bytes; fair | the scrollback is the longest tail that fits, `Screen` implements `ScreenFeed`, a connected page catches up or is cut off |
| `collab` | 2 participants, 2 joins, 2 role changes, ring of 2, 1 chat line; 1.2 M states | a drained page shows the hub's roster, chat arrives once, an idle gate is the hub's role |
| `membership` | 2 sessions, owner, user, guest, 2 invites of at most 2 uses, 2 redemptions, 2 closers, 4 requests, 1 crash | an invite's uses are the people it let in; a closed session is empty but for ghosts; the owner keeps the seat; a guest stays in its session |
| `accounts` | 2 registrations, 2 logins, lockout after 2, 1 socket, an ordinary account or an administrator's, 5 requests, 1 crash; 5.3 M states | a rollback spares newer codes; guesses are bounded; tokens and sockets follow the password; a disabled account is detached, administrators who attach again excepted |
| `retention` | 2 recordings, 1 link of at most 1 use, 2 downloads, 1 DELETE, batch of 1, 3 requests, 1 mishap; fair | a writer keeps its file, orphaned files come from two known places, a link's uses add up, deletions are meant, expired rows go |
| `targets` | 1 global and 1 user's target of one name, 2 sessions, 2 handshakes, 2 reloads, 2 wordings of the global one, 6 requests, 1 crash; 2.2 M states | a session the hub knew keeps its target, a shell is what its row names in an edition loaded meanwhile, a previewed reload stores what was previewed |
| `reconnect` | 2 sockets, 2 retries; 86 k states, deadlock checked; fair | one line per page, a page that was left dials no more, retries are bounded, the status is true, a refusal for good is final; a page settles, and feels the end of its session if its handler was told |
| `upgrade` | every release, 1 account of any kind, a command beside the gateway, twice, 2 kills; 525 k states, deadlock checked; fair | a serving gateway has the whole schema, nobody is locked out or lost, the approval queue stays but for a kill at its backfill, decisions stand, every upgrade ends |

Where several statements are about one thing, a run checks their conjunction, each of them
is a definition of its own and each that is not about liveness has a theorem of its own:

| Property | Joins |
|---|---|
| `CountsAgree` | `RosterMatchesRefcount`, `IdleClockExact`, `RefcountExact` |
| `NothingStranded` | `UnlistedPtyFinishes`, `StrandedHandlerEnds` |
| `NothingLost` | `KeystrokesConserved`, `OutputConserved` |
| `SessionEnds` | `ExitEndsLoop`, `UnlistedSessionEnds` |
| `AccessFollowsPassword` | `TokenFollowsPassword`, `SocketsFollowPassword` |
| `SeatsInOrder` | `OwnerKeepsSeat`, `GuestsStayHome` |
| `FilesAccounted` | `WriterKeepsFile`, `OrphansExplained` |
| `LineIsSound` | `OneLine`, `LeftIsQuiet`, `StatusIsTrue` |
| `PageSettles` | `Settles`, `EndIsFelt` |
| `AccountsKept` | `AccessKept`, `NobodyLost`, `QueueKept` |

The code does not keep every statement the repository makes about it. Those below are
refuted, each by a behaviour TLC prints. They are started by hand,
`tlc -config <configuration> <module>`; where the configuration is that of a run, the
statement takes the place of its INVARIANTS and PROPERTIES:

| Configuration, module | Statement | What happens |
|---|---|---|
| `SessionHub_abandoned`, `SessionHubClaims` | `AbandonedSessionCloses`: a session without WebSocket connections is reaped (session_hub.rs:1138) | a replay cut short returns without `remove_participant`; the count leaks and the idle clock never starts |
| `SessionHub_closed_runs`, `SessionHubClaims` | `ClosedSessionStops`: DELETE stops the PTY (docs/api.md:312) | a handler that read the row before the close installs a PTY after `stop_session` |
| `SessionHub_stalled`, `SessionHubClaims` | `DroppedShellEnds`: with the entry dropped, the PTY loop sees its senders go and ends (session_hub.rs:1142-1147) | a handler holds a sender and waits, without a timeout, for a client that stopped reading in its replay (ws.rs:470, 487) |
| `SessionHub_stalled` (as a PROPERTY), `SessionHubClaims` | `LoopUnlistsOwn`: a loop's cleanup removes its entry from the map (session_hub.rs:519-528) | it removes by session id; if the entry was reaped and another PTY installed, that one goes |
| `PtyPipe_stuck`, `MCPtyPipe` | `UnlistedShellDies`: dropping the entry ends the PTY loop (session_hub.rs:1142) | the loop awaits `pty.write` on a child that stopped reading, and polls nothing else |
| `PtyPipe` (as an INVARIANT), `MCPtyPipe` | `LastScreenShown`: a loop ends after the shell's last output went out | the shell exits with a keystroke queued; its write fails and ends the loop with output unread |
| `Recording_cli_sweep` (as an INVARIANT, `MaxSweeps = 0`), `MCRecording` | `BlockingRowIsServed`: rows `recording` without a process behind them are swept at the start of the next (migrations/003:15-19) | within one process, a writer whose last store is refused leaves its row `recording` and blocks every later start |
| `Recording_dead_slot`, `MCRecording` | `DeadWriterReleasesSlot`: an aborted writer releases the slot (http.rs:2211) | the writer aborts before the start request installs its slot; the clearing task found it empty |
| `Screen`, `MCScreen` | `TerminalShowsOutput`: scrollback is replayed into fresh state (ws.rs:548) | the page keeps its xterm over a reconnect; the replay repeats what it shows |
| `Collab_stale_gate`, `MCCollab` | `GateIsRole`: a role change re-evaluates the connection's input permission (docs/api.md:328) | `role_rx` starts at the tail after the replay, the role was read long before |
| `Accounts_kill_switch`, `MCAccounts` | `GateBlocksAttach`: the gate of the attach blocks a reconnection (session_hub.rs:660) | the gate is at the start of the handshake, the registration at its end; a disable in between evicts nobody |
| `Accounts_lock_wiped`, `MCAccounts` | `LazyClearSparesLive`: the clear of an elapsed lock races consistently (sqlite.rs:2004) | it is a second statement without a condition, and erases a lock set since the read |
| `Retention_permanent`, `MCRetention` | `PermanentIsKept`: a recording without `expires_at` is permanent (docs/api.md:1086) | the cleaner deletes by id what it listed before; a recording kept meanwhile goes |
| `Recording_cli_sweep`, `MCRecording` | `FedRowIsActive`: what the sweep of migration 003 fails are recordings of a process that is gone (migrations/003:15-19) | `telepair admin ...` opens the database of a running server and fails the rows its writers are filling: a stop answers 404, another recording may start |
| `Targets_user_blocks`, `MCTargets` | `RefusalIsForDrop`: a reload is refused only for a target in use that it drops (docs/api.md:818, http.rs:1440-1443) | a session on a user's own target counts by name; only a file that happens to define that name passes the guard |
| `Targets` (as an INVARIANT), `MCTargets` | `GapIsClosed`: counting pending entries closes the gap between a creation and its session (session_hub.rs:726-730) | a creation that has looked its target up has no entry yet; the target is deleted, and the session stored without one (the exception `slipped` names) |
| `Collab_stored`, `MCCollab` | `StoredRoleIsLive`: a role change that misses the hub is stored and "will apply on reconnect" (http.rs:943-958) | a connection that has read the old role and is not in the roster yet comes up with it and keeps it |
| `Reconnect` (as a PROPERTY), `MCReconnect` | `StorageIsRetried`: a storage failure in the handshake is transient and clients should retry (protocol.rs:21-24, ws.rs:286) | the first read, of the token, answers every error AUTH_FAILED with the terminal close code (ws.rs:194); the page logs its user out |
| `Reconnect` (as a PROPERTY), `MCReconnect` | `EndIsAnnounced`: a closed session broadcasts SESSION_CLOSED (web/src/pages/Session.tsx:494) | running connections are cut without a code (ws.rs:836); the page learns it from the refusal of its retry |
| `Reconnect` (as a PROPERTY), `MCReconnect` | `EndIsFeltByAll`: stopping a session ends its connections (session_hub.rs:701-703) | a handshake that has looked at the active row launches after it closed, and serves a closed session on |
| `Upgrade`, `MCUpgrade` | `QueueOutlivesKills`: legacy waiting accounts are backfilled during the same upgrade (sqlite.rs:116-120, docs/architecture.md:176) | a kill between the ALTER and the UPDATE loses the backfill for good, since later boots find the column |

Two smaller disagreements met on the way, of which no run is made: a start
request that is rolled back may leave its row `completed` for a moment
(http.rs:2250-2258), and docs/deployment.md:224 has the cleaner run "every few
minutes" where recording_cleaner.rs:26 waits an hour.

Properties that are stated in the modules and in no run, because another one says
more or a theorem says it for every instance: the type invariants,
`SlotNotCompleted` and `CloseIsFinal` (all proved), and `ReservationEnds`, `ThreadsEnd` (each can be added to a
configuration and holds).

**Why the bounds are enough.** Each bound is the smallest at which the cases of
the hazards list occur: two tabs of one user (shared refcount, spawn race), two
PTYs (respawn under an attached handler), two start requests (overlap), capacity
one or two (every queue fills, every ring overflows), scrollback smaller than one
chunk and than two, two connections per page (reconnection), two role changes (an
older message follows a resynchronisation), two redemptions (double click, last use),
two registrations and two logins (one overtakes the other), a batch of one with two
expired recordings (a row that cannot go may starve the other), two reloads (the later file
is stored first), two wordings of a global target (an edit under a running shell; `Wordings`), two sockets (a closed one may stand for a new one, and its late events meet
its successor), two retries (the budget runs out, and a sign of life in between restores it), two
kills (an upgrade cut short, and its continuation too), two processes that upgrade. `MaxAsked` bounds the requests of a behaviour together: every
exception a property names needs at most three of them. `hub_liveness` leaves evictions, aborted
replays and a second PTY to the safety run; with one tab, two PTYs and a DELETE
(`SessionHub_stalled` with its property replaced and `MaxCloses = 1`) both its properties hold too.
Refusals by the storage are not bounded anywhere. More of each repeats the same
interleavings: in `Collab` three joins (9.9 M states) and two chat lines (5.8 M)
were explored as well, with the same result; they take too long to be kept. The
theorems below do not depend on the bounds.
Symmetry is used in safety runs only. Deadlock is checked in `reconnect` and `upgrade`; the other systems may come to rest (all sessions closed, all bounds used up).

**Fairness.** Tokio runs every ready task, blocking threads run, timers fire, SQLite
and the disk answer (perhaps with an error): weak fairness on each task's steps. A socket send is
another matter, since the code puts no timeout on it and a client may keep its connection and
stop reading (ws.rs:470, 487, 844-849). `SessionHub` has no fairness on a handler's replay nor on
its forwarder. `NothingStranded` and `IdleSessionCloses` have the premise `ReplaysEnd` (every
client takes what it is sent on joining, or its connection breaks); without it
they are false (`DroppedShellEnds`). After the replay no such premise is needed, because the
main loop aborts a blocked forwarder. That loops come back to their `select!` supposes in
`SessionHub` a shell that reads its input; `PtyPipe` is where that is dropped. `PtyPipe` has strong fairness on
a handler's shutdown arm, because `select!` polls its arms in random order and
clients may keep another arm ready. Nothing is assumed of users, clients, the
shell or the child: they may fall silent at any time; a property that needs the
child to read says so in its premise. `Screen` assumes that a page whose
connection was closed notices. `Retention` has weak fairness on the cleaner alone:
its task loops for ever and runs whenever its hour comes. `Reconnect`: the browser
delivers events and runs timers, a handshake comes to an end (it has five seconds for its first frame,
and storage answers), a handler that was told of a stop or an eviction ends; no notice is
assumed of a row that closes, so `EndIsFelt` is about pages none of whose handlers is left
untold (`Untold`; the others are `EndIsFeltByAll`, refuted). The user presses nothing and the
network need not fail. `Upgrade`: the container starts a gateway that died
(`restart: unless-stopped`, docs/deployment.md), and a process that runs comes to its next statement.

## 4. Proofs

All theorems hold for any values of the constants that satisfy the `ASSUME`s of
the modules (naturals, finite sets where cardinalities occur, names distinct).

- `SessionHub_proofs`: types, `RosterMatchesRefcount`, `IdleClockExact`,
  `ReaperSparesConnected`, `LiveEntryHasLoop`, `RefcountExact`,
  `RosterSharesShell`. Roster and
  clock need each other (an empty roster is what starts the clock) and are one
  inductive invariant. The entry's loop needs that nothing happens to a session before its row
  exists (`RowFirst`): loops unlist by session id, so a late one may take its successor's
  entry off the map (`LoopUnlistsOwn`, refuted), but it never leaves a live entry without a loop. The refcount is a cardinality: it moves by one exactly when the
  set of registered handlers gains or loses one, which needs what each phase of a handler
  says of its registration and of the PTY it is attached to (`HandlersInv`).
- `Terminal_proofs` (about `PtyPipe`, `Screen` and `Reconnect`): types and capacities, `KeystrokesConserved`, `OutputConserved`,
  `FinalOutputDelivered`. The last follows from the two before and from what the
  threads know of each other (`ThreadsInv`): a reader that ended before the loop did
  left a dead child and an empty terminal; and a write that fails leaves a command the child
  never consumed (`CommandsCounted`). `ScreenImplementsFeed` is the refinement of `ScreenFeed`: `Placed`
  relates what a connection was shown to the replay's cursor and then to the
  receiver's position; each step is then a step of the feed or a stutter.
  `ScrollbackIsWindow` is about sums of sizes; `Screen` is given the offset at which each
  chunk ends (`EndOf`, any nondecreasing function), so that a sum over a range is
  a difference and no induction is needed.
  About `Reconnect` it has the types, `OneLine`, `LeftIsQuiet`, `NoStorm`, `StatusIsTrue` and the
  action property `RefusalIsFinal`. The invariants are proved together (`LineCore`): that a
  page has one line needs what each phase of the page says of socket and timer
  (`LinePhases`), that retries are bounded needs that a waiting timer has not spent its attempt
  (`LineBudget`), and that a page that was left stays silent needs that no toast outlives it (`LineEnds`).
- `Recording_proofs`: types, `CompletedIsGapless`, `ActiveRowHasWriter`,
  `SlotNotCompleted`. `EventsAccounted` (tapped = written + queued + dropped) is not
  enough: a completed row must also have an ended feed, so that nothing is tapped
  after the writer counted; that needs who may still install the slot (`StarterInv`) and what
  each phase of a writer says of row and channel (`WriterInv`). `ActiveRowHasWriter` excepts a
  writer that was refused its last store (`"unstored"`); that a refused rollback needs no
  exception is part of what is proved, since its writer is still there.
- `Collab_proofs`: types, `RosterConverges`, `GateFollowsRole`, `ChatOnce`. `HubSteps`
  reduces every step to none or one message on the broadcast, sent together with the change
  of roster or chat it tells of (`Speaks`), and `BroadcastShifts` says what a message
  does to the positions in the ring. `RosterInv` is about the ring alone: the last message about a user
  left the roster as it is, and a role change never follows a departure. A view
  (`UserSeen`) is right about a user of whom nothing is to come, and where it lacks a
  user, the messages to come include one that is not a role change: that is what makes
  applying old messages to a newer snapshot end well, since the page ignores
  role changes of users it does not show. `GateFollows` needs that nobody
  joins or leaves under the name of a user who has a connection, which is the count again
  (`CountInv`, `LastOne`). `HeardOf` says that the first line to come is
  the one after the last heard.
- `Membership_proofs`: types, the four invariants of the run and `CloseIsFinal`. They
  are proved together, with what rows and invites say of each other (`RowsInv`,
  `InvitesInv`: a session that is not there yet has no seats, an invite that was
  never minted has let nobody in) and what a request that looked may still rely on
  when it stores (`RequestsInv`: the invite it found was minted, a guest's scope is
  the invite's session). `OwnerKeepsSeat` follows from `RowsInv`, `CloseIsFinal` is an
  action theorem from the whole. That uses never exceed the maximum is then a cardinality:
  each use adds one person who was not seated.
- `Accounts_proofs`: types and the five invariants. They fall into three independent
  inductive invariants, on the registration (`MailInv`: the stored row is the latest
  registration's, and a request whose code went out is over and undoes nothing), on the sockets (`SocketInv`: a valid or attached
  socket has the current token, a lagging one, or was missed; one that is attached while the account is
  disabled was missed, or is an administrator's and was let through) and on the lockout
  (`ThrottleInv`: until a success wipes the count, guesses are covered by the counted
  failures while unlocked; under a lock, guesses and the logins that may still make one
  stay below strikes plus logins).
  About `Upgrade` it has the types, `ServesCurrentSchema`, `AccessKept`, `NobodyLost`, `QueueKept`
  and `DecisionsStand`, for any number of commands and of kills. The
  heart is `PassedInEffect`: a statement that some process has passed is in effect and stays so
  whatever the others do (`EffectsStay`, `EffectsCome`). It gives the schema, and
  that `session_enabled` exists where the backfill runs, so that rows with access are passed by.
  `QueueFits`: an approved account that waits is one whose backfill is due, with the process that
  added the column, or lost. `DecidedWhenComplete`: whoever decides does so through an open
  process, hence on a whole schema, on which no backfill falls due any more (`NoneFallsDue`).
  Both exceptions, `torn` and `rushed`, are needed: without them TLC refutes either property.
- `Retention_proofs`: types, `WriterKeepsFile`, `OrphansExplained`, `SharesAccounted`,
  `DeletionIsMeant`. `WriterInv` says what each phase of a writer means for row and file,
  `DeletersInv` that whoever unlinks works on a recording that is over, `LinksInv` counts
  the downloads between their use and their answer.
- `Targets_proofs`: types, `SessionKeepsTarget`, `ShellMatchesTarget`,
  `ApprovedIsApplied`. `RowsFirst` orders row, entry and end of a session; `CountHolds`
  is the heart: a reload that counted drops no target of a session it saw; a session it
  did not see is recorded in `slipped`. `ResolutionHolds` says a handshake
  that resolved for an active session holds an edition its target has had meanwhile (`EditionsHeld`
  relates those to engine and rows), which for a user's target is the current one (no edit of it is
  possible while the row is active); `PreviewHolds` that a reload under way parsed what
  was previewed.

The conjunctions of §3 follow from the theorems of their parts (`CountsCorrect`,
`PipeLosesNothing`, `AccessRotates`, `SeatsKept`, `FilesFollowRows`, `LineSound`, `AccountsUnchanged`).

Only model-checked, because fairness and ENABLED are out of the prover's reach: all liveness, that
is `NothingStranded`, `IdleSessionCloses`, `SessionEnds`, `EndedFeedFinalises`, `CatchesUp`,
`ExpiredIsCleaned`, `PageSettles` and `UpgradeEnds`. Every other property of a run, be it an
invariant, an action property or the refinement, has a theorem.

## 5. Not modelled

Formats (JSON, cast files, frames), HTTP routing, CORS, the SPA, audit entries and
logging; hashes and the strength of passwords and tokens. Several sessions
at once only where they can disturb each other (`Membership`, `Targets`): the operations of the hub are keyed by the session id. The
InputDenied notice and its latch. `input_mode = serialized`, fixed when a session
is created. In `Collab`, evictions (they are in `SessionHub` and `Accounts`) and the chat list a page
keeps over several connections. A start request dropped by its client between
two awaits. Ownership checks that compare a caller with a fixed owner: requests are
their owner's. The session_enabled gates of requests other than the handshake. The rate limiter
(one map under one mutex, every operation atomic). The client's stores: fetch generations live
in one event loop and are covered by the repository's own tests. In `Reconnect`,
the length of the backoff and the awaits inside a handshake but the one between its reads and its launch (what happens
between two of its reads is in `SessionHub`, `Collab` and `Accounts`). In `Upgrade`, column types,
foreign keys, the plain indexes, and what the unique indexes refuse (each
account has a mailbox of its own). The components marked `not_modelled` in `PROJECT.json`.

Hazards seen and left without a property: an evicted connection whose client never closes
(ws.rs:796); the recording badge read after the subscription (ws.rs:444); the page's
chat, seeded from the first backlog only (web/src/pages/Session.tsx:219); a crash between the
first administrator's row and its token file (crates/telepair-cli/src/main.rs); the loser of two redemptions by one
user, who is told the invite's role and not the seat's; two role changes that are stored in one
order and applied in the other (http.rs:939; see `StoredRoleIsLive`); the reload's guard, which
knows targets by name only (http.rs:1447; see `RefusalIsForDrop`); the first storage read of a
handshake, whose failure is answered as a refusal (ws.rs:194; see `StorageIsRetried`); a record of a
failed login that the storage refuses (auth_service.rs:378-381); the lock of a registration code after
wrong tries, beyond which "usable" in `MailedCodeKept` does not look.

Where a property names an exception, it does not catch the hazard that the exception is. This is so
of a replay cut short and an eviction (`upset`), a seat written into a closed session (`ghosts`), a recording
kept under the cleaner's hands (`rescued`, `PermanentIsKept`), a session created between a
reload's count and its store (`slipped`, `GapIsClosed`), a kill at the backfill (`torn`,
`QueueOutlivesKills`), a role changed during a handshake (`missed`, `GateIsRole`) and a store refused to
a writer (`"unstored"`, `BlockingRowIsServed`): the code does not keep the property there. The
statement without the exception is refuted in §3 where a run is named.

## 6. Plan

Written, in the order of importance: the life of a session (`SessionHub`), its
terminal (`PtyPipe`), its recordings (`Recording`), what viewers see (`Screen`),
who may type (`Collab`), then the database behind them (`Membership`, `Accounts`,
`Retention`, `Targets`), the page's line to the gateway (`Reconnect`) and the upgrades
(`Upgrade`). Every safety property of a run is proved. Next, in this order:

1. Compositions: `PtyPipe` as the refinement of `SessionHub`'s PTY phases, for the
   steps outside `pty.write`; what `PtyPipe` reads as what `Screen` broadcasts; the rows of
   `Recording` as the start of `Retention`'s.
2. An abstract specification of membership (who may attach to a session, and since when) that
   `Membership` and the seat in `SessionHub` both implement.
3. The client's stores: fetch generations, the recording badge and the chat over reconnections.

A run is added for a question no other run asks; the whole is checked again after
every change, and the refutations of §3 are run again by hand when their module changes.
