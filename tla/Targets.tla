------------------------------ MODULE Targets ------------------------------
(***************************************************************************)
(* What a session's shell is launched from.  targets.yaml defines global     *)
(* targets, kept by name in an engine that an administrator reloads while    *)
(* the server runs; users keep targets of their own in the database.  A row  *)
(* of sessions names its target for the whole life of the session, and every *)
(* connection resolves it again: a target that goes away under an active     *)
(* session wedges it.  The reload counts the hub's entries before it stores  *)
(* the new engine, creating a session reserves an entry for it, and a user's *)
(* target with an active session is neither edited nor deleted.  All of this *)
(* is several steps, and nothing serialises them.                            *)
(***************************************************************************)
EXTENDS Naturals

CONSTANTS
  Globals,     \* names targets.yaml may define, the built-in shell apart
  UserTargets, \* ids of user-owned targets (bounds their creation)
  NameOf,      \* the name of a user-owned target; it may equal a global one
  Sessions,    \* sessions that may be created
  Conns,       \* websocket handshakes that may overlap
  Reloads,     \* reload requests that may overlap
  Wordings,    \* bound on the definitions the file has of one global target
  MaxAsked,    \* bound on requests and on edits of the file
  MaxBoots     \* bound on crashes

ASSUME TargetsAssumption ==
  /\ Globals \cap UserTargets = {}
  /\ "NoTarget" \notin Globals \cup UserTargets
  /\ "NoSession" \notin Sessions
  /\ Wordings \in Nat
  /\ MaxAsked \in Nat /\ MaxBoots \in Nat

VARIABLES
  file,     \* targets.yaml: the edition it has of each global target, or 0
  engine,   \* AppState.targets: the edition it holds of each, or 0
  user,     \* user_targets: "none", "kept", "deleted"
  ver,      \* how often a user's target was edited
  row,      \* sessions.status: "none", "active", "closed"
  of,       \* the session's target (target_name or user_target_id)
  cpc,      \* create_session: "idle", "found", "stored", "done"
  held,     \* history: the editions its target has had since the row was stored
  hub,      \* the hub's entry: "none", "pending", "live"
  launched, \* what a live entry's shell was launched from: target and edition
  ending,   \* sessions whose entry was removed and whose row is to be closed
  stopping, \* sessions closed by their owner, whose entry is to be removed
  wpc,      \* handshakes: "idle", "looked", "resolved", "orphan", "closing"
  wsess,    \* the session a handshake is for
  wcmd,     \* what it has resolved
  rpc,      \* reloads: "idle", "read", "counted"
  rnew,     \* the engine a reload has parsed
  preview,  \* the file its administrator has seen and sent the hash of, if any
  seen,     \* history: sessions in the hub when the reload counted
  slipped,  \* history: sessions that no count could have seen in time
  asked,    \* requests so far
  boots     \* crashes so far

userVars   == <<user, ver>>
sessVars   == <<row, of, cpc, held>>
hubVars    == <<hub, launched, ending, stopping>>
connVars   == <<wpc, wsess, wcmd>>
reloadVars == <<rpc, rnew, preview, seen>>
vars == <<file, engine, userVars, sessVars, hubVars, connVars, reloadVars,
          slipped, asked, boots>>

Asks == asked < MaxAsked /\ asked' = asked + 1 /\ UNCHANGED boots
NoLimit == UNCHANGED <<asked, boots>>

AllTargets == Globals \cup UserTargets
Editions == AllTargets \X Nat

\* What a parsed targets.yaml holds: command, args and env of each name.
Engines == [Globals -> Nat]
NoTargets == [g \in Globals |-> 0]
Defines(e, n) == n \in Globals /\ e[n] # 0

\* The lookup never crosses namespaces: a global name misses the users' targets.
Exists(t) == Defines(engine, t) \/ (t \in UserTargets /\ user[t] = "kept")
Edition(t) == <<t, IF t \in UserTargets THEN ver[t] ELSE engine[t]>>

\* What sessions.target_name and the hub's entry hold: no id, only a name.
Named(t) == IF t \in UserTargets THEN NameOf[t] ELSE t

Init ==
  /\ file \in [Globals -> 0 .. (IF Wordings = 0 THEN 0 ELSE 1)]
  /\ engine = file
  /\ user = [u \in UserTargets |-> "none"]
  /\ ver = [u \in UserTargets |-> 0]
  /\ row = [s \in Sessions |-> "none"]
  /\ of = [s \in Sessions |-> "NoTarget"]
  /\ cpc = [s \in Sessions |-> "idle"]
  /\ held = [s \in Sessions |-> {}]
  /\ hub = [s \in Sessions |-> "none"]
  /\ launched = [s \in Sessions |-> <<>>]
  /\ ending = {} /\ stopping = {}
  /\ wpc = [w \in Conns |-> "idle"]
  /\ wsess = [w \in Conns |-> "NoSession"]
  /\ wcmd = [w \in Conns |-> <<>>]
  /\ rpc = [a \in Reloads |-> "idle"]
  /\ rnew = [a \in Reloads |-> NoTargets]
  /\ preview = [a \in Reloads |-> {}]
  /\ seen = [a \in Reloads |-> {}]
  /\ slipped = {}
  /\ asked = 0 /\ boots = 0

-----------------------------------------------------------------------------
(* POST /api/sessions *)

\* engine.find, or user_targets.get for the caller's own.
Create(s, t) ==
  /\ Asks
  /\ cpc[s] = "idle"
  /\ Exists(t)
  /\ cpc' = [cpc EXCEPT ![s] = "found"]
  /\ of' = [of EXCEPT ![s] = t]
  /\ UNCHANGED <<file, engine, userVars, row, held, hubVars, connVars, reloadVars,
                 slipped>>

\* create_session_with_owner.  No foreign key ties the row to the target, and
\* the engine may have changed: a target gone by now is not noticed.
CreateStores(s) ==
  /\ cpc[s] = "found"
  /\ cpc' = [cpc EXCEPT ![s] = "stored"]
  /\ row' = [row EXCEPT ![s] = "active"]
  /\ held' = [held EXCEPT ![s] = {Edition(t) : t \in {q \in {of[s]} : Exists(q)}}]
  /\ slipped' = slipped \cup {q \in {s} : ~Exists(of[q])}
  /\ UNCHANGED <<file, engine, userVars, of, hubVars, connVars, reloadVars>>
  /\ NoLimit

\* reserve_target, after the audit's writes: a no-op if an entry is there.
CreateReserves(s) ==
  /\ cpc[s] = "stored"
  /\ cpc' = [cpc EXCEPT ![s] = "done"]
  /\ hub' = [hub EXCEPT ![s] = IF @ = "none" THEN "pending" ELSE @]
  /\ UNCHANGED <<file, engine, userVars, row, of, held, launched, ending, stopping,
                 connVars, reloadVars, slipped>>
  /\ NoLimit

\* A storage error, or the client hung up: the handler goes no further.
CreateEnds(s) ==
  /\ cpc[s] \in {"found", "stored"}
  /\ cpc' = [cpc EXCEPT ![s] = "done"]
  /\ UNCHANGED <<file, engine, userVars, row, of, held, hubVars, connVars, reloadVars,
                 slipped>>
  /\ NoLimit

\* gc_expired_pending: the reservation goes, the row stays active.
ReservationExpires(s) ==
  /\ hub[s] = "pending"
  /\ hub' = [hub EXCEPT ![s] = "none"]
  /\ UNCHANGED <<file, engine, userVars, sessVars, launched, ending, stopping,
                 connVars, reloadVars, slipped>>
  /\ NoLimit

-----------------------------------------------------------------------------
(* The handshake of a connection, from its session lookup to its shell *)

AttachLooks(w, s) ==
  /\ Asks
  /\ wpc[w] = "idle"
  /\ row[s] = "active"
  /\ wpc' = [wpc EXCEPT ![w] = "looked"]
  /\ wsess' = [wsess EXCEPT ![w] = s]
  /\ UNCHANGED <<file, engine, userVars, sessVars, hubVars, wcmd, reloadVars, slipped>>

\* resolve_session_pty: empty when the target is not found.
Resolves(t) == IF Exists(t) THEN {Edition(t)} ELSE {}

\* A storage error ends the handshake and leaves the session alone.
AttachResolves(w) ==
  /\ wpc[w] = "looked"
  /\ LET found == Resolves(of[wsess[w]])
     IN \/ /\ found = {}
           /\ wpc' = [wpc EXCEPT ![w] = "orphan"]
           /\ UNCHANGED wcmd
        \/ \E c \in found :
             /\ wpc' = [wpc EXCEPT ![w] = "resolved"]
             /\ wcmd' = [wcmd EXCEPT ![w] = c]
        \/ /\ of[wsess[w]] \in UserTargets
           /\ wpc' = [wpc EXCEPT ![w] = "idle"]
           /\ UNCHANGED wcmd
  /\ UNCHANGED <<file, engine, userVars, sessVars, hubVars, wsess, reloadVars, slipped>>
  /\ NoLimit

\* start_or_join: a live entry is joined, whatever was resolved.
AttachJoins(w) ==
  /\ wpc[w] = "resolved"
  /\ wpc' = [wpc EXCEPT ![w] = "idle"]
  /\ LET s == wsess[w]
     IN IF hub[s] = "live" THEN UNCHANGED <<hub, launched>>
        ELSE /\ hub' = [hub EXCEPT ![s] = "live"]
             /\ launched' = [launched EXCEPT ![s] = wcmd[w]]
  /\ UNCHANGED <<file, engine, userVars, sessVars, ending, stopping, wsess, wcmd,
                 reloadVars, slipped>>
  /\ NoLimit

\* The spawn fails; another handshake may have a shell running by the cleanup.
AttachFails(w) ==
  /\ wpc[w] = "resolved"
  /\ hub[wsess[w]] # "live"
  /\ wpc' = [wpc EXCEPT ![w] = "orphan"]
  /\ UNCHANGED <<file, engine, userVars, sessVars, hubVars, wsess, wcmd, reloadVars, slipped>>
  /\ NoLimit

\* cleanup_orphan_session: the reservation is released, a live entry is kept ...
AttachReleases(w) ==
  /\ wpc[w] = "orphan"
  /\ wpc' = [wpc EXCEPT ![w] = "closing"]
  /\ hub' = [hub EXCEPT ![wsess[w]] = IF @ = "pending" THEN "none" ELSE @]
  /\ UNCHANGED <<file, engine, userVars, sessVars, launched, ending, stopping,
                 wsess, wcmd, reloadVars, slipped>>
  /\ NoLimit

\* close_session: an UPDATE of an active row.
Closes(s) == row' = [q \in Sessions |-> IF q = s /\ row[q] = "active" THEN "closed" ELSE row[q]]

\* ... and the row is closed all the same.
AttachCloses(w) ==
  /\ wpc[w] = "closing"
  /\ wpc' = [wpc EXCEPT ![w] = "idle"]
  /\ Closes(wsess[w])
  /\ UNCHANGED <<file, engine, userVars, of, cpc, held, hubVars, wsess, wcmd,
                 reloadVars, slipped>>
  /\ NoLimit

-----------------------------------------------------------------------------
(* The end of a session *)

\* The shell exits or the reaper takes an idle session: first the entry ...
ShellEnds(s) ==
  /\ hub[s] = "live"
  /\ hub' = [hub EXCEPT ![s] = "none"]
  /\ ending' = ending \cup {s}
  /\ UNCHANGED <<file, engine, userVars, sessVars, launched, stopping, connVars,
                 reloadVars, slipped>>
  /\ NoLimit

\* ... then the row.
EndCloses(s) ==
  /\ s \in ending
  /\ ending' = ending \ {s}
  /\ Closes(s)
  /\ UNCHANGED <<file, engine, userVars, of, cpc, held, hub, launched, stopping, connVars,
                 reloadVars, slipped>>
  /\ NoLimit

\* DELETE /api/sessions/{id}: the row first ...
OwnerCloses(s) ==
  /\ Asks
  /\ row[s] = "active"
  /\ Closes(s)
  /\ stopping' = stopping \cup {s}
  /\ UNCHANGED <<file, engine, userVars, of, cpc, held, hub, launched, ending, connVars,
                 reloadVars, slipped>>

\* ... then the entry, pending or live.
StopSession(s) ==
  /\ s \in stopping
  /\ stopping' = stopping \ {s}
  /\ hub' = [hub EXCEPT ![s] = "none"]
  /\ UNCHANGED <<file, engine, userVars, sessVars, launched, ending, connVars,
                 reloadVars, slipped>>
  /\ NoLimit

-----------------------------------------------------------------------------
(* POST /api/user-targets and PUT, DELETE /api/user-targets/{id} *)

\* The INSERT, under a fresh id.
StoresTarget(u) ==
  /\ user[u] = "none"
  /\ user' = [user EXCEPT ![u] = "kept"]

CreateUserTarget(u) ==
  /\ Asks
  /\ StoresTarget(u)
  /\ UNCHANGED <<file, engine, ver, sessVars, hubVars, connVars, reloadVars, slipped>>

\* mutant: asks the hub instead of the rows
InHub(u) == \E s \in Sessions : of[s] = u /\ hub[s] # "none"

\* The NOT EXISTS of both statements.
InUse(u) == \E s \in Sessions : of[s] = u /\ row[s] = "active"

UpdateUserTarget(u) ==
  /\ Asks
  /\ user[u] = "kept" /\ ~InUse(u)
  /\ ver' = [ver EXCEPT ![u] = @ + 1]
  /\ UNCHANGED <<file, engine, user, sessVars, hubVars, connVars, reloadVars, slipped>>

DeleteUserTarget(u) ==
  /\ Asks
  /\ user[u] = "kept" /\ ~InUse(u)
  /\ user' = [user EXCEPT ![u] = "deleted"]
  /\ UNCHANGED <<file, engine, ver, sessVars, hubVars, connVars, reloadVars, slipped>>

-----------------------------------------------------------------------------
(* POST /api/admin/targets/validate and /reload *)

EditFile(f) ==
  /\ Asks
  /\ file' = f
  /\ UNCHANGED <<engine, userVars, sessVars, hubVars, connVars, reloadVars, slipped>>

ValidateTargets(a) ==
  /\ Asks
  /\ rpc[a] = "idle"
  /\ preview' = [preview EXCEPT ![a] = {file}]
  /\ UNCHANGED <<file, engine, userVars, sessVars, hubVars, connVars, rpc, rnew, seen, slipped>>

\* mutant: the hash the administrator sent is not compared
ReloadReadsBlindly(a) ==
  /\ Asks
  /\ rpc[a] = "idle"
  /\ rpc' = [rpc EXCEPT ![a] = "read"]
  /\ rnew' = [rnew EXCEPT ![a] = file]
  /\ UNCHANGED <<file, engine, userVars, sessVars, hubVars, connVars, preview, seen, slipped>>

\* load_and_hash_targets: one read for the hash and the parse.  Without a
\* preview, or with one of the same bytes, the reload goes on; a file that is
\* missing, malformed or another ends it.
ReloadReads(a) ==
  /\ Asks
  /\ rpc[a] = "idle"
  /\ \/ /\ preview[a] \subseteq {file}
        /\ rpc' = [rpc EXCEPT ![a] = "read"]
        /\ rnew' = [rnew EXCEPT ![a] = file]
        /\ UNCHANGED preview
     \/ /\ preview' = [preview EXCEPT ![a] = {}]
        /\ UNCHANGED <<rpc, rnew>>
  /\ UNCHANGED <<file, engine, userVars, sessVars, hubVars, connVars, seen, slipped>>

\* mutant: a session that nobody has attached to yet does not count
CountsLive == {s \in Sessions : hub[s] = "live"}

\* count_live_sessions_per_target: every entry, pending or live.
Counted == {s \in Sessions : hub[s] # "none"}

\* Only the name counts: a target that is referenced may change its definition.
StillReferenced(a) == {s \in Counted : ~Defines(rnew[a], Named(of[s]))}

ReloadCounts(a) ==
  /\ rpc[a] = "read"
  /\ StillReferenced(a) = {}
  /\ rpc' = [rpc EXCEPT ![a] = "counted"]
  /\ seen' = [seen EXCEPT ![a] = {s \in Sessions : hub[s] # "none"}]
  /\ UNCHANGED <<file, engine, userVars, sessVars, hubVars, connVars, rnew, preview, slipped>>
  /\ NoLimit

ReloadRefuses(a) ==
  /\ rpc[a] = "read"
  /\ StillReferenced(a) # {}
  /\ rpc' = [rpc EXCEPT ![a] = "idle"]
  /\ preview' = [preview EXCEPT ![a] = {}]
  /\ UNCHANGED <<file, engine, userVars, sessVars, hubVars, connVars, rnew, seen, slipped>>
  /\ NoLimit

\* state.targets.store: no lock is held since the count, and another reload may
\* have stored a later file meanwhile.
ReloadStores(a) ==
  /\ rpc[a] = "counted"
  /\ rpc' = [rpc EXCEPT ![a] = "idle"]
  /\ preview' = [preview EXCEPT ![a] = {}]
  /\ engine' = rnew[a]
  /\ LET users == {s \in Sessions : row[s] = "active" /\ of[s] \in Globals}
     IN /\ held' = [s \in Sessions |->
                      IF s \in users /\ Defines(rnew[a], of[s])
                        THEN held[s] \cup {<<of[s], rnew[a][of[s]]>>}
                        ELSE held[s]]
        /\ slipped' = slipped \cup {s \in users \ seen[a] : ~Defines(rnew[a], of[s])}
  /\ UNCHANGED <<file, userVars, row, of, cpc, hubVars, connVars, rnew, seen>>
  /\ NoLimit

\* The next start loads the file, or nothing if it does not parse, and
\* close_stale_sessions ends what was active.
CrashAndBoot ==
  /\ boots < MaxBoots
  /\ boots' = boots + 1
  /\ engine' \in {file, NoTargets}
  /\ row' = [s \in Sessions |-> IF row[s] = "active" THEN "closed" ELSE row[s]]
  /\ cpc' = [s \in Sessions |-> IF cpc[s] = "idle" THEN "idle" ELSE "done"]
  /\ hub' = [s \in Sessions |-> "none"]
  /\ ending' = {} /\ stopping' = {}
  /\ wpc' = [w \in Conns |-> "idle"]
  /\ rpc' = [a \in Reloads |-> "idle"]
  /\ preview' = [a \in Reloads |-> {}]
  /\ UNCHANGED <<file, userVars, of, held, launched, wsess, wcmd, rnew, seen,
                 slipped, asked>>

Next ==
  \/ \E s \in Sessions, t \in AllTargets : Create(s, t)
  \/ \E s \in Sessions : CreateStores(s) \/ CreateReserves(s) \/ CreateEnds(s)
                         \/ ReservationExpires(s) \/ ShellEnds(s) \/ EndCloses(s)
                         \/ OwnerCloses(s) \/ StopSession(s)
  \/ \E w \in Conns, s \in Sessions : AttachLooks(w, s)
  \/ \E w \in Conns : AttachResolves(w) \/ AttachJoins(w) \/ AttachFails(w)
                      \/ AttachReleases(w) \/ AttachCloses(w)
  \/ \E u \in UserTargets : CreateUserTarget(u) \/ UpdateUserTarget(u) \/ DeleteUserTarget(u)
  \/ \E f \in [Globals -> 0 .. Wordings] : EditFile(f)
  \/ \E a \in Reloads : ValidateTargets(a) \/ ReloadReads(a) \/ ReloadCounts(a)
                        \/ ReloadRefuses(a) \/ ReloadStores(a)
  \/ CrashAndBoot

Spec == Init /\ [][Next]_vars

-----------------------------------------------------------------------------
TypeOK ==
  /\ file \in Engines /\ engine \in Engines
  /\ user \in [UserTargets -> {"none", "kept", "deleted"}]
  /\ ver \in [UserTargets -> Nat]
  /\ row \in [Sessions -> {"none", "active", "closed"}]
  /\ of \in [Sessions -> AllTargets \cup {"NoTarget"}]
  /\ cpc \in [Sessions -> {"idle", "found", "stored", "done"}]
  /\ held \in [Sessions -> SUBSET Editions]
  /\ hub \in [Sessions -> {"none", "pending", "live"}]
  /\ launched \in [Sessions -> Editions \cup {<<>>}]
  /\ ending \subseteq Sessions /\ stopping \subseteq Sessions
  /\ wpc \in [Conns -> {"idle", "looked", "resolved", "orphan", "closing"}]
  /\ wsess \in [Conns -> Sessions \cup {"NoSession"}]
  /\ wcmd \in [Conns -> Editions \cup {<<>>}]
  /\ rpc \in [Reloads -> {"idle", "read", "counted"}]
  /\ rnew \in [Reloads -> Engines]
  /\ preview \in [Reloads -> SUBSET Engines]
  /\ seen \in [Reloads -> SUBSET Sessions]
  /\ slipped \subseteq Sessions
  /\ asked \in Nat /\ boots \in Nat

\* A session that is active still has its target, in its own namespace, unless
\* it slipped past the guards: it was stored after its target had gone, or it
\* was not in the hub when the reload that drops the target counted.  A session
\* that a count saw, were it only reserved, never loses its target.
SessionKeepsTarget ==
  \A s \in Sessions : row[s] = "active" /\ s \notin slipped => Exists(of[s])

\* What a shell of this session may be launched from.
Faithful(s, c) == c \in held[s] /\ (of[s] \in UserTargets => c = Edition(of[s]))

\* The shell of an active session was launched from the target its row names,
\* in an edition that target has had since the row was stored: no target of the
\* same name in the other namespace has taken its place, and nothing runs that
\* the file defines but no reload has stored.  For a user's target it is the
\* edition the target has now.  A global one may be edited under its sessions
\* (http.rs:1440-1443), and their shells then go on in an older edition.
ShellMatchesTarget ==
  \A s \in Sessions : row[s] = "active" /\ hub[s] = "live" => Faithful(s, launched[s])

\* A reload that sent the hash of a previewed file stores the file that was
\* previewed, its definitions as well as its names, or nothing.
ApprovedIsApplied ==
  [][\A a \in Reloads : ReloadStores(a) /\ preview[a] # {} => preview[a] = {engine'}]_vars

\* session_hub.rs:726-730 of the pending entries: without them "an admin reload
\* landing during the create-session -> WS-attach gap would drop the brand-new
\* target and orphan the session".  With them no active session loses its target.
GapIsClosed == \A s \in Sessions : row[s] = "active" => Exists(of[s])

\* What docs/api.md:818 and http.rs:1440-1443 say of still_referenced: a reload
\* is refused only when the new file drops a target that a live session uses.
RefusalIsForDrop ==
  [][\A a \in Reloads : ReloadRefuses(a) =>
       \E s \in Sessions : hub[s] # "none" /\ Defines(engine, of[s])
                           /\ ~Defines(rnew[a], of[s])]_vars
=============================================================================
