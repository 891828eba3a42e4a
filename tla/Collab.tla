------------------------------- MODULE Collab -------------------------------
(***************************************************************************)
(* Who is in a live session and who may type: roles in the database, the    *)
(* hub's roster, the collab broadcast, and what each connection makes of    *)
(* it.  A connection has two receivers on the broadcast: the forwarder's,   *)
(* from attach_to on, which feeds the page's view of the roster and the     *)
(* chat; and the main loop's, from the end of the replay on, which moves    *)
(* the gate the connection's input has to pass.                             *)
(***************************************************************************)
EXTENDS Integers, Sequences, FiniteSets, SequencesExt

CONSTANTS
  Users,      \* participants other than the owner
  Conns,      \* their connections; one is reused after its handler ends
  UserOf,     \* the user of a connection
  Requests,   \* the owner's role changes (each handled once)
  CollabCap,  \* capacity of collab_tx (64)
  ChatCap,    \* CHAT_HISTORY_CAP
  MaxJoins,   \* bound on connections that read their role
  MaxChats    \* bound on chat lines

ASSUME CollabAssumption ==
  /\ UserOf \in [Conns -> Users] /\ IsFiniteSet(Conns)
  /\ CollabCap \in Nat \ {0} /\ ChatCap \in Nat \ {0}
  /\ MaxJoins \in Nat /\ MaxChats \in Nat

Roles == {"operator", "viewer"}

VARIABLES
  dbRole,   \* participants.role
  roster,   \* LiveSession.participants: a role, or "absent"
  count,    \* LiveSession.connections
  ring,     \* the last CollabCap messages of the broadcast
  tail,     \* how many messages were broadcast
  chats,    \* how many chat lines were recorded
  request,  \* per request: "new", [step, user, role], "done"
  pc,       \* per connection: "off", "read", "attached", "added", "main", "exiting"
  gate,     \* current_role; before the main loop, my_role
  fwdAt,    \* position of collab_rx; 0 when the forwarder has ended
  roleAt,   \* position of role_rx; 0 before the main loop
  resync,   \* role_rx lagged, the role is being asked of the hub
  view,     \* the page's participants
  heard,    \* chat lines the page got on this connection
  missed,   \* history: the role changed where this connection cannot see it
  joins     \* connections that read their role so far

hubVars  == <<roster, count, ring, tail, chats>>
connVars == <<pc, gate, fwdAt, roleAt, resync, view, heard, missed, joins>>
vars     == <<dbRole, hubVars, request, connVars>>

Empty == [u \in Users |-> "absent"]

Init ==
  /\ dbRole \in [Users -> Roles]
  /\ roster = Empty
  /\ count = [u \in Users |-> 0]
  /\ ring = <<>> /\ tail = 0 /\ chats = 0
  /\ request = [r \in Requests |-> [step |-> "new"]]
  /\ pc = [c \in Conns |-> "off"]
  /\ gate = [c \in Conns |-> "viewer"]
  /\ fwdAt = [c \in Conns |-> 0]
  /\ roleAt = [c \in Conns |-> 0]
  /\ resync = [c \in Conns |-> FALSE]
  /\ view = [c \in Conns |-> Empty]
  /\ heard = [c \in Conns |-> <<>>]
  /\ missed = [c \in Conns |-> FALSE]
  /\ joins = 0

-----------------------------------------------------------------------------
(* The broadcast channel *)

\* collab_tx.send: the oldest message makes room.
Broadcast(msg) ==
  LET all == Append(ring, msg)
  IN  /\ ring' = IF Len(all) > CollabCap THEN Tail(all) ELSE all
      /\ tail' = tail + 1

NoBroadcast == UNCHANGED <<ring, tail>>

Oldest == tail + 1 - Len(ring)
InRing(n) == Oldest <= n /\ n <= tail
Message(n) == ring[n + 1 - Oldest]

\* The connections for which a change of u's role is not an event to come.
Misses(u) ==
  missed' = [c \in Conns |->
    missed[c] \/ (UserOf[c] = u /\ pc[c] \in {"read", "attached", "added"})]

-----------------------------------------------------------------------------
(* The owner's PUT .../participants/{user_id}/role *)

\* The old role is read; a request for an equal one is answered there and then.
PutCheck(r, u, role) ==
  /\ request[r].step = "new"
  /\ dbRole[u] # role
  /\ request' = [request EXCEPT ![r] = [step |-> "store", user |-> u, role |-> role]]
  /\ UNCHANGED <<dbRole, hubVars, connVars>>

PutStore(r) ==
  /\ request[r].step = "store"
  /\ dbRole' = [dbRole EXCEPT ![request[r].user] = request[r].role]
  /\ request' = [request EXCEPT ![r].step = "apply"]
  /\ UNCHANGED <<hubVars, connVars>>

\* mutant: the roster is updated, nobody is told
ApplyQuietly(r) ==
  /\ request[r].step = "apply"
  /\ LET u == request[r].user
     IN  /\ roster' = IF roster[u] = "absent" THEN roster
                      ELSE [roster EXCEPT ![u] = request[r].role]
         /\ NoBroadcast /\ Misses(u)
  /\ request' = [request EXCEPT ![r] = [step |-> "done"]]
  /\ UNCHANGED <<dbRole, count, chats, pc, gate, fwdAt, roleAt, resync, view, heard, joins>>

\* SessionHub::update_participant_role, under the map's write lock.
PutApply(r) ==
  /\ request[r].step = "apply"
  /\ LET u == request[r].user
         role == request[r].role
     IN  \/ /\ roster[u] \notin {"absent", role}
            /\ roster' = [roster EXCEPT ![u] = role]
            /\ Broadcast([kind |-> "role", user |-> u, role |-> role])
            /\ Misses(u)
         \/ /\ roster[u] \in {"absent", role}
            /\ NoBroadcast
            /\ UNCHANGED <<roster, missed>>
  /\ request' = [request EXCEPT ![r] = [step |-> "done"]]
  /\ UNCHANGED <<dbRole, count, chats, pc, gate, fwdAt, roleAt, resync, view, heard, joins>>

-----------------------------------------------------------------------------
(* A connection comes up *)

Goto(c, phase) == pc' = [pc EXCEPT ![c] = phase]

\* The participant row is read; its role is the connection's from here on.
ReadRole(c) ==
  /\ pc[c] = "off"
  /\ joins < MaxJoins
  /\ joins' = joins + 1
  /\ Goto(c, "read")
  /\ gate' = [gate EXCEPT ![c] = dbRole[UserOf[c]]]
  /\ missed' = [missed EXCEPT ![c] = FALSE]
  /\ UNCHANGED <<dbRole, hubVars, request, fwdAt, roleAt, resync, view, heard>>

\* LiveSession.chat_history holds the last ChatCap lines.
History ==
  LET kept == IF chats < ChatCap THEN chats ELSE ChatCap
  IN  [i \in 1..kept |-> chats - kept + i]

\* attach_to: subscription and chat snapshot under the history's mutex.
AttachTo(c) ==
  /\ pc[c] = "read"
  /\ Goto(c, "attached")
  /\ fwdAt' = [fwdAt EXCEPT ![c] = tail + 1]
  /\ heard' = [heard EXCEPT ![c] = History]
  /\ UNCHANGED <<dbRole, hubVars, request, gate, roleAt, resync, view, missed, joins>>

\* add_participant_and_snapshot, and the SessionState built from it.  Only a
\* user's first connection brings a role to the roster.
AddParticipant(c) ==
  LET u == UserOf[c]
  IN  /\ pc[c] = "attached"
      /\ Goto(c, "added")
      /\ count' = [count EXCEPT ![u] = @ + 1]
      /\ IF count[u] = 0
           THEN /\ roster' = [roster EXCEPT ![u] = gate[c]]
                /\ Broadcast([kind |-> "joined", user |-> u, role |-> gate[c]])
           ELSE /\ NoBroadcast
                /\ UNCHANGED roster
      /\ view' = [view EXCEPT ![c] = roster']
      /\ missed' = [missed EXCEPT ![c] = @ \/ roster'[u] # gate[c]]
      /\ UNCHANGED <<dbRole, chats, request, gate, fwdAt, roleAt, resync, heard, joins>>

\* The replay is sent; collab_rx.resubscribe() starts at the tail.
EnterMain(c) ==
  /\ pc[c] = "added"
  /\ Goto(c, "main")
  /\ roleAt' = [roleAt EXCEPT ![c] = tail + 1]
  /\ UNCHANGED <<dbRole, hubVars, request, gate, fwdAt, resync, view, heard, missed, joins>>

-----------------------------------------------------------------------------
(* The forwarder and the page *)

Forwarding(c) == pc[c] = "main" /\ fwdAt[c] # 0

\* Session.tsx handleMessage: what a message makes of the page's participants.
Seen(old, msg) ==
  CASE msg.kind = "joined" -> [old EXCEPT ![msg.user] = msg.role]
    [] msg.kind = "left"   -> [old EXCEPT ![msg.user] = "absent"]
    [] msg.kind = "role" /\ old[msg.user] # "absent" ->
         [old EXCEPT ![msg.user] = msg.role]
    [] OTHER -> old

Forward(c) ==
  /\ Forwarding(c)
  /\ InRing(fwdAt[c])
  /\ LET msg == Message(fwdAt[c])
     IN  /\ view' = [view EXCEPT ![c] = Seen(@, msg)]
         /\ heard' = IF msg.kind = "chat"
                       THEN [heard EXCEPT ![c] = Append(@, msg.line)]
                       ELSE heard
  /\ fwdAt' = [fwdAt EXCEPT ![c] = @ + 1]
  /\ UNCHANGED <<dbRole, hubVars, request, pc, gate, roleAt, resync, missed, joins>>

\* mutant: the forwarder goes on with the oldest message left
ForwardLagSkips(c) ==
  /\ Forwarding(c)
  /\ fwdAt[c] < Oldest
  /\ fwdAt' = [fwdAt EXCEPT ![c] = Oldest]
  /\ UNCHANGED <<dbRole, hubVars, request, pc, gate, roleAt, resync, view, heard,
                 missed, joins>>

\* RecvError::Lagged: Close(TRANSIENT), and the forwarder ends.
ForwardLag(c) ==
  /\ Forwarding(c)
  /\ fwdAt[c] < Oldest
  /\ fwdAt' = [fwdAt EXCEPT ![c] = 0]
  /\ UNCHANGED <<dbRole, hubVars, request, pc, gate, roleAt, resync, view, heard,
                 missed, joins>>

-----------------------------------------------------------------------------
(* The main loop *)

RoleMessage(c) ==
  /\ pc[c] = "main" /\ ~resync[c]
  /\ InRing(roleAt[c])
  /\ LET msg == Message(roleAt[c])
     IN  gate' = IF msg.kind = "role" /\ msg.user = UserOf[c]
                   THEN [gate EXCEPT ![c] = msg.role]
                   ELSE gate
  /\ roleAt' = [roleAt EXCEPT ![c] = @ + 1]
  /\ UNCHANGED <<dbRole, hubVars, request, pc, fwdAt, resync, view, heard, missed, joins>>

\* RecvError::Lagged: the receiver moves to the oldest message left; the role
\* is asked of the hub, after the await.
RoleLag(c) ==
  /\ pc[c] = "main" /\ ~resync[c]
  /\ roleAt[c] < Oldest
  /\ roleAt' = [roleAt EXCEPT ![c] = Oldest]
  /\ resync' = [resync EXCEPT ![c] = TRUE]
  /\ UNCHANGED <<dbRole, hubVars, request, pc, gate, fwdAt, view, heard, missed, joins>>

\* mutant: the gate stays as it was before the lag
ResyncNothing(c) ==
  /\ resync[c]
  /\ resync' = [resync EXCEPT ![c] = FALSE]
  /\ UNCHANGED <<dbRole, hubVars, request, pc, gate, fwdAt, roleAt, view, heard,
                 missed, joins>>

\* get_participant_role
Resync(c) ==
  /\ resync[c]
  /\ resync' = [resync EXCEPT ![c] = FALSE]
  /\ gate' = IF roster[UserOf[c]] = "absent" THEN gate
             ELSE [gate EXCEPT ![c] = roster[UserOf[c]]]
  /\ UNCHANGED <<dbRole, hubVars, request, pc, fwdAt, roleAt, view, heard, missed, joins>>

\* record_chat: history and broadcast under the history's mutex.
Chat(c) ==
  /\ pc[c] = "main" /\ ~resync[c]
  /\ chats < MaxChats
  /\ chats' = chats + 1
  /\ Broadcast([kind |-> "chat", line |-> chats + 1])
  /\ UNCHANGED <<dbRole, roster, count, request, connVars>>

\* The socket is gone, and with it the page's view.
Gone(c, phase) ==
  /\ Goto(c, phase)
  /\ gate' = [gate EXCEPT ![c] = "viewer"]
  /\ fwdAt' = [fwdAt EXCEPT ![c] = 0]
  /\ roleAt' = [roleAt EXCEPT ![c] = 0]
  /\ view' = [view EXCEPT ![c] = Empty]
  /\ heard' = [heard EXCEPT ![c] = <<>>]
  /\ missed' = [missed EXCEPT ![c] = FALSE]
  /\ UNCHANGED <<dbRole, hubVars, request, resync, joins>>

\* The main loop breaks and tells the forwarder to stop.
Leave(c) ==
  /\ pc[c] = "main" /\ ~resync[c]
  /\ Gone(c, "exiting")

\* The socket ends during the replay: the handler returns, the participant not
\* removed.  (One that returns before attach_to leaves nothing behind.)
BreakOff(c) ==
  /\ pc[c] = "added"
  /\ Gone(c, "off")

\* remove_participant: the user's last connection takes the user off.
RemoveParticipant(c) ==
  LET u == UserOf[c]
  IN  /\ pc[c] = "exiting"
      /\ Goto(c, "off")
      /\ count' = [count EXCEPT ![u] = @ - 1]
      /\ IF count[u] = 1
           THEN /\ roster' = [roster EXCEPT ![u] = "absent"]
                /\ Broadcast([kind |-> "left", user |-> u])
           ELSE /\ NoBroadcast
                /\ UNCHANGED roster
      /\ UNCHANGED <<dbRole, chats, request, gate, fwdAt, roleAt, resync, view, heard,
                     missed, joins>>

-----------------------------------------------------------------------------
ConnStep(c) ==
  \/ ReadRole(c) \/ AttachTo(c) \/ AddParticipant(c) \/ EnterMain(c)
  \/ Forward(c) \/ ForwardLag(c)
  \/ RoleMessage(c) \/ RoleLag(c) \/ Resync(c)
  \/ Chat(c) \/ Leave(c) \/ RemoveParticipant(c) \/ BreakOff(c)

Next ==
  \/ \E c \in Conns : ConnStep(c)
  \/ \E r \in Requests :
       \/ \E u \in Users, role \in Roles : PutCheck(r, u, role)
       \/ PutStore(r) \/ PutApply(r)

Spec == Init /\ [][Next]_vars

-----------------------------------------------------------------------------
(* Properties *)

\* What the broadcast carries, and where a request of the owner stands.
Messages ==
  [kind : {"joined", "role"}, user : Users, role : Roles]
    \cup [kind : {"left"}, user : Users]
    \cup [kind : {"chat"}, line : 1..MaxChats]

RequestStates ==
  [step : {"new", "done"}] \cup [step : {"store", "apply"}, user : Users, role : Roles]

TypeOK ==
  /\ dbRole \in [Users -> Roles]
  /\ roster \in [Users -> Roles \cup {"absent"}]
  /\ count \in [Users -> Nat]
  /\ ring \in Seq(Messages) /\ Len(ring) <= CollabCap
  /\ tail \in Nat /\ chats \in 0..MaxChats
  /\ request \in [Requests -> RequestStates]
  /\ pc \in [Conns -> {"off", "read", "attached", "added", "main", "exiting"}]
  /\ gate \in [Conns -> Roles]
  /\ fwdAt \in [Conns -> Nat] /\ roleAt \in [Conns -> Nat]
  /\ resync \in [Conns -> BOOLEAN] /\ missed \in [Conns -> BOOLEAN]
  /\ view \in [Conns -> [Users -> Roles \cup {"absent"}]]
  /\ heard \in [Conns -> Seq(1..MaxChats)]
  /\ joins \in 0..MaxJoins

Drained(c) == Forwarding(c) /\ fwdAt[c] = tail + 1

\* ws.rs:428-477, Session.tsx:228-330: the roster's snapshot is younger than
\* the subscription, so that old joins, leaves and role changes are applied
\* again to a newer list.  A page that received all there is shows the roster
\* of the hub nevertheless.
RosterConverges == \A c \in Conns : Drained(c) => view[c] = roster

\* session_hub.rs:954-969: a connection gets every chat line from some point on
\* once and in order, and all of them once it received all there is.
ChatOnce ==
  \A c \in Conns : pc[c] # "off" =>
    /\ \A i \in 1..Len(heard[c]) - 1 : heard[c][i + 1] = heard[c][i] + 1
    /\ Drained(c) /\ chats > 0 => heard[c] # <<>> /\ Last(heard[c]) = chats

\* The main loop worked through role_rx.
Settled(c) == pc[c] = "main" /\ ~resync[c] /\ roleAt[c] = tail + 1

\* ws.rs:777-832: unless the role changed while the connection was coming up,
\* a gate whose loop is idle is the role in the hub, lags and their
\* resynchronisation, which older messages follow, included.
GateFollowsRole ==
  \A c \in Conns : Settled(c) /\ ~missed[c] => gate[c] = roster[UserOf[c]]

\* session_hub.rs:1092-1094: PeerRoleChanged makes every connected client
\* re-evaluate its input permissions, whenever it connected.
GateIsRole == \A c \in Conns : Settled(c) => gate[c] = roster[UserOf[c]]

\* http.rs:943-958: a stored role that misses the hub "will apply on
\* reconnect", so that a request that is over and connections that are up
\* leave no difference between the database and the roster.
StoredRoleIsLive ==
  (/\ \A r \in Requests : request[r].step \in {"new", "done"}
   /\ \A c \in Conns : pc[c] \in {"off", "main"})
    => \A u \in Users : roster[u] \in {"absent", dbRole[u]}
=============================================================================
