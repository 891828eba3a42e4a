----------------------------- MODULE Reconnect -----------------------------
(***************************************************************************)
(* The line between a session page and the gateway: TelepairSocket (ws.ts)  *)
(* with its one reconnect timer and its retry budget, the WebSocket objects *)
(* it makes one after the other, whose events reach it late, the page       *)
(* (Session.tsx) that drives it, and the gateway's handshake, which admits, *)
(* refuses for good or asks to be tried again.  The network may cut a       *)
(* connection at any time and take the frames under way with it.            *)
(***************************************************************************)
EXTENDS Naturals, Sequences

CONSTANTS
  Sockets,     \* WebSocket objects; one that closed may stand for a new one
  NoSocket,    \* this.ws = null
  MaxAttempts  \* maxReconnectAttempts (5)

ASSUME ReconnectAssumption == MaxAttempts \in Nat /\ NoSocket \notin Sockets

VARIABLES
  page,        \* "loading", "open" (Terminal's ref fired), "left" (onCleanup)
  ended,       \* endedReasonKey is set
  signedIn,    \* the page's token is still stored
  retryToast,  \* the giveup toast, with its Retry action, is on screen
  ws,          \* this.ws
  attempts,    \* reconnectAttempts
  timers,      \* timeouts set and neither fired nor cleared
  intended,    \* intentionalClose
  status,      \* the last onStatus
  stage,       \* per socket: "unused", "dialing", "open", "closing", "closed"
  attached,    \* per socket: its handlers are set
  inbox,       \* per socket: frames under way to the browser
  peer,        \* its handler: "none", "waiting" (for SessionJoin), "asked",
               \* "looked" (the session's row was active), "serving", "disabled",
               \* "rotated" and "stopped" (serving, with an eviction in its
               \* channel, or its entry gone from the hub), "gone"
  valid,       \* the token the page has is a token of its user
  enabled,     \* session_enabled, or is_admin
  standing,    \* "member", "stranger", or "pinned" (a guest of another session)
  row,         \* the session: "absent", "active", "closed"
  launch,      \* its target: "ok", "unknown", "broken" (the shell cannot start)
  streak       \* connections dialed since the last sign of life (history)

pageVars  == <<page, ended, signedIn, retryToast>>
sockVars  == <<ws, attempts, timers, intended, status>>
wireVars  == <<stage, attached, inbox, peer>>
worldVars == <<valid, enabled, standing, row, launch>>
lineVars  == <<pageVars, sockVars, wireVars, worldVars, streak>>

TERMINAL == "4001"
TRANSIENT == "4503"
ABNORMAL == "1006"

Frame(kind, why) == [kind |-> kind, why |-> why]
ClosingWith(code) == Frame("Close", code)
CloseSent(s) == \E i \in 1..Len(inbox[s]) : inbox[s][i].kind = "Close"

LineInit ==
  /\ page = "loading"
  /\ signedIn = TRUE /\ ended = FALSE /\ retryToast = FALSE
  /\ ws = NoSocket /\ attempts = 0 /\ timers = 0 /\ intended = FALSE
  /\ status = "connecting"
  /\ stage = [s \in Sockets |-> "unused"]
  /\ attached = [s \in Sockets |-> FALSE]
  /\ inbox = [s \in Sockets |-> <<>>]
  /\ peer = [s \in Sockets |-> "none"]
  /\ valid \in BOOLEAN /\ enabled \in BOOLEAN
  /\ standing \in {"member", "stranger", "pinned"}
  /\ row \in {"absent", "active", "closed"}
  /\ launch \in {"ok", "unknown", "broken"}
  /\ streak = 0

----------------------------------------------------------------------------
(* TelepairSocket *)

\* doConnect: the socket in this.ws loses its handlers, a new one is dialed.
DoConnect(s) ==
  /\ s # ws /\ stage[s] \in {"unused", "closed"}
  /\ ws' = s
  /\ status' = "connecting"
  /\ stage' = [stage EXCEPT ![s] = "dialing"]
  /\ attached' = [r \in Sockets |-> r = s \/ (attached[r] /\ r # ws)]
  /\ inbox' = [inbox EXCEPT ![s] = <<>>]
  /\ peer' = [peer EXCEPT ![s] = "none"]

\* connect and reconnectNow start a new budget; only the latter clears the
\* timer that this.reconnectTimer names.
StartOver(s, left) ==
  /\ DoConnect(s)
  /\ timers' = left
  /\ attempts' = 0
  /\ intended' = FALSE
  /\ streak' = 1

ReconnectNow(s) == StartOver(s, IF timers = 0 THEN 0 ELSE timers - 1)

\* mutant: a bug onopen's comment warns of: it takes a connection for an acceptance.
OpensResets(s) ==
  /\ stage[s] = "dialing" /\ inbox[s] = <<>>
  /\ stage' = [stage EXCEPT ![s] = "open"]
  /\ peer' = [peer EXCEPT ![s] = "asked"]
  /\ attempts' = 0
  /\ UNCHANGED <<pageVars, ws, timers, intended, status, attached, inbox,
                 worldVars, streak>>

\* The browser opened s: its onopen sends SessionJoin.
Opens(s) ==
  /\ stage[s] = "dialing" /\ inbox[s] = <<>>
  /\ stage' = [stage EXCEPT ![s] = "open"]
  /\ peer' = [peer EXCEPT ![s] = IF attached[s] THEN "asked" ELSE "waiting"]
  /\ UNCHANGED <<pageVars, sockVars, attached, inbox, worldVars, streak>>

\* onmessage of a SessionState: the one sign that the gateway accepted us.
SignOfLife ==
  /\ attempts' = 0
  /\ status' = "connected"
  /\ streak' = 0

\* Session.tsx handleServerError, and the self-eviction of handleMessage.
PageReads(frame) ==
  /\ ended' = (ended \/ frame.why \in {"SESSION_CLOSED", "SESSION_NOT_FOUND"})
  /\ signedIn' = (signedIn /\ frame.why \notin
                    {"AUTH_FAILED", "AUTH_TIMEOUT", "token_rotated"})

Message(s) ==
  /\ stage[s] = "open" /\ inbox[s] # <<>> /\ Head(inbox[s]).kind # "Close"
  /\ inbox' = [inbox EXCEPT ![s] = Tail(@)]
  /\ IF attached[s] /\ Head(inbox[s]).kind = "SessionState"
       THEN SignOfLife /\ UNCHANGED <<ended, signedIn>>
       ELSE /\ IF attached[s] THEN PageReads(Head(inbox[s]))
                              ELSE UNCHANGED <<ended, signedIn>>
            /\ UNCHANGED <<attempts, status, streak>>
  /\ UNCHANGED <<page, retryToast, ws, timers, intended, stage, attached, peer,
                 worldVars>>

\* scheduleReconnect; at giveup handleStatus puts up the toast with Retry.
ScheduleReconnect ==
  \/ /\ attempts >= MaxAttempts
     /\ status' = "giveup"
     /\ retryToast' = TRUE
     /\ UNCHANGED <<attempts, timers>>
  \/ /\ attempts < MaxAttempts
     /\ attempts' = attempts + 1
     /\ timers' = timers + 1
     /\ status' = "connecting"
     /\ UNCHANGED retryToast

\* mutant: onclose looks at no code.
OnCloseRetriesAll(code) ==
  IF intended
    THEN status' = "disconnected" /\ UNCHANGED <<attempts, timers, retryToast>>
    ELSE ScheduleReconnect

\* mutant: onclose takes the close the page asked for as a cut.
OnCloseForgetsIntent(code) ==
  IF code = TERMINAL
    THEN status' = "error" /\ UNCHANGED <<attempts, timers, retryToast>>
    ELSE ScheduleReconnect

\* onclose.
OnClose(code) ==
  IF intended \/ code = TERMINAL
    THEN /\ status' = IF intended THEN "disconnected" ELSE "error"
         /\ UNCHANGED <<attempts, timers, retryToast>>
    ELSE ScheduleReconnect

\* The close event of s: a Close frame, a cut, or the end of our own close().
CloseEvent(s) ==
  /\ \/ stage[s] = "closing"
     \/ /\ stage[s] \in {"dialing", "open"}
        /\ inbox[s] # <<>> /\ Head(inbox[s]).kind = "Close"
  /\ stage' = [stage EXCEPT ![s] = "closed"]
  /\ inbox' = [inbox EXCEPT ![s] = <<>>]
  /\ IF attached[s]
       THEN OnClose(IF stage[s] = "closing" THEN ABNORMAL
                                            ELSE Head(inbox[s]).why)
       ELSE UNCHANGED <<attempts, timers, status, retryToast>>
  /\ UNCHANGED <<page, ended, signedIn, ws, intended, attached, peer, worldVars,
                 streak>>

\* The timeout of scheduleReconnect.
TimerFires(s) ==
  /\ timers > 0
  /\ timers' = timers - 1
  /\ DoConnect(s)
  /\ streak' = IF streak > MaxAttempts + 1 THEN streak ELSE streak + 1
  /\ UNCHANGED <<pageVars, attempts, intended, worldVars>>

----------------------------------------------------------------------------
(* The page *)

\* Terminal's ref callback, once (socketOpened): connect leaves the timer.
Mount(s) ==
  /\ page = "loading"
  /\ page' = "open"
  /\ StartOver(s, timers)
  /\ UNCHANGED <<ended, signedIn, retryToast, worldVars>>

\* The banner's Reconnect button; its own toast replaces the one with Retry.
PressReconnect(s) ==
  /\ page = "open" /\ status = "giveup" /\ ~ended
  /\ retryToast' = FALSE
  /\ ReconnectNow(s)
  /\ UNCHANGED <<page, ended, signedIn, worldVars>>

\* The toast's Retry: the action, then the toast is dismissed.
PressRetry(s) ==
  /\ retryToast
  /\ retryToast' = FALSE
  /\ ReconnectNow(s)
  /\ UNCHANGED <<page, ended, signedIn, worldVars>>

DismissToast ==
  /\ retryToast
  /\ retryToast' = FALSE
  /\ UNCHANGED <<page, ended, signedIn, sockVars, wireVars, worldVars, streak>>

\* onCleanup: the toast goes, then disconnect.
Leave ==
  /\ page # "left"
  /\ page' = "left"
  /\ retryToast' = FALSE
  /\ intended' = TRUE
  /\ timers' = IF timers = 0 THEN 0 ELSE timers - 1
  /\ ws' = NoSocket
  /\ stage' = [s \in Sockets |->
                 IF s = ws /\ stage[s] \in {"dialing", "open"} THEN "closing"
                                                               ELSE stage[s]]
  /\ peer' = [s \in Sockets |-> IF s = ws THEN "gone" ELSE peer[s]]
  /\ UNCHANGED <<ended, signedIn, attempts, status, attached, inbox, worldVars,
                 streak>>

----------------------------------------------------------------------------
(* The gateway and the network *)

\* The reads of the handshake one of which may fail.
Reads == {"token", "session", "participants"}
NoFault == "none"

\* mutant: the handshake looks the session up and not at its status.
VerdictForgetsClosed(fails) ==
  IF fails = "token" \/ ~valid                          THEN "AUTH_FAILED"
  ELSE IF standing # "member"                           THEN "NOT_PARTICIPANT"
  ELSE IF ~enabled                                      THEN "SESSION_DISABLED"
  ELSE IF row = "absent"                                THEN "SESSION_NOT_FOUND"
  ELSE "admitted"

\* What handle_socket decides before the launch, its checks in their order;
\* fails is the read that the storage fails, if one does.
Verdict(fails) ==
  IF fails = "token" \/ ~valid      THEN "AUTH_FAILED"
  ELSE IF standing = "pinned"       THEN "NOT_PARTICIPANT"
  ELSE IF ~enabled                  THEN "SESSION_DISABLED"
  ELSE IF fails = "session"         THEN "STORAGE_ERROR"
  ELSE IF row = "absent"            THEN "SESSION_NOT_FOUND"
  ELSE IF row = "closed"            THEN "SESSION_CLOSED"
  ELSE IF fails = "participants"    THEN "STORAGE_ERROR"
  ELSE IF standing = "stranger"     THEN "NOT_PARTICIPANT"
  ELSE "admitted"

\* close_code_for: terminal unless a code opts out.
CloseCodeFor(error) == IF error = "STORAGE_ERROR" THEN TRANSIENT ELSE TERMINAL

\* send_error: the Error frame, the Close frame, and the handler returns.
SendError(s, error) ==
  /\ inbox' = [inbox EXCEPT ![s] =
                 @ \o <<Frame("Error", error), ClosingWith(CloseCodeFor(error))>>]
  /\ peer' = [peer EXCEPT ![s] = "gone"]

\* The handshake from SessionJoin to the participant list.
HandshakeLooks(s, fails) ==
  /\ peer[s] = "asked" /\ ~CloseSent(s)
  /\ IF Verdict(fails) = "admitted"
       THEN peer' = [peer EXCEPT ![s] = "looked"] /\ UNCHANGED inbox
       ELSE SendError(s, Verdict(fails))
  /\ UNCHANGED <<pageVars, sockVars, stage, attached, worldVars, streak>>

\* Its rest: the target is resolved, the shell joined or launched, SessionState
\* sent.  The session's row is not looked at again.
HandshakeLaunches(s) ==
  /\ peer[s] = "looked" /\ launch = "ok"
  /\ peer' = [peer EXCEPT ![s] = "serving"]
  /\ inbox' = [inbox EXCEPT ![s] = Append(@, Frame("SessionState", "admitted"))]
  /\ UNCHANGED <<pageVars, sockVars, stage, attached, worldVars, streak>>

\* The storage fails to answer for the target, or there is no shell to launch:
\* that closes the session (cleanup_orphan_session), if the write succeeds, and
\* tells no other connection of it.
HandshakeFails(s) ==
  /\ peer[s] = "looked"
  /\ \/ SendError(s, "STORAGE_ERROR") /\ UNCHANGED row
     \/ /\ launch # "ok"
        /\ SendError(s, IF launch = "unknown" THEN "TARGET_NOT_FOUND" ELSE "PTY_ERROR")
        /\ row' \in {row, "closed"}
  /\ UNCHANGED <<pageVars, sockVars, stage, attached, valid, enabled, standing,
                 launch, streak>>

HandshakeStep(s) ==
  \/ \E fails \in Reads \cup {NoFault} : HandshakeLooks(s, fails)
  \/ HandshakeLaunches(s)
  \/ HandshakeFails(s)

\* No SessionJoin within 5 seconds of the upgrade; one under way is too late.
JoinTimesOut(s) ==
  /\ peer[s] \in {"waiting", "asked"} /\ ~CloseSent(s)
  /\ SendError(s, "AUTH_TIMEOUT")
  /\ UNCHANGED <<pageVars, sockVars, stage, attached, worldVars, streak>>

Serving(s) == peer[s] \in {"serving", "disabled", "rotated", "stopped"}

\* The handler of s ends after it sent these frames.
ServerCloses(s, frames) ==
  /\ Serving(s)
  /\ peer' = [peer EXCEPT ![s] = "gone"]
  /\ inbox' = [inbox EXCEPT ![s] = @ \o frames]
  /\ UNCHANGED <<pageVars, sockVars, stage, attached, worldVars, streak>>

\* A receiver lagged: the page is to come back for a fresh snapshot.
Lags(s) == ServerCloses(s, <<ClosingWith(TRANSIENT)>>)

\* Its shutdown channel speaks or is dropped: the main loop breaks, and the
\* socket is dropped without a close code.
Stopped(s) == peer[s] = "stopped" /\ ServerCloses(s, <<ClosingWith(ABNORMAL)>>)

\* The forwarder meets the eviction of its own user: PeerEvicted, then Close.
Evicted(s) ==
  \/ /\ peer[s] = "disabled"
     /\ ServerCloses(s, <<Frame("PeerEvicted", "account_disabled"),
                          ClosingWith(TERMINAL)>>)
  \/ /\ peer[s] = "rotated"
     /\ ServerCloses(s, <<Frame("PeerEvicted", "token_rotated"),
                          ClosingWith(TERMINAL)>>)

\* The connection is cut: the browser gets the first n frames under way.
Cut(s) ==
  /\ stage[s] \in {"dialing", "open"}
  /\ \E n \in 0..Len(inbox[s]) :
       /\ \A i \in 1..n : inbox[s][i].kind # "Close"
       /\ inbox' = [inbox EXCEPT ![s] =
                      Append(SubSeq(@, 1, n), ClosingWith(ABNORMAL))]
       /\ inbox'[s] # inbox[s]
  /\ peer' = [peer EXCEPT ![s] = "gone"]
  /\ UNCHANGED <<pageVars, sockVars, stage, attached, worldVars, streak>>

\* evict_user, or the end of the hub's entry (stop_session, the reaper, the end
\* of the shell's loop), whose channels go with it: every handler that serves the
\* entry is told.  A handler still in its handshake is not.
Notice(notice) ==
  peer' = [s \in Sockets |-> IF peer[s] = "serving" THEN notice ELSE peer[s]]

\* What others do: close the session's row, end its entry in the hub (before the
\* row, after it, or not at all: cleanup_orphan_session), disable or approve the
\* account, rotate its tokens, take its target away.
WorldChanges ==
  /\ \/ row = "active" /\ row' = "closed" /\ UNCHANGED <<valid, enabled, launch, peer>>
     \/ Notice("stopped") /\ UNCHANGED <<valid, enabled, row, launch>>
     \/ enabled /\ enabled' = FALSE /\ Notice("disabled")
        /\ UNCHANGED <<valid, row, launch>>
     \/ ~enabled /\ enabled' = TRUE /\ UNCHANGED <<valid, row, launch, peer>>
     \/ valid /\ valid' = FALSE /\ Notice("rotated")
        /\ UNCHANGED <<enabled, row, launch>>
     \/ launch # "unknown" /\ launch' = "unknown"
        /\ UNCHANGED <<valid, enabled, row, peer>>
  /\ UNCHANGED <<pageVars, sockVars, stage, attached, inbox, standing, streak>>

----------------------------------------------------------------------------
PageStep ==
  \/ \E s \in Sockets : Mount(s) \/ PressReconnect(s) \/ PressRetry(s)
  \/ DismissToast
  \/ Leave

BrowserStep(s) == Opens(s) \/ Message(s) \/ CloseEvent(s) \/ TimerFires(s)

GatewayStep(s) ==
  \/ HandshakeStep(s)
  \/ JoinTimesOut(s)
  \/ Lags(s)
  \/ Stopped(s)
  \/ Evicted(s)

LineNext ==
  \/ PageStep
  \/ \E s \in Sockets : BrowserStep(s) \/ GatewayStep(s) \/ Cut(s)
  \/ WorldChanges

LineSpec == LineInit /\ [][LineNext]_lineVars

\* The browser delivers its events and runs its timers, a handshake comes to
\* an end (the 5 seconds, or the storage's answer), and a handler that was told
\* of a stop or an eviction heeds it (ws.rs:567, ws.rs:836).  Nothing is assumed
\* of a handler that nobody told.
LineFairness ==
  /\ \A s \in Sockets :
       /\ WF_lineVars(Opens(s) \/ Message(s) \/ CloseEvent(s))
       /\ WF_lineVars(HandshakeStep(s) \/ JoinTimesOut(s))
       /\ WF_lineVars(Stopped(s) \/ Evicted(s))
  /\ WF_lineVars(\E s \in Sockets : TimerFires(s))

FairLineSpec == LineSpec /\ LineFairness

----------------------------------------------------------------------------
(* Types *)

Errors == {"AUTH_FAILED", "AUTH_TIMEOUT", "NOT_PARTICIPANT", "SESSION_DISABLED",
           "STORAGE_ERROR", "SESSION_NOT_FOUND", "SESSION_CLOSED",
           "TARGET_NOT_FOUND", "PTY_ERROR"}

Frames == [kind : {"Error"}, why : Errors]
          \cup [kind : {"SessionState"}, why : {"admitted"}]
          \cup [kind : {"PeerEvicted"}, why : {"account_disabled", "token_rotated"}]
          \cup [kind : {"Close"}, why : {TERMINAL, TRANSIENT, ABNORMAL}]

\* The types of the page's, the socket's and the gateway's state.
LineTypeOK ==
  /\ page \in {"loading", "open", "left"}
  /\ ended \in BOOLEAN /\ signedIn \in BOOLEAN /\ retryToast \in BOOLEAN
  /\ ws \in Sockets \cup {NoSocket}
  /\ attempts \in 0..MaxAttempts
  /\ timers \in Nat
  /\ intended \in BOOLEAN
  /\ status \in {"connecting", "connected", "disconnected", "error", "giveup"}
  /\ stage \in [Sockets -> {"unused", "dialing", "open", "closing", "closed"}]
  /\ attached \in [Sockets -> BOOLEAN]
  /\ inbox \in [Sockets -> Seq(Frames)]
  /\ peer \in [Sockets -> {"none", "waiting", "asked", "looked", "serving",
                           "disabled", "rotated", "stopped", "gone"}]
  /\ valid \in BOOLEAN /\ enabled \in BOOLEAN
  /\ standing \in {"member", "stranger", "pinned"}
  /\ row \in {"absent", "active", "closed"}
  /\ launch \in {"ok", "unknown", "broken"}
  /\ streak \in Nat

----------------------------------------------------------------------------
(* Properties *)

Up(s) == stage[s] \in {"dialing", "open"}

\* The page has one line at most: a connection, or one timer that will dial
\* the next, never two connections, two timers, or a timer behind a connection
\* (what doConnect's "ghost scheduleReconnect() that races the fresh attempt"
\* would make of it).
OneLine ==
  /\ \A s \in Sockets : Up(s) => s = ws /\ attached[s]
  /\ timers <= 1
  /\ timers = 1 => \A s \in Sockets : ~Up(s)

\* A page that was left dials no more: no timer, no connection, and no Retry
\* on screen that could bring its socket back (Session.tsx onCleanup).
LeftIsQuiet ==
  page = "left" => timers = 0 /\ ~retryToast /\ \A s \in Sockets : ~Up(s)

\* A gateway that accepts the connection and then refuses it does not turn the
\* retries into a storm: between two signs of life, or presses of the user, the
\* page dials once and MaxAttempts times more.
NoStorm == streak <= MaxAttempts + 1

\* What the page shows of its line is what the line does: connected over an
\* open connection, connecting while one is dialed or a timer will dial, error
\* and giveup when nothing goes on and nothing will.
StatusIsTrue ==
  page = "open" =>
    /\ status = "connected" => ws \in Sockets /\ stage[ws] = "open"
    /\ status = "connecting" => timers = 1 \/ \E s \in Sockets : Up(s)
    /\ status \in {"error", "giveup"} =>
         timers = 0 /\ \A s \in Sockets : ~Up(s)

\* Socket, timer, toast and status of a page tell one story, whether it is open
\* or left.
LineIsSound == OneLine /\ LeftIsQuiet /\ StatusIsTrue

\* The browser closes a connection the gateway refused for good.
Refused ==
  \E s \in Sockets : /\ Up(s) /\ stage'[s] = "closed"
                    /\ inbox[s] # <<>> /\ Head(inbox[s]) = ClosingWith(TERMINAL)

\* A refusal for good is final: it leaves no timer, and the page dials no more,
\* whatever toasts are about ("otherwise a revoked token would DoS the gateway
\* with a retry storm", protocol.ts).
RefusalIsFinal ==
  [][Refused \/ status = "error" =>
       status' = "error" /\ timers' = 0 /\ ws' \in {ws, NoSocket}]_lineVars

\* A page that is connecting comes to an end of it: connected, refused or given
\* up.  A gateway that never gets as far as SessionState cannot keep it trying.
Settles ==
  page = "open" /\ status = "connecting" ~> status # "connecting" \/ page = "left"

\* A handler that would serve the closed session on: nobody told it, or it is
\* past the look at the row.
Untold(s) == peer[s] \in {"looked", "serving"}

\* The end of a session reaches a page of it, unless one of its handlers was not
\* told: the page stops, refused or given up, though the gateway's stop carries
\* no close code and the page comes back for more.
EndIsFelt ==
  page = "open" /\ row = "closed" /\ (\A s \in Sockets : ~Untold(s))
    ~> page = "left" \/ status \in {"error", "giveup"}

\* Every attempt of a page and every session it shows comes to an end it sees.
PageSettles == Settles /\ EndIsFelt

----------------------------------------------------------------------------
(* Claims the code does not keep *)

\* protocol.rs on STORAGE_ERROR: "Transient storage failure during the WS
\* handshake. Clients should retry".  A failed read is never answered with a
\* refusal for good.
StorageIsRetried ==
  [][\A s \in Sockets, fails \in Reads :
       HandshakeLooks(s, fails) /\ Verdict(fails) # Verdict(NoFault) =>
         Verdict(fails) = "STORAGE_ERROR"]_lineVars

\* session_hub.rs:701-703: stop_session signals "all connected WS handlers".
\* A session that was closed does not go on at any page.
EndIsFeltByAll ==
  page = "open" /\ row = "closed"
    ~> page = "left" \/ status \in {"error", "giveup"}

\* Session.tsx on closing: "the server broadcasts a SESSION_CLOSED frame over
\* WS which triggers the existing endedReasonKey banner".  A connection the end
\* of the session cuts has brought that frame.
EndIsAnnounced ==
  [][\A s \in Sockets : Stopped(s) /\ row = "closed" =>
       \E i \in 1..Len(inbox'[s]) : inbox'[s][i] = Frame("Error", "SESSION_CLOSED")
     ]_lineVars

=============================================================================
