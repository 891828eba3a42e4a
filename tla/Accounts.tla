------------------------------ MODULE Accounts ------------------------------
(***************************************************************************)
(* One e-mail address: its pending registration, the account it becomes,    *)
(* logins and their lockout, password changes, and an administrator who     *)
(* enables and disables it, with the WebSockets of its user.  Each storage  *)
(* call is one statement or transaction and so one action.  Passwords are   *)
(* counted: pw is how often the account's password was changed, and a       *)
(* token is known by the password that was shown for it.                    *)
(***************************************************************************)
EXTENDS Naturals, FiniteSets

CONSTANTS
  Regs,      \* registrations, each with the code it generates (bounds them)
  Logins,    \* POST /api/auth/login handlers that may overlap
  Sockets,   \* WebSocket connections of the user
  Strikes,   \* failed logins, or wrong codes, that lock (5)
  MaxAsked,  \* bound on requests, those to enable and to attach apart
  MaxBoots   \* bound on crashes

ASSUME AccountsAssumption ==
  /\ "none" \notin Regs /\ "wrong" \notin Regs
  /\ IsFiniteSet(Logins)
  /\ Strikes \in Nat \ {0, 1}
  /\ MaxAsked \in Nat /\ MaxBoots \in Nat

VARIABLES
  row,      \* pending_registrations: the code of the row, or "none"
  tries,    \* otp_failure_count
  fresh,    \* the row was written within OTP_RATE_LIMIT_SECS
  lapsed,   \* its otp_expires_at has passed
  rpc,      \* registrations: "new", "free", "stored", "undo", "done"
  latest,   \* history: the code that was stored last, "none" before
  mailed,   \* history: codes whose mail was sent
  account,  \* "none" before the INSERT, "pending", "approved"
  enabled,  \* users.session_enabled
  admin,    \* users.is_admin
  pw,       \* users.password_hash
  token,    \* users.token_sha256: the pw that was shown for it
  fails,    \* users.login_failed_count
  lock,     \* users.login_locked_until: "none", "live", "stale" (passed)
  lpc,      \* logins: "idle", "clearing", "passed", "bad", "good", "cleared"
  lpw,      \* the pw a login was verified against
  cpc,      \* POST change-password: "idle", "verified", "stored"
  apc,      \* POST disable: "idle", "stored"
  sock,     \* sockets: "idle", "valid" (token validated), "attached"
  spw,      \* the pw of the token a socket showed
  guesses,  \* history: wrong passwords answered in this lockout window
  wiped,    \* history: a lazy clear erased what was counted since it looked
  lagging,  \* history: the pws of logins that minted after a change
  missed,   \* history: sockets an eviction or a CLI disable did not reach
  waved,    \* history: sockets whose gate found the account disabled
  asked,    \* requests so far
  boots     \* crashes so far

regVars   == <<row, tries, fresh, lapsed, rpc, latest, mailed>>
userVars  == <<account, enabled, admin, pw, token>>
loginVars == <<fails, lock, lpc, lpw, guesses, wiped, lagging>>
sockVars  == <<sock, spw, missed, waved>>
limitVars == <<asked, boots>>
vars == <<regVars, userVars, loginVars, cpc, apc, sockVars, limitVars>>

Asks == asked < MaxAsked /\ asked' = asked + 1 /\ UNCHANGED boots

Init ==
  /\ row = "none" /\ tries = 0 /\ fresh = FALSE /\ lapsed = FALSE
  /\ rpc = [r \in Regs |-> "new"]
  /\ latest = "none" /\ mailed = {}
  /\ account = "none" /\ enabled = FALSE /\ admin = FALSE
  /\ pw = 0 /\ token = 0
  /\ fails = 0 /\ lock = "none"
  /\ lpc = [l \in Logins |-> "idle"] /\ lpw = [l \in Logins |-> 0]
  /\ cpc = "idle" /\ apc = "idle"
  /\ sock = [w \in Sockets |-> "idle"] /\ spw = [w \in Sockets |-> 0]
  /\ guesses = 0 /\ wiped = FALSE /\ lagging = {}
  /\ missed = {} /\ waved = {}
  /\ asked = 0 /\ boots = 0

-----------------------------------------------------------------------------
(* Registration *)

\* Neither an account nor a row of the last minute; otherwise the request is
\* answered like one that worked.
RegisterLooks(r) ==
  /\ rpc[r] = "new"
  /\ Asks
  /\ rpc' = [rpc EXCEPT ![r] = IF account = "none" /\ ~(row # "none" /\ fresh)
                                 THEN "free" ELSE "done"]
  /\ UNCHANGED <<row, tries, fresh, lapsed, latest, mailed, userVars, loginVars,
                 cpc, apc, sockVars>>

\* upsert_pending_registration, which does not look again.
RegisterStores(r) ==
  /\ rpc[r] = "free"
  /\ rpc' = [rpc EXCEPT ![r] = "stored"]
  /\ row' = r /\ tries' = 0 /\ fresh' = TRUE /\ lapsed' = FALSE
  /\ latest' = r
  /\ UNCHANGED <<mailed, userVars, loginVars, cpc, apc, sockVars, limitVars>>

\* send_otp_email
RegisterMails(r) ==
  /\ rpc[r] = "stored"
  /\ \/ /\ rpc' = [rpc EXCEPT ![r] = "done"]
        /\ mailed' = mailed \cup {r}
     \/ /\ rpc' = [rpc EXCEPT ![r] = "undo"]
        /\ UNCHANGED mailed
  /\ UNCHANGED <<row, tries, fresh, lapsed, latest, userVars, loginVars, cpc,
                 apc, sockVars, limitVars>>

\* mutant: the row is deleted by its address alone
UndoesAny(r) ==
  /\ rpc[r] = "undo"
  /\ rpc' = [rpc EXCEPT ![r] = "done"]
  /\ row' = "none"
  /\ UNCHANGED <<tries, fresh, lapsed, latest, mailed, userVars, loginVars, cpc,
                 apc, sockVars, limitVars>>

\* delete_pending_registration: only the row that still has this code.
RegisterUndoes(r) ==
  /\ rpc[r] = "undo"
  /\ rpc' = [rpc EXCEPT ![r] = "done"]
  /\ row' = IF row = r THEN "none" ELSE row
  /\ UNCHANGED <<tries, fresh, lapsed, latest, mailed, userVars, loginVars, cpc,
                 apc, sockVars, limitVars>>

\* A minute passes, then a quarter of an hour.
CodeAges ==
  /\ row # "none" /\ ~lapsed
  /\ fresh' = FALSE
  /\ lapsed' = ~fresh
  /\ UNCHANGED <<row, tries, rpc, latest, mailed, userVars, loginVars, cpc, apc,
                 sockVars, limitVars>>

\* verify_pending_registration, one transaction: a code that is right consumes
\* the row and becomes an account, pending approval; with an account of that
\* address the INSERT fails and the row stays.  A wrong one is counted.
Admits(c) ==
  /\ row # "none" /\ ~lapsed /\ tries < Strikes
  /\ IF c = row
       THEN /\ account = "none"
            /\ account' = "pending" /\ row' = "none"
            /\ UNCHANGED tries
       ELSE tries' = tries + 1 /\ UNCHANGED <<account, row>>

\* verify_otp: whatever the transaction answers, it is one call.
Verify(c) ==
  /\ Asks
  /\ Admits(c)
  /\ UNCHANGED <<fresh, lapsed, rpc, latest, mailed, enabled, admin, pw, token,
                 loginVars, cpc, apc, sockVars>>

\* admin_create_password_user: the INSERT of an address that has no account.
CreatesAccount(on, adm) ==
  /\ account = "none"
  /\ account' = "approved" /\ enabled' = on /\ admin' = adm

\* `telepair admin users create`: approved, enabled unless --no-session, an
\* administrator with --admin.
CliCreates(on, adm) ==
  /\ CreatesAccount(on, adm)
  /\ UNCHANGED <<regVars, pw, token, loginVars, cpc, apc, sockVars, limitVars>>

-----------------------------------------------------------------------------
(* Login *)

\* mutant: the lockout is looked at after the password, by record_login_failure
ChecksNothing(l) ==
  /\ lpc[l] = "idle" /\ account # "none"
  /\ Asks
  /\ lpc' = [lpc EXCEPT ![l] = IF lock = "stale" THEN "clearing" ELSE "passed"]
  /\ UNCHANGED <<regVars, userVars, fails, lock, lpw, guesses, wiped, lagging,
                 cpc, apc, sockVars>>

\* The account is found; check_login_lockout reads the lock.
LoginChecks(l) ==
  /\ lpc[l] = "idle" /\ account # "none" /\ lock # "live"
  /\ Asks
  /\ lpc' = [lpc EXCEPT ![l] = IF lock = "stale" THEN "clearing" ELSE "passed"]
  /\ UNCHANGED <<regVars, userVars, fails, lock, lpw, guesses, wiped, lagging,
                 cpc, apc, sockVars>>

\* check_login_lockout saw a lock that had passed, and erases whatever is there.
LoginClearsStale(l) ==
  /\ lpc[l] = "clearing"
  /\ lpc' = [lpc EXCEPT ![l] = "passed"]
  /\ fails' = 0 /\ lock' = "none"
  /\ wiped' = (wiped \/ lock # "stale")
  /\ UNCHANGED <<regVars, userVars, lpw, guesses, lagging, cpc, apc, sockVars,
                 limitVars>>

\* The hash is read and the password verified against it.
LoginVerifies(l) ==
  /\ lpc[l] = "passed"
  /\ \E verdict \in {"good", "bad"} : lpc' = [lpc EXCEPT ![l] = verdict]
  /\ lpw' = [lpw EXCEPT ![l] = pw]
  /\ UNCHANGED <<regVars, userVars, fails, lock, guesses, wiped, lagging, cpc,
                 apc, sockVars, limitVars>>

\* record_login_failure, one UPDATE, and the answer.
LoginFails(l) ==
  /\ lpc[l] = "bad"
  /\ lpc' = [lpc EXCEPT ![l] = "idle"]
  /\ \/ lock = "live" /\ UNCHANGED <<fails, lock>>
     \/ lock = "stale" /\ fails' = 1 /\ lock' = "none"
     \/ /\ lock = "none" /\ fails' = fails + 1
        /\ lock' = IF fails + 1 >= Strikes THEN "live" ELSE "none"
  /\ guesses' = guesses + 1
  /\ UNCHANGED <<regVars, userVars, lpw, wiped, lagging, cpc, apc, sockVars,
                 limitVars>>

\* clear_login_failures
LoginClears(l) ==
  /\ lpc[l] = "good"
  /\ lpc' = [lpc EXCEPT ![l] = "cleared"]
  /\ fails' = 0 /\ lock' = "none" /\ guesses' = 0
  /\ UNCHANGED <<regVars, userVars, lpw, wiped, lagging, cpc, apc, sockVars,
                 limitVars>>

\* refresh_user_token: the token before it is dead, its sockets are left alone.
LoginMints(l) ==
  /\ lpc[l] = "cleared"
  /\ lpc' = [lpc EXCEPT ![l] = "idle"]
  /\ token' = lpw[l]
  /\ lagging' = IF lpw[l] = pw THEN lagging ELSE lagging \cup {lpw[l]}
  /\ UNCHANGED <<regVars, account, enabled, admin, pw, fails, lock, lpw, guesses, wiped,
                 cpc, apc, sockVars, limitVars>>

\* LOGIN_LOCKOUT_MINUTES pass.
LockElapses ==
  /\ lock = "live"
  /\ lock' = "stale" /\ guesses' = 0
  /\ UNCHANGED <<regVars, userVars, fails, lpc, lpw, wiped, lagging, cpc, apc,
                 sockVars, limitVars>>

-----------------------------------------------------------------------------
(* SessionHub::evict_user cuts the registered connections of the user; one that *)
(* is between the validation of its token and its registration is not there.   *)

\* mutant: the sockets are told, and their records kept
EvictsNobody ==
  /\ missed' = missed \cup {w \in Sockets : sock[w] = "valid"}
  /\ UNCHANGED <<sock, spw, waved>>

Evict ==
  /\ sock' = [w \in Sockets |-> IF sock[w] = "attached" THEN "idle" ELSE sock[w]]
  /\ missed' = {w \in Sockets : sock[w] = "valid"}
  /\ UNCHANGED <<spw, waved>>

(* Changing the password, with a valid token and the current password *)

ChangeVerifies ==
  /\ cpc = "idle" /\ account # "none"
  /\ Asks
  /\ cpc' = "verified"
  /\ UNCHANGED <<regVars, userVars, loginVars, apc, sockVars>>

\* change_password_and_rotate_token: both in one transaction.
ChangeStores ==
  /\ cpc = "verified"
  /\ cpc' = "stored"
  /\ pw' = pw + 1 /\ token' = pw + 1
  /\ UNCHANGED <<regVars, account, enabled, admin, loginVars, apc, sockVars,
                 limitVars>>

ChangeEvicts ==
  /\ cpc = "stored"
  /\ cpc' = "idle"
  /\ Evict
  /\ UNCHANGED <<regVars, userVars, loginVars, apc, limitVars>>

-----------------------------------------------------------------------------
(* Administration *)

\* POST enable, or the CLI: approves as well.
Enables ==
  /\ account # "none" /\ ~enabled
  /\ account' = "approved" /\ enabled' = TRUE
  /\ UNCHANGED <<regVars, admin, pw, token, loginVars, cpc, apc, sockVars,
                 limitVars>>

DisableStores ==
  /\ apc = "idle" /\ account # "none"
  /\ Asks
  /\ apc' = "stored"
  /\ enabled' = FALSE
  /\ UNCHANGED <<regVars, account, admin, pw, token, loginVars, cpc, sockVars>>

DisableEvicts ==
  /\ apc = "stored"
  /\ apc' = "idle"
  /\ Evict
  /\ UNCHANGED <<regVars, userVars, loginVars, cpc, limitVars>>

\* `telepair admin users disable`: another process, which knows no sockets.
CliDisables ==
  /\ enabled
  /\ Asks
  /\ enabled' = FALSE
  /\ missed' = {w \in Sockets : sock[w] # "idle"}
  /\ UNCHANGED <<regVars, account, admin, pw, token, loginVars, cpc, apc, sock,
                 spw, waved>>

-----------------------------------------------------------------------------
(* Sockets *)

\* The token is validated, with what the row says of the account then.
Validates(w) ==
  /\ sock[w] = "idle" /\ account # "none"
  /\ sock' = [sock EXCEPT ![w] = "valid"]
  /\ spw' = [spw EXCEPT ![w] = token]
  /\ waved' = IF enabled THEN waved \ {w} ELSE waved \cup {w}
  /\ UNCHANGED <<missed, regVars, userVars, loginVars, cpc, apc, limitVars>>

\* mutant: the gate looks at the token only
HandshakeUngated(w) == Validates(w)

\* SessionJoin with the current token: one read of the user, whose
\* session_enabled and is_admin are those the gate looks at.
Handshake(w) == Validates(w) /\ (enabled \/ admin)

\* The session is loaded, its shell attached, the replay sent; then
\* SessionHub::add_participant.
Attach(w) ==
  /\ sock[w] = "valid"
  /\ sock' = [sock EXCEPT ![w] = "attached"]
  /\ UNCHANGED <<spw, missed, waved, regVars, userVars, loginVars, cpc, apc, limitVars>>

SocketEnds(w) ==
  /\ sock[w] # "idle"
  /\ sock' = [sock EXCEPT ![w] = "idle"]
  /\ missed' = missed \ {w} /\ waved' = waved \ {w}
  /\ UNCHANGED <<spw, regVars, userVars, loginVars, cpc, apc, limitVars>>

\* A crash loses the requests and the sockets; the boot sweeps a row of more than
\* a day.
CrashAndBoot ==
  /\ boots < MaxBoots
  /\ boots' = boots + 1
  /\ \/ UNCHANGED row
     \/ lapsed /\ row' = "none"
  /\ rpc' = [r \in Regs |-> IF rpc[r] = "new" THEN "new" ELSE "done"]
  /\ lpc' = [l \in Logins |-> "idle"]
  /\ cpc' = "idle" /\ apc' = "idle"
  /\ sock' = [w \in Sockets |-> "idle"] /\ missed' = {} /\ waved' = {}
  /\ UNCHANGED <<tries, fresh, lapsed, latest, mailed, userVars, fails, lock, lpw,
                 guesses, wiped, lagging, spw, asked>>

-----------------------------------------------------------------------------
RegisterStep(r) ==
  RegisterLooks(r) \/ RegisterStores(r) \/ RegisterMails(r) \/ RegisterUndoes(r)

LoginStep(l) ==
  \/ LoginChecks(l) \/ LoginClearsStale(l) \/ LoginVerifies(l)
  \/ LoginFails(l) \/ LoginClears(l) \/ LoginMints(l)

Next ==
  \/ \E r \in Regs : RegisterStep(r)
  \/ CodeAges
  \/ \E c \in Regs \cup {"wrong"} : Verify(c)
  \/ \E on, adm \in BOOLEAN : CliCreates(on, adm)
  \/ \E l \in Logins : LoginStep(l)
  \/ LockElapses
  \/ ChangeVerifies \/ ChangeStores \/ ChangeEvicts
  \/ Enables \/ DisableStores \/ DisableEvicts \/ CliDisables
  \/ \E w \in Sockets : Handshake(w) \/ Attach(w) \/ SocketEnds(w)
  \/ CrashAndBoot

Spec == Init /\ [][Next]_vars

-----------------------------------------------------------------------------
(* Safety *)

TypeOK ==
  /\ row \in Regs \cup {"none"} /\ tries \in 0..Strikes
  /\ fresh \in BOOLEAN /\ lapsed \in BOOLEAN
  /\ rpc \in [Regs -> {"new", "free", "stored", "undo", "done"}]
  /\ latest \in Regs \cup {"none"} /\ mailed \subseteq Regs
  /\ account \in {"none", "pending", "approved"}
  /\ enabled \in BOOLEAN /\ admin \in BOOLEAN
  /\ pw \in Nat /\ token \in Nat
  /\ fails \in Nat /\ lock \in {"none", "live", "stale"}
  /\ lpc \in [Logins -> {"idle", "clearing", "passed", "bad", "good", "cleared"}]
  /\ lpw \in [Logins -> Nat]
  /\ cpc \in {"idle", "verified", "stored"} /\ apc \in {"idle", "stored"}
  /\ sock \in [Sockets -> {"idle", "valid", "attached"}]
  /\ spw \in [Sockets -> Nat]
  /\ guesses \in Nat /\ wiped \in BOOLEAN
  /\ lagging \subseteq Nat /\ missed \subseteq Sockets /\ waved \subseteq Sockets
  /\ asked \in Nat /\ boots \in Nat

\* auth_service.rs:188-192: the rollback of a registration whose mail failed does
\* not touch the row of a newer one.  A code that was mailed and that nothing
\* replaced can still be used: it is in the row until it lapses or becomes the
\* account.
MailedCodeKept ==
  latest \in mailed => row = latest \/ account # "none" \/ lapsed

\* auth_service.rs:248-270: the lockout bounds guessing.  Up to the end
\* of a lockout no more wrong passwords are answered than the strikes and one for every
\* other login that passed the check before the last strike was counted.  The
\* exception: a login that saw an elapsed lock erases what was counted since.
ThrottleHolds ==
  wiped \/ guesses <= Strikes + Cardinality(Logins) - 1

\* sqlite.rs:196-198, auth_service.rs:517-520: no token outlives the password it
\* was issued for.  The exception: a login that verified the old password before
\* the change and mints its token after it.
TokenFollowsPassword == token = pw \/ token \in lagging

\* http.rs:421-431: once a password change is answered, no connection that was
\* opened with an older token is attached, but for one that was between its
\* handshake and its registration when the change evicted.
SocketsFollowPassword ==
  cpc # "stored" =>
    \A w \in Sockets : sock[w] = "attached" =>
      spw[w] = pw \/ spw[w] \in lagging \/ w \in missed

\* A changed password ends what the old one opened: its token, which rotates
\* with it, and the sockets of that token, which are evicted afterwards.
AccessFollowsPassword == TokenFollowsPassword /\ SocketsFollowPassword

\* http.rs:1874-1881: disabling is a kill switch.  Once it is answered the
\* account has no attached connection, but for one that was in its handshake
\* meanwhile, and for those of an account that the CLI disabled.  An
\* administrator's account is cut off like any other, and only it comes back
\* while it is disabled: the gate waves it through (ws.rs:254-257).
DisabledIsDetached ==
  account # "none" /\ ~enabled /\ apc = "idle" =>
    \A w \in Sockets : sock[w] = "attached" =>
      w \in missed \/ (admin /\ w \in waved)

-----------------------------------------------------------------------------
(* Statements of the repository that the code does not keep *)

\* session_hub.rs:660-663: the gate of the attach blocks a reconnection, so that
\* evict_user need only handle connections that are attached already.  (An
\* administrator's reconnection is not blocked in the first place.)
GateBlocksAttach ==
  [][\A w \in Sockets : sock[w] = "valid" /\ sock'[w] = "attached" =>
       enabled \/ admin]_vars

\* sqlite.rs:2004-2007: the lazy clear of an elapsed lock races consistently with
\* failures that are recorded meanwhile.
LazyClearSparesLive ==
  [][\A l \in Logins : lpc[l] = "clearing" /\ lpc'[l] = "passed" =>
       lock # "live"]_vars
=============================================================================
