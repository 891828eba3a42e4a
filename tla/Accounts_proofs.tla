--------------------------- MODULE Accounts_proofs ---------------------------
(***************************************************************************)
(* Proofs about Accounts, for any number of registrations, logins, sockets, *)
(* requests and crashes, and any number of strikes, and about Upgrade.       *)
(***************************************************************************)
EXTENDS Accounts, Upgrade, FiniteSetTheorems, TLAPS

LEMMA TypeInit == Init => TypeOK
<1> SUFFICES ASSUME Init PROVE TypeOK
  OBVIOUS
<1>1. /\ fresh \in BOOLEAN /\ lapsed \in BOOLEAN /\ enabled \in BOOLEAN
      /\ admin \in BOOLEAN /\ wiped \in BOOLEAN
  BY Zenon DEF Init
<1> QED BY <1>1, AccountsAssumption DEF Init, TypeOK

\* Types, one action at a time.
LEMMA TypeNext == TypeOK /\ [Next]_vars => TypeOK'
<1> SUFFICES ASSUME TypeOK, [Next]_vars PROVE TypeOK'
  OBVIOUS
<1> USE AccountsAssumption
    DEF TypeOK, regVars, userVars, loginVars, sockVars, limitVars, Asks
<1>1. ASSUME NEW r \in Regs, RegisterStep(r) PROVE TypeOK'
  <2>1. CASE RegisterLooks(r) BY <2>1 DEF RegisterLooks
  <2>2. CASE RegisterStores(r)
    <3> USE <2>2 DEF RegisterStores
    <3>1. fresh' \in BOOLEAN /\ lapsed' \in BOOLEAN BY Zenon
    <3> QED BY <3>1
  <2>3. CASE RegisterMails(r) BY <2>3 DEF RegisterMails
  <2>4. CASE RegisterUndoes(r) BY <2>4 DEF RegisterUndoes
  <2> QED BY <1>1, <2>1, <2>2, <2>3, <2>4 DEF RegisterStep
<1>2. CASE CodeAges
  <2> USE <1>2 DEF CodeAges
  <2>1. fresh' \in BOOLEAN /\ lapsed' \in BOOLEAN BY Zenon
  <2> QED BY <2>1
<1>3. ASSUME NEW c \in Regs \cup {"wrong"}, Verify(c) PROVE TypeOK'
  <2>1. CASE c = row BY <1>3, <2>1 DEF Verify, Admits
  <2>2. CASE c # row BY <1>3, <2>2 DEF Verify, Admits
  <2> QED BY <2>1, <2>2
<1>4. ASSUME NEW on \in BOOLEAN, NEW adm \in BOOLEAN, CliCreates(on, adm)
      PROVE  TypeOK'
  BY <1>4 DEF CliCreates, CreatesAccount
<1>5. ASSUME NEW l \in Logins, LoginStep(l) PROVE TypeOK'
  <2>1. CASE LoginChecks(l) BY <2>1 DEF LoginChecks
  <2>2. CASE LoginClearsStale(l)
    <3> USE <2>2 DEF LoginClearsStale
    <3>1. wiped' \in BOOLEAN BY Zenon
    <3> QED BY <3>1
  <2>3. CASE LoginVerifies(l) BY <2>3 DEF LoginVerifies
  <2>4. CASE LoginFails(l) BY <2>4 DEF LoginFails
  <2>5. CASE LoginClears(l) BY <2>5 DEF LoginClears
  <2>6. CASE LoginMints(l)
    <3>1. lpw[l] \in Nat OBVIOUS
    <3>2. CASE lpw[l] = pw BY <2>6, <3>1, <3>2 DEF LoginMints
    <3>3. CASE lpw[l] # pw
      <4>1. lagging' = lagging \cup {lpw[l]} /\ token' = lpw[l]
        BY <2>6, <3>3 DEF LoginMints
      <4>2. lagging' \subseteq Nat BY <3>1, <4>1
      <4> QED BY <2>6, <3>1, <4>1, <4>2 DEF LoginMints
    <3> QED BY <3>2, <3>3
  <2> QED BY <1>5, <2>1, <2>2, <2>3, <2>4, <2>5, <2>6 DEF LoginStep
<1>6. CASE LockElapses BY <1>6 DEF LockElapses
<1>7. CASE ChangeVerifies BY <1>7 DEF ChangeVerifies
<1>8. CASE ChangeStores BY <1>8 DEF ChangeStores
<1>9. CASE ChangeEvicts BY <1>9 DEF ChangeEvicts, Evict
<1>10. CASE Enables BY <1>10 DEF Enables
<1>11. CASE DisableStores
  <2>1. enabled' \in BOOLEAN BY <1>11, Zenon DEF DisableStores
  <2> QED BY <1>11, <2>1 DEF DisableStores
<1>12. CASE DisableEvicts BY <1>12 DEF DisableEvicts, Evict
<1>13. CASE CliDisables
  <2>1. enabled' \in BOOLEAN BY <1>13, Zenon DEF CliDisables
  <2> QED BY <1>13, <2>1 DEF CliDisables
<1>14. ASSUME NEW w \in Sockets, Handshake(w) \/ Attach(w) \/ SocketEnds(w)
       PROVE  TypeOK'
  <2>1. CASE Handshake(w) BY <2>1 DEF Handshake, Validates
  <2>2. CASE Attach(w) BY <2>2 DEF Attach
  <2>3. CASE SocketEnds(w) BY <2>3 DEF SocketEnds
  <2> QED BY <1>14, <2>1, <2>2, <2>3
<1>15. CASE CrashAndBoot BY <1>15 DEF CrashAndBoot
<1>16. CASE UNCHANGED vars BY <1>16 DEF vars
<1> QED
  BY <1>1, <1>2, <1>3, <1>4, <1>5, <1>6, <1>7, <1>8, <1>9, <1>10, <1>11, <1>12,
     <1>13, <1>14, <1>15, <1>16 DEF Next

\* Every variable of the account, its requests and its sockets keeps its type;
\* a pending row never counts more than the strikes.
THEOREM AccountsTypeCorrect == Spec => []TypeOK
<1> QED BY TypeInit, TypeNext, PTL DEF Spec

-----------------------------------------------------------------------------
(* The mailed code *)

\* The row is the registration stored last; the address's account keeps it out
\* of reach of what follows; a code is mailed only by its own request, which
\* is then over.
MailInv ==
  /\ row # "none" => row = latest
  /\ \A r \in Regs :
       /\ r \in mailed => rpc[r] = "done"
       /\ rpc[r] \in {"new", "free"} => latest # r
       /\ rpc[r] = "stored" /\ latest = r => row = r \/ account # "none" \/ lapsed
  /\ MailedCodeKept

\* A registration overwrites the row with a code not mailed yet, and takes back
\* its own code only; the sweep at boot takes a code that has lapsed.
LEMMA MailNext == TypeOK /\ MailInv /\ [Next]_vars => MailInv'
<1> SUFFICES ASSUME TypeOK, MailInv, [Next]_vars PROVE MailInv'
  OBVIOUS
<1> USE AccountsAssumption DEF TypeOK, MailInv, MailedCodeKept
<1>1. ASSUME UNCHANGED regVars, account' = account \/ account' # "none"
      PROVE  MailInv'
  BY <1>1 DEF regVars
<1>2. ASSUME NEW r \in Regs, RegisterStep(r) PROVE MailInv'
  <2> USE DEF userVars
  <2>1. CASE RegisterLooks(r) BY <2>1 DEF RegisterLooks
  <2>2. CASE RegisterStores(r) BY <2>2 DEF RegisterStores
  <2>3. CASE RegisterMails(r) BY <2>3 DEF RegisterMails
  <2>4. CASE RegisterUndoes(r) BY <2>4 DEF RegisterUndoes
  <2> QED BY <1>2, <2>1, <2>2, <2>3, <2>4 DEF RegisterStep
<1>3. CASE CodeAges BY <1>3 DEF CodeAges, userVars
<1>4. ASSUME NEW c \in Regs \cup {"wrong"}, Verify(c) PROVE MailInv'
  BY <1>4 DEF Verify, Admits
<1>5. ASSUME NEW on \in BOOLEAN, NEW adm \in BOOLEAN, CliCreates(on, adm)
      PROVE  MailInv'
  BY <1>1, <1>5 DEF CliCreates, CreatesAccount
<1>6. ASSUME NEW l \in Logins, LoginStep(l) PROVE MailInv'
  BY <1>1, <1>6 DEF LoginStep, LoginChecks, LoginClearsStale, LoginVerifies,
     LoginFails, LoginClears, LoginMints, userVars
<1>7. CASE LockElapses \/ ChangeVerifies \/ ChangeStores \/ ChangeEvicts
  BY <1>1, <1>7 DEF LockElapses, ChangeVerifies, ChangeStores, ChangeEvicts,
     userVars
<1>8. CASE Enables \/ DisableStores \/ DisableEvicts \/ CliDisables
  BY <1>1, <1>8 DEF Enables, DisableStores, DisableEvicts, CliDisables, userVars
<1>9. ASSUME NEW w \in Sockets, Handshake(w) \/ Attach(w) \/ SocketEnds(w)
      PROVE  MailInv'
  BY <1>1, <1>9 DEF Handshake, Validates, Attach, SocketEnds, userVars
<1>10. CASE CrashAndBoot BY <1>10 DEF CrashAndBoot, userVars
<1>11. CASE UNCHANGED vars BY <1>1, <1>11 DEF vars, userVars
<1> QED
  BY <1>2, <1>3, <1>4, <1>5, <1>6, <1>7, <1>8, <1>9, <1>10, <1>11 DEF Next

\* The rollback of a registration whose mail failed never takes a code that was
\* mailed for a newer one (register, delete_pending_registration).
THEOREM RollbackSparesNewer == Spec => []MailedCodeKept
<1>1. Init => MailInv
  BY AccountsAssumption DEF Init, MailInv, MailedCodeKept
<1>2. MailInv => MailedCodeKept BY DEF MailInv
<1> QED BY <1>1, <1>2, TypeInit, TypeNext, MailNext, PTL DEF Spec

-----------------------------------------------------------------------------
(* Tokens and sockets *)

\* What the three properties become when sockets still in their handshake are
\* counted as well; an account's absence means that nothing is connected.
SocketInv ==
  /\ TokenFollowsPassword
  /\ account = "none" => enabled = FALSE /\ \A w \in Sockets : sock[w] = "idle"
  /\ cpc # "stored" => \A w \in Sockets : sock[w] # "idle" =>
       spw[w] = pw \/ spw[w] \in lagging \/ w \in missed
  /\ enabled = FALSE /\ apc = "idle" => \A w \in Sockets : sock[w] # "idle" =>
       w \in missed \/ (admin = TRUE /\ w \in waved)

\* After an eviction the only sockets are those it missed.
LEMMA EvictLeaves ==
  ASSUME TypeOK, Evict
  PROVE  \A w \in Sockets : sock'[w] # "idle" => w \in missed'
BY DEF TypeOK, Evict

LEMMA SocketNext == TypeOK /\ SocketInv /\ [Next]_vars => SocketInv'
<1> SUFFICES ASSUME TypeOK, SocketInv, [Next]_vars PROVE SocketInv'
  OBVIOUS
<1> USE AccountsAssumption DEF TypeOK, SocketInv, TokenFollowsPassword, userVars, sockVars
<1>1. ASSUME UNCHANGED <<userVars, cpc, apc, sockVars, lagging>> PROVE SocketInv'
  BY <1>1
<1>2. ASSUME NEW r \in Regs, RegisterStep(r) PROVE SocketInv'
  BY <1>1, <1>2 DEF RegisterStep, RegisterLooks, RegisterStores, RegisterMails,
     RegisterUndoes, loginVars
<1>3. CASE CodeAges BY <1>1, <1>3 DEF CodeAges, loginVars
<1>4. ASSUME NEW c \in Regs \cup {"wrong"}, Verify(c) PROVE SocketInv'
  BY <1>4 DEF Verify, Admits, loginVars
<1>5. ASSUME NEW on \in BOOLEAN, NEW adm \in BOOLEAN, CliCreates(on, adm)
      PROVE  SocketInv'
  BY <1>5 DEF CliCreates, CreatesAccount, loginVars
<1>6. ASSUME NEW l \in Logins, LoginStep(l) PROVE SocketInv'
  <2>1. CASE LoginMints(l)
    <3>1. token' = pw' \/ token' \in lagging' BY <2>1 DEF LoginMints
    <3>2. lagging \subseteq lagging' BY <2>1 DEF LoginMints
    <3>3. UNCHANGED <<account, enabled, admin, pw, cpc, apc, sockVars>>
      BY <2>1 DEF LoginMints
    <3> QED BY <3>1, <3>2, <3>3
  <2>2. CASE ~LoginMints(l)
    BY <1>1, <1>6, <2>2 DEF LoginStep, LoginChecks, LoginClearsStale,
       LoginVerifies, LoginFails, LoginClears
  <2> QED BY <2>1, <2>2
<1>7. CASE LockElapses \/ ChangeVerifies
  BY <1>7 DEF LockElapses, ChangeVerifies, loginVars
<1>8. CASE ChangeStores BY <1>8 DEF ChangeStores, loginVars
<1>9. CASE ChangeEvicts
  BY <1>9, EvictLeaves DEF ChangeEvicts, Evict, loginVars
<1>10. CASE Enables BY <1>10 DEF Enables, loginVars
<1>11. CASE DisableStores BY <1>11 DEF DisableStores, loginVars
<1>12. CASE DisableEvicts
  BY <1>12, EvictLeaves DEF DisableEvicts, Evict, loginVars
<1>13. CASE CliDisables BY <1>13 DEF CliDisables, loginVars
<1>14. ASSUME NEW w \in Sockets, Handshake(w) \/ Attach(w) \/ SocketEnds(w)
       PROVE  SocketInv'
  <2>1. CASE Handshake(w) BY <2>1 DEF Handshake, Validates, loginVars
  <2>2. CASE Attach(w) BY <2>2 DEF Attach, loginVars
  <2>3. CASE SocketEnds(w) BY <2>3 DEF SocketEnds, loginVars
  <2> QED BY <1>14, <2>1, <2>2, <2>3
<1>15. CASE CrashAndBoot BY <1>15 DEF CrashAndBoot
<1>16. CASE UNCHANGED vars BY <1>1, <1>16 DEF vars, loginVars
<1> QED
  BY <1>2, <1>3, <1>4, <1>5, <1>6, <1>7, <1>8, <1>9, <1>10, <1>11, <1>12, <1>13,
     <1>14, <1>15, <1>16 DEF Next

LEMMA SocketInvHolds == Spec => [](TypeOK /\ SocketInv)
<1>1. Init => SocketInv
  BY AccountsAssumption DEF Init, SocketInv, TokenFollowsPassword
<1> QED BY <1>1, TypeInit, TypeNext, SocketNext, PTL DEF Spec

\* No token outlives the password it was issued for, but one that a login mints
\* late (change_password_and_rotate_token, login).
THEOREM TokensRotate == Spec => []TokenFollowsPassword
<1>1. SocketInv => TokenFollowsPassword BY DEF SocketInv
<1> QED BY <1>1, SocketInvHolds, PTL

\* A password change that was answered leaves no connection of an older token,
\* but one that was in its handshake (change_password, evict_user).
THEOREM RotationEvicts == Spec => []SocketsFollowPassword
<1>1. SocketInv => SocketsFollowPassword
  BY DEF SocketInv, SocketsFollowPassword
<1> QED BY <1>1, SocketInvHolds, PTL

\* What an old password opened ends with it (auth_service.rs:486-520).
THEOREM AccessRotates == Spec => []AccessFollowsPassword
  BY TokensRotate, RotationEvicts, PTL DEF AccessFollowsPassword

\* A disable that was answered leaves no connection, but one that was in its
\* handshake, or everything if it came from the CLI (set_user_enabled); what is
\* opened afterwards is an administrator's (ws.rs:254-257).
THEOREM DisableEvictsAll == Spec => []DisabledIsDetached
<1>1. TypeOK /\ SocketInv => DisabledIsDetached
  BY DEF TypeOK, SocketInv, DisabledIsDetached
<1> QED BY <1>1, SocketInvHolds, PTL

-----------------------------------------------------------------------------
(* The lockout *)

\* Logins that may still be counted: they passed the check, or will.
Flying == {l \in Logins : lpc[l] \in {"clearing", "passed", "bad"}}

\* Without a lock every answer was counted; after an elapsed one nothing is; under
\* a live lock each further answer is one of a login that flies.
ThrottleInv ==
  \/ wiped = TRUE
  \/ /\ lock = "none" => guesses <= fails /\ fails < Strikes
     /\ lock = "stale" => guesses = 0
     /\ lock = "live" =>
          guesses + Cardinality(Flying) <= Strikes + Cardinality(Logins) - 1

LEMMA FlyingFinite ==
  /\ IsFiniteSet(Flying) /\ Cardinality(Flying) \in Nat
  /\ Cardinality(Logins) \in Nat
<1>1. Flying \subseteq Logins BY DEF Flying
<1>2. IsFiniteSet(Flying) BY <1>1, AccountsAssumption, FS_Subset
<1> QED BY <1>2, AccountsAssumption, FS_CardinalityType

\* A login that lands leaves one less in flight.
LEMMA Landing ==
  ASSUME TypeOK, NEW l \in Flying, NEW p \in {"idle", "good"},
         lpc' = [lpc EXCEPT ![l] = p]
  PROVE  /\ Cardinality(Flying') = Cardinality(Flying) - 1
         /\ Cardinality(Flying') <= Cardinality(Logins) - 1
         /\ Cardinality(Flying') \in Nat
<1>1. Flying' = Flying \ {l} BY DEF Flying, TypeOK
<1>2. Cardinality(Flying \ {l}) = Cardinality(Flying) - 1
  BY FlyingFinite, FS_RemoveElement
<1>3. Cardinality(Flying) <= Cardinality(Logins)
  <2>1. Flying \subseteq Logins BY DEF Flying
  <2> QED BY <2>1, AccountsAssumption, FS_Subset
<1>4. Cardinality(Flying \ {l}) \in Nat
  BY FlyingFinite, FS_RemoveElement, FS_CardinalityType
<1> QED BY <1>1, <1>2, <1>3, <1>4, FlyingFinite

LEMMA ThrottleNext == TypeOK /\ ThrottleInv /\ [Next]_vars => ThrottleInv'
<1> SUFFICES ASSUME TypeOK, ThrottleInv, [Next]_vars PROVE ThrottleInv'
  OBVIOUS
<1>s. Strikes \in Nat /\ Strikes >= 2 BY AccountsAssumption
<1>t. guesses \in Nat /\ fails \in Nat /\ lock \in {"none", "live", "stale"}
  BY DEF TypeOK
<1>1. ASSUME UNCHANGED <<fails, lock, lpc, guesses, wiped>> PROVE ThrottleInv'
  BY <1>1 DEF ThrottleInv, Flying
<1>2. ASSUME NEW l \in Logins, LoginStep(l) PROVE ThrottleInv'
  <2>1. CASE LoginChecks(l)
    BY <2>1 DEF LoginChecks, ThrottleInv
  <2>2. CASE LoginClearsStale(l)
    <3>1. CASE lock = "stale"
      <4>1. wiped = TRUE => wiped' = TRUE BY <2>2, Zenon DEF LoginClearsStale
      <4>2. fails' = 0 /\ lock' = "none" /\ guesses' = guesses
        BY <2>2 DEF LoginClearsStale
      <4> QED BY <1>s, <3>1, <4>1, <4>2 DEF ThrottleInv
    <3>2. CASE lock # "stale"
      BY <2>2, <3>2 DEF LoginClearsStale, ThrottleInv
    <3> QED BY <3>1, <3>2
  <2>3. CASE LoginVerifies(l)
    <3>1. PICK v \in {"good", "bad"} : lpc' = [lpc EXCEPT ![l] = v]
      BY <2>3 DEF LoginVerifies
    <3>2. l \in Flying BY <2>3 DEF LoginVerifies, Flying
    <3>3. UNCHANGED <<fails, lock, guesses, wiped>> BY <2>3 DEF LoginVerifies
    <3>4. CASE v = "bad"
      <4>1. Flying' = Flying BY <2>3, <3>1, <3>4 DEF LoginVerifies, Flying, TypeOK
      <4> QED BY <3>3, <4>1 DEF ThrottleInv
    <3>5. CASE v = "good"
      <4>1. lpc' = [lpc EXCEPT ![l] = "good"] BY <3>1, <3>5
      <4>2. Cardinality(Flying') = Cardinality(Flying) - 1
        BY <3>2, <4>1, Landing
      <4> QED BY <1>s, <1>t, <3>3, <4>2, FlyingFinite DEF ThrottleInv
    <3> QED BY <3>4, <3>5
  <2>4. CASE LoginFails(l)
    <3>1. l \in Flying BY <2>4 DEF LoginFails, Flying
    <3>2. lpc' = [lpc EXCEPT ![l] = "idle"] /\ guesses' = guesses + 1 /\ wiped' = wiped
      BY <2>4 DEF LoginFails
    <3>3. /\ Cardinality(Flying') = Cardinality(Flying) - 1
          /\ Cardinality(Flying') <= Cardinality(Logins) - 1
          /\ Cardinality(Flying') \in Nat
      BY <3>1, <3>2, Landing
    <3>4. CASE lock = "live"
      BY <1>s, <1>t, <2>4, <3>2, <3>3, <3>4, FlyingFinite DEF LoginFails, ThrottleInv
    <3>5. CASE lock = "stale"
      BY <1>s, <1>t, <2>4, <3>2, <3>5 DEF LoginFails, ThrottleInv
    <3>6. CASE lock = "none"
      BY <1>s, <1>t, <2>4, <3>2, <3>3, <3>6, FlyingFinite DEF LoginFails, ThrottleInv
    <3> QED BY <1>t, <3>4, <3>5, <3>6
  <2>5. CASE LoginClears(l)
    BY <1>s, <2>5 DEF LoginClears, ThrottleInv
  <2>6. CASE LoginMints(l)
    <3>1. Flying' = Flying BY <2>6 DEF LoginMints, Flying, TypeOK
    <3> QED BY <2>6, <3>1 DEF LoginMints, ThrottleInv
  <2> QED BY <1>2, <2>1, <2>2, <2>3, <2>4, <2>5, <2>6 DEF LoginStep
<1>3. CASE LockElapses BY <1>3 DEF LockElapses, ThrottleInv
<1>4. CASE CrashAndBoot
  <2>1. Flying' = {} BY <1>4 DEF CrashAndBoot, Flying
  <2>2. Cardinality(Flying') = 0 BY <2>1, FS_EmptySet
  <2> QED BY <1>4, <1>s, <1>t, <2>2, FlyingFinite DEF CrashAndBoot, ThrottleInv
<1>5. ASSUME NEW r \in Regs, RegisterStep(r) PROVE ThrottleInv'
  BY <1>1, <1>5 DEF RegisterStep, RegisterLooks, RegisterStores, RegisterMails,
     RegisterUndoes, loginVars
<1>6. ASSUME NEW c \in Regs \cup {"wrong"}, Verify(c) PROVE ThrottleInv'
  BY <1>1, <1>6 DEF Verify, Admits, loginVars
<1>7. ASSUME NEW on \in BOOLEAN, NEW adm \in BOOLEAN, CliCreates(on, adm)
      PROVE  ThrottleInv'
  BY <1>1, <1>7 DEF CliCreates, CreatesAccount, loginVars
<1>8. CASE \/ CodeAges \/ ChangeVerifies \/ ChangeStores \/ ChangeEvicts
           \/ Enables \/ DisableStores \/ DisableEvicts \/ CliDisables
  BY <1>1, <1>8 DEF CodeAges, ChangeVerifies, ChangeStores, ChangeEvicts, Enables,
     DisableStores, DisableEvicts, CliDisables, loginVars
<1>9. ASSUME NEW w \in Sockets, Handshake(w) \/ Attach(w) \/ SocketEnds(w)
      PROVE  ThrottleInv'
  BY <1>1, <1>9 DEF Handshake, Validates, Attach, SocketEnds, loginVars
<1>10. CASE UNCHANGED vars BY <1>1, <1>10 DEF vars, loginVars
<1> QED
  BY <1>2, <1>3, <1>4, <1>5, <1>6, <1>7, <1>8, <1>9, <1>10 DEF Next

\* Until a lockout ends, at most Strikes + (logins - 1) wrong passwords are
\* answered, unless a lagging clear erased some of the strikes (login,
\* check_login_lockout, record_login_failure).
THEOREM LockoutBoundsGuessing == Spec => []ThrottleHolds
<1>1. Init => ThrottleInv
  BY AccountsAssumption DEF Init, ThrottleInv
<1>2. TypeOK /\ ThrottleInv => ThrottleHolds
  <2> SUFFICES ASSUME TypeOK, ThrottleInv, wiped = FALSE
               PROVE  guesses <= Strikes + Cardinality(Logins) - 1
    BY DEF TypeOK, ThrottleHolds
  <2>1. Strikes \in Nat /\ Strikes >= 2 BY AccountsAssumption
  <2>2. guesses \in Nat /\ fails \in Nat /\ lock \in {"none", "live", "stale"}
    BY DEF TypeOK
  <2> QED BY <2>1, <2>2, FlyingFinite DEF ThrottleInv
<1> QED BY <1>1, <1>2, TypeInit, TypeNext, ThrottleNext, PTL DEF Spec
-----------------------------------------------------------------------------
(***************************************************************************)
(* Upgrade, for any accounts, any commands beside the gateway, any releases *)
(* the database may come from and any number of kills.                      *)
(***************************************************************************)


\* What a statement leaves behind for good.
InEffect(s) ==
  /\ s.do = "table"  => s.of \in tables
  /\ s.do = "index"  => s.of \in indexes
  /\ s.do = "column" => s.of \in cols
  /\ s.do = "sweep"  => casts <= 1
  /\ s.do = "delete" => \A u \in DOMAIN rows : ~Unverified(rows[u])
  /\ s.do = "drop"   => "email_verifications" \notin tables

\* A process has in effect every statement it has passed.
PassedInEffect ==
  \A p \in Procs : \A i \in 1 .. Len(Recipe) : i < line[p] => InEffect(Recipe[i])

\* Only ensure_column has phases, and the backfill is that of approval_state.
PhasesFit ==
  \A p \in Procs :
    /\ phase[p] # "probe" => At(p, "column")
    /\ phase[p] = "backfill" =>
         Statement(p) = Column("approval_state") /\ "approval_state" \in cols

Mailed == {"active", "waiting", "disabled"}
Mailless == {"admin", "guest"}

\* What the row of an account has, by what the account was.
RowsFitKinds ==
  \A u \in Users :
    /\ was[u] = "none" => u \notin DOMAIN rows
    /\ was[u] \in Mailed => u \in DOMAIN rows /\ {"email", "verified"} \subseteq rows[u]
    /\ was[u] \in Mailless => u \in DOMAIN rows /\ "email" \notin rows[u]

\* An account with access has it in every column there is.
AccessFits ==
  \A u \in Users \ judged :
    was[u] \in {"admin", "guest", "active"} =>
      /\ "session_enabled" \in cols => "session_enabled" \in rows[u]
      /\ "approval_state" \in cols => "approved" \in rows[u]

\* A waiting account is marked as one, and is approved only while the
\* backfill is due, or lost.
QueueFits ==
  \A u \in Users \ judged :
    was[u] = "waiting" =>
      /\ LooksWaiting(rows[u])
      /\ "session_enabled" \in cols
      /\ "approved" \in rows[u] => torn \/ \E p \in Procs : phase[p] = "backfill"

\* Decisions are made on a whole schema; once one is made with no backfill
\* due, none will ever be.
DecidedWhenComplete ==
  /\ judged # {} =>
       /\ cols = Columns
       /\ judged \subseteq DOMAIN rows
       /\ \A u \in DOMAIN rows : ~Unverified(rows[u])
  /\ judged # rushed => \A p \in Procs : phase[p] # "backfill"

\* The shape of the recipe.
LEMMA RecipeShape ==
  /\ Len(Recipe) = 24
  /\ \A i \in 1 .. 24 :
       \/ i \in 1 .. 9 /\ Recipe[i].do = "table" /\ Recipe[i].of \in Tables
       \/ i = 10 /\ Recipe[i].do = "sweep"
       \/ i = 11 /\ Recipe[i] = Index("one_active")
       \/ i \in 12 .. 21 /\ \E c \in Columns : Recipe[i] = Column(c)
       \/ i = 22 /\ Recipe[i] = Index("email_unique")
       \/ i = 23 /\ Recipe[i].do = "delete"
       \/ i = 24 /\ Recipe[i] = Drop
  BY DEF Recipe, Tables, Columns, Index, Column, Table, Sweep, Delete, Drop

\* It names all of the schema.
LEMMA RecipeComplete ==
  /\ \A t \in Tables : \E i \in 1 .. 9 : Recipe[i] = Table(t)
  /\ \A c \in Columns : \E i \in 12 .. 21 : Recipe[i] = Column(c)
<1>1. \A t \in Tables : \E i \in 1 .. 9 : Recipe[i] = Table(t)
  <2> SUFFICES ASSUME NEW t \in Tables PROVE \E i \in 1 .. 9 : Recipe[i] = Table(t)
    OBVIOUS
  <2> QED BY DEF Tables, Recipe
<1>2. \A c \in Columns : \E i \in 12 .. 21 : Recipe[i] = Column(c)
  <2> SUFFICES ASSUME NEW c \in Columns PROVE \E i \in 12 .. 21 : Recipe[i] = Column(c)
    OBVIOUS
  <2> QED BY DEF Columns, Recipe
<1> QED BY <1>1, <1>2

\* session_enabled comes before approval_state.
LEMMA EnabledBeforeApproved ==
  \A i \in 1 .. 24 : Recipe[i] = Column("approval_state") =>
    i = 21 /\ Recipe[20] = Column("session_enabled")
  BY DEF Recipe, Column, Table, Index, Sweep, Delete, Drop

\* A migrating process stands at a statement; a serving one has passed all.
LEMMA Standing ==
  ASSUME UpTypeOK, NEW p \in Procs
  PROVE  /\ line[p] \in 0 .. 25
         /\ Served = 25
         /\ Migrating(p) <=> line[p] \in 1 .. 24
         /\ Open(p) <=> line[p] = 25
  BY RecipeShape DEF UpTypeOK, Served, Migrating, Open

LEMMA UpTypeInit == UpInit => UpTypeOK
<1> SUFFICES ASSUME UpInit PROVE UpTypeOK
  OBVIOUS
<1>1. PICK v \in Releases : \E olds \in SUBSET Users :
      /\ tables = OldTables(v)
      /\ cols = OldColumns(v)
      /\ indexes = OldIndexes(v)
      /\ was \in [Users -> OldKinds(v) \cup {"none"}]
      /\ \A u \in Users : (was[u] # "none") <=> (u \in olds)
      /\ rows = [u \in olds |-> OldRow(v, was[u])]
      /\ casts \in (IF v < 6 THEN {0} ELSE IF v = 6 THEN 0 .. 2 ELSE 0 .. 1)
  BY DEF UpInit
<1>2. v \in 0 .. 7
  BY UpgradeAssumption
<1>3. \A kind : OldRow(v, kind) \subseteq
         {"email", "scoped", "admin", "verified", "session_enabled", "approved"}
  BY DEF OldRow
<1>4. tables \subseteq Tables \cup {"email_verifications"}
  BY <1>1 DEF OldTables, Tables
<1>5. cols \subseteq Columns /\ indexes \subseteq Indexes
  BY <1>1 DEF OldColumns, OldIndexes, Columns, Indexes
<1>6. was \in [Users -> {"none", "admin", "guest", "unverified", "active", "waiting", "disabled"}]
  BY <1>1 DEF OldKinds
<1>7. /\ DOMAIN rows \subseteq Users
      /\ \A u \in DOMAIN rows : rows[u] \subseteq
           {"email", "scoped", "admin", "verified", "session_enabled", "approved"}
  BY <1>1, <1>3
<1>8. casts \in 0 .. 2
  BY <1>1, <1>2
<1>9. /\ line \in [Procs -> 0 .. Served]
      /\ phase \in [Procs -> {"probe", "alter", "backfill"}]
      /\ judged = {} /\ stops = 0 /\ commands = 0
  BY RecipeShape DEF UpInit, Served
<1>10. torn \in BOOLEAN /\ rushed \subseteq judged
  BY DEF UpInit
<1> QED BY <1>4, <1>5, <1>6, <1>7, <1>8, <1>9, <1>10, UpgradeAssumption DEF UpTypeOK

\* Types, one action at a time.
LEMMA UpTypeNext == UpTypeOK /\ [UpNext]_upVars => UpTypeOK'
<1> SUFFICES ASSUME UpTypeOK, [UpNext]_upVars PROVE UpTypeOK'
  OBVIOUS
<1> DEFINE Facts == {"email", "scoped", "admin", "verified", "session_enabled", "approved"}
<1>0. Served = 25 /\ Len(Recipe) = 24
  BY RecipeShape DEF Served
<1>a. ASSUME NEW p \in Procs, Migrating(p), Advance(p)
      PROVE  /\ line' \in [Procs -> 0 .. Served]
             /\ phase' \in [Procs -> {"probe", "alter", "backfill"}]
  BY <1>0, <1>a DEF Migrating, Advance, UpTypeOK
<1>d. ASSUME NEW p \in Procs, Dies(p)
      PROVE  /\ line' \in [Procs -> 0 .. Served]
             /\ phase' \in [Procs -> {"probe", "alter", "backfill"}]
  BY <1>0, <1>d DEF Dies, UpTypeOK
<1>1. ASSUME NEW p \in Procs, Boot(p) PROVE UpTypeOK'
  BY <1>0, <1>1 DEF Boot, UpTypeOK
<1>2. ASSUME NEW p \in Procs, Migrate(p) PROVE UpTypeOK'
  <2>1. CASE CreateTable(p)
    <3>1. Statement(p).of \in Tables /\ Migrating(p)
      BY <2>1, RecipeShape DEF CreateTable, At, Migrating, Statement, Column, Index, Drop
    <3>2. BornWith(Statement(p).of) \subseteq Columns
      BY DEF BornWith, Columns
    <3> QED BY <2>1, <3>1, <3>2, <1>a DEF CreateTable, UpTypeOK
  <2>2. CASE SweepRecordings(p)
    BY <2>2, <1>a DEF SweepRecordings, At, UpTypeOK
  <2>3. CASE CreateIndex(p)
    <3>1. Statement(p).of \in Indexes /\ Migrating(p)
      BY <2>3, RecipeShape DEF CreateIndex, At, Migrating, Statement, Column, Index, Drop, Indexes
    <3>2. indexes' \subseteq Indexes /\ (Advance(p) \/ Dies(p))
      BY <2>3, <3>1 DEF CreateIndex, UpTypeOK
    <3> QED BY <2>3, <3>1, <3>2, <1>a, <1>d DEF CreateIndex, UpTypeOK
  <2>4. CASE Probe(p)
    <3>1. Migrating(p)
      BY <2>4 DEF Probe, At
    <3>2. CASE Advance(p)
      BY <2>4, <3>1, <3>2, <1>a DEF Probe, UpTypeOK
    <3>3. CASE phase' = [phase EXCEPT ![p] = "alter"] /\ UNCHANGED line
      BY <2>4, <3>3 DEF Probe, UpTypeOK
    <3> QED BY <2>4, <3>2, <3>3 DEF Probe
  <2>5. CASE Alter(p)
    <3> DEFINE c == Statement(p).of
    <3>1. c \in Columns /\ Migrating(p)
      BY <2>5, RecipeShape DEF Alter, At, Migrating, Statement, Column, Index, Drop
    <3>2. DefaultOf(c) \subseteq Facts
      BY DEF DefaultOf
    <3>3. CASE c \in cols
      BY <2>5, <3>3, <1>d DEF Alter, UpTypeOK
    <3>4. CASE c \notin cols
      <4>1. cols' \subseteq Columns
        BY <2>5, <3>1, <3>4 DEF Alter, UpTypeOK
      <4>2. /\ DOMAIN rows' = DOMAIN rows
            /\ \A u \in DOMAIN rows : rows'[u] = rows[u] \cup DefaultOf(c)
        BY <2>5, <3>4 DEF Alter
      <4>3. /\ line' \in [Procs -> 0 .. Served]
            /\ phase' \in [Procs -> {"probe", "alter", "backfill"}]
        <5>1. CASE c = "approval_state"
          BY <2>5, <3>4, <5>1 DEF Alter, UpTypeOK
        <5>2. CASE c # "approval_state"
          BY <2>5, <3>1, <3>4, <5>2, <1>a DEF Alter, UpTypeOK
        <5> QED BY <5>1, <5>2
      <4>4. UNCHANGED <<tables, indexes, casts, was, judged, stops, torn, rushed, commands>>
        BY <2>5 DEF Alter
      <4> HIDE DEF c
      <4> QED BY <3>2, <4>1, <4>2, <4>3, <4>4 DEF UpTypeOK
    <3> QED BY <3>3, <3>4
  <2>6. CASE BackfillApprovals(p)
    BY <2>6, <1>a DEF BackfillApprovals, At, UpTypeOK
  <2>7. CASE DropUnverified(p)
    BY <2>7, <1>a DEF DropUnverified, At, UpTypeOK
  <2>8. CASE DropTable(p)
    BY <2>8, <1>a DEF DropTable, At, UpTypeOK
  <2> QED BY <1>2, <2>1, <2>2, <2>3, <2>4, <2>5, <2>6, <2>7, <2>8 DEF Migrate
<1>3. ASSUME NEW p \in Procs, Stop(p) PROVE UpTypeOK'
  BY <1>3, <1>d, UpgradeAssumption DEF Stop, UpTypeOK
<1>4. ASSUME NEW p \in Procs, Exit(p) PROVE UpTypeOK'
  BY <1>4, <1>d DEF Exit, UpTypeOK
<1>5. ASSUME NEW u \in Users, Register(u) PROVE UpTypeOK'
  BY <1>5 DEF Register, UpTypeOK
<1>6. ASSUME NEW u \in Users, NEW e \in BOOLEAN, AdminCreate(u, e) PROVE UpTypeOK'
  BY <1>6 DEF AdminCreate, Judge, UpTypeOK
<1>7. ASSUME NEW p \in Procs, NEW u \in Users, NEW e \in BOOLEAN, SetEnabled(p, u, e)
      PROVE  UpTypeOK'
  BY <1>7 DEF SetEnabled, Judge, UpTypeOK
<1>8. CASE Record
  BY <1>8 DEF Record, UpTypeOK
<1>9. CASE UNCHANGED upVars
  BY <1>9 DEF upVars, UpTypeOK
<1> QED BY <1>1, <1>2, <1>3, <1>4, <1>5, <1>6, <1>7, <1>8, <1>9 DEF UpNext

-----------------------------------------------------------------------------
(* What a statement leaves stays.                                           *)

LEMMA PassedInit == UpInit => PassedInEffect
  BY RecipeShape DEF UpInit, PassedInEffect

LEMMA PhasesInit == UpInit => PhasesFit
  BY DEF UpInit, PhasesFit

\* No step takes a statement's effect away: tables, columns and indexes only
\* grow, but for the one table the recipe drops and does not make.
LEMMA EffectsStay ==
  ASSUME UpTypeOK, UpNext, NEW i \in 1 .. Len(Recipe), InEffect(Recipe[i])
  PROVE  InEffect(Recipe[i])'
<1> DEFINE Shrink == /\ tables \ {"email_verifications"} \subseteq tables'
                     /\ "email_verifications" \in tables' => "email_verifications" \in tables
                     /\ indexes \subseteq indexes'
                     /\ cols \subseteq cols'
                     /\ casts <= 1 => casts' <= 1
                     /\ (\A u \in DOMAIN rows : ~Unverified(rows[u]))
                          => \A u \in DOMAIN rows' : ~Unverified(rows'[u])
<1>0. Recipe[i].do = "table" => Recipe[i].of # "email_verifications"
  BY RecipeShape DEF Tables, Column, Index, Drop
<1>1. Shrink
  <2>1. ASSUME NEW p \in Procs, Migrate(p) PROVE Shrink
    <3>1. CASE CreateTable(p)
      <4>1. Statement(p).of # "email_verifications"
        BY <3>1, RecipeShape DEF CreateTable, At, Migrating, Statement, Tables, Column, Index, Drop
      <4> QED BY <3>1, <4>1 DEF CreateTable
    <3>2. CASE SweepRecordings(p) BY <3>2 DEF SweepRecordings
    <3>3. CASE CreateIndex(p) BY <3>3 DEF CreateIndex
    <3>4. CASE Probe(p) BY <3>4 DEF Probe
    <3>5. CASE Alter(p)
      <4> DEFINE c == Statement(p).of
      <4>1. DefaultOf(c) \cap {"email"} = {}
        BY DEF DefaultOf
      <4>2. CASE c \in cols BY <3>5, <4>2 DEF Alter
      <4>3. CASE c \notin cols
        <5>1. DOMAIN rows' = DOMAIN rows /\ \A u \in DOMAIN rows : rows'[u] = rows[u] \cup DefaultOf(c)
          BY <3>5, <4>3 DEF Alter
        <5>2. cols \subseteq cols' /\ UNCHANGED <<tables, indexes, casts>>
          BY <3>5, <4>3 DEF Alter
        <5> HIDE DEF c
        <5> QED BY <4>1, <5>1, <5>2 DEF Unverified
      <4> QED BY <4>2, <4>3
    <3>6. CASE BackfillApprovals(p)
      BY <3>6 DEF BackfillApprovals, Unverified
    <3>7. CASE DropUnverified(p) BY <3>7 DEF DropUnverified
    <3>8. CASE DropTable(p)
      <4>1. Statement(p).of = "email_verifications"
        BY <3>8, RecipeShape DEF DropTable, At, Migrating, Statement, Column, Index, Drop
      <4> QED BY <3>8, <4>1 DEF DropTable
    <3> QED BY <2>1, <3>1, <3>2, <3>3, <3>4, <3>5, <3>6, <3>7, <3>8 DEF Migrate
  <2>2. ASSUME NEW p \in Procs, Boot(p) \/ Stop(p) \/ Exit(p) PROVE Shrink
    BY <2>2 DEF Boot, Stop, Exit
  <2>3. ASSUME NEW u \in Users, Register(u) PROVE Shrink
    BY <2>3 DEF Register, Unverified
  <2>4. ASSUME NEW u \in Users, NEW e \in BOOLEAN, AdminCreate(u, e) PROVE Shrink
    BY <2>4 DEF AdminCreate, Judge, Unverified
  <2>5. ASSUME NEW p \in Procs, NEW u \in Users, NEW e \in BOOLEAN, SetEnabled(p, u, e)
        PROVE  Shrink
    BY <2>5 DEF SetEnabled, Judge, Unverified
  <2>6. CASE Record
    BY <2>6 DEF Record, UpTypeOK
  <2> QED BY <2>1, <2>2, <2>3, <2>4, <2>5, <2>6 DEF UpNext
<1> QED
  <2>1. Recipe[i].do = "drop" \/ Recipe[i].do # "drop" OBVIOUS
  <2> QED BY <1>0, <1>1 DEF InEffect

\* The process that executes a statement has it in effect when it goes on.
LEMMA EffectsCome ==
  ASSUME UpTypeOK, PhasesFit, NEW p \in Procs, Migrate(p),
         NEW i \in 1 .. Len(Recipe), line[p] = i, line'[p] # 0, line'[p] # i
  PROVE  InEffect(Recipe[i])'
<1> DEFINE s == Recipe[i]
<1>0. Statement(p) = s
  BY DEF Statement
<1>e. s.do = "drop" => s.of = "email_verifications"
  BY RecipeShape DEF Column, Index, Drop
<1>d. ~Dies(p)
  BY DEF Dies, UpTypeOK
<1> HIDE DEF s
<1> SUFFICES InEffect(s)'
  BY DEF s
<1>1. CASE CreateTable(p)
  BY <1>0, <1>1 DEF CreateTable, At, InEffect
<1>2. CASE SweepRecordings(p)
  BY <1>0, <1>2 DEF SweepRecordings, At, InEffect
<1>3. CASE CreateIndex(p)
  BY <1>0, <1>3, <1>d DEF CreateIndex, At, InEffect
<1>4. CASE Probe(p)
  BY <1>0, <1>4 DEF Probe, At, InEffect
<1>5. CASE Alter(p)
  BY <1>0, <1>5, <1>d DEF Alter, At, InEffect
<1>6. CASE BackfillApprovals(p)
  BY <1>0, <1>6 DEF BackfillApprovals, At, InEffect, PhasesFit, Column
<1>7. CASE DropUnverified(p)
  BY <1>0, <1>7 DEF DropUnverified, At, InEffect
<1>8. CASE DropTable(p)
  BY <1>0, <1>8, <1>e DEF DropTable, At, InEffect
<1> QED BY <1>1, <1>2, <1>3, <1>4, <1>5, <1>6, <1>7, <1>8 DEF Migrate

LEMMA PassedNext ==
  UpTypeOK /\ PhasesFit /\ PassedInEffect /\ [UpNext]_upVars => PassedInEffect'
<1> SUFFICES ASSUME UpTypeOK, PhasesFit, PassedInEffect, [UpNext]_upVars,
                    NEW p \in Procs, NEW i \in 1 .. Len(Recipe), i < line'[p]
             PROVE  InEffect(Recipe[i])'
  BY DEF PassedInEffect
<1>0. line[p] \in 0 .. 25 /\ Len(Recipe) = 24 /\ Served = 25
  BY RecipeShape DEF UpTypeOK, Served
<1>1. CASE UNCHANGED upVars
  <2>1. InEffect(Recipe[i])
    BY <1>1 DEF upVars, PassedInEffect
  <2> QED BY <1>1, <2>1 DEF upVars, InEffect, Unverified
<1>2. CASE UpNext
  <2>1. ASSUME i < line[p] PROVE InEffect(Recipe[i])'
    BY <1>2, <2>1, EffectsStay DEF PassedInEffect
  <2>2. ASSUME NEW q \in Procs, Migrate(q) PROVE i < line[p] \/ InEffect(Recipe[i])'
    <3>1. CASE q # p
      BY <1>0, <2>2, <3>1 DEF Migrate, CreateTable, SweepRecordings, CreateIndex, Probe,
         Alter, BackfillApprovals, DropUnverified, DropTable, Advance, Dies, UpTypeOK
    <3>2. CASE q = p
      <4>1. line'[p] \in {0, line[p], line[p] + 1}
        BY <1>0, <2>2, <3>2 DEF Migrate, CreateTable, SweepRecordings, CreateIndex, Probe,
           Alter, BackfillApprovals, DropUnverified, DropTable, Advance, Dies, UpTypeOK
      <4>2. CASE i < line[p]
        BY <4>2
      <4>3. CASE line[p] = i
        <5>1. line'[p] # 0 /\ line'[p] # i
          BY <1>0, <4>1, <4>3
        <5> QED BY <2>2, <3>2, <4>3, <5>1, EffectsCome
      <4> QED BY <1>0, <4>1, <4>2, <4>3
    <3> QED BY <3>1, <3>2
  <2>3. ASSUME NEW q \in Procs, Boot(q) \/ Stop(q) \/ Exit(q) PROVE i < line[p]
    BY <1>0, <2>3 DEF Boot, Stop, Exit, Dies, UpTypeOK
  <2>4. ASSUME NEW u \in Users, NEW q \in Procs, NEW e \in BOOLEAN,
               Register(u) \/ AdminCreate(u, e) \/ SetEnabled(q, u, e) \/ Record
        PROVE  i < line[p]
    BY <2>4 DEF Register, AdminCreate, SetEnabled, Judge, Record
  <2>5. CASE Record
    BY <2>1, <2>5 DEF Record
  <2> QED BY <1>2, <2>1, <2>2, <2>3, <2>4, <2>5 DEF UpNext
<1> QED BY <1>1, <1>2

LEMMA PhasesNext == UpTypeOK /\ PhasesFit /\ [UpNext]_upVars => PhasesFit'
<1> SUFFICES ASSUME UpTypeOK, PhasesFit, [UpNext]_upVars, NEW p \in Procs
             PROVE  /\ phase'[p] # "probe" => At(p, "column")'
                    /\ phase'[p] = "backfill" =>
                         /\ Recipe[line'[p]] = Column("approval_state")
                         /\ "approval_state" \in cols'
  BY DEF PhasesFit, Statement
<1> USE DEF UpTypeOK
<1> DEFINE Goal == /\ phase'[p] # "probe" => At(p, "column")'
                   /\ phase'[p] = "backfill" =>
                        /\ Recipe[line'[p]] = Column("approval_state")
                        /\ "approval_state" \in cols'
<1>s. ASSUME line'[p] = line[p], phase'[p] = phase[p], cols \subseteq cols' PROVE Goal
  BY <1>s DEF PhasesFit, At, Migrating, Statement
<1>a. ASSUME phase'[p] = "probe" PROVE Goal
  BY <1>a
<1>g. cols \subseteq cols'
  BY DEF UpNext, Migrate, CreateTable, SweepRecordings, CreateIndex, Probe, Alter,
     BackfillApprovals, DropUnverified, DropTable, Boot, Stop, Exit, Register,
     AdminCreate, SetEnabled, Judge, Record, upVars
<1> HIDE DEF Goal
<1>1. ASSUME NEW q \in Procs, Migrate(q) PROVE Goal
  <2>1. CASE q # p
    <3>1. line'[p] = line[p] /\ phase'[p] = phase[p]
      BY <1>1, <2>1 DEF Migrate, CreateTable, SweepRecordings, CreateIndex, Probe,
         Alter, BackfillApprovals, DropUnverified, DropTable, Advance, Dies
    <3> QED BY <3>1, <1>s, <1>g
  <2>2. CASE q = p
    <3>1. CASE Advance(p) \/ Dies(p)
      BY <3>1, <1>a DEF Advance, Dies
    <3>2. CASE Probe(p) /\ phase' = [phase EXCEPT ![p] = "alter"] /\ UNCHANGED line
      BY <3>2 DEF Probe, At, Migrating, Statement, Goal
    <3>3. CASE /\ Alter(p) /\ Statement(p).of = "approval_state" /\ UNCHANGED line
               /\ cols' = cols \cup {Statement(p).of}
      <4>1. Statement(p) = Column("approval_state")
        BY <3>3, RecipeShape DEF Alter, At, Migrating, Statement, Column, Index, Drop
      <4> QED BY <3>3, <4>1 DEF Alter, At, Migrating, Statement, Goal
    <3> QED BY <1>1, <2>2, <3>1, <3>2, <3>3 DEF Migrate, CreateTable, SweepRecordings,
          CreateIndex, Probe, Alter, BackfillApprovals, DropUnverified, DropTable
  <2> QED BY <2>1, <2>2
<1>2. ASSUME NEW q \in Procs, Boot(q) PROVE Goal
  <2>1. CASE q # p
    BY <1>2, <2>1, <1>s, <1>g DEF Boot
  <2>2. CASE q = p
    BY <1>2, <2>2, <1>a DEF Boot, PhasesFit, At, Migrating
  <2> QED BY <2>1, <2>2
<1>3. ASSUME NEW q \in Procs, Stop(q) \/ Exit(q) PROVE Goal
  <2>1. CASE q # p
    BY <1>3, <2>1, <1>s, <1>g DEF Stop, Exit, Dies
  <2>2. CASE q = p
    BY <1>3, <2>2, <1>a DEF Stop, Exit, Dies
  <2> QED BY <2>1, <2>2
<1>4. ASSUME NEW u \in Users, NEW q \in Procs, NEW e \in BOOLEAN,
             Register(u) \/ AdminCreate(u, e) \/ SetEnabled(q, u, e)
      PROVE  Goal
  BY <1>4, <1>s, <1>g DEF Register, AdminCreate, SetEnabled, Judge
<1>5. ASSUME Record PROVE Goal
  BY <1>5, <1>s, <1>g DEF Record
<1>6. ASSUME UNCHANGED upVars PROVE Goal
  BY <1>6, <1>s, <1>g DEF upVars
<1>7. Goal
  BY <1>1, <1>2, <1>3, <1>4, <1>5, <1>6 DEF UpNext
<1> QED BY <1>7 DEF Goal

\* Where a process serves, or a command works, the schema is complete.
LEMMA OpenIsComplete ==
  ASSUME UpTypeOK, PassedInEffect, NEW p \in Procs, Open(p)
  PROVE  /\ tables = Tables
         /\ cols = Columns
         /\ indexes = Indexes
         /\ casts <= 1
         /\ \A u \in DOMAIN rows : ~Unverified(rows[u])
<1>0. line[p] = 25 /\ Len(Recipe) = 24
  BY Standing, RecipeShape
<1>1. \A i \in 1 .. 24 : InEffect(Recipe[i])
  BY <1>0 DEF PassedInEffect
<1>2. Tables \subseteq tables
  <2> SUFFICES ASSUME NEW t \in Tables PROVE t \in tables
    OBVIOUS
  <2>1. PICK i \in 1 .. 24 : Recipe[i] = Table(t)
    BY RecipeComplete
  <2>2. InEffect(Table(t))
    BY <1>1, <2>1
  <2> QED BY <2>2 DEF InEffect, Table
<1>3. Columns \subseteq cols
  <2> SUFFICES ASSUME NEW c \in Columns PROVE c \in cols
    OBVIOUS
  <2>1. PICK i \in 1 .. 24 : Recipe[i] = Column(c)
    BY RecipeComplete
  <2>2. InEffect(Column(c))
    BY <1>1, <2>1
  <2> QED BY <2>2 DEF InEffect, Column
<1>4. Indexes \subseteq indexes
  BY <1>1 DEF InEffect, Recipe, Index, Indexes
<1>5. casts <= 1
  <2>1. Recipe[10].do = "sweep"
    BY RecipeShape
  <2> QED BY <1>1, <2>1 DEF InEffect
<1>6. \A u \in DOMAIN rows : ~Unverified(rows[u])
  <2>1. Recipe[23].do = "delete"
    BY RecipeShape
  <2> QED BY <1>1, <2>1 DEF InEffect
<1>7. "email_verifications" \notin tables
  <2>1. Recipe[24].do = "drop"
    BY RecipeShape DEF Drop
  <2> QED BY <1>1, <2>1 DEF InEffect
<1> QED BY <1>2, <1>3, <1>4, <1>5, <1>6, <1>7 DEF UpTypeOK

\* Where the backfill is due, session_enabled is there already.
LEMMA EnabledWhenBackfilled ==
  ASSUME UpTypeOK, PassedInEffect, PhasesFit, NEW p \in Procs, phase[p] = "backfill"
  PROVE  "session_enabled" \in cols
<1>1. line[p] \in 1 .. 24 /\ Recipe[line[p]] = Column("approval_state")
  BY Standing DEF PhasesFit, At, Statement
<1>2. line[p] = 21 /\ Recipe[20] = Column("session_enabled")
  BY <1>1, EnabledBeforeApproved
<1>3. InEffect(Recipe[20])
  BY <1>2, RecipeShape DEF PassedInEffect
<1> QED BY <1>2, <1>3 DEF InEffect, Column

-----------------------------------------------------------------------------
(* The accounts.                                                            *)

UpInv ==
  /\ UpTypeOK
  /\ PassedInEffect
  /\ PhasesFit
  /\ RowsFitKinds
  /\ AccessFits

LEMMA AccountsInit == UpInit => RowsFitKinds /\ AccessFits
<1> SUFFICES ASSUME UpInit, NEW u \in Users
             PROVE  /\ was[u] = "none" => u \notin DOMAIN rows
                    /\ was[u] \in Mailed => u \in DOMAIN rows /\ {"email", "verified"} \subseteq rows[u]
                    /\ was[u] \in Mailless => u \in DOMAIN rows /\ "email" \notin rows[u]
                    /\ was[u] \in {"admin", "guest", "active"} =>
                         /\ "session_enabled" \in cols => "session_enabled" \in rows[u]
                         /\ "approval_state" \in cols => "approved" \in rows[u]
  BY DEF RowsFitKinds, AccessFits
<1>1. PICK v \in Releases : \E olds \in SUBSET Users :
      /\ cols = OldColumns(v)
      /\ was \in [Users -> OldKinds(v) \cup {"none"}]
      /\ \A w \in Users : (was[w] # "none") <=> (w \in olds)
      /\ rows = [w \in olds |-> OldRow(v, was[w])]
  BY DEF UpInit
<1>2. v \in 0 .. 7
  BY UpgradeAssumption
<1>3. PICK olds \in SUBSET Users :
      /\ cols = OldColumns(v)
      /\ was \in [Users -> OldKinds(v) \cup {"none"}]
      /\ \A w \in Users : (was[w] # "none") <=> (w \in olds)
      /\ rows = [w \in olds |-> OldRow(v, was[w])]
  BY <1>1
<1>4. CASE was[u] = "none"
  BY <1>3, <1>4 DEF Mailed, Mailless
<1>5. CASE was[u] # "none"
  <2>1. u \in DOMAIN rows /\ rows[u] = OldRow(v, was[u])
    BY <1>3, <1>5
  <2>2. "session_enabled" \in cols <=> v >= 4
    BY <1>2, <1>3 DEF OldColumns
  <2>3. "approval_state" \in cols <=> v >= 5
    BY <1>2, <1>3 DEF OldColumns
  <2> QED BY <1>5, <2>1, <2>2, <2>3 DEF OldRow, Mailed, Mailless
<1> QED BY <1>4, <1>5

\* The rows, one action at a time.
LEMMA RowsNext ==
  UpTypeOK /\ RowsFitKinds /\ [UpNext]_upVars => RowsFitKinds'
<1> SUFFICES ASSUME UpTypeOK, RowsFitKinds, [UpNext]_upVars, NEW u \in Users
             PROVE  /\ was'[u] = "none" => u \notin DOMAIN rows'
                    /\ was'[u] \in Mailed =>
                         u \in DOMAIN rows' /\ {"email", "verified"} \subseteq rows'[u]
                    /\ was'[u] \in Mailless => u \in DOMAIN rows' /\ "email" \notin rows'[u]
  BY DEF RowsFitKinds
<1> USE DEF RowsFitKinds, UpTypeOK
<1> DEFINE Fits == /\ was'[u] = "none" => u \notin DOMAIN rows'
                   /\ was'[u] \in Mailed =>
                        u \in DOMAIN rows' /\ {"email", "verified"} \subseteq rows'[u]
                   /\ was'[u] \in Mailless => u \in DOMAIN rows' /\ "email" \notin rows'[u]
<1>s. ASSUME UNCHANGED <<rows, was>> PROVE Fits
  BY <1>s
<1>1. ASSUME NEW p \in Procs, Migrate(p) PROVE Fits
  <2>1. CASE UNCHANGED <<rows, was>>
    BY <2>1, <1>s
  <2>2. CASE Alter(p) /\ Statement(p).of \notin cols
    <3> DEFINE c == Statement(p).of
    <3>1. DefaultOf(c) \cap {"email"} = {}
      BY DEF DefaultOf
    <3>2. /\ DOMAIN rows' = DOMAIN rows
          /\ \A w \in DOMAIN rows : rows'[w] = rows[w] \cup DefaultOf(c)
          /\ was' = was
      BY <2>2 DEF Alter
    <3> HIDE DEF c
    <3> QED BY <3>1, <3>2
  <2>3. CASE BackfillApprovals(p)
    BY <2>3 DEF BackfillApprovals
  <2>4. CASE DropUnverified(p)
    <3>1. was[u] \in Mailed \cup Mailless => ~Unverified(rows[u])
      BY DEF Unverified
    <3> QED BY <2>4, <3>1 DEF DropUnverified
  <2> QED BY <1>1, <2>1, <2>2, <2>3, <2>4 DEF Migrate, CreateTable, SweepRecordings,
        CreateIndex, Probe, Alter, DropTable
<1>2. ASSUME NEW p \in Procs, Boot(p) \/ Stop(p) \/ Exit(p) PROVE Fits
  BY <1>2, <1>s DEF Boot, Stop, Exit
<1>3. ASSUME NEW w \in Users, Register(w) PROVE Fits
  BY <1>3 DEF Register, Mailed, Mailless
<1>4. ASSUME NEW w \in Users, NEW e \in BOOLEAN, AdminCreate(w, e) PROVE Fits
  <2>1. CASE w = u
    BY <1>4, <2>1 DEF AdminCreate, Judge, Mailed, Mailless
  <2>2. CASE w # u
    BY <1>4, <2>2 DEF AdminCreate, Judge
  <2> QED BY <2>1, <2>2
<1>5. ASSUME NEW p \in Procs, NEW w \in Users, NEW e \in BOOLEAN, SetEnabled(p, w, e)
      PROVE  Fits
  BY <1>5 DEF SetEnabled, Judge
<1>6. ASSUME Record PROVE Fits
  BY <1>6, <1>s DEF Record
<1>7. ASSUME UNCHANGED upVars PROVE Fits
  BY <1>7, <1>s DEF upVars
<1> QED BY <1>1, <1>2, <1>3, <1>4, <1>5, <1>6, <1>7 DEF UpNext

\* Access, one action at a time: the backfill finds session_enabled there,
\* and every account with access has it, so it passes them by.
LEMMA AccessNext == UpInv /\ [UpNext]_upVars => AccessFits'
<1> SUFFICES ASSUME UpInv, [UpNext]_upVars, NEW u \in Users, u \notin judged',
                    was'[u] \in {"admin", "guest", "active"}
             PROVE  /\ "session_enabled" \in cols' => "session_enabled" \in rows'[u]
                    /\ "approval_state" \in cols' => "approved" \in rows'[u]
  BY DEF AccessFits
<1> USE DEF UpInv
<1> DEFINE Fits == /\ "session_enabled" \in cols' => "session_enabled" \in rows'[u]
                   /\ "approval_state" \in cols' => "approved" \in rows'[u]
<1>j. judged \subseteq judged'
  BY DEF UpNext, Migrate, CreateTable, SweepRecordings, CreateIndex, Probe, Alter,
     BackfillApprovals, DropUnverified, DropTable, Boot, Stop, Exit, Register,
     AdminCreate, SetEnabled, Judge, Record, upVars
<1>h. ASSUME was'[u] = was[u]
      PROVE  /\ u \in DOMAIN rows
             /\ "session_enabled" \in cols => "session_enabled" \in rows[u]
             /\ "approval_state" \in cols => "approved" \in rows[u]
             /\ ~Unverified(rows[u])
  BY <1>h, <1>j DEF AccessFits, RowsFitKinds, Mailed, Mailless, Unverified
<1>s. ASSUME UNCHANGED <<rows, was, cols>> PROVE Fits
  BY <1>s, <1>h
<1>1. ASSUME NEW p \in Procs, Migrate(p) PROVE Fits
  <2>0. was'[u] = was[u]
    BY <1>1 DEF Migrate, CreateTable, SweepRecordings, CreateIndex, Probe, Alter,
       BackfillApprovals, DropUnverified, DropTable
  <2>1. CASE CreateTable(p)
    <3>1. cols' \ cols \subseteq {"closed_reason", "created_at"} /\ rows' = rows
      BY <2>1 DEF CreateTable, BornWith
    <3> QED BY <2>0, <3>1, <1>h
  <2>2. CASE SweepRecordings(p) \/ CreateIndex(p) \/ Probe(p) \/ DropTable(p)
    BY <2>2, <1>s DEF SweepRecordings, CreateIndex, Probe, DropTable
  <2>3. CASE Alter(p)
    <3> DEFINE c == Statement(p).of
    <3>1. CASE c \in cols
      BY <2>3, <3>1, <1>s DEF Alter
    <3>2. CASE c \notin cols
      <4>1. /\ cols' = cols \cup {c}
            /\ rows' = [w \in DOMAIN rows |-> rows[w] \cup DefaultOf(c)]
        BY <2>3, <3>2 DEF Alter
      <4> HIDE DEF c
      <4>2. rows'[u] = rows[u] \cup DefaultOf(c)
        BY <2>0, <4>1, <1>h
      <4> QED BY <2>0, <4>1, <4>2, <1>h DEF DefaultOf
    <3> QED BY <3>1, <3>2
  <2>4. CASE BackfillApprovals(p)
    <3>1. "session_enabled" \in cols
      BY <2>4, EnabledWhenBackfilled DEF BackfillApprovals
    <3>2. ~LooksWaiting(rows[u])
      BY <2>0, <3>1, <1>h DEF LooksWaiting
    <3> QED BY <2>0, <2>4, <3>2, <1>h DEF BackfillApprovals
  <2>5. CASE DropUnverified(p)
    BY <2>0, <2>5, <1>h DEF DropUnverified
  <2> QED BY <1>1, <2>1, <2>2, <2>3, <2>4, <2>5 DEF Migrate
<1>2. ASSUME NEW p \in Procs, Boot(p) \/ Stop(p) \/ Exit(p) PROVE Fits
  BY <1>2, <1>s DEF Boot, Stop, Exit
<1>3. ASSUME NEW w \in Users, Register(w) PROVE Fits
  <2>1. w # u
    BY <1>3 DEF Register, UpTypeOK
  <2>2. was'[u] = was[u] /\ cols' = cols
    BY <1>3, <2>1 DEF Register, UpTypeOK
  <2>3. rows'[u] = rows[u]
    BY <1>3, <2>1, <2>2, <1>h DEF Register
  <2> QED BY <2>2, <2>3, <1>h
<1>4. ASSUME NEW w \in Users, NEW e \in BOOLEAN, AdminCreate(w, e) PROVE Fits
  <2>1. w # u
    BY <1>4 DEF AdminCreate, Judge
  <2>2. was'[u] = was[u] /\ cols' = cols
    BY <1>4, <2>1 DEF AdminCreate, Judge, UpTypeOK
  <2>3. rows'[u] = rows[u]
    BY <1>4, <2>1, <2>2, <1>h DEF AdminCreate, Judge
  <2> QED BY <2>2, <2>3, <1>h
<1>5. ASSUME NEW p \in Procs, NEW w \in Users, NEW e \in BOOLEAN, SetEnabled(p, w, e)
      PROVE  Fits
  <2>1. w # u /\ was'[u] = was[u] /\ cols' = cols /\ rows'[u] = rows[u]
    BY <1>5 DEF SetEnabled, Judge
  <2> QED BY <2>1, <1>h
<1>6. ASSUME Record PROVE Fits
  BY <1>6, <1>s DEF Record
<1>7. ASSUME UNCHANGED upVars PROVE Fits
  BY <1>7, <1>s DEF upVars
<1> QED BY <1>1, <1>2, <1>3, <1>4, <1>5, <1>6, <1>7 DEF UpNext

LEMMA UpInvariant == UpSpec => []UpInv
<1>1. UpInit => UpInv
  BY UpTypeInit, PassedInit, PhasesInit, AccountsInit DEF UpInv
<1>2. UpInv /\ [UpNext]_upVars => UpInv'
  <2> SUFFICES ASSUME UpInv, [UpNext]_upVars PROVE UpInv'
    OBVIOUS
  <2> QED BY UpTypeNext, PassedNext, PhasesNext, RowsNext, AccessNext DEF UpInv
<1> QED BY <1>1, <1>2, PTL DEF UpSpec

(* The types of Upgrade.                                                    *)
THEOREM UpgradeTypes == UpSpec => []UpTypeOK
  BY UpInvariant, PTL DEF UpInv

(* A gateway that serves has the whole schema and no row of the first       *)
(* sign-up, whatever came before (sqlite.rs:48-162).                        *)
THEOREM SchemaIsCurrent == UpSpec => []ServesCurrentSchema
<1>1. UpInv => ServesCurrentSchema
  BY OpenIsComplete DEF UpInv, ServesCurrentSchema, Procs
<1> QED BY <1>1, UpInvariant, PTL

(* No account loses its access to an upgrade, however often it is cut short *)
(* (sqlite.rs:103-109).                                                     *)
THEOREM NobodyLockedOut == UpSpec => []AccessKept
<1>1. UpInv => AccessKept
  <2> SUFFICES ASSUME UpInv, Open(Gateway), NEW u \in Users \ judged,
                      was[u] \in {"admin", "guest", "active"}
               PROVE  u \in DOMAIN rows /\ {"session_enabled", "approved"} \subseteq rows[u]
    BY DEF AccessKept
  <2>1. cols = Columns
    BY OpenIsComplete DEF UpInv, Procs
  <2> QED BY <2>1 DEF UpInv, AccessFits, RowsFitKinds, Mailed, Mailless, Columns
<1> QED BY <1>1, UpInvariant, PTL

(* No boot deletes an account that is not one of the first sign-up          *)
(* (sqlite.rs:152-156).                                                     *)
THEOREM AccountsSurvive == UpSpec => []NobodyLost
<1>1. UpInv => NobodyLost
  BY DEF UpInv, UpTypeOK, NobodyLost, RowsFitKinds, Mailed, Mailless
<1> QED BY <1>1, UpInvariant, PTL

-----------------------------------------------------------------------------
(* The queue and the decisions, where the code keeps them.                  *)

LEMMA QueueInit == UpInit => QueueFits
<1> SUFFICES ASSUME UpInit, NEW u \in Users, was[u] = "waiting"
             PROVE  /\ LooksWaiting(rows[u])
                    /\ "session_enabled" \in cols
                    /\ "approved" \notin rows[u]
  BY DEF QueueFits
<1>1. PICK v \in Releases : \E olds \in SUBSET Users :
      /\ cols = OldColumns(v)
      /\ was \in [Users -> OldKinds(v) \cup {"none"}]
      /\ \A w \in Users : (was[w] # "none") <=> (w \in olds)
      /\ rows = [w \in olds |-> OldRow(v, was[w])]
  BY DEF UpInit
<1>2. v \in 0 .. 7
  BY UpgradeAssumption
<1>3. rows[u] = OldRow(v, was[u]) /\ was[u] \in OldKinds(v)
  BY <1>1
<1>4. v >= 4
  BY <1>2, <1>3 DEF OldKinds
<1> QED BY <1>1, <1>2, <1>3, <1>4 DEF OldRow, OldColumns, LooksWaiting

\* A backfill that is due is done by the process that added the column,
\* unless that process is killed right there.
LEMMA QueueNext == UpInv /\ QueueFits /\ [UpNext]_upVars => QueueFits'
<1> SUFFICES ASSUME UpInv, QueueFits, [UpNext]_upVars, NEW u \in Users, u \notin judged',
                    was'[u] = "waiting"
             PROVE  /\ LooksWaiting(rows'[u])
                    /\ "session_enabled" \in cols'
                    /\ "approved" \in rows'[u] => torn' \/ \E p \in Procs : phase'[p] = "backfill"
  BY DEF QueueFits, LooksWaiting
<1> USE DEF UpInv
<1> DEFINE Fits == /\ LooksWaiting(rows'[u])
                   /\ "session_enabled" \in cols'
                   /\ "approved" \in rows'[u] => torn' \/ \E p \in Procs : phase'[p] = "backfill"
<1>j. judged \subseteq judged'
  BY DEF UpNext, Migrate, CreateTable, SweepRecordings, CreateIndex, Probe, Alter,
     BackfillApprovals, DropUnverified, DropTable, Boot, Stop, Exit, Register,
     AdminCreate, SetEnabled, Judge, Record, upVars
<1>h. ASSUME was'[u] = was[u]
      PROVE  /\ u \in DOMAIN rows
             /\ LooksWaiting(rows[u])
             /\ "session_enabled" \in cols
             /\ "approved" \in rows[u] => torn \/ \E p \in Procs : phase[p] = "backfill"
             /\ ~Unverified(rows[u])
  BY <1>h, <1>j DEF QueueFits, RowsFitKinds, Mailed, Unverified
<1>t. torn => torn'
  BY DEF UpNext, Migrate, CreateTable, SweepRecordings, CreateIndex, Probe, Alter,
     BackfillApprovals, DropUnverified, DropTable, Boot, Stop, Exit, Register,
     AdminCreate, SetEnabled, Judge, Record, upVars
<1>s. ASSUME was'[u] = was[u], rows'[u] = rows[u], cols \subseteq cols',
             \/ torn'
             \/ \A p \in Procs : phase[p] = "backfill" => phase'[p] = "backfill"
      PROVE  Fits
  BY <1>s, <1>h, <1>t
<1> HIDE DEF Fits
<1>1. ASSUME NEW p \in Procs, Migrate(p) PROVE Fits
  <2>0. was'[u] = was[u]
    BY <1>1 DEF Migrate, CreateTable, SweepRecordings, CreateIndex, Probe, Alter,
       BackfillApprovals, DropUnverified, DropTable
  <2>p. ASSUME phase[p] # "backfill", Advance(p) \/ Dies(p)
        PROVE  \A q \in Procs : phase[q] = "backfill" => phase'[q] = "backfill"
    BY <2>p DEF Advance, Dies, UpTypeOK
  <2>1. CASE CreateTable(p) \/ SweepRecordings(p) \/ CreateIndex(p) \/ DropTable(p)
    <3>1. phase[p] # "backfill"
      BY <2>1 DEF CreateTable, SweepRecordings, CreateIndex, DropTable, At, PhasesFit
    <3>2. (Advance(p) \/ Dies(p)) /\ rows' = rows /\ cols \subseteq cols'
      BY <2>1 DEF CreateTable, SweepRecordings, CreateIndex, DropTable
    <3> QED BY <2>0, <2>p, <3>1, <3>2, <1>s
  <2>2. CASE Probe(p)
    <3>1. \A q \in Procs : phase[q] = "backfill" => phase'[q] = "backfill"
      BY <2>2, <2>p DEF Probe, UpTypeOK
    <3> QED BY <2>0, <2>2, <3>1, <1>s DEF Probe
  <2>3. CASE Alter(p)
    <3> DEFINE c == Statement(p).of
    <3>0. phase[p] = "alter"
      BY <2>3 DEF Alter
    <3>1. CASE c \in cols
      <4>1. Dies(p) /\ UNCHANGED <<cols, rows>>
        BY <2>3, <3>1 DEF Alter
      <4> QED BY <2>0, <2>p, <3>0, <4>1, <1>s
    <3>2. CASE c \notin cols
      <4>1. /\ cols' = cols \cup {c}
            /\ rows' = [w \in DOMAIN rows |-> rows[w] \cup DefaultOf(c)]
            /\ c = "approval_state" => phase' = [phase EXCEPT ![p] = "backfill"]
            /\ c # "approval_state" => Advance(p)
        BY <2>3, <3>2 DEF Alter
      <4>2. c # "session_enabled"
        BY <2>0, <3>2, <1>h
      <4> HIDE DEF c
      <4>3. rows'[u] = rows[u] \cup DefaultOf(c)
        BY <2>0, <4>1, <1>h
      <4>4. CASE c = "approval_state"
        <5>1. phase'[p] = "backfill"
          BY <4>1, <4>4 DEF UpTypeOK
        <5>2. LooksWaiting(rows'[u])
          BY <2>0, <4>3, <4>4, <1>h DEF LooksWaiting, DefaultOf
        <5> QED BY <2>0, <4>1, <5>1, <5>2, <1>h DEF Fits
      <4>5. CASE c # "approval_state"
        <5>1. rows'[u] = rows[u]
          BY <4>2, <4>3, <4>5 DEF DefaultOf
        <5> QED BY <2>0, <2>p, <3>0, <4>1, <4>5, <5>1, <1>s
      <4> QED BY <4>4, <4>5
    <3> QED BY <3>1, <3>2
  <2>4. CASE BackfillApprovals(p)
    <3>1. rows'[u] = rows[u] \ {"approved"}
      BY <2>0, <2>4, <1>h DEF BackfillApprovals
    <3> QED BY <2>0, <2>4, <3>1, <1>h DEF BackfillApprovals, LooksWaiting, Fits
  <2>5. CASE DropUnverified(p)
    <3>1. phase[p] # "backfill"
      BY <2>5 DEF DropUnverified, At, PhasesFit
    <3>2. Advance(p) /\ rows'[u] = rows[u] /\ cols' = cols
      BY <2>0, <2>5, <1>h DEF DropUnverified
    <3> QED BY <2>0, <2>p, <3>1, <3>2, <1>s
  <2> QED BY <1>1, <2>1, <2>2, <2>3, <2>4, <2>5 DEF Migrate
<1>2. ASSUME NEW p \in Procs, Boot(p) PROVE Fits
  BY <1>2, <1>s DEF Boot
<1>3. ASSUME NEW p \in Procs, Stop(p) PROVE Fits
  <2>1. UNCHANGED <<rows, was, cols>> /\ Dies(p)
    BY <1>3 DEF Stop
  <2>2. CASE phase[p] = "backfill"
    BY <1>3, <2>1, <2>2, <1>s DEF Stop
  <2>3. CASE phase[p] # "backfill"
    <3>1. \A q \in Procs : phase[q] = "backfill" => phase'[q] = "backfill"
      BY <2>1, <2>3 DEF Dies, UpTypeOK
    <3> QED BY <2>1, <3>1, <1>s
  <2> QED BY <2>2, <2>3
<1>4. ASSUME NEW p \in Procs, Exit(p) PROVE Fits
  <2>1. phase[p] # "backfill"
    BY <1>4, RecipeShape, Standing DEF Exit, PhasesFit, At
  <2> QED BY <1>4, <2>1, <1>s DEF Exit, Dies, UpTypeOK
<1>5. ASSUME NEW w \in Users, Register(w) PROVE Fits
  <2>1. CASE w = u
    <3>1. cols' = Columns
      BY <1>5, OpenIsComplete DEF Register, Procs
    <3>2. rows'[u] = {"email", "verified"}
      BY <1>5, <2>1 DEF Register
    <3> QED BY <3>1, <3>2 DEF LooksWaiting, Columns, Fits
  <2>2. CASE w # u
    <3>1. was'[u] = was[u]
      BY <1>5, <2>2 DEF Register, UpTypeOK
    <3> QED BY <1>5, <2>2, <3>1, <1>h, <1>s DEF Register
  <2> QED BY <2>1, <2>2
<1>6. ASSUME NEW w \in Users, NEW e \in BOOLEAN, AdminCreate(w, e) PROVE Fits
  <2>1. w # u
    BY <1>6 DEF AdminCreate, Judge
  <2>2. was'[u] = was[u]
    BY <1>6, <2>1 DEF AdminCreate, Judge, UpTypeOK
  <2> QED BY <1>6, <2>1, <2>2, <1>h, <1>s DEF AdminCreate, Judge
<1>7. ASSUME NEW p \in Procs, NEW w \in Users, NEW e \in BOOLEAN, SetEnabled(p, w, e)
      PROVE  Fits
  <2>1. w # u /\ was' = was /\ cols' = cols /\ phase' = phase /\ rows'[u] = rows[u]
    BY <1>7 DEF SetEnabled, Judge
  <2> QED BY <2>1, <1>s
<1>8. ASSUME Record PROVE Fits
  BY <1>8, <1>s DEF Record
<1>9. ASSUME UNCHANGED upVars PROVE Fits
  BY <1>9, <1>s DEF upVars
<1>10. Fits
  BY <1>1, <1>2, <1>3, <1>4, <1>5, <1>6, <1>7, <1>8, <1>9 DEF UpNext
<1> QED BY <1>10 DEF Fits

(* The approval queue stays in its bucket, whichever process upgrades and   *)
(* whatever comes between or kills it, unless a kill falls between the      *)
(* ALTER and its backfill (sqlite.rs:110-130).                              *)
THEOREM QueueSurvives == UpSpec => []QueueKept
<1>1. UpInv /\ QueueFits => QueueKept
  <2> SUFFICES ASSUME UpInv, QueueFits, \A p \in Procs : ~Migrating(p), ~torn,
                      NEW u \in Users \ judged, was[u] = "waiting"
               PROVE  "approved" \notin rows[u]
    BY DEF QueueKept, AtRest, Queued
  <2> QED BY DEF UpInv, QueueFits, PhasesFit, At
<1>2. UpInit => QueueFits
  BY QueueInit
<1>3. UpInv /\ QueueFits /\ [UpNext]_upVars => QueueFits'
  BY QueueNext
<1> QED BY <1>1, <1>2, <1>3, UpInvariant, PTL DEF UpSpec

(* An upgrade leaves every account what it was (sqlite.rs:103-156).         *)
THEOREM AccountsUnchanged == UpSpec => []AccountsKept
  BY NobodyLockedOut, AccountsSurvive, QueueSurvives, PTL DEF AccountsKept

\* A backfill falls due only with a column that was missing.
LEMMA NoneFallsDue ==
  ASSUME UpInv, cols = Columns, NEW p \in Procs, Migrate(p)
  PROVE  \A q \in Procs : phase'[q] = "backfill" => phase[q] = "backfill"
<1> USE DEF UpInv
<1>1. ASSUME Advance(p) \/ Dies(p)
      PROVE  \A q \in Procs : phase'[q] = "backfill" => phase[q] = "backfill"
  BY <1>1 DEF Advance, Dies, UpTypeOK
<1>2. CASE Probe(p)
  BY <1>1, <1>2 DEF Probe, UpTypeOK
<1>3. CASE Alter(p)
  <2>1. Statement(p).of \in Columns
    BY <1>3, RecipeShape DEF Alter, At, Migrating, Statement, Column, Index, Drop
  <2> QED BY <1>1, <1>3, <2>1 DEF Alter
<1> QED BY <1>1, <1>2, <1>3 DEF Migrate, CreateTable, SweepRecordings, CreateIndex,
      BackfillApprovals, DropUnverified, DropTable

\* The schema is whole when somebody decides, and stays whole.
LEMMA DecidedNext ==
  UpInv /\ DecidedWhenComplete /\ [UpNext]_upVars => DecidedWhenComplete'
<1> SUFFICES ASSUME UpInv, DecidedWhenComplete, [UpNext]_upVars
             PROVE  DecidedWhenComplete'
  OBVIOUS
<1> USE DEF UpInv
<1> DEFINE Whole == /\ cols = Columns
                    /\ judged \subseteq DOMAIN rows
                    /\ \A u \in DOMAIN rows : ~Unverified(rows[u])
           NoneDue == \A p \in Procs : phase[p] # "backfill"
<1>h. (judged # {} => Whole) /\ (judged # rushed => NoneDue)
  BY DEF DecidedWhenComplete
<1>g. ASSUME judged' # {} => Whole', judged' # rushed' => NoneDue'
      PROVE  DecidedWhenComplete'
  BY <1>g DEF DecidedWhenComplete, Unverified
<1>r. rushed \subseteq judged
  BY DEF UpTypeOK
<1>o. ASSUME NEW p \in Procs, Open(p) PROVE Whole
  <2>1. judged \subseteq DOMAIN rows
    BY DEF DecidedWhenComplete
  <2> QED BY <1>o, <2>1, OpenIsComplete
<1>1. ASSUME NEW p \in Procs, Migrate(p) PROVE DecidedWhenComplete'
  <2>0. UNCHANGED <<judged, rushed>>
    BY <1>1 DEF Migrate, CreateTable, SweepRecordings, CreateIndex, Probe, Alter,
       BackfillApprovals, DropUnverified, DropTable
  <2>1. CASE judged = {}
    BY <2>0, <2>1, <1>r, <1>g
  <2>2. CASE judged # {}
    <3>1. cols' = cols
      <4>1. CASE CreateTable(p)
        <5>1. cols \subseteq cols' /\ cols' \subseteq Columns
          BY <4>1, UpTypeNext DEF CreateTable, UpTypeOK
        <5> QED BY <2>2, <5>1, <1>h
      <4>2. CASE Alter(p)
        <5>1. Statement(p).of \in Columns
          BY <4>2, RecipeShape DEF Alter, At, Migrating, Statement, Column, Index, Drop
        <5> QED BY <2>2, <4>2, <5>1, <1>h DEF Alter
      <4> QED BY <1>1, <4>1, <4>2 DEF Migrate, SweepRecordings, CreateIndex, Probe,
            BackfillApprovals, DropUnverified, DropTable
    <3>2. judged' \subseteq DOMAIN rows' /\ \A u \in DOMAIN rows' : ~Unverified(rows'[u])
      <4>1. CASE Alter(p)
        <5>1. Statement(p).of \in Columns
          BY <4>1, RecipeShape DEF Alter, At, Migrating, Statement, Column, Index, Drop
        <5> QED BY <2>0, <2>2, <4>1, <5>1, <1>h DEF Alter
      <4>2. CASE BackfillApprovals(p)
        BY <2>0, <2>2, <4>2, <1>h DEF BackfillApprovals, Unverified
      <4>3. CASE DropUnverified(p)
        BY <2>0, <2>2, <4>3, <1>h DEF DropUnverified
      <4> QED BY <1>1, <2>0, <2>2, <4>1, <4>2, <4>3, <1>h DEF Migrate, CreateTable,
            SweepRecordings, CreateIndex, Probe, DropTable
    <3>3. judged' # rushed' => NoneDue'
      BY <1>1, <2>0, <2>2, <1>h, NoneFallsDue
    <3> QED BY <2>0, <2>2, <3>1, <3>2, <3>3, <1>h, <1>g
  <2> QED BY <2>1, <2>2
<1>2. ASSUME NEW p \in Procs, Boot(p) \/ Stop(p) \/ Exit(p) PROVE DecidedWhenComplete'
  <2>1. UNCHANGED <<cols, rows, judged, rushed>>
    BY <1>2 DEF Boot, Stop, Exit
  <2>2. \A q \in Procs : phase'[q] = "backfill" => phase[q] = "backfill"
    BY <1>2 DEF Boot, Stop, Exit, Dies, UpTypeOK
  <2> QED BY <2>1, <2>2, <1>h, <1>g
<1>j. ASSUME NEW w \in Users, Judge(w), phase' = phase
      PROVE  judged' # rushed' => NoneDue'
  <2>1. CASE BackfillDue
    <3>1. judged = rushed
      BY <2>1, <1>h DEF BackfillDue
    <3> QED BY <2>1, <3>1, <1>j DEF Judge
  <2>2. CASE ~BackfillDue
    BY <2>2, <1>j DEF BackfillDue
  <2> QED BY <2>1, <2>2
<1>3. ASSUME NEW w \in Users, Register(w) PROVE DecidedWhenComplete'
  <2>1. Whole
    BY <1>3, <1>o DEF Register, Procs
  <2>2. Whole'
    BY <1>3, <2>1 DEF Register, Unverified
  <2> QED BY <1>3, <2>2, <1>h, <1>g DEF Register
<1>4. ASSUME NEW w \in Users, NEW e \in BOOLEAN, AdminCreate(w, e)
      PROVE  DecidedWhenComplete'
  <2>1. Whole
    BY <1>4, <1>o DEF AdminCreate, Procs
  <2>2. Whole'
    BY <1>4, <2>1 DEF AdminCreate, Judge, Unverified
  <2> QED BY <1>4, <2>2, <1>j, <1>g DEF AdminCreate, Judge
<1>5. ASSUME NEW p \in Procs, NEW w \in Users, NEW e \in BOOLEAN, SetEnabled(p, w, e)
      PROVE  DecidedWhenComplete'
  <2>1. Whole
    BY <1>5, <1>o DEF SetEnabled, Judge
  <2>2. Whole'
    BY <1>5, <2>1 DEF SetEnabled, Judge, Unverified
  <2> QED BY <1>5, <2>2, <1>j, <1>g DEF SetEnabled, Judge
<1>6. ASSUME Record PROVE DecidedWhenComplete'
  BY <1>6, <1>h, <1>g DEF Record
<1>7. ASSUME UNCHANGED upVars PROVE DecidedWhenComplete'
  BY <1>7, <1>h, <1>g DEF upVars
<1> QED BY <1>1, <1>2, <1>3, <1>4, <1>5, <1>6, <1>7 DEF UpNext

(* No decision of an administrator is undone by a later statement of any    *)
(* upgrade, whatever processes upgrade beside each other and whatever kills *)
(* them, unless it was made while a backfill was due (sqlite.rs:295-299).   *)
THEOREM DecisionsAreKept == UpSpec => DecisionsStand
<1>1. UpInv /\ DecidedWhenComplete /\ [UpNext]_upVars =>
        ((\E p \in Procs : Migrate(p)) =>
           \A u \in judged \ rushed : u \in DOMAIN rows' /\ rows'[u] = rows[u])
  <2> SUFFICES ASSUME UpInv, DecidedWhenComplete, NEW p \in Procs, Migrate(p),
                      NEW u \in judged \ rushed
               PROVE  u \in DOMAIN rows' /\ rows'[u] = rows[u]
    OBVIOUS
  <2> USE DEF UpInv
  <2>1. /\ cols = Columns
        /\ u \in DOMAIN rows
        /\ \A w \in DOMAIN rows : ~Unverified(rows[w])
        /\ \A q \in Procs : phase[q] # "backfill"
    BY DEF DecidedWhenComplete
  <2>2. CASE Alter(p)
    <3>1. Statement(p).of \in Columns
      BY <2>2, RecipeShape DEF Alter, At, Migrating, Statement, Column, Index, Drop
    <3> QED BY <2>1, <2>2, <3>1 DEF Alter
  <2>3. CASE BackfillApprovals(p)
    BY <2>1, <2>3 DEF BackfillApprovals
  <2>4. CASE DropUnverified(p)
    BY <2>1, <2>4 DEF DropUnverified
  <2>5. CASE CreateTable(p) \/ SweepRecordings(p) \/ CreateIndex(p) \/ Probe(p) \/ DropTable(p)
    BY <2>1, <2>5 DEF CreateTable, SweepRecordings, CreateIndex, Probe, DropTable
  <2> QED BY <2>2, <2>3, <2>4, <2>5 DEF Migrate
<1>2. UpInit => DecidedWhenComplete
  BY DEF UpInit, DecidedWhenComplete
<1>3. UpInv /\ DecidedWhenComplete /\ [UpNext]_upVars => DecidedWhenComplete'
  BY DecidedNext
<1> QED BY <1>1, <1>2, <1>3, UpInvariant, PTL DEF UpSpec, DecisionsStand

=============================================================================
